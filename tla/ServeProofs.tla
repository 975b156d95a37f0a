--------------------------- MODULE ServeProofs ---------------------------
(***************************************************************************)
(* What Serve promises for any directories and links, any jobs and plans and *)
(* any length of the session: what is read was consented to, the scope     *)
(* grows by consent only, a one-job grant is gone when its job is; the     *)
(* local copy accounts for everything the relay holds, a flagged result    *)
(* was reviewed, and every row of every job is answered once and in order. *)
(***************************************************************************)
EXTENDS Serve, NaturalsInduction, WellFoundedInduction, TLAPS

-----------------------------------------------------------------------------
(* Steps, by what they do to the scope.                                    *)

\* handle is at a row.
AtRow == {"verdict", "execute", "review", "dropped", "write", "post", "sent"}

\* handle has prepared the rows.
Prepared == AtRow \cup {"prompt", "widen", "saveScope"}

\* handle is not at work, or has not asked the operator yet.
Before == {"join", "idle", "prepare", "prompt", "cleanup", "ended"}

\* The step is none of handle or of the end of the session.
Outside ==
    /\ UNCHANGED <<pc, level, allowed, paths, saved, job, rows, row, answer, meta, file,
                   log, consent>>
    /\ inbox \in Seq(Envelopes) => inbox' \in Seq(Envelopes)

\* The work on one row goes on.
RowStep ==
    /\ pc \in AtRow /\ pc' \in AtRow
    /\ pc' = "execute" => rows[row].state # "invalid" /\ answer # "deny"
    /\ UNCHANGED <<level, allowed, paths, saved, job, rows, row, answer, meta, file,
                   consent, inbox>>
    /\ log' = log \/ \E name \in {"rejected", "denied", "approved", "dropped"} :
                        log' = log \cup {Event(name, job.seq, row)}

\* handle, loop or join returns an error.
AbortStep ==
    /\ pc' = "cleanup" /\ Return /\ inbox' = <<>>
    /\ UNCHANGED <<level, meta, file, log, consent>>

\* Every step is one of these, or one that is looked at by itself.
LEMMA Shapes ==
    ASSUME [Next]_vars
    PROVE  \/ Outside \/ RowStep \/ AbortStep
           \/ Join \/ TakeJob \/ PrepareRows \/ Approve \/ WidenOnce \/ Widen \/ SaveScope
           \/ LogSent \/ Cleanup
  <1>1. ASSUME UNCHANGED vars \/ Ended \/ Stop \/ PollFails \/ CloseJobs PROVE Outside
    BY <1>1 DEF Outside, Ended, Stop, PollFails, CloseJobs, vars, runVars, scopeVars, jobVars,
                pollVars, diskVars, histVars
  <1>2. ASSUME Deliver PROVE Outside
    <2>1. PICK e \in Envelopes : inbox' = Append(inbox, e)
      BY <1>2 DEF Deliver
    <2>2. inbox \in Seq(Envelopes) => inbox' \in Seq(Envelopes)
      BY <2>1
    <2> QED BY <1>2, <2>2 DEF Outside, Deliver, runVars, scopeVars, jobVars, diskVars, histVars
  <1>3. ASSUME JoinFails \/ LoopEnds \/ WriteFails \/ PromptEnds \/ Interrupt \/ Exhausted
                \/ PostFails
        PROVE  AbortStep
    BY <1>3 DEF AbortStep, JoinFails, LoopEnds, WriteFails, PromptEnds, Interrupt, Exhausted,
                PostFails, Abort, StopPolling, diskVars, histVars
  <1>4. ASSUME Verdict PROVE RowStep
    <2>1. /\ pc = "verdict"
          /\ \/ pc' = "execute" /\ rows[row].state # "invalid" /\ answer # "deny"
             \/ pc' = "write"
          /\ \E name \in {"rejected", "denied", "approved"} :
                log' = log \cup {Event(name, job.seq, row)}
      BY <1>4, Zenon DEF Verdict
    <2> QED BY <1>4, <2>1 DEF RowStep, Verdict, AtRow, scopeVars, pollVars, histVars
  <1>5. ASSUME Execute \/ Review \/ WriteResult \/ Post PROVE RowStep
    BY <1>5, Zenon DEF RowStep, Execute, Review, WriteResult, Post, AtRow, scopeVars, jobVars,
                pollVars, diskVars, histVars
  <1>6. ASSUME LogDropped PROVE RowStep
    BY <1>6 DEF RowStep, LogDropped, AtRow, scopeVars, jobVars, pollVars, histVars
  <1> QED BY <1>1, <1>2, <1>3, <1>4, <1>5, <1>6, Zenon DEF Next, Step

-----------------------------------------------------------------------------
(* Names, and what resolve lets pass.                                      *)

\* EvalSymlinks of a name is a name.
LEMMA CanonName ==
    ASSUME NEW n \in Names
    PROVE  Canon(n) \in Names
  <1>1. \A m \in Names : <<DirCanon[m[1]], m[2]>> \in Names
    BY ServeAssumption DEF Names
  <1>2. Link[n] \in Names \cup {Nil}
    BY ServeAssumption
  <1> QED BY <1>1, <1>2 DEF Canon

\* A grant for the session is of directories.
LEMMA GrantDirs ==
    ASSUME NEW n \in Names
    PROVE  ScopeGrant(n) \in SUBSET Dirs
  <1>1. n[1] \in Dirs /\ DirCanon[n[1]] \in Dirs
    BY ServeAssumption DEF Names
  <1> QED BY <1>1 DEF ScopeGrant

\* A job that resolve lets pass reads only what the scope permits after links
\* are resolved.
LEMMA PreparedReads ==
    ASSUME NEW a, NEW p, NEW j \in Jobs
    PROVE  /\ Prepare(a, p, j).state \in {"run", "scope", "invalid"}
           /\ Prepare(a, p, j).reads \in SUBSET Names
           /\ Prepare(a, p, j).state = "run" =>
                \A n \in Prepare(a, p, j).reads : Permits(a, p, n)
  <1>1. j.kind \in JobKinds /\ j.name \in Names
    BY DEF Jobs
  <1>2. \A n \in Names : Resolve(a, p, n) \in {"run", "scope", "invalid"}
    BY DEF Resolve
  <1>3. \A n : Resolve(a, p, n) = "run" => Permits(a, p, Canon(n))
    BY DEF Resolve
  <1>4. CASE j.kind = "bad" \/ j.kind = "command"
    BY <1>4 DEF Prepare
  <1>5. CASE j.kind = "file"
    <2>1. Prepare(a, p, j) = [state |-> Resolve(a, p, j.name), reads |-> {Canon(j.name)}]
      BY <1>5 DEF Prepare
    <2>2. Canon(j.name) \in Names
      BY <1>1, CanonName
    <2> QED BY <1>1, <1>2, <1>3, <2>1, <2>2
  <1>6. CASE j.kind = "search"
    <2>1. Prepare(a, p, j) =
             [state |-> Resolve(a, p, j.name), reads |-> Matches(a, p, j.name[1])]
      BY <1>6 DEF Prepare
    <2>2. \A m \in Matches(a, p, j.name[1]) : m \in Names /\ Permits(a, p, m)
      <3>1. Present \subseteq Names
        BY ServeAssumption
      <3> QED BY <1>3, <3>1, CanonName DEF Matches
    <2> QED BY <1>1, <1>2, <2>1, <2>2
  <1> QED BY <1>1, <1>4, <1>5, <1>6 DEF JobKinds

-----------------------------------------------------------------------------
(* The rows of a job.                                                      *)

Rows == [job : Jobs \cup {Nil}, state : {"run", "widen", "invalid"}, reads : SUBSET Names,
         shown : BOOLEAN]

\* handle has the rows of a job from its first loop on.
RowsInv ==
    /\ pc \in Before \cup Prepared
    /\ level \in {0, 1}
    /\ inbox \in Seq(Envelopes)
    /\ rows \in Seq(Rows)
    /\ \A i \in DOMAIN rows : rows[i].state = "widen" => rows[i].job \in Jobs /\ level = 1
    /\ pc = "prepare" => job.plan \in Seq(Jobs) /\ job.plan # <<>>
    /\ pc \in Prepared => row \in DOMAIN rows

\* A row of handle's first loop. A row that is offered to widen the scope is on
\* the screen.
LEMMA NewRowFacts ==
    ASSUME level \in {0, 1}, NEW j \in Jobs
    PROVE  /\ NewRow(j) \in Rows /\ NewRow(j).job = j
           /\ NewRow(j).state = "widen" => level = 1 /\ NewRow(j).shown
           /\ NewRow(j).state = "run" => \A n \in NewRow(j).reads : Permits(allowed, paths, n)
  <1> DEFINE p == Prepare(allowed, paths, j)
             state == CASE p.state # "scope" -> p.state
                        [] p.state = "scope" /\ Offers(j) -> "widen"
                        [] OTHER -> "invalid"
  <1>1. /\ p.state \in {"run", "scope", "invalid"}
        /\ p.reads \in SUBSET Names
        /\ p.state = "run" => \A n \in p.reads : Permits(allowed, paths, n)
    BY PreparedReads
  <1>2. NewRow(j) = [job |-> j, state |-> state, reads |-> p.reads,
                     shown |-> level = 1 /\ state # "invalid"]
    BY DEF NewRow
  <1> HIDE DEF p
  <1>3. /\ state \in {"run", "widen", "invalid"}
        /\ state = "widen" => level = 1
        /\ state = "run" => p.state = "run"
    BY <1>1 DEF Offers
  <1> HIDE DEF state
  <1>4. NewRow(j) \in Rows
    BY <1>1, <1>2, <1>3 DEF Rows
  <1>5. NewRow(j).job = j /\ NewRow(j).state = state /\ NewRow(j).reads = p.reads
    BY <1>2
  <1>6. NewRow(j).shown = (level = 1 /\ state # "invalid")
    BY <1>2
  <1>7. state = "widen" => level = 1 /\ NewRow(j).shown
    BY <1>3, <1>6, Zenon
  <1> QED BY <1>1, <1>3, <1>4, <1>5, <1>7

\* The rows handle prepares again are in the scope now or invalid.
LEMMA RepreparedFacts ==
    ASSUME RowsInv, NEW a, NEW p, NEW new, new = Reprepared(a, p)
    PROVE  /\ new \in Seq(Rows) /\ DOMAIN new = DOMAIN rows
           /\ \A i \in DOMAIN rows : new[i].state # "widen"
           /\ \A i \in DOMAIN rows : new[i].state = "run" =>
                \/ rows[i].state = "run" /\ new[i].reads = rows[i].reads
                \/ \A n \in new[i].reads : Permits(a, p, n)
  <1>1. rows \in Seq(Rows) /\ DOMAIN rows = 1 .. Len(rows) /\ Len(rows) \in Nat
    BY DEF RowsInv
  <1>2. DOMAIN new = DOMAIN rows
    BY Zenon DEF Reprepared
  <1>3. ASSUME NEW i \in DOMAIN rows
        PROVE  /\ new[i] \in Rows /\ new[i].state # "widen"
               /\ new[i].state = "run" =>
                    \/ rows[i].state = "run" /\ new[i].reads = rows[i].reads
                    \/ \A n \in new[i].reads : Permits(a, p, n)
    <2>1. rows[i] \in Rows
      BY <1>1
    <2>2. CASE i \notin Widenings
      BY <2>1, <2>2, Zenon DEF Reprepared, Widenings
    <2>3. CASE i \in Widenings
      <3> DEFINE q == Prepare(a, p, rows[i].job)
                 state == IF q.state = "run" THEN "run" ELSE "invalid"
      <3>1. rows[i].job \in Jobs
        BY <2>3 DEF Widenings, RowsInv
      <3>2. /\ q.reads \in SUBSET Names
            /\ q.state = "run" => \A n \in q.reads : Permits(a, p, n)
        BY <3>1, PreparedReads, Zenon
      <3>3. new[i] = [rows[i] EXCEPT !.state = state, !.reads = q.reads]
        BY <2>3, Zenon DEF Reprepared
      <3> HIDE DEF q
      <3>4. new[i] \in Rows /\ new[i].state = state /\ new[i].reads = q.reads
        BY <2>1, <3>2, <3>3, Zenon DEF Rows
      <3> QED BY <3>2, <3>4
    <2> QED BY <2>2, <2>3
  <1>4. new \in [1 .. Len(rows) -> Rows]
    BY <1>1, <1>2, <1>3, Zenon DEF Reprepared
  <1>5. new \in Seq(Rows)
    BY <1>1, <1>4
  <1> QED BY <1>2, <1>3, <1>5

\* What handle keeps when nothing of a job changes.
LEMMA RowsKept ==
    ASSUME RowsInv, UNCHANGED <<level, job, rows, row>>, inbox' \in Seq(Envelopes),
           pc' = pc \/ (pc' \in Prepared /\ pc \in Prepared)
    PROVE  RowsInv'
  BY DEF RowsInv, Before, Prepared, AtRow

\* When handle returns there are none.
LEMMA RowsGone ==
    ASSUME RowsInv, Return, pc' \in {"idle", "cleanup"}, level' = level,
           inbox' \in Seq(Envelopes)
    PROVE  RowsInv'
  <1>1. rows' = <<>>
    BY DEF Return
  <1>2. rows' \in Seq(Rows) /\ DOMAIN rows' = {}
    BY <1>1
  <1> QED BY <1>2 DEF RowsInv, Before, Prepared, AtRow

\* Every step keeps this.
LEMMA RowsStep ==
    ASSUME RowsInv, [Next]_vars
    PROVE  RowsInv'
  <1>0. <<>> \in Seq(Envelopes) /\ inbox \in Seq(Envelopes)
    BY DEF RowsInv
  <1>1. CASE Outside
    BY <1>0, <1>1, RowsKept DEF Outside
  <1>2. CASE RowStep
    BY <1>0, <1>2, RowsKept DEF RowStep, Prepared
  <1>3. CASE AbortStep
    BY <1>0, <1>3, RowsGone DEF AbortStep
  <1>4. CASE Join
    <2>1. /\ pc' = "idle" /\ level' \in {level, 1}
          /\ UNCHANGED <<inbox, job, rows, row>>
      BY <1>4 DEF Join, jobVars
    <2> QED BY <2>1 DEF RowsInv, Before, Prepared, AtRow
  <1>5. CASE TakeJob
    <2> DEFINE e == Head(inbox)
    <2>1. pc = "idle" /\ inbox # <<>> /\ inbox' = Tail(inbox) /\ level' = level
      BY <1>5 DEF TakeJob
    <2>2. e \in Envelopes /\ inbox' \in Seq(Envelopes)
      BY <1>0, <2>1
    <2>3. e.plan \in Plans \/ e.plan = <<>>
      BY <2>2, Zenon DEF Envelopes
    <2>4. CASE UNCHANGED <<pc, job, rows, row>>
      BY <2>1, <2>2, <2>4, RowsKept
    <2>5. CASE job' = e /\ e.plan # <<>> /\ pc' = "prepare" /\ UNCHANGED <<row, rows>>
      <3>1. e.plan \in Seq(Jobs)
        BY <2>3, <2>5, ServeAssumption
      <3> QED BY <2>1, <2>2, <2>5, <3>1 DEF RowsInv, Before, Prepared, AtRow
    <2>6. CASE /\ pc' = "verdict" /\ row' = 1
               /\ rows' = <<[job |-> Nil, state |-> "invalid", reads |-> {}, shown |-> FALSE]>>
      <3> DEFINE bad == [job |-> Nil, state |-> "invalid", reads |-> {}, shown |-> FALSE]
      <3>1. bad \in Rows /\ bad.state = "invalid"
        BY DEF Rows
      <3> HIDE DEF bad
      <3>2. rows' = <<bad>>
        BY <2>6 DEF bad
      <3>3. rows' \in Seq(Rows) /\ DOMAIN rows' = {1} /\ rows'[1] = bad
        BY <3>1, <3>2
      <3> QED BY <2>1, <2>2, <2>6, <3>1, <3>3 DEF RowsInv, Before, Prepared, AtRow
    <2> QED BY <1>5, <2>4, <2>5, <2>6, Zenon DEF TakeJob
  <1>6. CASE PrepareRows
    <2>1. /\ pc = "prepare" /\ row' = 1
          /\ rows' = [i \in DOMAIN job.plan |-> NewRow(job.plan[i])]
          /\ pc' \in {"prompt", "widen", "verdict"}
          /\ UNCHANGED <<level, job, inbox>>
      BY <1>6 DEF PrepareRows, pollVars
    <2>2. job.plan \in Seq(Jobs) /\ job.plan # <<>> /\ level \in {0, 1}
      BY <2>1 DEF RowsInv
    <2>3. DOMAIN job.plan = 1 .. Len(job.plan) /\ Len(job.plan) \in Nat /\ 1 \in DOMAIN job.plan
      BY <2>2
    <2>4. ASSUME NEW i \in DOMAIN job.plan
          PROVE  /\ NewRow(job.plan[i]) \in Rows /\ NewRow(job.plan[i]).job \in Jobs
                 /\ NewRow(job.plan[i]).state = "widen" => level = 1
      <3>1. job.plan[i] \in Jobs
        BY <2>2, <2>4
      <3> QED BY <2>2, <3>1, NewRowFacts
    <2>5. rows' \in [1 .. Len(job.plan) -> Rows]
      BY <2>1, <2>3, <2>4
    <2>6. rows' \in Seq(Rows)
      BY <2>3, <2>5
    <2>7. \A i \in DOMAIN rows' : rows'[i].state = "widen" => rows'[i].job \in Jobs /\ level' = 1
      BY <2>1, <2>4
    <2>8. row' \in DOMAIN rows'
      BY <2>1, <2>3
    <2> QED BY <1>0, <2>1, <2>2, <2>6, <2>7, <2>8, Zenon DEF RowsInv, Before, Prepared, AtRow
  <1>7. CASE Approve \/ Widen
    <2>1. /\ pc \in Prepared /\ pc' \in Prepared
          /\ UNCHANGED <<level, job, rows, row, inbox>>
      BY <1>7, Zenon DEF Approve, Widen, Prepared, AtRow, jobVars, pollVars
    <2> QED BY <1>0, <2>1, RowsKept
  <1>8. CASE WidenOnce \/ SaveScope
    <2>1. /\ pc \in Prepared /\ pc' = "verdict"
          /\ UNCHANGED <<level, job, row, inbox>>
          /\ rows' = Reprepared(allowed, paths')
      BY <1>8, Zenon DEF WidenOnce, SaveScope, Prepared, AtRow, scopeVars, pollVars
    <2>2. /\ rows' \in Seq(Rows) /\ DOMAIN rows' = DOMAIN rows
          /\ \A i \in DOMAIN rows : rows'[i].state # "widen"
      BY <2>1, RepreparedFacts
    <2> QED BY <1>0, <2>1, <2>2, Zenon DEF RowsInv, Before, Prepared, AtRow
  <1>9. CASE LogSent
    <2>1. pc = "sent" /\ level' = level
      BY <1>9 DEF LogSent
    <2>2. CASE row < Len(rows)
      <3>1. pc' = "verdict" /\ row' = row + 1 /\ UNCHANGED <<job, rows, inbox>>
        BY <1>9, <2>2 DEF LogSent
      <3>2. row \in DOMAIN rows /\ rows \in Seq(Rows)
        BY <2>1 DEF RowsInv, Prepared, AtRow
      <3>3. row' \in DOMAIN rows'
        BY <2>2, <3>1, <3>2
      <3> QED BY <1>0, <2>1, <3>1, <3>3 DEF RowsInv, Before, Prepared, AtRow
    <2>3. CASE ~(row < Len(rows))
      <3>1. Return /\ pc' \in {"idle", "cleanup"} /\ inbox' \in {inbox, <<>>}
        BY <1>9, <2>3 DEF LogSent, StopPolling
      <3> QED BY <1>0, <2>1, <3>1, RowsGone, Zenon
    <2> QED BY <2>2, <2>3
  <1>10. CASE Cleanup
    <2>1. pc = "cleanup" /\ pc' = "ended" /\ UNCHANGED <<level, inbox, job, rows, row>>
      BY <1>10 DEF Cleanup, jobVars, pollVars
    <2> QED BY <2>1 DEF RowsInv, Before, Prepared, AtRow
  <1> QED BY <1>1, <1>2, <1>3, <1>4, <1>5, <1>6, <1>7, <1>8, <1>9, <1>10, Shapes, Zenon

-----------------------------------------------------------------------------
(* The scope and the operator's answers.                                   *)

\* Names are readable for one job only, which the operator has approved.
OnceInv ==
    /\ saved = {}
    /\ answer # "once" => paths = {}
    /\ pc \in Before => answer # "once"
    /\ pc = "join" => answer = "deny"
    /\ pc = "widen" => paths = {}
    /\ level = 1 /\ answer # "deny" => consent.job = job.seq
    /\ answer = "once" => consent.job = job.seq
    /\ paths \subseteq consent.names

\* Every step keeps this: handle's deferred function restores the names it
\* found, and it found none.
LEMMA OnceStep ==
    ASSUME RowsInv, OnceInv, [Next]_vars,
           pc = "widen" /\ answer = "once" => GrantedNames \subseteq consent.names
    PROVE  OnceInv'
  <1>1. CASE Outside
    BY <1>1 DEF Outside, OnceInv
  <1>2. CASE RowStep
    BY <1>2, Zenon DEF RowStep, OnceInv, Before, AtRow
  <1>3. ASSUME Return, pc' \in {"idle", "cleanup"}, UNCHANGED <<level, consent>> PROVE OnceInv'
    BY <1>3 DEF Return, Revoked, OnceInv
  <1>4. CASE AbortStep
    BY <1>3, <1>4, Zenon DEF AbortStep
  <1>5. CASE Join
    <2>1. /\ pc = "join" /\ pc' = "idle"
          /\ UNCHANGED <<saved, paths, answer, job, consent>>
      BY <1>5, Zenon DEF Join, scopeVars, jobVars, histVars
    <2> QED BY <2>1 DEF OnceInv, Before
  <1>6. CASE TakeJob
    <2>1. /\ pc = "idle" /\ UNCHANGED <<level, saved, paths, consent>>
          /\ \/ UNCHANGED <<pc, job, answer>>
             \/ pc' \in {"prepare", "verdict"} /\ answer' = IF level = 0 THEN "approve" ELSE "deny"
      BY <1>6 DEF TakeJob, scopeVars
    <2> QED BY <2>1 DEF OnceInv, RowsInv, Before
  <1>7. CASE PrepareRows
    <2>1. /\ pc = "prepare" /\ pc' \in {"prompt", "widen", "verdict"}
          /\ UNCHANGED <<level, saved, paths, answer, job, consent>>
      BY <1>7, Zenon DEF PrepareRows, scopeVars, histVars
    <2> QED BY <2>1, Zenon DEF OnceInv, Before
  <1>8. CASE Approve
    <2>1. PICK v \in {"approve", "deny", "once"} :
             /\ answer' = v
             /\ saved' = IF v = "once" THEN paths ELSE saved
             /\ pc' \in {"widen", "verdict"}
             /\ consent' = [job |-> IF v = "deny" THEN consent.job ELSE job.seq,
                            dirs |-> consent.dirs \cup (IF v = "approve" THEN GrantedDirs ELSE {}),
                            names |-> IF v = "once" THEN GrantedNames ELSE {}]
      BY <1>8, Zenon DEF Approve
    <2>2. pc = "prompt" /\ UNCHANGED <<level, paths, job>>
      BY <1>8 DEF Approve
    <2>3. paths = {}
      BY <2>2 DEF OnceInv, Before
    <2>4. v # "deny" => consent'.job = job'.seq
      BY <2>1, <2>2
    <2> QED BY <2>1, <2>2, <2>3, <2>4, Zenon DEF OnceInv, Before
  <1>9. CASE WidenOnce
    <2>1. /\ pc = "widen" /\ answer = "once" /\ paths' = paths \cup GrantedNames
          /\ pc' = "verdict" /\ UNCHANGED <<level, saved, job, answer, consent>>
      BY <1>9 DEF WidenOnce, histVars
    <2> QED BY <2>1 DEF OnceInv, Before
  <1>10. CASE Widen \/ SaveScope
    <2>1. /\ pc' \in {"saveScope", "verdict"}
          /\ UNCHANGED <<level, saved, paths, job, answer, consent>>
      BY <1>10 DEF Widen, SaveScope, scopeVars, jobVars, histVars
    <2> QED BY <2>1 DEF OnceInv, Before
  <1>11. CASE LogSent
    <2>1. \/ Return /\ pc' \in {"idle", "cleanup"}
          \/ pc' = "verdict" /\ UNCHANGED <<saved, paths, job, answer>>
      BY <1>11, Zenon DEF LogSent, scopeVars
    <2>2. UNCHANGED <<level, consent>>
      BY <1>11, Zenon DEF LogSent, histVars
    <2>3. CASE pc' = "verdict" /\ UNCHANGED <<saved, paths, job, answer>>
      BY <2>2, <2>3, Zenon DEF OnceInv, Before
    <2> QED BY <1>3, <2>1, <2>2, <2>3, Zenon
  <1>12. CASE Cleanup
    <2>1. /\ pc = "cleanup" /\ pc' = "ended"
          /\ UNCHANGED <<level, saved, paths, job, answer, consent>>
      BY <1>12 DEF Cleanup, scopeVars, jobVars, histVars
    <2> QED BY <2>1 DEF OnceInv, Before
  <1> QED BY <1>1, <1>2, <1>4, <1>5, <1>6, <1>7, <1>8, <1>9, <1>10, <1>11, <1>12, Shapes

\* The operator has seen what a grant adds, and the directories in the scope
\* were given on the command line or granted.
GrantInv ==
    /\ pc = "widen" /\ answer = "approve" => GrantedDirs \subseteq consent.dirs
    /\ pc = "widen" /\ answer = "once" => GrantedNames \subseteq consent.names
    /\ allowed \subseteq CommandLine \cup consent.dirs

\* Every step keeps this.
LEMMA GrantStep ==
    ASSUME RowsInv, OnceInv, GrantInv, [Next]_vars
    PROVE  GrantInv'
  <1>1. CASE Outside
    BY <1>1, Zenon DEF Outside, GrantInv, GrantedDirs, GrantedNames, Widenings
  <1>2. CASE RowStep
    BY <1>2 DEF RowStep, GrantInv, AtRow
  <1>3. ASSUME UNCHANGED <<allowed, consent>>, pc' # "widen" PROVE GrantInv'
    BY <1>3 DEF GrantInv
  <1>4. CASE AbortStep
    BY <1>3, <1>4 DEF AbortStep, Return
  <1>5. CASE Join \/ TakeJob
    <2>1. UNCHANGED <<allowed, consent>> /\ (pc' = "idle" \/ pc' \in {"prepare", "verdict"})
      BY <1>5, Zenon DEF Join, TakeJob, scopeVars, histVars
    <2> QED BY <1>3, <2>1
  <1>6. CASE PrepareRows
    <2>1. /\ pc = "prepare" /\ UNCHANGED <<allowed, consent>>
          /\ rows' = [i \in DOMAIN job.plan |-> NewRow(job.plan[i])]
          /\ pc' = IF \E i \in DOMAIN rows' : rows'[i].shown THEN "prompt"
                   ELSE IF \E i \in DOMAIN rows' : rows'[i].state = "widen" THEN "widen"
                   ELSE "verdict"
      BY <1>6, Zenon DEF PrepareRows, scopeVars, histVars
    <2>2. job.plan \in Seq(Jobs) /\ level \in {0, 1}
      BY <2>1 DEF RowsInv
    <2>3. \A i \in DOMAIN job.plan : job.plan[i] \in Jobs
      BY <2>2
    <2>4. \A i \in DOMAIN rows' : rows'[i].state = "widen" => rows'[i].shown
      BY <2>1, <2>2, <2>3, NewRowFacts
    <2>5. pc' # "widen"
      <3>1. CASE \E i \in DOMAIN rows' : rows'[i].shown
        BY <2>1, <3>1
      <3>2. CASE ~\E i \in DOMAIN rows' : rows'[i].shown
        <4>1. ~\E i \in DOMAIN rows' : rows'[i].state = "widen"
          BY <2>4, <3>2, Zenon
        <4> QED BY <2>1, <3>2, <4>1
      <3> QED BY <3>1, <3>2, Zenon
    <2> QED BY <1>3, <2>1, <2>5, Zenon
  <1>7. CASE Approve
    <2>1. PICK v \in {"approve", "deny", "once"} :
             /\ answer' = v
             /\ consent' = [job |-> IF v = "deny" THEN consent.job ELSE job.seq,
                            dirs |-> consent.dirs \cup (IF v = "approve" THEN GrantedDirs ELSE {}),
                            names |-> IF v = "once" THEN GrantedNames ELSE {}]
      BY <1>7, Zenon DEF Approve
    <2>2. UNCHANGED <<allowed, rows>>
      BY <1>7, Zenon DEF Approve
    <2>3. /\ consent'.dirs = consent.dirs \cup (IF v = "approve" THEN GrantedDirs ELSE {})
          /\ consent'.names = IF v = "once" THEN GrantedNames ELSE {}
      BY <2>1, Zenon
    <2>4. GrantedDirs' = GrantedDirs /\ GrantedNames' = GrantedNames
      BY <2>2 DEF GrantedDirs, GrantedNames, Widenings
    <2> QED BY <2>1, <2>2, <2>3, <2>4, Zenon DEF GrantInv
  <1>8. CASE WidenOnce \/ SaveScope
    <2>1. UNCHANGED <<allowed, consent>> /\ pc' = "verdict"
      BY <1>8, Zenon DEF WidenOnce, SaveScope, scopeVars, histVars
    <2> QED BY <1>3, <2>1, Zenon
  <1>9. CASE Widen
    <2>1. /\ pc = "widen" /\ answer = "approve" /\ allowed' = allowed \cup GrantedDirs
          /\ pc' = "saveScope" /\ consent' = consent
      BY <1>9 DEF Widen, histVars
    <2> QED BY <2>1 DEF GrantInv
  <1>10. CASE LogSent
    <2>1. UNCHANGED <<allowed, consent>> /\ pc' \in {"idle", "cleanup", "verdict"}
      BY <1>10 DEF LogSent, Return, scopeVars, histVars
    <2> QED BY <1>3, <2>1, Zenon
  <1>11. CASE Cleanup
    <2>1. UNCHANGED <<allowed, consent>> /\ pc' = "ended"
      BY <1>11 DEF Cleanup, scopeVars, histVars
    <2> QED BY <1>3, <2>1
  <1> QED BY <1>1, <1>2, <1>4, <1>5, <1>6, <1>7, <1>8, <1>9, <1>10, <1>11, Shapes, Zenon

\* A row that is going to run reads what the scope permits.
ReadInv ==
    /\ pc \in AtRow /\ answer # "deny" => Widenings = {}
    /\ \A i \in DOMAIN rows : rows[i].state = "run" =>
         \A n \in rows[i].reads : Permits(allowed, paths, n)
    /\ pc = "execute" => rows[row].state = "run" /\ answer # "deny"

\* Every step keeps this: the scope only grows while a job is at work, and rows
\* that were outside it are prepared again.
LEMMA ReadStep ==
    ASSUME RowsInv, OnceInv, ReadInv, [Next]_vars
    PROVE  ReadInv'
  <1>1. CASE Outside
    BY <1>1, Zenon DEF Outside, ReadInv, Widenings, Permits
  <1>2. CASE RowStep
    <2>1. /\ pc \in AtRow /\ UNCHANGED <<answer, rows, row, allowed, paths>>
          /\ pc' = "execute" => rows[row].state # "invalid" /\ answer # "deny"
      BY <1>2, Zenon DEF RowStep
    <2>2. row \in DOMAIN rows /\ rows \in Seq(Rows)
      BY <2>1 DEF RowsInv, Prepared
    <2>3. rows[row].state \in {"run", "widen", "invalid"}
      <3>1. rows[row] \in Rows
        BY <2>2
      <3> QED BY <3>1 DEF Rows
    <2>4. answer # "deny" => rows[row].state # "widen"
      BY <2>1, <2>2, Zenon DEF ReadInv, Widenings
    <2>5. Widenings' = Widenings
      BY <2>1 DEF Widenings
    <2>6. pc' = "execute" => rows'[row'].state = "run" /\ answer' # "deny"
      BY <2>1, <2>3, <2>4, Zenon
    <2> QED BY <2>1, <2>5, <2>6, Zenon DEF ReadInv, Permits
  <1>3. ASSUME Return, pc' \in {"idle", "cleanup"} PROVE ReadInv'
    <2>1. rows' = <<>>
      BY <1>3 DEF Return
    <2>2. DOMAIN rows' = {}
      BY <2>1
    <2> QED BY <1>3, <2>2 DEF ReadInv, AtRow
  <1>4. CASE AbortStep
    BY <1>3, <1>4, Zenon DEF AbortStep
  <1>5. CASE Join \/ Cleanup
    <2>1. pc' \in {"idle", "ended"} /\ UNCHANGED <<rows, allowed, paths>>
      BY <1>5, Zenon DEF Join, Cleanup, jobVars, scopeVars
    <2> QED BY <2>1 DEF ReadInv, AtRow, Permits
  <1>6. CASE TakeJob
    <2>1. pc = "idle" /\ UNCHANGED <<allowed, paths>>
      BY <1>6, Zenon DEF TakeJob, scopeVars
    <2>2. CASE pc' \in {"idle", "prepare"} /\ rows' = rows
      BY <2>1, <2>2, Zenon DEF ReadInv, AtRow, Permits
    <2>3. CASE /\ pc' = "verdict"
               /\ rows' = <<[job |-> Nil, state |-> "invalid", reads |-> {}, shown |-> FALSE]>>
      <3>1. \A i \in DOMAIN rows' : rows'[i].state = "invalid"
        BY <2>3
      <3> QED BY <2>3, <3>1 DEF ReadInv, Widenings
    <2> QED BY <1>6, <2>1, <2>2, <2>3, Zenon DEF TakeJob
  <1>7. CASE PrepareRows
    <2>1. /\ pc = "prepare" /\ UNCHANGED <<allowed, paths>>
          /\ rows' = [i \in DOMAIN job.plan |-> NewRow(job.plan[i])]
          /\ \/ pc' \in {"prompt", "widen"}
             \/ pc' = "verdict" /\ ~\E i \in DOMAIN rows' : rows'[i].state = "widen"
      BY <1>7, Zenon DEF PrepareRows, scopeVars
    <2>2. job.plan \in Seq(Jobs) /\ level \in {0, 1}
      BY <2>1, Zenon DEF RowsInv
    <2>3. \A i \in DOMAIN job.plan : job.plan[i] \in Jobs
      BY <2>2
    <2>4. \A i \in DOMAIN rows' : rows'[i].state = "run" =>
             \A n \in rows'[i].reads : Permits(allowed, paths, n)
      BY <2>1, <2>2, <2>3, NewRowFacts, Zenon
    <2>5. pc' \in AtRow => Widenings' = {}
      BY <2>1, Zenon DEF Widenings, AtRow
    <2> QED BY <2>1, <2>4, <2>5, Zenon DEF ReadInv, Permits
  <1>8. CASE Approve
    <2>1. /\ UNCHANGED <<rows, allowed, paths>>
          /\ pc' \in {"widen", "verdict"}
          /\ pc' = "verdict" => answer' = "deny" \/ Widenings = {}
      BY <1>8 DEF Approve
    <2>2. Widenings' = Widenings
      BY <2>1, Zenon DEF Widenings
    <2> QED BY <2>1, <2>2, Zenon DEF ReadInv, AtRow, Permits
  <1>9. CASE WidenOnce \/ SaveScope
    <2>1. /\ pc' = "verdict" /\ allowed' = allowed /\ paths \subseteq paths'
          /\ rows' = Reprepared(allowed, paths')
      BY <1>9, Zenon DEF WidenOnce, SaveScope, scopeVars
    <2>2. /\ DOMAIN rows' = DOMAIN rows
          /\ \A i \in DOMAIN rows : rows'[i].state # "widen"
          /\ \A i \in DOMAIN rows : rows'[i].state = "run" =>
               \/ rows[i].state = "run" /\ rows'[i].reads = rows[i].reads
               \/ \A n \in rows'[i].reads : Permits(allowed, paths', n)
      BY <2>1, RepreparedFacts
    <2>3. \A n : Permits(allowed, paths, n) => Permits(allowed, paths', n)
      BY <2>1, Zenon DEF Permits
    <2>4. \A i \in DOMAIN rows' : rows'[i].state = "run" =>
             \A n \in rows'[i].reads : Permits(allowed', paths', n)
      BY <2>1, <2>2, <2>3, Zenon DEF ReadInv
    <2>5. Widenings' = {}
      BY <2>2, Zenon DEF Widenings
    <2> QED BY <2>1, <2>4, <2>5, Zenon DEF ReadInv, Permits
  <1>10. CASE Widen
    <2>1. /\ pc' = "saveScope" /\ allowed \subseteq allowed' /\ UNCHANGED <<rows, paths>>
      BY <1>10 DEF Widen, jobVars
    <2>2. \A n : Permits(allowed, paths, n) => Permits(allowed', paths', n)
      BY <2>1, Zenon DEF Permits
    <2> QED BY <2>1, <2>2 DEF ReadInv, AtRow
  <1>11. CASE LogSent
    <2>1. CASE pc' = "verdict" /\ UNCHANGED <<rows, allowed, paths, answer>>
      <3>1. pc \in AtRow /\ Widenings' = Widenings
        BY <1>11, <2>1 DEF LogSent, AtRow, Widenings
      <3> QED BY <2>1, <3>1, Zenon DEF ReadInv, Permits
    <2>2. CASE Return /\ pc' \in {"idle", "cleanup"}
      BY <1>3, <2>2
    <2> QED BY <1>11, <2>1, <2>2, Zenon DEF LogSent, scopeVars
  <1> QED BY <1>1, <1>2, <1>4, <1>5, <1>6, <1>7, <1>8, <1>9, <1>10, <1>11, Shapes, Zenon

\* The three together, with what they rest on.
ConsentInv == RowsInv /\ OnceInv /\ GrantInv /\ ReadInv

\* Every state handle can reach agrees with the operator's answers.
LEMMA Consent == Spec => []ConsentInv
  <1>1. Init => ConsentInv
    <2> SUFFICES ASSUME Init PROVE ConsentInv
      BY Zenon
    <2>1. level \in {0, 1}
      BY ServeAssumption, Zenon DEF Init
    <2>2. rows = <<>> /\ inbox = <<>>
      BY DEF Init
    <2>3. rows \in Seq(Rows) /\ inbox \in Seq(Envelopes) /\ DOMAIN rows = {}
      BY <2>2
    <2>4. RowsInv
      BY <2>1, <2>3, Zenon DEF Init, RowsInv, Before, Prepared, AtRow
    <2>5. OnceInv
      BY Zenon DEF Init, OnceInv
    <2>6. GrantInv /\ ReadInv
      BY <2>3, Zenon DEF Init, GrantInv, ReadInv, AtRow
    <2> QED BY <2>4, <2>5, <2>6 DEF ConsentInv
  <1>2. ConsentInv /\ [Next]_vars => ConsentInv'
    BY RowsStep, OnceStep, GrantStep, ReadStep DEF ConsentInv, GrantInv
  <1> QED BY <1>1, <1>2, PTL DEF Spec

\* What handle is about to execute reads only what the command line or the
\* operator allowed, whatever links, globs and plans there are.
THEOREM Reads == Spec => []ReadsConsented
  <1>1. ConsentInv => ReadsConsented
    <2> SUFFICES ASSUME ConsentInv, pc = "execute"
                 PROVE  /\ level = 1 => consent.job = job.seq
                        /\ \A n \in rows[row].reads :
                             \/ n[1] \in CommandLine \cup consent.dirs
                             \/ consent.job = job.seq /\ n \in consent.names
      BY Zenon DEF ReadsConsented
    <2>1. row \in DOMAIN rows /\ rows[row].state = "run"
      BY DEF ConsentInv, RowsInv, ReadInv, Prepared, AtRow
    <2>2. \A n \in rows[row].reads : n \in paths \/ n[1] \in allowed
      BY <2>1, Zenon DEF ConsentInv, ReadInv, Permits
    <2>3. \A n \in paths : n \in consent.names /\ consent.job = job.seq
      BY Zenon DEF ConsentInv, OnceInv
    <2>4. allowed \subseteq CommandLine \cup consent.dirs
      BY DEF ConsentInv, GrantInv
    <2>5. ASSUME level = 1 PROVE consent.job = job.seq
      <3>1. answer # "deny"
        BY DEF ConsentInv, ReadInv
      <3> QED BY <2>5, <3>1, Zenon DEF ConsentInv, OnceInv
    <2> QED BY <2>2, <2>3, <2>4, <2>5, Zenon
  <1> QED BY <1>1, Consent, PTL

\* The scope grows only by what the operator approved, and the level stays.
THEOREM Grows == Spec => ScopeGrowsByConsent
  <1> DEFINE Good == /\ allowed \subseteq allowed'
                     /\ allowed' # allowed => /\ level = 1
                                              /\ consent.job = job.seq
                                              /\ allowed' \subseteq CommandLine \cup consent.dirs
                     /\ level <= level'
  <1>1. ASSUME ConsentInv, [Next]_vars PROVE Good
    <2>1. level \in {0, 1}
      BY <1>1 DEF ConsentInv, RowsInv
    <2>2. ASSUME allowed' = allowed, level' \in {level, 1} PROVE Good
      BY <2>1, <2>2
    <2>3. CASE Widen
      <3>1. /\ pc = "widen" /\ answer = "approve" /\ level' = level
            /\ allowed' = allowed \cup GrantedDirs
        BY <2>3, Zenon DEF Widen
      <3>2. allowed' \subseteq CommandLine \cup consent.dirs
        BY <1>1, <3>1, Zenon DEF ConsentInv, GrantInv
      <3>3. CASE Widenings = {}
        <4>1. allowed' = allowed
          BY <3>1, <3>3, Zenon DEF GrantedDirs
        <4> QED BY <2>2, <3>1, <4>1
      <3>4. CASE Widenings # {}
        <4>1. level = 1
          BY <1>1, <3>4, Zenon DEF ConsentInv, RowsInv, Widenings
        <4>2. consent.job = job.seq
          BY <1>1, <3>1, <4>1 DEF ConsentInv, OnceInv
        <4> QED BY <3>1, <3>2, <4>1, <4>2
      <3> QED BY <3>3, <3>4
    <2>4. CASE Join
      BY <2>2, <2>4, Zenon DEF Join, scopeVars
    <2>5. CASE Outside \/ RowStep \/ AbortStep
      BY <2>2, <2>5, Zenon DEF Outside, RowStep, AbortStep, Return
    <2>6. CASE TakeJob \/ PrepareRows \/ Approve \/ WidenOnce \/ SaveScope \/ Cleanup
      BY <2>2, <2>6, Zenon
         DEF TakeJob, PrepareRows, Approve, WidenOnce, SaveScope, Cleanup, scopeVars
    <2>7. CASE LogSent
      BY <2>2, <2>7, Zenon DEF LogSent, Return, scopeVars
    <2> QED BY <1>1, <2>3, <2>4, <2>5, <2>6, <2>7, Shapes, Zenon
  <1>2. ConsentInv /\ [Next]_vars => [Good]_vars
    BY <1>1
  <1>3. []ConsentInv /\ [][Next]_vars => [][Good]_vars
    BY <1>2, PTL
  <1> QED BY <1>3, Consent, PTL DEF Spec, ScopeGrowsByConsent

-----------------------------------------------------------------------------
(* The scope on disk.                                                      *)

\* A nonempty set of numbers has a least one.
LEMMA Least ==
    ASSUME NEW S \in SUBSET Nat, S # {}
    PROVE  \E m \in S : \A k \in S : ~(k < m)
  <1> DEFINE R == {ss \in Nat \X Nat : ss[1] < ss[2]}
  <1>1. IsWellFoundedOn(R, Nat)
    BY NatLessThanWellFounded DEF OpToRel
  <1> HIDE DEF R
  <1>2. PICK m \in S : \A k \in S : <<k, m>> \notin R
    BY <1>1, WFMin, Zenon
  <1> QED BY <1>2, Zenon DEF R

\* What the rows add in turn is what they add together.
LEMMA FreshCovers ==
    ASSUME RowsInv, NEW target, NEW grant, NEW i \in Widenings, NEW x \in grant[i], x \notin target
    PROVE  \E k \in Widenings : x \in Fresh(target, grant, k)
  <1> DEFINE S == {k \in Widenings : x \in grant[k]}
  <1>1. S \in SUBSET Nat /\ S # {}
    BY DEF RowsInv, Widenings
  <1>2. PICK m \in S : \A k \in S : ~(k < m)
    BY <1>1, Least, Zenon
  <1>3. x \in Fresh(target, grant, m)
    BY <1>2 DEF Fresh
  <1> QED BY <1>2, <1>3

\* The scope-added lines of jobs.log.
Added(l) == UNION {e.grant : e \in {e \in l : e.event = "scope-added"}}

\* Lines with other events add nothing to it.
LEMMA AddedKept ==
    ASSUME NEW l, NEW more, \A e \in more : e.event # "scope-added"
    PROVE  Added(l \cup more) = Added(l)
  BY DEF Added

\* The lines of widen add what the rows grant beyond the target.
LEMMA AddedGrown ==
    ASSUME RowsInv, NEW l, NEW target, NEW grant, target = CommandLine \cup Added(l),
           NEW more, more = GrantEvents("scope-added", target, grant)
    PROVE  CommandLine \cup Added(l \cup more) = target \cup UNION {grant[i] : i \in Widenings}
  <1>1. ASSUME NEW i PROVE
            LET e == [Event("scope-added", job.seq, i) EXCEPT !.grant = Fresh(target, grant, i)]
            IN  e.event = "scope-added" /\ e.grant = Fresh(target, grant, i)
    BY DEF Event
  <1>2. \A e \in more : \E i \in Widenings : e.grant = Fresh(target, grant, i)
    BY <1>1, Zenon DEF GrantEvents
  <1>3. \A i \in Widenings : Fresh(target, grant, i) \subseteq grant[i]
    BY DEF Fresh
  <1>4. Added(l \cup more) \subseteq Added(l) \cup UNION {grant[i] : i \in Widenings}
    BY <1>2, <1>3 DEF Added
  <1>5. ASSUME NEW i \in Widenings, NEW x \in grant[i], x \notin target
        PROVE  x \in Added(l \cup more)
    <2>1. PICK k \in Widenings : x \in Fresh(target, grant, k)
      BY <1>5, FreshCovers
    <2> DEFINE e == [Event("scope-added", job.seq, k) EXCEPT !.grant = Fresh(target, grant, k)]
    <2>2. e \in more
      BY <2>1 DEF GrantEvents
    <2>3. e.event = "scope-added" /\ x \in e.grant
      BY <1>1, <2>1
    <2> HIDE DEF e
    <2> QED BY <2>2, <2>3, Zenon DEF Added
  <1>6. Added(l) \subseteq Added(l \cup more)
    BY DEF Added
  <1> QED BY <1>4, <1>5, <1>6, ZenonT(30)

\* The scope is the one in session.json, except between widen's two writes, and
\* the one jobs.log tells of.
DiskInv ==
    /\ meta \in [level : {0, 1}, scope : SUBSET Dirs, ended : BOOLEAN]
    /\ allowed \subseteq Dirs
    /\ meta.scope = allowed
    /\ pc \notin {"saveScope", "cleanup", "ended"} => file.scope = allowed
    /\ allowed = CommandLine \cup Added(log)

\* Every step keeps this.
LEMMA DiskStep ==
    ASSUME RowsInv, DiskInv, [Next]_vars
    PROVE  DiskInv'
  <1>1. ASSUME UNCHANGED <<allowed, meta, file>>, Added(log') = Added(log),
               pc' \in {"saveScope", "cleanup", "ended"}
               \/ pc \notin {"saveScope", "cleanup", "ended"}
        PROVE  DiskInv'
    BY <1>1, Zenon DEF DiskInv
  <1>2. \A name, seq, r : Event(name, seq, r).event = name
    BY Zenon DEF Event
  <1>3. CASE Outside
    BY <1>3, Zenon DEF Outside, DiskInv
  <1>4. CASE RowStep
    <2>1. Added(log') = Added(log)
      <3>1. CASE log' = log
        BY <3>1, Zenon
      <3>2. ASSUME NEW name \in {"rejected", "denied", "approved", "dropped"},
                   log' = log \cup {Event(name, job.seq, row)}
            PROVE  Added(log') = Added(log)
        <4>1. \A e \in {Event(name, job.seq, row)} : e.event # "scope-added"
          BY <1>2
        <4> QED BY <3>2, <4>1, AddedKept, Zenon
      <3> QED BY <1>4, <3>1, <3>2 DEF RowStep
    <2> QED BY <1>1, <1>4, <2>1, Zenon DEF RowStep, AtRow
  <1>5. CASE AbortStep
    BY <1>1, <1>5 DEF AbortStep, Return
  <1>6. CASE Join
    <2>1. PICK via \in {"cli", "chat"} :
             /\ level' = IF via = "chat" THEN 1 ELSE level
             /\ meta' = [meta EXCEPT !.level = level']
      BY <1>6 DEF Join
    <2>2. /\ meta' \in [level : {0, 1}, scope : SUBSET Dirs, ended : BOOLEAN]
          /\ meta'.scope = meta.scope
      BY <2>1 DEF DiskInv, RowsInv
    <2>3. UNCHANGED <<allowed, log>> /\ file' = meta'
      BY <1>6, Zenon DEF Join, scopeVars
    <2> QED BY <2>2, <2>3 DEF DiskInv
  <1>7. CASE TakeJob \/ Approve
    BY <1>1, <1>7, Zenon DEF TakeJob, Approve, scopeVars, diskVars
  <1>8. CASE PrepareRows
    <2>1. \A e \in {Event("received", job.seq, i) : i \in DOMAIN job.plan} :
             e.event # "scope-added"
      BY <1>2
    <2>2. Added(log') = Added(log)
      BY <1>8, <2>1, AddedKept, Zenon DEF PrepareRows
    <2> QED BY <1>1, <1>8, <2>2, Zenon DEF PrepareRows, scopeVars
  <1>9. CASE WidenOnce
    <2> DEFINE grant == [i \in Widenings |-> PathGrant(rows[i].job)]
               more == GrantEvents("scope-added-once", paths, grant)
    <2>1. \A e \in more : e.event # "scope-added"
      BY Zenon DEF GrantEvents, Event
    <2>2. log' = log \cup more
      BY <1>9 DEF WidenOnce
    <2> HIDE DEF more
    <2>3. Added(log') = Added(log)
      BY <2>1, <2>2, AddedKept, Zenon
    <2> QED BY <1>1, <1>9, <2>3 DEF WidenOnce
  <1>10. CASE Widen
    <2> DEFINE grant == [i \in Widenings |-> ScopeGrant(rows[i].job.name)]
               more == GrantEvents("scope-added", allowed, grant)
    <2>1. /\ log' = log \cup more /\ allowed' = allowed \cup GrantedDirs
          /\ meta' = [meta EXCEPT !.scope = allowed'] /\ pc' = "saveScope"
      BY <1>10 DEF Widen
    <2>2. GrantedDirs = UNION {grant[i] : i \in Widenings}
      BY DEF GrantedDirs
    <2>3. GrantedDirs \subseteq Dirs
      <3>1. ASSUME NEW i \in Widenings PROVE ScopeGrant(rows[i].job.name) \in SUBSET Dirs
        <4>1. rows[i].job.name \in Names
          BY DEF RowsInv, Widenings, Jobs
        <4> QED BY <4>1, GrantDirs, Zenon
      <3> QED BY <3>1 DEF GrantedDirs
    <2> HIDE DEF grant
    <2>4. allowed' = CommandLine \cup Added(log')
      BY <2>1, <2>2, AddedGrown DEF DiskInv
    <2>5. allowed' \subseteq Dirs
      BY <2>1, <2>3 DEF DiskInv
    <2>6. /\ meta' \in [level : {0, 1}, scope : SUBSET Dirs, ended : BOOLEAN]
          /\ meta'.scope = allowed'
      BY <2>1, <2>5, Zenon DEF DiskInv
    <2> QED BY <2>1, <2>4, <2>5, <2>6, Zenon DEF DiskInv
  <1>11. CASE SaveScope
    BY <1>11, Zenon DEF SaveScope, scopeVars, DiskInv
  <1>12. CASE LogSent
    <2>1. \A e \in {Event("sent", nextResult, row)} : e.event # "scope-added"
      BY <1>2
    <2>2. Added(log') = Added(log)
      BY <1>12, <2>1, AddedKept, Zenon DEF LogSent
    <2>3. pc = "sent" /\ UNCHANGED <<allowed, meta, file>>
      BY <1>12 DEF LogSent, scopeVars, Return
    <2> QED BY <1>1, <2>2, <2>3
  <1>13. CASE Cleanup
    <2>1. /\ meta' = [meta EXCEPT !.ended = TRUE] /\ pc' = "ended"
          /\ UNCHANGED <<allowed, log>>
      BY <1>13 DEF Cleanup, scopeVars
    <2>2. /\ meta' \in [level : {0, 1}, scope : SUBSET Dirs, ended : BOOLEAN]
          /\ meta'.scope = meta.scope
      BY <2>1, Zenon DEF DiskInv
    <2> QED BY <2>1, <2>2 DEF DiskInv
  <1> QED BY <1>3, <1>4, <1>5, <1>6, <1>7, <1>8, <1>9, <1>10, <1>11, <1>12, <1>13, Shapes, Zenon

\* The scope is always the one on disk.
LEMMA OnDisk == Spec => []DiskInv
  <1>1. Init => DiskInv
    <2> SUFFICES ASSUME Init PROVE DiskInv
      OBVIOUS
    <2>1. level \in {0, 1} /\ CommandLine \subseteq Dirs
      BY ServeAssumption, Zenon DEF Init
    <2>2. meta = [level |-> level, scope |-> CommandLine, ended |-> FALSE] /\ file = meta
      BY Zenon DEF Init
    <2>3. /\ meta \in [level : {0, 1}, scope : SUBSET Dirs, ended : BOOLEAN]
          /\ meta.scope = CommandLine
      BY <2>1, <2>2, Zenon
    <2>4. Added(log) = {}
      BY DEF Added, Init
    <2> QED BY <2>1, <2>2, <2>3, <2>4, Zenon DEF Init, DiskInv
  <1>2. ConsentInv /\ DiskInv /\ [Next]_vars => DiskInv'
    BY DiskStep DEF ConsentInv
  <1> QED BY <1>1, <1>2, Consent, PTL DEF Spec

\* Between jobs nothing is left of a one-job grant, and the scope is the one on
\* disk.
THEOREM Revocation == Spec => []OnceIsRevoked
  <1>1. ConsentInv /\ DiskInv => OnceIsRevoked
    BY DEF ConsentInv, OnceInv, DiskInv, OnceIsRevoked, Added, Before
  <1> QED BY <1>1, OnDisk, Consent, PTL

-----------------------------------------------------------------------------
(* Sequence numbers and results.                                           *)

\* handle is at work on a job.
Work == Prepared \cup {"prepare"}

\* The row has been executed, denied or rejected, and its result is not sent.
WithResult == {"review", "dropped", "write", "post"}

\* handle works on the job before nextJob, and what it sends is of the row it
\* has come to.
NumInv ==
    /\ nextJob \in 1 .. MaxSeq + 1 /\ nextResult \in 1 .. MaxSeq + 1
    /\ job \in Envelopes \cup {NoJob}
    /\ pc \in Work => job \in Envelopes /\ nextJob = job.seq + 1
    /\ pc \notin Prepared => row = 0 /\ rows = <<>>
    /\ result \in Results \cup {NoResult}
    /\ pc \in WithResult => result \in Results /\ result.job = job.seq /\ result.row = row
    /\ pc \in {"post", "sent"} => nextResult <= MaxSeq

\* The number of a job and of the row handle has come to.
LEMMA Current ==
    ASSUME NumInv, RowsInv, pc \in AtRow
    PROVE  job.seq \in 1 .. MaxSeq /\ row \in Nat
  <1>1. job \in Envelopes /\ nextJob = job.seq + 1 /\ nextJob \in 1 .. MaxSeq + 1
    BY Zenon DEF NumInv, Work, Prepared
  <1>2. job.seq \in Nat /\ job.seq >= 1
    <2>1. CASE job \in [seq : 1 .. MaxSeq, good : {TRUE}, plan : Plans]
      BY <2>1, ServeAssumption
    <2>2. CASE job \in [seq : {1}, good : {FALSE}, plan : {<<>>}]
      BY <2>2
    <2> QED BY <1>1, <2>1, <2>2, Zenon DEF Envelopes
  <1>3. job.seq \in 1 .. MaxSeq
    BY <1>1, <1>2, ServeAssumption
  <1>4. row \in Nat
    BY DEF RowsInv, Prepared
  <1> QED BY <1>3, <1>4, Zenon

\* A result that nothing was read for.
LEMMA NewResultFacts ==
    ASSUME NumInv, RowsInv, pc \in AtRow, NEW r,
           NEW status \in {"error", "denied", "rejected"}, r = NewResult(status, FALSE, {})
    PROVE  /\ r \in Results /\ r.job = job.seq /\ r.row = row
           /\ r.status = status /\ r.flagged = FALSE /\ r.reads = {}
  BY Current, Zenon DEF NewResult, Results

\* Steps between two rows leave the numbers alone.
LEMMA NumKept ==
    ASSUME NumInv, UNCHANGED <<nextJob, nextResult, job, row, rows, result>>,
           \/ pc' = pc
           \/ /\ pc \in Prepared /\ pc' \in Prepared
              /\ pc' \in WithResult => pc \in WithResult
              /\ pc' \in {"post", "sent"} => pc \in {"post", "sent"}
    PROVE  NumInv'
  BY Zenon DEF NumInv, Prepared, Work, WithResult

\* When handle returns it has no job.
LEMMA NumGone ==
    ASSUME NumInv, Return, pc' \in {"idle", "cleanup"}, nextJob' = nextJob,
           nextResult' \in 1 .. MaxSeq + 1
    PROVE  NumInv'
  BY Zenon DEF NumInv, Return, Prepared, Work, AtRow, WithResult

\* Every step keeps this.
LEMMA NumStep ==
    ASSUME RowsInv, NumInv, [Next]_vars
    PROVE  NumInv'
  <1>1. CASE UNCHANGED vars \/ Ended \/ Stop \/ PollFails \/ CloseJobs \/ Deliver
    BY <1>1, NumKept, Zenon DEF Ended, Stop, PollFails, CloseJobs, Deliver, vars, runVars, jobVars
  <1>2. CASE JoinFails \/ LoopEnds \/ WriteFails \/ PromptEnds \/ Interrupt \/ Exhausted
             \/ PostFails
    <2>1. Return /\ pc' = "cleanup" /\ UNCHANGED <<nextJob, nextResult>>
      BY <1>2, Zenon DEF JoinFails, LoopEnds, WriteFails, PromptEnds, Interrupt, Exhausted, PostFails,
                  Abort
    <2> QED BY <2>1, NumGone, Zenon DEF NumInv
  <1>3. CASE Join \/ Cleanup
    <2>1. /\ pc \in {"join", "cleanup"} /\ pc' \in {"idle", "ended"}
          /\ UNCHANGED <<nextJob, nextResult, job, row, rows, result>>
      BY <1>3, Zenon DEF Join, Cleanup, jobVars
    <2> QED BY <2>1, Zenon DEF NumInv, Prepared, Work, AtRow, WithResult
  <1>4. CASE TakeJob
    <2> DEFINE e == Head(inbox)
    <2>1. /\ pc = "idle" /\ inbox # <<>> /\ UNCHANGED <<nextResult, result>>
      BY <1>4, Zenon DEF TakeJob
    <2>2. CASE UNCHANGED <<pc, nextJob, job, rows, row>>
      BY <2>1, <2>2, NumKept, Zenon
    <2>3. CASE /\ Opens(e) /\ nextJob' = nextJob + 1 /\ job' = e
               /\ \/ pc' = "verdict"
                  \/ pc' = "prepare" /\ UNCHANGED <<row, rows>>
      <3>1. e \in Envelopes /\ e.good /\ e.seq = nextJob
        BY <2>1, <2>3 DEF Opens, RowsInv
      <3>2. e.seq \in 1 .. MaxSeq
        BY <3>1, Zenon DEF Envelopes
      <3>3. nextJob' \in 1 .. MaxSeq + 1
        BY <2>3, <3>1, <3>2, ServeAssumption
      <3> QED BY <2>1, <2>3, <3>1, <3>3, Zenon DEF NumInv, Prepared, Work, AtRow, WithResult
    <2> QED BY <1>4, <2>2, <2>3, Zenon DEF TakeJob
  <1>5. CASE PrepareRows
    <2>1. /\ pc = "prepare" /\ pc' \in {"prompt", "widen", "verdict"}
          /\ UNCHANGED <<nextJob, nextResult, job, result>>
      BY <1>5, Zenon DEF PrepareRows
    <2> QED BY <2>1, Zenon DEF NumInv, Prepared, Work, AtRow, WithResult
  <1>6. CASE Approve \/ Widen
    <2>1. /\ pc \in {"prompt", "widen"} /\ pc' \in {"widen", "saveScope", "verdict"}
          /\ UNCHANGED <<nextJob, nextResult, job, row, rows, result>>
      BY <1>6, Zenon DEF Approve, Widen, jobVars
    <2> QED BY <2>1, NumKept, Zenon DEF Prepared, AtRow, WithResult
  <1>7. CASE WidenOnce \/ SaveScope
    <2>1. /\ pc \in {"widen", "saveScope"} /\ pc' = "verdict"
          /\ UNCHANGED <<nextJob, nextResult, job, row, result>>
      BY <1>7, Zenon DEF WidenOnce, SaveScope
    <2> QED BY <2>1, Zenon DEF NumInv, Prepared, Work, AtRow, WithResult
  <1>8. ASSUME pc \in AtRow, UNCHANGED <<nextJob, nextResult, job, row, rows>>,
               pc' \in {"write", "review", "dropped"}, result' \in Results,
               result'.job = job.seq, result'.row = row
        PROVE  NumInv'
    BY <1>8, Zenon DEF NumInv, Prepared, Work, AtRow, WithResult
  <1>9. CASE Verdict
    <2>1. pc = "verdict" /\ UNCHANGED <<nextJob, nextResult, job, row, rows>>
      BY <1>9, Zenon DEF Verdict
    <2>2. CASE pc' = "execute" /\ result' = result
      BY <2>1, <2>2, NumKept, Zenon DEF Prepared, AtRow, WithResult
    <2>3. ASSUME NEW status \in {"denied", "rejected"}, pc' = "write",
                 result' = NewResult(status, FALSE, {})
          PROVE  NumInv'
      BY <1>8, <2>1, <2>3, NewResultFacts, Zenon DEF AtRow
    <2> QED BY <1>9, <2>2, <2>3, Zenon DEF Verdict
  <1>10. CASE Execute
    <2>1. pc = "execute" /\ UNCHANGED <<nextJob, nextResult, job, row, rows>>
      BY <1>10, Zenon DEF Execute
    <2>2. rows[row].reads \in SUBSET Names
      <3>1. rows[row] \in Rows
        BY <2>1 DEF RowsInv, Prepared, AtRow
      <3> QED BY <3>1, Zenon DEF Rows
    <2>3. CASE pc' = "write" /\ result' = NewResult("error", FALSE, {})
      BY <1>8, <2>1, <2>3, NewResultFacts, Zenon DEF AtRow
    <2>4. ASSUME NEW flagged \in Flaggings, pc' \in {"review", "write"},
                 result' = NewResult("ok", flagged, rows[row].reads)
          PROVE  NumInv'
      <3>1. result' \in Results /\ result'.job = job.seq /\ result'.row = row
        BY <2>1, <2>2, <2>4, Current, Zenon DEF AtRow, NewResult, Results, Flaggings
      <3> QED BY <1>8, <2>1, <2>4, <3>1, Zenon DEF AtRow
    <2> QED BY <1>10, <2>3, <2>4, Zenon DEF Execute
  <1>11. CASE Review
    <2>1. pc = "review" /\ UNCHANGED <<nextJob, nextResult, job, row, rows>>
      BY <1>11, Zenon DEF Review
    <2>2. CASE pc' = "write" /\ result' = result
      BY <2>1, <2>2, NumKept, Zenon DEF Prepared, AtRow, WithResult
    <2>3. CASE pc' = "dropped" /\ result' = NewResult("denied", FALSE, {})
      BY <1>8, <2>1, <2>3, NewResultFacts, Zenon DEF AtRow
    <2> QED BY <1>11, <2>2, <2>3, Zenon DEF Review
  <1>12. CASE LogDropped
    BY <1>12, NumKept, Zenon DEF LogDropped, jobVars, Prepared, AtRow, WithResult
  <1>13. CASE WriteResult \/ Post
    <2>1. /\ pc \in {"write", "post"} /\ pc' \in {"post", "sent"}
          /\ pc = "write" => nextResult <= MaxSeq
          /\ pc' = "post" => pc = "write"
          /\ UNCHANGED <<nextJob, nextResult, job, row, rows, result>>
      BY <1>13, Zenon DEF WriteResult, Post, jobVars
    <2> QED BY <2>1, Zenon DEF NumInv, Prepared, Work, AtRow, WithResult
  <1>14. CASE LogSent
    <2>1. pc = "sent" /\ nextJob' = nextJob /\ nextResult' = nextResult + 1
      BY <1>14, Zenon DEF LogSent
    <2>2. nextResult' \in 1 .. MaxSeq + 1
      BY <2>1, ServeAssumption DEF NumInv
    <2>3. CASE pc' = "verdict" /\ UNCHANGED <<job, rows, result>>
      BY <2>1, <2>2, <2>3, Zenon DEF NumInv, Prepared, Work, AtRow, WithResult
    <2>4. CASE Return /\ pc' \in {"idle", "cleanup"}
      BY <2>1, <2>2, <2>4, NumGone, Zenon
    <2> QED BY <1>14, <2>3, <2>4, Zenon DEF LogSent
  <1> QED BY <1>1, <1>2, <1>3, <1>4, <1>5, <1>6, <1>7, <1>9, <1>10, <1>11, <1>12, <1>13,
             <1>14, Zenon DEF Next, Step

-----------------------------------------------------------------------------
(* How the session ends.                                                   *)

\* loop returns without an error only for a sequence that is used up: whoever
\* closes the jobs channel has cancelled the context.
EndInv ==
    /\ poller \in {"off", "polling", "failed", "closed"}
    /\ stop \subseteq {"signal", "session"}
    /\ err \in {"none", "context", "interrupt", "failure"}
    /\ code \in {Nil, 0, 1}
    /\ poller \in {"failed", "closed"} => stop # {}
    /\ pc \in {"cleanup", "ended"} /\ err = "none" => nextJob > MaxSeq \/ nextResult > MaxSeq
    /\ pc # "ended" => code = Nil
    /\ code = 0 => err \in {"none", "interrupt"} \/ "signal" \in stop

\* Every step keeps this.
LEMMA EndStep ==
    ASSUME NumInv, RowsInv, EndInv, [Next]_vars
    PROVE  EndInv'
  <1>0. 0 # Nil /\ MaxSeq \in Nat
    BY ServeAssumption, Zenon
  <1>1. ASSUME UNCHANGED <<nextJob, nextResult, err, code, stop, poller>>, pc' = pc
        PROVE  EndInv'
    BY <1>1, Zenon DEF EndInv
  <1>2. ASSUME UNCHANGED <<err, code, stop, poller>>, pc \notin {"cleanup", "ended"},
               pc' \notin {"cleanup", "ended"}
        PROVE  EndInv'
    BY <1>2, Zenon DEF EndInv
  <1>3. CASE UNCHANGED vars \/ Ended \/ Deliver
    BY <1>1, <1>3, Zenon DEF Ended, Deliver, vars, runVars, pollVars
  <1>4. CASE Stop \/ PollFails \/ CloseJobs
    <2>1. /\ UNCHANGED <<pc, nextJob, nextResult, err, code>>
          /\ stop \subseteq stop' /\ stop' \subseteq {"signal", "session"}
          /\ \/ poller' = poller
             \/ poller' \in {"failed", "closed"} /\ stop' # {}
      BY <1>4, Zenon DEF Stop, PollFails, CloseJobs, runVars, EndInv
    <2> QED BY <2>1, Zenon DEF EndInv
  <1>5. ASSUME NEW e \in {"context", "interrupt", "failure"}, Abort(e), pc # "ended"
        PROVE  EndInv'
    BY <1>0, <1>5, Zenon DEF Abort, StopPolling, EndInv
  <1>6. CASE JoinFails \/ WriteFails \/ PromptEnds \/ Interrupt \/ Exhausted \/ PostFails
    <2>1. pc # "ended" /\ \E e \in {"context", "interrupt", "failure"} : Abort(e)
      BY <1>6, Zenon DEF JoinFails, WriteFails, PromptEnds, Interrupt, Exhausted, PostFails
    <2> QED BY <1>5, <2>1, Zenon
  <1>7. CASE LoopEnds
    <2>1. stop # {} /\ pc = "idle" /\ Abort("context")
      BY <1>7, Zenon DEF LoopEnds, EndInv
    <2> QED BY <1>5, <2>1, Zenon
  <1>8. CASE Join
    <2>1. /\ pc = "join" /\ pc' = "idle" /\ UNCHANGED <<err, code, stop>> /\ poller' = "polling"
      BY <1>8, Zenon DEF Join
    <2> QED BY <2>1, Zenon DEF EndInv
  <1>9. CASE TakeJob
    <2>1. /\ pc = "idle" /\ pc' \in {"idle", "verdict", "prepare"}
          /\ UNCHANGED <<err, code, stop, poller>>
      BY <1>9, Zenon DEF TakeJob
    <2> QED BY <1>2, <2>1, Zenon
  <1>10. CASE PrepareRows \/ Approve \/ WidenOnce \/ Widen \/ SaveScope
    <2>1. /\ pc \in Work /\ pc' \in Prepared /\ UNCHANGED <<err, code, stop, poller>>
      BY <1>10, Zenon DEF PrepareRows, Approve, WidenOnce, Widen, SaveScope, pollVars, Work, Prepared,
                   AtRow
    <2> QED BY <1>2, <2>1, Zenon DEF Work, Prepared, AtRow
  <1>11. CASE Verdict \/ Execute \/ Review \/ LogDropped \/ WriteResult \/ Post
    <2>1. /\ pc \in AtRow /\ pc' \in AtRow /\ UNCHANGED <<err, code, stop, poller>>
      BY <1>11, Zenon DEF Verdict, Execute, Review, LogDropped, WriteResult, Post, pollVars, AtRow
    <2> QED BY <1>2, <2>1, Zenon DEF AtRow
  <1>12. CASE LogSent
    <2>1. /\ pc = "sent" /\ UNCHANGED <<nextJob, err, code, stop>>
          /\ poller' \in {poller, "off"}
          /\ pc' = "cleanup" => job.seq = MaxSeq \/ nextResult' > MaxSeq
          /\ pc' \in {"verdict", "idle", "cleanup"}
      BY <1>12, Zenon DEF LogSent, StopPolling
    <2>2. nextJob = job.seq + 1 /\ job.seq \in Nat
      BY <2>1, Current DEF NumInv, Work, Prepared, AtRow
    <2>3. pc' = "cleanup" => nextJob' > MaxSeq \/ nextResult' > MaxSeq
      BY <1>0, <2>1, <2>2
    <2> QED BY <2>1, <2>3, Zenon DEF EndInv
  <1>13. CASE Cleanup
    <2>1. /\ pc = "cleanup" /\ pc' = "ended"
          /\ UNCHANGED <<nextJob, nextResult, err, stop, poller>>
          /\ \/ code' = IF err \in {"none", "interrupt"} \/ "signal" \in stop THEN 0 ELSE 1
             \/ code' = 1
      BY <1>13, Zenon DEF Cleanup, pollVars
    <2> QED BY <1>0, <2>1 DEF EndInv
  <1> QED BY <1>3, <1>4, <1>6, <1>7, <1>8, <1>9, <1>10, <1>11, <1>12, <1>13, Zenon DEF Next, Step

\* The first state.
LEMMA NumInit ==
    ASSUME Init
    PROVE  NumInv /\ EndInv
  <1>1. MaxSeq \in Nat /\ 0 # Nil
    BY ServeAssumption, Zenon
  <1>2. NumInv
    BY <1>1 DEF Init, NumInv, Work, Prepared, AtRow, WithResult
  <1>3. EndInv
    BY <1>1, Zenon DEF Init, EndInv
  <1> QED BY <1>2, <1>3, Zenon

\* What is proved of handle so far, together.
ServeInv == ConsentInv /\ DiskInv /\ NumInv /\ EndInv

\* It always holds.
LEMMA Served == Spec => []ServeInv
  <1>1. Init => NumInv /\ EndInv
    BY NumInit, Zenon
  <1>2. ConsentInv /\ NumInv /\ EndInv /\ [Next]_vars => NumInv' /\ EndInv'
    BY NumStep, EndStep, Zenon DEF ConsentInv
  <1>3. Spec => [](NumInv /\ EndInv)
    BY <1>1, <1>2, Consent, PTL DEF Spec
  <1> QED BY <1>3, Consent, OnDisk, PTL DEF ServeInv

\* Exit code 0 is never a relay that failed.
THEOREM Exit == Spec => []ExitTellsEnd
  <1>1. ServeInv => ExitTellsEnd
    BY ServeAssumption, Zenon DEF ServeInv, EndInv, ExitTellsEnd
  <1> QED BY <1>1, Served, PTL

-----------------------------------------------------------------------------
(* The local copy and the relay.                                           *)

\* A result is posted from "post" only, and after it has been copied.
LEMMA Posting ==
    ASSUME [Next]_vars
    PROVE  \/ /\ copies' = copies /\ posted' = posted /\ pc' \notin {"post", "sent"}
              /\ pc \in {"post", "cleanup"} => pc' \in {"cleanup", "ended"}
              /\ pc # "ended"
           \/ copies' = copies /\ posted' = posted /\ UNCHANGED <<pc, result, job, row>>
           \/ WriteResult
           \/ copies' = copies /\ Post
           \/ copies' = copies /\ PostFails
  <1>1. CASE UNCHANGED vars \/ Ended \/ Stop \/ Deliver \/ PollFails \/ CloseJobs
    BY <1>1, Zenon
       DEF Ended, Stop, Deliver, PollFails, CloseJobs, vars, runVars, jobVars, diskVars
  <1>2. CASE JoinFails \/ LoopEnds \/ WriteFails \/ PromptEnds \/ Interrupt \/ Exhausted
    BY <1>2, Zenon
       DEF JoinFails, LoopEnds, WriteFails, PromptEnds, Interrupt, Exhausted, Abort, diskVars
  <1>3. CASE Join \/ Approve \/ PrepareRows \/ WidenOnce \/ Widen \/ SaveScope \/ Cleanup
    BY <1>3, Zenon DEF Join, Approve, PrepareRows, WidenOnce, Widen, SaveScope, Cleanup, diskVars
  <1>4. CASE TakeJob
    <2>1. pc = "idle" /\ pc' \in {pc, "verdict", "prepare"} /\ UNCHANGED <<copies, posted>>
      BY <1>4, Zenon DEF TakeJob, diskVars
    <2> QED BY <2>1, Zenon
  <1>5. CASE Verdict \/ Execute \/ Review \/ LogDropped \/ LogSent
    BY <1>5, Zenon DEF Verdict, Execute, Review, LogDropped, LogSent, diskVars
  <1>6. CASE Post \/ PostFails
    BY <1>6, Zenon DEF Post, PostFails, diskVars
  <1> QED BY <1>1, <1>2, <1>3, <1>4, <1>5, <1>6, Zenon DEF Next, Step

\* What Append does.
LEMMA Appended ==
    ASSUME NEW S, NEW s \in Seq(S), NEW x \in S, NEW u, u = Append(s, x)
    PROVE  /\ u \in Seq(S) /\ Len(u) = Len(s) + 1 /\ u[Len(u)] = x
           /\ DOMAIN u = DOMAIN s \cup {Len(u)}
           /\ \A i \in DOMAIN s : u[i] = s[i]
  OBVIOUS

\* The relay has what the local copy has, but for the result on its way.
CopyInv ==
    /\ copies \in Seq(Results) /\ posted \in Seq(Results)
    /\ Len(posted) <= Len(copies)
    /\ \A i \in DOMAIN posted : posted[i] = copies[i]
    /\ pc \notin {"post", "cleanup", "ended"} => Len(copies) = Len(posted)
    /\ pc = "post" => Len(copies) = Len(posted) + 1 /\ copies[Len(copies)] = result

\* Every step keeps this.
LEMMA CopyStep ==
    ASSUME RowsInv, NumInv, CopyInv, [Next]_vars
    PROVE  CopyInv'
  <1>0. /\ copies \in Seq(Results) /\ posted \in Seq(Results)
        /\ Len(copies) \in Nat /\ Len(posted) \in Nat
        /\ DOMAIN copies = 1 .. Len(copies) /\ DOMAIN posted = 1 .. Len(posted)
    BY DEF CopyInv
  <1>1. CASE /\ copies' = copies /\ posted' = posted /\ pc' \notin {"post", "sent"}
             /\ pc \in {"post", "cleanup"} => pc' \in {"cleanup", "ended"}
             /\ pc # "ended"
    BY <1>1, Zenon DEF CopyInv
  <1>2. CASE copies' = copies /\ posted' = posted /\ UNCHANGED <<pc, result, job, row>>
    BY <1>2, Zenon DEF CopyInv
  <1>3. CASE WriteResult
    <2>1. /\ pc = "write" /\ copies' = Append(copies, result) /\ pc' = "post"
          /\ UNCHANGED <<posted, result>>
      BY <1>3, Zenon DEF WriteResult, jobVars
    <2>2. result \in Results
      BY <2>1, Zenon DEF NumInv, WithResult
    <2>3. /\ copies' \in Seq(Results) /\ Len(copies') = Len(copies) + 1
          /\ copies'[Len(copies')] = result
          /\ \A i \in DOMAIN copies : copies'[i] = copies[i]
      BY <1>0, <2>1, <2>2, Appended
    <2>4. Len(copies) = Len(posted) /\ DOMAIN posted = DOMAIN copies
      BY <1>0, <2>1, Zenon DEF CopyInv
    <2> QED BY <1>0, <2>1, <2>3, <2>4 DEF CopyInv
  <1>4. ASSUME pc = "post", copies' = copies, posted' = Append(posted, result),
               pc' \in {"sent", "cleanup"}
        PROVE  CopyInv'
    <2>1. result \in Results
      BY <1>4, Zenon DEF NumInv, WithResult
    <2>2. /\ posted' \in Seq(Results) /\ Len(posted') = Len(posted) + 1
          /\ posted'[Len(posted')] = result
          /\ DOMAIN posted' = DOMAIN posted \cup {Len(posted')}
          /\ \A i \in DOMAIN posted : posted'[i] = posted[i]
      BY <1>0, <1>4, <2>1, Appended
    <2>3. Len(posted') = Len(copies) /\ copies[Len(copies)] = result
      BY <1>4, <2>2, Zenon DEF CopyInv
    <2>4. \A i \in DOMAIN posted' : posted'[i] = copies'[i]
      BY <1>4, <2>2, <2>3, Zenon DEF CopyInv
    <2> QED BY <1>0, <1>4, <2>2, <2>3, <2>4 DEF CopyInv
  <1>5. CASE copies' = copies /\ Post
    BY <1>4, <1>5, Zenon DEF Post
  <1>6. CASE copies' = copies /\ PostFails
    <2>1. pc = "post" /\ pc' = "cleanup" /\ posted' \in {posted, Append(posted, result)}
      BY <1>6, Zenon DEF PostFails, Abort
    <2>2. CASE posted' = posted
      BY <1>0, <1>6, <2>1, <2>2, Zenon DEF CopyInv
    <2> QED BY <1>4, <1>6, <2>1, <2>2, Zenon
  <1> QED BY <1>1, <1>2, <1>3, <1>5, <1>6, Posting, Zenon

\* The log and session.json account for a result.
Explained(scope, l, r) ==
    /\ r.status \in {"ok", "error"} =>
         {Event("received", r.job, r.row), Event("approved", r.job, r.row)} \subseteq l
    /\ \A n \in r.reads :
         \/ n[1] \in scope
         \/ \E e \in l : e.event = "scope-added-once" /\ e.seq = r.job /\ n \in e.grant

\* They go on accounting for it: the scope and the log only grow.
LEMMA ExplainedLater ==
    ASSUME NEW scope, NEW l, NEW r, Explained(scope, l, r),
           NEW scope2, scope \subseteq scope2, NEW l2, l \subseteq l2
    PROVE  Explained(scope2, l2, r)
  BY Zenon DEF Explained

\* Every result on the relay or on its way is accounted for.
AuditInv ==
    /\ file.scope \subseteq allowed
    /\ \A i \in DOMAIN posted : Explained(file.scope, log, posted[i])
    /\ pc \in WithResult => Explained(file.scope, log, result)
    /\ \A n \in paths : \E e \in log :
         e.event = "scope-added-once" /\ e.seq = job.seq /\ n \in e.grant
    /\ pc \in Prepared => \A i \in DOMAIN rows :
         rows[i].state # "invalid" => Event("received", job.seq, i) \in log
    /\ pc = "execute" => Event("approved", job.seq, row) \in log

\* The disk forgets nothing.
LEMMA DiskGrows ==
    ASSUME DiskInv, DiskInv', file.scope \subseteq allowed, [Next]_vars
    PROVE  /\ log \subseteq log'
           /\ file.scope \subseteq file'.scope /\ file'.scope \subseteq allowed'
  <1>1. CASE Outside \/ RowStep \/ AbortStep
    BY <1>1, Zenon DEF Outside, RowStep, AbortStep, Return
  <1>2. CASE TakeJob \/ PrepareRows \/ Approve \/ WidenOnce \/ LogSent
    BY <1>2, Zenon
       DEF TakeJob, PrepareRows, Approve, WidenOnce, LogSent, Return, scopeVars, diskVars
  <1>3. CASE Widen
    BY <1>3, Zenon DEF Widen
  <1>4. CASE Join \/ SaveScope
    <2>1. UNCHANGED <<allowed, log>> /\ file' = meta'
      BY <1>4, Zenon DEF Join, SaveScope, scopeVars
    <2> QED BY <2>1, Zenon DEF DiskInv
  <1>5. CASE Cleanup
    <2>1. UNCHANGED <<allowed, log>> /\ file' \in {file, meta'}
      BY <1>5, Zenon DEF Cleanup, scopeVars
    <2> QED BY <2>1, Zenon DEF DiskInv
  <1> QED BY <1>1, <1>2, <1>3, <1>4, <1>5, Shapes, Zenon

\* Where a result comes from.
LEMMA ResultFrom ==
    ASSUME [Next]_vars, pc' \in WithResult
    PROVE  \/ pc \in WithResult /\ result' = result
           \/ /\ pc \in {"verdict", "review"}
              /\ \E status \in {"denied", "rejected"} : result' = NewResult(status, FALSE, {})
           \/ pc = "execute" /\ result' = NewResult("error", FALSE, {})
           \/ /\ pc = "execute"
              /\ \E flagged \in BOOLEAN :
                   result' = NewResult("ok", flagged, rows[row].reads)
  <1>1. CASE UNCHANGED vars \/ Ended \/ Stop \/ Deliver \/ PollFails \/ CloseJobs
    BY <1>1, Zenon DEF Ended, Stop, Deliver, PollFails, CloseJobs, vars, runVars, jobVars
  <1>2. CASE AbortStep \/ Join \/ TakeJob \/ PrepareRows \/ Approve \/ WidenOnce \/ Widen
             \/ SaveScope \/ LogSent \/ Cleanup
    <2>1. \/ pc' = pc /\ pc = "idle"
          \/ pc' \in {"cleanup", "idle", "prepare", "verdict", "prompt", "widen", "saveScope",
                      "ended"}
      BY <1>2, Zenon DEF AbortStep, Join, TakeJob, PrepareRows, Approve, WidenOnce, Widen, SaveScope,
                  LogSent, Cleanup
    <2> QED BY <2>1, Zenon DEF WithResult
  <1>3. CASE Verdict
    BY <1>3, Zenon DEF Verdict, WithResult
  <1>4. CASE Execute
    BY <1>4, Zenon DEF Execute, Flaggings
  <1>5. CASE Review
    BY <1>5, Zenon DEF Review, WithResult
  <1>6. CASE LogDropped \/ WriteResult
    BY <1>6, Zenon DEF LogDropped, WriteResult, jobVars, WithResult
  <1>7. CASE Post
    BY <1>7, Zenon DEF Post, WithResult
  <1>8. CASE JoinFails \/ LoopEnds \/ WriteFails \/ PromptEnds \/ Interrupt \/ Exhausted
             \/ PostFails
    BY <1>8, Zenon DEF JoinFails, LoopEnds, WriteFails, PromptEnds, Interrupt, Exhausted, PostFails,
                Abort, WithResult
  <1> QED BY <1>1, <1>2, <1>3, <1>4, <1>5, <1>6, <1>7, <1>8, Zenon DEF Next, Step

\* The names of a one-job grant are in the log.
LEMMA NamesLogged ==
    ASSUME RowsInv, OnceInv, AuditInv, log \subseteq log', [Next]_vars
    PROVE  \A n \in paths' : \E e \in log' :
             e.event = "scope-added-once" /\ e.seq = job'.seq /\ n \in e.grant
  <1>1. CASE paths' = paths /\ job' = job
    BY <1>1, Zenon DEF AuditInv
  <1>2. CASE paths' = {}
    BY <1>2, Zenon
  <1>3. ASSUME Return PROVE paths' = {}
    BY <1>3, Zenon DEF Return, Revoked, OnceInv
  <1>4. CASE Outside \/ RowStep
    BY <1>1, <1>4, Zenon DEF Outside, RowStep
  <1>5. CASE AbortStep
    BY <1>2, <1>3, <1>5, Zenon DEF AbortStep
  <1>6. CASE LogSent
    BY <1>1, <1>2, <1>3, <1>6, Zenon DEF LogSent, scopeVars
  <1>7. CASE TakeJob
    BY <1>2, <1>7, Zenon DEF TakeJob, scopeVars, OnceInv, Before
  <1>8. CASE Join \/ PrepareRows \/ Approve \/ Widen \/ SaveScope \/ Cleanup
    BY <1>1, <1>8, Zenon
       DEF Join, PrepareRows, Approve, Widen, SaveScope, Cleanup, scopeVars, jobVars
  <1>9. CASE WidenOnce
    <2> DEFINE grant == [i \in Widenings |-> PathGrant(rows[i].job)]
               line(i) == [Event("scope-added-once", job.seq, i) EXCEPT
                             !.grant = Fresh(paths, grant, i)]
    <2>1. /\ paths' = paths \cup GrantedNames /\ job' = job /\ paths = {}
          /\ log' = log \cup GrantEvents("scope-added-once", paths, grant)
      BY <1>9, Zenon DEF WidenOnce, OnceInv
    <2>2. ASSUME NEW n \in GrantedNames
          PROVE  \E e \in log' :
                   e.event = "scope-added-once" /\ e.seq = job.seq /\ n \in e.grant
      <3>1. PICK i \in Widenings : n \in grant[i]
        BY Zenon DEF GrantedNames
      <3>2. PICK k \in Widenings : n \in Fresh(paths, grant, k)
        BY <2>1, <3>1, FreshCovers, Zenon
      <3>3. line(k) \in log'
        BY <2>1, <3>2, Zenon DEF GrantEvents
      <3>4. /\ line(k).event = "scope-added-once" /\ line(k).seq = job.seq
            /\ line(k).grant = Fresh(paths, grant, k)
        BY Zenon DEF Event
      <3> HIDE DEF line
      <3> QED BY <3>2, <3>3, <3>4, Zenon
    <2> QED BY <2>1, <2>2, Zenon
  <1> QED BY <1>4, <1>5, <1>6, <1>7, <1>8, <1>9, Shapes, Zenon

\* handle logs a row as received before anybody is asked about it.
LEMMA RowsLogged ==
    ASSUME RowsInv, AuditInv, log \subseteq log', [Next]_vars
    PROVE  pc' \in Prepared => \A i \in DOMAIN rows' :
             rows'[i].state # "invalid" => Event("received", job'.seq, i) \in log'
  <1>1. ASSUME pc' = pc \/ pc \in Prepared, UNCHANGED <<job, rows>>
        PROVE  pc' \in Prepared => \A i \in DOMAIN rows' :
                 rows'[i].state # "invalid" => Event("received", job'.seq, i) \in log'
    BY <1>1, Zenon DEF AuditInv
  <1>2. CASE pc' \notin Prepared
    BY <1>2, Zenon
  <1>3. CASE Outside \/ RowStep
    BY <1>1, <1>3, Zenon DEF Outside, RowStep, Prepared
  <1>4. CASE AbortStep \/ Join \/ Cleanup
    BY <1>2, <1>4, Zenon DEF AbortStep, Join, Cleanup, Prepared, AtRow
  <1>5. CASE TakeJob
    <2>1. CASE pc' \in {"idle", "prepare"}
      BY <1>2, <2>1, Zenon DEF Prepared, AtRow
    <2>2. CASE rows' = <<[job |-> Nil, state |-> "invalid", reads |-> {}, shown |-> FALSE]>>
      <3>1. \A i \in DOMAIN rows' : rows'[i].state = "invalid"
        BY <2>2
      <3> QED BY <3>1, Zenon
    <2> QED BY <1>5, <2>1, <2>2, Zenon DEF TakeJob
  <1>6. CASE PrepareRows
    <2>1. /\ DOMAIN rows' = DOMAIN job.plan /\ job' = job
          /\ log' = log \cup {Event("received", job.seq, i) : i \in DOMAIN job.plan}
      BY <1>6, Zenon DEF PrepareRows
    <2> QED BY <2>1, Zenon
  <1>7. CASE Approve \/ Widen
    BY <1>1, <1>7, Zenon DEF Approve, Widen, jobVars, Prepared
  <1>8. CASE WidenOnce \/ SaveScope
    <2>1. pc \in Prepared /\ job' = job /\ rows' = Reprepared(allowed, paths')
      BY <1>8, Zenon DEF WidenOnce, SaveScope, scopeVars, Prepared
    <2>2. /\ DOMAIN rows' = DOMAIN rows
          /\ \A i \in DOMAIN rows : rows[i].state = "invalid" => rows'[i].state = "invalid"
      BY <2>1, Zenon DEF Reprepared, Widenings
    <2> QED BY <2>1, <2>2, Zenon DEF AuditInv
  <1>9. CASE LogSent
    <2>1. CASE pc' = "verdict" /\ UNCHANGED <<job, rows>>
      BY <1>1, <1>9, <2>1, Zenon DEF LogSent, Prepared, AtRow
    <2>2. CASE pc' \in {"idle", "cleanup"}
      BY <1>2, <2>2, Zenon DEF Prepared, AtRow
    <2> QED BY <1>9, <2>1, <2>2, Zenon DEF LogSent
  <1> QED BY <1>3, <1>4, <1>5, <1>6, <1>7, <1>8, <1>9, Shapes, Zenon

\* An approval is logged before the row is executed.
LEMMA ApprovalLogged ==
    ASSUME AuditInv, log \subseteq log', [Next]_vars, pc' = "execute"
    PROVE  Event("approved", job'.seq, row') \in log'
  <1>1. CASE Outside
    BY <1>1, Zenon DEF Outside, AuditInv
  <1>2. CASE Verdict
    <2>1. /\ log' = log \cup {Event("approved", job.seq, row)}
          /\ UNCHANGED <<job, row>>
      BY <1>2, Zenon DEF Verdict
    <2> QED BY <2>1, Zenon
  <1>3. CASE UNCHANGED vars \/ Ended \/ Stop \/ Deliver \/ PollFails \/ CloseJobs
    BY <1>3, Zenon
       DEF Ended, Stop, Deliver, PollFails, CloseJobs, vars, runVars, jobVars, AuditInv
  <1>4. CASE Execute \/ Review \/ LogDropped \/ WriteResult \/ Post \/ Join \/ TakeJob
             \/ PrepareRows \/ Approve \/ WidenOnce \/ Widen \/ SaveScope \/ LogSent \/ Cleanup
    BY <1>4, Zenon DEF Execute, Review, LogDropped, WriteResult, Post, Join, TakeJob, PrepareRows,
                Approve, WidenOnce, Widen, SaveScope, LogSent, Cleanup
  <1>5. CASE JoinFails \/ LoopEnds \/ WriteFails \/ PromptEnds \/ Interrupt \/ Exhausted
             \/ PostFails
    BY <1>5, Zenon
       DEF JoinFails, LoopEnds, WriteFails, PromptEnds, Interrupt, Exhausted, PostFails, Abort
  <1> QED BY <1>2, <1>3, <1>4, <1>5, Zenon DEF Next, Step

\* Every step keeps AuditInv: what execute reads is in the scope on disk or
\* among the names the log tells of.
LEMMA AuditStep ==
    ASSUME ConsentInv, DiskInv, DiskInv', NumInv, CopyInv, AuditInv, [Next]_vars
    PROVE  AuditInv'
  <1>1. /\ log \subseteq log'
        /\ file.scope \subseteq file'.scope /\ file'.scope \subseteq allowed'
    BY DiskGrows, Zenon DEF AuditInv
  <1>3. \A i \in DOMAIN posted' : Explained(file'.scope, log', posted'[i])
    <2>1. CASE posted' = posted
      BY <1>1, <2>1, ExplainedLater, Zenon DEF AuditInv
    <2>2. ASSUME pc = "post", posted' = Append(posted, result)
          PROVE  \A i \in DOMAIN posted' : Explained(file'.scope, log', posted'[i])
      <3>1. posted \in Seq(Results) /\ result \in Results
        BY <2>2, Zenon DEF CopyInv, NumInv, WithResult
      <3>2. /\ DOMAIN posted' = DOMAIN posted \cup {Len(posted')}
            /\ posted'[Len(posted')] = result
            /\ \A i \in DOMAIN posted : posted'[i] = posted[i]
        BY <2>2, <3>1, Appended
      <3>3. Explained(file.scope, log, result)
        BY <2>2, Zenon DEF AuditInv, WithResult
      <3> QED BY <1>1, <3>2, <3>3, ExplainedLater, Zenon DEF AuditInv
    <2>3. posted' = posted \/ (pc = "post" /\ posted' = Append(posted, result))
      BY Posting, Zenon DEF WriteResult, Post, PostFails
    <2> QED BY <2>1, <2>2, <2>3, Zenon
  <1>4. ASSUME pc' \in WithResult PROVE Explained(file'.scope, log', result')
    <2>1. CASE pc \in WithResult /\ result' = result
      BY <1>1, <2>1, ExplainedLater, Zenon DEF AuditInv
    <2>2. ASSUME pc \in {"verdict", "review"}, NEW status \in {"denied", "rejected"},
                 result' = NewResult(status, FALSE, {})
          PROVE  Explained(file'.scope, log', result')
      <3>1. result'.status = status /\ result'.reads = {}
        BY <2>2, Zenon DEF NewResult
      <3>2. result'.status \in {"denied", "rejected"}
        BY <2>2, <3>1, Zenon
      <3> QED BY <3>1, <3>2, Zenon DEF Explained
    <2>3. ASSUME pc = "execute", result'.job = job.seq, result'.row = row,
                 result'.reads \subseteq rows[row].reads
          PROVE  Explained(file.scope, log, result')
      <3>1. row \in DOMAIN rows /\ rows[row].state = "run"
        BY <2>3, Zenon DEF ConsentInv, RowsInv, ReadInv, Prepared, AtRow
      <3>2. {Event("received", job.seq, row), Event("approved", job.seq, row)} \subseteq log
        BY <2>3, <3>1, Zenon DEF AuditInv, Prepared, AtRow
      <3>3. \A n \in rows[row].reads : n \in paths \/ n[1] \in allowed
        BY <3>1, Zenon DEF ConsentInv, ReadInv, Permits
      <3>4. allowed = file.scope
        BY <2>3, Zenon DEF DiskInv
      <3> QED BY <2>3, <3>2, <3>3, <3>4, Zenon DEF Explained, AuditInv
    <2>4. CASE pc = "execute" /\ result' = NewResult("error", FALSE, {})
      <3>1. result'.job = job.seq /\ result'.row = row /\ result'.reads \subseteq rows[row].reads
        BY <2>4, Zenon DEF NewResult
      <3> QED BY <1>1, <2>3, <2>4, <3>1, ExplainedLater, Zenon
    <2>5. ASSUME pc = "execute", NEW flagged \in BOOLEAN,
                 result' = NewResult("ok", flagged, rows[row].reads)
          PROVE  Explained(file'.scope, log', result')
      <3>1. result'.job = job.seq /\ result'.row = row /\ result'.reads \subseteq rows[row].reads
        BY <2>5, Zenon DEF NewResult
      <3> QED BY <1>1, <2>3, <2>5, <3>1, ExplainedLater, Zenon
    <2> QED BY <1>4, <2>1, <2>2, <2>4, <2>5, ResultFrom, Zenon
  <1>5. \A n \in paths' : \E e \in log' :
           e.event = "scope-added-once" /\ e.seq = job'.seq /\ n \in e.grant
    BY <1>1, NamesLogged, Zenon DEF ConsentInv
  <1>6. pc' \in Prepared => \A i \in DOMAIN rows' :
           rows'[i].state # "invalid" => Event("received", job'.seq, i) \in log'
    BY <1>1, RowsLogged, Zenon DEF ConsentInv
  <1>7. pc' = "execute" => Event("approved", job'.seq, row') \in log'
    BY <1>1, ApprovalLogged, Zenon
  <1> QED BY <1>1, <1>3, <1>4, <1>5, <1>6, <1>7, Zenon DEF AuditInv, Explained, Event

\* The copy and the audit always agree with the relay.
LEMMA Copied == Spec => [](CopyInv /\ AuditInv)
  <1>1. Init => CopyInv /\ AuditInv
    <2> SUFFICES ASSUME Init PROVE CopyInv /\ AuditInv
      OBVIOUS
    <2>1. copies = <<>> /\ posted = <<>>
      BY Zenon DEF Init
    <2>2. /\ copies \in Seq(Results) /\ posted \in Seq(Results)
          /\ Len(copies) = 0 /\ Len(posted) = 0 /\ DOMAIN posted = {}
      BY <2>1
    <2>3. file.scope = allowed
      BY Zenon DEF Init
    <2> QED BY <2>2, <2>3 DEF Init, CopyInv, AuditInv, WithResult, Prepared, AtRow
  <1>2. ServeInv /\ ServeInv' /\ CopyInv /\ AuditInv /\ [Next]_vars => CopyInv' /\ AuditInv'
    BY CopyStep, AuditStep, Zenon DEF ServeInv, ConsentInv
  <1> QED BY <1>1, <1>2, Served, PTL DEF Spec

\* A crash at any point leaves no result on the relay that the local copy does
\* not account for.
THEOREM Audit == Spec => []AuditLeads
  <1>1. CopyInv /\ AuditInv => AuditLeads
    BY Zenon DEF CopyInv, AuditInv, Explained, AuditLeads
  <1> QED BY <1>1, Copied, PTL

-----------------------------------------------------------------------------
(* Flagged results.                                                        *)

\* At level 1 a flagged result passes the review, and the level is settled
\* before the first result.
SentInv ==
    /\ pc = "join" => posted = <<>>
    /\ level = 1 => \A i \in DOMAIN posted :
         posted[i].flagged => <<posted[i].job, posted[i].row>> \in sends
    /\ level = 1 /\ pc \in {"dropped", "write", "post"} /\ result.flagged =>
         <<job.seq, row>> \in sends

\* Every step keeps this.
LEMMA SentStep ==
    ASSUME RowsInv, NumInv, CopyInv, SentInv, [Next]_vars
    PROVE  SentInv'
  <1>1. ASSUME UNCHANGED <<pc, level, posted, result, job, row, sends>> PROVE SentInv'
    BY <1>1, Zenon DEF SentInv
  <1>2. ASSUME UNCHANGED <<level, posted, sends>>, pc' \notin {"join", "dropped", "write", "post"}
        PROVE  SentInv'
    BY <1>2, Zenon DEF SentInv
  <1>3. CASE UNCHANGED vars \/ Ended \/ Stop \/ Deliver \/ PollFails \/ CloseJobs
    BY <1>1, <1>3, Zenon DEF Ended, Stop, Deliver, PollFails, CloseJobs, vars, runVars, jobVars, histVars
  <1>4. CASE JoinFails \/ LoopEnds \/ WriteFails \/ PromptEnds \/ Interrupt \/ Exhausted
    BY <1>2, <1>4, Zenon DEF JoinFails, LoopEnds, WriteFails, PromptEnds, Interrupt, Exhausted, Abort,
                      histVars
  <1>5. CASE Join
    <2>1. posted = <<>> /\ posted' = posted /\ pc' = "idle"
      BY <1>5, Zenon DEF Join, SentInv
    <2>2. DOMAIN posted' = {}
      BY <2>1
    <2> QED BY <2>1, <2>2, Zenon DEF SentInv
  <1>6. CASE TakeJob \/ PrepareRows \/ Approve \/ WidenOnce \/ Widen \/ SaveScope \/ Cleanup
             \/ LogSent
    <2>1. /\ UNCHANGED <<level, posted, sends>>
          /\ pc' \notin {"join", "dropped", "write", "post"}
      BY <1>6, Zenon DEF TakeJob, PrepareRows, Approve, WidenOnce, Widen, SaveScope, Cleanup, LogSent,
                  histVars
    <2> QED BY <1>2, <2>1, Zenon
  <1>7. CASE Verdict
    <2>1. /\ UNCHANGED <<level, posted, sends>>
          /\ \/ pc' = "execute"
             \/ pc' = "write" /\ ~result'.flagged
      BY <1>7 DEF Verdict, NewResult, histVars
    <2> QED BY <2>1, Zenon DEF SentInv
  <1>8. CASE Execute
    <2>1. UNCHANGED <<level, posted, sends>>
      BY <1>8, Zenon DEF Execute, histVars
    <2>2. ASSUME NEW flagged \in BOOLEAN, result' = NewResult("ok", flagged, rows[row].reads),
                 pc' = IF NeedsReview(flagged) THEN "review" ELSE "write"
          PROVE  SentInv'
      <3>1. result'.flagged = flagged
        BY <2>2, Zenon DEF NewResult
      <3>2. pc' = "review" \/ (pc' = "write" /\ ~(level = 1 /\ result'.flagged))
        BY <2>2, <3>1, Zenon DEF NeedsReview
      <3> QED BY <2>1, <3>2, Zenon DEF SentInv
    <2>3. CASE result' = NewResult("error", FALSE, {}) /\ pc' = "write"
      <3>1. ~result'.flagged
        BY <2>3, Zenon DEF NewResult
      <3> QED BY <2>1, <2>3, <3>1, Zenon DEF SentInv
    <2> QED BY <1>8, <2>2, <2>3, Zenon DEF Execute, Flaggings
  <1>9. CASE Review
    <2>1. /\ UNCHANGED <<level, posted, job, row>> /\ sends \subseteq sends'
          /\ \/ pc' = "write" /\ <<job.seq, row>> \in sends'
             \/ pc' = "dropped" /\ ~result'.flagged
      BY <1>9 DEF Review, NewResult
    <2> QED BY <2>1, Zenon DEF SentInv
  <1>10. CASE LogDropped \/ WriteResult
    <2>1. /\ UNCHANGED <<level, posted, result, job, row, sends>>
          /\ pc \in {"dropped", "write"} /\ pc' \in {"write", "post"}
      BY <1>10, Zenon DEF LogDropped, WriteResult, jobVars, histVars
    <2> QED BY <2>1, Zenon DEF SentInv
  <1>11. CASE Post \/ PostFails
    <2>1. /\ pc = "post" /\ pc' \in {"sent", "cleanup"} /\ UNCHANGED <<level, sends>>
          /\ posted' \in {posted, Append(posted, result)}
      BY <1>11, Zenon DEF Post, PostFails, Abort, histVars
    <2>2. CASE posted' = posted
      BY <1>2, <2>1, <2>2, Zenon
    <2>3. CASE posted' = Append(posted, result)
      <3>1. posted \in Seq(Results) /\ result \in Results /\ result.job = job.seq /\ result.row = row
        BY <2>1, Zenon DEF CopyInv, NumInv, WithResult
      <3>2. /\ DOMAIN posted' = DOMAIN posted \cup {Len(posted')}
            /\ posted'[Len(posted')] = result
            /\ \A i \in DOMAIN posted : posted'[i] = posted[i]
        BY <2>3, <3>1, Appended
      <3> QED BY <2>1, <3>1, <3>2, Zenon DEF SentInv
    <2> QED BY <2>1, <2>2, <2>3, Zenon
  <1> QED BY <1>3, <1>4, <1>5, <1>6, <1>7, <1>8, <1>9, <1>10, <1>11, Zenon DEF Next, Step

\* At level 1 no flagged string leaves the machine without the operator.
THEOREM Reviewed == Spec => []SentConsented
  <1>1. Init => SentInv
    BY DEF Init, SentInv
  <1>2. ServeInv /\ CopyInv /\ SentInv /\ [Next]_vars => SentInv'
    BY SentStep, Zenon DEF ServeInv, ConsentInv
  <1>3. SentInv => SentConsented
    BY Zenon DEF SentInv, SentConsented
  <1> QED BY <1>1, <1>2, <1>3, Served, Copied, PTL DEF Spec

-----------------------------------------------------------------------------
(* Types.                                                                  *)

\* What is left of the type invariant.
RestInv ==
    /\ Len(inbox) <= Capacity
    /\ answer \in {"approve", "deny", "once"}
    /\ paths \subseteq Names

\* Every step keeps this.
LEMMA RestStep ==
    ASSUME RowsInv, OnceInv, RestInv, [Next]_vars
    PROVE  RestInv'
  <1>0. Capacity \in Nat /\ Len(inbox) \in Nat /\ inbox \in Seq(Envelopes)
    BY ServeAssumption DEF RowsInv
  <1>1. Len(inbox') <= Capacity
    <2>1. CASE inbox' = inbox
      BY <2>1, Zenon DEF RestInv
    <2>2. CASE inbox' = <<>>
      BY <1>0, <2>2
    <2>3. CASE Deliver
      BY <1>0, <2>3 DEF Deliver
    <2>4. CASE TakeJob
      BY <1>0, <2>4 DEF TakeJob, RestInv
    <2>5. inbox' = inbox \/ inbox' = <<>> \/ Deliver \/ TakeJob
      <3>1. CASE AbortStep \/ LogSent
        BY <3>1, Zenon DEF AbortStep, LogSent, StopPolling
      <3>2. CASE RowStep \/ Join \/ PrepareRows \/ Approve \/ WidenOnce \/ Widen \/ SaveScope
                 \/ Cleanup
        BY <3>2, Zenon
           DEF RowStep, Join, PrepareRows, Approve, WidenOnce, Widen, SaveScope, Cleanup,
                    pollVars
      <3>3. CASE UNCHANGED vars \/ Ended \/ Stop \/ PollFails \/ CloseJobs
        BY <3>3, Zenon DEF Ended, Stop, PollFails, CloseJobs, vars, pollVars
      <3>4. CASE Verdict \/ Execute \/ Review \/ LogDropped \/ WriteResult \/ Post
        BY <3>4, Zenon DEF Verdict, Execute, Review, LogDropped, WriteResult, Post, pollVars
      <3>5. CASE JoinFails \/ LoopEnds \/ WriteFails \/ PromptEnds \/ Interrupt \/ Exhausted
                 \/ PostFails
        BY <3>5, Zenon DEF JoinFails, LoopEnds, WriteFails, PromptEnds, Interrupt, Exhausted, PostFails,
                    Abort, StopPolling
      <3> QED BY <3>1, <3>2, <3>3, <3>4, <3>5, Zenon DEF Next, Step
    <2> QED BY <2>1, <2>2, <2>3, <2>4, <2>5, Zenon
  <1>2. answer' \in {"approve", "deny", "once"} /\ paths' \subseteq Names
    <2>1. CASE Outside \/ RowStep \/ Join \/ PrepareRows \/ Widen \/ SaveScope \/ Cleanup
      BY <2>1, Zenon DEF Outside, RowStep, Join, PrepareRows, Widen, SaveScope, Cleanup, scopeVars,
                  jobVars, RestInv
    <2>2. ASSUME Return PROVE answer' = "deny" /\ paths' = {}
      BY <2>2, Zenon DEF Return, Revoked, OnceInv
    <2>3. CASE AbortStep \/ LogSent
      BY <2>2, <2>3, Zenon DEF AbortStep, LogSent, scopeVars, RestInv
    <2>4. CASE TakeJob \/ Approve
      BY <2>4, Zenon DEF TakeJob, Approve, scopeVars, RestInv
    <2>5. CASE WidenOnce
      <3>1. \A j : PathGrant(j) \subseteq Names
        BY ServeAssumption, Zenon DEF PathGrant
      <3>2. GrantedNames \subseteq Names
        BY <3>1, Zenon DEF GrantedNames
      <3> QED BY <2>5, <3>2, Zenon DEF WidenOnce, RestInv
    <2> QED BY <2>1, <2>3, <2>4, <2>5, Shapes, Zenon
  <1> QED BY <1>1, <1>2, Zenon DEF RestInv

\* The collector's state keeps its types.
THEOREM Typing == Spec => []TypeOK
  <1>1. Init => RestInv
    <2> SUFFICES ASSUME Init PROVE RestInv
      BY Zenon
    <2>1. Len(inbox) = 0 /\ Capacity \in Nat
      BY ServeAssumption, Zenon DEF Init
    <2> QED BY <2>1 DEF Init, RestInv
  <1>2. ServeInv /\ RestInv /\ [Next]_vars => RestInv'
    BY RestStep, Zenon DEF ServeInv, ConsentInv
  <1>3. ServeInv /\ RestInv /\ CopyInv => TypeOK
    <2> SUFFICES ASSUME ServeInv, RestInv, CopyInv PROVE TypeOK
      OBVIOUS
    <2>1. RowsInv /\ NumInv /\ EndInv /\ OnceInv /\ DiskInv
      BY Zenon DEF ServeInv, ConsentInv
    <2>2. pc \in Before \cup Prepared
      BY <2>1, Zenon DEF RowsInv
    <2>3. row \in 0 .. Len(rows)
      <3>1. CASE pc \in Prepared
        BY <2>1, <3>1 DEF RowsInv
      <3>2. CASE pc \notin Prepared
        BY <2>1, <3>2 DEF NumInv
      <3> QED BY <3>1, <3>2, Zenon
    <2>4. saved \subseteq Names /\ allowed \subseteq Dirs
      BY <2>1, Zenon DEF OnceInv, DiskInv
    <2> QED BY <2>1, <2>2, <2>3, <2>4, Zenon
            DEF TypeOK, RowsInv, NumInv, EndInv, RestInv, CopyInv, Before, Prepared, AtRow
  <1> QED BY <1>1, <1>2, <1>3, Served, Copied, PTL DEF Spec

-----------------------------------------------------------------------------
(* Every row once.                                                         *)

\* The rows that were answered, and the rows of the first k jobs.
Rowed(p) == {<<p[i].job, p[i].row>> : i \in DOMAIN p}
Owed(tk, k) == UNION {{j} \X (1 .. tk[j]) : j \in 1 .. k}

\* The results are in the order of jobs and rows.
Ordered(p) ==
    \A i, k \in DOMAIN p : i < k =>
      p[i].job < p[k].job \/ (p[i].job = p[k].job /\ p[i].row < p[k].row)

\* The row of the job handle has answered last.
Done == IF pc = "prepare" THEN 0 ELSE IF pc = "sent" THEN row ELSE row - 1

\* The answered rows are those of the jobs before and the ones before the row
\* handle has come to.
OrderInv ==
    /\ taken \in Seq(Nat) /\ nextJob = Len(taken) + 1
    /\ Ordered(posted)
    /\ pc \in {"join", "idle"} => Rowed(posted) = Owed(taken, Len(taken))
    /\ pc = "prepare" => taken[job.seq] = Len(job.plan)
    /\ pc \in Prepared => taken[job.seq] = Len(rows)
    /\ pc \in Work => Rowed(posted) = Owed(taken, job.seq - 1) \cup ({job.seq} \X (1 .. Done))
    /\ pc \in Work \cup {"join", "idle"} =>
         nextResult = IF pc = "sent" THEN Len(posted) ELSE Len(posted) + 1

\* Where nothing is taken, answered or counted.
LEMMA OrderKept ==
    ASSUME OrderInv, UNCHANGED <<taken, nextJob, nextResult, posted, job, row>>,
           \/ pc' = pc /\ rows' = rows
           \/ pc' \in {"cleanup", "ended"}
           \/ /\ pc \in Prepared \ {"sent"} /\ pc' \in Prepared \ {"sent"}
              /\ Len(rows') = Len(rows)
    PROVE  OrderInv'
  <1>1. CASE pc' = pc /\ rows' = rows
    BY <1>1, Zenon DEF OrderInv, Done
  <1>2. CASE pc' \in {"cleanup", "ended"}
    BY <1>2, Zenon DEF OrderInv, Work, Prepared, AtRow
  <1>3. CASE /\ pc \in Prepared \ {"sent"} /\ pc' \in Prepared \ {"sent"}
             /\ Len(rows') = Len(rows)
    <2>1. /\ pc' \notin {"join", "idle", "prepare", "sent"}
          /\ pc \notin {"join", "idle", "prepare", "sent"}
          /\ pc \in Work /\ pc' \in Work
      BY <1>3, Zenon DEF Prepared, AtRow, Work
    <2>2. Done' = Done
      BY <2>1, Zenon DEF Done
    <2> QED BY <1>3, <2>1, <2>2, Zenon DEF OrderInv
  <1> QED BY <1>1, <1>2, <1>3, Zenon

\* A job is taken: what is owed for the jobs before stays.
LEMMA OwedKept ==
    ASSUME NEW tk \in Seq(Nat), NEW n \in Nat, NEW new, new = Append(tk, n)
    PROVE  /\ Owed(new, Len(tk)) = Owed(tk, Len(tk)) /\ new \in Seq(Nat)
           /\ Len(new) = Len(tk) + 1 /\ new[Len(tk) + 1] = n
  <1>1. \A j \in 1 .. Len(tk) : new[j] = tk[j]
    OBVIOUS
  <1>2. Owed(new, Len(tk)) = Owed(tk, Len(tk))
    BY <1>1, Zenon DEF Owed
  <1> QED BY <1>2

\* The last row of a job is answered: everything is.
LEMMA OwedNext ==
    ASSUME NEW tk, NEW k \in Nat, k >= 1
    PROVE  Owed(tk, k - 1) \cup ({k} \X (1 .. tk[k])) = Owed(tk, k)
  <1>1. 1 .. k = (1 .. (k - 1)) \cup {k}
    OBVIOUS
  <1> QED BY <1>1, Zenon DEF Owed

\* A result joins the others.
LEMMA RowedNext ==
    ASSUME NEW p \in Seq(Results), NEW r \in Results, NEW new, new = Append(p, r),
           \A x \in Rowed(p) : x[1] < r.job \/ (x[1] = r.job /\ x[2] < r.row), Ordered(p)
    PROVE  Rowed(new) = Rowed(p) \cup {<<r.job, r.row>>} /\ Ordered(new)
  <1>1. /\ DOMAIN new = DOMAIN p \cup {Len(new)} /\ new[Len(new)] = r /\ Len(new) = Len(p) + 1
        /\ \A i \in DOMAIN p : new[i] = p[i]
    BY Appended
  <1>2. DOMAIN p = 1 .. Len(p) /\ Len(p) \in Nat
    OBVIOUS
  <1>3. Rowed(new) = Rowed(p) \cup {<<r.job, r.row>>}
    BY <1>1, Zenon DEF Rowed
  <1>4. ASSUME NEW i \in DOMAIN new, NEW k \in DOMAIN new, i < k
        PROVE  new[i].job < new[k].job \/ (new[i].job = new[k].job /\ new[i].row < new[k].row)
    <2>1. i \in DOMAIN p
      BY <1>1, <1>2, <1>4
    <2>2. CASE k \in DOMAIN p
      BY <1>1, <1>4, <2>1, <2>2 DEF Ordered
    <2>3. CASE k = Len(new)
      <3>1. <<p[i].job, p[i].row>> \in Rowed(p)
        BY <2>1, Zenon DEF Rowed
      <3> QED BY <1>1, <2>1, <2>3, <3>1, Zenon
    <2> QED BY <1>1, <1>4, <2>2, <2>3, Zenon
  <1> QED BY <1>3, <1>4, Zenon DEF Ordered

\* What an envelope asks for is well formed or empty.
LEMMA PlanOf ==
    ASSUME NEW e \in Envelopes
    PROVE  e.plan = <<>> \/ e.plan \in Seq(Jobs)
  <1>1. CASE e \in [seq : 1 .. MaxSeq, good : {TRUE}, plan : Plans]
    BY <1>1, ServeAssumption, Zenon
  <1>2. CASE e \in [seq : {1}, good : {FALSE}, plan : {<<>>}]
    BY <1>2, Zenon
  <1> QED BY <1>1, <1>2, Zenon DEF Envelopes

\* Every step keeps OrderInv.
LEMMA OrderStep ==
    ASSUME RowsInv, NumInv, CopyInv, OrderInv, [Next]_vars
    PROVE  OrderInv'
  <1>1. CASE UNCHANGED vars \/ Ended \/ Stop \/ Deliver \/ PollFails \/ CloseJobs
    BY <1>1, OrderKept, Zenon
       DEF Ended, Stop, Deliver, PollFails, CloseJobs, vars, runVars, jobVars,
                           histVars
  <1>2. ASSUME pc' = "cleanup", UNCHANGED <<taken, nextJob>>, Ordered(posted') PROVE OrderInv'
    BY <1>2, Zenon DEF OrderInv, Work, Prepared, AtRow
  <1>3. CASE JoinFails \/ LoopEnds \/ WriteFails \/ PromptEnds \/ Interrupt \/ Exhausted
    <2>1. pc' = "cleanup" /\ UNCHANGED <<taken, nextJob, posted>>
      BY <1>3, Zenon DEF JoinFails, LoopEnds, WriteFails, PromptEnds, Interrupt, Exhausted, Abort,
                  histVars
    <2> QED BY <1>2, <2>1, Zenon DEF OrderInv
  <1>4. CASE Cleanup
    BY <1>4, OrderKept, Zenon DEF Cleanup, jobVars, histVars
  <1>5. CASE Join
    <2>1. /\ pc = "join" /\ pc' = "idle"
          /\ UNCHANGED <<taken, nextJob, nextResult, posted>>
      BY <1>5, Zenon DEF Join, histVars
    <2> QED BY <2>1, Zenon DEF OrderInv, Work, Prepared, AtRow
  <1>6. CASE TakeJob
    <2> DEFINE e == Head(inbox)
    <2>1. pc = "idle" /\ inbox # <<>> /\ UNCHANGED <<nextResult, posted>>
      BY <1>6, Zenon DEF TakeJob
    <2>2. CASE UNCHANGED <<pc, nextJob, job, rows, row, taken>>
      BY <2>1, <2>2, OrderKept, Zenon
    <2>3. ASSUME Opens(e), nextJob' = nextJob + 1, job' = e, NEW n \in Nat,
                 taken' = Append(taken, n),
                 \/ pc' = "prepare" /\ n = Len(e.plan)
                 \/ pc' = "verdict" /\ row' = 1 /\ n = Len(rows')
          PROVE  OrderInv'
      <3>1. /\ taken \in Seq(Nat) /\ Len(taken) \in Nat
            /\ job'.seq = Len(taken) + 1 /\ job'.seq - 1 = Len(taken)
        BY <2>3 DEF Opens, OrderInv
      <3>2. /\ Owed(taken', Len(taken)) = Owed(taken, Len(taken)) /\ taken' \in Seq(Nat)
            /\ Len(taken') = Len(taken) + 1 /\ taken'[Len(taken) + 1] = n
        <4>1. n \in Nat /\ taken' = Append(taken, n)
          BY <2>3, Zenon
        <4> QED BY <3>1, <4>1, OwedKept, Zenon
      <3>3. Done' = 0
        BY <2>3 DEF Done
      <3>4. Rowed(posted') = Owed(taken', job'.seq - 1) \cup ({job'.seq} \X (1 .. Done'))
        <4>1. {job'.seq} \X (1 .. Done') = {}
          BY <3>3
        <4> QED BY <2>1, <3>1, <3>2, <4>1, Zenon DEF OrderInv
      <3>5. nextJob' = Len(taken') + 1 /\ nextResult' = Len(posted') + 1 /\ Ordered(posted')
        BY <2>1, <2>3, <3>1, <3>2, Zenon DEF OrderInv
      <3>6. taken'[job'.seq] = n
        BY <3>1, <3>2, Zenon
      <3>7. pc' \in {"prepare", "verdict"}
        BY <2>3, Zenon
      <3> QED BY <2>3, <3>2, <3>4, <3>5, <3>6, <3>7, Zenon DEF OrderInv, Work, Prepared, AtRow
    <2>4. e.plan = <<>> \/ e.plan \in Seq(Jobs)
      <3>1. inbox \in Seq(Envelopes)
        BY Zenon DEF RowsInv
      <3>2. e \in Envelopes
        BY <2>1, <3>1
      <3> QED BY <3>2, PlanOf, Zenon
    <2>5. ASSUME Opens(e), nextJob' = nextJob + 1, job' = e,
                 taken' = Append(taken, IF e.plan = <<>> THEN 1 ELSE Len(e.plan)),
                 e.plan = <<>>, pc' = "verdict", row' = 1,
                 rows' = <<[job |-> Nil, state |-> "invalid", reads |-> {}, shown |-> FALSE]>>
          PROVE  OrderInv'
      <3>1. taken' = Append(taken, 1) /\ Len(rows') = 1
        BY <2>5, Zenon
      <3> QED BY <2>3, <2>5, <3>1, Zenon
    <2>6. ASSUME Opens(e), nextJob' = nextJob + 1, job' = e,
                 taken' = Append(taken, IF e.plan = <<>> THEN 1 ELSE Len(e.plan)),
                 e.plan # <<>>, pc' = "prepare"
          PROVE  OrderInv'
      <3>1. taken' = Append(taken, Len(e.plan)) /\ Len(e.plan) \in Nat
        BY <2>4, <2>6
      <3> QED BY <2>3, <2>6, <3>1, Zenon
    <2> QED BY <1>6, <2>2, <2>5, <2>6, Zenon DEF TakeJob
  <1>7. CASE PrepareRows
    <2>1. /\ pc = "prepare" /\ row' = 1 /\ DOMAIN rows' = DOMAIN job.plan
          /\ pc' \in {"prompt", "widen", "verdict"}
          /\ UNCHANGED <<taken, nextJob, nextResult, posted, job>>
      BY <1>7, Zenon DEF PrepareRows, histVars
    <2>2. Len(rows') = Len(job.plan)
      <3>1. job.plan \in Seq(Jobs) /\ rows' = [i \in 1 .. Len(job.plan) |-> NewRow(job.plan[i])]
        BY <1>7, <2>1 DEF RowsInv, PrepareRows
      <3> QED BY <3>1
    <2>3. Done = 0 /\ Done' = 0
      BY <2>1 DEF Done
    <2> QED BY <2>1, <2>2, <2>3, Zenon DEF OrderInv, Work, Prepared, AtRow
  <1>8. CASE Approve \/ Widen \/ Verdict \/ Execute \/ Review \/ LogDropped \/ WriteResult
    <2>1. ASSUME UNCHANGED <<taken, nextJob, nextResult, posted, job, row, rows>>,
                 pc \in Prepared \ {"sent"}, pc' \in Prepared \ {"sent"}
          PROVE  OrderInv'
      BY <2>1, OrderKept, Zenon
    <2>2. CASE Approve
      BY <2>1, <2>2, Zenon DEF Approve, Prepared, AtRow
    <2>3. CASE Widen
      BY <2>1, <2>3, Zenon DEF Widen, jobVars, histVars, Prepared, AtRow
    <2>4. CASE Verdict
      BY <2>1, <2>4, Zenon DEF Verdict, histVars, Prepared, AtRow
    <2>5. CASE Execute
      BY <2>1, <2>5, Zenon DEF Execute, histVars, Prepared, AtRow
    <2>6. CASE Review
      BY <2>1, <2>6, Zenon DEF Review, Prepared, AtRow
    <2>7. CASE LogDropped \/ WriteResult
      BY <2>1, <2>7, Zenon DEF LogDropped, WriteResult, jobVars, histVars, Prepared, AtRow
    <2> QED BY <1>8, <2>2, <2>3, <2>4, <2>5, <2>6, <2>7, Zenon
  <1>9. CASE WidenOnce \/ SaveScope
    <2>1. /\ pc \in Prepared \ {"sent"} /\ pc' = "verdict" /\ rows' = Reprepared(allowed, paths')
          /\ UNCHANGED <<taken, nextJob, nextResult, posted, job, row>>
      BY <1>9, Zenon DEF WidenOnce, SaveScope, scopeVars, histVars, Prepared, AtRow
    <2>2. rows' \in Seq(Rows) /\ DOMAIN rows' = DOMAIN rows /\ rows \in Seq(Rows)
      BY <2>1, RepreparedFacts, Zenon DEF RowsInv
    <2>3. Len(rows') = Len(rows)
      BY <2>2
    <2> QED BY <2>1, <2>3, OrderKept, Zenon DEF Prepared, AtRow
  <1>10. CASE Post \/ PostFails
    <2>1. /\ pc = "post" /\ pc' \in {"sent", "cleanup"} /\ UNCHANGED <<taken, nextJob, nextResult>>
          /\ posted' = Append(posted, result) \/ (pc' = "cleanup" /\ posted' = posted)
          /\ pc' = "sent" => UNCHANGED <<job, rows, row>>
      BY <1>10, Zenon DEF Post, PostFails, Abort, jobVars, histVars
    <2>2. CASE posted' = posted /\ pc' = "cleanup"
      BY <1>2, <2>1, <2>2, Zenon DEF OrderInv
    <2>3. CASE posted' = Append(posted, result)
      <3>1. /\ posted \in Seq(Results) /\ result \in Results
            /\ result.job = job.seq /\ result.row = row
        BY <2>1, Zenon DEF CopyInv, NumInv, WithResult
      <3>2. job.seq \in Nat /\ job.seq >= 1 /\ row \in Nat /\ row >= 1
        BY <2>1, Current, ServeAssumption DEF RowsInv, Prepared, AtRow
      <3>3. Rowed(posted) = Owed(taken, job.seq - 1) \cup ({job.seq} \X (1 .. (row - 1)))
        BY <2>1, Zenon DEF OrderInv, Work, Prepared, AtRow, Done
      <3>4. \A x \in Rowed(posted) :
               x[1] < result.job \/ (x[1] = result.job /\ x[2] < result.row)
        <4>1. \A x \in Owed(taken, job.seq - 1) : x[1] < job.seq
          BY <3>2 DEF Owed
        <4>2. \A x \in {job.seq} \X (1 .. (row - 1)) : x[1] = job.seq /\ x[2] < row
          BY <3>2
        <4> QED BY <3>1, <3>3, <4>1, <4>2, Zenon
      <3>5. Rowed(posted') = Rowed(posted) \cup {<<job.seq, row>>} /\ Ordered(posted')
        <4>1. Ordered(posted)
          BY Zenon DEF OrderInv
        <4>2. Rowed(posted') = Rowed(posted) \cup {<<result.job, result.row>>} /\ Ordered(posted')
          <5>1. posted \in Seq(Results)
            BY <3>1, Zenon
          <5>2. result \in Results
            BY <3>1, Zenon
          <5>3. posted' = Append(posted, result)
            BY <2>3, Zenon
          <5> QED BY <3>4, <4>1, <5>1, <5>2, <5>3, RowedNext, Zenon
        <4> QED BY <3>1, <4>2, Zenon
      <3>6. CASE pc' = "cleanup"
        BY <1>2, <2>1, <3>5, <3>6, Zenon
      <3>7. CASE pc' = "sent"
        <4>1. {job.seq} \X (1 .. row) = ({job.seq} \X (1 .. (row - 1))) \cup {<<job.seq, row>>}
          <5>1. 1 .. row = (1 .. (row - 1)) \cup {row}
            BY <3>2
          <5> QED BY <5>1
        <4>2. Done' = row
          BY <2>1, <3>7, Zenon DEF Done
        <4>3. Rowed(posted') = Owed(taken', job'.seq - 1) \cup ({job'.seq} \X (1 .. Done'))
          BY <2>1, <3>3, <3>5, <3>7, <4>1, <4>2, Zenon
        <4>4. nextResult' = Len(posted')
          <5>1. Len(posted') = Len(posted) + 1
            BY <2>3, <3>1, Appended
          <5> QED BY <2>1, <5>1, Zenon DEF OrderInv, Work, Prepared, AtRow
        <4>5. taken'[job'.seq] = Len(rows')
          BY <2>1, <3>7, Zenon DEF OrderInv, Prepared, AtRow
        <4> QED BY <2>1, <3>5, <3>7, <4>3, <4>4, <4>5, Zenon DEF OrderInv
      <3> QED BY <2>1, <3>6, <3>7, Zenon
    <2> QED BY <2>1, <2>2, <2>3, Zenon
  <1>11. CASE LogSent
    <2>1. /\ pc = "sent" /\ nextResult' = nextResult + 1 /\ UNCHANGED <<nextJob, posted, taken>>
      BY <1>11, Zenon DEF LogSent, histVars
    <2>2. /\ job.seq \in Nat /\ job.seq >= 1 /\ row \in DOMAIN rows /\ rows \in Seq(Rows)
          /\ nextJob = job.seq + 1
      BY <2>1, Current, ServeAssumption DEF RowsInv, NumInv, Work, Prepared, AtRow
    <2>3. /\ Rowed(posted) = Owed(taken, job.seq - 1) \cup ({job.seq} \X (1 .. row))
          /\ nextResult = Len(posted) /\ taken[job.seq] = Len(rows)
      BY <2>1, Zenon DEF OrderInv, Work, Prepared, AtRow, Done
    <2>4. CASE pc' = "verdict" /\ row' = row + 1 /\ UNCHANGED <<job, rows>>
      <3>1. Done' = row
        BY <2>2, <2>4 DEF Done
      <3> QED BY <2>1, <2>3, <2>4, <3>1, Zenon DEF OrderInv, Work, Prepared, AtRow
    <2>5. CASE pc' = "cleanup"
      BY <1>2, <2>1, <2>5, Zenon DEF OrderInv
    <2>6. CASE pc' = "idle" /\ ~(row < Len(rows))
      <3>1. row = taken[job.seq]
        BY <2>2, <2>3, <2>6
      <3>2. Rowed(posted) = Owed(taken, job.seq)
        BY <2>2, <2>3, <3>1, OwedNext, Zenon
      <3>3. job.seq = Len(taken)
        BY <2>2 DEF OrderInv
      <3> QED BY <2>1, <2>3, <2>6, <3>2, <3>3, Zenon DEF OrderInv, Work, Prepared, AtRow
    <2> QED BY <1>11, <2>4, <2>5, <2>6, Zenon DEF LogSent
  <1> QED BY <1>1, <1>3, <1>4, <1>5, <1>6, <1>7, <1>8, <1>9, <1>10, <1>11, Zenon DEF Next, Step

\* Every row of every job is answered once and in order.
THEOREM Once == Spec => []EachJobOnce
  <1>1. Init => OrderInv
    <2> SUFFICES ASSUME Init PROVE OrderInv
      OBVIOUS
    <2>1. posted = <<>> /\ taken = <<>> /\ pc = "join" /\ nextJob = 1 /\ nextResult = 1
      BY Zenon DEF Init
    <2>2. /\ taken \in Seq(Nat) /\ Len(taken) = 0 /\ Len(posted) = 0 /\ DOMAIN posted = {}
      BY <2>1
    <2>3. Rowed(posted) = {} /\ Ordered(posted) /\ Owed(taken, 0) = {}
      BY <2>2 DEF Rowed, Ordered, Owed
    <2> QED BY <2>1, <2>2, <2>3 DEF OrderInv, Work, Prepared, AtRow
  <1>2. ServeInv /\ CopyInv /\ OrderInv /\ [Next]_vars => OrderInv'
    BY OrderStep DEF ServeInv, ConsentInv
  <1>3. OrderInv => EachJobOnce
    <2> SUFFICES ASSUME OrderInv PROVE EachJobOnce
      BY Zenon
    <2>1. DOMAIN taken = 1 .. Len(taken)
      BY DEF OrderInv
    <2> QED BY <2>1, Zenon DEF OrderInv, EachJobOnce, Rowed, Owed, Ordered, Work
  <1> QED BY <1>1, <1>2, <1>3, Served, Copied, PTL DEF Spec
=============================================================================
