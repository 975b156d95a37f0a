------------------------------- MODULE Serve -------------------------------
(***************************************************************************)
(* The collector of a live session, aken serve: internal/serve/run.go with *)
(* the scope rules of jobs.go, the screens of approve.go, the local copy   *)
(* of audit.go and the file access of internal/source/file.go.             *)
(*                                                                         *)
(* handle runs one job or plan at a time. It is cut at everything that     *)
(* leaves the process or waits for something outside it: a write to the    *)
(* local copy, a post to the relay, an answer of the operator. The polling *)
(* goroutine, expiry and signals run in between, so what is on disk and on *)
(* the relay is right also if the process dies at any of these points.     *)
(***************************************************************************)
EXTENDS Naturals, Sequences, FiniteSets

CONSTANTS
    Dirs,         \* directories, none inside another
    Bases,        \* file names
    DirCanon,     \* DirCanon[d]: d with its links resolved
    Link,         \* Link[n]: what the link n points to, Nil if n is no link
    Present,      \* the names that exist
    CommandLine,  \* /var/log and the --allow directories
    Levels,       \* values of --level in use
    Plans,        \* what the MCP may ask for: sequences of jobs
    MaxSeq,       \* protocol.MaxSessionSeq
    Capacity,     \* capacity of the jobs channel
    Nil

Self == "."       \* the directory itself, as a name in it
Names == Dirs \X (Bases \cup {Self})

\* "file" stands for read_file, tail and list_dir, "command" for the jobs that
\* read no path, "bad" for a job prepare refuses whatever the scope. Links are
\* relative, and the files do not change while a job is at work.
JobKinds == {"file", "search", "command", "bad"}
Jobs == [kind : JobKinds, name : Names]

ASSUME ServeAssumption ==
    /\ DirCanon \in [Dirs -> Dirs]
    /\ Link \in [Names -> Names \cup {Nil}]
    /\ Nil \notin Names \cup {0}
    /\ Present \subseteq Names
    /\ \A n \in Names :
         LET c == <<DirCanon[n[1]], n[2]>> IN
         /\ DirCanon[c[1]] = c[1]
         /\ Link[n] = Link[c]
         /\ n \in Present <=> c \in Present
         /\ Link[n] # Nil => Link[Link[n]] = Nil
    /\ CommandLine \subseteq Dirs
    /\ Levels \subseteq {0, 1}
    /\ Plans \subseteq Seq(Jobs)
    /\ MaxSeq \in Nat
    /\ Capacity \in Nat

\* A malformed job or plan carries no jobs (decode, ValidateJobID, 1..40 rows,
\* no nested plan). An envelope that is not "good" fails to authenticate, and
\* nothing else matters of it.
Envelopes ==
    [seq : 1 .. MaxSeq, good : {TRUE}, plan : Plans]
      \cup [seq : {1}, good : {FALSE}, plan : {<<>>}]

Results == [job : 1 .. MaxSeq, row : Nat, flagged : BOOLEAN,
            status : {"ok", "error", "denied", "rejected"}, reads : SUBSET Names]

VARIABLES
    pc,         \* where Run is
    level,      \* s.o.Level
    allowed,    \* s.files.Allowed
    paths,      \* s.files.Paths
    nextJob, nextResult,
    job,        \* the envelope handle works on
    rows, row,  \* its prepared jobs, and the one it has come to
    answer,     \* the verdict
    saved,      \* "granted" in handle: the names to go back to
    result,     \* the result on its way out
    err,        \* what loop or join returned
    inbox,      \* the jobs channel
    poller,     \* the polling goroutine
    stop,       \* why the context is done: a signal, or the session is over
    code,       \* exit code
    meta,       \* a.session
    file,       \* session.json
    log,        \* jobs.log
    copies,     \* results/<seq>.txt
    posted,     \* results the relay accepted
    consent,    \* history: what the operator's answers granted
    sends,      \* history: flagged results the operator sent
    taken       \* history: number of rows of each job handle was given

runVars == <<pc, level, nextJob, nextResult, err, code>>
scopeVars == <<allowed, paths, saved>>
jobVars == <<job, rows, row, answer, result>>
pollVars == <<inbox, poller, stop>>
diskVars == <<meta, file, log, copies>>
histVars == <<consent, sends, taken>>
vars == <<runVars, scopeVars, jobVars, pollVars, diskVars, posted, histVars>>

NoJob == [seq |-> 0, good |-> FALSE, plan |-> <<>>]
NoResult == [job |-> 0, row |-> 0, flagged |-> FALSE, status |-> "ok", reads |-> {}]

\* The relay session and the local copy exist; the MCP has not joined.
Init ==
    /\ pc = "join"
    /\ level \in Levels
    /\ allowed = CommandLine
    /\ paths = {}
    /\ nextJob = 1
    /\ nextResult = 1
    /\ job = NoJob
    /\ rows = <<>>
    /\ row = 0
    /\ answer = "deny"
    /\ saved = {}
    /\ result = NoResult
    /\ err = "none"
    /\ inbox = <<>>
    /\ poller = "off"
    /\ stop = {}
    /\ code = Nil
    /\ meta = [level |-> level, scope |-> CommandLine, ended |-> FALSE]
    /\ file = meta
    /\ log = {}
    /\ copies = <<>>
    /\ posted = <<>>
    /\ consent = [job |-> 0, dirs |-> {}, names |-> {}]
    /\ sends = {}
    /\ taken = <<>>

\* A line of jobs.log. grant: the paths of a scope-added line.
Event(name, seq, r) == [event |-> name, seq |-> seq, row |-> r, grant |-> {}]

-----------------------------------------------------------------------------
(* The scope: jobs.go and internal/source/file.go.                         *)

\* filepath.EvalSymlinks
Canon(n) ==
    LET t == IF Link[n] = Nil THEN n ELSE Link[n]
    IN  <<DirCanon[t[1]], t[2]>>

\* os.Root refuses a link that leaves the directory it opens n in.
LeavesRoot(n) == Link[n] # Nil /\ DirCanon[Link[n][1]] # DirCanon[n[1]]

Permits(a, p, n) == n \in p \/ n[1] \in a

\* Mutant: trusts the requested name.
ResolveByName(a, p, n) == IF Permits(a, p, n) THEN "run" ELSE "scope"

\* "scope" is a scopeError; "invalid" any other error.
Resolve(a, p, n) ==
    CASE ~Permits(a, p, n) -> "scope"
      [] Permits(a, p, n) /\ (LeavesRoot(n) \/ ~Permits(a, p, Canon(n))) -> "invalid"
      [] OTHER -> "run"

\* expand: what a glob over the directory d matches, less what resolve refuses.
Matches(a, p, d) ==
    {Canon(n) : n \in {n \in Present : /\ n[1] = d /\ n[2] # Self
                                       /\ Resolve(a, p, n) = "run"}}

Prepare(a, p, j) ==
    CASE j.kind = "bad" -> [state |-> "invalid", reads |-> {}]
      [] j.kind = "command" -> [state |-> "run", reads |-> {}]
      [] j.kind = "file" ->
           [state |-> Resolve(a, p, j.name), reads |-> {Canon(j.name)}]
      [] j.kind = "search" ->
           [state |-> Resolve(a, p, j.name), reads |-> Matches(a, p, j.name[1])]

\* scopeGrant: the directory in both its forms, nothing if it does not exist.
ScopeGrant(n) ==
    IF <<n[1], Self>> \in Present THEN {n[1], DirCanon[n[1]]} ELSE {}

\* pathGrant, which handle does not ask for a search.
PathGrant(j) ==
    IF j.kind = "file" /\ {j.name, Canon(j.name)} \subseteq Present
      THEN {j.name, Canon(j.name)}
      ELSE {}

\* Mutant: offers to widen the scope at level 0 too.
WidensAtAnyLevel(j) == ScopeGrant(j.name) # {}

\* A job outside the scope is offered to the operator at level 1.
Offers(j) == level = 1 /\ ScopeGrant(j.name) # {}

\* A row of handle's first loop. "shown": the row is on the approval screen.
NewRow(j) ==
    LET p == Prepare(allowed, paths, j)
        state == CASE p.state # "scope" -> p.state
                   [] p.state = "scope" /\ Offers(j) -> "widen"
                   [] OTHER -> "invalid"
    IN  [job |-> j, state |-> state, reads |-> p.reads,
         shown |-> level = 1 /\ state # "invalid"]

Widenings == {i \in DOMAIN rows : rows[i].state = "widen"}

\* onceReason: every row outside the scope can be served by names.
CanAllowOnce ==
    Widenings # {} /\ \A i \in Widenings : PathGrant(rows[i].job) # {}

GrantedDirs == UNION {ScopeGrant(rows[i].job.name) : i \in Widenings}
GrantedNames == UNION {PathGrant(rows[i].job) : i \in Widenings}

-----------------------------------------------------------------------------
(* The end of a job and of the session.                                    *)

\* Mutant: the names of a one-job grant stay.
KeepNames == paths

\* handle's deferred function.
Revoked == IF answer = "once" THEN saved ELSE paths

\* handle returns, and its locals are gone.
Return ==
    /\ paths' = Revoked
    /\ saved' = {}
    /\ answer' = "deny"
    /\ job' = NoJob
    /\ rows' = <<>>
    /\ row' = 0
    /\ result' = NoResult
    /\ UNCHANGED allowed

\* Run cancels the context of the polling goroutine once join or loop is back,
\* and nobody receives from the channel any more.
StopPolling == inbox' = <<>> /\ poller' = "off"

\* handle, loop or join returns an error.
Abort(e) ==
    /\ pc' = "cleanup"
    /\ err' = e
    /\ Return
    /\ StopPolling
    /\ UNCHANGED <<level, nextJob, nextResult, code, stop>>

\* A write to the local copy fails. What it wrote before does not matter.
WriteFails ==
    /\ pc \in {"prepare", "widen", "saveScope", "verdict", "dropped", "write", "sent"}
    /\ Abort("failure")
    /\ UNCHANGED <<diskVars, posted, histVars>>

\* The rest of Run: delete the relay session, write mapping and session.json.
\* A failure there makes the exit code 1. A signal makes it 0 before that.
Cleanup ==
    /\ pc = "cleanup"
    /\ pc' = "ended"
    /\ meta' = [meta EXCEPT !.ended = TRUE]
    /\ \/ /\ code' = IF err \in {"none", "interrupt"} \/ "signal" \in stop
                       THEN 0 ELSE 1
          /\ file' = meta'
       \/ /\ code' = 1
          /\ file' \in {file, meta'}
    /\ UNCHANGED <<level, nextJob, nextResult, err, scopeVars, jobVars, pollVars,
                   log, copies, posted, histVars>>

-----------------------------------------------------------------------------
(* Joining and the polling goroutine.                                      *)

\* A join that authenticates; one that does not leaves the collector waiting.
\* A chat join raises the level. session.json is written.
Join ==
    /\ pc = "join"
    /\ \E via \in {"cli", "chat"} :
         /\ level' = IF via = "chat" THEN 1 ELSE level
         /\ meta' = [meta EXCEPT !.level = level']
    /\ file' = meta'
    /\ pc' = "idle"
    /\ poller' = "polling"
    /\ UNCHANGED <<nextJob, nextResult, err, code, scopeVars, jobVars, inbox, stop,
                   log, copies, posted, histVars>>

\* The wait for a join ends with an error, or session.json cannot be written.
JoinFails ==
    /\ pc = "join"
    /\ Abort("failure")
    /\ UNCHANGED <<diskVars, posted, histVars>>

\* The lifetime runs out, or a signal cancels the outer context.
Stop ==
    /\ pc # "ended"
    /\ \E why \in {"signal", "session"} \ stop : stop' = stop \cup {why}
    /\ UNCHANGED <<runVars, scopeVars, jobVars, inbox, poller, diskVars, posted,
                   histVars>>

\* The relay's answer to a poll, an envelope at a time. The collector trusts
\* neither its order nor its contents.
Deliver ==
    /\ poller = "polling"
    /\ Len(inbox) < Capacity
    /\ \E e \in Envelopes : inbox' = Append(inbox, e)
    /\ UNCHANGED <<runVars, scopeVars, jobVars, poller, stop, diskVars, posted,
                   histVars>>

\* Mutant: closes the channel before it cancels the context.
CloseFirst ==
    /\ poller = "polling"
    /\ poller' = "closed"
    /\ UNCHANGED <<runVars, scopeVars, jobVars, inbox, stop, diskVars, posted,
                   histVars>>

\* PollJobs fails, because of the relay or of a context that is done: cancel,
\* return, and the deferred close.
PollFails ==
    /\ poller = "polling"
    /\ stop' = IF stop = {} THEN {"session"} ELSE stop
    /\ poller' = "failed"
    /\ UNCHANGED <<runVars, scopeVars, jobVars, inbox, diskVars, posted, histVars>>

CloseJobs ==
    /\ poller = "failed"
    /\ poller' = "closed"
    /\ UNCHANGED <<runVars, scopeVars, jobVars, inbox, stop, diskVars, posted,
                   histVars>>

-----------------------------------------------------------------------------
(* loop.                                                                   *)

\* The context is done or the channel is closed and empty. Either way loop
\* returns the context's cause.
LoopEnds ==
    /\ pc = "idle"
    /\ stop # {} \/ (poller = "closed" /\ inbox = <<>>)
    /\ Abort(IF stop = {} THEN "none" ELSE "context")
    /\ UNCHANGED <<diskVars, posted, histVars>>

\* Mutant: tolerates a gap.
OpensLater(e) == e.good /\ e.seq >= nextJob

\* keys.OpenJob
Opens(e) == e.good /\ e.seq = nextJob

\* A job that does not open is dropped. A malformed one is rejected without
\* being prepared. select may choose a job although the context is done.
TakeJob ==
    LET e == Head(inbox) IN
    /\ pc = "idle"
    /\ inbox # <<>>
    /\ inbox' = Tail(inbox)
    /\ IF Opens(e)
         THEN /\ nextJob' = nextJob + 1
              /\ job' = e
              /\ answer' = IF level = 0 THEN "approve" ELSE "deny"
              /\ taken' = Append(taken, IF e.plan = <<>> THEN 1 ELSE Len(e.plan))
              /\ IF e.plan = <<>>
                   THEN /\ pc' = "verdict"
                        /\ row' = 1
                        /\ rows' = <<[job |-> Nil, state |-> "invalid", reads |-> {},
                                      shown |-> FALSE]>>
                   ELSE /\ pc' = "prepare"
                        /\ UNCHANGED <<row, rows>>
         ELSE UNCHANGED <<pc, nextJob, job, rows, row, answer, taken>>
    /\ UNCHANGED <<level, nextResult, err, code, scopeVars, result, poller, stop,
                   diskVars, posted, consent, sends>>

-----------------------------------------------------------------------------
(* handle.                                                                 *)

\* The first loop: every row is prepared and logged as received, and the
\* screen comes up at level 1 if a row is left to decide on.
PrepareRows ==
    /\ pc = "prepare"
    /\ rows' = [i \in DOMAIN job.plan |-> NewRow(job.plan[i])]
    /\ row' = 1
    /\ log' = log \cup {Event("received", job.seq, i) : i \in DOMAIN job.plan}
    /\ pc' = IF \E i \in DOMAIN rows' : rows'[i].shown THEN "prompt"
             ELSE IF \E i \in DOMAIN rows' : rows'[i].state = "widen" THEN "widen"
             ELSE "verdict"
    /\ UNCHANGED <<level, nextJob, nextResult, err, code, scopeVars, job, answer, result,
                   pollVars, meta, file, copies, posted, histVars>>

\* approve. Viewing the parameters changes nothing.
Approve ==
    /\ pc = "prompt"
    /\ \E v \in {"approve", "deny"} \cup (IF CanAllowOnce THEN {"once"} ELSE {}) :
         /\ answer' = v
         /\ saved' = IF v = "once" THEN paths ELSE saved
         /\ pc' = IF v # "deny" /\ Widenings # {} THEN "widen" ELSE "verdict"
         /\ consent' = [job |-> IF v = "deny" THEN consent.job ELSE job.seq,
                        dirs |-> consent.dirs \cup
                                   (IF v = "approve" THEN GrantedDirs ELSE {}),
                        names |-> IF v = "once" THEN GrantedNames ELSE {}]
    /\ UNCHANGED <<level, nextJob, nextResult, err, code, allowed, paths, job, rows,
                   row, result, pollVars, diskVars, posted, sends, taken>>

\* Mutant: a prompt that does not watch the context.
KeepsWaiting ==
    /\ pc \in {"prompt", "review"}
    /\ stop # {}
    /\ UNCHANGED vars

\* contextReader: the context ends a prompt that nobody answers.
PromptEnds ==
    /\ pc \in {"prompt", "review"}
    /\ stop # {}
    /\ Abort("context")
    /\ UNCHANGED <<diskVars, posted, histVars>>

\* Ctrl-C at a prompt, and Ctrl-D.
Interrupt ==
    /\ pc \in {"prompt", "review"}
    /\ \E e \in {"interrupt", "failure"} : Abort(e)
    /\ UNCHANGED <<diskVars, posted, histVars>>

\* The rows that waited for the operator, prepared again.
Reprepared(a, p) ==
    [i \in DOMAIN rows |->
       IF i \notin Widenings THEN rows[i]
       ELSE LET q == Prepare(a, p, rows[i].job)
            IN  [rows[i] EXCEPT !.state = IF q.state = "run" THEN "run" ELSE "invalid",
                                !.reads = q.reads]]

\* widen: what a row adds beyond the target and the rows before it.
Fresh(target, grant, i) ==
    grant[i] \ (target \cup UNION {grant[k] : k \in {k \in Widenings : k < i}})

GrantEvents(name, target, grant) ==
    {[Event(name, job.seq, i) EXCEPT !.grant = Fresh(target, grant, i)] :
       i \in {i \in Widenings : Fresh(target, grant, i) # {}}}

\* widen for one job. The names are in s.files.Paths before the job is prepared
\* again.
WidenOnce ==
    LET grant == [i \in Widenings |-> PathGrant(rows[i].job)] IN
    /\ pc = "widen"
    /\ answer = "once"
    /\ paths' = paths \cup GrantedNames
    /\ log' = log \cup GrantEvents("scope-added-once", paths, grant)
    /\ rows' = Reprepared(allowed, paths')
    /\ pc' = "verdict"
    /\ UNCHANGED <<level, nextJob, nextResult, err, code, allowed, saved, job, row,
                   answer, result, pollVars, meta, file, copies, posted, histVars>>

\* widen for the session. A row is offered only if its name is not covered, so
\* something is always fresh.
Widen ==
    LET grant == [i \in Widenings |-> ScopeGrant(rows[i].job.name)] IN
    /\ pc = "widen"
    /\ answer = "approve"
    /\ allowed' = allowed \cup GrantedDirs
    /\ log' = log \cup GrantEvents("scope-added", allowed, grant)
    /\ meta' = [meta EXCEPT !.scope = allowed']
    /\ pc' = "saveScope"
    /\ UNCHANGED <<level, nextJob, nextResult, err, code, paths, saved, jobVars,
                   pollVars, file, copies, posted, histVars>>

\* Mutant: session.json is left for the end of the session.
SaveScopeLater ==
    /\ pc = "saveScope"
    /\ rows' = Reprepared(allowed, paths)
    /\ pc' = "verdict"
    /\ UNCHANGED <<level, nextJob, nextResult, err, code, scopeVars, job, row, answer,
                   result, pollVars, diskVars, posted, histVars>>

\* writeSession at the end of widen; then the rows are prepared again.
SaveScope ==
    /\ pc = "saveScope"
    /\ file' = meta
    /\ rows' = Reprepared(allowed, paths)
    /\ pc' = "verdict"
    /\ UNCHANGED <<level, nextJob, nextResult, err, code, scopeVars, job, row, answer,
                   result, pollVars, meta, log, copies, posted, histVars>>

\* The result of the row handle has come to.
NewResult(status, flagged, reads) ==
    [job |-> job.seq, row |-> row, status |-> status, flagged |-> flagged,
     reads |-> reads]

\* A row with an error is rejected, and every other one is denied or approved.
Verdict ==
    LET event == CASE rows[row].state = "invalid" -> "rejected"
                   [] rows[row].state # "invalid" /\ answer = "deny" -> "denied"
                   [] OTHER -> "approved"
    IN
    /\ pc = "verdict"
    /\ log' = log \cup {Event(event, job.seq, row)}
    /\ IF event = "approved"
         THEN /\ pc' = "execute"
              /\ UNCHANGED result
         ELSE /\ pc' = "write"
              /\ result' = NewResult(event, FALSE, {})
    /\ UNCHANGED <<level, nextJob, nextResult, err, code, scopeVars, job, rows, row,
                   answer, pollVars, meta, file, copies, posted, histVars>>

\* Mutant: only plans are reviewed.
ReviewsPlans(flagged) == level = 1 /\ flagged /\ Len(rows) > 1

NeedsReview(flagged) == level = 1 /\ flagged

\* source.Files opens and reads the file n names.
Readable(n) == n \in Present

\* execute can succeed; it may always fail.
Succeeds(r) == \A n \in r.reads : Readable(n)

\* Redact and capResult: whether a string to inspect is among the lines left.
Flaggings == BOOLEAN

\* The row is executed and what it read redacted and cut.
Execute ==
    /\ pc = "execute"
    /\ \/ /\ Succeeds(rows[row])
          /\ \E flagged \in Flaggings :
               /\ result' = NewResult("ok", flagged, rows[row].reads)
               /\ pc' = IF NeedsReview(flagged) THEN "review" ELSE "write"
       \/ /\ result' = NewResult("error", FALSE, {})
          /\ pc' = "write"
    /\ UNCHANGED <<level, nextJob, nextResult, err, code, scopeVars, job, rows, row,
                   answer, pollVars, diskVars, posted, histVars>>

\* reviewFlags.
Review ==
    /\ pc = "review"
    /\ \/ /\ pc' = "write"
          /\ sends' = sends \cup {<<job.seq, row>>}
          /\ UNCHANGED result
       \/ /\ pc' = "dropped"
          /\ result' = NewResult("denied", FALSE, {})
          /\ UNCHANGED sends
    /\ UNCHANGED <<level, nextJob, nextResult, err, code, scopeVars, job, rows, row,
                   answer, pollVars, diskVars, posted, consent, taken>>

LogDropped ==
    /\ pc = "dropped"
    /\ log' = log \cup {Event("dropped", job.seq, row)}
    /\ pc' = "write"
    /\ UNCHANGED <<level, nextJob, nextResult, err, code, scopeVars, jobVars, pollVars,
                   meta, file, copies, posted, histVars>>

-----------------------------------------------------------------------------
(* send.                                                                   *)

\* Mutant: the copy is written under the job's number.
CopyByJob ==
    /\ pc = "write"
    /\ copies' = [i \in 1 .. job.seq |-> IF i = job.seq THEN result
                                         ELSE IF i \in DOMAIN copies THEN copies[i]
                                         ELSE NoResult]
    /\ pc' = "post"
    /\ UNCHANGED <<level, nextJob, nextResult, err, code, scopeVars, jobVars, pollVars,
                   meta, file, log, posted, histVars>>

\* The local copy, and mapping.json.
WriteResult ==
    /\ pc = "write"
    /\ nextResult <= MaxSeq
    /\ copies' = Append(copies, result)
    /\ pc' = "post"
    /\ UNCHANGED <<level, nextJob, nextResult, err, code, scopeVars, jobVars, pollVars,
                   meta, file, log, posted, histVars>>

\* "result sequence exhausted", in the middle of a plan.
Exhausted ==
    /\ pc = "write"
    /\ nextResult > MaxSeq
    /\ Abort("failure")
    /\ UNCHANGED <<diskVars, posted, histVars>>

Post ==
    /\ pc = "post"
    /\ stop = {}
    /\ posted' = Append(posted, result)
    /\ pc' = "sent"
    /\ UNCHANGED <<level, nextJob, nextResult, err, code, scopeVars, jobVars, pollVars,
                   diskVars, histVars>>

\* mapping.json cannot be written, the relay refuses the result, or its answer
\* is lost although it took the result.
PostFails ==
    /\ pc = "post"
    /\ posted' \in {posted, Append(posted, result)}
    /\ Abort("failure")
    /\ UNCHANGED <<diskVars, histVars>>

\* The loop over the rows goes on, handle returns to loop, or loop returns.
LogSent ==
    /\ pc = "sent"
    /\ log' = log \cup {Event("sent", nextResult, row)}
    /\ nextResult' = nextResult + 1
    /\ IF row < Len(rows)
         THEN /\ pc' = "verdict"
              /\ row' = row + 1
              /\ UNCHANGED <<scopeVars, job, rows, answer, result, inbox, poller>>
         ELSE /\ Return
              /\ IF job.seq = MaxSeq \/ nextResult' > MaxSeq
                   THEN pc' = "cleanup" /\ StopPolling
                   ELSE pc' = "idle" /\ UNCHANGED <<inbox, poller>>
    /\ UNCHANGED <<level, nextJob, err, code, stop, meta, file, copies, posted,
                   histVars>>

-----------------------------------------------------------------------------

\* The process has exited.
Ended == pc = "ended" /\ UNCHANGED vars

Step ==
    \/ LoopEnds \/ TakeJob \/ PrepareRows \/ WidenOnce \/ Widen \/ SaveScope
    \/ Verdict \/ Execute \/ LogDropped \/ WriteResult \/ Exhausted \/ Post
    \/ PostFails \/ LogSent \/ WriteFails \/ PromptEnds \/ Cleanup

Next ==
    \/ Join \/ JoinFails \/ Stop \/ Deliver \/ PollFails \/ CloseJobs
    \/ Approve \/ Review \/ Interrupt
    \/ Step
    \/ Ended

Spec == Init /\ [][Next]_vars

\* The collector takes its own steps, and every wait on the relay ends once the
\* context is done. Nothing is assumed of the operator, the MCP and the relay.
Fairness ==
    /\ WF_vars(Step)
    /\ WF_vars(LoopEnds)
    /\ WF_vars(stop # {} /\ (JoinFails \/ PollFails))
    /\ WF_vars(CloseJobs)

FairSpec == Spec /\ Fairness

-----------------------------------------------------------------------------
(* Properties.                                                             *)

\* The state of the collector is what its types say.
TypeOK ==
    /\ pc \in {"join", "idle", "prepare", "prompt", "widen", "saveScope", "verdict",
               "execute", "review", "dropped", "write", "post", "sent", "cleanup",
               "ended"}
    /\ level \in {0, 1}
    /\ allowed \subseteq Dirs /\ paths \subseteq Names /\ saved \subseteq Names
    /\ nextJob \in 1 .. MaxSeq + 1 /\ nextResult \in 1 .. MaxSeq + 1
    /\ job \in Envelopes \cup {NoJob}
    /\ row \in 0 .. Len(rows)
    /\ answer \in {"approve", "deny", "once"}
    /\ result \in Results \cup {NoResult}
    /\ err \in {"none", "context", "interrupt", "failure"}
    /\ inbox \in Seq(Envelopes) /\ Len(inbox) <= Capacity
    /\ poller \in {"off", "polling", "failed", "closed"}
    /\ stop \subseteq {"signal", "session"}
    /\ code \in {Nil, 0, 1}
    /\ copies \in Seq(Results) /\ posted \in Seq(Results)

\* What a job is about to read lies in the scope of the command line or was
\* shown to the operator: in a directory an approval added, or under the very
\* name that was allowed for this job. At level 1 the job itself was approved.
\* (handle, widen, resolve, Files.Permits)
ReadsConsented ==
    pc = "execute" =>
      /\ level = 1 => consent.job = job.seq
      /\ \A n \in rows[row].reads :
           \/ n[1] \in CommandLine \cup consent.dirs
           \/ consent.job = job.seq /\ n \in consent.names

\* Whatever the relay holds is on the collector's disk already, and the disk
\* says under which scope it was read: every accepted result is the copy with
\* the same number, its job was logged as received, its execution as approved,
\* and each name it read lies in the scope of session.json or in a
\* scope-added-once line of the same job. So a crash at any point leaves no
\* result that the local copy does not account for. (send, widen, audit.go)
AuditLeads ==
    /\ Len(posted) <= Len(copies)
    /\ \A i \in DOMAIN posted :
         LET r == posted[i] IN
         /\ r = copies[i]
         /\ r.status \in {"ok", "error"} =>
              {Event("received", r.job, r.row), Event("approved", r.job, r.row)}
                \subseteq log
         /\ \A n \in r.reads :
              \/ n[1] \in file.scope
              \/ \E e \in log : /\ e.event = "scope-added-once"
                                /\ e.seq = r.job
                                /\ n \in e.grant

\* Between jobs no single name is readable, whatever the job before was and
\* however it ended, and the scope is the one in session.json, which is also
\* the command line's and the scope-added lines of the log. (handle's deferred
\* restore, widen)
OnceIsRevoked ==
    /\ pc \in {"idle", "cleanup", "ended"} => paths = {}
    /\ pc = "idle" =>
         /\ allowed = file.scope
         /\ allowed = CommandLine \cup
                        UNION {e.grant : e \in {e \in log : e.event = "scope-added"}}

\* The scope never shrinks, and grows only at level 1 and only by directories
\* the operator approved, for a job that is still at work. The level never
\* falls, so a session raised to level 1 by a chat join stays there.
\* (handle, join)
ScopeGrowsByConsent ==
    [][/\ allowed \subseteq allowed'
       /\ allowed' # allowed => /\ level = 1
                                /\ consent.job = job.seq
                                /\ allowed' \subseteq CommandLine \cup consent.dirs
       /\ level <= level']_vars

\* Every row of every job is answered once, in the order of the jobs and of
\* the rows in each, and no job is taken before the one before it is answered
\* in full: between jobs, the results the relay has are exactly the rows of the
\* jobs taken. (loop, handle, send)
EachJobOnce ==
    /\ \A i, k \in DOMAIN posted : i < k =>
         \/ posted[i].job < posted[k].job
         \/ posted[i].job = posted[k].job /\ posted[i].row < posted[k].row
    /\ pc = "idle" =>
         /\ {<<posted[i].job, posted[i].row>> : i \in DOMAIN posted}
              = UNION {{j} \X (1 .. taken[j]) : j \in DOMAIN taken}
         /\ nextJob = Len(taken) + 1
         /\ nextResult = Len(posted) + 1

\* At level 1 no result with a flagged string is on the relay unless the
\* operator sent that result. (handle, reviewFlags)
SentConsented ==
    level = 1 => \A i \in DOMAIN posted :
                   posted[i].flagged => <<posted[i].job, posted[i].row>> \in sends

\* Exit code 0 tells that the session ended as it should: a signal, Ctrl-C at a
\* prompt, or a sequence used up. A relay that fails is never silent. (Run,
\* poll, loop)
ExitTellsEnd ==
    code = 0 => \/ "signal" \in stop
                \/ err = "interrupt"
                \/ err = "none" /\ (nextJob > MaxSeq \/ nextResult > MaxSeq)

\* Once the context is done the collector exits, also from a prompt that nobody
\* answers. (contextReader, loop, poll)
StopEnds == stop # {} ~> pc = "ended"
=============================================================================
