-------------------------------- MODULE Live --------------------------------
(***************************************************************************)
(* A live session end to end, from the tool call of an agent to the        *)
(* collector and back: aken-mcp serve (internal/mcp/live.go), the session  *)
(* file it shares with every other aken-mcp process (internal/session),    *)
(* the relay client and its retries (protocol/relayclient.go), and the     *)
(* sequence numbers of both directions (protocol/session.go).              *)
(*                                                                         *)
(* The relay and the collector appear by what Relay and Serve show of      *)
(* them: a post is accepted or refused in one step, a poll takes the whole *)
(* queue in one step, and the collector answers each row of each job once  *)
(* and in order. What is added is what lies between them: requests and     *)
(* responses that are lost, retries, several processes and their crashes.  *)
(***************************************************************************)
EXTENDS Naturals, Sequences, FiniteSets

CONSTANTS
    Procs,       \* aken-mcp serve processes that use the session file
    MaxSeq,      \* protocol.MaxSessionSeq
    MaxRows,     \* rows of a plan
    QueueCap,    \* messages a relay queue holds
    Attempts,    \* attempts of one request (RelayClient.do)
    MaxCalls,    \* bound on the tool calls of a behaviour
    MaxLoss,     \* bound on lost requests and responses, and on lost saves
    MaxCrash,    \* bound on the crashes of aken-mcp serve
    Nil

ASSUME LiveAssumption ==
    /\ IsFiniteSet(Procs)
    /\ {MaxSeq, MaxRows, QueueCap, Attempts} \subseteq Nat \ {0}
    /\ {MaxCalls, MaxLoss, MaxCrash} \subseteq Nat

\* The number of a tool call stands for the plaintext of its job. The id of row
\* i of the job with id n is <<n, i>>.
Calls == 1 .. MaxCalls
JobEnvs == [seq : 1 .. MaxSeq, id : 1 .. MaxSeq, call : Calls, rows : 1 .. MaxRows]
Ids == (1 .. MaxSeq) \X (1 .. MaxRows)
Answers == [id : Ids, call : Calls]
ResultEnvs == [seq : 1 .. MaxSeq, id : Ids, call : Calls]
Sessions == [nextJob : 1 .. MaxSeq + 1, nextResult : 1 .. MaxSeq + 1]

ASSUME NilAssumption == Nil \notin Nat \cup Sessions \cup JobEnvs \cup ResultEnvs

VARIABLES
    file,               \* session.json, Nil once aken-mcp end removed it
    pc, stored,         \* of each process: where its call is, and its session
    job,                \* the envelope the call submits, Nil for "result"
    ids,                \* the ids it waits for
    tries,              \* failed attempts of the request it makes
    hand,               \* envelopes of a poll not looked at yet
    bad,                \* sequenceError
    results,            \* s.results, with the answer kept for each id
    jobsQ, lastJob,     \* relay: the jobs direction
    resultsQ, lastResult,
    gone,               \* the relay has dropped the session
    cNext, cResult,     \* collector: nextJob, nextResult
    inbox, cJob, cRow,  \* its jobs channel, and the job and row it is at
    calls, losses, crashes,
    sealed,             \* history: job envelopes sealed
    executed,           \* history: jobs the collector opened, in order
    returned            \* history: what calls returned, and for which job

procVars == <<pc, stored, job, ids, tries, hand, bad, results>>
jobsVars == <<jobsQ, lastJob>>
resultsVars == <<resultsQ, lastResult>>
collVars == <<inbox, cNext, cResult, cJob, cRow, executed>>
boundVars == <<calls, losses, crashes>>
vars == <<file, procVars, jobsVars, resultsVars, gone, collVars, boundVars, sealed,
          returned>>

\* session.Join has saved the session, and the collector has seen the join.
Init ==
    /\ file = [nextJob |-> 1, nextResult |-> 1]
    /\ pc = [p \in Procs |-> "idle"]
    /\ stored = [p \in Procs |-> Nil]
    /\ job = [p \in Procs |-> Nil]
    /\ ids = [p \in Procs |-> {}]
    /\ tries = [p \in Procs |-> 0]
    /\ hand = [p \in Procs |-> <<>>]
    /\ bad = [p \in Procs |-> FALSE]
    /\ results = [p \in Procs |-> {}]
    /\ jobsQ = <<>> /\ lastJob = Nil
    /\ resultsQ = <<>> /\ lastResult = Nil
    /\ gone = FALSE
    /\ inbox = <<>> /\ cNext = 1 /\ cResult = 1 /\ cJob = Nil /\ cRow = 0
    /\ executed = <<>>
    /\ calls = 0 /\ losses = 0 /\ crashes = 0
    /\ sealed = {}
    /\ returned = {}

-----------------------------------------------------------------------------
(* The relay, and the network before it.                                   *)

\* The relay's answer to a post (relay/session.go, post).
Answer(q, last, e) ==
    CASE gone -> "not_found"
      [] ~gone /\ e = last -> "replay"
      [] ~gone /\ e # last /\ e.seq # (IF last = Nil THEN 1 ELSE last.seq + 1) ->
           "bad_sequence"
      [] OTHER -> IF Len(q) >= QueueCap THEN "queue_full" ELSE "accepted"

Accepted == {"accepted", "replay"}

\* A request is lost before or after the relay has handled it.
Lose ==
    /\ losses < MaxLoss
    /\ losses' = losses + 1
    /\ UNCHANGED <<calls, crashes>>

Goto(p, label) == pc' = [pc EXCEPT ![p] = label]

\* The call of p ends, with or without a result, and releases s.mu.
End(p) ==
    /\ Goto(p, "idle")
    /\ stored' = [stored EXCEPT ![p] = Nil]
    /\ job' = [job EXCEPT ![p] = Nil]
    /\ ids' = [ids EXCEPT ![p] = {}]
    /\ tries' = [tries EXCEPT ![p] = 0]
    /\ hand' = [hand EXCEPT ![p] = <<>>]
    /\ bad' = [bad EXCEPT ![p] = FALSE]

\* Mutant: one attempt too many.
RetryOnceMore(p) ==
    IF tries[p] < Attempts
      THEN /\ tries' = [tries EXCEPT ![p] = @ + 1]
           /\ UNCHANGED <<pc, stored, job, ids, hand, bad>>
      ELSE End(p)

\* do: one more attempt, or the transport error of the last one.
Retry(p) ==
    IF tries[p] + 1 < Attempts
      THEN /\ tries' = [tries EXCEPT ![p] = @ + 1]
           /\ UNCHANGED <<pc, stored, job, ids, hand, bad>>
      ELSE End(p)

-----------------------------------------------------------------------------
(* A tool call: submitAndAwait, plan and jobResult. s.mu serialises the    *)
(* calls of one process.                                                   *)

\* Mutant: ids count results instead of jobs.
IdByResult(f) == f.nextResult

\* fmt.Sprintf("j%d", stored.NextJobSeq)
JobId(f) == f.nextJob

\* live loads the session file.
Call(p) ==
    /\ pc[p] = "idle"
    /\ calls < MaxCalls
    /\ file # Nil
    /\ file.nextJob < MaxSeq
    /\ calls' = calls + 1
    /\ stored' = [stored EXCEPT ![p] = file]
    /\ \E n \in 1 .. MaxRows :
         /\ job' = [job EXCEPT ![p] = [seq |-> file.nextJob, id |-> JobId(file),
                                       call |-> calls', rows |-> n]]
         /\ ids' = [ids EXCEPT ![p] = {JobId(file)} \X (1 .. n)]
    /\ Goto(p, "submit")
    /\ UNCHANGED <<file, tries, hand, bad, results, jobsVars, resultsVars, gone,
                   collVars, losses, crashes, sealed, returned>>

\* jobResult, for the id of an earlier call.
ResultCall(p) ==
    /\ pc[p] = "idle"
    /\ file # Nil
    /\ stored' = [stored EXCEPT ![p] = file]
    /\ \E id \in Ids : /\ id[1] < file.nextJob
                       /\ ids' = [ids EXCEPT ![p] = {id}]
    /\ Goto(p, "await")
    /\ UNCHANGED <<file, job, tries, hand, bad, results, jobsVars, resultsVars, gone,
                   collVars, boundVars, sealed, returned>>

\* Mutant: posts before it saves the counter.
SubmitUnsaved(p) ==
    /\ pc[p] = "submit"
    /\ stored' = [stored EXCEPT ![p].nextJob = @ + 1]
    /\ sealed' = sealed \cup {job[p]}
    /\ Goto(p, "post")
    /\ UNCHANGED <<file, job, ids, tries, hand, bad, results, jobsVars, resultsVars,
                   gone, collVars, boundVars, returned>>

\* submit: the counter is saved, then the envelope is sealed.
Submit(p) ==
    /\ pc[p] = "submit"
    /\ stored' = [stored EXCEPT ![p].nextJob = @ + 1]
    /\ file' = stored'[p]
    /\ sealed' = sealed \cup {job[p]}
    /\ Goto(p, "post")
    /\ UNCHANGED <<job, ids, tries, hand, bad, results, jobsVars, resultsVars, gone,
                   collVars, boundVars, returned>>

\* session.Save fails, in submit.
SaveFails(p) ==
    /\ pc[p] = "submit"
    /\ End(p)
    /\ UNCHANGED <<file, results, jobsVars, resultsVars, gone, collVars, boundVars,
                   sealed, returned>>

\* PostJob. The relay may handle a request whose response is lost.
PostJob(p) ==
    LET answer == Answer(jobsQ, lastJob, job[p]) IN
    /\ pc[p] = "post"
    /\ IF answer = "accepted"
         THEN /\ jobsQ' = Append(jobsQ, job[p])
              /\ lastJob' = job[p]
         ELSE UNCHANGED jobsVars
    /\ \/ /\ IF answer \in Accepted
               THEN /\ Goto(p, "await")
                    /\ tries' = [tries EXCEPT ![p] = 0]
                    /\ UNCHANGED <<stored, job, ids, hand, bad>>
               ELSE End(p)
          /\ UNCHANGED boundVars
       \/ /\ Retry(p)
          /\ Lose
    /\ UNCHANGED <<file, results, resultsVars, gone, collVars, sealed, returned>>

\* A request that never reaches the relay.
RequestLost(p) ==
    /\ pc[p] \in {"post", "await"}
    /\ Retry(p)
    /\ Lose
    /\ UNCHANGED <<file, results, jobsVars, resultsVars, gone, collVars, sealed, returned>>

Missing(p) == ids[p] \ {a.id : a \in results[p]}

\* PollResults: the relay hands out its whole queue, and forgets it also if the
\* response is lost.
PollResults(p) ==
    /\ pc[p] = "await"
    /\ Missing(p) # {}
    /\ \/ /\ gone
          /\ End(p)
          /\ UNCHANGED <<resultsQ, boundVars>>
       \/ /\ ~gone /\ resultsQ # <<>>
          /\ resultsQ' = <<>>
          /\ \/ /\ hand' = [hand EXCEPT ![p] = resultsQ]
                /\ tries' = [tries EXCEPT ![p] = 0]
                /\ Goto(p, "open")
                /\ UNCHANGED <<stored, job, ids, bad, boundVars>>
             \/ /\ Retry(p)
                /\ Lose
    /\ UNCHANGED <<file, results, jobsVars, lastResult, gone, collVars, sealed, returned>>

\* keys.OpenResult
Opens(p) == Head(hand[p]).seq = stored[p].nextResult

\* Mutant: the counter stays in memory.
OpenUnsaved(p) ==
    /\ pc[p] = "open"
    /\ hand[p] # <<>>
    /\ hand' = [hand EXCEPT ![p] = Tail(@)]
    /\ IF Opens(p)
         THEN LET e == Head(hand[p]) IN
              /\ stored' = [stored EXCEPT ![p].nextResult = @ + 1]
              /\ results' = [results EXCEPT ![p] = @ \cup {[id |-> e.id, call |-> e.call]}]
              /\ UNCHANGED bad
         ELSE /\ bad' = [bad EXCEPT ![p] = TRUE]
              /\ UNCHANGED <<stored, results>>
    /\ UNCHANGED <<file, pc, job, ids, tries, jobsVars, resultsVars, gone, collVars,
                   boundVars, sealed, returned>>

\* The loop over the envelopes of a poll: the counter is saved before the
\* result is kept, which is only in memory.
OpenResult(p) ==
    /\ pc[p] = "open"
    /\ hand[p] # <<>>
    /\ hand' = [hand EXCEPT ![p] = Tail(@)]
    /\ IF Opens(p)
         THEN LET e == Head(hand[p]) IN
              /\ stored' = [stored EXCEPT ![p].nextResult = @ + 1]
              /\ file' = stored'[p]
              /\ results' = [results EXCEPT ![p] = {a \in @ : a.id # e.id}
                                                     \cup {[id |-> e.id, call |-> e.call]}]
              /\ UNCHANGED bad
         ELSE /\ bad' = [bad EXCEPT ![p] = TRUE]
              /\ UNCHANGED <<stored, file, results>>
    /\ UNCHANGED <<pc, job, ids, tries, jobsVars, resultsVars, gone, collVars,
                   boundVars, sealed, returned>>

\* session.Save fails, in await.
OpenFails(p) ==
    /\ pc[p] = "open"
    /\ hand[p] # <<>>
    /\ Opens(p)
    /\ End(p)
    /\ Lose
    /\ UNCHANGED <<file, results, jobsVars, resultsVars, gone, collVars, sealed, returned>>

\* "result sequence mismatch", or back to the top of await.
Opened(p) ==
    /\ pc[p] = "open"
    /\ hand[p] = <<>>
    /\ IF bad[p] THEN End(p)
       ELSE /\ Goto(p, "await")
            /\ UNCHANGED <<stored, job, ids, tries, hand, bad>>
    /\ UNCHANGED <<file, results, jobsVars, resultsVars, gone, collVars, boundVars,
                   sealed, returned>>

\* await returns and the results are rendered.
Return(p) ==
    /\ pc[p] = "await"
    /\ Missing(p) = {}
    /\ returned' = returned \cup {[job |-> job[p], answer |-> a] :
                                    a \in {a \in results[p] : a.id \in ids[p]}}
    /\ End(p)
    /\ UNCHANGED <<file, results, jobsVars, resultsVars, gone, collVars, boundVars, sealed>>

\* Mutant: a wait that has no deadline.
NoDeadline(p) ==
    /\ pc[p] = "await"
    /\ Missing(p) # {}
    /\ UNCHANGED vars

\* The deadline has passed: "awaiting approval or still running".
Deadline(p) ==
    /\ pc[p] = "await"
    /\ Missing(p) # {}
    /\ End(p)
    /\ UNCHANGED <<file, results, jobsVars, resultsVars, gone, collVars, boundVars,
                   sealed, returned>>

\* aken-mcp serve dies and the agent starts it again.
Crash(p) ==
    /\ crashes < MaxCrash
    /\ crashes' = crashes + 1
    /\ End(p)
    /\ results' = [results EXCEPT ![p] = {}]
    /\ UNCHANGED <<file, jobsVars, resultsVars, gone, collVars, calls, losses, sealed,
                   returned>>

\* aken-mcp end, a process of its own.
McpEnd ==
    /\ file # Nil
    /\ gone' = TRUE
    /\ jobsQ' = <<>> /\ resultsQ' = <<>>
    /\ file' = Nil
    /\ UNCHANGED <<procVars, lastJob, lastResult, collVars, boundVars, sealed, returned>>

-----------------------------------------------------------------------------
(* The collector.                                                          *)

\* poll: the relay hands out its whole queue.
CollectorPoll ==
    /\ ~gone
    /\ jobsQ # <<>>
    /\ jobsQ' = <<>>
    /\ \/ /\ inbox' = inbox \o jobsQ
          /\ UNCHANGED boundVars
       \/ /\ Lose
          /\ UNCHANGED inbox
    /\ UNCHANGED <<file, procVars, lastJob, resultsVars, gone, cNext, cResult, cJob, cRow,
                   executed, sealed, returned>>

\* Mutant: tolerates a gap.
CollectorOpensLater(e) == e.seq >= cNext

\* keys.OpenJob
CollectorOpens(e) == e.seq = cNext

\* loop: a job that does not open is dropped, any other one is handled. Jobs
\* that came before the relay session was deleted are taken after it too.
CollectorTake ==
    LET e == Head(inbox) IN
    /\ cJob = Nil
    /\ inbox # <<>>
    /\ inbox' = Tail(inbox)
    /\ IF CollectorOpens(e)
         THEN /\ cNext' = cNext + 1
              /\ cJob' = e
              /\ cRow' = 1
              /\ executed' = Append(executed, e)
         ELSE UNCHANGED <<cNext, cJob, cRow, executed>>
    /\ UNCHANGED <<file, procVars, jobsVars, resultsVars, gone, cResult, boundVars,
                   sealed, returned>>

\* SealResult runs once for all attempts.
Sealed == [seq |-> cResult, id |-> <<cJob.id, cRow>>, call |-> cJob.call]

\* send: PostResult, repeated with the same envelope after a lost response. An
\* answer that refuses the result ends the session.
CollectorPost ==
    LET answer == Answer(resultsQ, lastResult, Sealed) IN
    /\ cJob # Nil
    /\ cResult <= MaxSeq
    /\ IF answer = "accepted"
         THEN /\ resultsQ' = Append(resultsQ, Sealed)
              /\ lastResult' = Sealed
         ELSE UNCHANGED resultsVars
    /\ \/ /\ answer \in Accepted
          /\ cResult' = cResult + 1
          /\ IF cRow < cJob.rows
               THEN /\ cRow' = cRow + 1
                    /\ UNCHANGED cJob
               ELSE /\ cRow' = 0
                    /\ cJob' = Nil
          /\ UNCHANGED boundVars
       \/ /\ answer \in Accepted
          /\ Lose
          /\ UNCHANGED <<cResult, cRow, cJob>>
    /\ UNCHANGED <<file, procVars, jobsVars, gone, inbox, cNext, executed, sealed, returned>>

\* A signal, expiry, a poll or a result that is refused, the last attempt lost,
\* or a sequence used up: Run deletes the relay session, and exits.
CollectorEnds ==
    /\ gone' = TRUE
    /\ jobsQ' = <<>> /\ resultsQ' = <<>>
    /\ inbox' = <<>> /\ cJob' = Nil /\ cRow' = 0
    /\ UNCHANGED <<file, procVars, lastJob, lastResult, cNext, cResult, executed,
                   boundVars, sealed, returned>>

-----------------------------------------------------------------------------

\* What a process does on its own once a call has begun.
Proceed(p) ==
    \/ Submit(p) \/ SaveFails(p) \/ PostJob(p) \/ PollResults(p) \/ OpenResult(p)
    \/ OpenFails(p) \/ Opened(p) \/ Return(p) \/ Deadline(p)

Next ==
    \/ \E p \in Procs : \/ Call(p) \/ ResultCall(p) \/ Proceed(p)
                        \/ RequestLost(p) \/ Crash(p)
    \/ McpEnd
    \/ CollectorPoll \/ CollectorTake \/ CollectorPost \/ CollectorEnds

Spec == Init /\ [][Next]_vars

\* A process goes on with its call, and its deadline passes. Nothing is assumed
\* of the agent, the network and the collector.
Fairness == \A p \in Procs : WF_vars(Proceed(p)) /\ WF_vars(Deadline(p))

FairSpec == Spec /\ Fairness

-----------------------------------------------------------------------------
(* Properties.                                                             *)

\* The state of the processes, the relay and the collector is what their types
\* say.
TypeOK ==
    /\ file \in Sessions \cup {Nil}
    /\ pc \in [Procs -> {"idle", "submit", "post", "await", "open"}]
    /\ stored \in [Procs -> Sessions \cup {Nil}]
    /\ job \in [Procs -> JobEnvs \cup {Nil}]
    /\ ids \in [Procs -> SUBSET Ids]
    /\ tries \in [Procs -> 0 .. Attempts - 1]
    /\ hand \in [Procs -> Seq(ResultEnvs)]
    /\ bad \in [Procs -> BOOLEAN]
    /\ results \in [Procs -> SUBSET Answers]
    /\ jobsQ \in Seq(JobEnvs) /\ Len(jobsQ) <= QueueCap
    /\ resultsQ \in Seq(ResultEnvs) /\ Len(resultsQ) <= QueueCap
    /\ lastJob \in JobEnvs \cup {Nil} /\ lastResult \in ResultEnvs \cup {Nil}
    /\ cNext \in 1 .. MaxSeq + 1 /\ cResult \in 1 .. MaxSeq + 1
    /\ inbox \in Seq(JobEnvs) /\ cJob \in JobEnvs \cup {Nil} /\ cRow \in 0 .. MaxRows

\* "A sender must not reuse a sequence with different plaintext or metadata"
\* (spec/envelope.md on sealing): whatever is lost, retried, or interrupted by a
\* crash of aken-mcp serve, no two jobs are sealed under one number. (submit)
SealedOnce ==
    \A e, f \in sealed : e.seq = f.seq => e = f

\* What a call returns answers the job of that call, and what result returns
\* answers the job its id was given out for: a result is never taken for the
\* answer to another call, also after lost results, mismatched sequences and
\* crashes. (await, submitAndAwait, plan, jobResult)
AnswersOwnCall ==
    \A r \in returned :
      /\ r.job # Nil => r.answer.call = r.job.call
      /\ \E e \in sealed : /\ e.seq = r.answer.id[1]
                           /\ e.call = r.answer.call
                           /\ r.answer.id[2] <= e.rows

\* The collector runs the jobs it runs in the order of their numbers, without a
\* gap and none twice, although every request may be lost and repeated; each is
\* a job that was sealed. (RelayClient.do, relay post, loop)
RunsInSequence ==
    \A i \in DOMAIN executed : executed[i].seq = i /\ executed[i] \in sealed

\* As long as nothing was lost and no process died, neither side ever meets a
\* number it does not expect, whichever calls timed out before their results
\* came: what a poll brings opens, and what the relay still queues is what
\* comes next. (await, loop, the counters of the session file)
NoMismatch ==
    losses = 0 /\ crashes = 0 =>
      /\ \A p \in Procs : ~bad[p]
      /\ \A i \in DOMAIN inbox : inbox[i].seq = cNext + i - 1
      /\ \A i \in DOMAIN jobsQ : jobsQ[i].seq = cNext + Len(inbox) + i - 1
      /\ \A i \in DOMAIN resultsQ :
           file # Nil /\ (\A p \in Procs : hand[p] = <<>>) =>
             resultsQ[i].seq = file.nextResult + i - 1

\* Every tool call ends, also if no result ever arrives. (await)
CallEnds == \A p \in Procs : pc[p] # "idle" ~> pc[p] = "idle"
=============================================================================
