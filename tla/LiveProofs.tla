----------------------------- MODULE LiveProofs -----------------------------
(***************************************************************************)
(* What Live promises for any number of calls, losses and crashes, any     *)
(* length of the queues and any number of rows: its type; that the         *)
(* collector runs jobs in sequence; and, for a session file that one       *)
(* process uses at a time, that no number is sealed twice, that no call    *)
(* returns the answer to another, and that nobody meets a number out of    *)
(* turn while nothing is lost.                                             *)
(***************************************************************************)
EXTENDS Live, TLAPS

-----------------------------------------------------------------------------
(* Types.                                                                  *)

\* Where a call is tells what it holds.
LocalOK(p) ==
    /\ pc[p] = "idle" => job[p] = Nil
    /\ pc[p] # "idle" => stored[p] # Nil
    /\ pc[p] \in {"submit", "post"} => job[p] # Nil
    /\ pc[p] = "submit" => job[p].seq = stored[p].nextJob
    /\ job[p] # Nil => /\ job[p].id = job[p].seq
                       /\ \A id \in ids[p] : id[1] = job[p].seq

ProcsOK ==
    /\ pc \in [Procs -> {"idle", "submit", "post", "await", "open"}]
    /\ stored \in [Procs -> Sessions \cup {Nil}]
    /\ job \in [Procs -> JobEnvs \cup {Nil}]
    /\ ids \in [Procs -> SUBSET Ids]
    /\ tries \in [Procs -> 0 .. Attempts - 1]
    /\ hand \in [Procs -> Seq(ResultEnvs)]
    /\ bad \in [Procs -> BOOLEAN]
    /\ \A p \in Procs : LocalOK(p)

RelayOK ==
    /\ jobsQ \in Seq(JobEnvs) /\ Len(jobsQ) <= QueueCap
    /\ resultsQ \in Seq(ResultEnvs) /\ Len(resultsQ) <= QueueCap
    /\ lastJob \in JobEnvs \cup {Nil} /\ lastResult \in ResultEnvs \cup {Nil}

CollectorOK ==
    /\ cNext \in 1 .. MaxSeq + 1 /\ cResult \in 1 .. MaxSeq + 1
    /\ inbox \in Seq(JobEnvs) /\ cJob \in JobEnvs \cup {Nil} /\ cRow \in 0 .. MaxRows
    /\ cJob # Nil => cRow \in 1 .. cJob.rows

FileOK ==
    /\ file \in Sessions \cup {Nil}
    /\ results \in [Procs -> SUBSET Answers]
    /\ calls \in 0 .. MaxCalls

TypeInv == ProcsOK /\ RelayOK /\ CollectorOK /\ FileOK

\* The bounds are numbers.
LEMMA Bounds ==
    /\ MaxSeq \in Nat \ {0} /\ MaxRows \in Nat \ {0}
    /\ QueueCap \in Nat \ {0} /\ Attempts \in Nat \ {0} /\ MaxCalls \in Nat
  BY LiveAssumption, Zenon

\* A queue whose messages were handed out is empty.
LEMMA EmptyQueue ==
    ASSUME NEW S
    PROVE  <<>> \in Seq(S) /\ Len(<<>>) <= QueueCap
  <1>1. <<>> \in Seq(S) /\ Len(<<>>) = 0
    OBVIOUS
  <1> QED BY <1>1, Bounds

\* A call that ends leaves its process as at first.
LEMMA EndOK ==
    ASSUME ProcsOK, NEW p \in Procs, End(p)
    PROVE  ProcsOK'
  <1>1. /\ pc' \in [Procs -> {"idle", "submit", "post", "await", "open"}]
        /\ stored' \in [Procs -> Sessions \cup {Nil}]
        /\ job' \in [Procs -> JobEnvs \cup {Nil}]
        /\ ids' \in [Procs -> SUBSET Ids]
        /\ bad' \in [Procs -> BOOLEAN]
    BY Zenon DEF ProcsOK, End, Goto
  <1>2. tries' \in [Procs -> 0 .. Attempts - 1]
    BY Bounds DEF ProcsOK, End
  <1>3. hand' \in [Procs -> Seq(ResultEnvs)]
    BY DEF ProcsOK, End
  <1>4. ASSUME NEW q \in Procs PROVE LocalOK(q)'
    <2>1. CASE q = p
      <3>1. pc'[q] = "idle" /\ job'[q] = Nil
        BY <2>1, Zenon DEF ProcsOK, End, Goto
      <3> QED BY <3>1, Zenon DEF LocalOK
    <2>2. CASE q # p
      <3>1. /\ pc'[q] = pc[q] /\ job'[q] = job[q] /\ stored'[q] = stored[q]
            /\ ids'[q] = ids[q]
        BY <2>2, Zenon DEF ProcsOK, End, Goto
      <3> QED BY <3>1, Zenon DEF ProcsOK, LocalOK
    <2> QED BY <2>1, <2>2, Zenon
  <1> QED BY <1>1, <1>2, <1>3, <1>4, Zenon DEF ProcsOK

\* do makes at most as many attempts as it may.
LEMMA RetryOK ==
    ASSUME ProcsOK, NEW p \in Procs, Retry(p)
    PROVE  ProcsOK'
  <1>1. CASE End(p)
    BY <1>1, EndOK, Zenon
  <1>2. CASE /\ tries[p] + 1 < Attempts
             /\ tries' = [tries EXCEPT ![p] = @ + 1]
             /\ UNCHANGED <<pc, stored, job, ids, hand, bad>>
    <2>1. tries' \in [Procs -> 0 .. Attempts - 1]
      BY <1>2, Bounds DEF ProcsOK
    <2>2. \A q \in Procs : LocalOK(q)'
      BY <1>2, Zenon DEF ProcsOK, LocalOK
    <2> QED BY <1>2, <2>1, <2>2, Zenon DEF ProcsOK
  <1> QED BY <1>1, <1>2, Zenon DEF Retry

\* A process that only moves on keeps what it holds.
LEMMA MovesOn ==
    ASSUME ProcsOK, NEW p \in Procs, NEW label \in {"await", "open"}, pc[p] # "idle",
           Goto(p, label), UNCHANGED <<stored, job, ids>>,
           tries' = [tries EXCEPT ![p] = 0] \/ tries' = tries,
           hand' \in [Procs -> Seq(ResultEnvs)], bad' \in [Procs -> BOOLEAN]
    PROVE  ProcsOK'
  <1>1. pc' \in [Procs -> {"idle", "submit", "post", "await", "open"}]
    BY Zenon DEF ProcsOK, Goto
  <1>2. tries' \in [Procs -> 0 .. Attempts - 1]
    <2>1. 0 \in 0 .. Attempts - 1
      BY Bounds
    <2>2. CASE tries' = tries
      BY <2>2, Zenon DEF ProcsOK
    <2>3. CASE tries' = [tries EXCEPT ![p] = 0]
      BY <2>1, <2>3, Zenon DEF ProcsOK
    <2> QED BY <2>2, <2>3, Zenon
  <1>3. \A q \in Procs : pc'[q] = pc[q] \/ (pc'[q] = label /\ pc[q] # "idle")
    BY Zenon DEF ProcsOK, Goto
  <1>4. \A q \in Procs : LocalOK(q)'
    BY <1>3, Zenon DEF ProcsOK, LocalOK
  <1> QED BY <1>1, <1>2, <1>4, Zenon DEF ProcsOK

\* The types hold when a call begins.
LEMMA TypeCall ==
    ASSUME TypeInv, NEW p \in Procs, Call(p)
    PROVE  TypeInv'
  <1>1. PICK n \in 1 .. MaxRows :
           /\ pc[p] = "idle" /\ calls < MaxCalls /\ file # Nil /\ file.nextJob < MaxSeq
           /\ calls' = calls + 1
           /\ stored' = [stored EXCEPT ![p] = file]
           /\ job' = [job EXCEPT ![p] = [seq |-> file.nextJob, id |-> file.nextJob,
                                         call |-> calls', rows |-> n]]
           /\ ids' = [ids EXCEPT ![p] = {file.nextJob} \X (1 .. n)]
           /\ pc' = [pc EXCEPT ![p] = "submit"]
    BY Zenon DEF Call, JobId, Goto
  <1>2. UNCHANGED <<file, tries, hand, bad, results, jobsQ, lastJob, resultsQ, lastResult,
                    inbox, cNext, cResult, cJob, cRow>>
    BY Zenon DEF Call, jobsVars, resultsVars, collVars
  <1>3. file \in Sessions /\ file.nextJob \in 1 .. MaxSeq /\ calls' \in 1 .. MaxCalls
    BY <1>1, Bounds DEF TypeInv, FileOK, Sessions
  <1> DEFINE e == [seq |-> file.nextJob, id |-> file.nextJob, call |-> calls', rows |-> n]
  <1>4. e \in JobEnvs /\ e.seq = file.nextJob /\ e.id = file.nextJob
    BY <1>3, Zenon DEF JobEnvs, Calls
  <1>5. {file.nextJob} \X (1 .. n) \in SUBSET Ids
    BY <1>3, Bounds DEF Ids
  <1> HIDE DEF e
  <1>6. /\ pc' \in [Procs -> {"idle", "submit", "post", "await", "open"}]
        /\ stored' \in [Procs -> Sessions \cup {Nil}]
        /\ job' \in [Procs -> JobEnvs \cup {Nil}]
        /\ ids' \in [Procs -> SUBSET Ids]
    BY <1>1, <1>3, <1>4, <1>5, Zenon DEF TypeInv, ProcsOK, e
  <1>7. ASSUME NEW q \in Procs PROVE LocalOK(q)'
    <2>1. CASE q = p
      <3>1. /\ pc'[q] = "submit" /\ stored'[q] = file /\ job'[q] = e
            /\ ids'[q] = {file.nextJob} \X (1 .. n)
        BY <1>1, <2>1, Zenon DEF TypeInv, ProcsOK, e
      <3>2. e # Nil
        BY <1>4, NilAssumption, Zenon
      <3>3. \A id \in ids'[q] : id[1] = file.nextJob
        BY <3>1, Zenon
      <3> QED BY <1>1, <1>4, <3>1, <3>2, <3>3, Zenon DEF LocalOK
    <2>2. CASE q # p
      <3>1. /\ pc'[q] = pc[q] /\ job'[q] = job[q] /\ stored'[q] = stored[q]
            /\ ids'[q] = ids[q]
        BY <1>1, <2>2, Zenon DEF TypeInv, ProcsOK
      <3> QED BY <3>1, Zenon DEF TypeInv, ProcsOK, LocalOK
    <2> QED BY <2>1, <2>2, Zenon
  <1>8. ProcsOK'
    BY <1>2, <1>6, <1>7, Zenon DEF TypeInv, ProcsOK
  <1>9. FileOK'
    BY <1>2, <1>3 DEF TypeInv, FileOK
  <1> QED BY <1>2, <1>8, <1>9, Zenon DEF TypeInv, RelayOK, CollectorOK

\* The types hold when result is called for an earlier id.
LEMMA TypeResultCall ==
    ASSUME TypeInv, NEW p \in Procs, ResultCall(p)
    PROVE  TypeInv'
  <1>1. PICK id \in Ids :
           /\ pc[p] = "idle" /\ file # Nil
           /\ stored' = [stored EXCEPT ![p] = file]
           /\ ids' = [ids EXCEPT ![p] = {id}]
           /\ pc' = [pc EXCEPT ![p] = "await"]
    BY Zenon DEF ResultCall, Goto
  <1>2. UNCHANGED <<file, calls, job, tries, hand, bad, results, jobsQ, lastJob, resultsQ,
                    lastResult, inbox, cNext, cResult, cJob, cRow>>
    BY Zenon DEF ResultCall, jobsVars, resultsVars, collVars, boundVars
  <1>3. /\ pc' \in [Procs -> {"idle", "submit", "post", "await", "open"}]
        /\ stored' \in [Procs -> Sessions \cup {Nil}]
        /\ ids' \in [Procs -> SUBSET Ids]
    BY <1>1, Zenon DEF TypeInv, ProcsOK, FileOK
  <1>4. ASSUME NEW q \in Procs PROVE LocalOK(q)'
    <2>1. CASE q = p
      <3>1. pc'[q] = "await" /\ stored'[q] = file /\ job'[q] = Nil
        BY <1>1, <1>2, <2>1, Zenon DEF TypeInv, ProcsOK, LocalOK
      <3> QED BY <1>1, <3>1, Zenon DEF LocalOK
    <2>2. CASE q # p
      <3>1. /\ pc'[q] = pc[q] /\ job'[q] = job[q] /\ stored'[q] = stored[q]
            /\ ids'[q] = ids[q]
        BY <1>1, <1>2, <2>2, Zenon DEF TypeInv, ProcsOK
      <3> QED BY <3>1, Zenon DEF TypeInv, ProcsOK, LocalOK
    <2> QED BY <2>1, <2>2, Zenon
  <1>5. ProcsOK'
    BY <1>2, <1>3, <1>4, Zenon DEF TypeInv, ProcsOK
  <1> QED BY <1>2, <1>5, Zenon DEF TypeInv, RelayOK, CollectorOK, FileOK

\* The types hold when submit saves the counter and seals.
LEMMA TypeSubmit ==
    ASSUME TypeInv, NEW p \in Procs, Submit(p)
    PROVE  TypeInv'
  <1>1. /\ pc[p] = "submit"
        /\ stored' = [stored EXCEPT ![p] = [stored[p] EXCEPT !.nextJob = stored[p].nextJob + 1]]
        /\ file' = stored'[p]
        /\ pc' = [pc EXCEPT ![p] = "post"]
    BY Zenon DEF Submit, Goto
  <1>2. UNCHANGED <<calls, job, ids, tries, hand, bad, results, jobsQ, lastJob, resultsQ,
                    lastResult, inbox, cNext, cResult, cJob, cRow>>
    BY Zenon DEF Submit, jobsVars, resultsVars, collVars, boundVars
  <1>3. /\ stored[p] \in Sessions /\ job[p] \in JobEnvs /\ job[p] # Nil
        /\ job[p].seq = stored[p].nextJob
    BY <1>1, Zenon DEF TypeInv, ProcsOK, LocalOK
  <1>4. stored[p].nextJob \in 1 .. MaxSeq
    BY <1>3, Zenon DEF JobEnvs
  <1> DEFINE s == [stored[p] EXCEPT !.nextJob = stored[p].nextJob + 1]
  <1>5. s \in Sessions
    BY <1>3, <1>4, Bounds DEF Sessions
  <1>6. s # Nil
    BY <1>5, NilAssumption, Zenon
  <1> HIDE DEF s
  <1>7. stored'[p] = s /\ \A q \in Procs : q # p => stored'[q] = stored[q] /\ pc'[q] = pc[q]
    BY <1>1, Zenon DEF TypeInv, ProcsOK, s
  <1>8. /\ stored' \in [Procs -> Sessions \cup {Nil}]
        /\ pc' \in [Procs -> {"idle", "submit", "post", "await", "open"}]
        /\ pc'[p] = "post"
    BY <1>1, <1>5, Zenon DEF TypeInv, ProcsOK, s
  <1>9. ASSUME NEW q \in Procs PROVE LocalOK(q)'
    <2>1. CASE q = p
      BY <1>1, <1>2, <1>3, <1>6, <1>7, <1>8, <2>1, ZenonT(30) DEF TypeInv, ProcsOK, LocalOK
    <2>2. CASE q # p
      BY <1>2, <1>7, <2>2, Zenon DEF TypeInv, ProcsOK, LocalOK
    <2> QED BY <2>1, <2>2
  <1>10. ProcsOK'
    BY <1>2, <1>8, <1>9, Zenon DEF TypeInv, ProcsOK
  <1>11. FileOK'
    BY <1>1, <1>2, <1>5, <1>7, Zenon DEF TypeInv, FileOK
  <1> QED BY <1>2, <1>10, <1>11, Zenon DEF TypeInv, RelayOK, CollectorOK

\* The types hold when a job is posted, and when a request is lost.
LEMMA TypePost ==
    ASSUME TypeInv, NEW p \in Procs, PostJob(p)
    PROVE  TypeInv'
  <1>1. /\ pc[p] = "post"
        /\ UNCHANGED <<file, calls, results, resultsQ, lastResult, inbox, cNext, cResult, cJob, cRow>>
    BY Zenon DEF PostJob, resultsVars, collVars, boundVars, Lose
  <1>2. job[p] \in JobEnvs
    BY <1>1, Zenon DEF TypeInv, ProcsOK, LocalOK
  <1>3. RelayOK'
    <2>1. CASE UNCHANGED <<jobsQ, lastJob>>
      BY <1>1, <2>1, Zenon DEF TypeInv, RelayOK
    <2>2. CASE /\ Answer(jobsQ, lastJob, job[p]) = "accepted"
               /\ jobsQ' = Append(jobsQ, job[p]) /\ lastJob' = job[p]
      <3>1. Len(jobsQ) < QueueCap
        <4>1. ~(Len(jobsQ) >= QueueCap)
          BY <2>2, Zenon DEF Answer
        <4> QED BY <4>1, Bounds DEF TypeInv, RelayOK
      <3>2. jobsQ' \in Seq(JobEnvs) /\ Len(jobsQ') = Len(jobsQ) + 1
        BY <1>2, <2>2 DEF TypeInv, RelayOK
      <3>3. Len(jobsQ') <= QueueCap
        BY <3>1, <3>2, Bounds DEF TypeInv, RelayOK
      <3> QED BY <1>1, <1>2, <2>2, <3>2, <3>3, Zenon DEF TypeInv, RelayOK
    <2> QED BY <2>1, <2>2, Zenon DEF PostJob, jobsVars
  <1>4. ProcsOK'
    <2>1. CASE Goto(p, "await") /\ tries' = [tries EXCEPT ![p] = 0]
               /\ UNCHANGED <<stored, job, ids, hand, bad>>
      <3>1. hand' \in [Procs -> Seq(ResultEnvs)] /\ bad' \in [Procs -> BOOLEAN]
        BY <2>1, Zenon DEF TypeInv, ProcsOK
      <3> QED BY <1>1, <2>1, <3>1, MovesOn, Zenon DEF TypeInv
    <2>2. CASE End(p) \/ Retry(p)
      BY <2>2, EndOK, RetryOK, Zenon DEF TypeInv
    <2> QED BY <2>1, <2>2, Zenon DEF PostJob
  <1> QED BY <1>1, <1>3, <1>4, Zenon DEF TypeInv, CollectorOK, FileOK

\* The types hold when results are polled.
LEMMA TypePoll ==
    ASSUME TypeInv, NEW p \in Procs, PollResults(p)
    PROVE  TypeInv'
  <1>1. /\ pc[p] = "await"
        /\ resultsQ' = resultsQ \/ resultsQ' = <<>>
        /\ UNCHANGED <<file, calls, results, jobsQ, lastJob, lastResult, inbox, cNext, cResult,
                       cJob, cRow>>
    BY Zenon DEF PollResults, jobsVars, collVars, boundVars, Lose
  <1>2. RelayOK'
    <2>1. resultsQ' \in Seq(ResultEnvs) /\ Len(resultsQ') <= QueueCap
      BY <1>1, EmptyQueue, Zenon DEF TypeInv, RelayOK
    <2> QED BY <1>1, <2>1, Zenon DEF TypeInv, RelayOK
  <1>3. ProcsOK'
    <2>1. CASE /\ hand' = [hand EXCEPT ![p] = resultsQ]
               /\ tries' = [tries EXCEPT ![p] = 0]
               /\ Goto(p, "open")
               /\ UNCHANGED <<stored, job, ids, bad>>
      <3>1. hand' \in [Procs -> Seq(ResultEnvs)] /\ bad' \in [Procs -> BOOLEAN]
        BY <2>1, Zenon DEF TypeInv, ProcsOK, RelayOK
      <3> QED BY <1>1, <2>1, <3>1, MovesOn, Zenon DEF TypeInv
    <2>2. CASE End(p) \/ Retry(p)
      BY <2>2, EndOK, RetryOK DEF TypeInv
    <2> QED BY <2>1, <2>2, Zenon DEF PollResults
  <1> QED BY <1>1, <1>2, <1>3, Zenon DEF TypeInv, CollectorOK, FileOK

\* The types hold when a result is opened.
LEMMA TypeOpen ==
    ASSUME TypeInv, NEW p \in Procs, OpenResult(p)
    PROVE  TypeInv'
  <1> DEFINE e == Head(hand[p])
             s == [stored[p] EXCEPT !.nextResult = stored[p].nextResult + 1]
  <1>1. /\ pc[p] = "open" /\ hand[p] # <<>>
        /\ hand' = [hand EXCEPT ![p] = Tail(hand[p])]
        /\ UNCHANGED <<calls, pc, job, ids, tries, jobsQ, lastJob, resultsQ, lastResult,
                       inbox, cNext, cResult, cJob, cRow>>
    BY Zenon DEF OpenResult, jobsVars, resultsVars, collVars, boundVars
  <1>2. e \in ResultEnvs /\ Tail(hand[p]) \in Seq(ResultEnvs)
    BY <1>1 DEF TypeInv, ProcsOK
  <1>3. hand' \in [Procs -> Seq(ResultEnvs)]
    BY <1>1, <1>2, Zenon DEF TypeInv, ProcsOK
  <1>4. RelayOK' /\ CollectorOK'
    BY <1>1, Zenon DEF TypeInv, RelayOK, CollectorOK
  <1>5. CASE ~Opens(p)
    <2>1. bad' = [bad EXCEPT ![p] = TRUE] /\ UNCHANGED <<stored, file, results>>
      BY <1>5, Zenon DEF OpenResult
    <2>2. bad' \in [Procs -> BOOLEAN]
      BY <2>1, Zenon DEF TypeInv, ProcsOK
    <2>3. \A q \in Procs : LocalOK(q)'
      BY <1>1, <2>1, Zenon DEF TypeInv, ProcsOK, LocalOK
    <2>4. ProcsOK'
      BY <1>1, <1>3, <2>1, <2>2, <2>3, Zenon DEF TypeInv, ProcsOK
    <2> QED BY <1>1, <1>4, <2>1, <2>4, Zenon DEF TypeInv, FileOK
  <1>6. CASE Opens(p)
    <2>1. /\ stored' = [stored EXCEPT ![p] = s] /\ file' = stored'[p] /\ bad' = bad
          /\ results' = [results EXCEPT ![p] = {a \in results[p] : a.id # e.id}
                                                 \cup {[id |-> e.id, call |-> e.call]}]
      BY <1>6, Zenon DEF OpenResult
    <2>2. stored[p] \in Sessions /\ stored[p].nextResult \in 1 .. MaxSeq
      BY <1>1, <1>2, <1>6, Zenon DEF TypeInv, ProcsOK, LocalOK, Opens, ResultEnvs
    <2>3. s \in Sessions /\ s.nextJob = stored[p].nextJob
      BY <2>2, Bounds DEF Sessions
    <2>4. s # Nil
      BY <2>3, NilAssumption, Zenon
    <2>5. [id |-> e.id, call |-> e.call] \in Answers
      BY <1>2, Zenon DEF ResultEnvs, Answers
    <2> HIDE DEF s, e
    <2>6. stored' \in [Procs -> Sessions \cup {Nil}] /\ file' \in Sessions
      BY <2>1, <2>3, Zenon DEF TypeInv, ProcsOK
    <2>7. results' \in [Procs -> SUBSET Answers]
      BY <2>1, <2>5, Zenon DEF TypeInv, FileOK
    <2>8. ASSUME NEW q \in Procs PROVE LocalOK(q)'
      <3>1. stored'[q] = stored[q] \/ (stored'[q] = s /\ q = p)
        BY <2>1, Zenon DEF TypeInv, ProcsOK
      <3> QED BY <1>1, <2>4, <3>1, Zenon DEF TypeInv, ProcsOK, LocalOK
    <2>9. ProcsOK'
      BY <1>1, <1>3, <2>1, <2>6, <2>8, Zenon DEF TypeInv, ProcsOK
    <2> QED BY <1>1, <1>4, <2>6, <2>7, <2>9, Zenon DEF TypeInv, FileOK
  <1> QED BY <1>5, <1>6, Zenon

\* The types hold in every other step of a process.
LEMMA TypeProceed ==
    ASSUME TypeInv, NEW p \in Procs,
           \/ SaveFails(p) \/ RequestLost(p) \/ OpenFails(p) \/ Opened(p) \/ Return(p)
           \/ Deadline(p) \/ Crash(p)
    PROVE  TypeInv'
  <1>1. UNCHANGED <<file, calls, jobsQ, lastJob, resultsQ, lastResult, inbox, cNext, cResult,
                    cJob, cRow>>
    BY Zenon DEF SaveFails, RequestLost, OpenFails, Opened, Return, Deadline, Crash, Lose,
           jobsVars, resultsVars, collVars, boundVars
  <1>2. results' \in [Procs -> SUBSET Answers]
    <2>1. results' = results \/ results' = [results EXCEPT ![p] = {}]
      BY Zenon DEF SaveFails, RequestLost, OpenFails, Opened, Return, Deadline, Crash
    <2> QED BY <2>1, Zenon DEF TypeInv, FileOK
  <1>3. ProcsOK'
    <2>1. CASE End(p) \/ Retry(p)
      BY <2>1, EndOK, RetryOK, Zenon DEF TypeInv
    <2>2. CASE Opened(p) /\ ~End(p)
      <3>1. /\ pc[p] = "open" /\ Goto(p, "await")
            /\ UNCHANGED <<stored, job, ids, tries, hand, bad>>
        BY <2>2, Zenon DEF Opened
      <3>2. hand' \in [Procs -> Seq(ResultEnvs)] /\ bad' \in [Procs -> BOOLEAN]
        BY <3>1, Zenon DEF TypeInv, ProcsOK
      <3> QED BY <3>1, <3>2, MovesOn, Zenon DEF TypeInv
    <2> QED BY <2>1, <2>2, Zenon DEF SaveFails, RequestLost, OpenFails, Return, Deadline, Crash
  <1> QED BY <1>1, <1>2, <1>3, Zenon DEF TypeInv, RelayOK, CollectorOK, FileOK

\* The types hold when the session ends.
LEMMA TypeEnds ==
    ASSUME TypeInv, McpEnd \/ CollectorEnds
    PROVE  TypeInv'
  <1>1. /\ jobsQ' = <<>> /\ resultsQ' = <<>> /\ file' \in {file, Nil}
        /\ UNCHANGED <<pc, stored, job, ids, tries, hand, bad, results, calls, lastJob, lastResult,
                       cNext, cResult>>
        /\ \/ UNCHANGED <<inbox, cJob, cRow>>
           \/ inbox' = <<>> /\ cJob' = Nil /\ cRow' = 0
    BY Zenon DEF McpEnd, CollectorEnds, procVars, collVars, boundVars
  <1>2. RelayOK'
    BY <1>1, EmptyQueue, Zenon DEF TypeInv, RelayOK
  <1>3. \A q \in Procs : LocalOK(q)'
    BY <1>1, Zenon DEF TypeInv, ProcsOK, LocalOK
  <1>4. ProcsOK'
    BY <1>1, <1>3, Zenon DEF TypeInv, ProcsOK
  <1>5. CollectorOK'
    <2>1. CASE UNCHANGED <<inbox, cJob, cRow>>
      BY <1>1, <2>1, Zenon DEF TypeInv, CollectorOK
    <2>2. CASE inbox' = <<>> /\ cJob' = Nil /\ cRow' = 0
      <3>1. inbox' \in Seq(JobEnvs)
        BY <2>2, EmptyQueue, Zenon
      <3>2. 0 \in 0 .. MaxRows
        BY Bounds
      <3> QED BY <1>1, <2>2, <3>1, <3>2, Zenon DEF TypeInv, CollectorOK
    <2> QED BY <1>1, <2>1, <2>2, Zenon
  <1> QED BY <1>1, <1>2, <1>4, <1>5, Zenon DEF TypeInv, FileOK

\* What the collector seals for a row is a result.
LEMMA SealedTyped ==
    ASSUME TypeInv, cJob # Nil, cResult <= MaxSeq
    PROVE  Sealed \in ResultEnvs
  <1>1. cJob \in JobEnvs /\ cRow \in 1 .. cJob.rows /\ cResult \in 1 .. MaxSeq
    BY Bounds DEF TypeInv, CollectorOK
  <1>2. cJob.id \in 1 .. MaxSeq /\ cJob.rows \in 1 .. MaxRows /\ cJob.call \in Calls
    BY <1>1, Zenon DEF JobEnvs
  <1>3. cRow \in 1 .. MaxRows
    BY <1>1, <1>2, Bounds
  <1> QED BY <1>1, <1>2, <1>3, Zenon DEF Sealed, ResultEnvs, Ids

\* The types hold in the collector's steps.
LEMMA TypeCollector ==
    ASSUME TypeInv, CollectorPoll \/ CollectorTake \/ CollectorPost
    PROVE  TypeInv'
  <1>1. UNCHANGED <<pc, stored, job, ids, tries, hand, bad, results, calls, file>>
    BY Zenon DEF CollectorPoll, CollectorTake, CollectorPost, procVars, boundVars, Lose
  <1>2. \A q \in Procs : LocalOK(q)'
    BY <1>1, Zenon DEF TypeInv, ProcsOK, LocalOK
  <1>3. ProcsOK' /\ FileOK'
    BY <1>1, <1>2, Zenon DEF TypeInv, ProcsOK, FileOK
  <1>4. CASE CollectorPoll
    <2>1. /\ jobsQ' = <<>> /\ inbox' \in {inbox \o jobsQ, inbox}
          /\ UNCHANGED <<lastJob, resultsQ, lastResult, cNext, cResult, cJob, cRow>>
      BY <1>4, Zenon DEF CollectorPoll, resultsVars
    <2>2. inbox' \in Seq(JobEnvs)
      <3>1. inbox \in Seq(JobEnvs) /\ jobsQ \in Seq(JobEnvs)
        BY Zenon DEF TypeInv, RelayOK, CollectorOK
      <3>2. inbox \o jobsQ \in Seq(JobEnvs)
        BY <3>1
      <3> QED BY <2>1, <3>1, <3>2, Zenon
    <2>3. RelayOK'
      BY <2>1, EmptyQueue, Zenon DEF TypeInv, RelayOK
    <2> QED BY <1>3, <2>1, <2>2, <2>3, Zenon DEF TypeInv, CollectorOK
  <1>5. CASE CollectorTake
    <2> DEFINE e == Head(inbox)
    <2>1. /\ inbox # <<>> /\ inbox' = Tail(inbox)
          /\ UNCHANGED <<jobsQ, lastJob, resultsQ, lastResult, cResult>>
          /\ \/ e.seq = cNext /\ cNext' = cNext + 1 /\ cJob' = e /\ cRow' = 1
             \/ UNCHANGED <<cNext, cJob, cRow>>
      BY <1>5, Zenon DEF CollectorTake, CollectorOpens, jobsVars, resultsVars
    <2>2. e \in JobEnvs /\ inbox' \in Seq(JobEnvs)
      BY <2>1 DEF TypeInv, CollectorOK
    <2>3. RelayOK'
      BY <2>1, Zenon DEF TypeInv, RelayOK
    <2>4. e.seq \in 1 .. MaxSeq /\ e.rows \in 1 .. MaxRows
      BY <2>2, Zenon DEF JobEnvs
    <2> HIDE DEF e
    <2>5. CASE UNCHANGED <<cNext, cJob, cRow>>
      BY <1>3, <2>1, <2>2, <2>3, <2>5, Zenon DEF TypeInv, CollectorOK
    <2>6. CASE e.seq = cNext /\ cNext' = cNext + 1 /\ cJob' = e /\ cRow' = 1
      <3>1. cNext' \in 1 .. MaxSeq + 1 /\ cRow' \in 0 .. MaxRows /\ cRow' \in 1 .. e.rows
        BY <2>4, <2>6, Bounds
      <3> QED BY <1>3, <2>1, <2>2, <2>3, <2>6, <3>1, Zenon DEF TypeInv, CollectorOK
    <2> QED BY <2>1, <2>5, <2>6, Zenon
  <1>6. CASE CollectorPost
    <2>1. /\ cJob # Nil /\ cResult <= MaxSeq
          /\ UNCHANGED <<jobsQ, lastJob, inbox, cNext>>
      BY <1>6, Zenon DEF CollectorPost, jobsVars
    <2>2. Sealed \in ResultEnvs
      BY <2>1, SealedTyped, Zenon
    <2>3. RelayOK'
      <3>1. CASE UNCHANGED <<resultsQ, lastResult>>
        BY <2>1, <3>1, Zenon DEF TypeInv, RelayOK
      <3>2. CASE /\ Answer(resultsQ, lastResult, Sealed) = "accepted"
                 /\ resultsQ' = Append(resultsQ, Sealed) /\ lastResult' = Sealed
        <4>1. ~(Len(resultsQ) >= QueueCap)
          BY <3>2, Zenon DEF Answer
        <4>2. Len(resultsQ) < QueueCap
          BY <4>1, Bounds DEF TypeInv, RelayOK
        <4>3. resultsQ' \in Seq(ResultEnvs) /\ Len(resultsQ') = Len(resultsQ) + 1
          BY <2>2, <3>2 DEF TypeInv, RelayOK
        <4>4. Len(resultsQ') <= QueueCap
          BY <4>2, <4>3, Bounds DEF TypeInv, RelayOK
        <4> QED BY <2>1, <2>2, <3>2, <4>3, <4>4, Zenon DEF TypeInv, RelayOK
      <3> QED BY <1>6, <3>1, <3>2, Zenon DEF CollectorPost, resultsVars
    <2>4. \/ UNCHANGED <<cResult, cRow, cJob>>
          \/ /\ cResult' = cResult + 1
             /\ \/ cRow < cJob.rows /\ cRow' = cRow + 1 /\ cJob' = cJob
                \/ cRow' = 0 /\ cJob' = Nil
      BY <1>6, Zenon DEF CollectorPost
    <2>5. cJob \in JobEnvs /\ cJob.rows \in 1 .. MaxRows /\ cRow \in 1 .. cJob.rows
      BY <2>1, Zenon DEF TypeInv, CollectorOK, JobEnvs
    <2>6. CASE UNCHANGED <<cResult, cRow, cJob>>
      BY <1>3, <2>1, <2>3, <2>6, Zenon DEF TypeInv, CollectorOK
    <2>7. CASE /\ cResult' = cResult + 1
               /\ cRow < cJob.rows /\ cRow' = cRow + 1 /\ cJob' = cJob
      <3>1. cResult' \in 1 .. MaxSeq + 1 /\ cRow' \in 1 .. cJob.rows /\ cRow' \in 0 .. MaxRows
        BY <2>1, <2>5, <2>7, Bounds DEF TypeInv, CollectorOK
      <3> QED BY <1>3, <2>1, <2>3, <2>7, <3>1, Zenon DEF TypeInv, CollectorOK
    <2>8. CASE cResult' = cResult + 1 /\ cRow' = 0 /\ cJob' = Nil
      <3>1. cResult' \in 1 .. MaxSeq + 1 /\ cRow' \in 0 .. MaxRows
        BY <2>1, <2>8, Bounds DEF TypeInv, CollectorOK
      <3> QED BY <1>3, <2>1, <2>3, <2>8, <3>1, Zenon DEF TypeInv, CollectorOK
    <2> QED BY <2>4, <2>6, <2>7, <2>8, Zenon
  <1> QED BY <1>4, <1>5, <1>6, Zenon

\* Every step keeps the types.
LEMMA TypeStep ==
    ASSUME TypeInv, [Next]_vars
    PROVE  TypeInv'
  <1>1. CASE UNCHANGED vars
    <2>1. UNCHANGED <<file, pc, stored, job, ids, tries, hand, bad, results, jobsQ, lastJob,
                      resultsQ, lastResult, inbox, cNext, cResult, cJob, cRow, calls>>
      BY <1>1, Zenon DEF vars, procVars, jobsVars, resultsVars, collVars, boundVars
    <2>2. \A q \in Procs : LocalOK(q)'
      BY <2>1, Zenon DEF TypeInv, ProcsOK, LocalOK
    <2>3. ProcsOK'
      BY <2>1, <2>2, Zenon DEF TypeInv, ProcsOK
    <2> QED BY <2>1, <2>3, Zenon DEF TypeInv, RelayOK, CollectorOK, FileOK
  <1>2. ASSUME NEW p \in Procs,
               Call(p) \/ ResultCall(p) \/ Proceed(p) \/ RequestLost(p) \/ Crash(p)
        PROVE  TypeInv'
    BY <1>2, TypeCall, TypeResultCall, TypeSubmit, TypePost, TypePoll, TypeOpen, TypeProceed, Zenon
       DEF Proceed
  <1> QED BY <1>1, <1>2, TypeEnds, TypeCollector, Zenon DEF Next

\* Each call holds what its place in submitAndAwait or jobResult says.
LEMMA Typed == Spec => []TypeInv
  <1>1. Init => TypeInv
    <2> SUFFICES ASSUME Init PROVE TypeInv
      BY Zenon
    <2>1. file \in Sessions
      BY Bounds DEF Init, Sessions
    <2>2. 0 \in 0 .. Attempts - 1 /\ 1 \in 1 .. MaxSeq + 1 /\ 0 \in 0 .. MaxRows /\ 0 \in 0 .. MaxCalls
      BY Bounds
    <2>3. \A p \in Procs : LocalOK(p)
      BY Zenon DEF Init, LocalOK
    <2>4. ProcsOK
      BY <2>2, <2>3 DEF Init, ProcsOK
    <2>5. RelayOK
      BY EmptyQueue, Zenon DEF Init, RelayOK
    <2>6. CollectorOK
      BY <2>2 DEF Init, CollectorOK
    <2>7. FileOK
      BY <2>1, <2>2, Zenon DEF Init, FileOK
    <2> QED BY <2>4, <2>5, <2>6, <2>7, Zenon DEF TypeInv
  <1>2. TypeInv /\ [Next]_vars => TypeInv'
    BY TypeStep, Zenon
  <1> QED BY <1>1, <1>2, PTL DEF Spec

\* Whatever is lost, repeated or interrupted, the counters stay within
\* MaxSessionSeq and its successor, the queues within their capacity and the
\* attempts of a request within their number.
THEOREM Typing == Spec => []TypeOK
  <1>1. TypeInv => TypeOK
    BY Zenon DEF TypeInv, ProcsOK, RelayOK, CollectorOK, FileOK, TypeOK
  <1> QED BY <1>1, Typed, PTL

-----------------------------------------------------------------------------
(* What the collector runs.                                                *)

\* Every job on its way to the collector was sealed, and the collector has run
\* those before the number it expects.
JobsInv ==
    /\ sealed \in SUBSET JobEnvs
    /\ \A e \in sealed : e.id = e.seq
    /\ \A p \in Procs : pc[p] \in {"post", "await", "open"} /\ job[p] # Nil => job[p] \in sealed
    /\ jobsQ \in Seq(sealed)
    /\ inbox \in Seq(sealed)
    /\ cJob # Nil => cJob \in sealed
    /\ executed \in Seq(sealed)
    /\ cNext = Len(executed) + 1
    /\ \A i \in DOMAIN executed : executed[i].seq = i

\* A queue of sealed jobs stays one when more are sealed.
LEMMA MoreSealed ==
    ASSUME NEW S, NEW T, S \subseteq T, NEW q \in Seq(S)
    PROVE  q \in Seq(T)
  OBVIOUS

\* The call of a process ends, or goes on with the job it sealed.
LEMMA JobsEnd ==
    ASSUME TypeInv, JobsInv, NEW p \in Procs, End(p) \/ Retry(p) \/ UNCHANGED <<pc, job>>
    PROVE  \A q \in Procs :
             pc'[q] \in {"post", "await", "open"} /\ job'[q] # Nil => job'[q] \in sealed
  <1>1. CASE End(p)
    <2>1. \A q \in Procs : q # p => pc'[q] = pc[q] /\ job'[q] = job[q]
      BY <1>1, Zenon DEF End, Goto, TypeInv, ProcsOK
    <2>2. job'[p] = Nil
      BY <1>1, Zenon DEF End, TypeInv, ProcsOK
    <2> QED BY <2>1, <2>2, Zenon DEF JobsInv
  <1>2. CASE UNCHANGED <<pc, job>>
    BY <1>2, Zenon DEF JobsInv
  <1> QED BY <1>1, <1>2, Zenon DEF Retry

\* Steps that neither seal nor move a job.
LEMMA JobsKept ==
    ASSUME JobsInv, sealed' = sealed, UNCHANGED <<jobsQ, inbox, cJob, executed, cNext>>,
           \A q \in Procs :
             pc'[q] \in {"post", "await", "open"} /\ job'[q] # Nil => job'[q] \in sealed
    PROVE  JobsInv'
  BY Zenon DEF JobsInv

\* A job is sealed by submit, posted, handed to the collector and taken by it.
LEMMA JobsStep ==
    ASSUME TypeInv, JobsInv, [Next]_vars
    PROVE  JobsInv'
  <1>1. ASSUME NEW p \in Procs, Call(p) \/ ResultCall(p) PROVE JobsInv'
    <2>1. /\ pc[p] = "idle" /\ (pc' = [pc EXCEPT ![p] = "submit"] \/ job' = job)
          /\ pc' = [pc EXCEPT ![p] = "submit"] \/ pc' = [pc EXCEPT ![p] = "await"]
          /\ \A q \in Procs : q # p => job'[q] = job[q]
      BY <1>1, Zenon DEF Call, ResultCall, Goto, TypeInv, ProcsOK
    <2>2. UNCHANGED <<sealed, jobsQ, inbox, cJob, executed, cNext>>
      BY <1>1, Zenon DEF Call, ResultCall, jobsVars, collVars
    <2>3. job[p] = Nil
      BY <2>1, Zenon DEF TypeInv, ProcsOK, LocalOK
    <2>4. \A q \in Procs : q # p => pc'[q] = pc[q]
      BY <2>1, Zenon DEF TypeInv, ProcsOK
    <2>5. pc'[p] = "submit" \/ job'[p] = Nil
      BY <2>1, <2>3, Zenon DEF TypeInv, ProcsOK
    <2>6. \A q \in Procs :
            pc'[q] \in {"post", "await", "open"} /\ job'[q] # Nil => job'[q] \in sealed
      BY <2>1, <2>4, <2>5, Zenon DEF JobsInv
    <2> QED BY <2>2, <2>6, JobsKept, Zenon
  <1>2. ASSUME NEW p \in Procs, Submit(p) PROVE JobsInv'
    <2>1. /\ pc[p] = "submit" /\ sealed' = sealed \cup {job[p]} /\ job' = job
          /\ pc' = [pc EXCEPT ![p] = "post"]
          /\ UNCHANGED <<jobsQ, inbox, cJob, executed, cNext>>
      BY <1>2, Zenon DEF Submit, Goto, jobsVars, collVars
    <2>2. job[p] \in JobEnvs /\ job[p].id = job[p].seq
      BY <2>1, Zenon DEF TypeInv, ProcsOK, LocalOK
    <2>3. sealed \subseteq sealed' /\ sealed' \in SUBSET JobEnvs /\ \A e \in sealed' : e.id = e.seq
      BY <2>1, <2>2, Zenon DEF JobsInv
    <2>4. jobsQ' \in Seq(sealed') /\ inbox' \in Seq(sealed') /\ executed' \in Seq(sealed')
      BY <2>1, <2>3, MoreSealed, Zenon DEF JobsInv
    <2>5. \A q \in Procs : q # p => pc'[q] = pc[q]
      BY <2>1, Zenon DEF TypeInv, ProcsOK
    <2>6. \A q \in Procs :
            pc'[q] \in {"post", "await", "open"} /\ job'[q] # Nil => job'[q] \in sealed'
      BY <2>1, <2>3, <2>5, Zenon DEF JobsInv
    <2>7. cJob' # Nil => cJob' \in sealed'
      BY <2>1, <2>3, Zenon DEF JobsInv
    <2>8. cNext' = Len(executed') + 1 /\ \A i \in DOMAIN executed' : executed'[i].seq = i
      BY <2>1, Zenon DEF JobsInv
    <2> QED BY <2>3, <2>4, <2>6, <2>7, <2>8, Zenon DEF JobsInv
  <1>3. ASSUME NEW p \in Procs, PostJob(p) PROVE JobsInv'
    <2>1. pc[p] = "post" /\ UNCHANGED <<sealed, inbox, cJob, executed, cNext>>
      BY <1>3, Zenon DEF PostJob, collVars
    <2>2. job[p] \in sealed
      BY <2>1, Zenon DEF JobsInv, TypeInv, ProcsOK, LocalOK
    <2>3. jobsQ' \in Seq(sealed)
      <3>1. jobsQ' = jobsQ \/ jobsQ' = Append(jobsQ, job[p])
        BY <1>3, Zenon DEF PostJob, jobsVars
      <3> QED BY <2>2, <3>1 DEF JobsInv
    <2>4. \A q \in Procs :
            pc'[q] \in {"post", "await", "open"} /\ job'[q] # Nil => job'[q] \in sealed
      <3>1. CASE End(p) \/ Retry(p)
        BY <3>1, JobsEnd, Zenon
      <3>2. CASE Goto(p, "await") /\ job' = job
        <4>1. \A q \in Procs : q # p => pc'[q] = pc[q]
          BY <3>2, Zenon DEF Goto, TypeInv, ProcsOK
        <4> QED BY <2>2, <3>2, <4>1, Zenon DEF JobsInv
      <3> QED BY <1>3, <3>1, <3>2, Zenon DEF PostJob
    <2> QED BY <2>1, <2>3, <2>4, Zenon DEF JobsInv
  <1>4. ASSUME NEW p \in Procs, PollResults(p) \/ Opened(p) PROVE JobsInv'
    <2>1. /\ pc[p] \in {"await", "open"}
          /\ UNCHANGED <<sealed, jobsQ, inbox, cJob, executed, cNext>>
      BY <1>4, Zenon DEF PollResults, Opened, jobsVars, collVars
    <2>2. \A q \in Procs :
            pc'[q] \in {"post", "await", "open"} /\ job'[q] # Nil => job'[q] \in sealed
      <3>1. CASE End(p) \/ Retry(p)
        BY <3>1, JobsEnd
      <3>2. CASE (Goto(p, "await") \/ Goto(p, "open")) /\ job' = job
        <4>1. \A q \in Procs : q # p => pc'[q] = pc[q]
          BY <3>2, Zenon DEF Goto, TypeInv, ProcsOK
        <4> QED BY <2>1, <3>2, <4>1, Zenon DEF JobsInv
      <3> QED BY <1>4, <3>1, <3>2, Zenon DEF PollResults, Opened
    <2> QED BY <2>1, <2>2, JobsKept, Zenon
  <1>5. ASSUME NEW p \in Procs,
               \/ SaveFails(p) \/ RequestLost(p) \/ OpenFails(p) \/ OpenResult(p) \/ Return(p)
               \/ Deadline(p) \/ Crash(p)
        PROVE  JobsInv'
    <2>1. UNCHANGED <<sealed, jobsQ, inbox, cJob, executed, cNext>>
      BY <1>5, Zenon DEF SaveFails, RequestLost, OpenFails, OpenResult, Return, Deadline, Crash,
                  jobsVars, collVars
    <2>2. End(p) \/ Retry(p) \/ UNCHANGED <<pc, job>>
      BY <1>5, Zenon DEF SaveFails, RequestLost, OpenFails, OpenResult, Return, Deadline, Crash
    <2> QED BY <2>1, <2>2, JobsEnd, JobsKept, Zenon
  <1>6. ASSUME McpEnd \/ CollectorEnds \/ CollectorPoll PROVE JobsInv'
    <2>1. /\ jobsQ' = <<>> /\ inbox' \in {inbox, inbox \o jobsQ, <<>>} /\ cJob' \in {cJob, Nil}
          /\ UNCHANGED <<sealed, executed, cNext, pc, job>>
      BY <1>6, Zenon DEF McpEnd, CollectorEnds, CollectorPoll, collVars, procVars
    <2>2. inbox \in Seq(sealed) /\ jobsQ \in Seq(sealed)
      BY Zenon DEF JobsInv
    <2>3. inbox \o jobsQ \in Seq(sealed)
      BY <2>2
    <2>4. jobsQ' \in Seq(sealed) /\ inbox' \in Seq(sealed)
      BY <2>1, <2>2, <2>3, EmptyQueue, Zenon
    <2> QED BY <2>1, <2>4, Zenon DEF JobsInv
  <1>7. ASSUME CollectorTake PROVE JobsInv'
    <2> DEFINE e == Head(inbox)
    <2>1. /\ inbox # <<>> /\ inbox' = Tail(inbox)
          /\ UNCHANGED <<sealed, jobsQ, pc, job>>
          /\ \/ e.seq = cNext /\ cNext' = cNext + 1 /\ cJob' = e /\ executed' = Append(executed, e)
             \/ UNCHANGED <<cNext, cJob, executed>>
      BY <1>7, Zenon DEF CollectorTake, CollectorOpens, jobsVars, procVars
    <2>2. e \in sealed /\ inbox' \in Seq(sealed)
      BY <2>1 DEF JobsInv
    <2>3. CASE UNCHANGED <<cNext, cJob, executed>>
      BY <2>1, <2>2, <2>3, Zenon DEF JobsInv
    <2>4. CASE e.seq = cNext /\ cNext' = cNext + 1 /\ cJob' = e /\ executed' = Append(executed, e)
      <3>1. executed \in Seq(sealed) /\ cNext = Len(executed) + 1
        BY Zenon DEF JobsInv
      <3> HIDE DEF e
      <3>2. executed' \in Seq(sealed) /\ Len(executed') = Len(executed) + 1
        BY <2>2, <2>4, <3>1
      <3>3. \A i \in DOMAIN executed' :
               executed'[i] = IF i = Len(executed) + 1 THEN e ELSE executed[i]
        BY <2>2, <2>4, <3>1
      <3>4. DOMAIN executed' = 1 .. Len(executed) + 1 /\ DOMAIN executed = 1 .. Len(executed)
            /\ Len(executed) \in Nat
        BY <3>1, <3>2
      <3>5. \A i \in DOMAIN executed' : executed'[i].seq = i
        BY <2>4, <3>1, <3>3, <3>4 DEF JobsInv
      <3>6. cNext' = Len(executed') + 1
        BY <2>4, <3>1, <3>2, Zenon
      <3> QED BY <2>1, <2>2, <2>4, <3>2, <3>5, <3>6, Zenon DEF JobsInv
    <2> QED BY <2>1, <2>3, <2>4, Zenon
  <1>8. ASSUME CollectorPost PROVE JobsInv'
    <2>1. /\ UNCHANGED <<sealed, jobsQ, inbox, executed, cNext, pc, job>>
          /\ cJob' \in {cJob, Nil}
      BY <1>8, Zenon DEF CollectorPost, jobsVars, procVars
    <2> QED BY <2>1, Zenon DEF JobsInv
  <1>9. ASSUME UNCHANGED vars PROVE JobsInv'
    <2>1. UNCHANGED <<sealed, jobsQ, inbox, cJob, executed, cNext, pc, job>>
      BY <1>9, Zenon DEF vars, procVars, jobsVars, collVars
    <2> QED BY <2>1, Zenon DEF JobsInv
  <1> QED BY <1>1, <1>2, <1>3, <1>4, <1>5, <1>6, <1>7, <1>8, <1>9, Zenon DEF Next, Proceed

\* What is on its way to the collector, or was run by it, was sealed by submit.
LEMMA Jobs == Spec => []JobsInv
  <1>1. Init => JobsInv
    BY DEF Init, JobsInv
  <1>2. TypeInv /\ JobsInv /\ [Next]_vars => JobsInv'
    BY JobsStep, Zenon
  <1> QED BY <1>1, <1>2, Typed, PTL DEF Spec

\* The retries of RelayClient.do, the replay rule of the relay's post and the
\* counter of the collector's loop together: jobs run in the order of their
\* numbers, without a gap and none twice, for any number of processes that use
\* the session file.
THEOREM InSequence == Spec => []RunsInSequence
  <1>1. JobsInv => RunsInSequence
    <2> SUFFICES ASSUME JobsInv, NEW i \in DOMAIN executed
                 PROVE  executed[i].seq = i /\ executed[i] \in sealed
      BY Zenon DEF RunsInSequence
    <2>1. executed \in Seq(sealed)
      BY Zenon DEF JobsInv
    <2>2. executed[i] \in sealed
      BY <2>1
    <2> QED BY <2>2, Zenon DEF JobsInv
  <1> QED BY <1>1, Jobs, PTL

-----------------------------------------------------------------------------
(* A session file that one process uses at a time.                         *)

OneProcess == \A p, q \in Procs : p = q

\* No number from the session's counter on is sealed yet.
Fresh(s) == \A e \in sealed : e.seq < s.nextJob

SealInv ==
    /\ file # Nil => Fresh(file)
    /\ \A p \in Procs : pc[p] # "idle" => Fresh(stored[p])
    /\ SealedOnce

\* A process that is at work holds the session it held, or is done.
LEMMA SealKept ==
    ASSUME TypeInv, SealInv, sealed' = sealed, file' \in {file, Nil}, NEW p \in Procs,
           \/ End(p) \/ Retry(p)
           \/ stored' = stored /\ (pc' = pc \/ (pc[p] # "idle" /\ \E l : Goto(p, l)))
    PROVE  SealInv'
  <1>1. \A q \in Procs : pc'[q] # "idle" => stored'[q] = stored[q] /\ pc[q] # "idle"
    <2>1. CASE End(p)
      BY <2>1, Zenon DEF End, Goto, TypeInv, ProcsOK
    <2>2. CASE stored' = stored /\ pc' = pc
      BY <2>2, Zenon
    <2>3. CASE stored' = stored /\ pc[p] # "idle" /\ \E l : Goto(p, l)
      BY <2>3, Zenon DEF Goto, TypeInv, ProcsOK
    <2> QED BY <2>1, <2>2, <2>3, Zenon DEF Retry
  <1>2. file' # Nil => file' = file
    BY Zenon
  <1> QED BY <1>1, <1>2, Zenon DEF SealInv, SealedOnce, Fresh

\* The counter is past every number sealed, in the file and in the process.
LEMMA SealStep ==
    ASSUME OneProcess, TypeInv, JobsInv, SealInv, [Next]_vars
    PROVE  SealInv'
  <1>1. ASSUME NEW p \in Procs, Call(p) \/ ResultCall(p) PROVE SealInv'
    <2>1. /\ file # Nil /\ file' = file /\ sealed' = sealed
          /\ stored' = [stored EXCEPT ![p] = file]
          /\ \A q \in Procs : q # p => pc'[q] = pc[q]
      BY <1>1, Zenon DEF Call, ResultCall, Goto, TypeInv, ProcsOK
    <2>2. \A q \in Procs : q = p
      BY Zenon DEF OneProcess
    <2>3. stored'[p] = file
      BY <2>1, Zenon DEF TypeInv, ProcsOK
    <2> QED BY <2>1, <2>2, <2>3, Zenon DEF SealInv, SealedOnce, Fresh
  <1>2. ASSUME NEW p \in Procs, Submit(p) PROVE SealInv'
    <2>1. /\ pc[p] = "submit" /\ sealed' = sealed \cup {job[p]}
          /\ stored' = [stored EXCEPT ![p] = [stored[p] EXCEPT !.nextJob = stored[p].nextJob + 1]]
          /\ file' = stored'[p]
      BY <1>2, Zenon DEF Submit
    <2>2. stored[p] \in Sessions /\ job[p].seq = stored[p].nextJob
      BY <2>1, Zenon DEF TypeInv, ProcsOK, LocalOK
    <2>3. stored'[p].nextJob = stored[p].nextJob + 1 /\ stored[p].nextJob \in Nat
      BY <2>1, <2>2 DEF TypeInv, ProcsOK, Sessions
    <2>4. Fresh(stored[p])
      BY <2>1, Zenon DEF SealInv
    <2>5. \A e \in sealed : e.seq \in Nat
      BY DEF JobsInv, JobEnvs
    <2>6. \A e \in sealed' : e.seq < stored'[p].nextJob
      BY <2>1, <2>2, <2>3, <2>4, <2>5 DEF Fresh
    <2>7. \A e \in sealed : e.seq # job[p].seq
      BY <2>2, <2>3, <2>4, <2>5 DEF Fresh
    <2>8. SealedOnce'
      BY <2>1, <2>7, Zenon DEF SealInv, SealedOnce
    <2>9. \A q \in Procs : q = p
      BY DEF OneProcess
    <2> QED BY <2>1, <2>6, <2>8, <2>9, Zenon DEF SealInv, Fresh
  <1>3. ASSUME NEW p \in Procs, OpenResult(p) PROVE SealInv'
    <2>1. pc[p] = "open" /\ pc' = pc /\ sealed' = sealed
      BY <1>3, Zenon DEF OpenResult
    <2>2. CASE UNCHANGED <<stored, file>>
      BY <2>1, <2>2, Zenon DEF SealInv, SealedOnce, Fresh
    <2>3. CASE /\ stored' = [stored EXCEPT ![p] =
                               [stored[p] EXCEPT !.nextResult = stored[p].nextResult + 1]]
               /\ file' = stored'[p]
      <3>1. stored[p] \in Sessions
        BY <2>1, Zenon DEF TypeInv, ProcsOK, LocalOK
      <3>2. stored'[p].nextJob = stored[p].nextJob
        BY <2>3, <3>1, Zenon DEF TypeInv, ProcsOK, Sessions
      <3>3. Fresh(stored[p])
        BY <2>1, Zenon DEF SealInv
      <3>4. \A q \in Procs : q = p
        BY DEF OneProcess
      <3> QED BY <2>1, <2>3, <3>2, <3>3, <3>4, Zenon DEF SealInv, SealedOnce, Fresh
    <2> QED BY <1>3, <2>2, <2>3, Zenon DEF OpenResult
  <1>4. ASSUME NEW p \in Procs,
               \/ SaveFails(p) \/ RequestLost(p) \/ OpenFails(p) \/ Opened(p) \/ Return(p)
               \/ Deadline(p) \/ Crash(p) \/ PostJob(p) \/ PollResults(p)
        PROVE  SealInv'
    <2>1. sealed' = sealed /\ file' = file
      BY <1>4, Zenon
         DEF SaveFails, RequestLost, OpenFails, Opened, Return, Deadline, Crash, PostJob,
                  PollResults
    <2>2. \/ End(p) \/ Retry(p)
          \/ stored' = stored /\ pc[p] # "idle" /\ \E l : Goto(p, l)
      BY <1>4, Zenon
         DEF SaveFails, RequestLost, OpenFails, Opened, Return, Deadline, Crash, PostJob,
                  PollResults
    <2> QED BY <2>1, <2>2, SealKept, Zenon
  <1>5. ASSUME McpEnd \/ CollectorEnds \/ CollectorPoll \/ CollectorTake \/ CollectorPost
                \/ UNCHANGED vars
        PROVE  SealInv'
    <2>1. sealed' = sealed /\ pc' = pc /\ stored' = stored /\ file' \in {file, Nil}
      BY <1>5, Zenon DEF McpEnd, CollectorEnds, CollectorPoll, CollectorTake, CollectorPost, vars,
                  procVars
    <2> QED BY <2>1, Zenon DEF SealInv, SealedOnce, Fresh
  <1> QED BY <1>1, <1>2, <1>3, <1>4, <1>5, Zenon DEF Next, Proceed

\* Neither the file nor a process ever holds a number that is sealed already.
LEMMA Counters ==
    ASSUME OneProcess
    PROVE  Spec => []SealInv
  <1>1. Init => SealInv
    BY Zenon DEF Init, SealInv, Fresh, SealedOnce
  <1>2. TypeInv /\ JobsInv /\ SealInv /\ [Next]_vars => SealInv'
    BY SealStep, Zenon
  <1> QED BY <1>1, <1>2, Typed, Jobs, PTL DEF Spec

\* submit saves the counter before it seals: when one process at a time uses
\* the session file, no two jobs are sealed under one number, whatever is lost
\* and wherever the process dies.
THEOREM NoNumberTwice ==
    ASSUME OneProcess
    PROVE  Spec => []SealedOnce
  <1>1. SealInv => SealedOnce
    BY Zenon DEF SealInv
  <1> QED BY <1>1, Counters, PTL

-----------------------------------------------------------------------------
(* What calls return.                                                      *)

\* An answer to a row of a job that was sealed.
Real(id, call) == \E e \in sealed : e.seq = id[1] /\ e.call = call /\ id[2] <= e.rows

RealResults == {e \in ResultEnvs : Real(e.id, e.call)}

AnswerInv ==
    /\ resultsQ \in Seq(RealResults)
    /\ hand \in [Procs -> Seq(RealResults)]
    /\ \A p \in Procs : \A a \in results[p] : Real(a.id, a.call)
    /\ \A r \in returned :
         /\ Real(r.answer.id, r.answer.call)
         /\ r.job # Nil => r.job \in sealed /\ r.answer.id[1] = r.job.seq

\* No step takes back what was sealed, so an answer stays one.
LEMMA RealStays ==
    ASSUME [Next]_vars
    PROVE  /\ sealed \subseteq sealed'
           /\ \A id, call : Real(id, call) => Real(id, call)'
           /\ RealResults \subseteq RealResults'
  <1>1. sealed \subseteq sealed'
    <2>1. sealed' = sealed \/ \E p \in Procs : sealed' = sealed \cup {job[p]}
      BY Zenon DEF Next, Proceed, vars, Call, ResultCall, Submit, SaveFails, PostJob, RequestLost,
             PollResults, OpenResult, OpenFails, Opened, Return, Deadline, Crash, McpEnd,
             CollectorPoll, CollectorTake, CollectorPost, CollectorEnds
    <2> QED BY <2>1, Zenon
  <1>2. \A id, call : Real(id, call) => Real(id, call)'
    BY <1>1, Zenon DEF Real
  <1> QED BY <1>1, <1>2, Zenon DEF RealResults

\* The queue and what processes hold of it change with a result that is posted,
\* handed out or forgotten.
LEMMA ResultsStep ==
    ASSUME TypeInv, JobsInv, AnswerInv, [Next]_vars
    PROVE  resultsQ' \in Seq(RealResults) /\ hand' \in [Procs -> Seq(RealResults)]
  <1>1. resultsQ \in Seq(RealResults) /\ hand \in [Procs -> Seq(RealResults)]
    BY Zenon DEF AnswerInv
  <1>2. <<>> \in Seq(RealResults)
    BY EmptyQueue, Zenon
  <1>3. ASSUME NEW p \in Procs, End(p) \/ Retry(p) \/ UNCHANGED hand
        PROVE  hand' \in [Procs -> Seq(RealResults)]
    BY <1>1, <1>2, <1>3, Zenon DEF End, Retry
  <1>4. ASSUME NEW p \in Procs,
               \/ Call(p) \/ ResultCall(p) \/ Submit(p) \/ SaveFails(p) \/ RequestLost(p)
               \/ OpenFails(p) \/ Opened(p) \/ Return(p) \/ Deadline(p) \/ Crash(p) \/ PostJob(p)
        PROVE  resultsQ' = resultsQ /\ hand' \in [Procs -> Seq(RealResults)]
    <2>1. resultsQ' = resultsQ
      BY <1>4, Zenon DEF Call, ResultCall, Submit, SaveFails, RequestLost, OpenFails, Opened, Return,
                  Deadline, Crash, PostJob, resultsVars
    <2>2. End(p) \/ Retry(p) \/ UNCHANGED hand
      BY <1>4, Zenon DEF Call, ResultCall, Submit, SaveFails, RequestLost, OpenFails, Opened, Return,
                  Deadline, Crash, PostJob
    <2> QED BY <1>3, <2>1, <2>2, Zenon
  <1>5. ASSUME NEW p \in Procs, PollResults(p)
        PROVE  resultsQ' \in Seq(RealResults) /\ hand' \in [Procs -> Seq(RealResults)]
    <2>1. resultsQ' = resultsQ \/ resultsQ' = <<>>
      BY <1>5, Zenon DEF PollResults
    <2>2. End(p) \/ Retry(p) \/ hand' = [hand EXCEPT ![p] = resultsQ]
      BY <1>5, Zenon DEF PollResults
    <2> QED BY <1>1, <1>2, <1>3, <2>1, <2>2, Zenon
  <1>6. ASSUME NEW p \in Procs, OpenResult(p)
        PROVE  resultsQ' = resultsQ /\ hand' \in [Procs -> Seq(RealResults)]
    <2>1. /\ hand[p] # <<>> /\ hand' = [hand EXCEPT ![p] = Tail(hand[p])]
          /\ resultsQ' = resultsQ
      BY <1>6, Zenon DEF OpenResult, resultsVars
    <2>2. Tail(hand[p]) \in Seq(RealResults)
      BY <1>1, <2>1
    <2> QED BY <1>1, <2>1, <2>2, Zenon
  <1>7. ASSUME CollectorPost
        PROVE  resultsQ' \in Seq(RealResults) /\ hand' = hand
    <2>1. /\ cJob # Nil /\ cResult <= MaxSeq /\ hand' = hand
          /\ resultsQ' = resultsQ \/ resultsQ' = Append(resultsQ, Sealed)
      BY <1>7, Zenon DEF CollectorPost, resultsVars, procVars
    <2>2. Sealed \in ResultEnvs
      BY <2>1, SealedTyped, Zenon
    <2>3. cJob \in sealed /\ cJob.id = cJob.seq /\ cRow \in 1 .. cJob.rows /\ cJob \in JobEnvs
      BY <2>1, Zenon DEF JobsInv, TypeInv, CollectorOK
    <2>4. cRow <= cJob.rows
      BY <2>3 DEF JobEnvs
    <2>5. Real(<<cJob.id, cRow>>, cJob.call)
      BY <2>3, <2>4, Zenon DEF Real
    <2>6. Sealed \in RealResults
      BY <2>2, <2>5, Zenon DEF RealResults, Sealed
    <2> QED BY <1>1, <2>1, <2>6
  <1>8. ASSUME McpEnd \/ CollectorEnds \/ CollectorPoll \/ CollectorTake \/ UNCHANGED vars
        PROVE  (resultsQ' = resultsQ \/ resultsQ' = <<>>) /\ hand' = hand
    BY <1>8, Zenon
       DEF McpEnd, CollectorEnds, CollectorPoll, CollectorTake, vars, procVars, resultsVars
  <1> QED BY <1>1, <1>2, <1>4, <1>5, <1>6, <1>7, <1>8, Zenon DEF Next, Proceed

\* A call keeps answers that a poll brought, and returns those it waits for.
LEMMA AnswerStep ==
    ASSUME TypeInv, JobsInv, AnswerInv, [Next]_vars
    PROVE  AnswerInv'
  <1>1. resultsQ' \in Seq(RealResults') /\ hand' \in [Procs -> Seq(RealResults')]
    <2>1. RealResults \subseteq RealResults'
      BY RealStays, Zenon
    <2>2. \A q \in Seq(RealResults) : q \in Seq(RealResults')
      BY <2>1, MoreSealed, Zenon
    <2> QED BY <2>2, ResultsStep, Zenon
  <1>2. \A p \in Procs : \A a \in results'[p] : Real(a.id, a.call)
    <2>1. ASSUME NEW p \in Procs, OpenResult(p), Opens(p)
          PROVE  \A q \in Procs : \A a \in results'[q] : Real(a.id, a.call)
      <3> DEFINE e == Head(hand[p])
      <3>1. /\ hand[p] # <<>>
            /\ results' = [results EXCEPT ![p] = {a \in results[p] : a.id # e.id}
                                                   \cup {[id |-> e.id, call |-> e.call]}]
        BY <2>1, Zenon DEF OpenResult
      <3>2. e \in RealResults
        BY <3>1 DEF AnswerInv
      <3>3. Real(e.id, e.call)
        BY <3>2, Zenon DEF RealResults
      <3> HIDE DEF e
      <3>4. \A q \in Procs : \A a \in results'[q] :
               a \in results[q] \/ (a.id = e.id /\ a.call = e.call)
        BY <3>1 DEF TypeInv, FileOK
      <3> QED BY <3>3, <3>4, Zenon DEF AnswerInv
    <2>2. ASSUME ~\E p \in Procs : OpenResult(p) /\ Opens(p)
          PROVE  results' = results \/ \E p \in Procs : results' = [results EXCEPT ![p] = {}]
      BY <2>2, ZenonT(30)
         DEF Next, Proceed, vars, procVars, Call, ResultCall, Submit, SaveFails, PostJob,
             RequestLost, PollResults, OpenResult, OpenFails, Opened, Return, Deadline, Crash,
             McpEnd, CollectorPoll, CollectorTake, CollectorPost, CollectorEnds
    <2>3. CASE results' = results \/ \E p \in Procs : results' = [results EXCEPT ![p] = {}]
      <3>1. \A q \in Procs : results'[q] \subseteq results[q]
        BY <2>3, Zenon DEF TypeInv, FileOK
      <3> QED BY <3>1, Zenon DEF AnswerInv
    <2> QED BY <2>1, <2>2, <2>3, Zenon
  <1>3. \A r \in returned' :
           /\ Real(r.answer.id, r.answer.call)
           /\ r.job # Nil => r.job \in sealed /\ r.answer.id[1] = r.job.seq
    <2>1. ASSUME NEW p \in Procs, Return(p), NEW r \in returned', r \notin returned
          PROVE  /\ Real(r.answer.id, r.answer.call)
                 /\ r.job # Nil => r.job \in sealed /\ r.answer.id[1] = r.job.seq
      <3>1. PICK a \in results[p] : a.id \in ids[p] /\ r = [job |-> job[p], answer |-> a]
        BY <2>1, Zenon DEF Return
      <3>2. r.job = job[p] /\ r.answer = a
        BY <3>1, Zenon
      <3>3. Real(a.id, a.call)
        BY Zenon DEF AnswerInv
      <3>4. job[p] # Nil => job[p] \in sealed /\ a.id[1] = job[p].seq
        BY <2>1, <3>1, Zenon DEF Return, JobsInv, TypeInv, ProcsOK, LocalOK
      <3> QED BY <3>2, <3>3, <3>4, Zenon
    <2>2. ASSUME ~\E p \in Procs : Return(p) PROVE returned' = returned
      BY <2>2, ZenonT(30) DEF Next, Proceed, vars, Call, ResultCall, Submit, SaveFails, PostJob,
             RequestLost, PollResults, OpenResult, OpenFails, Opened, Deadline, Crash,
             McpEnd, CollectorPoll, CollectorTake, CollectorPost, CollectorEnds
    <2> QED BY <2>1, <2>2, Zenon DEF AnswerInv
  <1>4. sealed \subseteq sealed' /\ \A id, call : Real(id, call) => Real(id, call)'
    BY RealStays, Zenon
  <1>5. \A p \in Procs : \A a \in results'[p] : Real(a.id, a.call)'
    BY <1>2, <1>4, Zenon
  <1>6. \A r \in returned' :
           /\ Real(r.answer.id, r.answer.call)'
           /\ r.job # Nil => r.job \in sealed' /\ r.answer.id[1] = r.job.seq
    BY <1>3, <1>4, Zenon
  <1> QED BY <1>1, <1>5, <1>6, Zenon DEF AnswerInv

\* await keeps results by id, and an id is made of a number that was sealed
\* once: what a call returns answers the job of that call, whatever calls timed
\* out, results were lost and processes died before.
THEOREM OwnAnswers ==
    ASSUME OneProcess
    PROVE  Spec => []AnswersOwnCall
  <1>1. Init => AnswerInv
    BY EmptyQueue DEF Init, AnswerInv
  <1>2. TypeInv /\ JobsInv /\ AnswerInv /\ [Next]_vars => AnswerInv'
    BY AnswerStep, Zenon
  <1>3. SealInv /\ AnswerInv => AnswersOwnCall
    <2> SUFFICES ASSUME SealInv, AnswerInv, NEW r \in returned
                 PROVE  /\ r.job # Nil => r.answer.call = r.job.call
                        /\ Real(r.answer.id, r.answer.call)
      BY Zenon DEF AnswersOwnCall, Real
    <2>1. PICK e \in sealed : e.seq = r.answer.id[1] /\ e.call = r.answer.call
      BY Zenon DEF AnswerInv, Real
    <2>2. ASSUME r.job # Nil PROVE e = r.job
      BY <2>1, <2>2, Zenon DEF AnswerInv, SealInv, SealedOnce
    <2> QED BY <2>1, <2>2, Zenon DEF AnswerInv
  <1> QED BY <1>1, <1>2, <1>3, Typed, Jobs, Counters, PTL DEF Spec

-----------------------------------------------------------------------------
(* No number out of turn while nothing is lost.                            *)

\* The envelopes of q have consecutive numbers from n on.
Numbered(q, n) == \A i \in DOMAIN q : q[i].seq = n + i - 1

\* One more, with the number that is next.
LEMMA NumberedAppend ==
    ASSUME NEW S, NEW q \in Seq(S), NEW e \in S, NEW n \in Nat, Numbered(q, n),
           e.seq = n + Len(q)
    PROVE  Numbered(Append(q, e), n) /\ Len(Append(q, e)) = Len(q) + 1
  BY DEF Numbered

\* The first has the first number, the others are what is next.
LEMMA NumberedTail ==
    ASSUME NEW S, NEW q \in Seq(S), NEW n \in Nat, Numbered(q, n), q # <<>>
    PROVE  Head(q).seq = n /\ Numbered(Tail(q), n + 1) /\ Len(q) = Len(Tail(q)) + 1
  BY DEF Numbered

\* Two queues one after the other.
LEMMA NumberedConcat ==
    ASSUME NEW S, NEW q \in Seq(S), NEW r \in Seq(S), NEW n \in Nat, Numbered(q, n),
           Numbered(r, n + Len(q))
    PROVE  Numbered(q \o r, n) /\ Len(q \o r) = Len(q) + Len(r)
  <1>1. Len(q) \in Nat /\ Len(r) \in Nat /\ Len(q \o r) = Len(q) + Len(r)
    OBVIOUS
  <1>2. ASSUME NEW i \in DOMAIN (q \o r) PROVE (q \o r)[i].seq = n + i - 1
    <2>0. i \in 1 .. Len(q) + Len(r)
      BY <1>1
    <2>1. CASE i <= Len(q)
      <3>1. i \in DOMAIN q /\ (q \o r)[i] = q[i]
        BY <1>1, <2>0, <2>1
      <3> QED BY <3>1, Zenon DEF Numbered
    <2>2. CASE ~(i <= Len(q))
      <3>1. i - Len(q) \in DOMAIN r /\ (q \o r)[i] = r[i - Len(q)]
        BY <1>1, <2>0, <2>2
      <3>2. r[i - Len(q)].seq = n + Len(q) + (i - Len(q)) - 1
        BY <3>1, Zenon DEF Numbered
      <3> QED BY <1>1, <2>0, <3>1, <3>2
    <2> QED BY <2>1, <2>2, Zenon
  <1> QED BY <1>1, <1>2, Zenon DEF Numbered

\* The number the relay expects in a direction.
After(last) == IF last = Nil THEN 1 ELSE last.seq + 1

\* Jobs: the collector's channel, then the relay's queue, then what is posted.
JobsMatch ==
    /\ Numbered(inbox, cNext)
    /\ Numbered(jobsQ, cNext + Len(inbox))
    /\ ~gone => After(lastJob) = cNext + Len(inbox) + Len(jobsQ)

\* Results: those a process holds are the ones its session expects.
HandsMatch ==
    \A p \in Procs :
      /\ ~bad[p]
      /\ pc[p] # "open" => hand[p] = <<>>
      /\ pc[p] = "open" => Numbered(hand[p], stored[p].nextResult)
      /\ file # Nil /\ pc[p] # "idle" => stored[p].nextResult = file.nextResult

\* The process, if there is one, holds n results it has not looked at.
InHand(n) == /\ \A p \in Procs : Len(hand[p]) = n
             /\ Procs = {} => n = 0

\* The session file, then what is in hand, then the relay's queue, then the
\* collector.
ResultsMatch ==
    /\ gone => resultsQ = <<>>
    /\ ~gone => /\ file # Nil
                /\ After(lastResult) = cResult
                /\ \A n \in Nat : InHand(n) =>
                     /\ Numbered(resultsQ, file.nextResult + n)
                     /\ cResult = file.nextResult + n + Len(resultsQ)

\* Losses and crashes are counted.
LEMMA LossStep ==
    ASSUME losses \in Nat, crashes \in Nat, [Next]_vars
    PROVE  /\ losses' \in Nat /\ crashes' \in Nat
           /\ losses' = 0 => losses = 0 /\ ~Lose
           /\ crashes' = 0 => crashes = 0 /\ \A p \in Procs : ~Crash(p)
  <1>1. losses' = losses \/ Lose
    BY Zenon DEF Next, vars, boundVars, Call, ResultCall, Proceed, Submit, SaveFails, PostJob,
       PollResults, OpenResult, OpenFails, Opened, Return, Deadline, RequestLost, Crash, McpEnd,
       CollectorPoll, CollectorTake, CollectorPost, CollectorEnds
  <1>2. Lose => losses' = losses + 1
    BY Zenon DEF Lose
  <1>3. crashes' = crashes \/ \E p \in Procs : Crash(p)
    BY Zenon DEF Next, vars, boundVars, Call, ResultCall, Proceed, Submit, SaveFails, PostJob,
       PollResults, OpenResult, OpenFails, Opened, Return, Deadline, RequestLost, McpEnd,
       CollectorPoll, CollectorTake, CollectorPost, CollectorEnds, Lose
  <1>4. \A p \in Procs : Crash(p) => crashes' = crashes + 1
    BY Zenon DEF Crash
  <1>5. losses + 1 # 0 /\ losses + 1 \in Nat /\ crashes + 1 # 0 /\ crashes + 1 \in Nat
    OBVIOUS
  <1> QED BY <1>1, <1>2, <1>3, <1>4, <1>5, Zenon

\* What the relay accepts has the number it expects.
LEMMA AcceptedNext ==
    ASSUME NEW q, NEW last, NEW e, Answer(q, last, e) = "accepted"
    PROVE  ~gone /\ e # last /\ e.seq = After(last)
  BY Zenon DEF Answer, After

\* Without a loss, jobs stay in turn on their way to the collector.
LEMMA JobsMatchStep ==
    ASSUME TypeInv, JobsMatch, [Next]_vars, ~Lose
    PROVE  JobsMatch'
  <1>0. /\ inbox \in Seq(JobEnvs) /\ jobsQ \in Seq(JobEnvs) /\ cNext \in Nat
        /\ Len(inbox) \in Nat /\ Len(jobsQ) \in Nat
    BY Bounds DEF TypeInv, CollectorOK, RelayOK
  <1>1. ASSUME UNCHANGED <<inbox, cNext, jobsQ, lastJob, gone>> PROVE JobsMatch'
    BY <1>1, Zenon DEF JobsMatch, Numbered, After
  <1>2. ASSUME NEW n, NEW q PROVE q = <<>> => Numbered(q, n)
    BY DEF Numbered
  <1>3. ASSUME NEW p \in Procs, PostJob(p) PROVE JobsMatch'
    <2> DEFINE e == job[p]
    <2>1. CASE Answer(jobsQ, lastJob, e) = "accepted"
      <3>1. /\ jobsQ' = Append(jobsQ, e) /\ lastJob' = e
            /\ UNCHANGED <<inbox, cNext, gone>>
        BY <1>3, <2>1, Zenon DEF PostJob, collVars
      <3>2. e \in JobEnvs /\ e # Nil
        BY <1>3, NilAssumption, Zenon DEF PostJob, TypeInv, ProcsOK, LocalOK
      <3>3. ~gone /\ e.seq = After(lastJob)
        BY <2>1, AcceptedNext, Zenon
      <3> HIDE DEF e
      <3>4. e.seq = cNext + Len(inbox) + Len(jobsQ)
        BY <3>3, Zenon DEF JobsMatch
      <3>5. cNext + Len(inbox) \in Nat /\ Numbered(jobsQ, cNext + Len(inbox))
        BY <1>0 DEF JobsMatch
      <3>6. Numbered(jobsQ', cNext + Len(inbox)) /\ Len(jobsQ') = Len(jobsQ) + 1
        BY <1>0, <3>1, <3>2, <3>4, <3>5, NumberedAppend, Zenon
      <3>7. After(lastJob') = e.seq + 1
        BY <3>1, <3>2, Zenon DEF After
      <3>8. After(lastJob') = cNext + Len(inbox) + Len(jobsQ')
        BY <1>0, <3>4, <3>6, <3>7
      <3>9. Numbered(inbox', cNext') /\ Numbered(jobsQ', cNext' + Len(inbox'))
            /\ After(lastJob') = cNext' + Len(inbox') + Len(jobsQ')
        BY <3>1, <3>6, <3>8, Zenon DEF JobsMatch
      <3> QED BY <3>9, Zenon DEF JobsMatch, Numbered, After
    <2>2. CASE Answer(jobsQ, lastJob, e) # "accepted"
      <3>1. UNCHANGED <<inbox, cNext, jobsQ, lastJob, gone>>
        BY <1>3, <2>2, Zenon DEF PostJob, jobsVars, collVars
      <3> QED BY <1>1, <3>1, Zenon
    <2> QED BY <2>1, <2>2, Zenon
  <1>4. CASE CollectorPoll
    <2>1. /\ jobsQ' = <<>> /\ inbox' = inbox \o jobsQ
          /\ UNCHANGED <<cNext, lastJob, gone>>
      BY <1>4, Zenon DEF CollectorPoll
    <2>2. Numbered(inbox \o jobsQ, cNext) /\ Len(inbox \o jobsQ) = Len(inbox) + Len(jobsQ)
      BY <1>0, NumberedConcat, Zenon DEF JobsMatch
    <2>3. Numbered(jobsQ', cNext + Len(inbox')) /\ Len(jobsQ') = 0
      BY <1>2, <2>1, Zenon
    <2>4. ~gone => After(lastJob) = cNext + Len(inbox') + Len(jobsQ')
      BY <1>0, <2>1, <2>2, <2>3 DEF JobsMatch
    <2>5. /\ Numbered(inbox', cNext') /\ Numbered(jobsQ', cNext' + Len(inbox'))
          /\ ~gone' => After(lastJob') = cNext' + Len(inbox') + Len(jobsQ')
      BY <2>1, <2>2, <2>3, <2>4, Zenon
    <2> QED BY <2>5, Zenon DEF JobsMatch, Numbered, After
  <1>5. CASE CollectorTake
    <2>1. inbox # <<>> /\ inbox' = Tail(inbox) /\ UNCHANGED <<jobsQ, lastJob, gone>>
      BY <1>5, Zenon DEF CollectorTake, jobsVars
    <2>2. /\ Head(inbox).seq = cNext /\ Numbered(Tail(inbox), cNext + 1)
          /\ Len(inbox) = Len(Tail(inbox)) + 1
      BY <1>0, <2>1, NumberedTail, Zenon DEF JobsMatch
    <2>3. cNext' = cNext + 1
      BY <1>5, <2>2, Zenon DEF CollectorTake, CollectorOpens
    <2>4. cNext' + Len(inbox') = cNext + Len(inbox)
      <3>1. Len(Tail(inbox)) \in Nat
        BY <1>0, <2>1
      <3> QED BY <1>0, <2>1, <2>2, <2>3, <3>1
    <2>5. /\ Numbered(inbox', cNext') /\ Numbered(jobsQ', cNext' + Len(inbox'))
          /\ ~gone' => After(lastJob') = cNext' + Len(inbox') + Len(jobsQ')
      BY <2>1, <2>2, <2>3, <2>4, Zenon DEF JobsMatch
    <2> QED BY <2>5, Zenon DEF JobsMatch, Numbered, After
  <1>6. CASE McpEnd \/ CollectorEnds
    <2>1. gone' /\ jobsQ' = <<>> /\ cNext' = cNext /\ (inbox' = inbox \/ inbox' = <<>>)
      BY <1>6, Zenon DEF McpEnd, CollectorEnds, collVars
    <2>2. Numbered(inbox', cNext') /\ Numbered(jobsQ', cNext' + Len(inbox'))
      BY <1>2, <2>1, Zenon DEF JobsMatch
    <2> QED BY <2>1, <2>2, Zenon DEF JobsMatch, Numbered, After
  <1>7. CASE CollectorPost \/ UNCHANGED vars
    <2>1. UNCHANGED <<inbox, cNext, jobsQ, lastJob, gone>>
      BY <1>7, Zenon DEF CollectorPost, vars, jobsVars, collVars
    <2> QED BY <1>1, <2>1, Zenon
  <1>8. ASSUME NEW p \in Procs,
               \/ Call(p) \/ ResultCall(p) \/ Submit(p) \/ SaveFails(p) \/ PollResults(p)
               \/ OpenResult(p) \/ OpenFails(p) \/ Opened(p) \/ Return(p) \/ Deadline(p)
               \/ RequestLost(p) \/ Crash(p)
        PROVE  JobsMatch'
    <2>1. UNCHANGED <<inbox, cNext, jobsQ, lastJob, gone>>
      BY <1>8, Zenon DEF Call, ResultCall, Submit, SaveFails, PollResults, OpenResult, OpenFails,
         Opened, Return, Deadline, RequestLost, Crash, jobsVars, collVars
    <2> QED BY <1>1, <2>1, Zenon
  <1> QED BY <1>3, <1>4, <1>5, <1>6, <1>7, <1>8, Zenon DEF Next, Proceed

\* A process that holds no results, before and after.
LEMMA HandKept ==
    ASSUME OneProcess, HandsMatch, ResultsMatch, NEW p \in Procs,
           hand[p] = <<>>, hand'[p] = <<>>, ~bad'[p], pc'[p] # "open",
           file' # Nil /\ pc'[p] # "idle" => stored'[p].nextResult = file'.nextResult,
           ~gone => file' # Nil /\ file'.nextResult = file.nextResult,
           UNCHANGED <<resultsQ, lastResult, gone, cResult>>
    PROVE  HandsMatch' /\ ResultsMatch'
  <1>1. \A q \in Procs : q = p
    BY Zenon DEF OneProcess
  <1>2. HandsMatch'
    BY <1>1, Zenon DEF HandsMatch
  <1>3. ASSUME NEW n \in Nat, InHand(n)' PROVE InHand(n)
    BY <1>1, <1>3, Zenon DEF InHand
  <1>4. ASSUME ~gone, NEW n \in Nat, InHand(n)'
        PROVE  /\ Numbered(resultsQ, file'.nextResult + n)
               /\ cResult = file'.nextResult + n + Len(resultsQ)
    BY <1>3, <1>4, Zenon DEF ResultsMatch
  <1>5. gone => resultsQ = <<>>
    BY Zenon DEF ResultsMatch
  <1>6. ~gone => file # Nil /\ After(lastResult) = cResult
    BY Zenon DEF ResultsMatch
  <1>7. ~gone' => \A n \in Nat : InHand(n)' => /\ Numbered(resultsQ', file'.nextResult + n)
                                              /\ cResult' = file'.nextResult + n + Len(resultsQ')
    BY <1>4, Zenon
  <1>8. ResultsMatch'
    BY <1>5, <1>6, <1>7, Zenon DEF ResultsMatch, Numbered, After
  <1> QED BY <1>2, <1>8, Zenon

\* A call that ends holds nothing.
LEMMA HandEnds ==
    ASSUME OneProcess, TypeInv, HandsMatch, ResultsMatch, NEW p \in Procs, End(p),
           hand[p] = <<>>, UNCHANGED <<file, resultsQ, lastResult, gone, cResult>>
    PROVE  HandsMatch' /\ ResultsMatch'
  <1>1. hand'[p] = <<>> /\ bad'[p] = FALSE /\ pc'[p] = "idle"
    BY Zenon DEF End, Goto, TypeInv, ProcsOK
  <1>2. ~bad'[p] /\ pc'[p] # "open" /\ ~(pc'[p] # "idle")
    BY <1>1, Zenon
  <1>3. ~gone => file # Nil
    BY Zenon DEF ResultsMatch
  <1> QED BY <1>1, <1>2, <1>3, HandKept, Zenon

\* Steps that leave the results and everyone who counts them alone.
LEMMA MatchKept ==
    ASSUME HandsMatch, ResultsMatch,
           UNCHANGED <<file, pc, stored, hand, bad, resultsQ, lastResult, gone, cResult>>
    PROVE  HandsMatch' /\ ResultsMatch'
  <1>1. HandsMatch'
    BY Zenon DEF HandsMatch, Numbered
  <1>2. \A n : InHand(n)' <=> InHand(n)
    BY Zenon DEF InHand
  <1>3. ResultsMatch'
    BY <1>2, Zenon DEF ResultsMatch, Numbered, After
  <1> QED BY <1>1, <1>3, Zenon

\* A call begins, submits, and waits.
LEMMA MatchCall ==
    ASSUME OneProcess, TypeInv, HandsMatch, ResultsMatch, NEW p \in Procs, ~Lose,
           \/ Call(p) \/ ResultCall(p) \/ Submit(p) \/ SaveFails(p) \/ PostJob(p) \/ Return(p)
           \/ Deadline(p)
    PROVE  HandsMatch' /\ ResultsMatch'
  <1>0. pc[p] # "open" /\ hand[p] = <<>> /\ ~bad[p]
    <2>1. pc[p] \in {"idle", "submit", "post", "await"}
      BY Zenon DEF Call, ResultCall, Submit, SaveFails, PostJob, Return, Deadline
    <2>2. pc[p] # "open"
      BY <2>1, Zenon
    <2> QED BY <2>2, Zenon DEF HandsMatch
  <1>1. UNCHANGED <<resultsQ, lastResult, gone, cResult>>
    BY Zenon DEF Call, ResultCall, Submit, SaveFails, PostJob, Return, Deadline, resultsVars,
       collVars
  <1>2. ~gone => file # Nil
    BY Zenon DEF ResultsMatch
  <1>3. CASE Call(p) \/ ResultCall(p)
    <2>1. /\ file' = file /\ stored' = [stored EXCEPT ![p] = file] /\ UNCHANGED <<hand, bad>>
          /\ \E l \in {"submit", "await"} : Goto(p, l)
      BY <1>3, Zenon DEF Call, ResultCall
    <2>2. stored'[p] = file /\ pc'[p] # "open" /\ hand'[p] = hand[p] /\ ~bad'[p]
      BY <1>0, <2>1, Zenon DEF Goto, TypeInv, ProcsOK
    <2> QED BY <1>0, <1>1, <1>2, <2>1, <2>2, HandKept, Zenon
  <1>4. CASE Submit(p)
    <2>1. /\ pc[p] = "submit" /\ Goto(p, "post") /\ file' = stored'[p] /\ UNCHANGED <<hand, bad>>
          /\ stored' = [stored EXCEPT ![p] = [stored[p] EXCEPT !.nextJob = stored[p].nextJob + 1]]
      BY <1>4, Zenon DEF Submit
    <2>2. stored[p] \in Sessions
      BY <2>1, Zenon DEF TypeInv, ProcsOK, LocalOK
    <2>3. stored'[p].nextResult = stored[p].nextResult
      <3>1. stored'[p] = [stored[p] EXCEPT !.nextJob = stored[p].nextJob + 1]
        BY <2>1, Zenon DEF TypeInv, ProcsOK
      <3> QED BY <2>2, <3>1, Zenon DEF Sessions
    <2>4. file' # Nil
      <3>1. TypeInv'
        BY <1>4, TypeSubmit, Zenon
      <3> QED BY <2>1, <3>1, Zenon DEF TypeInv, ProcsOK, LocalOK, Goto
    <2>5. ~gone => stored[p].nextResult = file.nextResult
      BY <1>2, <2>1, Zenon DEF HandsMatch
    <2>6. pc'[p] # "open" /\ hand'[p] = <<>> /\ ~bad'[p]
      BY <1>0, <2>1, Zenon DEF Goto, TypeInv, ProcsOK
    <2>7. ~gone => file' # Nil /\ file'.nextResult = file.nextResult
      BY <2>1, <2>3, <2>4, <2>5, Zenon
    <2>8. stored'[p].nextResult = file'.nextResult
      BY <2>1, Zenon
    <2> QED BY <1>0, <1>1, <2>6, <2>7, <2>8, HandKept, Zenon
  <1>5. CASE SaveFails(p) \/ Return(p) \/ Deadline(p)
    <2>1. End(p) /\ file' = file
      BY <1>5, Zenon DEF SaveFails, Return, Deadline
    <2> QED BY <1>0, <1>1, <2>1, HandEnds, Zenon
  <1>6. CASE PostJob(p)
    <2>0. file' = file /\ pc[p] = "post"
      BY <1>6, Zenon DEF PostJob
    <2>1. CASE End(p)
      BY <1>0, <1>1, <2>0, <2>1, HandEnds, Zenon
    <2>2. CASE Goto(p, "await") /\ UNCHANGED <<stored, hand, bad>>
      <3>1. pc'[p] # "open" /\ hand'[p] = <<>> /\ ~bad'[p] /\ stored'[p] = stored[p]
        BY <1>0, <2>2, Zenon DEF Goto, TypeInv, ProcsOK
      <3>2. file # Nil => stored[p].nextResult = file.nextResult
        BY <2>0, Zenon DEF HandsMatch
      <3> QED BY <1>0, <1>1, <1>2, <2>0, <3>1, <3>2, HandKept, Zenon
    <2> QED BY <1>6, <2>1, <2>2, Zenon DEF PostJob
  <1> QED BY <1>3, <1>4, <1>5, <1>6, Zenon

\* A poll takes the queue into its hands.
LEMMA MatchPoll ==
    ASSUME OneProcess, TypeInv, HandsMatch, ResultsMatch, NEW p \in Procs, ~Lose, PollResults(p)
    PROVE  HandsMatch' /\ ResultsMatch'
  <1>0. /\ pc[p] = "await" /\ hand[p] = <<>> /\ ~bad[p]
        /\ file # Nil => stored[p].nextResult = file.nextResult
    BY Zenon DEF PollResults, HandsMatch
  <1>1. UNCHANGED <<file, lastResult, gone, cResult>>
    BY Zenon DEF PollResults, collVars
  <1>2. CASE End(p) /\ resultsQ' = resultsQ
    BY <1>0, <1>1, <1>2, HandEnds, Zenon
  <1>3. CASE /\ ~gone /\ resultsQ' = <<>> /\ hand' = [hand EXCEPT ![p] = resultsQ]
             /\ Goto(p, "open") /\ UNCHANGED <<stored, bad>>
    <2>1. \A q \in Procs : q = p
      BY Zenon DEF OneProcess
    <2>2. hand'[p] = resultsQ /\ pc'[p] = "open" /\ ~bad'[p] /\ stored'[p] = stored[p]
      BY <1>0, <1>3, Zenon DEF Goto, TypeInv, ProcsOK
    <2>3. InHand(0) /\ 0 \in Nat
      BY <1>0, <2>1 DEF InHand
    <2>4. /\ Numbered(resultsQ, file.nextResult + 0) /\ file # Nil
          /\ cResult = file.nextResult + 0 + Len(resultsQ)
          /\ After(lastResult) = cResult
      BY <1>3, <2>3, Zenon DEF ResultsMatch
    <2>5. file.nextResult \in Nat
      BY <2>4, Bounds DEF TypeInv, FileOK, Sessions
    <2>6. Numbered(resultsQ, file.nextResult) /\ cResult = file.nextResult + Len(resultsQ)
      <3>1. file.nextResult + 0 = file.nextResult
        BY <2>5
      <3> QED BY <2>4, <3>1, Zenon
    <2>7. HandsMatch'
      <3>1. Numbered(hand'[p], stored'[p].nextResult)
        BY <1>0, <2>2, <2>4, <2>6, Zenon
      <3>2. /\ ~bad'[p] /\ ~(pc'[p] # "open")
            /\ stored'[p].nextResult = file'.nextResult
        BY <1>0, <1>1, <2>2, <2>4, Zenon
      <3> QED BY <2>1, <3>1, <3>2, Zenon DEF HandsMatch, Numbered
    <2>8. ASSUME NEW n \in Nat, InHand(n)'
          PROVE  /\ Numbered(resultsQ', file'.nextResult + n)
                 /\ cResult' = file'.nextResult + n + Len(resultsQ')
      <3>1. n = Len(resultsQ)
        BY <2>2, <2>8, Zenon DEF InHand
      <3>2. Len(resultsQ') = 0 /\ Numbered(resultsQ', file'.nextResult + n)
        BY <1>3 DEF Numbered
      <3>3. cResult = file.nextResult + n + 0
        BY <2>5, <2>6, <3>1
      <3> QED BY <1>1, <3>2, <3>3, Zenon
    <2>9. ResultsMatch'
      BY <1>1, <1>3, <2>4, <2>8, Zenon DEF ResultsMatch, Numbered, After
    <2> QED BY <2>7, <2>9, Zenon
  <1> QED BY <1>2, <1>3, Zenon DEF PollResults

\* Every result in hand is the one that is expected.
LEMMA MatchOpen ==
    ASSUME OneProcess, TypeInv, HandsMatch, ResultsMatch, NEW p \in Procs, OpenResult(p)
    PROVE  HandsMatch' /\ ResultsMatch'
  <1> DEFINE n == stored[p].nextResult
  <1>0. pc[p] = "open" /\ hand[p] # <<>> /\ hand[p] \in Seq(ResultEnvs) /\ stored[p] \in Sessions
    BY Zenon DEF OpenResult, TypeInv, ProcsOK, LocalOK
  <1>1. n \in Nat
    BY <1>0, Bounds DEF Sessions
  <1>2. Numbered(hand[p], n) /\ ~bad[p] /\ (file # Nil => n = file.nextResult)
    BY <1>0, Zenon DEF HandsMatch
  <1>3. Head(hand[p]).seq = n /\ Numbered(Tail(hand[p]), n + 1)
        /\ Len(hand[p]) = Len(Tail(hand[p])) + 1
    BY <1>0, <1>1, <1>2, NumberedTail, Zenon
  <1>4. Opens(p)
    BY <1>3, Zenon DEF Opens
  <1>5. /\ hand' = [hand EXCEPT ![p] = Tail(hand[p])]
        /\ stored' = [stored EXCEPT ![p] = [stored[p] EXCEPT !.nextResult = stored[p].nextResult + 1]]
        /\ file' = stored'[p] /\ UNCHANGED <<bad, pc, resultsQ, lastResult, gone, cResult>>
    BY <1>4, Zenon DEF OpenResult, resultsVars, collVars
  <1>6. hand'[p] = Tail(hand[p]) /\ stored'[p].nextResult = n + 1 /\ pc'[p] = "open" /\ ~bad'[p]
    <2>1. stored'[p] = [stored[p] EXCEPT !.nextResult = n + 1]
      BY <1>5, Zenon DEF TypeInv, ProcsOK
    <2>2. stored'[p].nextResult = n + 1
      BY <1>0, <2>1, Zenon DEF Sessions
    <2>3. hand'[p] = Tail(hand[p])
      BY <1>5, Zenon DEF TypeInv, ProcsOK
    <2> QED BY <1>0, <1>2, <1>5, <2>2, <2>3, Zenon
  <1>7. file' # Nil
    <2>1. TypeInv'
      BY TypeOpen, Zenon
    <2> QED BY <1>5, <1>6, <2>1, Zenon DEF TypeInv, ProcsOK, LocalOK
  <1> HIDE DEF n
  <1>8. \A q \in Procs : q = p
    BY Zenon DEF OneProcess
  <1>9. HandsMatch'
    <2>1. Numbered(hand'[p], stored'[p].nextResult)
      BY <1>3, <1>6, Zenon
    <2>2. ~(pc'[p] # "open") /\ stored'[p].nextResult = file'.nextResult
      BY <1>5, <1>6, Zenon
    <2> QED BY <1>6, <1>8, <2>1, <2>2, Zenon DEF HandsMatch, Numbered
  <1>10. ASSUME ~gone, NEW m \in Nat, InHand(m)'
         PROVE  /\ Numbered(resultsQ, file'.nextResult + m)
                /\ cResult = file'.nextResult + m + Len(resultsQ)
    <2>1. m = Len(Tail(hand[p]))
      BY <1>6, <1>10, Zenon DEF InHand
    <2>2. InHand(m + 1) /\ m + 1 \in Nat
      BY <1>3, <1>8, <2>1 DEF InHand
    <2>3. /\ Numbered(resultsQ, file.nextResult + (m + 1)) /\ file # Nil
          /\ cResult = file.nextResult + (m + 1) + Len(resultsQ)
      BY <1>10, <2>2, Zenon DEF ResultsMatch
    <2>4. file.nextResult = n /\ file'.nextResult = n + 1
      BY <1>2, <1>5, <1>6, <2>3, Zenon
    <2>5. n + (m + 1) = n + 1 + m
      BY <1>1
    <2> QED BY <2>3, <2>4, <2>5, Zenon
  <1>11. ResultsMatch'
    <2>1. gone => resultsQ = <<>>
      BY Zenon DEF ResultsMatch
    <2>2. ~gone => After(lastResult) = cResult
      BY Zenon DEF ResultsMatch
    <2> QED BY <1>5, <1>7, <1>10, <2>1, <2>2, Zenon DEF ResultsMatch, Numbered, After
  <1> QED BY <1>9, <1>11, Zenon

\* The loop over the results is over without a mismatch.
LEMMA MatchOpened ==
    ASSUME OneProcess, TypeInv, HandsMatch, ResultsMatch, NEW p \in Procs, Opened(p)
    PROVE  HandsMatch' /\ ResultsMatch'
  <1>1. /\ pc[p] = "open" /\ hand[p] = <<>> /\ ~bad[p]
        /\ file # Nil => stored[p].nextResult = file.nextResult
    BY Zenon DEF Opened, HandsMatch
  <1>2. Goto(p, "await") /\ UNCHANGED <<stored, hand, bad>>
    BY <1>1, Zenon DEF Opened
  <1>3. UNCHANGED <<file, resultsQ, lastResult, gone, cResult>>
    BY Zenon DEF Opened, resultsVars, collVars
  <1>4. pc'[p] # "open" /\ hand'[p] = <<>> /\ ~bad'[p] /\ stored'[p] = stored[p]
    BY <1>1, <1>2, Zenon DEF Goto, TypeInv, ProcsOK
  <1>5. ~gone => file # Nil
    BY Zenon DEF ResultsMatch
  <1> QED BY <1>1, <1>3, <1>4, <1>5, HandKept, Zenon

\* The collector's results have the numbers the relay expects.
LEMMA MatchPost ==
    ASSUME TypeInv, HandsMatch, ResultsMatch, ~Lose, CollectorPost
    PROVE  HandsMatch' /\ ResultsMatch'
  <1> DEFINE e == Sealed
  <1>0. /\ UNCHANGED <<file, pc, stored, hand, bad, gone>> /\ cJob # Nil /\ cResult <= MaxSeq
        /\ cResult' = cResult + 1 /\ Answer(resultsQ, lastResult, e) \in Accepted
    BY Zenon DEF CollectorPost, procVars
  <1>1. e \in ResultEnvs /\ e # Nil /\ e.seq = cResult
    <2>1. e \in ResultEnvs
      BY <1>0, SealedTyped, Zenon
    <2> QED BY <2>1, NilAssumption, Zenon DEF Sealed
  <1>2. /\ resultsQ \in Seq(ResultEnvs) /\ Len(resultsQ) \in Nat /\ cResult \in Nat
        /\ lastResult \in ResultEnvs \cup {Nil} /\ file \in Sessions \cup {Nil}
    BY Bounds DEF TypeInv, RelayOK, CollectorOK, FileOK
  <1> HIDE DEF e
  <1>3. ~gone
    BY <1>0, Zenon DEF Answer, Accepted
  <1>4. After(lastResult) = cResult /\ file # Nil
    BY <1>3, Zenon DEF ResultsMatch
  <1>5. e # lastResult
    <2>1. CASE lastResult = Nil
      BY <1>1, <2>1, Zenon
    <2>2. CASE lastResult # Nil
      <3>1. lastResult.seq + 1 = cResult /\ lastResult.seq \in Nat
        BY <1>2, <1>4, <2>2, Bounds DEF After, ResultEnvs
      <3>2. lastResult.seq # cResult
        BY <3>1
      <3> QED BY <1>1, <3>2, Zenon
    <2> QED BY <2>1, <2>2, Zenon
  <1>6. Answer(resultsQ, lastResult, e) = "accepted"
    BY <1>0, <1>3, <1>5, Zenon DEF Answer, Accepted
  <1>7. resultsQ' = Append(resultsQ, e) /\ lastResult' = e
    BY <1>6, Zenon DEF CollectorPost, e
  <1>8. HandsMatch'
    BY <1>0, Zenon DEF HandsMatch, Numbered
  <1>9. ASSUME NEW n \in Nat, InHand(n)'
        PROVE  /\ Numbered(resultsQ', file.nextResult + n)
               /\ cResult' = file.nextResult + n + Len(resultsQ')
    <2>1. InHand(n)
      BY <1>0, <1>9, Zenon DEF InHand
    <2>2. Numbered(resultsQ, file.nextResult + n) /\ cResult = file.nextResult + n + Len(resultsQ)
      BY <1>3, <2>1, Zenon DEF ResultsMatch
    <2>3. file.nextResult \in Nat
      BY <1>2, <1>4, Bounds DEF Sessions
    <2>4. file.nextResult + n \in Nat
      BY <2>3
    <2>5. Numbered(resultsQ', file.nextResult + n) /\ Len(resultsQ') = Len(resultsQ) + 1
      BY <1>1, <1>2, <1>7, <2>2, <2>4, NumberedAppend, Zenon
    <2> QED BY <1>0, <1>2, <2>2, <2>4, <2>5
  <1>10. After(lastResult') = cResult'
    BY <1>0, <1>1, <1>7, Zenon DEF After
  <1>11. ResultsMatch'
    BY <1>0, <1>3, <1>4, <1>9, <1>10, Zenon DEF ResultsMatch, Numbered, After
  <1> QED BY <1>8, <1>11, Zenon

\* The session is dropped, with its queues.
LEMMA MatchGone ==
    ASSUME HandsMatch, gone' = TRUE, resultsQ' = <<>>, file' = file \/ file' = Nil,
           UNCHANGED <<pc, stored, hand, bad>>
    PROVE  HandsMatch' /\ ResultsMatch'
  <1>1. HandsMatch'
    BY Zenon DEF HandsMatch, Numbered
  <1>2. ResultsMatch'
    BY Zenon DEF ResultsMatch
  <1> QED BY <1>1, <1>2, Zenon

\* Without a loss and a crash, results stay in turn on their way back.
LEMMA ResultsMatchStep ==
    ASSUME OneProcess, TypeInv, HandsMatch, ResultsMatch, [Next]_vars, ~Lose,
           \A p \in Procs : ~Crash(p)
    PROVE  HandsMatch' /\ ResultsMatch'
  <1>1. CASE McpEnd \/ CollectorEnds
    <2>1. /\ gone' = TRUE /\ resultsQ' = <<>> /\ (file' = file \/ file' = Nil)
          /\ UNCHANGED <<pc, stored, hand, bad>>
      BY <1>1, Zenon DEF McpEnd, CollectorEnds, procVars
    <2> QED BY <2>1, MatchGone, Zenon
  <1>2. CASE CollectorPoll \/ CollectorTake \/ UNCHANGED vars
    <2>1. UNCHANGED <<file, pc, stored, hand, bad, resultsQ, lastResult, gone, cResult>>
      BY <1>2, Zenon DEF CollectorPoll, CollectorTake, procVars, resultsVars, collVars, vars
    <2> QED BY <2>1, MatchKept, Zenon
  <1>3. \A p \in Procs : ~OpenFails(p) /\ ~RequestLost(p)
    BY Zenon DEF OpenFails, RequestLost
  <1> QED BY <1>1, <1>2, <1>3, MatchCall, MatchPoll, MatchOpen, MatchOpened, MatchPost, Zenon
          DEF Next, Proceed

\* While nothing is lost and no process dies, neither side meets a number it
\* does not expect: what a poll brings opens, in await and in the collector's
\* loop, and the queues of the relay hold what comes next, whichever calls timed
\* out before their results came. For one process at a time that uses the
\* session file, and any number of calls, rows and messages.
THEOREM InTurn ==
    ASSUME OneProcess
    PROVE  Spec => []NoMismatch
  <1> DEFINE MatchInv == /\ losses \in Nat /\ crashes \in Nat
                         /\ losses = 0 /\ crashes = 0 => JobsMatch /\ HandsMatch /\ ResultsMatch
  <1>1. Init => MatchInv
    <2> SUFFICES ASSUME Init PROVE MatchInv
      OBVIOUS
    <2>1. losses = 0 /\ crashes = 0 /\ ~gone
      BY Zenon DEF Init
    <2>2. JobsMatch
      BY DEF Init, JobsMatch, Numbered, After
    <2>3. HandsMatch
      BY Zenon DEF Init, HandsMatch
    <2>4. file # Nil /\ file.nextResult = 1
      <3>1. file \in Sessions /\ file.nextResult = 1
        BY Bounds DEF Init, Sessions
      <3> QED BY <3>1, NilAssumption, Zenon
    <2>5. ASSUME NEW n \in Nat, InHand(n) PROVE n = 0
      BY <2>5, Zenon DEF Init, InHand
    <2>6. resultsQ = <<>> /\ cResult = 1 /\ lastResult = Nil
      BY Zenon DEF Init
    <2>7. ResultsMatch
      BY <2>1, <2>4, <2>5, <2>6 DEF ResultsMatch, After, Numbered
    <2> QED BY <2>1, <2>2, <2>3, <2>7, Zenon
  <1>2. TypeInv /\ MatchInv /\ [Next]_vars => MatchInv'
    <2> SUFFICES ASSUME TypeInv, MatchInv, [Next]_vars PROVE MatchInv'
      OBVIOUS
    <2>1. /\ losses' \in Nat /\ crashes' \in Nat
          /\ losses' = 0 => losses = 0 /\ ~Lose
          /\ crashes' = 0 => crashes = 0 /\ \A p \in Procs : ~Crash(p)
      BY LossStep, Zenon
    <2> QED BY <2>1, JobsMatchStep, ResultsMatchStep, Zenon
  <1>3. TypeInv /\ MatchInv => NoMismatch
    <2> SUFFICES ASSUME TypeInv, losses = 0, crashes = 0, JobsMatch, HandsMatch, ResultsMatch
                 PROVE  NoMismatch
      BY Zenon DEF NoMismatch
    <2>1. \A p \in Procs : ~bad[p]
      BY Zenon DEF HandsMatch
    <2>2. /\ \A i \in DOMAIN inbox : inbox[i].seq = cNext + i - 1
          /\ \A i \in DOMAIN jobsQ : jobsQ[i].seq = cNext + Len(inbox) + i - 1
      BY Zenon DEF JobsMatch, Numbered
    <2>3. ASSUME NEW i \in DOMAIN resultsQ, file # Nil, \A p \in Procs : hand[p] = <<>>
          PROVE  resultsQ[i].seq = file.nextResult + i - 1
      <3>1. InHand(0) /\ 0 \in Nat
        BY <2>3 DEF InHand
      <3>2. ~gone
        BY <2>3 DEF ResultsMatch
      <3>3. Numbered(resultsQ, file.nextResult + 0)
        BY <3>1, <3>2, Zenon DEF ResultsMatch
      <3>4. file.nextResult + 0 = file.nextResult
        BY <2>3, Bounds DEF TypeInv, FileOK, Sessions
      <3> QED BY <3>3, <3>4, Zenon DEF Numbered
    <2> QED BY <2>1, <2>2, <2>3, Zenon DEF NoMismatch
  <1> QED BY <1>1, <1>2, <1>3, Typed, PTL DEF Spec
=============================================================================
