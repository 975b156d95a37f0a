------------------------------ MODULE Channel ------------------------------
(***************************************************************************)
(* What the directions of a live session promise its two ends              *)
(* (spec/relay-api.md, POST and GET of jobs and results): envelopes are    *)
(* accepted in sequence from 1, a poll is handed everything accepted and   *)
(* not yet handed out, in order, and nothing is ever handed out twice.     *)
(* After the session is dropped nothing is accepted or handed out again.   *)
(***************************************************************************)
EXTENDS Naturals, Sequences

CONSTANTS
    Chans,      \* the channels
    Envelopes   \* records with a field seq

VARIABLES
    log,        \* log[c]: every envelope accepted so far
    delivered,  \* delivered[c]: every envelope handed to a poll so far
    closed      \* closed[c]: the session was dropped

chanVars == <<log, delivered, closed>>

ChanInit ==
    /\ log = [c \in Chans |-> <<>>]
    /\ delivered = [c \in Chans |-> <<>>]
    /\ closed = [c \in Chans |-> FALSE]

Accept(c) ==
    /\ ~closed[c]
    /\ \E e \in Envelopes :
         /\ e.seq = Len(log[c]) + 1
         /\ log'[c] = Append(log[c], e)
    /\ delivered'[c] = delivered[c]
    /\ closed'[c] = closed[c]

\* One poll takes the whole backlog, so what has been delivered is then all
\* that was accepted.
Take(c) ==
    /\ ~closed[c]
    /\ delivered'[c] = log[c]
    /\ log'[c] = log[c]
    /\ closed'[c] = closed[c]

Close(c) ==
    /\ closed'[c]
    /\ log'[c] = log[c]
    /\ delivered'[c] = delivered[c]

Idle(c) ==
    /\ log'[c] = log[c]
    /\ delivered'[c] = delivered[c]
    /\ closed'[c] = closed[c]

\* The two directions of a session are dropped together.
ChanNext == \A c \in Chans : Accept(c) \/ Take(c) \/ Close(c) \/ Idle(c)

ChanSpec == ChanInit /\ [][ChanNext]_chanVars
=============================================================================
