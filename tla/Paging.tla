------------------------------- MODULE Paging -------------------------------
(***************************************************************************)
(* An agent pages through what it asked for: it repeats a call with the    *)
(* cursor of the last answer until an answer has none. Modelled are the    *)
(* tools search and read of an artifact (mcp/tools.go, artifact.go) and    *)
(* the jobs search_files, read_file and journal of a live session          *)
(* (serve/jobs.go, source/file.go, serve/run.go), whose sources grow       *)
(* meanwhile. Sources and lines are numbered from 1, and a line of a       *)
(* source is written <<source, number>>.                                   *)
(***************************************************************************)
EXTENDS Integers, Sequences, SequencesExt, FiniteSets, FiniteSetsExt

CONSTANTS
    Lines,      \* the lines considered: whether they match, their size as
                \* text and in JSON, whether they begin or end a private key
    MaxLines,   \* bound: lines of all sources together
    Searches,   \* the searches considered
    Batch,      \* 500, the most lines of a read
    MatchCap,   \* 2000 bytes, where search cuts a matching line
    TextCap,    \* textCap, MaxResultPlaintext
    JsonCap     \* MaxResultBytes

ASSUME PagingAssumption ==
    /\ Lines \subseteq [match : BOOLEAN, size : Nat \ {0}, json : Nat \ {0},
                        key : {"no", "begin", "end"}]
    /\ MaxLines \in Nat
    /\ Searches \subseteq [before : Nat, after : Nat, max : Nat \ {0}]
    /\ Batch \in Nat \ {0}
    /\ TextCap \in Nat /\ JsonCap \in Nat
    /\ MatchCap \in 1 .. TextCap

VARIABLES
    tool,     \* what the agent calls
    query,    \* the search, where the tool takes one
    only,     \* the source searched, 0 for all
    to,       \* the last line asked for in a read
    twins,    \* the sources of the artifact have the same name
    masked,   \* redaction changes the paths of the files
    text,     \* text[i]: the lines of source i
    status,   \* "call", with a cursor or without; "end"; "error", a refusal
    cursor,   \* source and line; in a journal the line is an offset
    asked,    \* a call has been answered
    page,     \* the lines of the last answer
    shown,    \* history: the lines of all answers
    cut,      \* history: an answer was cut at a cap
    start     \* history: how long the sources were at first

request == <<tool, query, only, to, twins, masked, start>>
vars == <<request, text, status, cursor, asked, page, shown, cut>>

Artifact == {"search", "read"}
Live == {"search_files", "read_file", "journal"}
Searching == {"search", "search_files"}

NoMore == <<0, 0>>
BadCursor == <<0, 1>>

\* An artifact has been redacted when it was collected.
Init ==
    /\ tool \in Artifact \cup Live
    /\ query \in IF tool \in {"read", "read_file"} THEN {CHOOSE q \in Searches : TRUE}
                 ELSE Searches
    /\ only \in IF tool = "search" THEN 0 .. 2 ELSE {0}
    /\ to \in IF tool = "read" THEN 1 .. MaxLines + 1 ELSE {0}
    /\ twins \in IF tool = "search" THEN BOOLEAN ELSE {FALSE}
    /\ masked \in IF tool = "search_files" THEN BOOLEAN ELSE {FALSE}
    /\ \E s \in BoundedSeq({l \in Lines : tool \in Artifact => l.key = "no"}, MaxLines) :
          \E k \in IF tool \in Searching THEN 0 .. Len(s) ELSE {Len(s)} :
             text = <<SubSeq(s, 1, k), SubSeq(s, k + 1, Len(s))>>
    /\ start = [i \in 1 .. 2 |-> Len(text[i])]
    /\ status = "call"
    /\ cursor = IF tool = "journal" THEN <<1, 0>> ELSE <<1, 1>>
    /\ asked = FALSE
    /\ page = <<>>
    /\ shown = {}
    /\ cut = FALSE

LineAt(l) == text[l[1]][l[2]]
IsMatch(l) == LineAt(l).match

\* Source.Read
Read(i, from, upto) ==
    LET first == Max({1, from})
        last  == Min({upto, Len(text[i])})
    IN  [k \in 1 .. Max({0, last - first + 1}) |-> <<i, first + k - 1>>]

Total(sizes) == FoldLeft(LAMBDA x, y : x + y, 0, sizes)

\* How many of the lines stay within the cap: the loop stops at the first
\* that does not fit.
Fitting(sizes, cap) ==
    Max({k \in 0 .. Len(sizes) : Total(SubSeq(sizes, 1, k)) <= cap})

Page(lines, next, isCut) == [lines |-> lines, next |-> next, cut |-> isCut]

-----------------------------------------------------------------------------
(* The artifact's tools.                                                   *)

\* a.Sources[i] and a.Sources[j] have the same name.
SameName(i, j) == i = j \/ twins

\* Mutant of Block: shows what has been shown.
Repeats(i, n, emitted) == Read(i, n - query.before, n + query.after)

\* A match with its context, without what was emitted already.
Block(i, n, emitted) == Read(i, Max({emitted + 1, n - query.before}), n + query.after)

\* Mutant of NothingAfter: forgets that one source is searched.
ForgetsFilter(i) == i = Len(text)

\* No source is searched after source i.
NothingAfter(i) == only # 0 \/ i = Len(text)

\* Artifact.Search at line n of source i, where s is what it has so far. It
\* goes on behind the last line emitted.
SearchLine(s, i, n) ==
    LET block == Block(i, n, s.emitted)
        found == s.matches + Cardinality({k \in DOMAIN block : IsMatch(block[k])})
        last  == Last(block)[2]
        atEnd == last = Len(text[i])
        full  == found >= query.max
    IN  IF s.full \/ n <= s.emitted \/ ~IsMatch(<<i, n>>) THEN s
        ELSE [lines   |-> s.lines \o block,
              matches |-> found,
              emitted |-> last,
              full    |-> full,
              next    |-> IF full /\ atEnd THEN <<i + 1, 1>> ELSE <<i, last + 1>>,
              done    |-> full /\ atEnd /\ NothingAfter(i)]

SearchSource(s, i) ==
    IF s.full \/ i < cursor[1] \/ (only # 0 /\ ~SameName(i, only)) THEN s
    ELSE FoldLeftDomain(LAMBDA r, n : SearchLine(r, i, n),
                        [s EXCEPT !.emitted = IF i = cursor[1] THEN cursor[2] - 1 ELSE 0],
                        text[i])

ArtifactSearch ==
    LET s == FoldLeftDomain(SearchSource,
                            [lines |-> <<>>, matches |-> 0, emitted |-> 0, full |-> FALSE,
                             next |-> NoMore, done |-> FALSE], text)
    IN  IF s.full THEN s ELSE [s EXCEPT !.done = TRUE]

\* Matching lines are cut, the lines around them are not.
ShownSize(l) == IF IsMatch(l) THEN Min({MatchCap, LineAt(l).size}) ELSE LineAt(l).size

\* The search tool. A page cut at the cap goes on with the line that did not
\* fit, in the first source that has its source's name.
SearchPage ==
    LET s     == ArtifactSearch
        k     == Fitting([j \in DOMAIN s.lines |-> ShownSize(s.lines[j])], TextCap)
        first == s.lines[k + 1]
    IN  IF k < Len(s.lines)
        THEN Page(SubSeq(s.lines, 1, k),
                  <<Min({i \in DOMAIN text : SameName(i, first[1])}), first[2]>>, TRUE)
        ELSE Page(s.lines, IF s.done THEN NoMore ELSE s.next, FALSE)

SearchAccepts ==
    asked =>
        /\ cursor[1] \in DOMAIN text
        /\ cursor[2] \in 1 .. Len(text[cursor[1]]) + 1
        /\ only # 0 => SameName(only, cursor[1])

\* The read tool, lineResult.
ReadPage ==
    LET from  == cursor[2]
        lines == Read(1, from, from + Min({Batch - 1, to - from}))
        k     == Fitting([j \in DOMAIN lines |-> LineAt(lines[j]).size], TextCap)
    IN  IF k < Len(lines) THEN Page(SubSeq(lines, 1, k), lines[k + 1], TRUE)
        ELSE Page(lines, IF Last(lines)[2] < Min({to, Len(text[1])})
                         THEN <<1, Last(lines)[2] + 1>> ELSE NoMore, FALSE)

ReadAccepts == cursor[2] <= to /\ cursor[2] <= Len(text[1])

-----------------------------------------------------------------------------
(* The jobs of a live session.                                             *)

\* The callback of Files.Search at line l, where s is what the search has so
\* far: before holds lines not yet shown, after counts those still owed.
Feed(s, l, first) ==
    LET hit  == l[2] >= first /\ IsMatch(l)
        next == IF hit /\ s.matches = query.max /\ s.next = NoMore THEN l ELSE s.next
        held == Append(s.before, l)
    IN  IF s.done THEN s
        ELSE
        CASE next # NoMore /\ s.after = 0 -> [s EXCEPT !.next = next, !.done = TRUE]
          [] next # NoMore /\ s.after > 0 ->
                [s EXCEPT !.next = next, !.lines = Append(@, l), !.after = @ - 1]
          [] next = NoMore /\ hit ->
                [s EXCEPT !.matches = @ + 1, !.lines = @ \o held, !.before = <<>>,
                          !.after = query.after]
          [] next = NoMore /\ ~hit /\ s.after > 0 ->
                [s EXCEPT !.lines = Append(@, l), !.after = @ - 1]
          [] OTHER ->
                [s EXCEPT !.before =
                    SubSeq(held, Max({1, Len(held) - query.before + 1}), Len(held))]

\* Mutant of SearchFile: the cursor's line holds for every file.
KeepsFirst(s, i) ==
    IF s.next # NoMore \/ i < cursor[1] THEN s
    ELSE FoldLeftDomain(LAMBDA r, n : Feed(r, <<i, n>>, cursor[2]),
                        [s EXCEPT !.before = <<>>, !.after = 0], text[i])

\* Every file is scanned from its first line, the one of the cursor too.
SearchFile(s, i) ==
    IF s.next # NoMore \/ i < cursor[1] THEN s
    ELSE FoldLeftDomain(
            LAMBDA r, n : Feed(r, <<i, n>>, IF i = cursor[1] THEN cursor[2] ELSE 1),
            [s EXCEPT !.before = <<>>, !.after = 0], text[i])

SearchJob ==
    FoldLeftDomain(SearchFile, [lines |-> <<>>, matches |-> 0, next |-> NoMore, done |-> FALSE,
                                before |-> <<>>, after |-> 0], text)

ReadFileJob ==
    LET last == cursor[2] + Batch - 1
    IN  [lines |-> Read(1, cursor[2], last),
         next |-> IF last < Len(text[1]) THEN <<1, last + 1>> ELSE NoMore]

Matching(lines) ==
    FoldLeft(LAMBDA found, l : IF IsMatch(l) THEN Append(found, l) ELSE found, <<>>, lines)

JournalJob ==
    LET lines == Matching(Read(1, 1, Len(text[1])))
        first == Min({cursor[2], Len(lines)})
        end   == Min({first + query.max, Len(lines)})
    IN  [lines |-> SubSeq(lines, first + 1, end),
         next |-> IF end < Len(lines) THEN <<1, end>> ELSE NoMore]

\* Engine.Redact makes one line of a private key, from its first line to its
\* last if the answer has that one. Its result is a sequence of such groups.
KeyEnd(lines, k) ==
    LET ends == {j \in k .. Len(lines) : LineAt(lines[j]).key = "end"}
    IN  IF LineAt(lines[k]).key = "begin" /\ ends # {} THEN Min(ends) ELSE k

Redact(lines) ==
    FoldLeftDomain(LAMBDA groups, k :
                      IF k <= Len(FlattenSeq(groups)) THEN groups
                      ELSE Append(groups, SubSeq(lines, k, KeyEnd(lines, k))),
                   <<>>, lines)

\* Mutant of CutCursor: the offset in the page, not in the journal.
CountsFromPage(groups, k) ==
    CASE tool = "journal" -> <<1, k - 1>>
      [] tool # "journal" /\ (masked \/ LineAt(Head(groups[k])).key = "begin") -> BadCursor
      [] OTHER -> Head(groups[k])

\* The cursor is read off the line, if redaction has left its number and its
\* path. For a journal it is counted.
CutCursor(groups, k) ==
    CASE tool = "journal" -> <<1, cursor[2] + k - 1>>
      [] tool # "journal" /\ (masked \/ LineAt(Head(groups[k])).key = "begin") -> BadCursor
      [] OTHER -> Head(groups[k])

\* capResult: as much as fits both as text and as JSON.
CapResult(job) ==
    LET groups == Redact(job.lines)
        k      == Min({Fitting([j \in DOMAIN groups |-> LineAt(Head(groups[j])).size], TextCap),
                       Fitting([j \in DOMAIN groups |-> LineAt(Head(groups[j])).json], JsonCap)})
    IN  IF k = Len(groups) THEN Page(job.lines, job.next, FALSE)
        ELSE Page(FlattenSeq(SubSeq(groups, 1, k)), CutCursor(groups, k + 1), TRUE)

JobAccepts == cursor # BadCursor

-----------------------------------------------------------------------------
(* Calls.                                                                  *)

Accepts ==
    CASE tool = "search" -> SearchAccepts
      [] tool = "read" -> ReadAccepts
      [] tool \in Live -> JobAccepts

Answer ==
    CASE tool = "search" -> SearchPage
      [] tool = "read" -> ReadPage
      [] tool = "search_files" -> CapResult(SearchJob)
      [] tool = "read_file" -> CapResult(ReadFileJob)
      [] tool = "journal" -> CapResult(JournalJob)

Call ==
    /\ status = "call"
    /\ Accepts
    /\ LET answer == Answer
       IN  /\ page' = answer.lines
           /\ shown' = shown \cup ToSet(answer.lines)
           /\ cut' = (cut \/ answer.cut)
           /\ cursor' = answer.next
           /\ status' = IF answer.next = NoMore THEN "end" ELSE "call"
    /\ asked' = TRUE
    /\ UNCHANGED <<request, text>>

Refused ==
    /\ status = "call"
    /\ ~Accepts
    /\ status' = "error"
    /\ UNCHANGED <<request, text, cursor, asked, page, shown, cut>>

\* A line is written to a file or to the journal between two calls.
Grow ==
    /\ tool \in Live /\ status = "call" /\ asked
    /\ Len(text[1]) + Len(text[2]) < MaxLines
    /\ \E i \in IF tool \in Searching THEN 1 .. 2 ELSE {1}, l \in Lines :
          text' = [text EXCEPT ![i] = Append(@, l)]
    /\ UNCHANGED <<request, status, cursor, asked, page, shown, cut>>

\* The agent has its answer.
Ended == status # "call" /\ UNCHANGED vars

Next == Call \/ Refused \/ Grow \/ Ended

Spec == Init /\ [][Next]_vars

-----------------------------------------------------------------------------
(* Properties.                                                             *)

AllLines == UNION {{<<i, n>> : n \in DOMAIN text[i]} : i \in DOMAIN text}

\* The lines the request is about, without their context.
Asked ==
    {l \in AllLines :
        CASE tool = "read" -> l[2] <= to
          [] tool = "read_file" -> TRUE
          [] OTHER -> IsMatch(l) /\ (only = 0 \/ SameName(only, l[1]))}

\* The lines so many before and after line l, among those given.
Around(l, before, after, lines) ==
    {x \in lines : x[1] = l[1] /\ x[2] \in l[2] - before .. l[2] + after}

AtFirst == {l \in AllLines : l[2] <= start[l[1]]}

\* The pages add up to the answer. When the last one has come, every line
\* asked for that was there at the first call has been shown, however the
\* pages were cut and whatever was written meanwhile; nothing was shown but
\* these lines and their context; and unless an answer was cut at a cap the
\* context is complete (for the search of an artifact: the lines before).
PagesAddUp ==
    status = "end" /\ ~twins =>
        LET b == IF tool \in Searching THEN query.before ELSE 0
            a == IF tool \in Searching THEN query.after ELSE 0
        IN  /\ Asked \cap AtFirst \subseteq shown
            /\ shown \subseteq UNION {Around(l, b, a, AllLines) : l \in Asked}
            /\ ~cut => \A l \in Asked \cap AtFirst :
                          Around(l, b, IF tool = "search" THEN 0 ELSE a, AtFirst) \subseteq shown

\* Line l comes before line m.
Precedes(l, m) == l[1] < m[1] \/ (l[1] = m[1] /\ l[2] < m[2])

\* Every answer is in order, and but for search_files, which repeats context,
\* and a journal with a private key in it, whose cursor counts redacted
\* lines, no line is shown twice.
OnceInOrder ==
    [][text' = text /\ status' # "error" =>
          /\ \A j, k \in DOMAIN page' : j < k => Precedes(page'[j], page'[k])
          /\ \/ tool = "search_files" \/ twins
             \/ tool = "journal" /\ \E l \in AllLines : LineAt(l).key = "begin"
             \/ \A l \in shown, m \in ToSet(page') : Precedes(l, m)]_vars

\* A cursor is good for the next call, unless redaction has replaced the path
\* or the number of the line it was read from.
CursorAccepted ==
    status = "error" /\ asked /\ ~twins =>
        /\ cut
        /\ masked \/ \E l \in AllLines : LineAt(l).key = "begin"

\* What must fit into one answer so that every answer brings the agent
\* further: a line, and for search_files a match with the lines before it,
\* which every answer starts with.
Fits ==
    \A l \in AllLines :
        CASE tool = "search" -> ShownSize(l) <= TextCap
          [] tool = "read" -> LineAt(l).size <= TextCap
          [] OTHER ->
               LET ls == Read(l[1], l[2] - (IF tool = "search_files" THEN query.before ELSE 0), l[2])
               IN  /\ Total([k \in DOMAIN ls |-> LineAt(ls[k]).size]) <= TextCap
                   /\ Total([k \in DOMAIN ls |-> LineAt(ls[k]).json]) <= JsonCap

\* Every cursor is behind the one before, so that paging comes to an end.
Advances ==
    [][text' = text /\ status' # "error" =>
          \/ cursor' \in {NoMore, BadCursor} \/ Precedes(cursor, cursor')
          \/ ~Fits \/ twins]_vars

\* mcp/tools.go, the search tool: "context lines after each match".
EachMatchInContext ==
    status = "end" /\ tool = "search" /\ ~cut /\ ~twins =>
        \A l \in Asked : Around(l, 0, query.after, AllLines) \subseteq shown
=============================================================================
