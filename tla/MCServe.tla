------------------------------ MODULE MCServe ------------------------------
(***************************************************************************)
(* Instances of Serve. "log" is in the scope, "etc" is not; "alias" is a   *)
(* link to "etc"; "app.log" is in both "log" and "srv" a link to etc/conf; *)
(* "gone" does not exist.                                                  *)
(***************************************************************************)
EXTENDS Serve

MCDirs == {"log", "etc", "alias", "srv", "gone"}
MCBases == {"conf", "app.log"}

MCDirCanon == [d \in MCDirs |-> IF d = "alias" THEN "etc" ELSE d]

MCLink ==
    [n \in MCDirs \X (MCBases \cup {Self}) |->
       IF n = <<"log", "app.log">> \/ n = <<"srv", "app.log">> THEN <<"etc", "conf">>
       ELSE Nil]

MCPresent ==
    {<<d, b>> : d \in {"log", "etc", "alias"}, b \in {"conf", Self}}
      \cup {<<"log", "app.log">>, <<"srv", "app.log">>, <<"srv", Self>>}

Job(kind, dir, base) == [kind |-> kind, name |-> <<dir, base>>]

\* Single jobs and plans that take each branch of handle.
MCPlans ==
    {<<>>,
     <<Job("file", "alias", "conf"), Job("file", "log", "app.log")>>,
     <<Job("search", "log", Self), Job("bad", "log", Self)>>,
     <<Job("file", "etc", "conf")>>,
     <<Job("file", "gone", "conf"), Job("command", "log", Self)>>}

\* Jobs whose grants bear on one another, and a link outside the scope that
\* leaves its directory.
ScopePlans ==
    {<<Job("file", "etc", "conf")>>,
     <<Job("search", "alias", Self), Job("file", "log", "app.log")>>,
     <<Job("file", "srv", "app.log")>>}
=============================================================================
