------------------------------ MODULE MCWorkspace ------------------------------
(***************************************************************************)
(* Instances of Workspace for TLC.  Three vaults: a task without an owner    *)
(* for whom there are two candidates, a broken link and a project without  *)
(* a field of its template; two notes judged to be one, a note that links  *)
(* to one of them, and a decision with a broken association; tasks that    *)
(* are marked as done, have the id of another, or are abandoned.           *)
(***************************************************************************)
EXTENDS Workspace

File(fm, lines, links) == [fm |-> fm, lines |-> lines, links |-> links]
Task(due) == [id |-> <<"a">>, box |-> FALSE, marked |-> FALSE, owner |-> "", project |-> "p", due |-> due, abandoned |-> FALSE]
Project(owner, more) == File(("kind" :> "project") @@ ("owner" :> owner) @@ more, <<Text>>, {})

MCVaults ==
  {("t" :> File(<<>>, <<Task("")>>, {"x"}))
     @@ ("p" :> Project("ann", "status" :> "on")) @@ ("q" :> Project("bob", <<>>)),
   ("p" :> Project("ann", "status" :> "on")) @@ ("e" :> File(<<>>, <<Text>>, {})) @@ ("n" :> File(<<>>, <<Task("late")>>, {"e"}))
     @@ ("d" :> File(("kind" :> "decision") @@ ("rationale" :> "why") @@ ("project" :> "gone"), <<Text>>, {})),
   "w" :> File(<<>>, <<[Task("") EXCEPT !.owner = "ann", !.marked = TRUE],
                       [Task("") EXCEPT !.owner = "ann"],
                       [Task("") EXCEPT !.owner = "ann", !.id = <<>>, !.abandoned = TRUE]>>, {})}

\* Two notes judged to be one, and two that link to one of them.
MCLinked ==
  {[n \in {"m", "n"} |-> File(<<>>, <<Text>>, {"e"})] @@ [n \in {"e", "p"} |-> File(<<>>, <<Text>>, {})]}

MCEdits == [p \in {"t", "p", "q", "e", "m", "n", "d", "w"} |-> IF p = "n" THEN {File(<<>>, <<[Task("late") EXCEPT !.owner = "ann", !.marked = TRUE]>>, {"e"})} ELSE {}]
MCRequired == [t \in {"project"} |-> {"status"}]
MCMeant == [x \in {"x"} |-> {"p", "q"}]
MCDuplicates == {<<"e", "p">>}
=============================================================================
