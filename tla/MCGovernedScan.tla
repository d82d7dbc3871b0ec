---------------------------- MODULE MCGovernedScan ----------------------------
(***************************************************************************)
(* Instances of GovernedScan for TLC.  Three contents of the vault: tasks  *)
(* and decisions that lead into a cycle; an archived project with an open  *)
(* task and an old note; nothing to ask but an entity.                     *)
(***************************************************************************)
EXTENDS GovernedScan

CONSTANTS o1, h1, x1

MCKind == (o1 :> "ollama") @@ (h1 :> "hyperfusion") @@ (x1 :> "ollama")
MCRequired == [t \in {"decision"} |-> {"status"}]
MCPolicy ==
  [id |-> "p", version |-> 1, enabled |-> TRUE, templates |-> <<"decision">>,
   rules |-> {[id |-> "r", fact |-> <<"project", "archived_open_tasks">>, operator |-> "forbidden",
               value |-> "", severity |-> "high"],
              [id |-> "s", fact |-> <<"project", "owner">>, operator |-> "required",
               value |-> "", severity |-> "medium"]}]

Note(fm, lines) == [fm |-> fm, lines |-> lines, hints |-> {}, updated |-> 0]
Text == [task |-> FALSE]
TaskLine(id, box, due) ==
  [task |-> TRUE, parses |-> TRUE, id |-> id, box |-> box, marked |-> FALSE, owned |-> TRUE,
   abandoned |-> FALSE, due |-> due]
Decision(next) == Note([f \in {"kind", "rationale", "supersedes"} |->
                          CASE f = "kind" -> "decision" [] f = "rationale" -> "why" [] OTHER -> next], <<Text>>)

MCVaults ==
  {("a" :> Decision("b")) @@ ("b" :> Decision("c")) @@ ("c" :> Decision("b"))
     @@ ("t" :> Note(<<>>, <<Text, TaskLine("", FALSE, 1), TaskLine("x", FALSE, 1)>>)),
   ("p" :> Note(("kind" :> "project") @@ ("status" :> "archived") @@ ("updatedAt" :> "0"), <<Text>>))
     @@ ("q" :> Note(("kind" :> "task") @@ ("status" :> "open") @@ ("project" :> "p") @@ ("updatedAt" :> "0"), <<Text>>)),
   "n" :> Note(<<>>, <<Text>>)}

Candidate(route, places) ==
  [route |-> route, explained |-> TRUE, differ |-> TRUE,
   evidence |-> {[note |-> x[1], place |-> x[2], exact |-> TRUE] : x \in places}]

MCTexts ==
  {[form |-> "prose", shaped |-> FALSE, candidates |-> {}],
   [form |-> "embedded", shaped |-> FALSE, candidates |-> {}],
   [form |-> "fenced", shaped |-> TRUE, candidates |-> {}],
   [form |-> "json", shaped |-> TRUE, candidates |->
      {Candidate("entity", {<<"a", <<"line", 1>>>>, <<"b", <<"line", 1>>>>}),
       Candidate("staleness", {<<"p", <<"line", 1>>>>}), Candidate("staleness", {<<"q", <<"line", 1>>>>}),
       Candidate("decision", {<<"a", <<"field", "kind">>>>}),
       Candidate("decision", {<<"b", <<"field", "status">>>>})}]}
=============================================================================
