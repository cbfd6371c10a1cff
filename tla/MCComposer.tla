----------------------------- MODULE MCComposer -----------------------------
EXTENDS Composer

(* Tabs, slots of commands and of requests, and fields are interchangeable.*)
Symmetry == Permutations(Tabs) \cup Permutations(Slots) \cup Permutations(Calls)
                \cup Permutations(Fields)

(* Texts of one and two characters, and some that look like JSON.          *)
MCTexts ==
    UNION {[1..n -> Chars] : n \in 1..2}
        \cup {<<q, c, r>> : q \in {"DQ", "["}, c \in Chars, r \in {"DQ", "]"}}
        \cup {<<"[", "DQ", c, "DQ", "]">> : c \in Chars}
(* The toggles that the menu hides do nothing: they keep their default.    *)
MCSetups == {p \in Prefs :
    /\ p.mode # "flakes" => ~(p.flakes \/ p.registry)
    /\ p.mode # "nix-run" => ~p.nixRun
    /\ p.source = "local" => p.latest /\ ~p.registry}

Simple(kind, initial, first, nullable) ==
    [kind |-> kind, initial |-> initial, first |-> first, nullable |-> nullable,
     depends |-> None, schema |-> <<>>, of |-> "str", minLen |-> 0]
Cell(kind, initial) == [kind |-> kind, initial |-> initial]

(* A mock, and a model of a service that speaks the protocol of another.   *)
MCSegments(id) == CASE id = "mock" -> <<"mock", "m">>
                    [] id = "big" -> <<"openai-api", "hub", "big">>
                    [] OTHER -> <<id>>

(* A selector and its dependant, a model with a suggestion, one without, a *)
(* roster, a list.                                                         *)
MCParams == {"task", "args", "model", "judge", "players", "tags"}
MCDecl == [p \in MCParams |->
    CASE p = "task"    -> Simple("enum", Blank, "t1", FALSE)
      [] p = "args"    -> [Simple("object", <<>>, Blank, FALSE) EXCEPT !.depends = "task",
                              !.schema = [s \in {"t1", "t2"} |->
                                  [f \in {"x"} |-> Cell("str", IF s = "t1" THEN Blank ELSE "1")]]]
      [] p = "model"   -> Simple("llm", Blank, "mock", FALSE)
      [] p = "judge"   -> Simple("llm", Blank, Blank, TRUE)
      [] p = "players" -> [Simple("rows", <<[m |-> "mock", n |-> "0"]>>, Blank, FALSE) EXCEPT !.minLen = 1,
                              !.schema = [m |-> Cell("llm", Blank), n |-> Cell("int", Blank)]]
      [] p = "tags"    -> [Simple("list", <<>>, Blank, FALSE) EXCEPT !.of = "llm"]]
MCTyped(p) ==
    CASE p = "task"    -> {"t1", "t2"}
      [] p = "model"   -> {Blank, "mock"}
      [] p = "judge"   -> {Blank, "big"}
      [] OTHER         -> {}
=============================================================================
