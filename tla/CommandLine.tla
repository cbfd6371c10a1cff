---------------------------- MODULE CommandLine ----------------------------
(***************************************************************************)
(* One value of the form on its two ways to the runner: the button posts   *)
(* key=value strings, the oneliner is text that a reader pastes into a     *)
(* shell (web/src/lib/cmd-build.ts), after it was rewritten for the        *)
(* reader's Nix setup (lib/cmd-rewrite.ts, and the guide's own copy of it, *)
(* docs/book/theme/adb-commands.js).  At the end of both the runner parses *)
(* the value (runner shorthand.py).                                        *)
(* A text is a sequence of characters, one of each kind that somebody on   *)
(* the way treats differently; fixed words of the command are single       *)
(* symbols.  The shell is modelled from what it does with such a text.     *)
(***************************************************************************)
EXTENDS Naturals, Sequences, FiniteSets, SequencesExt, TLC

Plain == {"a", "n", "1", "null"}          \* "1" a digit, "n" the letter of \n
Blanks == {"SP", "NL"}
Kinds == {"str", "int", "list"}

(* "SP" is a blank, "NL" a newline, "DQ" a double quote; "$" stands for    *)
(* the backquote too: both start an expansion.                             *)
Chars == {"a", "1", "'", "DQ", "$", "\\", "SP", "NL", "@", "[", "]"}

(* The words of the command: its head, the source, the flags it carries.   *)
Name    == "nix_run_.#x"
Tarball == "https://.../main.tar.gz"
Flags   == {<<"--data-dir">>, <<"--set">>, <<"--publish">>, <<"--profile">>}

Along(t, s, Step(_, _)) ==
    LET after[i \in 0..Len(t)] == IF i = 0 THEN s ELSE Step(after[i - 1], t[i]) IN after[Len(t)]
Spell(t, Esc(_)) == FlattenSeq([i \in DOMAIN t |-> Esc(t[i])])
Trim(t) == LET solid == {i \in DOMAIN t : t[i] \notin Blanks} IN
           IF solid = {} THEN <<>> ELSE SubSeq(t, Min(solid), Max(solid))

-----------------------------------------------------------------------------
(* JSON, as far as these texts reach: numbers, strings, null, lists of at  *)
(* most one of them.                                                       *)
Unquote(s, c) ==
    CASE s.esc /\ c = "n"           -> [s EXCEPT !.esc = FALSE, !.text = Append(@, "NL")]
      [] s.esc /\ c \in {"DQ", "\\"} -> [s EXCEPT !.esc = FALSE, !.text = Append(@, c)]
      [] ~s.esc /\ c = "\\"         -> [s EXCEPT !.esc = TRUE]
      [] ~s.esc /\ c \notin {"DQ", "NL", "\\"} -> [s EXCEPT !.text = Append(@, c)]
      [] OTHER                      -> [s EXCEPT !.ok = FALSE]
Body(t) == Along(SubSeq(t, 2, Len(t) - 1), [text |-> <<>>, esc |-> FALSE, ok |-> TRUE], Unquote)

IsNumber(t) == t # <<>> /\ ToSet(t) = {"1"}
IsString(t) == Len(t) > 1 /\ t[1] = "DQ" /\ t[Len(t)] = "DQ" /\ Body(t).ok /\ ~Body(t).esc
IsScalar(t) == IsNumber(t) \/ IsString(t) \/ t = <<"null">>
Inner(t)    == Trim(SubSeq(t, 2, Len(t) - 1))
IsList(t)   == /\ Len(t) > 1 /\ t[1] = "[" /\ t[Len(t)] = "]"
               /\ Inner(t) = <<>> \/ IsScalar(Inner(t))

NoJson == [type |-> "none", text |-> <<>>]
Json(raw) ==
    LET t == Trim(raw) IN
    CASE IsNumber(t)    -> [type |-> "number", text |-> t]
      [] IsString(t)    -> [type |-> "string", text |-> Body(t).text]
      [] t = <<"null">> -> [type |-> "null", text |-> <<>>]
      [] IsList(t)      -> [type |-> "list", text |-> <<"[">> \o Inner(t) \o <<"]">>]
      [] OTHER          -> NoJson

EscapeJson(c) == CASE c = "NL" -> <<"\\", "n">>
                   [] c \in {"DQ", "\\"} -> <<"\\", c>>
                   [] OTHER -> <<c>>
Stringify(t) == <<"DQ">> \o Spell(t, EscapeJson) \o <<"DQ">>

-----------------------------------------------------------------------------
(* cmd-build: how a value is spelled, and whether it may stand unquoted.   *)
BareString(raw) == raw # <<>> /\ ToSet(raw) \subseteq Plain \cup {"@"}

SetParts(raw, kind) ==
    CASE kind = "int"  -> IF IsNumber(Trim(raw)) THEN [value |-> Trim(raw), bare |-> TRUE]
                                                 ELSE [value |-> raw, bare |-> FALSE]
      [] kind = "list" -> [value |-> IF Json(raw).type = "list" THEN Json(raw).text ELSE raw,
                           bare |-> FALSE]
      [] kind = "str"  -> IF BareString(raw) /\ raw[1] # "@" /\ Json(raw) = NoJson
                          THEN [value |-> raw, bare |-> TRUE]
                          ELSE [value |-> Stringify(raw), bare |-> FALSE]

EscapeQuote(c) == IF c = "'" THEN <<"'", "\\", "'", "'">> ELSE <<c>>
ShQuote(t) == <<"'">> \o Spell(t, EscapeQuote) \o <<"'">>
SetArg(key, part) == <<key, "=">> \o part.value
EncodeSet(key, part) ==
    <<"--set", "SP">> \o IF part.bare THEN SetArg(key, part) ELSE ShQuote(SetArg(key, part))

(* The command: one argument per line, each line but the last continued.   *)
Keys     == <<"k", "l", "m">>
Continue == <<"SP", "\\", "NL", "SP", "SP">>
BuildCmd(dataDir, parts, targets) ==
    LET sets == [i \in DOMAIN parts |-> EncodeSet(Keys[i], parts[i])]
        to   == [i \in DOMAIN targets |-> <<(<<"--publish", "--profile">>)[i], "SP">> \o ShQuote(targets[i])]
        all  == <<(<<"--data-dir", "SP">> \o ShQuote(dataDir))>> \o sets \o to
    IN  <<Name, "SP", "--">> \o FlattenSeq([i \in DOMAIN all |-> Continue \o all[i]])
BuildArgs(parts) == [i \in DOMAIN parts |-> SetArg(Keys[i], parts[i])]

-----------------------------------------------------------------------------
(* cmd-rewrite: the head for the reader's setup; the rest is kept.         *)
Prefs == [mode : {"flakes", "nix-build", "nix-run"}, source : {"github", "local"},
          flakes : BOOLEAN, registry : BOOLEAN, nixRun : BOOLEAN, latest : BOOLEAN]
DEFAULTS == [mode |-> "nix-build", source |-> "github", flakes |-> FALSE, registry |-> FALSE,
             nixRun |-> FALSE, latest |-> TRUE]
Wrapped(p) == p.mode = "nix-run" /\ ~p.nixRun
Fresh(p)   == p.source = "github" /\ p.latest
When(c, t) == IF c THEN t ELSE <<>>

Ref(p) == IF p.source = "local" THEN ".#x" ELSE IF p.registry THEN "adb#x" ELSE "github:adb#x"
FlakelessHead(rest, p) ==
    LET source == IF p.source = "local" THEN <<>> ELSE <<Tarball>> \o Continue IN
    IF p.mode = "nix-build"
    THEN <<"$(nix-build", "SP", "--no-out-link", "SP">> \o When(Fresh(p), <<"--tarball-ttl", "SP", "0", "SP">>)
             \o source \o <<"-A", "SP", "exec.x)">>
             \o IF Len(rest) > 1 /\ rest[2] = "--" THEN SubSeq(rest, 3, Len(rest)) ELSE rest
    ELSE <<"nix-run", "SP">> \o When(Fresh(p), <<"--option", "SP", "tarball-ttl", "SP", "0", "SP">>)
             \o When(p.source = "local", <<".", "SP">>) \o source \o <<"-A", "SP", "experiment-x">> \o rest
CommandHead(rest, p) ==
    IF p.mode # "flakes" THEN FlakelessHead(rest, p)
    ELSE <<"nix", "SP", "run", "SP", Ref(p)>>
             \o When(~p.flakes, <<"SP", "--extra-experimental-features", "SP", "'", "nix-command",
                                  "SP", "flakes", "'">>)
             \o When(Fresh(p), <<"SP", "--refresh">>) \o rest

SplitChar(ls, c) == IF c = "NL" THEN Append(ls, <<>>) ELSE [ls EXCEPT ![Len(ls)] = Append(@, c)]
Lines(t) == Along(t, <<<<>>>>, SplitChar)
Join(ls) == Tail(FlattenSeq([k \in DOMAIN ls |-> <<"NL">> \o ls[k]]))

(* Where a line's continuing backslash is; past its end if it has none.    *)
Cut(line) ==
    LET cuts == {i \in DOMAIN line : line[i] = "\\" /\ ToSet(SubSeq(line, i + 1, Len(line))) \subseteq {"SP"}}
    IN  IF cuts = {} THEN Len(line) + 1 ELSE Min(cuts)
Continued(line) == Cut(line) <= Len(line)

(* Mutant: only what a shell expands is escaped. *)
EscapeExpansions(line) ==
    Spell(SubSeq(line, 1, Cut(line) - 1), LAMBDA c : IF c \in {"$", "DQ"} THEN <<"\\", c>> ELSE <<c>>)
        \o SubSeq(line, Cut(line), Len(line))

(* What the outer shell would eat is escaped, a continuation stays live.   *)
EscapeDouble(c) == IF c \in {"$", "DQ", "\\"} THEN <<"\\", c>> ELSE <<c>>
DqEscapeLine(line) ==
    Spell(SubSeq(line, 1, Cut(line) - 1), EscapeDouble) \o SubSeq(line, Cut(line), Len(line))
DqEscape(ls) == Join([k \in DOMAIN ls |-> DqEscapeLine(ls[k])])

(* A command goes on to the first line that is not continued.              *)
RewriteSpan(ls, p) ==
    LET at     == Min({i \in DOMAIN ls[1] : ls[1][i] = Name})
        before == SubSeq(ls[1], 1, at - 1)
        span   == Lines(CommandHead(SubSeq(ls[1], at + 1, Len(ls[1])), p)) \o Tail(ls)
    IN  before \o IF Wrapped(p)
                   THEN <<"nix-shell", "SP", "--run", "SP", "DQ">> \o DqEscape(span) \o <<"DQ">>
                   ELSE Join(span)
RewriteCmd(t, p) ==
    LET ls     == Lines(t)
        End(i) == Min({k \in i..Len(ls) : ~Continued(ls[k])} \cup {Len(ls)})
        from[i \in 1..Len(ls) + 1] ==
            IF i > Len(ls) THEN <<>>
            ELSE IF Name \in ToSet(ls[i])
                 THEN <<RewriteSpan(SubSeq(ls, i, End(i)), p)>> \o from[End(i) + 1]
                 ELSE <<ls[i]>> \o from[i + 1]
    IN  Join(from[1])

(* The guide's own port of it, over a block of a page; an authoring block  *)
(* keeps to the local checkout.                                            *)
GuideRewrite(t, p) == RewriteCmd(t, p)
GuideBlock(block, p) ==
    GuideRewrite(block.text, IF block.local THEN [p EXCEPT !.source = "local"] ELSE p)

-----------------------------------------------------------------------------
(* The shell: a text into words.  It is not ok when something would be     *)
(* expanded, a quote stays open, or the command ends before the text.      *)
ShellStart == [mode |-> "bare", words |-> <<>>, word |-> <<>>, open |-> FALSE, ended |-> FALSE,
          ok |-> TRUE]
Put(s, t) == [s EXCEPT !.word = @ \o t, !.open = TRUE]
EndWord(s)  == IF s.open THEN [s EXCEPT !.words = Append(@, s.word), !.word = <<>>, !.open = FALSE]
             ELSE s
Bare(s, c) ==
    CASE c = "SP"  -> EndWord(s)
      [] c = "NL" -> [EndWord(s) EXCEPT !.ended = TRUE]
      [] c = "'"  -> [s EXCEPT !.mode = "single", !.open = TRUE]
      [] c = "DQ" -> [s EXCEPT !.mode = "double", !.open = TRUE]
      [] c = "\\" -> [s EXCEPT !.mode = "bare\\"]
      [] c = "$"  -> [s EXCEPT !.ok = FALSE]
      [] OTHER    -> Put(s, <<c>>)
Double(s, c) ==
    CASE c = "DQ" -> [s EXCEPT !.mode = "bare"]
      [] c = "\\" -> [s EXCEPT !.mode = "double\\"]
      [] c = "$"  -> [s EXCEPT !.ok = FALSE]
      [] OTHER    -> Put(s, <<c>>)
ReadChar(s, c) ==
    IF s.ended THEN [s EXCEPT !.ok = FALSE]
    ELSE CASE s.mode = "bare"     -> Bare(s, c)
           [] s.mode = "single"   -> IF c = "'" THEN [s EXCEPT !.mode = "bare"] ELSE Put(s, <<c>>)
           [] s.mode = "double"   -> Double(s, c)
           [] s.mode = "bare\\"   -> IF c = "NL" THEN [s EXCEPT !.mode = "bare"]
                                     ELSE [Put(s, <<c>>) EXCEPT !.mode = "bare"]
           [] s.mode = "double\\" -> [Put(s, CASE c = "NL" -> <<>>
                                               [] c \in {"$", "DQ", "\\"} -> <<c>>
                                               [] OTHER -> <<"\\", c>>) EXCEPT !.mode = "double"]
Shell(t) ==
    LET s == EndWord(Along(t, ShellStart, ReadChar)) IN
    IF s.ok /\ s.mode = "bare" THEN s.words ELSE <<>>

(* nix-shell hands its last argument to a second shell.                    *)
Argv(t) ==
    LET outer == Shell(t)
        words == IF outer # <<>> /\ outer[1] = <<"nix-shell">> THEN Shell(outer[Len(outer)]) ELSE outer
        first == {i \in DOMAIN words : words[i] \in Flags}
    IN  IF first = {} THEN <<>> ELSE SubSeq(words, Min(first), Len(words))

(* The runner: parse_value, then the type of the parameter.                *)
Refused == [type |-> "refused", text |-> <<>>]
ParseValue(t) ==
    LET s == Trim(t) IN
    CASE s = <<>>                          -> Refused
      [] s # <<>> /\ s[1] = "@"            -> [type |-> "file", text |-> Tail(s)]
      [] s # <<>> /\ s[1] = "[" /\ Json(s) = NoJson -> Refused
      [] OTHER -> IF Json(s) = NoJson THEN [type |-> "string", text |-> s] ELSE Json(s)
Expected == [str |-> "string", int |-> "number", list |-> "list"]
Bind(setArg, kind) ==
    LET v == ParseValue(SubSeq(setArg, 3, Len(setArg))) IN
    IF v.type = Expected[kind] THEN v ELSE Refused

(* What the form shows for a text that a reader typed.                     *)
Means(raw, kind) ==
    CASE kind = "str" -> [type |-> "string", text |-> raw]
      [] kind # "str" -> IF Json(raw).type = Expected[kind] THEN Json(raw) ELSE Refused

-----------------------------------------------------------------------------
CONSTANTS Texts, Setups      \* the texts a reader types, the setups tried

ASSUME TextsTyped == Texts \subseteq Seq(Chars)

(* Around the value: a directory that needs quoting, a second parameter, a *)
(* publication.                                                            *)
DataDir == <<"a", "SP", "'", "a">>
Publish == <<<<"a", "$">>, <<"a", "SP">>>>
Sent(raw, kind)   == <<SetParts(raw, kind), SetParts(<<"a">>, "str")>>
Copied(raw, kind) == BuildCmd(DataDir, Sent(raw, kind), Publish)
Posted(raw, kind) ==
    LET sets == BuildArgs(Sent(raw, kind)) IN
    <<<<"--data-dir">>, DataDir, <<"--set">>, sets[1], <<"--set">>, sets[2],
      <<"--publish">>, Publish[1], <<"--profile">>, Publish[2]>>

Exempt(raw, kind, p) == Wrapped(p) /\ "NL" \in ToSet(SetParts(raw, kind).value)
SameFor(raw, kind, p) ==
    LET text == Copied(raw, kind)
        line == RewriteCmd(text, p)
    IN  /\ Bind(BuildArgs(Sent(raw, kind))[1], kind) = Means(raw, kind)
        /\ Exempt(raw, kind, p) \/ Argv(line) = Posted(raw, kind)
        /\ GuideBlock([text |-> <<"a", "NL">> \o text \o <<"NL", "a">>, local |-> FALSE], p)
               = <<"a", "NL">> \o line \o <<"NL", "a">>

(* Each setup, and whether every command pasted under it does what the     *)
(* button does.                                                            *)
Pasted == {<<p, \A raw \in Texts, kind \in Kinds : SameFor(raw, kind, p)>> : p \in Setups}
=============================================================================
