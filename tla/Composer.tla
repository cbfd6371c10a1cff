------------------------------ MODULE Composer ------------------------------
(***************************************************************************)
(* The composer of an experiment page: the form, the command it shows, the *)
(* credentials and the run tab, in the tabs of one browser, with the guide *)
(* and a terminal beside them.  The form decides what is routed to the     *)
(* credential set and what is missing, the list of the credentials whether *)
(* there is a run tab, and both whether the button is enabled.             *)
(***************************************************************************)
EXTENDS BuilderForm, CommandPrefs, Credentials, Launcher

CONSTANTS
    Segments(_),    \* a model id's parts between its slashes
    MockPrefixes,   \* the first parts of the mock models
    CredentialSet,  \* the credential set whose profiles Credentials models
    MaxActs         \* bound: what users do, commands killed, the executor ended

VARIABLE acts
vars == <<formVars, prefVars, credVars, launchVars, acts>>

Init == FormInit /\ PrefInit /\ CredInit /\ LaunchInit /\ acts = 0

(* The models at model positions of what the form passes on; an untouched  *)
(* parameter at its declared default is not among them.                    *)
ModelsIn(t, p) ==
    LET v == Seeded(t, p) IN
    CASE v \in {Unset, Blank}    -> {}
      [] Decl[p].kind = "llm"    -> {v}
      [] Decl[p].kind = "rows"   -> UNION {{v[i][f] : f \in {g \in DOMAIN v[i] :
                                                   Decl[p].schema[g].kind = "llm"}} : i \in DOMAIN v}
      [] Decl[p].kind = "list"   -> IF Decl[p].of = "llm" THEN {v[i] : i \in DOMAIN v} ELSE {}
      [] OTHER                   -> {}
(* The set of an id: its first part, the service's for one that speaks the *)
(* protocol of another; an id without a provider and a mock have none.     *)
SectionFor(id) ==
    LET parts == Segments(id) IN
    IF Len(parts) < 2 \/ parts[1] \in MockPrefixes \cup {Blank} THEN None
    ELSE LET set == parts[IF parts[1] = "openai-api" THEN 2 ELSE 1]
         IN  IF set = Blank THEN None ELSE set
SetsUsed(t) == \E p \in Params : \E id \in ModelsIn(t, p) : SectionFor(id) = CredentialSet

-----------------------------------------------------------------------------
FormOnly(A) == A /\ UNCHANGED <<prefVars, credVars, launchVars>>
PrefOnly(A) == A /\ UNCHANGED <<formVars, credVars, launchVars>>
CredOnly(A) == A /\ UNCHANGED <<formVars, prefVars, launchVars>>
RunOnly(A)  == A /\ UNCHANGED <<formVars, prefVars, credVars>>

OpenPage(t, s) == Mount(t) /\ Probe(t, s) /\ UNCHANGED <<prefVars, launchVars>>
LeavePage(t)   == Leave(t) /\ ClosePage(t) /\ Unmount(t) /\ UNCHANGED prefVars

(* The button, with the whole gate.                                        *)
Press(t, c) ==
    /\ Listed(t) /\ Launch(t, c)
    /\ Missing(t) = {} /\ (SetsUsed(t) => ~Unresolved(t))

(* A failed list takes the run tab away, and its card with it.             *)
AnswerPage(s) ==
    /\ Answer(s)
    /\ IF \E t \in Tabs : Listed(t) /\ view'[t].at = "gone"
       THEN \E t \in Tabs : Listed(t) /\ view'[t].at = "gone" /\ Unmount(t)
       ELSE UNCHANGED launchVars
    /\ UNCHANGED <<formVars, prefVars>>

Ask ==
    \/ \E s \in Slots : Terminal(s)
    \/ \E t \in Tabs, s \in Slots : SetsUsed(t) /\ (SaveProfile(t, s) \/ Remember(t, s))
Act ==
    \/ \E t \in Tabs : FormOnly(Edit(t)) \/ LeavePage(t) \/ CredOnly(SetsUsed(t) /\ Pick(t))
    \/ CredOnly(Ask) \/ \E s \in Slots : CredOnly(Kill(s))
    \/ PrefOnly(ChoosePrefs)
    \/ \E t \in Tabs, c \in Calls : RunOnly(Press(t, c) \/ StopPanel(t, c))
    \/ RunOnly(ExecutorExits \/ \E c \in Calls : JobsPage(c))
User == acts < MaxActs /\ acts' = acts + 1 /\ Act
Program ==
    /\ \/ \E t \in Tabs, s \in Slots : OpenPage(t, s)
       \/ \E s \in Slots : CredOnly(Load(s) \/ Truncate(s) \/ Write(s)) \/ AnswerPage(s)
       \/ \E g \in GuidePages : PrefOnly(GuideOpen(g))
       \/ \E t \in Tabs : PrefOnly(OnStorage(t))
       \/ RunOnly(Machine)
       \/ \E c \in Calls : RunOnly(Lose(c))
    /\ UNCHANGED acts
Next == User \/ Program
Spec == Init /\ [][Next]_vars

-----------------------------------------------------------------------------
(* The shapes of the four parts, and what ties them: a page's list, card   *)
(* and requests belong to an open form.                                    *)
TypeOK ==
    /\ open \in [Tabs -> BOOLEAN] /\ \A t \in Tabs : DOMAIN vals[t] = Params
    /\ LoadPrefs(stored) \in Prefs /\ cached \in [Tabs \cup GuidePages -> Prefs]
    /\ store \in [Profiles -> SUBSET TemplateRows] /\ remembered \in Profiles \cup {NoProfile}
    /\ phase \in [Jobs -> {"absent", "waiting", "active", "over"}]
    /\ \A t \in Tabs :
          /\ open[t] <=> view[t].at # "closed"
          /\ panel[t].job # 0 => Listed(t)
          /\ panel[t].job # 0 => phase[panel[t].job] # "absent"
=============================================================================
