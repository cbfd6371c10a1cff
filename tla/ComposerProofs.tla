--------------------------- MODULE ComposerProofs ---------------------------
(***************************************************************************)
(* Theorems about the composer: of the run form, for every manifest whose  *)
(* selectors are plain, every number of tabs and every text; of the setup  *)
(* record for every number of pages, and of the commands shown under it    *)
(* for every text; of the credential store for every number of commands,   *)
(* profiles and fields; of the run tab for every number of pages, jobs and *)
(* requests on their way.  The composer runs its parts unchanged: what is  *)
(* proved of each holds of them together.                                  *)
(***************************************************************************)
EXTENDS Composer, CommandLineProofs, FiniteSetTheorems

-----------------------------------------------------------------------------
(* The run form.                                                           *)

(* Under these selectors an edit vals was made: what under remembers of a  *)
(* dependant's edit is what its selector stands for in the same edits.     *)
Follows(edits, memo, d) ==
    Selector(d) # None /\ edits[d] # Unset
        => memo[d] = EffectiveStr(Selector(d), edits[Selector(d)])

(* The draft follows as well: the next form starts from it.                *)
FormShape ==
    /\ open \in [Tabs -> BOOLEAN]
    /\ DOMAIN vals = Tabs /\ \A t \in Tabs : DOMAIN vals[t] = Params
    /\ DOMAIN draft = Params
    /\ DOMAIN under = Tabs \cup {"draft"}
FormIInv ==
    /\ FormShape
    /\ \A t \in Tabs : open[t] => \A d \in Params : Follows(vals[t], under[t], d)
    /\ \A d \in Params : Follows(draft, under["draft"], d)

(* What the form shows for a selector does not depend on the last model.   *)
LEMMA SelectorShown ==
    ASSUME NEW t \in Tabs, NEW d \in Params, Selector(d) # None
    PROVE  /\ Selector(d) \in Params /\ Selector(Selector(d)) = None
           /\ Shown(t, Selector(d)) = EffectiveStr(Selector(d), vals[t][Selector(d)])
  BY SelectorsPlain DEF Shown, Seeded

LEMMA FormInvImplies == FormIInv => DependantFollows
<1> SUFFICES ASSUME FormIInv, NEW t \in Tabs, NEW d \in Params,
                    open[t], Selector(d) # None, vals[t][d] # Unset
             PROVE  under[t][d] = Shown(t, Selector(d))
  BY DEF DependantFollows
<1> QED
  BY SelectorShown DEF FormIInv, Follows

LEMMA FormInitFollows == FormInit => FormIInv
  BY DEF FormInit, FormIInv, FormShape, Follows, NoEdits

(* One edit of one parameter: its dependants lose theirs, and the edit of  *)
(* a dependant is noted with what its selector shows.                      *)
LEMMA EditedFollows ==
    ASSUME FormIInv, NEW t \in Tabs, NEW p \in Params, NEW v, open[t],
           NEW now, now = [q \in Params |-> IF q = p /\ Selector(p) # None
                                            THEN Shown(t, Selector(p)) ELSE under[t][q]]
    PROVE  \A d \in Params : Follows(Edited(t, p, v), now, d)
<1> SUFFICES ASSUME NEW d \in Params, Selector(d) # None, Edited(t, p, v)[d] # Unset
             PROVE  now[d] = EffectiveStr(Selector(d), Edited(t, p, v)[Selector(d)])
  BY DEF Follows
<1> DEFINE s == Selector(d)
<1>1. s \in Params /\ Selector(s) = None /\ Shown(t, s) = EffectiveStr(s, vals[t][s])
  BY SelectorShown
<1>2. s # p
  BY DEF Edited
<1>3. Edited(t, p, v)[s] = vals[t][s]
  BY <1>1, <1>2, NoneIsNoParam DEF Edited
<1>4. CASE d = p
  BY <1>1, <1>3, <1>4
<1>5. CASE d # p
  <2>1. now[d] = under[t][d] /\ Edited(t, p, v)[d] = vals[t][d]
    BY <1>2, <1>5 DEF Edited
  <2>2. under[t][d] = EffectiveStr(s, vals[t][s])
    BY <2>1 DEF FormIInv, Follows
  <2> QED
    BY <2>1, <2>2, <1>3
<1> QED
  BY <1>4, <1>5

LEMMA SetParamFollows ==
    ASSUME FormIInv, NEW t \in Tabs, NEW p \in Params, NEW v, NEW last, SetParam(t, p, v, last)
    PROVE  FormIInv'
<1> DEFINE now == [q \in Params |-> IF q = p /\ Selector(p) # None
                                    THEN Shown(t, Selector(p)) ELSE under[t][q]]
<1>1. /\ open[t] /\ open' = open
      /\ vals' = [vals EXCEPT ![t] = Edited(t, p, v)] /\ draft' = Edited(t, p, v)
      /\ under' = [x \in Tabs \cup {"draft"} |-> IF x \in {t, "draft"} THEN now ELSE under[x]]
  BY DEF SetParam
<1>2. \A d \in Params : Follows(Edited(t, p, v), now, d)
  BY <1>1, EditedFollows
<1>3. FormShape'
  BY <1>1 DEF FormIInv, FormShape, Edited
<1>4. \A d \in Params : Follows(draft, under["draft"], d)'
  BY <1>1, <1>2 DEF Follows
<1>5. ASSUME NEW u \in Tabs, open'[u] PROVE \A d \in Params : Follows(vals[u], under[u], d)'
  <2>1. CASE u = t
    <3>1. vals'[u] = Edited(t, p, v) /\ under'[u] = now
      BY <1>1, <2>1 DEF FormIInv, FormShape
    <3> QED
      BY <3>1, <1>2 DEF Follows
  <2>2. CASE u # t
    <3>1. vals'[u] = vals[u] /\ under'[u] = under[u] /\ open[u]
      BY <1>1, <1>5, <2>2, DraftIsNoTab DEF FormIInv, FormShape
    <3> QED
      BY <3>1 DEF FormIInv, Follows
  <2> QED
    BY <2>1, <2>2
<1> QED
  BY <1>3, <1>4, <1>5 DEF FormIInv

(* Every widget of the form sets one parameter.                            *)
LEMMA WidgetSets ==
    ASSUME NEW t \in Tabs, NEW p \in Params,
           \/ Type(t, p) \/ EditField(t, p) \/ EditCell(t, p)
           \/ AddRow(t, p) \/ RemoveRow(t, p) \/ EditList(t, p)
    PROVE  \E v, last : SetParam(t, p, v, last)
<1>1. CASE Type(t, p)
  BY <1>1 DEF Type
<1>2. CASE EditField(t, p)
  BY <1>2 DEF EditField
<1>3. CASE EditCell(t, p)
  BY <1>3 DEF EditCell
<1>4. CASE AddRow(t, p)
  BY <1>4 DEF AddRow
<1>5. CASE RemoveRow(t, p)
  BY <1>5 DEF RemoveRow
<1>6. CASE EditList(t, p)
  BY <1>6 DEF EditList
<1> QED
  BY <1>1, <1>2, <1>3, <1>4, <1>5, <1>6

LEMMA MountFollows == ASSUME FormIInv, NEW t \in Tabs, Mount(t) PROVE FormIInv'
<1>1. FormShape'
  BY DEF FormIInv, FormShape, Mount
<1>2. \A d \in Params : Follows(draft, under["draft"], d)'
  BY DraftIsNoTab DEF FormIInv, FormShape, Mount, Follows
<1>3. ASSUME NEW u \in Tabs, open'[u] PROVE \A d \in Params : Follows(vals[u], under[u], d)'
  <2>1. CASE u = t
    <3>1. vals'[u] = draft /\ under'[u] = under["draft"]
      BY <2>1 DEF FormIInv, FormShape, Mount
    <3> QED
      BY <3>1 DEF FormIInv, Follows
  <2>2. CASE u # t
    <3>1. vals'[u] = vals[u] /\ under'[u] = under[u] /\ open[u]
      BY <1>3, <2>2 DEF FormIInv, FormShape, Mount
    <3> QED
      BY <3>1 DEF FormIInv, Follows
  <2> QED
    BY <2>1, <2>2
<1> QED
  BY <1>1, <1>2, <1>3 DEF FormIInv

LEMMA ResetFollows == ASSUME FormIInv, NEW t \in Tabs, Reset(t) PROVE FormIInv'
<1>1. FormShape'
  BY DEF FormIInv, FormShape, Reset, NoEdits
<1>2. \A d \in Params : Follows(draft, under["draft"], d)'
  BY DEF Reset, NoEdits, Follows
<1>3. ASSUME NEW u \in Tabs, open'[u] PROVE \A d \in Params : Follows(vals[u], under[u], d)'
  <2>1. CASE u = t
    BY <2>1 DEF FormIInv, FormShape, Reset, NoEdits, Follows
  <2>2. CASE u # t
    BY <1>3, <2>2 DEF FormIInv, FormShape, Reset, Follows
  <2> QED
    BY <2>1, <2>2
<1> QED
  BY <1>1, <1>2, <1>3 DEF FormIInv

LEMMA LeaveFollows == ASSUME FormIInv, NEW t \in Tabs, Leave(t) PROVE FormIInv'
  BY DEF FormIInv, FormShape, Leave, Follows

LEMMA FormStepFollows == FormIInv /\ [FormNext]_formVars => FormIInv'
<1> SUFFICES ASSUME FormIInv, [FormNext]_formVars PROVE FormIInv'
  OBVIOUS
<1>1. CASE UNCHANGED formVars
  BY <1>1 DEF formVars, FormIInv, FormShape, Follows
<1>2. ASSUME NEW t \in Tabs, Mount(t) PROVE FormIInv'
  BY <1>2, MountFollows
<1>3. ASSUME NEW t \in Tabs, Leave(t) PROVE FormIInv'
  BY <1>3, LeaveFollows
<1>4. ASSUME NEW t \in Tabs, Edit(t) PROVE FormIInv'
  <2>1. CASE Reset(t)
    BY <2>1, ResetFollows
  <2>2. CASE SetPublish(t)
    BY <2>2 DEF SetPublish, FormIInv, FormShape, Follows
  <2>3. ASSUME NEW p \in Params,
               \/ Type(t, p) \/ EditField(t, p) \/ EditCell(t, p)
               \/ AddRow(t, p) \/ RemoveRow(t, p) \/ EditList(t, p)
        PROVE  FormIInv'
    BY <2>3, WidgetSets, SetParamFollows
  <2> QED
    BY <1>4, <2>1, <2>2, <2>3 DEF Edit
<1> QED
  BY <1>1, <1>2, <1>3, <1>4 DEF FormNext

(* A dependant's edit was made for the value its selector shows, in every  *)
(* tab and whatever another tab left in the draft (builder.tsx:500-505).   *)
THEOREM DependantAlwaysFollows == FormSpec => []DependantFollows
<1>1. FormSpec => []FormIInv
  BY FormInitFollows, FormStepFollows, PTL DEF FormSpec
<1> QED
  BY <1>1, FormInvImplies, PTL

-----------------------------------------------------------------------------
(* The setup record.                                                       *)

(* The record is empty or whole; a page told of every write has it.        *)
PrefInv ==
    /\ stored = <<>> \/ stored \in Prefs
    /\ cached \in [Tabs \cup GuidePages -> Prefs]
    /\ told \in [Tabs -> Seq(Prefs)]
    /\ PrefsAgree

LEMMA DefaultsTyped == DEFAULTS \in Prefs
  BY DEF DEFAULTS, Prefs

(* A whole record hides the defaults, an empty one shows them.             *)
LEMMA LoadWhole == ASSUME NEW p \in Prefs PROVE LoadPrefs(p) = p
<1>1. DOMAIN p = DOMAIN DEFAULTS
  BY DEF Prefs, DEFAULTS
<1>2. LoadPrefs(p) = [x \in DOMAIN p |-> p[x]]
  BY <1>1 DEF LoadPrefs, Overwritten
<1>3. p = [x \in DOMAIN p |-> p[x]]
  BY DEF Prefs
<1> QED
  BY <1>2, <1>3
LEMMA LoadEmpty == LoadPrefs(<<>>) = DEFAULTS
<1>1. DOMAIN <<>> = {}
  OBVIOUS
<1>2. LoadPrefs(<<>>) = [x \in DOMAIN DEFAULTS |-> DEFAULTS[x]]
  BY <1>1 DEF LoadPrefs, Overwritten
<1> QED
  BY <1>2 DEF DEFAULTS
LEMMA LoadTyped ==
    ASSUME NEW r, r = <<>> \/ r \in Prefs
    PROVE  LoadPrefs(r) \in Prefs /\ GuideLoad(r) = LoadPrefs(r)
  BY DefaultsTyped, LoadWhole, LoadEmpty DEF LoadPrefs, GuideLoad

LEMMA ChoiceTyped == ASSUME NEW p \in Prefs PROVE MenuChoices(p) \subseteq Prefs
<1> DEFINE Toggled == {[p EXCEPT !.latest = ~@], [p EXCEPT !.flakes = ~@],
                       [p EXCEPT !.registry = ~@], [p EXCEPT !.nixRun = ~@]}
<1>1. \A x \in {"github", "local"} : [p EXCEPT !.source = x] \in Prefs
  BY DEF Prefs
<1>2. \A x \in {"nix-build", "flakes", "nix-run"} : [p EXCEPT !.mode = x] \in Prefs
  BY DEF Prefs
<1>3. [p EXCEPT !.latest = ~@] \in Prefs
  BY DEF Prefs
<1>4. [p EXCEPT !.flakes = ~@] \in Prefs
  BY DEF Prefs
<1>5. [p EXCEPT !.registry = ~@] \in Prefs
  BY DEF Prefs
<1>6. [p EXCEPT !.nixRun = ~@] \in Prefs
  BY DEF Prefs
<1>7. \A c \in MenuChoices(p) :
         \/ \E x \in {"github", "local"} : c = [p EXCEPT !.source = x]
         \/ \E x \in {"nix-build", "flakes", "nix-run"} : c = [p EXCEPT !.mode = x]
         \/ c \in Toggled
  BY DEF MenuChoices
<1>8. Toggled \subseteq Prefs
  BY <1>3, <1>4, <1>5, <1>6
<1> HIDE DEF Toggled
<1> QED
  BY <1>1, <1>2, <1>7, <1>8

LEMMA PrefInitAgrees == PrefInit => PrefInv
  BY DefaultsTyped, LoadEmpty DEF PrefInit, PrefInv, PrefsAgree

(* The page that chooses has what it stores; the others are told, unless   *)
(* the record does not change.                                             *)
LEMMA SaveAgrees ==
    ASSUME PrefInv, NEW page \in Tabs \cup GuidePages, NEW p \in Prefs, Save(page, p)
    PROVE  PrefInv'
<1> USE DEF PrefInv
<1>1. /\ cached' = [cached EXCEPT ![page] = p] /\ stored' = p
      /\ told' = [w \in Tabs |-> IF w # page /\ p # stored THEN Append(told[w], p) ELSE told[w]]
  BY DEF Save
<1>2. told' \in [Tabs -> Seq(Prefs)]
  BY <1>1
<1>3. ASSUME NEW w \in Tabs, told'[w] = <<>> PROVE cached'[w] = LoadPrefs(stored')
  <2>1. CASE w = page
    BY <1>1, <2>1, LoadWhole
  <2>2. CASE w # page
    <3>a. told[w] \in Seq(Prefs)
      OBVIOUS
    <3>b. Append(told[w], p) # <<>>
      BY <3>a
    <3>1. p = stored /\ told[w] = <<>>
      BY <1>1, <1>3, <2>2, <3>b
    <3>2. cached[w] = LoadPrefs(stored)
      BY <3>1 DEF PrefsAgree
    <3> QED
      BY <1>1, <2>2, <3>1, <3>2
  <2> QED
    BY <2>1, <2>2
<1> QED
  BY <1>1, <1>2, <1>3 DEF PrefsAgree

(* A page reads the record.                                                *)
LEMMA ReadAgrees ==
    ASSUME PrefInv, NEW page \in Tabs \cup GuidePages,
           cached' = [cached EXCEPT ![page] = LoadPrefs(stored)], stored' = stored,
           told' \in [Tabs -> Seq(Prefs)],
           \A w \in Tabs : w # page => told'[w] = told[w]
    PROVE  PrefInv'
  BY LoadTyped DEF PrefInv, PrefsAgree

LEMMA PrefStepAgrees == PrefInv /\ [PrefNext]_prefVars => PrefInv'
<1> SUFFICES ASSUME PrefInv, [PrefNext]_prefVars PROVE PrefInv'
  OBVIOUS
<1>1. CASE UNCHANGED prefVars
  BY <1>1 DEF prefVars, PrefInv, PrefsAgree
<1>2. ASSUME NEW w \in Tabs, SetCmdPrefs(w) PROVE PrefInv'
  <2>1. PICK p \in MenuChoices(cached[w]) : Save(w, p)
    BY <1>2 DEF SetCmdPrefs
  <2> QED
    BY <2>1, ChoiceTyped, SaveAgrees DEF PrefInv
<1>3. ASSUME NEW g \in GuidePages, GuideUpdate(g) PROVE PrefInv'
  <2>1. PICK p \in MenuChoices(cached[g]) : Save(g, p)
    BY <1>3 DEF GuideUpdate, GuideChoices
  <2> QED
    BY <2>1, ChoiceTyped, SaveAgrees DEF PrefInv
<1>4. ASSUME NEW g \in GuidePages, GuideOpen(g) PROVE PrefInv'
  BY <1>4, LoadTyped, ReadAgrees DEF GuideOpen, PrefInv
<1>5. ASSUME NEW w \in Tabs, OnStorage(w) PROVE PrefInv'
  <2>1. told' \in [Tabs -> Seq(Prefs)] /\ \A x \in Tabs : x # w => told'[x] = told[x]
    BY <1>5 DEF OnStorage, PrefInv
  <2> QED
    BY <1>5, <2>1, ReadAgrees DEF OnStorage
<1> QED
  BY <1>1, <1>2, <1>3, <1>4, <1>5 DEF PrefNext, ChoosePrefs

(* A page of the web app that has been told of every write shows commands  *)
(* for the setup that is stored (cmd-prefs.ts:1-5).                        *)
THEOREM PrefsAlwaysAgree == PrefSpec => []PrefsAgree
<1>1. PrefSpec => []PrefInv
  BY PrefInitAgrees, PrefStepAgrees, PTL DEF PrefSpec
<1>2. PrefInv => PrefsAgree
  BY DEF PrefInv
<1> QED
  BY <1>1, <1>2, PTL

(* Whatever a reader typed, of any length, and for every kind of           *)
(* parameter: under the setup that a page shows, and each that its menu    *)
(* offers, the pasted command does what the button does, and the guide's   *)
(* page is rewritten to the same command (cmd-build.ts:70-76,              *)
(* cmd-rewrite.ts:1-6 and 91-97).                                          *)
THEOREM CommandAlwaysSame == PrefSpec => []SameCommand
<1>1. SameCommand
  BY PastedSame, TextsTyped DEF SameCommand
<1> QED
  BY <1>1, PTL

-----------------------------------------------------------------------------
(* The credential store.                                                   *)

MaybeProfile == Profiles \cup {NoProfile}
Stores == [Profiles -> SUBSET TemplateRows]
CommandSet ==
    [kind : {"idle", "list", "set", "remove", "remember"},
     by : Tabs \cup {Nobody, "terminal"}, profile : MaybeProfile,
     put : SUBSET TemplateRows,
     pc : {"idle", "load", "truncate", "write", "done", "failed"},
     read : Stores, had : MaybeProfile]
ViewSet == [at : {"closed", "probing", "gone", "listed"}, profiles : SUBSET Profiles,
            remembered : MaybeProfile]

(* The shapes of the store, the commands and the pages.                    *)
CredTyped ==
    /\ store \in Stores /\ saved \in Stores
    /\ remembered \in MaybeProfile
    /\ cmd \in [Slots -> CommandSet]
    /\ view \in [Tabs -> ViewSet]
    /\ choice \in [Tabs -> MaybeProfile \cup {"new"}]
    /\ lost \in BOOLEAN

(* Unless something was lost, one writing command is between its load and  *)
(* the end of its write; what it read, and the store while it has not      *)
(* truncated it, has everything that was saved.                            *)
OneInFlight   == \A r, s \in Slots : InFlight(r) /\ InFlight(s) => r = s
ReadHasSaved  == \A s \in Slots : InFlight(s) => \A p \in Profiles : saved[p] \subseteq cmd[s].read[p]
StoreHasSaved == Writing \/ \A p \in Profiles : saved[p] \subseteq store[p]
Kept == lost \/ (OneInFlight /\ ReadHasSaved /\ StoreHasSaved)
CredIInv == CredTyped /\ Kept

LEMMA KeptImplies == CredIInv => ProfileKept
  BY DEF CredIInv, Kept, StoreHasSaved, ProfileKept

LEMMA EmptyTyped == Empty \in Stores
  BY DEF Empty, Stores
LEMMA CommandTyped ==
    ASSUME NEW kind \in {"list", "set", "remove", "remember"},
           NEW by \in Tabs \cup {"terminal"},
           NEW profile \in MaybeProfile, NEW put \in SUBSET TemplateRows
    PROVE  Command(kind, by, profile, put) \in CommandSet
  BY EmptyTyped DEF Command, CommandSet, MaybeProfile
LEMMA IdleTyped == Idle \in CommandSet /\ Idle.kind = "idle"
  BY EmptyTyped DEF Idle, Command, CommandSet, MaybeProfile
LEMMA ListTyped == ASSUME NEW t \in Tabs PROVE ListFor(t) \in CommandSet
  BY CommandTyped DEF ListFor, MaybeProfile

LEMMA CredInitKept == CredInit => CredIInv
<1> SUFFICES ASSUME CredInit PROVE CredIInv
  OBVIOUS
<1>1. CredTyped
  BY EmptyTyped, IdleTyped DEF CredInit, CredTyped, View, ViewSet, MaybeProfile
<1>2. \A s \in Slots : ~InFlight(s)
  BY IdleTyped DEF CredInit, InFlight, Writes
<1>3. \A p \in Profiles : saved[p] \subseteq store[p]
  BY DEF CredInit
<1> QED
  BY <1>1, <1>2, <1>3 DEF CredIInv, Kept, OneInFlight, ReadHasSaved, StoreHasSaved

(* The profile a page proposes is one it was told of.                      *)
LEMMA SelectedTyped ==
    ASSUME CredTyped, NEW t \in Tabs PROVE Selected(t) \in MaybeProfile \cup {"new"}
<1>1. view[t].profiles \subseteq Profiles /\ view[t].remembered \in MaybeProfile
      /\ choice[t] \in MaybeProfile \cup {"new"}
  BY DEF CredTyped, ViewSet
<1>2. ASSUME Cardinality(view[t].profiles) = 1
      PROVE  (CHOOSE p \in view[t].profiles : TRUE) \in Profiles
  <2>1. view[t].profiles # {}
    BY <1>2, FS_EmptySet
  <2> QED
    BY <2>1, <1>1
<1>3. InitialProfile(t) \in MaybeProfile
  BY <1>1, <1>2, DefaultIsProfile DEF InitialProfile, MaybeProfile
<1> QED
  BY <1>1, <1>3 DEF Selected

-----------------------------------------------------------------------------
(* A step that neither writes nor moves a writing command changes nothing  *)
(* of what is kept.                                                        *)
LEMMA KeptStays ==
    ASSUME Kept, store' = store, saved' = saved, lost' = lost,
           \A s \in Slots : Writes(s)' /\ cmd'[s].pc \in {"truncate", "write"} => InFlight(s),
           \A s \in Slots : InFlight(s) /\ cmd[s].pc = "write" => InFlight(s)' /\ cmd'[s].pc = "write",
           \A s \in Slots : InFlight(s) => cmd'[s].read = cmd[s].read
    PROVE  Kept'
<1>1. CASE lost
  BY <1>1 DEF Kept
<1>2. CASE OneInFlight /\ ReadHasSaved /\ StoreHasSaved
  <2>1. \A s \in Slots : InFlight(s)' => InFlight(s)
    BY DEF InFlight
  <2>2. OneInFlight'
    BY <1>2, <2>1 DEF OneInFlight
  <2>3. ReadHasSaved'
    BY <1>2, <2>1 DEF ReadHasSaved
  <2>4. StoreHasSaved'
    BY <1>2 DEF StoreHasSaved, Writing, InFlight
  <2> QED
    BY <2>2, <2>3, <2>4 DEF Kept
<1> QED
  BY <1>1, <1>2 DEF Kept

(* A new command waits for its load.                                       *)
LEMMA StartKept ==
    ASSUME CredIInv, NEW s \in Slots, NEW c \in CommandSet, c.pc = "load", Start(s, c),
           UNCHANGED <<store, saved, lost, remembered>>,
           view' \in [Tabs -> ViewSet], choice' \in [Tabs -> MaybeProfile \cup {"new"}]
    PROVE  CredIInv'
<1>1. cmd' = [cmd EXCEPT ![s] = c] /\ cmd \in [Slots -> CommandSet] /\ cmd[s].pc = "idle"
  BY EmptyTyped DEF Start, CredIInv, CredTyped, Idle, Command
<1>2. CredTyped'
  BY <1>1 DEF CredIInv, CredTyped
<1>3. \A r \in Slots : cmd'[r] = IF r = s THEN c ELSE cmd[r]
  BY <1>1
<1>4. Kept'
  BY <1>1, <1>3, KeptStays DEF CredIInv, InFlight, Writes
<1> QED
  BY <1>2, <1>4 DEF CredIInv

LEMMA AskKept ==
    ASSUME CredIInv, NEW s \in Slots,
           \/ Terminal(s)
           \/ \E t \in Tabs : Probe(t, s) \/ SaveProfile(t, s) \/ Remember(t, s)
    PROVE  CredIInv'
<1> USE DEF CredIInv
<1>1. \A kind, by, profile, put : Command(kind, by, profile, put).pc = "load"
  BY DEF Command
<1>2. CASE Terminal(s)
  <2>1. PICK c \in CommandSet : c.pc = "load" /\ Start(s, c)
    BY <1>1, <1>2, CommandTyped DEF Terminal, MaybeProfile
  <2> QED
    BY <1>2, <2>1, StartKept DEF Terminal, CredTyped
<1>3. ASSUME NEW t \in Tabs, Probe(t, s) PROVE CredIInv'
  <2>1. view' \in [Tabs -> ViewSet]
    BY <1>3 DEF Probe, CredTyped, View, ViewSet, MaybeProfile
  <2>2. ListFor(t).pc = "load"
    BY <1>1 DEF ListFor
  <2> QED
    BY <1>3, <2>1, <2>2, ListTyped, StartKept DEF Probe, CredTyped
<1>4. ASSUME NEW t \in Tabs, SaveProfile(t, s) PROVE CredIInv'
  <2>1. PICK c \in CommandSet : c.pc = "load" /\ Start(s, c)
    BY <1>1, <1>4, CommandTyped DEF SaveProfile, MaybeProfile
  <2> QED
    BY <1>4, <2>1, StartKept DEF SaveProfile, CredTyped
<1>5. ASSUME NEW t \in Tabs, Remember(t, s) PROVE CredIInv'
  <2>1. Command("remember", t, Selected(t), {}) \in CommandSet
    BY <1>5, SelectedTyped, CommandTyped DEF Remember
  <2> QED
    BY <1>1, <1>5, <2>1, StartKept DEF Remember, CredTyped
<1> QED
  BY <1>2, <1>3, <1>4, <1>5

LEMMA PageKept == ASSUME CredIInv, NEW t \in Tabs, Pick(t) \/ ClosePage(t) PROVE CredIInv'
<1> USE DEF CredIInv
<1>1. CASE Pick(t)
  <2>1. choice' \in [Tabs -> MaybeProfile \cup {"new"}]
    BY <1>1 DEF Pick, CredTyped, ViewSet, MaybeProfile
  <2>2. CredTyped' 
    BY <1>1, <2>1 DEF Pick, CredTyped
  <2>3. Kept'
    BY <1>1, KeptStays DEF Pick, InFlight, Writes
  <2> QED
    BY <2>2, <2>3
<1>2. CASE ClosePage(t)
  <2>1. view' \in [Tabs -> ViewSet] /\ choice' \in [Tabs -> MaybeProfile \cup {"new"}]
    BY <1>2 DEF ClosePage, CredTyped, View, ViewSet, MaybeProfile
  <2>2. \A s \in Slots : /\ cmd'[s] \in CommandSet
                         /\ cmd'[s].kind = cmd[s].kind /\ cmd'[s].pc = cmd[s].pc
                         /\ cmd'[s].read = cmd[s].read
    BY <1>2 DEF ClosePage, CredTyped, CommandSet
  <2>3. CredTyped'
    BY <1>2, <2>1, <2>2 DEF ClosePage, CredTyped
  <2>4. Kept'
    BY <1>2, <2>2, KeptStays DEF ClosePage, InFlight, Writes
  <2> QED
    BY <2>3, <2>4
<1> QED
  BY <1>1, <1>2

-----------------------------------------------------------------------------
(* The steps of a command.                                                 *)
LEMMA LoadKept == ASSUME CredIInv, NEW s \in Slots, Load(s) PROVE CredIInv'
<1> USE DEF CredIInv
<1>1. /\ cmd \in [Slots -> CommandSet] /\ store \in Stores /\ remembered \in MaybeProfile
      /\ cmd[s].pc = "load" /\ cmd[s] \in CommandSet
  BY DEF Load, CredTyped
<1>2. Step(cmd[s]) \in {"failed", "done", "truncate"}
  BY DEF Step
<1>3. /\ cmd' = [cmd EXCEPT ![s] = cmd'[s]] /\ cmd'[s] \in CommandSet
      /\ cmd'[s].kind = cmd[s].kind /\ cmd'[s].pc = Step(cmd[s]) /\ cmd'[s].read = store
  BY <1>1, <1>2 DEF Load, CommandSet
<1>4. CredTyped'
  BY <1>1, <1>3 DEF Load, CredTyped
<1>5. \A r \in Slots \ {s} : cmd'[r] = cmd[r]
  BY <1>1, <1>3
<1>6. ~InFlight(s)
  BY <1>1 DEF InFlight
<1>7. CASE ~Writes(s)
  <2>1. lost' = lost /\ store' = store /\ saved' = saved
    BY <1>7 DEF Load, CredTyped
  <2>2. ~Writes(s)'
    BY <1>3, <1>7 DEF Writes
  <2>3. \A r \in Slots : InFlight(r) => r # s /\ cmd'[r] = cmd[r]
    BY <1>5, <1>6
  <2>4. \A r \in Slots : Writes(r)' /\ cmd'[r].pc \in {"truncate", "write"} => InFlight(r)
    BY <1>5, <2>2 DEF InFlight, Writes
  <2>5. \A r \in Slots : InFlight(r) => InFlight(r)' /\ cmd'[r] = cmd[r]
    BY <2>3 DEF InFlight, Writes
  <2>6. Kept'
    BY <2>1, <2>4, <2>5, KeptStays
  <2> QED
    BY <1>4, <2>6
<1>8. CASE Writes(s) /\ \E r \in Slots \ {s} : InFlight(r)
  BY <1>4, <1>8 DEF Load, Kept
<1>9. CASE ~lost /\ \A r \in Slots : ~InFlight(r)
  <2>1. \A p \in Profiles : saved[p] \subseteq store[p]
    BY <1>9 DEF Kept, StoreHasSaved, Writing, InFlight
  <2>2. \A r \in Slots : InFlight(r)' => r = s
    BY <1>5, <1>9 DEF InFlight, Writes
  <2>3. OneInFlight'
    BY <2>2 DEF OneInFlight
  <2>4. ReadHasSaved'
    BY <1>3, <2>1, <2>2 DEF Load, ReadHasSaved
  <2>5. StoreHasSaved'
    BY <2>1 DEF Load, StoreHasSaved
  <2> QED
    BY <1>4, <2>3, <2>4, <2>5 DEF Kept
<1>10. CASE lost
  BY <1>4, <1>10 DEF Load, Kept
<1> QED
  BY <1>4, <1>6, <1>7, <1>8, <1>9, <1>10

LEMMA TruncateKept == ASSUME CredIInv, NEW s \in Slots, Truncate(s) PROVE CredIInv'
<1> USE DEF CredIInv
<1>1. cmd \in [Slots -> CommandSet] /\ cmd[s].pc = "truncate" /\ cmd[s] \in CommandSet
  BY DEF Truncate, CredTyped
<1>2. /\ cmd'[s] \in CommandSet /\ cmd'[s].kind = cmd[s].kind
      /\ cmd'[s].pc = "write" /\ cmd'[s].read = cmd[s].read
      /\ cmd' = [cmd EXCEPT ![s] = cmd'[s]]
  BY <1>1 DEF Truncate, CommandSet
<1>3. \A r \in Slots \ {s} : cmd'[r] = cmd[r]
  BY <1>1, <1>2
<1>4. CredTyped'
  BY <1>1, <1>2, EmptyTyped DEF Truncate, CredTyped, MaybeProfile
<1>5. \A r \in Slots : (InFlight(r)' <=> InFlight(r)) /\ cmd'[r].read = cmd[r].read
  BY <1>1, <1>2, <1>3 DEF InFlight, Writes
<1>6. CASE Writes(s)
  <2>1. Writing'
    BY <1>2, <1>6 DEF Writing, Writes
  <2> QED
    BY <1>4, <1>5, <2>1 DEF Truncate, Kept, OneInFlight, ReadHasSaved, StoreHasSaved
<1>7. CASE ~Writes(s)
  BY <1>2, <1>3, <1>4, <1>5, <1>7, KeptStays DEF Truncate, InFlight, Writes
<1> QED
  BY <1>6, <1>7

LEMMA WriteKept == ASSUME CredIInv, NEW s \in Slots, Write(s) PROVE CredIInv'
<1> USE DEF CredIInv
<1>1. cmd \in [Slots -> CommandSet] /\ cmd[s].pc = "write" /\ cmd[s] \in CommandSet
  BY DEF Write, CredTyped
<1>2. /\ cmd'[s] \in CommandSet /\ cmd'[s].kind = cmd[s].kind /\ cmd'[s].pc = "done"
      /\ cmd' = [cmd EXCEPT ![s] = cmd'[s]]
  BY <1>1 DEF Write, CommandSet
<1>3. \A r \in Slots \ {s} : cmd'[r] = cmd[r]
  BY <1>1, <1>2
<1>4. Changed(cmd[s]) \in Stores
  BY <1>1 DEF Changed, Stores, CommandSet
<1>5. CredTyped'
  <2>1. saved' \in Stores
    BY <1>1 DEF Write, CredTyped, Stores, CommandSet
  <2>2. store' \in Stores
    BY <1>4 DEF Write, CredTyped
  <2> QED
    BY <1>1, <1>2, <2>1, <2>2 DEF Write, CredTyped, CommandSet
<1>6. CASE lost
  BY <1>5, <1>6 DEF Write, Kept
<1>7. CASE ~lost /\ Writes(s)
  <2>1. InFlight(s)
    BY <1>1, <1>7 DEF InFlight
  <2>2. \A r \in Slots : ~InFlight(r)'
    BY <1>2, <1>3, <1>7, <2>1 DEF Kept, OneInFlight, InFlight, Writes
  <2>3. \A p \in Profiles : saved[p] \subseteq cmd[s].read[p]
    BY <1>7, <2>1 DEF Kept, ReadHasSaved
  <2>4. ASSUME NEW p \in Profiles PROVE saved'[p] \subseteq store'[p]
    <3>1. store'[p] = Changed(cmd[s])[p]
      BY <1>7 DEF Write
    <3>2. CASE cmd[s].kind = "set"
      BY <3>1, <3>2, <2>3 DEF Write, Changed, CredTyped, Stores
    <3>3. CASE cmd[s].kind = "remove"
      BY <3>1, <3>3, <2>3 DEF Write, Changed, CredTyped, Stores
    <3> QED
      BY <1>7, <3>2, <3>3 DEF Writes
  <2> QED
    BY <1>5, <2>2, <2>4 DEF Kept, OneInFlight, ReadHasSaved, StoreHasSaved
<1>8. CASE ~Writes(s)
  <2>1. saved' = saved /\ store' = store /\ lost' = lost
    BY <1>8 DEF Write, Writes
  <2> QED
    BY <1>2, <1>3, <1>5, <1>8, <2>1, KeptStays DEF InFlight, Writes
<1> QED
  BY <1>6, <1>7, <1>8

LEMMA KillKept == ASSUME CredIInv, NEW s \in Slots, Kill(s) PROVE CredIInv'
<1> USE DEF CredIInv
<1>1. cmd \in [Slots -> CommandSet] /\ cmd[s] \in CommandSet
  BY DEF CredTyped
<1>2. /\ cmd'[s] \in CommandSet /\ cmd'[s].kind = cmd[s].kind /\ cmd'[s].pc = "failed"
      /\ cmd' = [cmd EXCEPT ![s] = cmd'[s]]
  BY <1>1 DEF Kill, CommandSet
<1>3. \A r \in Slots \ {s} : cmd'[r] = cmd[r]
  BY <1>1, <1>2
<1>4. CredTyped'
  BY <1>1, <1>2 DEF Kill, CredTyped
<1>5. CASE Writes(s) /\ cmd[s].pc = "write"
  BY <1>4, <1>5 DEF Kill, Kept
<1>6. CASE ~(Writes(s) /\ cmd[s].pc = "write")
  <2>1. lost' = lost
    BY <1>6 DEF Kill, CredTyped
  <2>2. \A r \in Slots : InFlight(r)' => InFlight(r) /\ cmd'[r].read = cmd[r].read
    BY <1>2, <1>3 DEF InFlight, Writes
  <2>3. Writing => Writing'
    BY <1>3, <1>6 DEF Writing, Writes
  <2> QED
    BY <1>4, <2>1, <2>2, <2>3 DEF Kill, Kept, OneInFlight, ReadHasSaved, StoreHasSaved
<1> QED
  BY <1>5, <1>6

LEMMA AnswerKept == ASSUME CredIInv, NEW s \in Slots, Answer(s) PROVE CredIInv'
<1> USE DEF CredIInv
<1> DEFINE c == cmd[s]
<1>1. cmd \in [Slots -> CommandSet] /\ c \in CommandSet /\ c.pc \in {"done", "failed"}
  BY DEF Answer, CredTyped
<1>2. \A t \in Tabs : ListFor(t).kind = "list"
  BY DEF ListFor, Command
<1>3. /\ cmd' = [cmd EXCEPT ![s] = cmd'[s]] /\ cmd'[s] \in CommandSet
      /\ cmd'[s].kind \in {"idle", "list"}
  BY <1>1, <1>2, ListTyped, IdleTyped DEF Answer
<1>4. Inventory(c) \in ViewSet /\ View("gone", {}, NoProfile) \in ViewSet
  BY <1>1 DEF Inventory, View, ViewSet, CommandSet, MaybeProfile
<1>5. view' \in [Tabs -> ViewSet]
  BY <1>4 DEF Answer, CredTyped
<1>6. choice' \in [Tabs -> MaybeProfile \cup {"new"}]
  BY <1>1 DEF Answer, CredTyped, CommandSet, MaybeProfile
<1>7. CredTyped'
  BY <1>1, <1>3, <1>5, <1>6 DEF Answer, CredTyped
<1>8. Kept'
  BY <1>1, <1>3, KeptStays DEF Answer, InFlight, Writes
<1> QED
  BY <1>7, <1>8

LEMMA CredStepKept == CredIInv /\ [CredNext]_credVars => CredIInv'
<1> SUFFICES ASSUME CredIInv, [CredNext]_credVars PROVE CredIInv'
  OBVIOUS
<1>1. CASE UNCHANGED credVars
  BY <1>1 DEF credVars, CredIInv, CredTyped, Kept, OneInFlight, ReadHasSaved, StoreHasSaved,
              Writing, InFlight, Writes
<1>2. ASSUME NEW s \in Slots, Run(s) PROVE CredIInv'
  BY <1>2, LoadKept, TruncateKept, WriteKept, KillKept, AnswerKept DEF Run
<1>3. ASSUME NEW t \in Tabs, Pick(t) \/ ClosePage(t) PROVE CredIInv'
  BY <1>3, PageKept
<1> QED
  BY <1>1, <1>2, <1>3, AskKept DEF CredNext

(* What a command saved stays until it is removed, unless commands that    *)
(* write overlapped or one was killed between the truncation and the write *)
(* (credentials.py _set_json, save).                                       *)
THEOREM ProfileAlwaysKept == CredSpec => []ProfileKept
<1>1. CredSpec => []CredIInv
  BY CredInitKept, CredStepKept, PTL DEF CredSpec
<1> QED
  BY <1>1, KeptImplies, PTL

-----------------------------------------------------------------------------
(* The run tab.                                                            *)

Phases   == {"absent", "waiting", "active", "over"}
Requests == [kind : {"free", "launch", "rerun", "stop", "poll"}, by : Tabs \cup {Nobody},
             job : 0..MaxJobs, answer : Phases \cup {"none", "refused", "ok"}]

LaunchTyped ==
    /\ phase \in [Jobs -> Phases]
    /\ panel \in [Tabs -> [job : 0..MaxJobs, phase : Phases]]
    /\ jobId \in [Tabs -> 0..MaxJobs]
    /\ latest \in [Tabs -> 0..MaxJobs]
    /\ call \in [Calls -> Requests]

(* A page takes the answers about the job it shows, the last it launched.  *)
CardIsLatest == \A t \in Tabs : panel[t].job = latest[t] /\ jobId[t] = latest[t]

(* Whoever speaks of a job, a card or an answer, speaks of one that was    *)
(* posted, and says that it is over only if it is; the answer to a launch  *)
(* never does.                                                             *)
Tells(job, ph) ==
    /\ Over(ph) => job \in Jobs /\ phase[job] = "over"
    /\ job # 0 => phase[job] # "absent"
OverIsOver ==
    /\ \A t \in Tabs : Tells(panel[t].job, panel[t].phase)
    /\ \A c \in Calls : call[c].kind \in {"launch", "poll"} => Tells(call[c].job, call[c].answer)
    /\ \A c \in Calls : call[c].kind = "launch" => call[c].answer \in {"none", "refused", "waiting", "active"}
    /\ \A c \in Calls : call[c].kind = "poll" => call[c].job \in Jobs /\ call[c].answer \in Phases \cup {"none"}

LaunchInv == LaunchTyped /\ CardIsLatest /\ OverIsOver

LEMMA LaunchInitInv == LaunchInit => LaunchInv
<1> SUFFICES ASSUME LaunchInit PROVE LaunchInv
  OBVIOUS
<1>1. Free \in Requests /\ Free.kind = "free"
  BY JobsAreCounted DEF Free, Request, Requests
<1>2. NoPanel \in [job : 0..MaxJobs, phase : Phases] /\ NoPanel.job = 0 /\ NoPanel.phase = "absent"
  BY JobsAreCounted DEF NoPanel, Phases
<1>3. LaunchTyped
  BY <1>1, <1>2, JobsAreCounted DEF LaunchInit, LaunchTyped, Queue!Init, Queue!Items, Jobs, Phases
<1>4. CardIsLatest
  BY <1>2 DEF LaunchInit, CardIsLatest
<1>5. OverIsOver
  BY <1>1, <1>2 DEF LaunchInit, OverIsOver, Tells, Over
<1> QED
  BY <1>3, <1>4, <1>5 DEF LaunchInv

(* What a step of the queue may do: a job that is over stays over, one     *)
(* that was posted is never unheard of again.                              *)
QueueMoves ==
    /\ phase' \in [Jobs -> Phases]
    /\ \A j \in Jobs : /\ phase[j] = "over" => phase'[j] = "over"
                       /\ phase[j] # "absent" => phase'[j] # "absent"

LEMMA CloseMoves == ASSUME LaunchTyped, NEW j, Queue!Close(j) PROVE QueueMoves
  BY DEF LaunchTyped, Queue!Close, QueueMoves, Phases
LEMMA GiveMoves == ASSUME LaunchTyped, NEW j \in Jobs, Queue!Give(j) PROVE QueueMoves
  BY DEF LaunchTyped, Queue!Give, QueueMoves, Phases
LEMMA AcceptMoves ==
    ASSUME LaunchTyped, NEW j \in Jobs, NEW to \in {"waiting", "active"}, Queue!Accept(j, to)
    PROVE  QueueMoves
  BY DEF LaunchTyped, Queue!Accept, QueueMoves, Phases
LEMMA CloseActiveMoves == ASSUME LaunchTyped, Queue!CloseActive PROVE QueueMoves
  BY DEF LaunchTyped, Queue!CloseActive, Queue!Items, Jobs, QueueMoves, Phases

(* A step that moves the queue, replaces one request by one that tells the *)
(* truth, and changes no page.                                             *)
Truthful(r) ==
    /\ r \in Requests
    /\ r.kind = "poll" => /\ r.job \in Jobs /\ r.answer \in Phases \cup {"none"}
                          /\ Over(r.answer) => phase'[r.job] = "over"
    /\ r.kind = "launch" => r.answer \in {"none", "refused", "waiting", "active"}
    /\ r.kind \in {"launch", "poll"} /\ r.job # 0 => phase'[r.job] # "absent"

(* What was said stays true.                                               *)
LEMMA TellsStays ==
    ASSUME QueueMoves, NEW job \in 0..MaxJobs, NEW ph, Tells(job, ph)
    PROVE  Tells(job, ph)'
  BY JobsAreCounted DEF QueueMoves, Tells, Jobs

LEMMA CallKeeps ==
    ASSUME LaunchInv, QueueMoves, UNCHANGED <<panel, jobId, latest>>,
           NEW c \in Calls, NEW r, Truthful(r), call' = [call EXCEPT ![c] = r]
    PROVE  LaunchInv'
<1>1. LaunchTyped'
  BY DEF LaunchInv, LaunchTyped, QueueMoves, Truthful
<1>2. CardIsLatest'
  BY DEF LaunchInv, CardIsLatest
<1>3. OverIsOver'
  <2>1. \A t \in Tabs : Tells(panel[t].job, panel[t].phase)'
    BY TellsStays DEF LaunchInv, LaunchTyped, OverIsOver
  <2>2. ASSUME NEW d \in Calls
        PROVE  /\ call'[d].kind \in {"launch", "poll"} => Tells(call[d].job, call[d].answer)'
               /\ call'[d].kind = "launch" => call'[d].answer \in {"none", "refused", "waiting", "active"}
               /\ call'[d].kind = "poll" => call'[d].job \in Jobs /\ call'[d].answer \in Phases \cup {"none"}
    <3>1. CASE d = c
      <4>1. call'[d] = r
        BY <3>1 DEF LaunchInv, LaunchTyped
      <4> QED
        BY <4>1 DEF Truthful, Tells, Over
    <3>2. CASE d # c
      <4>1. call'[d] = call[d]
        BY <3>2 DEF LaunchInv, LaunchTyped
      <4> QED
        BY <4>1, TellsStays DEF LaunchInv, LaunchTyped, Requests, OverIsOver
    <3> QED
      BY <3>1, <3>2
  <2> QED
    BY <2>1, <2>2 DEF OverIsOver
<1> QED
  BY <1>1, <1>2, <1>3 DEF LaunchInv

(* A step of the queue alone.                                              *)
LEMMA QueueKeeps ==
    ASSUME LaunchInv, QueueMoves, UNCHANGED <<call, panel, jobId, latest>>
    PROVE  LaunchInv'
<1>1. LaunchTyped'
  BY DEF LaunchInv, LaunchTyped, QueueMoves
<1>2. CardIsLatest'
  BY DEF LaunchInv, CardIsLatest
<1>3. OverIsOver'
  <2>1. \A t \in Tabs : Tells(panel[t].job, panel[t].phase)'
    BY TellsStays DEF LaunchInv, LaunchTyped, OverIsOver
  <2>2. \A c \in Calls : call[c].kind \in {"launch", "poll"} => Tells(call[c].job, call[c].answer)'
    BY TellsStays DEF LaunchInv, LaunchTyped, Requests, OverIsOver
  <2> QED
    BY <2>1, <2>2 DEF LaunchInv, OverIsOver
<1> QED
  BY <1>1, <1>2, <1>3 DEF LaunchInv

(* The queue stands still.                                                 *)
LEMMA StillMoves == ASSUME LaunchInv, phase' = phase PROVE QueueMoves
  BY DEF LaunchInv, LaunchTyped, QueueMoves

LEMMA Free0 == Truthful(Free)
  BY JobsAreCounted DEF Truthful, Free, Request, Requests

LEMMA RequestTruthful ==
    ASSUME NEW k \in {"launch", "rerun", "stop", "poll"}, NEW by \in Tabs \cup {Nobody},
           NEW j \in 0..MaxJobs, k = "poll" => j \in Jobs,
           k \in {"launch", "poll"} /\ j # 0 => phase'[j] # "absent"
    PROVE  Truthful(Request(k, by, j))
  BY DEF Truthful, Request, Requests, Over

(* The page sends a request.                                               *)
LEMMA SendKeeps ==
    ASSUME LaunchInv, NEW c \in Calls, NEW k \in {"launch", "rerun", "stop", "poll"},
           NEW by \in Tabs \cup {Nobody}, NEW j \in 0..MaxJobs, k = "poll" => j \in Jobs,
           k \in {"launch", "poll"} /\ j # 0 => phase[j] # "absent",
           Send(c, Request(k, by, j)), UNCHANGED <<ServerVars, panel, jobId, latest>>
    PROVE  LaunchInv'
<1>1. QueueMoves
  BY StillMoves DEF ServerVars
<1>2. Truthful(Request(k, by, j))
  BY RequestTruthful DEF ServerVars
<1>3. call' = [call EXCEPT ![c] = Request(k, by, j)]
  BY DEF Send
<1> QED
  BY <1>1, <1>2, <1>3, CallKeeps DEF ServerVars

LEMMA ActiveHasJob ==
    ASSUME LaunchInv, NEW t \in Tabs, JobActive(t)
    PROVE  panel[t].job \in Jobs /\ phase[panel[t].job] # "absent"
  BY JobsAreCounted DEF LaunchInv, LaunchTyped, OverIsOver, Tells, JobActive, Jobs

LEMMA JobIsCounted == Jobs \subseteq 0..MaxJobs
  BY JobsAreCounted DEF Jobs

LEMMA PageSendsKeeps ==
    ASSUME LaunchInv, NEW t \in Tabs, NEW c \in Calls, Launch(t, c) \/ StopPanel(t, c) \/ PollTick(t, c)
    PROVE  LaunchInv'
<1>1. CASE Launch(t, c)
  <2>1. 0 \in 0..MaxJobs
    BY JobsAreCounted
  <2> QED
    BY <1>1, <2>1, SendKeeps DEF Launch, PageVars
<1>2. CASE StopPanel(t, c)
  BY <1>2, ActiveHasJob, JobIsCounted, SendKeeps DEF StopPanel, PageVars
<1>3. CASE PollTick(t, c)
  BY <1>3, ActiveHasJob, JobIsCounted, SendKeeps DEF PollTick, PageVars
<1> QED
  BY <1>1, <1>2, <1>3

LEMMA JobsPageKeeps == ASSUME LaunchInv, NEW c \in Calls, JobsPage(c) PROVE LaunchInv'
<1>1. PICK j \in Jobs : Send(c, Request("stop", Nobody, j)) \/ Send(c, Request("rerun", Nobody, j))
  BY DEF JobsPage
<1> QED
  BY <1>1, JobIsCounted, SendKeeps DEF JobsPage, PageVars

(* The number of a new job is one that is left.                            *)
LEMMA NextJobExists == ASSUME \E j \in Jobs : phase[j] = "absent" PROVE NextJob \in Jobs
<1> DEFINE Left == {j \in Jobs : phase[j] = "absent"}
<1>1. Left \subseteq Nat /\ Left # {}
  BY JobsAreCounted DEF Jobs
<1>2. PICK j \in Left : \A k \in Left : ~(<<k, j>> \in OpToRel(<, Nat))
  BY <1>1, WFMin, NatLessThanWellFounded
<1>3. \A k \in Left : ~(k < j)
  BY <1>1, <1>2 DEF OpToRel
<1>4. \A k \in 1..j - 1 : k \in Jobs /\ k < j
  BY JobsAreCounted DEF Jobs
<1>5. \A k \in 1..j - 1 : phase[k] # "absent"
  BY <1>3, <1>4
<1> QED
  BY <1>5 DEF NextJob

LEMMA HandleKeeps == ASSUME LaunchInv, NEW c \in Calls, Handle(c) PROVE LaunchInv'
<1> DEFINE r == call[c]
<1>0. /\ r \in Requests /\ r.answer = "none" /\ UNCHANGED <<panel, jobId, latest>>
      /\ r.kind = "poll" => r.job \in Jobs
      /\ r.kind \in {"launch", "poll"} /\ r.job # 0 => phase[r.job] # "absent"
  BY DEF Handle, PageVars, LaunchInv, LaunchTyped, OverIsOver, Tells
<1>1. CASE HandlePost(c)
  <2>1. CASE Answered(c, "refused") /\ UNCHANGED <<phase, lossy>>
    <3>1. Truthful([r EXCEPT !.answer = "refused"])
      BY <1>0, <1>1, <2>1 DEF HandlePost, Truthful, Requests, Over
    <3> QED
      BY <1>0, <2>1, <3>1, StillMoves, CallKeeps DEF Answered, LaunchInv, LaunchTyped
  <2>2. ASSUME NEW to \in {"waiting", "active"}, \E j \in Jobs : phase[j] = "absent",
               Queue!Accept(NextJob, to),
               call' = [call EXCEPT ![c].answer = to, ![c].job = NextJob]
        PROVE  LaunchInv'
    <3>1. NextJob \in Jobs
      BY <2>2, NextJobExists
    <3>a. phase'[NextJob] # "absent"
      BY <2>2, <3>1 DEF Queue!Accept, LaunchInv, LaunchTyped
    <3>2. Truthful([r EXCEPT !.answer = to, !.job = NextJob])
      BY <1>0, <1>1, <2>2, <3>1, <3>a, JobIsCounted DEF HandlePost, Truthful, Requests, Phases, Over
    <3>3. call' = [call EXCEPT ![c] = [r EXCEPT !.answer = to, !.job = NextJob]]
      BY <2>2 DEF LaunchInv, LaunchTyped
    <3>4. QueueMoves
      BY <2>2, <3>1, AcceptMoves DEF LaunchInv
    <3> QED
      BY <1>0, <3>2, <3>3, <3>4, CallKeeps
  <2> QED
    BY <1>1, <2>1, <2>2 DEF HandlePost
<1>2. CASE HandleStop(c)
  <2>1. QueueMoves
    BY <1>2, CloseMoves, StillMoves DEF HandleStop, LaunchInv
  <2>2. Truthful([r EXCEPT !.answer = "ok"])
    BY <1>0, <1>2 DEF HandleStop, Truthful, Requests, Over
  <2> QED
    BY <1>0, <1>2, <2>1, <2>2, CallKeeps DEF HandleStop, Answered, LaunchInv, LaunchTyped
<1>3. CASE HandlePoll(c)
  <2>1. r.kind = "poll" /\ phase' = phase /\ r.job \in Jobs /\ phase[r.job] \in Phases
    BY <1>0, <1>3 DEF HandlePoll, LaunchInv, LaunchTyped
  <2>2. Truthful([r EXCEPT !.answer = phase[r.job]])
    BY <1>0, <2>1 DEF Truthful, Requests, Over
  <2>3. call' = [call EXCEPT ![c] = [r EXCEPT !.answer = phase[r.job]]]
    BY <1>3 DEF HandlePoll, Answered, GetJob, LaunchInv, LaunchTyped
  <2> QED
    BY <1>0, <2>1, <2>2, <2>3, StillMoves, CallKeeps
<1> QED
  BY <1>1, <1>2, <1>3 DEF Handle

(* An answer arrives: the card is the launched job's, or says what a poll  *)
(* of its job has found.                                                   *)
LEMMA DeliverKeeps == ASSUME LaunchInv, NEW c \in Calls, Deliver(c) PROVE LaunchInv'
<1> DEFINE r == call[c]
<1>0. /\ r \in Requests /\ r.answer # "none" /\ call' = [call EXCEPT ![c] = Free]
      /\ phase' = phase
      /\ r.kind = "poll" => r.job \in Jobs /\ r.answer \in Phases /\ Tells(r.job, r.answer)
      /\ r.kind = "launch" => r.answer \in {"refused", "waiting", "active"}
  BY DEF Deliver, ServerVars, LaunchInv, LaunchTyped, OverIsOver
<1>1. CASE r.by \in Tabs /\ r.kind = "launch" /\ r.answer # "refused"
  <2>1. /\ panel' = [panel EXCEPT ![r.by] = [job |-> r.job, phase |-> r.answer]]
        /\ jobId' = [jobId EXCEPT ![r.by] = r.job]
        /\ latest' = [latest EXCEPT ![r.by] = r.job]
    BY <1>1 DEF Deliver, Show
  <2>2. r.answer \in {"waiting", "active"} /\ r.job \in 0..MaxJobs
    BY <1>0, <1>1 DEF Requests
  <2>3. LaunchTyped'
    BY <1>0, <1>1, <2>1, <2>2, Free0 DEF LaunchInv, LaunchTyped, Truthful, Phases
  <2>4. CardIsLatest'
    BY <1>1, <2>1 DEF LaunchInv, LaunchTyped, CardIsLatest
  <2>5. OverIsOver'
    BY <1>0, <1>1, <2>1, <2>2 DEF LaunchInv, LaunchTyped, OverIsOver, Tells, Over, Free, Request
  <2> QED
    BY <2>3, <2>4, <2>5 DEF LaunchInv
<1>2. CASE ~(r.by \in Tabs /\ r.kind = "launch" /\ r.answer # "refused")
  <2>1. UNCHANGED <<jobId, latest>>
    BY <1>2 DEF Deliver
  <2>2. CASE r.by \in Tabs /\ r.kind = "poll" /\ Ours(r.by, r.job)
    <3>1. panel' = [panel EXCEPT ![r.by] = [job |-> r.job, phase |-> r.answer]]
      BY <1>2, <2>2 DEF Deliver, Show
    <3>2. r.job = latest[r.by] /\ r.job \in Jobs
      BY <1>0, <2>2 DEF Ours, LaunchInv, CardIsLatest
    <3>3. r.job \in 0..MaxJobs /\ r.answer \in Phases /\ Tells(r.job, r.answer)
      BY <1>0, <2>2, JobIsCounted
    <3>4. LaunchTyped'
      BY <1>0, <2>1, <3>1, <3>3, Free0 DEF LaunchInv, LaunchTyped, Truthful
    <3>5. CardIsLatest'
      BY <2>1, <2>2, <3>1, <3>2 DEF LaunchInv, LaunchTyped, CardIsLatest
    <3>6. OverIsOver'
      <4>1. \A t \in Tabs : Tells(panel[t].job, panel[t].phase)'
        BY <1>0, <2>2, <3>1, <3>3 DEF LaunchInv, LaunchTyped, OverIsOver, Tells
      <4>2. \A d \in Calls : call'[d] = Free \/ call'[d] = call[d]
        BY <1>0 DEF LaunchInv, LaunchTyped
      <4> QED
        BY <1>0, <4>1, <4>2 DEF LaunchInv, OverIsOver, Tells, Free, Request
    <3> QED
      BY <3>4, <3>5, <3>6 DEF LaunchInv
  <2>3. CASE ~(r.by \in Tabs /\ r.kind = "poll" /\ Ours(r.by, r.job))
    BY <1>0, <1>2, <2>1, <2>3, Free0, StillMoves, CallKeeps DEF Deliver
  <2> QED
    BY <2>2, <2>3
<1> QED
  BY <1>1, <1>2

(* The requests of a page that is gone are nobody's.                       *)
LEMMA UnmountKeeps == ASSUME LaunchInv, NEW t \in Tabs, Unmount(t) PROVE LaunchInv'
<1>1. /\ panel' = [panel EXCEPT ![t] = NoPanel] /\ jobId' = [jobId EXCEPT ![t] = 0]
      /\ latest' = [latest EXCEPT ![t] = 0] /\ phase' = phase
      /\ call' = [c \in Calls |-> IF call[c].by = t THEN [call[c] EXCEPT !.by = Nobody] ELSE call[c]]
  BY DEF Unmount, ServerVars
<1>2. NoPanel \in [job : 0..MaxJobs, phase : Phases] /\ NoPanel.job = 0 /\ ~Over(NoPanel.phase)
  BY JobsAreCounted DEF NoPanel, Phases, Over
<1>3. \A c \in Calls : /\ call'[c] \in Requests /\ call'[c].kind = call[c].kind
                       /\ call'[c].job = call[c].job /\ call'[c].answer = call[c].answer
  BY <1>1 DEF LaunchInv, LaunchTyped, Requests
<1>4. LaunchTyped'
  BY <1>1, <1>2, <1>3, JobsAreCounted DEF LaunchInv, LaunchTyped
<1>5. CardIsLatest'
  BY <1>1, <1>2 DEF LaunchInv, LaunchTyped, CardIsLatest
<1>6. OverIsOver'
  <2>1. \A u \in Tabs : Tells(panel[u].job, panel[u].phase)'
    BY <1>1, <1>2 DEF LaunchInv, LaunchTyped, OverIsOver, Tells
  <2> QED
    BY <1>1, <1>3, <2>1 DEF LaunchInv, OverIsOver, Tells
<1> QED
  BY <1>4, <1>5, <1>6 DEF LaunchInv

LEMMA LaunchStepInv == LaunchInv /\ [LaunchNext]_launchVars => LaunchInv'
<1> SUFFICES ASSUME LaunchInv, [LaunchNext]_launchVars PROVE LaunchInv'
  OBVIOUS
<1>1. CASE UNCHANGED launchVars
  BY <1>1, StillMoves, QueueKeeps DEF launchVars
<1>2. ASSUME NEW t \in Tabs, NEW c \in Calls, Launch(t, c) \/ StopPanel(t, c) \/ PollTick(t, c)
      PROVE  LaunchInv'
  BY <1>2, PageSendsKeeps
<1>3. ASSUME NEW c \in Calls, Lose(c) PROVE LaunchInv'
  BY <1>3, Free0, StillMoves, CallKeeps DEF Lose, ServerVars, PageVars
<1>4. ASSUME NEW t \in Tabs, SeeExecutor(t) PROVE LaunchInv'
  BY <1>4, StillMoves, QueueKeeps DEF SeeExecutor, ServerVars
<1>5. CASE Claim
  <2>1. QueueMoves
    BY <1>5, GiveMoves, StillMoves DEF Claim, LaunchInv
  <2> QED
    BY <1>5, <2>1, QueueKeeps DEF Claim, PageVars
<1>6. CASE Done
  <2>1. QueueMoves
    BY <1>6, CloseMoves DEF Done, LaunchInv
  <2> QED
    BY <1>6, <2>1, QueueKeeps DEF Done, PageVars
<1>7. CASE ExecutorExits
  <2>1. QueueMoves
    BY <1>7, CloseActiveMoves DEF ExecutorExits, LaunchInv
  <2> QED
    BY <1>7, <2>1, QueueKeeps DEF ExecutorExits, PageVars
<1> QED
  BY <1>1, <1>2, <1>3, <1>4, <1>5, <1>6, <1>7, JobsPageKeeps, HandleKeeps, DeliverKeeps, UnmountKeeps
     DEF LaunchNext, Machine

LEMMA LaunchInvTells == LaunchInv => PanelTells
  BY DEF LaunchInv, CardIsLatest, OverIsOver, Tells, PanelTells, Over

(* The card is about the job that was launched last, never about an        *)
(* earlier one whose answer came late, and it calls a job over only when   *)
(* the queue does, for good (launcher.tsx:254-263).                        *)
THEOREM PanelAlwaysTells == LaunchSpec => []PanelTells
<1>1. LaunchSpec => []LaunchInv
  BY LaunchInitInv, LaunchStepInv, PTL DEF LaunchSpec
<1> QED
  BY <1>1, LaunchInvTells, PTL

-----------------------------------------------------------------------------
(* The whole.                                                              *)

(* What a user does is a step or a stutter of each part.                   *)
LEMMA ActIsOfTheParts ==
    Act => [FormNext]_formVars /\ [PrefNext]_prefVars /\ [CredNext]_credVars /\ [LaunchNext]_launchVars
<1> SUFFICES ASSUME Act
             PROVE  [FormNext]_formVars /\ [PrefNext]_prefVars /\ [CredNext]_credVars /\ [LaunchNext]_launchVars
  OBVIOUS
<1> DEFINE Goal == [FormNext]_formVars /\ [PrefNext]_prefVars /\ [CredNext]_credVars /\ [LaunchNext]_launchVars
<1>1. ASSUME NEW t \in Tabs, FormOnly(Edit(t)) PROVE Goal
  BY <1>1 DEF FormOnly, FormNext
<1>2. ASSUME NEW t \in Tabs, LeavePage(t) PROVE Goal
  BY <1>2 DEF LeavePage, FormNext, CredNext, LaunchNext
<1>3. ASSUME NEW t \in Tabs, CredOnly(SetsUsed(t) /\ Pick(t)) PROVE Goal
  BY <1>3 DEF CredOnly, CredNext
<1>4. CASE CredOnly(Ask)
  BY <1>4 DEF CredOnly, Ask, CredNext
<1>5. ASSUME NEW s \in Slots, CredOnly(Kill(s)) PROVE Goal
  BY <1>5 DEF CredOnly, CredNext, Run
<1>6. CASE PrefOnly(ChoosePrefs)
  BY <1>6 DEF PrefOnly, PrefNext
<1>7. ASSUME NEW t \in Tabs, NEW c \in Calls, RunOnly(Press(t, c) \/ StopPanel(t, c)) PROVE Goal
  BY <1>7 DEF RunOnly, Press, LaunchNext
<1>8. CASE RunOnly(ExecutorExits \/ \E c \in Calls : JobsPage(c))
  BY <1>8 DEF RunOnly, LaunchNext
<1> QED
  BY <1>1, <1>2, <1>3, <1>4, <1>5, <1>6, <1>7, <1>8 DEF Act

(* So is what the program does by itself.                                  *)
LEMMA ProgramIsOfTheParts ==
    Program => [FormNext]_formVars /\ [PrefNext]_prefVars /\ [CredNext]_credVars /\ [LaunchNext]_launchVars
<1> SUFFICES ASSUME Program
             PROVE  [FormNext]_formVars /\ [PrefNext]_prefVars /\ [CredNext]_credVars /\ [LaunchNext]_launchVars
  OBVIOUS
<1> DEFINE Goal == [FormNext]_formVars /\ [PrefNext]_prefVars /\ [CredNext]_credVars /\ [LaunchNext]_launchVars
<1>1. ASSUME NEW t \in Tabs, NEW s \in Slots, OpenPage(t, s) PROVE Goal
  BY <1>1 DEF OpenPage, FormNext, CredNext
<1>2. ASSUME NEW s \in Slots, CredOnly(Load(s) \/ Truncate(s) \/ Write(s)) PROVE Goal
  BY <1>2 DEF CredOnly, CredNext, Run
<1>3. ASSUME NEW s \in Slots, AnswerPage(s) PROVE Goal
  <2>1. [CredNext]_credVars
    BY <1>3 DEF AnswerPage, CredNext, Run
  <2>2. [LaunchNext]_launchVars
    BY <1>3 DEF AnswerPage, LaunchNext
  <2> QED
    BY <1>3, <2>1, <2>2 DEF AnswerPage
<1>4. ASSUME NEW g \in GuidePages, PrefOnly(GuideOpen(g)) PROVE Goal
  BY <1>4 DEF PrefOnly, PrefNext
<1>5. ASSUME NEW t \in Tabs, PrefOnly(OnStorage(t)) PROVE Goal
  BY <1>5 DEF PrefOnly, PrefNext
<1>6. CASE RunOnly(Machine)
  BY <1>6 DEF RunOnly, LaunchNext
<1>7. ASSUME NEW c \in Calls, RunOnly(Lose(c)) PROVE Goal
  BY <1>7 DEF RunOnly, LaunchNext
<1> QED
  BY <1>1, <1>2, <1>3, <1>4, <1>5, <1>6, <1>7 DEF Program

LEMMA StepIsOfTheParts ==
    [Next]_vars => [FormNext]_formVars /\ [PrefNext]_prefVars /\ [CredNext]_credVars /\ [LaunchNext]_launchVars
<1>1. UNCHANGED vars => UNCHANGED <<formVars, prefVars, credVars, launchVars>>
  BY DEF vars
<1> QED
  BY <1>1, ActIsOfTheParts, ProgramIsOfTheParts DEF Next, User

LEMMA ComposerImplementsParts == Spec => FormSpec /\ PrefSpec /\ CredSpec /\ LaunchSpec
<1>1. Init => FormInit /\ PrefInit /\ CredInit /\ LaunchInit
  BY DEF Init
<1> QED
  BY <1>1, StepIsOfTheParts, PTL DEF Spec, FormSpec, PrefSpec, CredSpec, LaunchSpec

(* In the whole composer too a dependant's edit is sent only with the      *)
(* value its selector shows (builder.tsx:500-505), a saved profile stays   *)
(* unless writing commands overlapped or one was killed, a page shows the  *)
(* stored setup once told of it (cmd-prefs.ts:1-5), a pasted command does  *)
(* what the button does (cmd-build.ts:70-76), and a card is about the last *)
(* launch and calls over only what is (launcher.tsx:254-263).              *)
THEOREM ComposerKeeps ==
    Spec => [](DependantFollows /\ ProfileKept /\ PrefsAgree /\ SameCommand /\ PanelTells)
  BY ComposerImplementsParts, DependantAlwaysFollows, ProfileAlwaysKept, PrefsAlwaysAgree,
     CommandAlwaysSame, PanelAlwaysTells, PTL

(* What a page has asked for belongs to an open form: its commands to a    *)
(* page that is not closed, its launches and its card to one that lists.   *)
Belongs ==
    /\ \A t \in Tabs : open[t] <=> view[t].at # "closed"
    /\ \A s \in Slots : cmd[s].by \in Tabs => view[cmd[s].by].at # "closed"
    /\ \A c \in Calls : call[c].kind = "launch" /\ call[c].by \in Tabs => Listed(call[c].by)
    /\ \A t \in Tabs : panel[t].job # 0 => Listed(t)

(* The inductive invariant of the whole: the parts' own, and Belongs.      *)
ComposerIInv == FormIInv /\ PrefInv /\ CredIInv /\ LaunchInv /\ Belongs

LEMMA WholeTyped == ComposerIInv => TypeOK
<1> SUFFICES ASSUME ComposerIInv PROVE TypeOK
  OBVIOUS
<1>1. open \in [Tabs -> BOOLEAN] /\ \A t \in Tabs : DOMAIN vals[t] = Params
  BY DEF ComposerIInv, FormIInv, FormShape
<1>2. LoadPrefs(stored) \in Prefs /\ cached \in [Tabs \cup GuidePages -> Prefs]
  BY LoadTyped DEF ComposerIInv, PrefInv
<1>3. store \in [Profiles -> SUBSET TemplateRows] /\ remembered \in Profiles \cup {NoProfile}
  BY DEF ComposerIInv, CredIInv, CredTyped, Stores, MaybeProfile
<1>4. phase \in [Jobs -> {"absent", "waiting", "active", "over"}]
  BY DEF ComposerIInv, LaunchInv, LaunchTyped, Phases
<1>5. ASSUME NEW t \in Tabs
      PROVE  /\ open[t] <=> view[t].at # "closed"
             /\ panel[t].job # 0 => Listed(t)
             /\ panel[t].job # 0 => phase[panel[t].job] # "absent"
  BY DEF ComposerIInv, Belongs, LaunchInv, OverIsOver, Tells
<1> QED
  BY <1>1, <1>2, <1>3, <1>4, <1>5 DEF TypeOK

LEMMA BelongsInit == Init => Belongs
<1> SUFFICES ASSUME Init PROVE Belongs
  OBVIOUS
<1>1. /\ \A t \in Tabs : ~open[t] /\ view[t].at = "closed" /\ panel[t].job = 0
      /\ \A s \in Slots : cmd[s].by = Nobody
      /\ \A c \in Calls : call[c].kind = "free"
  BY DEF Init, FormInit, CredInit, LaunchInit, View, NoPanel, Idle, Command, Free, Request
<1> QED
  BY <1>1, NobodyIsNoTab DEF Belongs

(* A step of the credentials alone that shows nothing new.                 *)
LEMMA AskBelongs ==
    ASSUME Belongs, UNCHANGED <<open, view, call, panel>>,
           \A s \in Slots : cmd'[s].by \in Tabs =>
               cmd'[s].by = cmd[s].by \/ view[cmd'[s].by].at # "closed"
    PROVE  Belongs'
  BY DEF Belongs, Listed

(* A step of the run tabs alone.                                           *)
LEMMA RunBelongs ==
    ASSUME Belongs, UNCHANGED <<open, view, cmd>>,
           \A c \in Calls : call'[c].kind = "launch" /\ call'[c].by \in Tabs =>
               \/ call[c].kind = "launch" /\ call'[c].by = call[c].by
               \/ Listed(call'[c].by),
           \A t \in Tabs : panel'[t].job # 0 => panel[t].job # 0 \/ Listed(t)
    PROVE  Belongs'
  BY DEF Belongs, Listed

LEMMA EditKeepsOpen == ASSUME NEW t \in Tabs, Edit(t) PROVE open' = open
<1>1. CASE Reset(t) \/ SetPublish(t)
  BY <1>1 DEF Reset, SetPublish
<1>2. ASSUME NEW p \in Params,
             \/ Type(t, p) \/ EditField(t, p) \/ EditCell(t, p)
             \/ AddRow(t, p) \/ RemoveRow(t, p) \/ EditList(t, p)
      PROVE  open' = open
  BY <1>2, WidgetSets DEF SetParam
<1> QED
  BY <1>1, <1>2 DEF Edit

(* A page is opened, and asks for the list.                                *)
LEMMA OpenBelongs ==
    ASSUME ComposerIInv, NEW t \in Tabs, NEW s \in Slots, OpenPage(t, s) PROVE Belongs'
<1>1. /\ view[t].at = "closed" /\ open' = [open EXCEPT ![t] = TRUE]
      /\ view' = [view EXCEPT ![t] = View("probing", {}, NoProfile)]
      /\ cmd' = [cmd EXCEPT ![s] = ListFor(t)]
      /\ UNCHANGED <<call, panel>>
  BY DEF OpenPage, Mount, Probe, Start, launchVars
<1>2. /\ open \in [Tabs -> BOOLEAN] /\ view \in [Tabs -> ViewSet] /\ cmd \in [Slots -> CommandSet]
  BY DEF ComposerIInv, FormIInv, FormShape, CredIInv, CredTyped
<1>3. /\ view'[t].at = "probing" /\ open'[t]
      /\ \A u \in Tabs : u # t => view'[u] = view[u] /\ open'[u] = open[u]
  BY <1>1, <1>2 DEF View
<1>4. /\ \A r \in Slots : r # s => cmd'[r] = cmd[r]
      /\ cmd'[s].by = t
  BY <1>1, <1>2 DEF ListFor, Command
<1>5. ~Listed(t)
  BY <1>1 DEF Listed
<1> QED
  BY <1>1, <1>3, <1>4, <1>5 DEF ComposerIInv, Belongs, Listed

(* A page is closed: its commands and requests are nobody's.               *)
LEMMA LeaveBelongs == ASSUME ComposerIInv, NEW t \in Tabs, LeavePage(t) PROVE Belongs'
<1>1. /\ open' = [open EXCEPT ![t] = FALSE]
      /\ view' = [view EXCEPT ![t] = View("closed", {}, NoProfile)]
      /\ cmd' = [s \in Slots |-> IF cmd[s].by = t THEN [cmd[s] EXCEPT !.by = Nobody] ELSE cmd[s]]
      /\ call' = [c \in Calls |-> IF call[c].by = t THEN [call[c] EXCEPT !.by = Nobody] ELSE call[c]]
      /\ panel' = [panel EXCEPT ![t] = NoPanel]
  BY DEF LeavePage, Leave, ClosePage, Unmount
<1>2. /\ open \in [Tabs -> BOOLEAN] /\ view \in [Tabs -> ViewSet] /\ cmd \in [Slots -> CommandSet]
      /\ call \in [Calls -> Requests] /\ DOMAIN panel = Tabs
  BY DEF ComposerIInv, FormIInv, FormShape, CredIInv, CredTyped, LaunchInv, LaunchTyped
<1>3. /\ view'[t].at = "closed" /\ ~open'[t] /\ panel'[t].job = 0
      /\ \A u \in Tabs : u # t => view'[u] = view[u] /\ open'[u] = open[u] /\ panel'[u] = panel[u]
  BY <1>1, <1>2 DEF View, NoPanel
<1>4. \A s \in Slots : cmd'[s].by \in Tabs => cmd'[s].by # t /\ cmd'[s].by = cmd[s].by
  BY <1>1, <1>2, NobodyIsNoTab DEF CommandSet
<1>5. \A c \in Calls : call'[c].by \in Tabs => call'[c].by # t /\ call'[c] = call[c]
  BY <1>1, <1>2, NobodyIsNoTab DEF Requests
<1> QED
  BY <1>3, <1>4, <1>5 DEF ComposerIInv, Belongs, Listed

(* Another page's requests stay, this one's are nobody's, its card is gone.*)
LEMMA UnmountBelongs ==
    ASSUME ComposerIInv, NEW t \in Tabs, Unmount(t)
    PROVE  /\ panel'[t].job = 0 /\ \A u \in Tabs : u # t => panel'[u] = panel[u]
           /\ \A c \in Calls : call'[c].by \in Tabs => call'[c].by # t /\ call'[c] = call[c]
<1>1. /\ call' = [c \in Calls |-> IF call[c].by = t THEN [call[c] EXCEPT !.by = Nobody] ELSE call[c]]
      /\ panel' = [panel EXCEPT ![t] = NoPanel]
  BY DEF Unmount
<1>2. call \in [Calls -> Requests] /\ DOMAIN panel = Tabs
  BY DEF ComposerIInv, LaunchInv, LaunchTyped
<1> QED
  BY <1>1, <1>2, NobodyIsNoTab DEF NoPanel, Requests

(* The list arrives, or fails and takes the run tab with it.               *)
LEMMA AnswerBelongs == ASSUME ComposerIInv, NEW s \in Slots, AnswerPage(s) PROVE Belongs'
<1> DEFINE c == cmd[s]
           Seen == IF c.pc = "done" THEN Inventory(c) ELSE View("gone", {}, NoProfile)
<1>1. /\ cmd' = [cmd EXCEPT ![s] = IF c.by \in Tabs /\ c.kind # "list" /\ c.pc = "done"
                                   THEN ListFor(c.by) ELSE Idle]
      /\ view' = IF c.by \in Tabs /\ c.kind = "list" THEN [view EXCEPT ![c.by] = Seen] ELSE view
      /\ open' = open
  BY DEF AnswerPage, Answer, formVars
<1>2. view \in [Tabs -> ViewSet] /\ cmd \in [Slots -> CommandSet] /\ DOMAIN panel = Tabs
  BY DEF ComposerIInv, CredIInv, CredTyped, LaunchInv, LaunchTyped
<1>3. Seen.at \in {"listed", "gone"}
  BY DEF Inventory, View
<1>4. \A t \in Tabs : /\ view'[t].at # "closed" <=> view[t].at # "closed"
                      /\ view'[t].at \notin {"listed", "gone"} => view'[t] = view[t]
                      /\ view'[t] # view[t] => c.by = t
  BY <1>1, <1>2, <1>3 DEF ComposerIInv, Belongs
<1>5. \A r \in Slots : cmd'[r].by \in Tabs => cmd'[r].by = cmd[r].by
  <2>1. Idle.by \notin Tabs /\ ListFor(c.by).by = c.by
    BY NobodyIsNoTab DEF Idle, ListFor, Command
  <2> QED
    BY <1>1, <1>2, <2>1
<1>6. CASE \E t \in Tabs : Listed(t) /\ view'[t].at = "gone"
  <2>1. PICK t \in Tabs : Listed(t) /\ view'[t].at = "gone" /\ Unmount(t)
    BY <1>6 DEF AnswerPage
  <2>2. view'[t] # view[t] /\ c.by = t
    BY <1>4, <2>1 DEF Listed
  <2>3. \A u \in Tabs : u # t => view'[u] = view[u]
    BY <1>4, <2>2
  <2> QED
    BY <1>1, <1>4, <1>5, <2>1, <2>3, UnmountBelongs DEF ComposerIInv, Belongs, Listed
<1>7. CASE ~\E t \in Tabs : Listed(t) /\ view'[t].at = "gone"
  <2>1. UNCHANGED <<call, panel>>
    BY <1>7 DEF AnswerPage, launchVars
  <2>2. \A t \in Tabs : Listed(t) => view'[t].at = "listed"
    BY <1>4, <1>7 DEF Listed
  <2> QED
    BY <1>1, <1>4, <1>5, <2>1, <2>2 DEF ComposerIInv, Belongs, Listed
<1> QED
  BY <1>6, <1>7

(* The commands of a page and of a terminal, but for their answers.        *)
LEMMA CredBelongs ==
    ASSUME ComposerIInv, UNCHANGED <<formVars, launchVars>>,
           \/ Ask
           \/ \E t \in Tabs : Pick(t)
           \/ \E s \in Slots : Load(s) \/ Truncate(s) \/ Write(s) \/ Kill(s)
    PROVE  Belongs'
<1>0. cmd \in [Slots -> CommandSet] /\ UNCHANGED <<open, call, panel>> /\ Belongs
  BY DEF ComposerIInv, CredIInv, CredTyped, formVars, launchVars
<1>1. CASE \E t \in Tabs : Pick(t)
  BY <1>0, <1>1, AskBelongs DEF Pick
<1>2. ASSUME NEW s \in Slots, Load(s) \/ Truncate(s) \/ Write(s) \/ Kill(s) PROVE Belongs'
  <2>1. CASE Load(s)
    <3>1. view' = view /\ cmd' = [cmd EXCEPT ![s] = [cmd[s] EXCEPT !.pc = Step(cmd[s]),
                                                   !.read = store, !.had = remembered]]
      BY <1>0, <2>1 DEF Load
    <3>2. \A q \in Slots : cmd'[q].by = cmd[q].by
      BY <1>0, <3>1 DEF CommandSet
    <3> QED
      BY <1>0, <3>1, <3>2, AskBelongs
  <2>2. ASSUME NEW pc, cmd' = [cmd EXCEPT ![s].pc = pc], view' = view PROVE Belongs'
    <3>1. \A q \in Slots : cmd'[q].by = cmd[q].by
      BY <1>0, <2>2 DEF CommandSet
    <3> QED
      BY <1>0, <2>2, <3>1, AskBelongs
  <2> QED
    BY <1>2, <2>1, <2>2 DEF Truncate, Write, Kill
<1>3. ASSUME NEW s \in Slots, Terminal(s) PROVE Belongs'
  <2>1. PICK k, p, put : Start(s, Command(k, "terminal", p, put))
    BY <1>3 DEF Terminal
  <2>2. view' = view /\ \A r \in Slots : cmd'[r].by = "terminal" \/ cmd'[r].by = cmd[r].by
    BY <1>0, <1>3, <2>1 DEF Terminal, Start, Command
  <2> QED
    BY <1>0, <2>2, AskBelongs, TerminalIsNoPage
<1>4. ASSUME NEW t \in Tabs, NEW s \in Slots, SaveProfile(t, s) \/ Remember(t, s) PROVE Belongs'
  <2>1. PICK k, p, put : Start(s, Command(k, t, p, put))
    BY <1>4 DEF SaveProfile, Remember
  <2>2. view' = view /\ Listed(t) /\ \A r \in Slots : cmd'[r].by = t \/ cmd'[r].by = cmd[r].by
    BY <1>0, <1>4, <2>1 DEF SaveProfile, Remember, Start, Command
  <2> QED
    BY <1>0, <2>2, AskBelongs DEF Listed
<1> QED
  BY <1>1, <1>2, <1>3, <1>4 DEF Ask

(* A request is sent: by a launch from a page that lists, or it is none.   *)
LEMMA SendBelongs ==
    ASSUME ComposerIInv, NEW c \in Calls, NEW r, call' = [call EXCEPT ![c] = r],
           r.kind = "launch" /\ r.by \in Tabs => Listed(r.by) \/ (call[c].kind = "launch" /\ r.by = call[c].by),
           UNCHANGED <<open, view, cmd, panel>>
    PROVE  Belongs'
<1>1. call \in [Calls -> Requests]
  BY DEF ComposerIInv, LaunchInv, LaunchTyped
<1>2. \A d \in Calls : call'[d] = IF d = c THEN r ELSE call[d]
  BY <1>1
<1> QED
  BY <1>2, RunBelongs DEF ComposerIInv

LEMMA LaunchBelongs ==
    ASSUME ComposerIInv, UNCHANGED <<formVars, credVars>>,
           \/ \E t \in Tabs, c \in Calls : Press(t, c) \/ StopPanel(t, c)
           \/ \E c \in Calls : JobsPage(c) \/ Lose(c)
           \/ Machine \/ ExecutorExits
    PROVE  Belongs'
<1>0. /\ UNCHANGED <<open, view, cmd>> /\ Belongs
      /\ call \in [Calls -> Requests] /\ DOMAIN panel = Tabs
  BY DEF ComposerIInv, LaunchInv, LaunchTyped, formVars, credVars
<1>1. ASSUME NEW t \in Tabs, NEW c \in Calls, Press(t, c) PROVE Belongs'
  BY <1>0, <1>1, SendBelongs DEF Press, Launch, Send, Request, PageVars
<1>2. ASSUME NEW t \in Tabs, NEW c \in Calls, StopPanel(t, c) \/ PollTick(t, c) PROVE Belongs'
  BY <1>0, <1>2, SendBelongs DEF StopPanel, PollTick, Send, Request, PageVars
<1>3. ASSUME NEW c \in Calls, JobsPage(c) PROVE Belongs'
  <2>1. PICK j \in Jobs, k \in {"stop", "rerun"} : Send(c, Request(k, Nobody, j))
    BY <1>3 DEF JobsPage
  <2> QED
    BY <1>0, <1>3, <2>1, SendBelongs DEF JobsPage, Send, Request, PageVars
<1>4. ASSUME NEW c \in Calls, Lose(c) PROVE Belongs'
  BY <1>0, <1>4, SendBelongs DEF Lose, Free, Request, PageVars
<1>5. ASSUME NEW c \in Calls, Handle(c) PROVE Belongs'
  <2>1. UNCHANGED panel
    BY <1>5 DEF Handle, PageVars
  <2>2. ASSUME NEW a, call' = [call EXCEPT ![c].answer = a] PROVE Belongs'
    <3>1. \A d \in Calls : call'[d].kind = call[d].kind /\ call'[d].by = call[d].by
      BY <1>0, <2>2 DEF Requests
    <3> QED
      BY <1>0, <2>1, <3>1, RunBelongs
  <2>3. ASSUME NEW a, NEW j, call' = [call EXCEPT ![c].answer = a, ![c].job = j] PROVE Belongs'
    <3>1. call' = [call EXCEPT ![c] = [call[c] EXCEPT !.answer = a, !.job = j]]
      BY <1>0, <2>3
    <3>2. \A d \in Calls : call'[d].kind = call[d].kind /\ call'[d].by = call[d].by
      BY <1>0, <3>1 DEF Requests
    <3> QED
      BY <1>0, <2>1, <3>2, RunBelongs
  <2>4. CASE HandlePost(c)
    <3>1. \/ call' = [call EXCEPT ![c].answer = "refused"]
          \/ \E to \in {"waiting", "active"} :
                call' = [call EXCEPT ![c].answer = to, ![c].job = NextJob]
      BY <2>4 DEF HandlePost, Answered
    <3> QED
      BY <3>1, <2>2, <2>3
  <2>5. CASE HandleStop(c)
    BY <2>2, <2>5 DEF HandleStop, Answered
  <2>6. CASE HandlePoll(c)
    BY <2>2, <2>6 DEF HandlePoll, Answered
  <2> QED
    BY <1>5, <2>4, <2>5, <2>6 DEF Handle
<1>6. ASSUME NEW c \in Calls, Deliver(c) PROVE Belongs'
  <2> DEFINE r == call[c]
  <2>1. call' = [call EXCEPT ![c] = Free]
    BY <1>6 DEF Deliver
  <2>2. \A d \in Calls : call'[d].kind = "launch" => call'[d] = call[d]
    BY <1>0, <2>1 DEF Free, Request
  <2>3. CASE r.by \in Tabs /\ r.kind = "launch" /\ r.answer # "refused"
    <3>1. panel' = [panel EXCEPT ![r.by] = [job |-> r.job, phase |-> r.answer]] /\ Listed(r.by)
      BY <1>0, <1>6, <2>3 DEF Deliver, Show, Belongs
    <3> QED
      BY <1>0, <2>2, <3>1, RunBelongs
  <2>4. CASE r.by \in Tabs /\ r.kind = "poll" /\ Ours(r.by, r.job)
    <3>1. panel' = [panel EXCEPT ![r.by] = [job |-> r.job, phase |-> r.answer]]
      BY <1>6, <2>4 DEF Deliver, Show
    <3>2. r.job = panel[r.by].job
      BY <2>4 DEF ComposerIInv, LaunchInv, CardIsLatest, Ours
    <3> QED
      BY <1>0, <2>2, <3>1, <3>2, RunBelongs
  <2>5. CASE ~(r.by \in Tabs /\ r.kind = "launch" /\ r.answer # "refused")
                /\ ~(r.by \in Tabs /\ r.kind = "poll" /\ Ours(r.by, r.job))
    <3>1. UNCHANGED panel
      BY <1>6, <2>5 DEF Deliver
    <3> QED
      BY <1>0, <2>2, <3>1, RunBelongs
  <2> QED
    BY <2>3, <2>4, <2>5
<1>7. ASSUME UNCHANGED <<call, panel>> PROVE Belongs'
  BY <1>0, <1>7, RunBelongs
<1> QED
  BY <1>1, <1>2, <1>3, <1>4, <1>5, <1>6, <1>7 DEF Machine, Claim, Done, SeeExecutor, ExecutorExits, PageVars

LEMMA BelongsStep == ComposerIInv /\ [Next]_vars => Belongs'
<1> SUFFICES ASSUME ComposerIInv, [Next]_vars PROVE Belongs'
  OBVIOUS
<1>0. Belongs
  BY DEF ComposerIInv
<1>1. CASE UNCHANGED <<open, view, cmd, call, panel>>
  BY <1>0, <1>1, AskBelongs
<1>2. ASSUME NEW t \in Tabs, FormOnly(Edit(t)) PROVE Belongs'
  BY <1>0, <1>2, EditKeepsOpen, AskBelongs DEF FormOnly, credVars, launchVars
<1>3. CASE Act
  BY <1>1, <1>2, <1>3, LeaveBelongs, CredBelongs, LaunchBelongs
     DEF Act, CredOnly, PrefOnly, RunOnly, formVars, credVars, launchVars
<1>4. CASE Program
  BY <1>1, <1>4, OpenBelongs, AnswerBelongs, CredBelongs, LaunchBelongs
     DEF Program, CredOnly, PrefOnly, RunOnly, formVars, credVars, launchVars
<1> QED
  BY <1>1, <1>3, <1>4 DEF Next, User, vars, formVars, credVars, launchVars

(* The parts of the composer keep their shapes, and fit together: a page   *)
(* has a run tab's card only while its form is open and its credentials    *)
(* are listed, for a job that was posted (experiment.tsx, launcher.tsx).   *)
THEOREM ComposerTypeCorrect == Spec => []TypeOK
<1>1. Init => ComposerIInv
  BY BelongsInit, FormInitFollows, PrefInitAgrees, CredInitKept, LaunchInitInv DEF Init, ComposerIInv
<1>2. ComposerIInv /\ [Next]_vars => ComposerIInv'
  BY BelongsStep, StepIsOfTheParts, FormStepFollows, PrefStepAgrees, CredStepKept, LaunchStepInv DEF ComposerIInv
<1> QED
  BY <1>1, <1>2, WholeTyped, PTL DEF Spec
=============================================================================
