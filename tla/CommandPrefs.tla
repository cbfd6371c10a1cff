---------------------------- MODULE CommandPrefs ----------------------------
(***************************************************************************)
(* The reader's Nix setup: one record in localStorage, a copy of it in     *)
(* every page of the web app (web/src/lib/cmd-prefs.ts) and of the guide   *)
(* (docs/book/theme/adb-commands.js).  A choice changes the page's copy    *)
(* and stores it whole; the browser tells the other pages, in any order    *)
(* relative to their own choices, and only the web app listens.            *)
(***************************************************************************)
EXTENDS CommandLine, Browser

VARIABLES
    stored,     \* the record in localStorage, empty at first
    cached,     \* page -> its copy
    told        \* web page -> storage events on their way to it, with the value written
prefVars == <<stored, cached, told>>

(* What a page makes of the record: the defaults, overwritten by it.       *)
Overwritten(record, defaults) ==
    [k \in DOMAIN defaults |-> IF k \in DOMAIN record THEN record[k] ELSE defaults[k]]
LoadPrefs(record) == Overwritten(record, DEFAULTS)
GuideLoad(record) == Overwritten(record, DEFAULTS)

PrefInit ==
    /\ stored = <<>>
    /\ cached = [g \in Tabs \cup GuidePages |-> DEFAULTS]
    /\ told = [w \in Tabs |-> <<>>]

(* The rows of the menu: a toggle appears where it means something.        *)
MenuChoices(p) ==
    {[p EXCEPT !.source = x] : x \in {"github", "local"}}
        \cup {[p EXCEPT !.mode = x] : x \in {"nix-build", "flakes", "nix-run"}}
        \cup (IF p.source = "github" THEN {[p EXCEPT !.latest = ~@]} ELSE {})
        \cup (IF p.mode = "flakes" THEN {[p EXCEPT !.flakes = ~@]} ELSE {})
        \cup (IF p.mode = "flakes" /\ p.source = "github" THEN {[p EXCEPT !.registry = ~@]} ELSE {})
        \cup (IF p.mode = "nix-run" THEN {[p EXCEPT !.nixRun = ~@]} ELSE {})

Save(page, p) ==
    /\ cached' = [cached EXCEPT ![page] = p]
    /\ stored' = p
    /\ told' = [w \in Tabs |-> IF w # page /\ p # stored THEN Append(told[w], p) ELSE told[w]]

SetCmdPrefs(w) == \E p \in MenuChoices(cached[w]) : p # cached[w] /\ Save(w, p)

(* The gear menu of the guide offers the same rows.                        *)
GuideChoices(p) == MenuChoices(p)
GuideUpdate(g) == \E p \in GuideChoices(cached[g]) : p # cached[g] /\ Save(g, p)

(* A page of the guide reads the record when it is opened, never again.    *)
GuideOpen(g) ==
    /\ cached[g] # GuideLoad(stored)
    /\ cached' = [cached EXCEPT ![g] = GuideLoad(stored)]
    /\ UNCHANGED <<stored, told>>

(* Mutant: the page takes the value of the event. *)
OnStorageValue(w) ==
    /\ told[w] # <<>>
    /\ told' = [told EXCEPT ![w] = Tail(@)]
    /\ cached' = [cached EXCEPT ![w] = told[w][1]]
    /\ UNCHANGED stored

(* The event only says that the record was written: the page reads it.     *)
OnStorage(w) ==
    /\ told[w] # <<>>
    /\ told' = [told EXCEPT ![w] = Tail(@)]
    /\ cached' = [cached EXCEPT ![w] = LoadPrefs(stored)]
    /\ UNCHANGED stored
ChoosePrefs == \/ \E w \in Tabs : SetCmdPrefs(w)
          \/ \E g \in GuidePages : GuideUpdate(g)
PrefNext == \/ ChoosePrefs
            \/ \E g \in GuidePages : GuideOpen(g)
            \/ \E w \in Tabs : OnStorage(w)
PrefSpec == PrefInit /\ [][PrefNext]_prefVars

-----------------------------------------------------------------------------
(* A page of the web app that has been told of every write shows commands  *)
(* for the setup that is stored, however the pages' choices crossed        *)
(* (cmd-prefs.ts:1-5).                                                     *)
PrefsAgree == \A w \in Tabs : told[w] = <<>> => cached[w] = LoadPrefs(stored)

(* Under the setup that a page shows, and under each that its menu offers, *)
(* the pasted command gives the runner the strings that the button posts,  *)
(* and the runner reads them as the value the form shows (or refuses what  *)
(* the form flags); among the lines of a guide's page it is rewritten to   *)
(* the same text (cmd-build.ts:70-76, cmd-rewrite.ts:1-6 and 91-97).  A    *)
(* list that is not JSON and spans lines is left out for the wrapped form: *)
(* there the shells break it.                                              *)
SameCommand ==
    \A g \in Tabs \cup GuidePages :
        \A p \in Setups \cap ({cached[g]} \cup MenuChoices(cached[g])) : <<p, TRUE>> \in Pasted
=============================================================================
