---------------------------- MODULE Credentials ----------------------------
(***************************************************************************)
(* The profiles of one credential set: the store and the preference file   *)
(* of runner credentials.py, the commands that read and write them, and    *)
(* the page that runs such commands through the server                     *)
(* (web/src/server/runner-cli.ts, the credential rows of                   *)
(* web/src/components/launcher.tsx, web/src/lib/creds.ts).                 *)
(* A command loads the whole file, changes it, truncates the file and      *)
(* writes it again, without a lock.  The server kills a command after      *)
(* fifteen seconds; a command in a terminal takes as long as its user.     *)
(* A profile is the set of the fields it holds, {} if it does not exist.   *)
(***************************************************************************)
EXTENDS Naturals, FiniteSets, Browser

CONSTANTS Slots, Profiles, Default, NoProfile,
    BuiltIn,    \* the set is one of the registry: it must be configured
    Fields,     \* the fields of the set's row in the registry
    Convention  \* the key and the address that a set outside the registry has
ASSUME DefaultIsProfile == Default \in Profiles /\ NoProfile \notin Profiles
ASSUME TerminalIsNoPage == "terminal" \notin Tabs \cup {Nobody}

VARIABLES
    store,      \* profile -> the fields in credentials.toml
    remembered, \* the profile in preferences.toml
    cmd,        \* slot -> the command that runs there, or Idle
    view,       \* page -> "closed", "probing", "gone" or "listed", and what was listed
    choice,     \* page -> the profile picked, "new", or NoProfile
    saved,      \* history: profile -> fields written and not removed
    lost        \* history: writing commands overlapped, or one was killed mid-write
credVars == <<store, remembered, cmd, view, choice, saved, lost>>

Empty == [p \in Profiles |-> {}]
Command(kind, by, profile, put) ==
    [kind |-> kind, by |-> by, profile |-> profile, put |-> put, pc |-> "load",
     read |-> Empty, had |-> NoProfile]
Idle == [Command("idle", Nobody, NoProfile, {}) EXCEPT !.pc = "idle"]
View(at, profiles, had) == [at |-> at, profiles |-> profiles, remembered |-> had]
ListFor(t) == Command("list", t, NoProfile, {})
Writes(s) == cmd[s].kind \in {"set", "remove"}

CredInit ==
    /\ store = Empty
    /\ remembered = NoProfile
    /\ cmd = [s \in Slots |-> Idle]
    /\ view = [t \in Tabs |-> View("closed", {}, NoProfile)]
    /\ choice = [t \in Tabs |-> NoProfile]
    /\ saved = Empty
    /\ lost = FALSE

-----------------------------------------------------------------------------
(* What a page makes of the last list.                                     *)
Listed(t) == view[t].at = "listed"
InitialProfile(t) ==
    CASE view[t].remembered \in view[t].profiles -> view[t].remembered
      [] view[t].remembered \notin view[t].profiles /\ Default \in view[t].profiles -> Default
      [] OTHER -> IF Cardinality(view[t].profiles) = 1 THEN CHOOSE p \in view[t].profiles : TRUE
                  ELSE NoProfile
Selected(t)   == IF choice[t] # NoProfile THEN choice[t] ELSE InitialProfile(t)
NeedsSetup(t) == BuiltIn /\ view[t].profiles = {}
FormOpen(t)   == choice[t] = "new" \/ NeedsSetup(t)
Unresolved(t) == /\ Selected(t) \in {NoProfile, "new"}
                 /\ NeedsSetup(t) \/ view[t].profiles # {}

Start(s, c) ==
    /\ cmd[s] = Idle
    /\ cmd' = [cmd EXCEPT ![s] = c]

(* The fields the profile form and the prompts offer.                      *)
TemplateRows == IF BuiltIn THEN Fields ELSE Convention

(* The page: the probe, a pick, the profile form, the remember button.     *)
Probe(t, s) ==
    /\ view[t].at = "closed"
    /\ view' = [view EXCEPT ![t] = View("probing", {}, NoProfile)]
    /\ Start(s, ListFor(t))
    /\ UNCHANGED <<store, remembered, choice, saved, lost>>
ClosePage(t) ==
    /\ view[t].at # "closed"
    /\ view' = [view EXCEPT ![t] = View("closed", {}, NoProfile)]
    /\ choice' = [choice EXCEPT ![t] = NoProfile]
    /\ cmd' = [s \in Slots |-> IF cmd[s].by = t THEN [cmd[s] EXCEPT !.by = Nobody] ELSE cmd[s]]
    /\ UNCHANGED <<store, remembered, saved, lost>>
Pick(t) ==
    /\ Listed(t) /\ view[t].profiles # {}
    /\ \E p \in (view[t].profiles \cup {"new"}) \ {choice[t]} : choice' = [choice EXCEPT ![t] = p]
    /\ UNCHANGED <<store, remembered, cmd, view, saved, lost>>
SaveProfile(t, s) ==
    /\ Listed(t) /\ FormOpen(t)
    /\ \E p \in Profiles, put \in SUBSET TemplateRows : Start(s, Command("set", t, p, put))
    /\ UNCHANGED <<store, remembered, view, choice, saved, lost>>
Remember(t, s) ==
    /\ Listed(t) /\ view[t].profiles # {}
    /\ Selected(t) \notin {NoProfile, "new", view[t].remembered}
    /\ Start(s, Command("remember", t, Selected(t), {}))
    /\ UNCHANGED <<store, remembered, view, choice, saved, lost>>

(* A terminal: set with its prompts, remove, remember.                     *)
Terminal(s) ==
    /\ \/ \E p \in Profiles, put \in SUBSET TemplateRows \ {{}} : Start(s, Command("set", "terminal", p, put))
       \/ \E k \in {"remove", "remember"}, p \in Profiles : Start(s, Command(k, "terminal", p, {}))
    /\ UNCHANGED <<store, remembered, view, choice, saved, lost>>

-----------------------------------------------------------------------------
(* The command.  It fails on what it read: a set with nothing to save, a   *)
(* profile to remove or to remember that is not there.                     *)
Fails(c) ==
    \/ c.kind = "set" /\ store[c.profile] \cup c.put = {}
    \/ c.kind \in {"remove", "remember"} /\ store[c.profile] = {}
Step(c) == IF Fails(c) THEN "failed" ELSE IF c.kind = "list" THEN "done" ELSE "truncate"
InFlight(r) == Writes(r) /\ cmd[r].pc \in {"truncate", "write"}
Load(s) ==
    /\ cmd[s].pc = "load"
    /\ cmd' = [cmd EXCEPT ![s].pc = Step(cmd[s]), ![s].read = store, ![s].had = remembered]
    /\ lost' = (lost \/ (Writes(s) /\ \E r \in Slots \ {s} : InFlight(r)))
    /\ UNCHANGED <<store, remembered, view, choice, saved>>

Truncate(s) ==
    /\ cmd[s].pc = "truncate"
    /\ cmd' = [cmd EXCEPT ![s].pc = "write"]
    /\ store' = IF Writes(s) THEN Empty ELSE store
    /\ remembered' = IF Writes(s) THEN remembered ELSE NoProfile
    /\ UNCHANGED <<view, choice, saved, lost>>

(* Mutant: the set's table is replaced. *)
ChangedAlone(c) ==
    [p \in Profiles |-> IF p = c.profile /\ c.kind = "set" THEN c.read[p] \cup c.put ELSE {}]
(* Values that are given replace the old ones, the others are kept.        *)
Changed(c) ==
    [p \in Profiles |-> IF p # c.profile THEN c.read[p]
                        ELSE IF c.kind = "set" THEN c.read[p] \cup c.put ELSE {}]
Write(s) ==
    /\ cmd[s].pc = "write"
    /\ cmd' = [cmd EXCEPT ![s].pc = "done"]
    /\ store' = IF Writes(s) THEN Changed(cmd[s]) ELSE store
    /\ remembered' = IF Writes(s) THEN remembered ELSE cmd[s].profile
    /\ saved' = CASE cmd[s].kind = "set" -> [saved EXCEPT ![cmd[s].profile] = @ \cup cmd[s].put]
                  [] cmd[s].kind = "remove" -> [saved EXCEPT ![cmd[s].profile] = {}]
                  [] OTHER -> saved
    /\ UNCHANGED <<view, choice, lost>>

(* The fifteen seconds of the server are over.                             *)
Kill(s) ==
    /\ cmd[s].pc \in {"load", "truncate", "write"} /\ cmd[s].by # "terminal"
    /\ cmd' = [cmd EXCEPT ![s].pc = "failed"]
    /\ lost' = (lost \/ (Writes(s) /\ cmd[s].pc = "write"))
    /\ UNCHANGED <<store, remembered, view, choice, saved>>

(* The answer: a list becomes the page's view, a failed one hides the run  *)
(* tab; what was saved is picked, and then the page lists again.           *)
Inventory(c) == View("listed", {p \in Profiles : c.read[p] # {}}, c.had)
Answer(s) ==
    LET c == cmd[s] IN
    /\ c.pc \in {"done", "failed"}
    /\ cmd' = [cmd EXCEPT ![s] =
                  IF c.by \in Tabs /\ c.kind # "list" /\ c.pc = "done" THEN ListFor(c.by) ELSE Idle]
    /\ view' = IF c.by \in Tabs /\ c.kind = "list"
               THEN [view EXCEPT ![c.by] = IF c.pc = "done" THEN Inventory(c)
                                                ELSE View("gone", {}, NoProfile)] ELSE view
    /\ choice' = IF c.by \notin Tabs THEN choice
                 ELSE CASE c.kind = "set" /\ c.pc = "done" /\ Listed(c.by) -> [choice EXCEPT ![c.by] = c.profile]
                        [] c.kind = "list" /\ c.pc = "failed" -> [choice EXCEPT ![c.by] = NoProfile]
                        [] OTHER -> choice
    /\ UNCHANGED <<store, remembered, saved, lost>>

Run(s) == Load(s) \/ Truncate(s) \/ Write(s) \/ Kill(s) \/ Answer(s)
CredNext ==
    \/ \E s \in Slots : Terminal(s) \/ Run(s)
    \/ \E t \in Tabs, s \in Slots : Probe(t, s) \/ SaveProfile(t, s) \/ Remember(t, s)
    \/ \E t \in Tabs : Pick(t) \/ ClosePage(t)
CredSpec == CredInit /\ [][CredNext]_credVars

-----------------------------------------------------------------------------
(* What a command saved stays until it is removed, its other fields and    *)
(* the other profiles included, unless commands that write overlapped or   *)
(* one was killed between the truncation and the write                     *)
(* (credentials.py _set_json: "empty/absent keep").                        *)
Writing == \E s \in Slots : Writes(s) /\ cmd[s].pc = "write"
ProfileKept == lost \/ Writing \/ \A p \in Profiles : saved[p] \subseteq store[p]
=============================================================================
