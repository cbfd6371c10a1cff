----------------------------- MODULE RunReading -----------------------------
(***************************************************************************)
(* A browser opens the page of one run while the runner still writes it.   *)
(* The server answers each request from the files as they are at that      *)
(* moment (web/src/server/runs.ts, events.ts, the run routes of            *)
(* server.ts); the page accumulates the answers (pages/run.tsx,            *)
(* lib/data.ts).  On a published site lib/published-source.ts answers      *)
(* instead, from objects it opens once.  The runner is the environment, as *)
(* RunProtocol leaves it: it appends lines, replaces the card, and may die *)
(* anywhere.                                                               *)
(***************************************************************************)
EXTENDS Naturals, Sequences, FiniteSets, SequencesExt

CONSTANTS
    RunEnd,      \* the seq of run.end: the run's records are 0..RunEnd
    Large,       \* records the list elides although the page displays them
    Loads,       \* bound: event loads in flight at once
    MaxVisits,   \* bound: times the page is opened
    MaxFailures, \* bound: requests that fail for reasons outside the files
    MaxOverlaps  \* bound: polls started while another one is in flight

ASSUME ReadingAssumption ==
    /\ RunEnd \in Nat
    /\ Large \subseteq 0..RunEnd
    /\ MaxVisits \in Nat
    /\ MaxFailures \in Nat
    /\ MaxOverlaps \in Nat

Records == 0..RunEnd
Whole   == RunEnd + 1
Lengths == 0..Whole

VARIABLES
    mode,     \* "local" or "published", fixed before the page mounts
    store,    \* what the runner left on disk: lines, torn, card, alive
    loads,    \* loads[l]: one call of loadRunEvents
    cached,   \* cached[n]: length of the answer the browser keeps for a list
              \* after n records, 0 if it keeps none
    full,     \* fullEventCache: the records read in full
    opened,   \* published: the one promise of the run's records
    page,     \* the mounted page: its refs, its error, its timer
    kept,     \* runCache of this run
    visits, failures, overlaps

source == <<mode, store, cached, full, opened>>
shows  == <<page, kept>>
bounds == <<visits, failures, overlaps>>
vars == <<mode, store, loads, cached, full, opened, page, kept,
          visits, failures, overlaps>>

(* lastSeq is kept as the number of records up to it: the query's "after"  *)
(* is one less.                                                            *)
Load == [phase : {"idle", "sent", "stream", "answer", "listed", "failed"},
         owner : {"page", "gone", "prefetch"},
         from : Lengths, upto : Lengths, over : BOOLEAN]
Idle    == [phase |-> "idle", owner |-> "gone", from |-> 0, upto |-> 0, over |-> FALSE]
Nothing == [shown |-> <<>>, known |-> 0]
Closed  == [open |-> FALSE, shown |-> <<>>, known |-> 0, error |-> FALSE, timer |-> "off"]

Free        == {l \in Loads : loads[l].phase = "idle"}
Busy(owner) == {l \in Loads : loads[l].phase # "idle" /\ loads[l].owner = owner}

(* The records of an answer, oldest first, and what the page shows.        *)
Fresh(n, m) == [i \in 1..(IF n < m THEN m - n ELSE 0) |-> n + i - 1]
Done(shown) == RunEnd \in ToSet(shown)

-----------------------------------------------------------------------------
Init ==
    /\ mode \in {"local", "published"}
    /\ store = IF mode = "local"
               THEN [lines |-> 0, torn |-> FALSE, card |-> "none", alive |-> TRUE]
               ELSE [lines |-> Whole, torn |-> FALSE, card |-> "over", alive |-> FALSE]
    /\ loads = [l \in Loads |-> Idle]
    /\ cached = [n \in Lengths |-> 0]
    /\ full = {}
    /\ opened = "none"
    /\ page = Closed
    /\ kept = Nothing
    /\ visits = 0 /\ failures = 0 /\ overlaps = 0

-----------------------------------------------------------------------------
(* The runner.  A line may be seen half written; the card follows the      *)
(* stream, and says that the run is over only after run.end.               *)
Disk(s) == store' = s /\ UNCHANGED <<mode, loads, cached, full, opened, shows, bounds>>

TearLine ==
    /\ store.alive /\ ~store.torn /\ store.lines < Whole
    /\ Disk([store EXCEPT !.torn = TRUE])
WriteRecord ==
    /\ store.alive /\ store.lines < Whole
    /\ Disk([store EXCEPT !.torn = FALSE, !.lines = @ + 1])
WriteCard ==
    /\ store.alive /\ ~store.torn /\ store.lines > 0
    /\ Disk([store EXCEPT !.card = IF store.lines = Whole THEN "over" ELSE "running"])
RunnerDies == store.alive /\ Disk([store EXCEPT !.alive = FALSE])

Runner == TearLine \/ WriteRecord \/ WriteCard \/ RunnerDies

-----------------------------------------------------------------------------
(* One load.  An answer the browser keeps is used without asking again.    *)
NewLoad(owner, n) ==
    IF mode = "local" /\ cached[n] # 0
    THEN [phase |-> "listed", owner |-> owner, from |-> n, upto |-> cached[n], over |-> TRUE]
    ELSE [phase |-> "sent", owner |-> owner, from |-> n, upto |-> n, over |-> FALSE]

(* A call of loadRunEvents.  Which free place it takes does not matter.    *)
Start(owner, n) ==
    /\ Free # {}
    /\ loads' = [loads EXCEPT ![CHOOSE l \in Loads : l \in Free] = NewLoad(owner, n)]

Becomes(l, load) == loads' = [loads EXCEPT ![l] = load]
Moves(l, phase)  == Becomes(l, [loads[l] EXCEPT !.phase = phase])

(* readDirectory: the card first; without one the answer is 404.           *)
ReadCard(l) ==
    /\ mode = "local" /\ loads[l].phase = "sent"
    /\ IF store.card = "none" THEN Moves(l, "failed")
       ELSE Becomes(l, [loads[l] EXCEPT !.phase = "stream", !.over = store.card = "over"])
    /\ UNCHANGED <<source, shows, bounds>>

(* Then the stream: one line that does not parse and all of it is 422.     *)
LinesParse == ~store.torn
ReadStream(l) ==
    /\ loads[l].phase = "stream"
    /\ IF LinesParse THEN Becomes(l, [loads[l] EXCEPT !.phase = "answer", !.upto = store.lines])
                     ELSE Moves(l, "failed")
    /\ UNCHANGED <<source, shows, bounds>>

(* The list for a run that is over is immutable: the browser keeps it.     *)
Answered(l, over) ==
    /\ loads[l].phase = "answer"
    /\ Moves(l, "listed")
    /\ cached' = [cached EXCEPT ![loads[l].from] = IF over THEN loads[l].upto ELSE @]
    /\ UNCHANGED <<mode, store, full, opened, shows, bounds>>

(* Mutant: the state is read again when the answer is sent. *)
AnswerWithNewState(l) == Answered(l, store.card = "over")
Answer(l) == Answered(l, loads[l].over)

(* Records whose displayed fields were elided are fetched one by one; one  *)
(* that cannot be read fails the load.                                     *)
(* The route of one record reads the whole stream again.                   *)
ReadRecord(q) == IF LinesParse THEN {q} \cap (0..store.lines - 1) ELSE {}
Elides(q) == q \in Large
Elided(l) == {q \in Records \ full : Elides(q) /\ loads[l].from <= q /\ q < loads[l].upto}
FetchFull(l) ==
    /\ mode = "local" /\ loads[l].phase = "listed"
    /\ \E q \in Elided(l) :
          IF ReadRecord(q) = {} THEN Moves(l, "failed") /\ UNCHANGED full
          ELSE full' = full \cup ReadRecord(q) /\ UNCHANGED loads
    /\ UNCHANGED <<mode, store, cached, opened, shows, bounds>>

(* Published: records() opens the card, checks it, opens the stream; every *)
(* later load waits for that promise, and one that was rejected stays so.  *)
OpenPublished ==
    /\ mode = "published"
    /\ \E l \in Loads : loads[l].phase = "sent"
    /\ \/ opened = "none" /\ opened' = "card"
       \/ opened = "card" /\ opened' = "stream"
       \/ opened = "stream" /\ opened' = "whole"
    /\ UNCHANGED <<mode, store, loads, cached, full, shows, bounds>>
OpenFails ==
    /\ opened \in {"card", "stream"}
    /\ failures < MaxFailures
    /\ failures' = failures + 1
    /\ opened' = "rejected"
    /\ UNCHANGED <<mode, store, loads, cached, full, shows, visits, overlaps>>
Settled(l) ==
    /\ mode = "published" /\ loads[l].phase = "sent"
    /\ \/ opened = "whole" /\ Becomes(l, [loads[l] EXCEPT !.phase = "listed", !.upto = Whole])
       \/ opened = "rejected" /\ Moves(l, "failed")
    /\ UNCHANGED <<source, shows, bounds>>

(* The connection or the server is lost, or the list lost the location.    *)
RequestFails(l) ==
    /\ \/ loads[l].phase \in {"sent", "stream", "answer"}
       \/ mode = "local" /\ loads[l].phase = "listed" /\ Elided(l) # {}
    /\ failures < MaxFailures
    /\ failures' = failures + 1
    /\ Moves(l, "failed")
    /\ UNCHANGED <<source, shows, visits, overlaps>>

-----------------------------------------------------------------------------
Overlapping == Busy("page") # {}

(* Mutant: the last record is asked for again. *)
PollFromLast ==
    /\ page.open /\ page.timer = "on"
    /\ Overlapping => overlaps < MaxOverlaps
    /\ overlaps' = IF Overlapping THEN overlaps + 1 ELSE overlaps
    /\ Start("page", IF page.known = 0 THEN 0 ELSE page.known - 1)
    /\ UNCHANGED <<source, shows, visits, failures>>

(* The page's effect: a first poll at once, then one every two seconds     *)
(* until what is shown has run.end.  The timer does not look at whether    *)
(* the poll before it has come back.                                       *)
Poll ==
    /\ page.open /\ page.timer = "on"
    /\ Overlapping => overlaps < MaxOverlaps
    /\ overlaps' = IF Overlapping THEN overlaps + 1 ELSE overlaps
    /\ Start("page", page.known)
    /\ UNCHANGED <<source, shows, visits, failures>>

(* Mutant: the card alone says when to stop. *)
TimerByCard(shown) ==
    IF store.card = "over" THEN "off" ELSE IF page.timer = "first" THEN "on" ELSE page.timer

TimerAfter(shown) ==
    IF Done(shown) THEN "off" ELSE IF page.timer = "first" THEN "on" ELSE page.timer

(* Mutant: runCache gets the new lastSeq beside the events before it. *)
AppendStale(n, m) ==
    LET shown == page.shown \o Fresh(n, m) IN
    /\ page' = [page EXCEPT !.error = FALSE, !.shown = shown,
                            !.known = IF n < m THEN m ELSE @,
                            !.timer = TimerAfter(shown)]
    /\ kept' = IF n < m THEN [shown |-> page.shown, known |-> m] ELSE kept

AppendFresh(n, m) ==
    LET shown == page.shown \o Fresh(n, m) IN
    /\ page' = [page EXCEPT !.error = FALSE, !.shown = shown,
                            !.known = IF n < m THEN m ELSE @,
                            !.timer = TimerAfter(shown)]
    /\ kept' = IF n < m THEN [shown |-> shown, known |-> m] ELSE kept

(* prefetchRun, on a click in the list: it looks at the cache before it    *)
(* asks and not after.                                                     *)
Prefetch ==
    /\ kept = Nothing /\ Busy("prefetch") = {}
    /\ Start("prefetch", 0)
    /\ UNCHANGED <<source, shows, bounds>>
(* Mutant: the length is kept where the last seq belongs. *)
KeepLength(m) ==
    /\ kept' = [shown |-> Fresh(0, m), known |-> m + 1]
    /\ UNCHANGED page
KeepPrefetched(m) ==
    /\ kept' = [shown |-> Fresh(0, m), known |-> m]
    /\ UNCHANGED page

(* The answer reaches whoever asked; a page that was left drops it.        *)
Delivered(l) ==
    /\ loads[l].phase = "listed"
    /\ mode = "local" => Elided(l) = {}
    /\ CASE loads[l].owner = "page"     -> AppendFresh(loads[l].from, loads[l].upto)
         [] loads[l].owner = "prefetch" -> KeepPrefetched(loads[l].upto)
         [] loads[l].owner = "gone"     -> UNCHANGED shows
    /\ Becomes(l, Idle)
    /\ UNCHANGED <<source, bounds>>

(* Mutant: a first poll that fails leaves the page without a timer. *)
RejectedForGood(l) ==
    /\ loads[l].phase = "failed"
    /\ page' = IF loads[l].owner = "page"
               THEN [page EXCEPT !.error = TRUE, !.timer = IF @ = "first" THEN "off" ELSE @]
               ELSE page
    /\ Becomes(l, Idle)
    /\ UNCHANGED <<source, kept, bounds>>

(* A failed poll puts the unreadable panel in the place of every row.      *)
Rejected(l) ==
    /\ loads[l].phase = "failed"
    /\ page' = IF loads[l].owner = "page"
               THEN [page EXCEPT !.error = TRUE,
                        !.timer = IF @ = "first" THEN TimerAfter(page.shown) ELSE @]
               ELSE page
    /\ Becomes(l, Idle)
    /\ UNCHANGED <<source, kept, bounds>>

(* The route mounts the page on what runCache has; leaving it stops it.    *)
Visit ==
    /\ ~page.open /\ visits < MaxVisits
    /\ visits' = visits + 1
    /\ page' = [open |-> TRUE, shown |-> kept.shown, known |-> kept.known,
                error |-> FALSE, timer |-> "first"]
    /\ Start("page", kept.known)
    /\ UNCHANGED <<source, kept, failures, overlaps>>
Leave ==
    /\ page.open
    /\ page' = Closed
    /\ loads' = [l \in Loads |-> IF l \in Busy("page")
                                 THEN [loads[l] EXCEPT !.owner = "gone"] ELSE loads[l]]
    /\ UNCHANGED <<source, kept, bounds>>

Reader == Poll \/ Prefetch \/ Visit \/ Leave

Answers(l) ==
    \/ ReadCard(l) \/ ReadStream(l) \/ Answer(l) \/ FetchFull(l) \/ Settled(l)
    \/ Delivered(l) \/ Rejected(l)

Next ==
    \/ Runner
    \/ OpenPublished \/ OpenFails
    \/ \E l \in Loads : Answers(l) \/ RequestFails(l)
    \/ Reader

Spec == Init /\ [][Next]_vars

(* A request is answered, and the timer of a page that waits for nothing   *)
(* fires.  Nothing is assumed of the runner or of the reader.              *)
Fairness ==
    /\ \A l \in Loads : WF_vars(Answers(l))
    /\ WF_vars(OpenPublished)
    /\ WF_vars(~Overlapping /\ Poll)

FairSpec == Spec /\ Fairness

-----------------------------------------------------------------------------
(* Properties.                                                             *)

Sequence == Seq(Records)
TypeOK ==
    /\ mode \in {"local", "published"}
    /\ store \in [lines : Lengths, torn : BOOLEAN, card : {"none", "running", "over"},
                  alive : BOOLEAN]
    /\ loads \in [Loads -> Load]
    /\ cached \in [Lengths -> Lengths]
    /\ full \subseteq Large
    /\ opened \in {"none", "card", "stream", "whole", "rejected"}
    /\ page \in [open : BOOLEAN, shown : Sequence, known : Lengths, error : BOOLEAN,
                 timer : {"first", "on", "off"}]
    /\ kept \in [shown : Sequence, known : Lengths]
    /\ visits \in 0..MaxVisits
    /\ failures \in 0..MaxFailures
    /\ overlaps \in 0..MaxOverlaps

(* Incremental reading never leaves a hole: whatever order the answers of  *)
(* overlapping polls, of a prefetch and of an earlier visit arrive in, the *)
(* page, and the cache the next visit starts from, hold every record       *)
(* before the newest one they hold and before the one they would ask from. *)
HasNoHole(shown, known) ==
    /\ \A q \in ToSet(shown) : \A r \in 0..q : r \in ToSet(shown)
    /\ \A q \in Records : q < known => q \in ToSet(shown)
ShownIsPrefix == HasNoHole(page.shown, page.known) /\ HasNoHole(kept.shown, kept.known)

(* A record is shown twice only if polls overlapped: two loads that began  *)
(* at the same record both append what they bring.                         *)
OnceEach(shown) == \A i, j \in DOMAIN shown : shown[i] = shown[j] => i = j
TwiceNeedsOverlap == overlaps = 0 => OnceEach(page.shown) /\ OnceEach(kept.shown)

(* An answer the browser keeps for a year is the whole stream: the card is *)
(* read before the stream, so a list marked immutable was read after the   *)
(* runner had written run.end.                                             *)
ImmutableIsWhole == \A n \in Lengths : cached[n] \in {0, Whole}

(* A page never goes quiet early: if it is open, waits for no poll and has *)
(* no timer running, then it holds run.end.  A poll that failed meanwhile  *)
(* hides the rows but does not stop the reading.                           *)
PollsUntilEnd ==
    page.open /\ Busy("page") = {} /\ page.timer # "on" => Done(page.shown)

(* The end of a run reaches every page that stays open, whatever failed or *)
(* was read half written before; published, unless opening it failed.      *)
EndReachesPage ==
    store.card = "over" /\ page.open ~>
        Done(page.shown) \/ ~page.open \/ opened = "rejected"
=============================================================================
