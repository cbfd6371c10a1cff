# adb: a TLA+ model of the agent data bank

The repository runs AI experiments, records each run as an append-only stream
of events, lets a user queue runs from a browser on their own machine, and
publishes finished runs to an object store that a static viewer reads. This
directory models the parts of it where several actors share state, checks them
with TLC on small instances, and proves some of the results with TLAPS for
every size.

```
browser ──HTTP──> adb-local server ──claims──> executor worker ──spawns──> build, adb run
 (web/src)        server.ts, queue.ts          runner/worker.py                  │
    │ polls             │ jobs/<id>.json             reports, done               ▼
    │                   ▼                                            execute_run (protocol.py)
    │             read-only readers <──── runs/<exp>/<run>/{events.jsonl, run.json}
    │             (runs.ts, events.ts)                        ▲            ▲
    ▼                                                  stdout/stderr   Unix socket
 published viewer <── bucket <── adb publish / index      └── experiment (adb-events) ──┘
```

## Inventory

| component | state | operations | what makes it correct |
|---|---|---|---|
| local job queue (`web/src/server/queue.ts`) | map of jobs, stop flags, parked claims, promise chain of writes, `jobs/<id>.json` | submit, claim, report, done, stop, interruptJobs, initJobs, flushJobs | one job at a time, oldest first, no lost wake-up, never replayed, cap holds also after a restart, memory and disk agree |
| local execution server (`server.ts`, `executor.ts`) | shuttingDown, ready, the child process | the job routes, start, shutdown, the child's close | server and executor agree on the job in flight; shutdown and death leave nothing in flight |
| executor worker (`runner/worker.py`) | current job, Reporter, the active process group | claim loop, execute (build, run, flushes), SIGTERM, errors | every job ends, a stop reaches it, every run is linked from its job |
| run protocol (`protocol.py`, `card.py`, `store.py`) | events.jsonl, the card and run.json, reader threads, queue, lock | run.start … run.end, capture, heartbeat, emitted events, warnings | the stream passes the audit, the card follows it, output is drained, the run closes |
| event transport (`lib/adb-events`) | one connection per event | emit, serve, reply | an acknowledged event is recorded exactly once; the emitter hears an answer |
| run verification (`verify.py`) | none | audit of a run, of realized values, of the canonical form | its lifecycle part is the invariant the recorder must keep |
| publication (`publish.py`, `index.py`) | the bucket, the index directory | existence check, upload, listing, fold, build | a published run is whole and immutable; the index lists what is published |
| credential store (`credentials.py`, `runner-cli.ts`) | one JSON file, the remembered profiles | list, set, remember, remove, resolve | a saved profile stays until a command changes it; a run gets the sets it names |
| composer form (`builder.tsx`, `run-draft.ts`) | the edits of each tab, the stored draft, the last model | every widget, reset, publication fields, materialize, missing | an edit is sent only with the values it was made for |
| command spelling and setup (`cmd-build.ts`, `cmd-rewrite.ts`, `cmd-prefs.ts`, the guide's `adb-commands.js`) | the stored setup, a copy per page | spell a value, build, rewrite, choose, storage events | the pasted command does what the button does; pages agree on the setup |
| launcher and jobs page (`launcher.tsx`, `jobs.tsx`) | the card and the job it follows, polls on their way | gate, launch, stop, re-run, poll | a card is about the last launch and does not call over what is not |
| run reader of the server (`runs.ts`, `events.ts`) | none (reads live files) | page of events from an offset, run list | no record lost or torn at a page boundary |
| browser polling (`data.ts`, `run.tsx`) | accumulated events, gate, caches | poll, append, stop when over | a view of a run converges to the whole stream |
| published source (`published-source.ts`) | caches of objects and of the index | refresh, location, records, resource | one consistent catalog; a failed read can be repeated |
| LLM client (`lib/adb-experiment/llm.py`) | none | call with retries, a record of each attempt | each attempt is recorded once |
| Inspect adapter (`lib/adb-inspect`) | streamed samples | stream events of an Inspect log | each sample event once, in order |
| runner command line, schema, canonical form | none | parsing, validation, binding | pure functions |
| viewer pages, experiments, packaging, docs | – | – | not modelled: rendering, third-party programs, build files |

What is hard here: the queue never awaits, but the routes around it do; replies
and requests between server and executor are lost or late while either side
dies; snapshot writes trail the memory they describe; the recorder has three
kinds of thread writing one file and an experiment whose descendants outlive
it; publication and the credential store have no lock at all; a page sends the
next request before it has the last answer, shares storage with other tabs, and
composes a command that two shells and a parser take apart again. `PROJECT.json`
lists each such place at its line, under `hazards`, with the properties that
would catch it going wrong.

## Modules

| module | models | code |
|---|---|---|
| `JobLifecycle` | abstract: absent, waiting, active, over; oldest first; capped | what queue.ts promises |
| `JobQueue` | the queue alone: one action per function, the write chain, exit, crash, restart | `queue.ts` |
| `JobQueueProofs` | theorems on `JobQueue` | – |
| `LocalExecution` | EXTENDS `JobQueue`: the routes, the executor process, the wire between them, signals, deaths, shutdown | `server.ts`, `executor.ts`, `worker.py` |
| `LocalExecutionProofs` | theorems on `LocalExecution`, over those on `JobQueue` | – |
| `RunProtocol` | one run: main loop, two readers, one handler per event, emitters, the experiment and its descendants | `protocol.py`, `card.py`, `store.py`, `lib/adb-events`, `verify.py:_records` |
| `RunProtocolProofs` | theorems on `RunProtocol` | – |
| `Publication` | publishers and a bucket, the indexer and the deployed index, a browser's refresh | `publish.py`, `index.py`, `published-source.ts` (list, refresh) |
| `PublicationProofs` | theorems on `Publication` | – |
| `RunReading` | the page of one run read while it is written, or published | `runs.ts`, `events.ts`, `run.tsx`, `data.ts`, `published-source.ts` (opening a run) |
| `RunReadingProofs` | theorems on `RunReading` | – |
| `Browser` | the pages of one browser | – |
| `CommandLine` | a command spelled, rewritten for a setup, taken apart by shells and runner; pure operators | `cmd-build.ts`, `cmd-rewrite.ts`, `adb-commands.js`, `shorthand.py` |
| `CommandPrefs` | the setup, stored and cached by pages | `cmd-prefs.ts`, `cmd-settings.tsx`, `adb-commands.js` |
| `BuilderForm` | the form in several tabs and its draft | `builder.tsx`, `run-draft.ts`, `cmd-build.ts` (materialize) |
| `Credentials` | commands over one credential set, the page's list, picks and forms | `credentials.py`, `runner-cli.ts`, `launcher.tsx` (set rows), `creds.ts` |
| `Launcher` | run tab and Jobs page against the server, over `JobLifecycle` | `launcher.tsx`, `jobs.tsx`, `data.ts` |
| `Composer` | the four together: the experiment page in the tabs of one browser, with the guide and a terminal | `builder.tsx`, `launcher.tsx`, `creds.ts` (routing of models to sets) |
| `ShellProofs`, `CommandLineProofs` | what a shell makes of a command; what is pasted does what the button does, for every text | – |
| `ComposerProofs` | theorems on the four parts; the composer implements them | – |
| `MC*` | the TLC instances: model values, symmetry | – |

Definitions keep the code's names. Operators commented "Mutant" are not part
of a specification: each is a definition changed the way a plausible bug would
change it, and is what the property listed with it in `PROJECT.json` catches.

### JobQueue

`queue.ts` never awaits, so a function is one action. `state`, `stopRequested`
and `runs` are the job map; `waiters` the parked long polls; `chain` is the
promise chain `persist` appends to, one link per call, each with the snapshots
taken at that moment; `disk` is the directory of job files. A job's id is its
rank of submission, which stands for `created_at`: the code sorts by it, and
equal times are left out. `handed` is a history variable. The two rules the
routes enforce on callers are in `Next`: a worker has one claim open, and only
a job that was given out is reported on or finished.

`interruptJobs` and `initJobs` put several snapshots on the chain in map order;
here they share a link whose files are written in any order.

`JobQueue` is shown to implement `JobLifecycle` (`LifecycleSpec`). While the
process is down, a file that says "in flight" counts as over: the next start
orphans it. Without a lost write a job moves forward only; once one was lost, by
a crash or a refusal, the abstract job may lapse to where it stood before, but
never becomes active without being given out again. That it is given out twice
is the finding of `queue_replay`, and how often is `ReplaysAreLosses`.

### LocalExecution

Requests of the executor travel on `wire` and are handled in order; each
carries whether its caller still waits (`live`). A caller that gave up leaves
its request behind: it may still be handled, or lost with its connection.
`pc` is the place in `worker.py`; the places in `Waiting` have a call open.
`proc` is the build or the experiment, `active` what `_active` refers to. The
two differ between `Popen` and the assignment (`SpawnBuild`, `SetBuild`), so a
signal in that window ends the executor and leaves the new group running.
SIGTERM (`Terminated`) can come at any place, as KeyboardInterrupt can.

A submit is two steps, `AdmitSubmit` (readiness is checked) and `RunSubmit`
(the body is in), because the route awaits the body in between.
`executor.ts`'s close event is `ExecutorClosed`, separate from the death.

Left out: when the server dies the executor's watch of its parent ends it at
most half a second later, here at once; the reader threads that hand run ids to
the Reporter are one step (`RunAnnounced`); narration logs; build caching.

### RunProtocol

`main` is the place in `execute_run`. `stream` is what other processes can read
of events.jsonl; `kept` holds lines whose flush failed, which Python's file
object keeps and writes with the next flush. `card` is the projection in
memory, kept as the sequence of records it has folded, and `file` is run.json.
`record_lock` is held across two actions only where a handler writes an event
and then its warning; every other writer completes under it in one action.

Disturbances share one bound: a call that raises (spawn, write, read, callback),
Ctrl-C, or SIGKILL. Ctrl-C inside the queue's `get` is caught and asks the
child to stop; the item `get` had just removed is lost with it. Anywhere else
it leaves `execute_run`, also between the two statements of `save_payload`.

Parameters may exceed the pipe (`unread`): then the main thread stays in its
write until the experiment reads them or nobody is left that could. A
descendant that keeps the pipe after the experiment has ended without reading
leaves it there for ever; `RunCloses` excepts exactly that.

Left out: the ten seconds of grace are a
guard (nothing queued, nothing readable), not a clock; one event per
connection, as the library sends; what the experiment's descendants do after
the runner is gone; the contents of events.

### Publication

A bucket holds up to two objects for each run, the stream and the card. A
publisher (`pub`) makes four calls, HEAD, HEAD, PUT, PUT, and any of them may
raise or be the last before it is killed; a PUT that raised may still have been
carried out. The indexer (`ix`) lists keys in order, in pages of any size,
while publishers go on. `site` is the directory it wrote as it is deployed: the
command deletes and rewrites a local directory, and whoever runs it deploys the
result only if it succeeded (`layout.md:152-156`), so the exchange is one step.
A browser (`page`, `shown`) reads the root, then one shard after the other,
with a new site possible before every read; a shard that is gone, or cannot be
read, becomes a diagnostic entry. `owed` and `whole`, `overlap` and
`overwritten` are history variables.

Two publishers of one run may both pass the HEADs and both PUT:
`OverwriteNeedsOverlap` says that this is the only way an object is put twice.

Left out: several stores; the filters are a fixed set `Wanted` and the gate a
set `Fit` per data directory; a card is unreadable by accident, not for ever; a
PUT that the client gave up on does not arrive later; a 304 answer is the same
text; the minute between refreshes is no clock; the manifest catalog.

### RunReading

The runner is the environment, as `RunProtocol` leaves it: it appends lines (a
reader may see the last one half written), replaces the card, or dies. `loads`
are the calls of `loadRunEvents` on their way, each at its place: sent, card
read, stream read, listed, failed. The card is read before the stream
(`ReadCard`, `ReadStream`), and the answer is immutable if that card was over;
`cached` is the browser's HTTP cache of such answers. `page` is the mounted
page with its refs, `kept` the entry of `runCache` a next visit starts from,
`lastSeq` counted as the number of records up to it. The timer does not look at
whether the poll before it has come back; `overlaps` counts when that happens.
A published run is read from objects opened by one promise (`opened`), which
stays rejected once it is.

Left out: rows and their layout; the list of runs and its filters; one run
only, so the caches' keys are not modelled.

### The composer

`BuilderForm` keeps the edits of each tab (`vals`), what they share through
localStorage (`draft`, `lastLlm`) and, as history, the value of the selector
under which each edit was made (`under`). One action per widget; all go through
`SetParam`, which is `set` of the form. What the form shows and sends for a
parameter is one chain of operators, `Seeded`, `Shown`, `Materialized`.

`CommandLine` has no state. A value is a sequence of characters from a small
alphabet that holds the ones the code treats specially (quotes, `$`, backslash,
newline, brackets). `BuildCmd` spells a command, `RewriteCmd` turns it into the
form for a setup, `Shell` reads a text as a POSIX shell does (external, modelled
from what the code relies on), `Argv` reads it again where `nix-shell --run`
hands it to a second shell, and `Bind` is the runner's parse. `SameCommand`
composes all of them. `SameFor` is evaluated for every text once for each setup
(`Pasted`); the property then looks up the setups that pages show and offer.

`CommandPrefs` has the stored record, the copy of each page and the storage
events on their way. A web page that is told reads the record anew; a page of
the guide reads it when it is opened and never listens.

`Credentials` models one credential set. A command is a process: it loads the
store and the remembered profile, truncates the file and writes it, each a
step, with no lock; the server kills one after fifteen seconds. A page probes
the list when it mounts, and each change it asks for leads to the next list.
`saved` is what completed commands wrote, `lost` says that two writing commands
overlapped or that one was killed between truncation and write.

`Launcher` has requests of pages in `call`, handled and answered in any order,
or lost. The queue behind the routes is `JobLifecycle` without lost writes,
which `queue` shows `JobQueue` implements.

`Composer` ties them: the models of the form decide whether the credential set
is used (`SetsUsed`), the list decides whether there is a run tab (`Listed`,
`AnswerPage`), what is missing and unresolved whether the button is enabled
(`Press`). Mounting a page starts form and probe, leaving it drops all.

Left out: JSON typed by hand is a choice of values; validation messages; the
log pane of a job; several credential sets, the resolution of a profile at the
start of a run and the file permissions; other browsers.

## Runs

| run | instance | asks |
|---|---|---|
| `queue` | 3 jobs, cap 2, 2 workers, 1 crash, 1 refused write, clean exits | `ReplaysAreLosses`, `NothingUnsaved`, `BacklogCapped`, `NoLostWakeup`, `ServedInOrder`, refinement `LifecycleSpec` |
| `local_safety` | 2 jobs, 1 fault (lost call or SIGKILL), 1 shutdown | `HeldIsInFlight`, `RunsLinked`, `TerminalIsOver`, `QueueSpec` |
| `local_live` | 1 job, 1 fault, 1 server crash, 1 shutdown, fair | `StopEndsJob`, `EveryJobEnds` |
| `run_safety` | 2 emitters of one result, 1 line, 1 disturbance | the audit, the card, acknowledgements, drained output, warnings, nothing after the end |
| `run_live` | 1 emitter of an undeclared result, 1 line, 1 disturbance, fair | `RunCloses`, `EmitReturns` |
| `publication` | 2 runs of 2 experiments, 2 publishers that share one, 1 failure, fair | `CardCommits`, `OverwriteNeedsOverlap`, `IndexComplete`, `NothingHidden`, `EventuallyListed` |
| `viewer` | 3 records, one elided; 2 loads, 2 visits, 1 failure, 1 overlapping poll; local and published; fair | `ShownIsPrefix`, `TwiceNeedsOverlap`, `ImmutableIsWhole`, `PollsUntilEnd`, `EndReachesPage` |
| `composer` | 2 tabs, 1 guide page, 2 commands and 2 requests at once, 2 profiles of 2 fields, 6 parameters, 2 jobs, 2 acts of users | `SameCommand`, `DependantFollows`, `ProfileKept`, `PrefsAgree`, `PanelTells` |
| `queue_replay`, `local_final`, `local_late`, `run_seq` | the smallest instance that shows it | one documented claim each that the code does not keep |

Why these bounds. Overtaking needs an older and a newer job, and the cap needs
one job more than it allows: 3 jobs with a cap of 2. A parked claim and a
second one need 2 workers in the queue alone; in the composition the server has
one executor, which the assumption on `Workers` says. One crash and one refused
write meet every prefix of the chain, since the chain (at most 3 or 4 links)
holds the snapshots of every life stage of a job at once. One lost call and one
shutdown already give late reports, late dones, a second done and a claim left
behind. Two emitters of one result are what "reported before" needs, and a line
next to them makes all three kinds of writer compete for one sequence; one
disturbance hits every place once. In `Publication` two publishers of one run
are what overlap needs; two runs have four keys, so a page may end between a
stream and its card or between runs, and two experiments give two shards that
can come from different sites. In `RunReading` a torn line, an elided record
and run.end each need a record of its own, and an overlap two loads. In
`Composer` the machine runs freely and only what users do is counted
(`MaxActs`, which also counts killed commands and the executor's end): two acts
are two crossing choices of setup, two commands on one store, a launch after a
launch, or an edit in one tab after an edit in another. `EarlierModels` are the
last models earlier visits left. `Texts` are all texts of one and two
characters of the alphabet and those that look like JSON around one; `Setups`
leaves out only toggles the menu hides. Tabs, commands, requests and fields are
interchangeable in every definition, and no liveness is checked there, so the
symmetry is sound. `RunProtocol` stops when the run is over, `RunReading` and
`Composer` when their users have, and `CHECK_DEADLOCK FALSE` says so; the queue
never stops.

A second fault after the first is not in the safety runs: the instances grow to
tens of millions of states. The theorems below have no such bound.

### Fairness

`local_live` assumes weak fairness of what the server's event loop does (each
request that arrived, the 25 s hold, the body of an admitted submit, the close
event, exit, the writes) and of the executor's thread, and that a SIGTERM is
delivered. The loop and the thread run as long as their processes do; each
of these actions stays enabled until taken. Nothing is assumed of clients, of
faults, of the restart, or of how long a build or an experiment takes.
`EveryJobEnds` has as its premise that builds and experiments end (`WorkEnds`);
`StopEndsJob` has no such premise, because the executor interrupts them.

`run_live` assumes weak fairness of the main thread, the readers and the
handlers, without their failing branches and without the heartbeat; a handler's
failure is not forced, since each handler also has a normal step. Nothing is
assumed of the experiment: `RunCloses` begins when it has exited, and holds
also when descendants never end. `MaxLines` bounds what they print; one that
prints for ever keeps resetting the grace, and the run stays open.

`publication` assumes that a browser's refresh goes on (the page asks again on a
timer, each read returns or raises) and that the indexer is run again and again.
The second is an assumption on whoever keeps a site: nothing in the repository
starts the indexer. No publisher has to do anything: `EventuallyListed` begins
when a run is whole.

`viewer` assumes that a request is answered (a load goes on, or fails), that the
opening of a published run goes on, and that the timer of a page with no poll
pending fires. Nothing is assumed of the runner or the reader of the page:
`EndReachesPage` begins when the card says over and a page is open, and a page
that is left, or a published run that failed to open, is excepted.

`composer` checks safety only, so it states no fairness.

## Findings

* `queue_replay`: `queue.ts:1` says that in-flight jobs never replay on
  restart. The claim is answered before the `claimed` snapshot is on disk; a
  crash in between and the job is handed out again. `ReplaysAreLosses` is what
  holds of it.
* `local_final`: `data.ts:89-90` says a job in a terminal state will never
  change again. `done` assigns without looking: a SIGTERM that crosses the
  executor's own done call makes a completed job stopped.
* `local_late`: `local.test.ts:160-163` expects that with the executor dead its
  job is orphaned and submits are refused. A submit whose readiness check came
  before the death and whose body came after is given to the dead executor's
  parked claim and stays claimed until the server restarts.
* `run_seq`: `events.md:49` says `seq` increases within a run. A line whose
  flush failed stays in the buffer and is written by the next flush, with the
  number the next record also takes.

Known losses that no document denies: a report that fails loses its batch of
run ids (`worker.py:161-175` takes the batch before the call, and the comment's
"next tick" has none left to send), and a job that a crash
returned to the queue has lost the run ids it was told, so `RunsLinked` is
stated for histories without a failing call, a crash or a refused write; a refused snapshot write is logged and not repeated
(`queue.ts:36`), so `NothingUnsaved` and `BacklogCapped` are stated for
histories without one; and a write refused to the recorder leaves a gap or a
duplicate, so the parts of the audit that number records say `used.faults = 0`.

Further ones, in the browser and the store:

* Overlapping polls append the same records twice (`run.tsx:41-60`), so
  `TwiceNeedsOverlap` has its premise. A half-written last line makes the server
  refuse the whole stream until it is complete. A poll that fails puts the
  unreadable panel in the place of the rows; when the end was already shown,
  no timer is left to take it away.
* A published object whose first read failed stays failed for the session
  (`published-source.ts:60`).
* Two commands on the credential store at once lose one change; the server's
  SIGKILL between truncation and write loses the store. `ProfileKept` excepts
  both.
* A reply of a poll that is overtaken by a newer one takes a card back to an
  earlier phase until the next poll. A job that a crashed server forgot is 404
  for ever, and its card keeps saying that a job is running. A second click
  before the answer posts the job twice. A credentials list that fails hides
  the run tab and drops the live card.
* A model parameter left at its declared default is not routed
  (`setsUsed` is given the seeded values), so no credential row appears for it.
* `set` drops direct dependants only, and only on an edit of the selector.
* Pages of the guide do not listen for storage events and overwrite the stored
  setup with the copy they have.
* A list that is not JSON and spans lines breaks the wrapped `nix-shell --run`
  form (`cmd-build.ts:64-65`); `SameCommand` excepts it.

## Proofs

All theorems hold for every value of the constants that the named assumptions
allow; the bounds of the runs are gone, the counters that bound faults are
arbitrary numbers. Each module proves `Spec => []Inv` for one inductive
invariant or a few that build on each other: it holds at first, every action
keeps it (one step per action), and it implies the property. TLC checked the
strengthenings before they were proved, on the runs' instances or smaller ones.

| module | theorem | property | from |
|---|---|---|---|
| `JobQueueProofs` | `TypeCorrect`, `WakeupNeverLost`, `OldestFirst`, `NothingIsUnsaved`, `BacklogAlwaysCapped`, `ReplayedOncePerLoss` | `TypeOK`, `NoLostWakeup`, `ServedInOrder`, `NothingUnsaved`, `BacklogCapped`, `ReplaysAreLosses` | `QueueAssumption` |
| | `QueueIsLifecycle` | `LifecycleSpec` | |
| `LocalExecutionProofs` | `LocalTypeCorrect`, `HeldAgrees`, `RunsAreLinked`, `TerminalNeverReturns` | `LocalTypeOK`, `HeldIsInFlight`, `RunsLinked`, `TerminalIsOver` | `QueueAssumption`, `LocalAssumption` |
| | `LocalUsesQueue`, `LocalIsLifecycle` | `QueueSpec`, `LifecycleSpec` | |
| `RunProtocolProofs` | `RunTypeCorrect`, `AckedIsRecordedOnce`, `FinishedRunsPassTheAudit`, `CardNeverAhead`, `NothingIsRecordedAfterEnd`, `OutputIsDrained`, `WarningsFollowAtOnce` | `TypeOK`, `AckedIsRecorded`, `AuditPasses`, `CardFollowsStream`, `NothingAfterEnd`, `OutputDrained`, `WarningFollows` | `RunAssumption` |
| `PublicationProofs` | `PublicationTypeCorrect`, `CardNeverAlone`, `OverwriteOnlyInOverlap`, `IndexMissesNothing`, `RefreshHidesNothing` | `TypeOK`, `CardCommits`, `OverwriteNeedsOverlap`, `IndexComplete`, `NothingHidden` | `PublicationAssumption` |
| `RunReadingProofs` | `ReadTypeCorrect`, `NeverAHole`, `TwiceOnlyIfOverlapped`, `OnlyWholeIsKept`, `NeverQuietEarly` | `TypeOK`, `ShownIsPrefix`, `TwiceNeedsOverlap`, `ImmutableIsWhole`, `PollsUntilEnd` | `ReadingAssumption` |
| `CommandLineProofs` (over `ShellProofs`) | `CommandSame` | `SameFor` of every text, kind and setup | – |
| `ComposerProofs` | `DependantAlwaysFollows`, `PrefsAlwaysAgree`, `CommandAlwaysSame`, `ProfileAlwaysKept`, `PanelAlwaysTells` | `DependantFollows`, `PrefsAgree`, `SameCommand`, `ProfileKept`, `PanelTells` | `SelectorsPlain`, `TextsTyped`, `DefaultIsProfile`, `JobsAreCounted`, names that differ |
| | `ComposerKeeps`, `ComposerTypeCorrect` | those five of the whole, `TypeOK` | the same |

### The queue

`Wakeup` adds to `NoLostWakeup` that nothing is parked when the server is down,
since a restart loads queued jobs. `OldestFirst` follows from it: `submit` hands
its job straight to a parked claim without looking at the queue, and only
because a parked claim means an empty queue does it overtake nobody.

The queue's `TypeOK` is proved as `TypeCorrect` and model-checked as a conjunct
of `LocalTypeOK`, in `local_safety`.

`SaveInv` relates memory, chain and disk. The versions of a job are its file
and its snapshots on the chain, oldest first (`Ver`). `InOrder` says that their
states only go forward and none is ahead of memory; that holds also when writes
were refused. While none was, some version is as far as memory (`Reached`), the
newest is memory itself (`Newest`), a snapshot of a queued job shares its link
with nobody (`Single`), and after any prefix of the chain the jobs that a crash
would leave queued are no more than the cap (`Capped`). The last is why
`BacklogCapped` holds after a restart, and is not inductive alone: it needs
that each of those jobs was live when its link was appended. `Fresh` and `Dead`
say what is known of jobs not yet submitted, and of a process that is down.

`ReplayedOncePerLoss` says how far the claim of `queue_replay` is wrong: each
crash and each refused write costs a job one replay at most, and without any no
job is given out twice. `ReplayInv` adds that a job of which neither a file nor
a link says that it was given out has been given out no more often than there
were losses. It needs `InOrder`: a job that memory has as queued has no such
trace, and a snapshot is never written over one that is ahead of it.

`QueueIsLifecycle` takes `SaveInv` to show that a crash, which sets a job back
to its file, is a step the abstract lifecycle has: it lapses, or is over.

### Server and executor

`LocalInv` adds to the queue's invariants what may be on the wire at each place
of `worker.py`. The executor makes one call at a time, so a request it still
waits for is the last on the wire and everything before it is late (`Wired`);
a reply is read before the next request is sent (`Answered`); a parked claim
means that nothing is in flight (`Parked`); while it executes a job that job is
the one in flight, and only its reports are on the wire (`Places`). Every
request therefore speaks of a job that was given out, in states the queue
accepts, which is what makes every step of the routes a step of `JobQueue`
(`QueueStep`, `LocalUsesQueue`). `HeldAgrees` is `Places`. For `RunsAreLinked`,
`Linked` follows each announced run id: unsent, on the wire, or in the job
(`Underway`), nothing unsent when the last call is made (`Flushed`), and hence
all of them in the job when a done of it is handled (`DonesLinked`).
`LocalAssumption` has the states the executor reports and one executor.

### The recorder

`Typed` is the type invariant with records in full. `Handlers` ties
`record_lock`, the socket and what emitters heard. On these rest: `Events`, an
event is written at most once, not before its handler is at it, and is in the
stream once ok was said; `Edges`, where run.start and run.end may be and which
place of `execute_run` goes with them; `CardFollows`, that without a fault the
card has folded the stream, whose numbers have no gap, and run.json a prefix of
it; `Warned`, that a suspect result is the last record only while its handler
holds the lock; `Ends`, how many readers are over and how many of their end
marks are still queued; `Drained`, that each line printed is in the pipe, in
the queue or in the log, in order, and that a pipe is left only with an error
queued or recorded. `AckedIsRecordedOnce`, `NothingIsRecordedAfterEnd` and the
lifecycle part of the audit hold with failed writes, Ctrl-C and SIGKILL
anywhere.

### Publication

`StreamFirst` adds to `CardCommits` that a publisher about to put the card has
put the stream. `Alone` says that as long as one publisher has a run to itself,
what the HEADs told it still describes the bucket. `Listing` says that every
key before `pos` that a run whole at the start has was seen, and that nothing
was seen that is not in the bucket; objects are never removed (`BucketGrows`),
so both survive whatever publishers do between two pages. `SiteInv` adds the
browser: each run that an index it read owes it waits for its shard, is among
the rows or has a diagnostic entry (`Accounted`).

### Reading a run

A load of the page starts at a record whose predecessors were all shown when it
was sent, and a mounted page never drops a record, so an answer fits in
whenever it arrives (`LoadSound`, `AnswerFits`). `OnlyWholeIsKept` needs that a
load that read "over" on the card finds the whole stream after it, since the
runner writes that card last (`CardSound`). `NeverQuietEarly` needs that the
timer is off only by the record that ends the run, and that before it is set
the first load is under way (`TimerSound`). `OnceInv` says that until polls
overlap the page shows exactly the records before the one it would ask from,
and its one load begins there.

### The command

`CommandSame` says for every `raw \in Seq(Chars)`, of any length, every kind of
parameter and every setup what the runs evaluate for short texts (`SameFor`):
the runner reads the posted string as the value the form shows, the pasted
command gives it the posted strings, and the guide rewrites the command to the
same text. The directory, the second parameter and the publication around the
value are those of the model. The value excepted by `Exempt` is excepted here.

* *Reading is a fold.* The operators of `CommandLine` read a text with a
  recursive function over its positions. `ShellProofs` shows that such a
  function is unique and that reading `t \o u` is reading `u` after `t`
  (`FoldConcat`), by the least position at which two readings would differ.
  `FoldSpell` then turns a claim about each character (what the escape of `c`
  does to the state of the reader) into one about every text.
* *One shell.* In single quotes each character is read as itself and `'` as its
  escape; so are the characters of a bare value outside quotes. An argument
  adds its flag and its value to the words, whatever follows, and leaves the
  shell outside quotes: the arguments behind a head of any setup are the posted
  strings, up to the first flag.
* *Lines.* `rewriteCmd` works on lines, a value may hold newlines. A text cut at
  a newline splits as its two sides do (`LinesThen`), joining undoes the split,
  and the lines under the head go through the rewriting unchanged, the continued
  ones and those of a value in quotes alike.
* *Two shells.* In the wrapped form each line is escaped up to its continuing
  backslash. The outer shell, within double quotes, undoes the escape and drops
  the continuation with its newline, so the inner shell is handed the same
  arguments, each behind blanks. This needs that the value is on one line.
* *The value.* `JSON.stringify` is read back as the text it spells
  (`StringifyRead`), a literal that stands bare is a number on both sides, and a
  list that parses is passed on as it stands; what the form flags, the runner
  refuses (`ValueUnderstood`).

### The composer

* `CommandAlwaysSame`: `CommandSame` for the texts of the run and whatever setup
  a page holds or its menu offers.
* `DependantAlwaysFollows`: `FormIInv` says of every tab and of the draft that
  an edit of a dependant was made under the value its selector has now; the
  draft must be covered because mounting a form takes it over.
* `PrefsAlwaysAgree`: a page that is not told has what is stored; `PrefInv` adds
  that the stored record is empty or whole.
* `ProfileAlwaysKept`: `CredIInv` says that while nothing was lost at most one
  command is between its load and its write, and that what it read is what the
  store had then.
* `PanelAlwaysTells`: the ref and the card are about the last launch; an answer
  "over" to a poll stays true because a job that is over stays over.
* `ComposerKeeps`: each step of the composer is a step or a stutter of each part
  (`ActIsOfTheParts`, `ProgramIsOfTheParts`), so it implements all four and
  keeps what each keeps.
* `ComposerTypeCorrect`: `Belongs` adds to the parts' invariants that what a page
  has asked for belongs to an open form, and its launches to one with a run tab.

`SelectorsPlain` is a real restriction: a selector that is a model, or depends
on another parameter, changes what it shows without an edit, and then the form
keeps edits made for the old value.

### Model-checked only

Every safety property of a passing run is proved. Out of the prover's reach is
all liveness, and with it `ENABLED`: `StopEndsJob`, `EveryJobEnds`, `RunCloses`,
`EmitReturns`, `EventuallyListed`, `EndReachesPage`. The claims of the findings
(`NeverReplayed`, `TerminalIsFinal` and the others) are what TLC refutes.

## Not modelled

* Resolution of profiles at the start of a run, the permission check of the
  store, and what `adb credentials` prints.
* The runner's command line and schema beyond what a pasted or posted `--set`
  goes through; the canonical form. They are sequential and pure.
* The LLM client's retries, the Inspect adapter and the experiments: programs
  the system runs, whose events `RunProtocol` takes as they come.
* The catalog of manifests, results tables, event rows, forms of a value: they
  render what other components provide.
* Build files, scripts, packaging, the book's text.

## Plan

1. `JobLifecycle`, `JobQueue`, `LocalExecution`, `RunProtocol`, `Publication`,
   `RunReading` and the composer's modules — done, with the proofs above.
2. Proofs of every safety property that the runs check and of both refinements,
   the commands for texts of every length among them — done.
3. Proofs still worth having: that `Launcher` over `JobLifecycle` holds over the
   queue itself; the exact histories in which a number is drawn twice, as an
   invariant in place of the refuted claim.
4. The resolution of a profile at the start of a run beside a concurrent
   command; the catalog that the published site reads once.
5. The LLM client's retries and the Inspect adapter's stream.
