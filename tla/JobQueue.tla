------------------------------ MODULE JobQueue ------------------------------
(***************************************************************************)
(* The local job queue of adb-local (web/src/server/queue.ts): an          *)
(* in-memory map of jobs, the long-poll claims waiting for one, and the    *)
(* serial chain of snapshot writes that makes the map durable.  The module *)
(* is the queue alone; who calls it, and in which order, is left open up   *)
(* to the two rules the HTTP routes enforce (see Next).  LocalExecution    *)
(* composes it with the server process and its one executor.               *)
(***************************************************************************)
EXTENDS Naturals, Sequences, FiniteSets, SequencesExt

CONSTANTS
    MaxJobs,           \* bound: jobs submitted over the whole history
    Workers,           \* processes that may hold a claim open
    RunIds,            \* run ids an executor may report for a job
    Progress,          \* the states a report may carry, "none" for none
    Outcomes,          \* the final states an executor may give
    QueueCap,          \* QUEUE_CAP: non-terminal jobs accepted at once
    MaxChain,          \* bound: snapshots waiting to be written at once
    MaxCrashes,        \* bound: times the server process dies mid-flight
    MaxWriteFailures   \* bound: snapshot writes the file system refuses

ASSUME QueueAssumption ==
    /\ Progress \subseteq {"none", "building", "running"}
    /\ Outcomes \subseteq {"completed", "failed", "stopped", "error"}
    /\ MaxJobs \in Nat
    /\ QueueCap \in Nat \ {0}
    /\ MaxChain \in Nat
    /\ MaxCrashes \in Nat
    /\ MaxWriteFailures \in Nat

(* A job id is its submission rank: ids are random in the code, and the    *)
(* order that matters, created_at, is the order of submission.             *)
Jobs == 1..MaxJobs

InFlight   == {"claimed", "building", "running"}
Terminal   == {"completed", "failed", "stopped", "orphaned", "error"}
JobStates  == {"none", "queued"} \cup InFlight \cup Terminal

VARIABLES
    up,             \* the server process is alive
    submitted,      \* jobs created so far
    state,          \* state[j]: the job's state in memory, "none" if absent
    stopRequested,  \* stopRequested[j]: the in-memory stop flag
    runs,           \* runs[j]: the run ids reported for the job
    waiters,        \* parked claims, oldest first
    chain,          \* snapshots whose write has not happened, oldest first
    disk,           \* disk[j]: the content of jobs/<j>.json
    handed,         \* history: times a job was given to a claim
    crashes,        \* crashes so far
    failures        \* refused writes so far

memory == <<state, stopRequested, runs>>
faults == <<crashes, failures>>
vars == <<up, submitted, state, stopRequested, runs, waiters, chain, disk,
          handed, crashes, failures>>

Snapshot == [state : JobStates, runs : SUBSET RunIds]
Snap(st, rs) == [state |-> st, runs |-> rs]
NoFile == Snap("none", {})

(* A link of the chain: the snapshots of one call, NoFile where it took    *)
(* none.                                                                   *)
Link == [Jobs -> Snapshot]
EmptyLink == [j \in Jobs |-> NoFile]
LinkFor(j, snap) == [EmptyLink EXCEPT ![j] = snap]

QueuedJobs   == {j \in Jobs : state[j] = "queued"}
InFlightJobs == {j \in Jobs : state[j] \in InFlight}
Backlog      == QueuedJobs \cup InFlightJobs

(* Mutant: the newest queued job first. *)
IsNewestQueued(j) == j \in QueuedJobs /\ \A k \in QueuedJobs : j >= k

(* nextQueued: the queued job created first. *)
IsNextQueued(j) == j \in QueuedJobs /\ \A k \in QueuedJobs : j <= k

(* persist: the snapshot is taken now, its write waits for the chain.  The *)
(* jobs of one call are written in map order, which is left open here.     *)
PersistAll(S) ==
    chain' = IF S = {} THEN chain
             ELSE Append(chain, [j \in Jobs |->
                      IF j \in S THEN Snap(state'[j], runs'[j]) ELSE NoFile])
Persist(j) == PersistAll({j})

-----------------------------------------------------------------------------
Init ==
    /\ up = TRUE
    /\ submitted = 0
    /\ state = [j \in Jobs |-> "none"]
    /\ stopRequested = [j \in Jobs |-> FALSE]
    /\ runs = [j \in Jobs |-> {}]
    /\ waiters = <<>>
    /\ chain = <<>>
    /\ disk = [j \in Jobs |-> NoFile]
    /\ handed = [j \in Jobs |-> 0]
    /\ crashes = 0
    /\ failures = 0

-----------------------------------------------------------------------------
(* Handlers.  Each runs to completion: queue.ts never awaits.              *)

(* submit: create the job and, when a claim is parked, assign it at once;  *)
(* each of the two steps leaves its own snapshot.                          *)
CanSubmit == up /\ submitted < MaxJobs /\ Cardinality(Backlog) < QueueCap

(* Mutant: submit does not look at the parked claims. *)
SubmitUnnoticed ==
    LET j == submitted + 1 IN
    /\ CanSubmit
    /\ submitted' = j
    /\ state' = [state EXCEPT ![j] = "queued"]
    /\ UNCHANGED <<up, stopRequested, runs, waiters, disk, handed, faults>>
    /\ Persist(j)

SubmitParked ==
    LET j == submitted + 1 IN
    /\ CanSubmit
    /\ waiters = <<>>
    /\ submitted' = j
    /\ state' = [state EXCEPT ![j] = "queued"]
    /\ UNCHANGED <<up, stopRequested, runs, waiters, disk, handed, faults>>
    /\ Persist(j)

SubmitAssigned ==
    LET j == submitted + 1 IN
    /\ CanSubmit
    /\ waiters # <<>>
    /\ submitted' = j
    /\ waiters' = Tail(waiters)
    /\ state' = [state EXCEPT ![j] = "claimed"]
    /\ chain' = chain \o << LinkFor(j, Snap("queued", {})),
                            LinkFor(j, Snap("claimed", {})) >>
    /\ handed' = [handed EXCEPT ![j] = @ + 1]
    /\ UNCHANGED <<up, stopRequested, runs, disk, faults>>

Submit == SubmitParked \/ SubmitAssigned

(* claim: answered with nothing, and no change, while a job is in flight;  *)
(* else given the oldest queued job; else parked.                          *)
ClaimRefused == up /\ InFlightJobs # {}

ClaimQueued(j) ==
    /\ up
    /\ InFlightJobs = {}
    /\ IsNextQueued(j)
    /\ state' = [state EXCEPT ![j] = "claimed"]
    /\ handed' = [handed EXCEPT ![j] = @ + 1]
    /\ UNCHANGED <<up, submitted, stopRequested, runs, waiters, disk, faults>>
    /\ Persist(j)

IsParked(w) == w \in ToSet(waiters)

ClaimParked(w) ==
    /\ up
    /\ Backlog = {}
    /\ waiters' = Append(waiters, w)
    /\ UNCHANGED <<up, submitted, memory, chain, disk, handed, faults>>

(* The hold of CLAIM_HOLD_MS passed: the claim is answered with nothing.   *)
ClaimExpired(w) ==
    /\ up
    /\ \E i \in 1..Len(waiters) : waiters[i] = w /\ waiters' = RemoveAt(waiters, i)
    /\ UNCHANGED <<up, submitted, memory, chain, disk, handed, faults>>

(* report: a terminal job only answers "stop"; otherwise the state and the *)
(* run ids are merged and a snapshot follows, also when nothing changed.   *)
ReportState(j, st) == IF st = "none" THEN state[j] ELSE st
ReportStops(j) == state[j] \in Terminal \/ stopRequested[j]

(* Mutant: a terminal job reports. *)
ReportAlways(j, st, rs) ==
    /\ up
    /\ state' = [state EXCEPT ![j] = ReportState(j, st)]
    /\ runs' = [runs EXCEPT ![j] = @ \cup rs]
    /\ Persist(j)
    /\ UNCHANGED <<up, submitted, stopRequested, waiters, disk, handed, faults>>

Report(j, st, rs) ==
    /\ up
    /\ IF state[j] \in Terminal
       THEN UNCHANGED <<state, runs, chain>>
       ELSE /\ state' = [state EXCEPT ![j] = ReportState(j, st)]
            /\ runs' = [runs EXCEPT ![j] = @ \cup rs]
            /\ Persist(j)
    /\ UNCHANGED <<up, submitted, stopRequested, waiters, disk, handed, faults>>

(* done: the final state is taken as given, whatever the job's state is.   *)
Done(j, st) ==
    /\ up
    /\ state' = [state EXCEPT ![j] = st]
    /\ UNCHANGED <<up, submitted, stopRequested, runs, waiters, disk, handed,
                   faults>>
    /\ Persist(j)

(* Mutants: a stopped queued job is not saved; one in flight ends at once. *)
StopUnsaved(j) ==
    /\ up
    /\ state[j] = "queued"
    /\ state' = [state EXCEPT ![j] = "stopped"]
    /\ UNCHANGED <<up, submitted, stopRequested, runs, waiters, chain, disk,
                   handed, faults>>

StopAtOnce(j) ==
    /\ up
    /\ state[j] \in InFlight
    /\ state' = [state EXCEPT ![j] = "stopped"]
    /\ UNCHANGED <<up, submitted, stopRequested, runs, waiters, disk, handed,
                   faults>>
    /\ Persist(j)

(* stopJob: a queued job ends here, one in flight only gets the flag.      *)
StopQueued(j) ==
    /\ up
    /\ state[j] = "queued"
    /\ state' = [state EXCEPT ![j] = "stopped"]
    /\ UNCHANGED <<up, submitted, stopRequested, runs, waiters, disk, handed,
                   faults>>
    /\ Persist(j)

StopInFlight(j) ==
    /\ up
    /\ state[j] \in InFlight
    /\ stopRequested' = [stopRequested EXCEPT ![j] = TRUE]
    /\ UNCHANGED <<up, submitted, state, runs, waiters, chain, disk, handed,
                   faults>>

(* Mutant: what was in flight goes back to the queue. *)
RequeueJobs ==
    /\ up
    /\ state' = [j \in Jobs |-> IF state[j] \in InFlight THEN "queued"
                                ELSE state[j]]
    /\ UNCHANGED <<up, submitted, stopRequested, runs, waiters, disk, handed,
                   faults>>
    /\ PersistAll(InFlightJobs)

(* interruptJobs: the executor closed, so what was in flight is orphaned.  *)
InterruptJobs ==
    /\ up
    /\ state' = [j \in Jobs |-> IF state[j] \in InFlight THEN "orphaned"
                                ELSE state[j]]
    /\ UNCHANGED <<up, submitted, stopRequested, runs, waiters, disk, handed,
                   faults>>
    /\ PersistAll(InFlightJobs)

-----------------------------------------------------------------------------
(* The write chain and the life of the process.                            *)

WriteOf(j) == chain # <<>> /\ Head(chain)[j] # NoFile

(* The head of the chain without job j's snapshot. *)
ChainAfter(j) ==
    LET rest == [Head(chain) EXCEPT ![j] = NoFile] IN
    IF rest = EmptyLink THEN Tail(chain) ELSE <<rest>> \o Tail(chain)

(* Mutant: the writes run side by side, without the chain.                 *)
WriteUnordered(j) ==
    /\ up
    /\ \E i \in 1..Len(chain) :
          /\ chain[i][j] # NoFile
          /\ disk' = [disk EXCEPT ![j] = chain[i][j]]
          /\ chain' = RemoveAt(chain, i)
    /\ UNCHANGED <<up, submitted, memory, waiters, handed, faults>>

(* One link of the chain: write jobs/<j>.json.tmp, rename it into place.   *)
WriteSnapshot(j) ==
    /\ up
    /\ WriteOf(j)
    /\ disk' = [disk EXCEPT ![j] = Head(chain)[j]]
    /\ chain' = ChainAfter(j)
    /\ UNCHANGED <<up, submitted, memory, waiters, handed, faults>>

(* The write is refused: the error is logged and the chain goes on.        *)
WriteFails(j) ==
    /\ up
    /\ failures < MaxWriteFailures
    /\ WriteOf(j)
    /\ failures' = failures + 1
    /\ chain' = ChainAfter(j)
    /\ UNCHANGED <<up, submitted, memory, waiters, disk, handed, crashes>>

(* The process ends.  What only memory held is gone.                       *)
Down ==
    /\ up' = FALSE
    /\ state' = [j \in Jobs |-> "none"]
    /\ stopRequested' = [j \in Jobs |-> FALSE]
    /\ runs' = [j \in Jobs |-> {}]
    /\ waiters' = <<>>
    /\ chain' = <<>>
    /\ UNCHANGED <<submitted, disk, handed, failures>>

(* A clean exit leaves no write behind; a crash may.                       *)
Exit  == up /\ chain = <<>> /\ Down /\ UNCHANGED crashes
Crash == up /\ crashes < MaxCrashes /\ Down /\ crashes' = crashes + 1

(* Mutant: the restart takes up again what was in flight. *)
ResumeJobs ==
    /\ ~up
    /\ up' = TRUE
    /\ state' = [j \in Jobs |-> IF disk[j].state \in InFlight THEN "queued"
                                ELSE disk[j].state]
    /\ runs' = [j \in Jobs |-> disk[j].runs]
    /\ UNCHANGED <<submitted, stopRequested, waiters, chain, disk, handed, faults>>

(* initJobs, before the server listens: load every file, orphan what was   *)
(* in flight.                                                              *)
InitJobs ==
    /\ ~up
    /\ up' = TRUE
    /\ state' = [j \in Jobs |-> IF disk[j].state \in InFlight THEN "orphaned"
                                ELSE disk[j].state]
    /\ runs' = [j \in Jobs |-> disk[j].runs]
    /\ UNCHANGED <<submitted, stopRequested, waiters, disk, handed, faults>>
    /\ PersistAll({j \in Jobs : disk[j].state \in InFlight})

-----------------------------------------------------------------------------
(* The two rules on callers: a worker has at most one claim open, and only *)
(* the executor, which holds the capability, reports on or finishes a job, *)
(* and only one that was given out.                                        *)
GivenOut(j) == state[j] \notin {"none", "queued"}

(* Bound: a call is made only while the chain can take its snapshots.      *)
Room == Len(chain) + 2 <= MaxChain

Calls ==
    \/ Submit
    \/ \E j \in Jobs : ClaimQueued(j)
    \/ \E w \in Workers : ~IsParked(w) /\ ClaimParked(w)
    \/ \E w \in Workers : ClaimExpired(w)
    \/ \E j \in Jobs, st \in Progress, rs \in SUBSET RunIds :
          GivenOut(j) /\ Report(j, st, rs)
    \/ \E j \in Jobs, st \in Outcomes : GivenOut(j) /\ Done(j, st)
    \/ \E j \in Jobs : StopQueued(j)
    \/ \E j \in Jobs : StopInFlight(j)
    \/ InterruptJobs

Queue == Room /\ Calls

Storage ==
    \/ \E j \in Jobs : WriteSnapshot(j)
    \/ \E j \in Jobs : WriteFails(j)

Process == Exit \/ Crash \/ InitJobs

Next == Queue \/ Storage \/ Process

Spec == Init /\ [][Next]_vars

-----------------------------------------------------------------------------
(* Properties.                                                             *)

TypeOK ==
    /\ up \in BOOLEAN
    /\ submitted \in 0..MaxJobs
    /\ state \in [Jobs -> JobStates]
    /\ stopRequested \in [Jobs -> BOOLEAN]
    /\ runs \in [Jobs -> SUBSET RunIds]
    /\ waiters \in Seq(Workers)
    /\ chain \in Seq(Link)
    /\ disk \in [Jobs -> Snapshot]
    /\ handed \in [Jobs -> Nat]
    /\ crashes \in 0..MaxCrashes
    /\ failures \in 0..MaxWriteFailures

(* No lost wake-up: a parked claim and a queued job never wait for each    *)
(* other, through every order of submit, claim, stop, expiry and restart.  *)
(* queue.ts hands jobs to parked claims only from submit, so a job that    *)
(* became queued behind a parked claim would stay there.                   *)
NoLostWakeup == waiters # <<>> => QueuedJobs = {}

(* First in, first out: a claim is never given a job while an older one is *)
(* still queued, also on the submit path, which never looks at the queue.  *)
ServedInOrder ==
    [][\A j \in Jobs : handed'[j] # handed[j] =>
          \A k \in 1..(j - 1) : state'[k] # "queued"]_vars

(* The backlog cap holds at every moment, also after a crash anywhere in   *)
(* the write chain: the files go through the states of each job in the     *)
(* order the map did, so while no write is refused a restart cannot load   *)
(* more than QUEUE_CAP live jobs.                                          *)
BacklogCapped == up /\ failures = 0 => Cardinality(Backlog) <= QueueCap

(* Every change of a job reaches the chain: the newest snapshot of a job,  *)
(* pending or written, is what memory holds, so a clean exit loses nothing.*)
PendingFor(j) == {i \in 1..Len(chain) : chain[i][j] # NoFile}
IsNewest(j, i) == i \in PendingFor(j) /\ \A k \in PendingFor(j) : k <= i
NothingUnsaved ==
    up /\ failures = 0 =>
        \A j \in Jobs :
            LET now == Snap(state[j], runs[j]) IN
            IF PendingFor(j) = {} THEN disk[j] = now
            ELSE \A i \in PendingFor(j) : IsNewest(j, i) => chain[i][j] = now

(* queue.ts:1, "In-flight jobs never replay on restart": no job is given   *)
(* to an executor twice, in one process life or across restarts.           *)
NeverReplayed == \A j \in Jobs : handed[j] <= 1

(* What holds instead: every time that a job is given out again has a      *)
(* crash or a refused write of its own, also through clean restarts and    *)
(* after writes that were refused without a crash (queue.ts:31-43).        *)
ReplaysAreLosses == \A j \in Jobs : handed[j] <= 1 + crashes + failures

(* What a reader of the queue is promised: see JobLifecycle.  While the    *)
(* process is down the files speak for the jobs.                           *)
PhaseOf(st) ==
    CASE st = "none"        -> "absent"
      [] st = "queued"      -> "waiting"
      [] st \in InFlight    -> "active"
      [] st \in Terminal    -> "over"
(* A file that says "in flight" is a job the restart will orphan.          *)
Phases == [j \in Jobs |->
    IF up THEN PhaseOf(state[j])
    ELSE IF disk[j].state \in InFlight THEN "over" ELSE PhaseOf(disk[j].state)]

Lifecycle == INSTANCE JobLifecycle WITH phase <- Phases, lossy <- crashes + failures > 0

(* The queue implements the lifecycle: while no write is lost each job     *)
(* moves forward only, is given out at most once and in order; a loss can  *)
(* only take a job back to where it stood before.                          *)
LifecycleSpec == Lifecycle!Spec
=============================================================================
