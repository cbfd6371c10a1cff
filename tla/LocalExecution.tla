--------------------------- MODULE LocalExecution ---------------------------
(***************************************************************************)
(* adb-local: the web server process (server.ts, executor.ts), its job     *)
(* queue (JobQueue), and the one Python executor it owns                   *)
(* (runner/.../worker.py), which claims jobs, builds and runs them, and    *)
(* talks to the server by HTTP.  Requests travel on a wire and are handled *)
(* in order; the caller may give up, be signalled or be killed while its   *)
(* request is still on the wire.                                           *)
(***************************************************************************)
EXTENDS JobQueue

CONSTANTS
    MaxAdmitted,     \* bound: submit requests whose body is being read
    MaxFaults,       \* bound: calls or spawns that raise OSError, and SIGKILLs
    MaxShutdowns     \* bound: server shutdowns while its executor lives

ASSUME LocalAssumption ==
    /\ Progress = {"none", "building", "running"}
    /\ Outcomes = {"completed", "failed", "stopped", "error"}
    /\ {MaxAdmitted, MaxFaults, MaxShutdowns} \subseteq Nat
    /\ \E w \in Workers : Workers = {w}

VARIABLES
    shuttingDown,  \* server.ts: shutdown() was entered
    ready,         \* executor.ready
    admitted,      \* submits past the readiness check, body still being read
    exec,          \* the executor process: alive, dead, closed (exit handled)
    termed,        \* SIGTERM is on its way to the executor
    wire,          \* the executor's requests, oldest first
    answer,        \* the reply the executor has not read yet
    pc,            \* where the executor is in worker.py
    held,          \* worker.py's `current`, 0 for none
    stopSeen,      \* Reporter.stop
    interrupted,   \* execute's local `stopped`
    unsent,        \* Reporter.runs
    proc,          \* the build or the experiment process
    active,        \* which of the two `_active` refers to
    started,       \* history: run ids the job's experiment announced
    used           \* faults so far: calls, kills, shutdowns

server   == <<shuttingDown, ready, admitted>>
channel  == <<wire, answer>>
reporter == <<stopSeen, interrupted, unsent>>
child    == <<proc, active>>
executor == <<pc, held, reporter, child>>
outside  == <<exec, termed, started>>
local    == <<server, channel, executor, outside, used>>
allVars  == <<vars, local>>

TheWorker == CHOOSE w \in Workers : TRUE

NoAnswer == [kind |-> "none", job |-> 0]
Answer(kind, j) == [kind |-> kind, job |-> j]
Request(kind, j, st, rs) ==
    [kind |-> kind, job |-> j, st |-> st, runs |-> rs, live |-> TRUE]

(* pc values.  Those in Waiting have a call open.                          *)
FlushPcs == {"rbuild", "tickBuild", "badBuild", "rrun", "tickRun", "final"}
Waiting  == FlushPcs \cup {"claim", "done", "errReport", "errDone", "termDone"}
Pcs      == Waiting \cup {"idle", "spawnBuild", "setBuild", "build", "spawnRun",
                          "setRun", "run", "exit"}
(* The job is being worked on and no final state was sent.                 *)
Executing == (FlushPcs \cup {"spawnBuild", "setBuild", "build", "spawnRun",
                             "setRun", "run"})

Alive == exec = "alive"
Ready(p) == up /\ Alive /\ pc = p

-----------------------------------------------------------------------------
FreshWorker ==
    /\ pc = "idle" /\ held = 0 /\ stopSeen = FALSE /\ interrupted = FALSE
    /\ unsent = {} /\ proc = "none" /\ active = "none"

LocalInit ==
    /\ Init
    /\ shuttingDown = FALSE /\ ready = FALSE /\ admitted = 0
    /\ exec = "alive" /\ termed = FALSE
    /\ wire = <<>> /\ answer = NoAnswer
    /\ FreshWorker
    /\ started = [j \in Jobs |-> {}]
    /\ used = [calls |-> 0, kills |-> 0, shutdowns |-> 0]

-----------------------------------------------------------------------------
(* The server's side: one action per route.                                *)

(* A reply reaches the executor only if it still waits for it.             *)
Reply(r, a) == answer' = IF r.live THEN a ELSE answer

Take(kind) == up /\ Room /\ wire # <<>> /\ Head(wire).kind = kind

(* POST /api/executor/claim.                                               *)
ClaimIsLive == Alive /\ pc = "claim" /\ \A i \in 1..Len(wire) : ~wire[i].live

HandleClaim ==
    /\ Take("claim")
    /\ wire' = Tail(wire)
    /\ \/ /\ shuttingDown
          /\ Reply(Head(wire), Answer("nothing", 0))
          /\ UNCHANGED <<vars, ready>>
       \/ /\ ~shuttingDown
          /\ ready' = TRUE
          /\ \/ /\ ClaimRefused
                /\ Reply(Head(wire), Answer("nothing", 0))
                /\ UNCHANGED vars
             \/ \E j \in Jobs : /\ ClaimQueued(j)
                                /\ Reply(Head(wire), Answer("job", j))
             \/ ClaimParked(TheWorker) /\ UNCHANGED answer
    /\ UNCHANGED <<shuttingDown, admitted, outside, executor, used>>

(* The 25 s hold ends with 204.                                            *)
HoldEnds ==
    /\ ClaimExpired(TheWorker)
    /\ answer' = IF ClaimIsLive THEN Answer("nothing", 0) ELSE answer
    /\ UNCHANGED <<server, outside, wire, executor, used>>

(* POST /api/jobs/<id>/report: the reply carries the stop flag.            *)
HandleReport ==
    /\ Take("report")
    /\ wire' = Tail(wire)
    /\ LET r == Head(wire) IN
       /\ Report(r.job, r.st, r.runs)
       /\ Reply(r, Answer(IF ReportStops(r.job) THEN "stop" ELSE "go", 0))
    /\ UNCHANGED <<server, outside, executor, used>>

(* POST /api/jobs/<id>/done.                                               *)
HandleDone ==
    /\ Take("done")
    /\ wire' = Tail(wire)
    /\ LET r == Head(wire) IN Done(r.job, r.st) /\ Reply(r, Answer("ok", 0))
    /\ UNCHANGED <<server, outside, executor, used>>

(* A request nobody waits for may never be read: its connection is closed. *)
RequestLost ==
    /\ up
    /\ \E i \in 1..Len(wire) : ~wire[i].live /\ wire' = RemoveAt(wire, i)
    /\ UNCHANGED <<vars, server, outside, answer, executor, used>>

(* POST /api/jobs: readiness is checked first, the body is read after.     *)
AdmitSubmit ==
    /\ up /\ ~shuttingDown /\ ready
    /\ admitted < MaxAdmitted
    /\ admitted' = admitted + 1
    /\ UNCHANGED <<vars, shuttingDown, ready, outside, channel, executor,
                   used>>

(* The body is in: submit runs, whatever happened since the check.         *)
RunSubmit ==
    /\ Room
    /\ admitted > 0
    /\ admitted' = admitted - 1
    /\ \/ SubmitParked /\ UNCHANGED answer
       \/ /\ SubmitAssigned
          /\ answer' = IF ClaimIsLive THEN Answer("job", submitted') ELSE answer
    /\ UNCHANGED <<shuttingDown, ready, outside, wire, executor, used>>

(* The body is refused, or the client left.                                *)
DropSubmit ==
    /\ up
    /\ admitted > 0
    /\ admitted' = admitted - 1
    /\ UNCHANGED <<vars, shuttingDown, ready, outside, channel, executor,
                   used>>

(* POST /api/jobs/<id>/stop.                                               *)
UserStop(j) ==
    /\ Room
    /\ StopQueued(j) \/ StopInFlight(j)
    /\ UNCHANGED local

(* executor.ts, the child's close event.                                   *)
ExecutorClosed ==
    /\ Room
    /\ exec = "dead"
    /\ InterruptJobs
    /\ exec' = "closed"
    /\ ready' = FALSE
    /\ UNCHANGED <<shuttingDown, admitted, termed, started, channel, executor,
                   used>>

(* shutdown(): refuse new work, ask the executor to stop.                  *)
Shutdown ==
    /\ up /\ ~shuttingDown
    /\ \/ exec = "closed" /\ UNCHANGED used
       \/ /\ used.shutdowns < MaxShutdowns
          /\ used' = [used EXCEPT !.shutdowns = @ + 1]
    /\ shuttingDown' = TRUE
    /\ ready' = FALSE
    /\ termed' = (exec = "alive")
    /\ UNCHANGED <<vars, admitted, exec, started, channel, executor>>

(* The process is gone, with every open connection.                        *)
AllGone ==
    /\ shuttingDown' = FALSE /\ ready' = FALSE /\ admitted' = 0
    /\ exec' = "none" /\ termed' = FALSE
    /\ wire' = <<>> /\ answer' = NoAnswer
    /\ pc' = "idle" /\ held' = 0 /\ stopSeen' = FALSE /\ interrupted' = FALSE
    /\ unsent' = {} /\ proc' = "none" /\ active' = "none"
    /\ UNCHANGED <<started, used>>

(* shutdown() after executor.stop: flush, close the server, end.           *)
ServerExits == shuttingDown /\ exec = "closed" /\ Exit /\ AllGone

(* The server dies; the executor's parent watch ends it and its process.   *)
ServerCrashes == Crash /\ AllGone

(* start(): load the jobs, listen, start the executor.                     *)
Boot ==
    /\ InitJobs
    /\ exec' = "alive"
    /\ UNCHANGED <<server, termed, started, channel, executor, used>>

Disk ==
    /\ \E j \in Jobs : WriteSnapshot(j) \/ WriteFails(j)
    /\ UNCHANGED local

-----------------------------------------------------------------------------
(* The executor's side: worker.py.                                         *)

workerFrame == <<vars, server, outside>>

(* One step of worker.py, from one of its places to another.               *)
Move(p, q) == Ready(p) /\ pc' = q /\ UNCHANGED workerFrame

Send(r) == wire' = Append(wire, r) /\ answer' = NoAnswer

(* _interrupt_active: the group `_active` leads is gone when it returns.   *)
Interrupt ==
    proc' = IF proc = active /\ proc = "build" THEN "buildBad"
            ELSE IF proc = active /\ proc = "run" THEN "runBad"
            ELSE proc

(* worker_cli's loop: ask for a job.                                       *)
AskForJob ==
    /\ Move("idle", "claim")
    /\ Send(Request("claim", 0, "none", {}))
    /\ UNCHANGED <<held, reporter, child, used>>

GetNothing ==
    /\ Move("claim", "idle")
    /\ answer.kind = "nothing"
    /\ answer' = NoAnswer
    /\ UNCHANGED <<wire, held, reporter, child, used>>

(* execute: a new Reporter, and the first report.                          *)
GetJob ==
    /\ Move("claim", "rbuild")
    /\ answer.kind = "job"
    /\ held' = answer.job
    /\ stopSeen' = FALSE /\ interrupted' = FALSE /\ unsent' = {}
    /\ Send(Request("report", answer.job, "building", {}))
    /\ UNCHANGED <<child, used>>

(* Reporter.flush sends what was batched and forgets it before the call.   *)
SendReport(st) ==
    /\ Send(Request("report", held, st, unsent))
    /\ unsent' = {}

(* Where execute goes on after each flush.                                 *)
AfterFlush(p) ==
    CASE p = "rbuild"    -> "spawnBuild"
      [] p = "tickBuild" -> "build"
      [] p = "rrun"      -> "run"
      [] p = "tickRun"   -> "run"

(* Mutant: the reply of a report is not looked at.                         *)
DeafFlushEnds(stop) ==
    /\ pc \in FlushPcs \ {"badBuild", "final"}
    /\ pc' = AfterFlush(pc)
    /\ UNCHANGED <<workerFrame, held, reporter, child>>

(* A progress flush returns, with a reply or without one; inside the two   *)
(* loops a stop is acted on at once, inside the run loop only once.        *)
FlushEnds(stop) ==
    /\ pc \in FlushPcs \ {"badBuild", "final"}
    /\ pc' = AfterFlush(pc)
    /\ stopSeen' = (stopSeen \/ stop)
    /\ interrupted' = (interrupted \/ (pc = "tickRun" /\ stopSeen'))
    /\ IF stopSeen' /\ (pc = "tickBuild" \/ (pc = "tickRun" /\ ~interrupted))
       THEN Interrupt ELSE UNCHANGED proc
    /\ UNCHANGED <<workerFrame, held, unsent, active>>

FlushAnswered ==
    /\ up /\ Alive
    /\ answer.kind \in {"stop", "go"}
    /\ answer' = NoAnswer
    /\ FlushEnds(answer.kind = "stop")
    /\ UNCHANGED <<wire, used>>

(* Mutant: the way the process ended is sent as it is.                     *)
RawFinalState == IF pc = "badBuild" THEN "error" ELSE proc

(* The two flushes that a done follows.                                    *)
FinalState ==
    IF pc = "badBuild" THEN "error"
    ELSE IF interrupted THEN "stopped"
    ELSE IF proc = "runOK" THEN "completed" ELSE "failed"

LastFlushEnds(stop) ==
    /\ pc \in {"badBuild", "final"}
    /\ stopSeen' = (stopSeen \/ stop)
    /\ pc' = "done"
    /\ UNCHANGED <<workerFrame, held, interrupted, unsent, child>>

LastFlushAnswered ==
    /\ up /\ Alive
    /\ answer.kind \in {"stop", "go"}
    /\ LastFlushEnds(answer.kind = "stop")
    /\ Send(Request("done", held, FinalState, {}))
    /\ UNCHANGED used

(* Popen and the assignment to _active are two steps: a signal may come    *)
(* between them.                                                           *)
SpawnBuild ==
    /\ Move("spawnBuild", "setBuild")
    /\ proc' = "build"
    /\ UNCHANGED <<channel, held, reporter, active, used>>

SetBuild ==
    /\ Move("setBuild", "build")
    /\ active' = "build"
    /\ UNCHANGED <<channel, held, reporter, proc, used>>

(* while build.poll() is None: flush at the report cadence ...             *)
BuildTick ==
    /\ Move("build", "tickBuild")
    /\ proc = "build"
    /\ SendReport("none")
    /\ UNCHANGED <<held, stopSeen, interrupted, child, used>>

(* ... and between reports only look at the flag.                          *)
BuildInterrupt ==
    /\ Ready("build")
    /\ proc = "build"
    /\ stopSeen
    /\ Interrupt
    /\ UNCHANGED <<workerFrame, channel, pc, held, reporter, active, used>>

BuildStopped ==
    /\ Move("build", "done")
    /\ proc \in {"buildOK", "buildBad"}
    /\ stopSeen
    /\ Send(Request("done", held, "stopped", {}))
    /\ UNCHANGED <<held, reporter, child, used>>

BuildFailed ==
    /\ Move("build", "badBuild")
    /\ proc = "buildBad"
    /\ ~stopSeen
    /\ SendReport("none")
    /\ UNCHANGED <<held, stopSeen, interrupted, child, used>>

BuildDone ==
    /\ Move("build", "spawnRun")
    /\ proc = "buildOK"
    /\ ~stopSeen
    /\ UNCHANGED <<channel, held, reporter, child, used>>

SpawnRun ==
    /\ Move("spawnRun", "setRun")
    /\ proc' = "run"
    /\ UNCHANGED <<channel, held, reporter, active, used>>

SetRun ==
    /\ Move("setRun", "rrun")
    /\ active' = "run"
    /\ SendReport("running")
    /\ UNCHANGED <<held, stopSeen, interrupted, proc, used>>

RunTick ==
    /\ Move("run", "tickRun")
    /\ proc = "run"
    /\ SendReport("none")
    /\ UNCHANGED <<held, stopSeen, interrupted, child, used>>

RunInterrupt ==
    /\ Ready("run")
    /\ proc = "run"
    /\ stopSeen /\ ~interrupted
    /\ interrupted' = TRUE
    /\ Interrupt
    /\ UNCHANGED <<workerFrame, channel, pc, held, stopSeen, unsent, active,
                   used>>

(* Mutant: no flush between the end of the run and its done.               *)
RunDoneUnflushed ==
    /\ Move("run", "done")
    /\ proc \in {"runOK", "runBad"}
    /\ active' = "none"
    /\ Send(Request("done", held, FinalState, {}))
    /\ UNCHANGED <<held, reporter, proc, used>>

RunDone ==
    /\ Move("run", "final")
    /\ proc \in {"runOK", "runBad"}
    /\ active' = "none"
    /\ SendReport("none")
    /\ UNCHANGED <<held, stopSeen, interrupted, proc, used>>

(* done answered: execute returns, the loop asks again.  An `_active` that  *)
(* refers to a group already gone counts as none.                          *)
JobLeft ==
    /\ pc' = "idle"
    /\ held' = 0
    /\ proc' = "none"
    /\ active' = "none"
    /\ UNCHANGED <<workerFrame, reporter>>

DoneAnswered ==
    /\ up /\ Alive
    /\ pc \in {"done", "errDone"}
    /\ answer.kind = "ok"
    /\ answer' = NoAnswer
    /\ JobLeft
    /\ UNCHANGED <<wire, used>>

-----------------------------------------------------------------------------
(* What can go wrong on the executor's side.                               *)

(* A call raises OSError: the request is lost, or late, or its reply is.   *)
CallLost ==
    /\ up /\ Alive
    /\ pc \in Waiting
    /\ used.calls + used.kills < MaxFaults
    /\ used' = [used EXCEPT !.calls = @ + 1]

Abandon(w) == [i \in 1..Len(w) |-> [w[i] EXCEPT !.live = FALSE]]

(* flush swallows the error; the batch it took is gone.                    *)
FlushLost ==
    /\ CallLost
    /\ FlushEnds(FALSE)
    /\ wire' = Abandon(wire)
    /\ answer' = NoAnswer

LastFlushLost ==
    /\ CallLost
    /\ LastFlushEnds(FALSE)
    /\ wire' = Append(Abandon(wire), Request("done", held, FinalState, {}))
    /\ answer' = NoAnswer

(* Mutant: an OSError of execute is logged and the loop goes on.           *)
ExecuteFailsSilently ==
    /\ pc = "done" /\ CallLost
    /\ pc' = "idle" /\ held' = 0 /\ proc' = "none"
    /\ wire' = <<>>
    /\ answer' = NoAnswer
    /\ UNCHANGED <<workerFrame, reporter, active>>

(* The done call, or a spawn, raises: worker_cli reports the error and     *)
(* gives the job the final state "error".                                  *)
SpawnFails ==
    /\ up /\ Alive
    /\ pc \in {"spawnBuild", "spawnRun"}
    /\ used.calls + used.kills < MaxFaults
    /\ used' = [used EXCEPT !.calls = @ + 1]

ExecuteFails ==
    /\ SpawnFails \/ (pc = "done" /\ CallLost)
    /\ Interrupt
    /\ pc' = "errReport"
    /\ wire' = Append(Abandon(wire), Request("report", held, "none", {}))
    /\ answer' = NoAnswer
    /\ UNCHANGED <<workerFrame, held, reporter, active>>

ErrorReported ==
    /\ Move("errReport", "errDone")
    /\ answer.kind \in {"stop", "go"}
    /\ Send(Request("done", held, "error", {}))
    /\ UNCHANGED <<held, reporter, child, used>>

(* Mutant: a failed claim is simply made again.                            *)
RetryClaim ==
    /\ CallLost
    /\ pc = "claim"
    /\ pc' = "idle"
    /\ wire' = Abandon(wire)
    /\ answer' = NoAnswer
    /\ UNCHANGED <<workerFrame, held, reporter, child>>

(* Any other OSError ends the executor.                                    *)
GiveUp ==
    /\ CallLost
    /\ pc \in {"claim", "errReport", "errDone"}
    /\ Interrupt
    /\ pc' = "exit"
    /\ wire' = Abandon(wire)
    /\ answer' = NoAnswer
    /\ UNCHANGED <<workerFrame, held, reporter, active>>

(* SIGTERM raises KeyboardInterrupt wherever the executor is: tear down,   *)
(* and say the job is stopped if one is held.                              *)
Terminated ==
    /\ up /\ Alive /\ termed
    /\ pc \notin {"termDone", "exit"}
    /\ Interrupt
    /\ answer' = NoAnswer
    /\ \/ /\ held # 0
          /\ pc' = "termDone"
          /\ wire' = Append(Abandon(wire), Request("done", held, "stopped", {}))
       \/ /\ held = 0
          /\ pc' = "exit"
          /\ wire' = Abandon(wire)
    /\ UNCHANGED <<workerFrame, held, reporter, active, used>>

(* One second is all this last call gets.                                  *)
TermDoneEnds ==
    /\ Move("termDone", "exit")
    /\ wire' = Abandon(wire)
    /\ answer' = NoAnswer
    /\ UNCHANGED <<held, reporter, child, used>>

(* The process ends; its parked claim stays where it is.                   *)
Dies ==
    /\ exec' = "dead"
    /\ pc' = "exit"
    /\ wire' = Abandon(wire)
    /\ answer' = NoAnswer
    /\ UNCHANGED <<vars, server, termed, started, held, reporter, child>>

WorkerExits == Ready("exit") /\ Dies /\ UNCHANGED used

(* SIGKILL, from outside or from executor.stop's deadline.                 *)
WorkerKilled ==
    /\ up /\ Alive
    /\ used.calls + used.kills < MaxFaults
    /\ used' = [used EXCEPT !.kills = @ + 1]
    /\ Dies

-----------------------------------------------------------------------------
(* The build and the experiment: they end when they like, and the          *)
(* experiment announces its runs (run.start on its --json stream), which a *)
(* reader thread hands to the Reporter.                                    *)
ProcFrame == <<vars, server, exec, termed, channel, pc, held, stopSeen,
               interrupted, active, used>>

BuildEnds(p) ==
    /\ up /\ proc = "build"
    /\ proc' = p
    /\ UNCHANGED <<ProcFrame, started, unsent>>

RunEnds(p) ==
    /\ up /\ proc = "run"
    /\ proc' = p
    /\ UNCHANGED <<ProcFrame, started, unsent>>

RunAnnounced(r) ==
    /\ up /\ Alive /\ proc = "run" /\ pc \in {"run", "tickRun", "rrun"}
    /\ r \notin started[held]
    /\ started' = [started EXCEPT ![held] = @ \cup {r}]
    /\ unsent' = unsent \cup {r}
    /\ UNCHANGED <<ProcFrame, proc>>

ProcessEnds ==
    \/ \E p \in {"buildOK", "buildBad"} : BuildEnds(p)
    \/ \E p \in {"runOK", "runBad"} : RunEnds(p)

-----------------------------------------------------------------------------
ServerStep ==
    \/ HandleClaim \/ HandleReport \/ HandleDone \/ HoldEnds
    \/ RunSubmit \/ ExecutorClosed \/ ServerExits \/ Boot \/ Disk

Clients ==
    \/ AdmitSubmit \/ DropSubmit
    \/ \E j \in Jobs : UserStop(j)
    \/ Shutdown

WorkerStep ==
    \/ AskForJob \/ GetNothing \/ GetJob
    \/ FlushAnswered \/ LastFlushAnswered
    \/ SpawnBuild \/ SetBuild \/ BuildTick \/ BuildInterrupt
    \/ BuildStopped \/ BuildFailed \/ BuildDone
    \/ SpawnRun \/ SetRun \/ RunTick \/ RunInterrupt \/ RunDone
    \/ DoneAnswered \/ ErrorReported
    \/ Terminated \/ TermDoneEnds \/ WorkerExits

Faults ==
    \/ FlushLost \/ LastFlushLost \/ ExecuteFails \/ GiveUp \/ WorkerKilled
    \/ RequestLost \/ ServerCrashes

Experiment == ProcessEnds \/ \E r \in RunIds : RunAnnounced(r)

LocalNext == ServerStep \/ Clients \/ WorkerStep \/ Faults \/ Experiment

LocalSpec == LocalInit /\ [][LocalNext]_allVars

-----------------------------------------------------------------------------
(* Properties.                                                             *)

Requests == [kind : {"claim", "report", "done"}, job : {0} \cup Jobs, st : JobStates,
             runs : SUBSET RunIds, live : BOOLEAN]

LocalTypeOK ==
    /\ TypeOK
    /\ shuttingDown \in BOOLEAN /\ ready \in BOOLEAN
    /\ admitted \in 0..MaxAdmitted
    /\ exec \in {"none", "alive", "dead", "closed"}
    /\ termed \in BOOLEAN
    /\ wire \in Seq(Requests)
    /\ answer \in [kind : {"none", "nothing", "job", "stop", "go", "ok"},
                   job : {0} \cup Jobs]
    /\ pc \in Pcs
    /\ held \in {0} \cup Jobs
    /\ stopSeen \in BOOLEAN /\ interrupted \in BOOLEAN
    /\ unsent \in SUBSET RunIds
    /\ proc \in {"none", "build", "buildOK", "buildBad", "run", "runOK", "runBad"}
    /\ active \in {"none", "build", "run"}
    /\ started \in [Jobs -> SUBSET RunIds]
    /\ used \in [calls : 0..MaxFaults, kills : 0..MaxFaults, shutdowns : 0..MaxShutdowns]

(* The executor and the queue agree: while the executor works on a job and *)
(* has not sent a final state, the queue shows that job, and no other, in  *)
(* flight, whatever stops, late requests and lost replies came between.    *)
HeldIsInFlight ==
    Alive /\ pc \in Executing => held \in Jobs /\ InFlightJobs = {held}

(* Every run the experiment announced is linked from its job once the job  *)
(* is reported completed or failed (Reporter batches run ids and forgets a *)
(* batch as it sends it), unless a call failed, or a write was lost and    *)
(* the job went back to where it stood.                                    *)
RunsLinked ==
    up /\ used.calls + crashes + failures = 0 =>
        \A j \in Jobs : state[j] \in {"completed", "failed"} => started[j] \subseteq runs[j]

(* data.ts:89-90 of the terminal states, "a job in one of these states     *)
(* will never change again"; the browser stops polling such a job.         *)
TerminalIsFinal ==
    [][\A j \in Jobs : up /\ up' /\ state[j] \in Terminal => state'[j] = state[j]]_allVars

(* What does hold of a terminal job: it never returns to the queue or to   *)
(* an executor, not even by a report or done that arrives after its end.   *)
TerminalIsOver ==
    [][\A j \in Jobs : up /\ up' /\ state[j] \in Terminal => state'[j] \in Terminal]_allVars

(* local.test.ts:160-163: with the executor gone its job is orphaned and   *)
(* new submissions are refused, so nothing is in flight any more.          *)
NothingInFlightAfterClose == exec = "closed" => InFlightJobs = {}

(* The composition uses the queue as the queue expects: every step of this *)
(* system is a step of JobQueue or leaves the queue alone.                 *)
QueueSpec == Spec

-----------------------------------------------------------------------------
(* Fairness.  The event loop of the server handles what arrived, the write *)
(* chain advances, the executor's thread runs, a SIGTERM is delivered, and *)
(* the 25 s hold is a timer.  Nothing is assumed of clients, of faults, or *)
(* of how long a build or an experiment takes.                             *)
Fairness ==
    /\ WF_allVars(HandleClaim) /\ WF_allVars(HandleReport) /\ WF_allVars(HandleDone)
    /\ WF_allVars(HoldEnds) /\ WF_allVars(RunSubmit)
    /\ WF_allVars(ExecutorClosed) /\ WF_allVars(ServerExits)
    /\ WF_allVars(Disk)
    /\ WF_allVars(WorkerStep)
    /\ WF_allVars(Terminated)

FairLocalSpec == LocalSpec /\ Fairness

(* A stop reaches the job: once it is requested for a job the executor     *)
(* works on, the job ends, however long its build or experiment would run, *)
(* unless the server dies first; the next start then finds it orphaned.    *)
StopEndsJob ==
    \A j \in Jobs : (up /\ stopRequested[j] /\ state[j] \in InFlight /\ held = j)
        ~> (~up \/ state[j] \in Terminal)

(* If builds and experiments end, every job that was accepted ends, unless *)
(* the server is gone, or its executor is and the user is told to restart  *)
(* adb-local.                                                              *)
WorkEnds == WF_allVars(ProcessEnds)
EveryJobEnds ==
    WorkEnds => \A j \in Jobs :
        (state[j] = "queued") ~> (~up \/ state[j] \in Terminal \/ exec = "closed")
=============================================================================
