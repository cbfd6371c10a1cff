------------------------ MODULE LocalExecutionProofs ------------------------
(***************************************************************************)
(* Theorems about the local execution server with its executor, for every  *)
(* number of jobs, run ids, calls, kills, shutdowns, crashes and refused   *)
(* writes.                                                                 *)
(*                                                                         *)
(* The inductive invariant says what may be on the wire while the executor *)
(* is at each of its places.  It rests on one fact: the executor asks for  *)
(* one thing at a time, so a request it still waits for is the last one on *)
(* the wire, and everything before it is late.                             *)
(***************************************************************************)
EXTENDS LocalExecution, JobQueueProofs

-----------------------------------------------------------------------------
(* The process is up exactly as long as it has an executor, living or not; *)
(* one that ended stays at its exit.                                       *)
Life ==
    /\ up <=> exec # "none"
    /\ exec = "none" => pc = "idle"
    /\ exec \in {"dead", "closed"} => pc = "exit"

(* What the executor asks for where it waits.                              *)
CallOf(p) ==
    IF p = "claim" THEN "claim"
    ELSE IF p \in FlushPcs \cup {"errReport"} THEN "report" ELSE "done"

(* Every request speaks of a job that was given out, in states the queue   *)
(* takes.  The executor waits for the last one at most, and a claim is     *)
(* alone on the wire.                                                      *)
Sound(r) ==
    /\ r.kind # "claim" => r.job \in Jobs /\ GivenOut(r.job)
    /\ r.kind = "report" => r.st \in Progress
    /\ r.kind = "done" => r.st \in Outcomes
Wired ==
    \A i \in 1..Len(wire) :
        /\ Sound(wire[i])
        /\ wire[i].live => /\ i = Len(wire) /\ answer = NoAnswer
                           /\ pc \in Waiting /\ wire[i].kind = CallOf(pc)
        /\ wire[i].kind = "claim" => Len(wire) = 1 /\ pc \in {"claim", "exit"}

(* A reply is read before the next request is sent; the job it brings is   *)
(* the one in flight.                                                      *)
Answered ==
    /\ answer # NoAnswer => wire = <<>> /\ pc \in Waiting
    /\ answer.kind = "job" => /\ pc = "claim" /\ answer.job \in Jobs
                              /\ InFlightJobs = {answer.job}

(* One claim is parked at most, by an executor that asks for nothing else, *)
(* and nothing is in flight meanwhile.                                     *)
Parked ==
    waiters # <<>> => /\ Len(waiters) = 1 /\ wire = <<>> /\ answer = NoAnswer
                      /\ pc \in {"claim", "exit"} /\ InFlightJobs = {} /\ Room

(* The job the executor holds, and what it has asked so far.               *)
Places ==
    /\ pc = "idle" => wire = <<>> /\ held = 0
    /\ pc = "claim" => held = 0 /\ \A i \in 1..Len(wire) : wire[i].kind = "claim" /\ wire[i].live
    /\ pc \notin {"idle", "claim", "exit"} => held \in Jobs /\ GivenOut(held)
    /\ pc \in Executing =>
          /\ InFlightJobs = {held}
          /\ \A i \in 1..Len(wire) : wire[i].kind = "report" /\ wire[i].job = held

(* While nothing was lost, every run that was announced is linked from its *)
(* job, or on its way there.                                               *)
Clean == used.calls + crashes + failures = 0
Shown(j) == IF up THEN Snap(state[j], runs[j]) ELSE disk[j]
Ended(st) == st \in {"completed", "failed"}
OnTheWay(x) ==
    x \in runs[held] \/ x \in unsent \/ \E i \in 1..Len(wire) : x \in wire[i].runs
JobsLinked ==
    \A j \in Jobs : /\ Ended(Shown(j).state) => started[j] \subseteq Shown(j).runs
                    /\ Shown(j).state \in {"none", "queued"} => started[j] = {}
DonesLinked ==
    \A i \in 1..Len(wire) :
        wire[i].kind = "done" /\ Ended(wire[i].st) => started[wire[i].job] \subseteq runs[wire[i].job]
OfferUnstarted == answer.kind = "job" => started[answer.job] = {}
Underway ==
    pc \in Executing => /\ \A x \in started[held] : OnTheWay(x)
                        /\ \A i \in 1..Len(wire) : wire[i].live
Flushed == pc = "final" => unsent = {}
Linked == JobsLinked /\ DonesLinked /\ OfferUnstarted /\ Underway /\ Flushed

Shape == Life /\ Wired /\ Answered /\ Parked /\ Places
LocalInv == LocalTypeOK /\ Wakeup /\ SaveInv /\ Shape /\ (Clean => Linked)

-----------------------------------------------------------------------------
(* Sequences of requests.                                                  *)

(* The wire w holds the requests of the wire, some of them given up.       *)
Carried(w) ==
    /\ w \in Seq(Requests) /\ Len(w) = Len(wire)
    /\ \A i \in 1..Len(wire) :
          /\ w[i].kind = wire[i].kind /\ w[i].job = wire[i].job
          /\ w[i].st = wire[i].st /\ w[i].runs = wire[i].runs
          /\ w[i].live => wire[i].live
NoneLive(w) == \A i \in 1..Len(w) : ~w[i].live

LEMMA AbandonIs ==
    ASSUME wire \in Seq(Requests)
    PROVE  Carried(Abandon(wire)) /\ NoneLive(Abandon(wire))
<1> DEFINE w == Abandon(wire)
<1>1. /\ Len(wire) \in Nat
      /\ \A i \in 1..Len(wire) : wire[i] \in Requests
  OBVIOUS
<1>2. ASSUME NEW i \in 1..Len(wire)
      PROVE  /\ [wire[i] EXCEPT !.live = FALSE] \in Requests
             /\ [wire[i] EXCEPT !.live = FALSE].kind = wire[i].kind
             /\ [wire[i] EXCEPT !.live = FALSE].job = wire[i].job
             /\ [wire[i] EXCEPT !.live = FALSE].st = wire[i].st
             /\ [wire[i] EXCEPT !.live = FALSE].runs = wire[i].runs
             /\ ~[wire[i] EXCEPT !.live = FALSE].live
  BY <1>1 DEF Requests
<1>3. w = [i \in 1..Len(wire) |-> [wire[i] EXCEPT !.live = FALSE]]
  BY DEF Abandon
<1> HIDE DEF w
<1>4. w \in Seq(Requests) /\ Len(w) = Len(wire)
  BY <1>1, <1>2, <1>3
<1> QED
  BY <1>2, <1>3, <1>4 DEF Carried, NoneLive, w

LEMMA WireCarried == wire \in Seq(Requests) => Carried(wire)
  BY DEF Carried

LEMMA AppendIs ==
    ASSUME NEW w \in Seq(Requests), NEW r \in Requests
    PROVE  /\ Append(w, r) \in Seq(Requests) /\ Len(Append(w, r)) = Len(w) + 1
           /\ \A i \in 1..Len(w) : Append(w, r)[i] = w[i]
           /\ Append(w, r)[Len(w) + 1] = r
  OBVIOUS

LEMMA TailIs ==
    ASSUME NEW w \in Seq(Requests), w # <<>>
    PROVE  /\ Tail(w) \in Seq(Requests) /\ Len(w) \in Nat \ {0}
           /\ Len(Tail(w)) = Len(w) - 1 /\ Head(w) = w[1] /\ w[1] \in Requests
           /\ \A i \in 1..Len(Tail(w)) : i + 1 \in 2..Len(w) /\ Tail(w)[i] = w[i + 1]
  OBVIOUS

LEMMA RemoveIs ==
    ASSUME NEW S, NEW w \in Seq(S), NEW n \in 1..Len(w)
    PROVE  /\ RemoveAt(w, n) \in Seq(S) /\ Len(RemoveAt(w, n)) = Len(w) - 1
           /\ \A i \in 1..Len(RemoveAt(w, n)) :
                 RemoveAt(w, n)[i] = w[IF i < n THEN i ELSE i + 1]
<1> DEFINE a == SubSeq(w, 1, n - 1)
           b == SubSeq(w, n + 1, Len(w))
<1>1. /\ a \in Seq(S) /\ Len(a) = n - 1 /\ Len(w) \in Nat /\ n \in Nat
      /\ \A i \in 1..(n - 1) : a[i] = w[i]
  OBVIOUS
<1>2. b \in Seq(S) /\ Len(b) = Len(w) - n /\ \A i \in 1..(Len(w) - n) : b[i] = w[n + i]
  OBVIOUS
<1>3. RemoveAt(w, n) = a \o b
  BY DEF RemoveAt
<1> HIDE DEF a, b
<1>4. /\ a \o b \in Seq(S) /\ Len(a \o b) = Len(w) - 1
      /\ \A i \in 1..(Len(w) - 1) : (a \o b)[i] = IF i < n THEN a[i] ELSE b[i - (n - 1)]
  BY <1>1, <1>2
<1>5. ASSUME NEW i \in 1..(Len(w) - 1)
      PROVE  (a \o b)[i] = w[IF i < n THEN i ELSE i + 1]
  <2>1. CASE i < n
    BY <1>1, <1>4, <2>1
  <2>2. CASE ~(i < n)
    <3>1. i - (n - 1) \in 1..(Len(w) - n) /\ n + (i - (n - 1)) = i + 1
      BY <1>1, <2>2
    <3> QED
      BY <1>2, <1>4, <2>2, <3>1
  <2> QED
    BY <2>1, <2>2
<1> QED
  BY <1>3, <1>4, <1>5

-----------------------------------------------------------------------------
(* Every step is a step of the queue, or leaves the queue alone.           *)

(* The request that is handled is one the queue expects.                   *)
LEMMA HeadIsSound ==
    ASSUME LocalInv, wire # <<>>
    PROVE  /\ Head(wire) = wire[1] /\ 1 \in 1..Len(wire) /\ wire[1] \in Requests
           /\ Sound(wire[1]) /\ waiters = <<>> /\ answer = NoAnswer
  BY TailIs DEF LocalInv, Shape, LocalTypeOK, Wired, Parked, Answered

LEMMA OnlyWorker == TheWorker \in Workers /\ \A w \in Workers : w = TheWorker
  BY LocalAssumption DEF LocalAssumption, TheWorker

LEMMA ClaimCalls ==
    ASSUME LocalInv, HandleClaim
    PROVE  Next \/ UNCHANGED vars
<1>1. Room /\ waiters = <<>>
  BY HeadIsSound DEF HandleClaim, Take
<1>2. CASE ClaimParked(TheWorker)
  <2>1. ~IsParked(TheWorker)
    BY <1>1 DEF IsParked, ToSet
  <2> QED
    BY <1>1, <1>2, <2>1, OnlyWorker DEF Next, Queue, Calls
<1>3. CASE \E j \in Jobs : ClaimQueued(j)
  BY <1>1, <1>3 DEF Next, Queue, Calls
<1> QED
  BY <1>2, <1>3 DEF HandleClaim

LEMMA ReportCalls ==
    ASSUME LocalInv, HandleReport
    PROVE  Next
<1>1. Room /\ wire # <<>> /\ Head(wire).kind = "report"
  BY DEF HandleReport, Take
<1> DEFINE r == wire[1]
<1>2. r.job \in Jobs /\ GivenOut(r.job) /\ r.st \in Progress /\ r.runs \in SUBSET RunIds
  BY <1>1, HeadIsSound DEF Sound, Requests
<1>3. Report(r.job, r.st, r.runs)
  BY <1>1, HeadIsSound DEF HandleReport
<1> QED
  BY <1>1, <1>2, <1>3 DEF Next, Queue, Calls

LEMMA DoneCalls ==
    ASSUME LocalInv, HandleDone
    PROVE  Next
<1>1. Room /\ wire # <<>> /\ Head(wire).kind = "done"
  BY DEF HandleDone, Take
<1> DEFINE r == wire[1]
<1>2. r.job \in Jobs /\ GivenOut(r.job) /\ r.st \in Outcomes
  BY <1>1, HeadIsSound DEF Sound, Requests
<1>3. Done(r.job, r.st)
  BY <1>1, HeadIsSound DEF HandleDone
<1> QED
  BY <1>1, <1>2, <1>3 DEF Next, Queue, Calls

LEMMA ServerCalls ==
    ASSUME LocalInv, ServerStep
    PROVE  Next \/ UNCHANGED vars
<1>1. CASE HoldEnds
  <2>1. ClaimExpired(TheWorker)
    BY <1>1 DEF HoldEnds
  <2>2. waiters # <<>>
    BY <2>1 DEF ClaimExpired, LocalInv, LocalTypeOK, TypeOK
  <2> QED
    BY <2>1, <2>2, OnlyWorker DEF LocalInv, Shape, Parked, Next, Queue, Calls
<1>2. CASE RunSubmit
  BY <1>2 DEF RunSubmit, Next, Queue, Calls, Submit
<1>3. CASE ExecutorClosed
  BY <1>3 DEF ExecutorClosed, Next, Queue, Calls
<1>4. CASE ServerExits
  BY <1>4 DEF ServerExits, Next, Process
<1>5. CASE Boot
  BY <1>5 DEF Boot, Next, Process
<1>6. CASE Disk
  BY <1>6 DEF Disk, Next, Storage
<1> QED
  BY <1>1, <1>2, <1>3, <1>4, <1>5, <1>6, ClaimCalls, ReportCalls, DoneCalls DEF ServerStep

LEMMA ClientCalls ==
    ASSUME LocalInv, Clients
    PROVE  Next \/ UNCHANGED vars
<1>1. ASSUME NEW j \in Jobs, UserStop(j) PROVE Next
  BY <1>1 DEF UserStop, Next, Queue, Calls
<1> QED
  BY <1>1 DEF Clients, AdmitSubmit, DropSubmit, Shutdown

(* The executor touches the queue by its requests alone.                   *)
LEMMA WorkerFrames == WorkerStep \/ Experiment => UNCHANGED vars
<1>1. WorkerStep => UNCHANGED vars
  BY DEF WorkerStep, AskForJob, GetNothing, GetJob, FlushAnswered, LastFlushAnswered,
         SpawnBuild, SetBuild, BuildTick, BuildInterrupt, BuildStopped, BuildFailed, BuildDone,
         SpawnRun, SetRun, RunTick, RunInterrupt, RunDone, DoneAnswered, ErrorReported,
         Terminated, TermDoneEnds, WorkerExits, Move, FlushEnds, LastFlushEnds, JobLeft, Dies,
         workerFrame
<1>2. Experiment => UNCHANGED vars
  BY DEF Experiment, ProcessEnds, BuildEnds, RunEnds, RunAnnounced, ProcFrame
<1> QED
  BY <1>1, <1>2

LEMMA FaultCalls ==
    ASSUME Faults
    PROVE  Next \/ UNCHANGED vars
<1>1. CASE ServerCrashes
  BY <1>1 DEF ServerCrashes, Next, Process
<1>2. CASE FlushLost \/ LastFlushLost \/ ExecuteFails \/ GiveUp \/ WorkerKilled \/ RequestLost
  BY <1>2 DEF FlushLost, LastFlushLost, ExecuteFails, GiveUp, WorkerKilled, RequestLost,
              FlushEnds, LastFlushEnds, Dies, workerFrame
<1> QED
  BY <1>1, <1>2 DEF Faults

LEMMA QueueStep == LocalInv /\ [LocalNext]_allVars => [Next]_vars
<1>1. ASSUME LocalInv, LocalNext PROVE Next \/ UNCHANGED vars
  BY <1>1, ServerCalls, ClientCalls, WorkerFrames, FaultCalls DEF LocalNext
<1>2. UNCHANGED allVars => UNCHANGED vars
  BY DEF allVars
<1> QED
  BY <1>1, <1>2

-----------------------------------------------------------------------------
(* The executor sends a request: it is the only one it waits for, so the   *)
(* older ones are late, and a job it works on is the one in flight.        *)
Executors == /\ up /\ exec = "alive" /\ UNCHANGED <<vars, exec>>

LEMMA SendKeeps ==
    ASSUME LocalInv, LocalTypeOK', Executors,
           NEW w, Carried(w), NoneLive(w), NEW r \in Requests, r.live, Sound(r),
           wire' = Append(w, r), answer' = NoAnswer,
           pc' \in Waiting, r.kind = CallOf(pc'),
           pc \notin {"claim", "exit"} \/ answer.kind = "job",
           pc' = "claim" => wire = <<>> /\ held' = 0,
           pc' # "claim" => held' \in Jobs /\ GivenOut(held'),
           pc' \in Executing => /\ InFlightJobs = {held'} /\ r.kind = "report" /\ r.job = held'
                                /\ wire = <<>> \/ (pc \in Executing /\ held' = held)
    PROVE  Shape'
<1>1. /\ LocalTypeOK /\ Life /\ Wired /\ Answered /\ Parked /\ Places
      /\ UNCHANGED <<state, waiters, chain, up>>
  BY DEF LocalInv, Shape, Executors, vars
<1>2. /\ w \in Seq(Requests) /\ Len(w) = Len(wire) /\ Len(wire) \in Nat
      /\ Len(wire') = Len(wire) + 1
      /\ \A i \in 1..Len(wire) : wire'[i] = w[i]
      /\ wire'[Len(wire) + 1] = r
  BY <1>1, AppendIs DEF Carried, LocalTypeOK
<1>3. wire # <<>> => \A i \in 1..Len(wire) : wire[i].kind # "claim"
  BY <1>1 DEF Wired, Answered, NoAnswer
<1>4. wire = <<>> => Len(wire) = 0
  OBVIOUS
<1>5. (pc' = "claim" <=> r.kind = "claim") /\ pc' \notin {"idle", "exit"}
  BY DEF CallOf, Waiting, FlushPcs
<1>6. Life'
  BY <1>1, <1>5 DEF Life, Executors
<1>7. Wired'
  <2> SUFFICES ASSUME NEW i \in 1..Len(wire')
               PROVE  /\ Sound(wire[i])'
                      /\ wire'[i].live => /\ i = Len(wire') /\ answer' = NoAnswer
                                          /\ pc' \in Waiting /\ wire'[i].kind = CallOf(pc')
                      /\ wire'[i].kind = "claim" => Len(wire') = 1 /\ pc' \in {"claim", "exit"}
    BY DEF Wired, CallOf
  <2>1. CASE i = Len(wire) + 1
    BY <1>1, <1>2, <1>4, <1>5, <2>1 DEF Sound, GivenOut
  <2>2. CASE i \in 1..Len(wire)
    <3>1. /\ wire'[i] = w[i] /\ wire # <<>> /\ wire[i].kind # "claim" /\ Sound(wire[i])
          /\ w[i].kind = wire[i].kind /\ w[i].job = wire[i].job /\ w[i].st = wire[i].st
          /\ ~w[i].live
      BY <1>1, <1>2, <1>3, <1>4, <2>2 DEF Carried, NoneLive, Wired
    <3> QED
      BY <1>1, <3>1 DEF Sound, GivenOut
  <2> QED
    BY <1>2, <2>1, <2>2
<1>8. Answered'
  BY DEF Answered, NoAnswer
<1>9. Parked'
  <2>1. waiters = <<>>
    BY <1>1 DEF Parked, NoAnswer
  <2> QED
    BY <1>1, <2>1 DEF Parked
<1>10. Places'
  <2>1. pc' = "claim" => \A i \in 1..Len(wire') : wire'[i].kind = "claim" /\ wire'[i].live
    <3>1. ASSUME pc' = "claim", NEW i \in 1..Len(wire') PROVE wire'[i] = r
      BY <1>2, <1>4, <3>1
    <3> QED
      BY <1>5, <3>1
  <2>2. ASSUME pc' \in Executing, NEW i \in 1..Len(wire')
        PROVE  wire'[i].kind = "report" /\ wire'[i].job = held'
    <3>1. CASE i = Len(wire) + 1
      BY <1>2, <2>2, <3>1
    <3>2. CASE i \in 1..Len(wire)
      BY <1>1, <1>2, <1>4, <2>2, <3>2 DEF Places, Carried
    <3> QED
      BY <1>2, <3>1, <3>2
  <2>3. InFlightJobs' = InFlightJobs
    BY <1>1 DEF InFlightJobs
  <2> QED
    BY <1>1, <1>5, <2>1, <2>2, <2>3 DEF Places, GivenOut
<1> QED
  BY <1>6, <1>7, <1>8, <1>9, <1>10 DEF Shape

(* A step that sends nothing: the executor has its reply, gives its call   *)
(* up, or was waiting for none.                                            *)
LEMMA QuietKeeps ==
    ASSUME LocalInv, LocalTypeOK', up, UNCHANGED vars, exec = "alive", exec' \in {"alive", "dead"},
           exec' = "dead" => pc' = "exit",
           Carried(wire'), NoneLive(wire'), answer' = NoAnswer, pc' \notin Waiting,
           pc' = "idle" => wire = <<>> /\ held' = 0,
           pc' # "exit" => (pc \notin {"claim", "exit"} \/ answer # NoAnswer),
           pc' \notin {"idle", "exit"} => pc \notin {"idle", "claim", "exit"} /\ held' = held,
           pc' \in Executing => pc \in Executing
    PROVE  Shape'
<1>1. /\ LocalTypeOK /\ Life /\ Wired /\ Answered /\ Parked /\ Places
      /\ UNCHANGED <<state, waiters, chain, up>>
  BY DEF LocalInv, Shape, vars
<1>2. /\ Len(wire) \in Nat /\ Len(wire') = Len(wire)
      /\ \A i \in 1..Len(wire') :
            /\ wire'[i].kind = wire[i].kind /\ wire'[i].job = wire[i].job
            /\ wire'[i].st = wire[i].st /\ ~wire'[i].live
  BY <1>1 DEF Carried, NoneLive, LocalTypeOK
<1>3. Life'
  BY <1>1 DEF Life
<1>4. Wired'
  <2>1. ASSUME NEW i \in 1..Len(wire') PROVE Sound(wire[i])'
    BY <1>1, <1>2 DEF Wired, Sound, GivenOut
  <2>2. ASSUME NEW i \in 1..Len(wire'), wire'[i].kind = "claim"
        PROVE  Len(wire') = 1 /\ pc' = "exit"
    <3>1. Len(wire) = 1 /\ pc \in {"claim", "exit"} /\ wire # <<>>
      BY <1>1, <1>2, <2>2 DEF Wired
    <3> QED
      BY <1>1, <1>2, <3>1 DEF Answered
  <2> QED
    BY <1>2, <2>1, <2>2 DEF Wired, CallOf
<1>5. Answered'
  BY DEF Answered, NoAnswer
<1>6. InFlightJobs' = InFlightJobs /\ (Room <=> Room')
  BY <1>1 DEF InFlightJobs, Room
<1>7. Parked'
  <2>1. wire = <<>> => wire' = <<>>
    BY <1>2 DEF Carried
  <2>2. waiters # <<>> => pc' = "exit"
    BY <1>1 DEF Parked
  <2> QED
    BY <1>1, <1>6, <2>1, <2>2 DEF Parked
<1>8. Places'
  <2>1. wire = <<>> => wire' = <<>>
    BY <1>2 DEF Carried
  <2>2. pc' # "claim"
    BY DEF Waiting
  <2>3. pc' \in Executing => pc' \notin {"idle", "claim", "exit"}
    BY DEF Executing, FlushPcs
  <2> QED
    BY <1>1, <1>2, <1>6, <2>1, <2>2, <2>3 DEF Places, GivenOut
<1> QED
  BY <1>3, <1>4, <1>5, <1>7, <1>8 DEF Shape

-----------------------------------------------------------------------------
(* Types.  The queue's part follows from the queue's own theorem.          *)
LEMMA QueueNext ==
    ASSUME LocalInv, [LocalNext]_allVars
    PROVE  TypeOK' /\ Wakeup' /\ SaveInv'
<1>1. TypeOK /\ Wakeup /\ SaveInv /\ [Next]_vars
  BY QueueStep DEF LocalInv, LocalTypeOK
<1>2. TypeOK'
  BY <1>1, TypeCalls, TypeStorage, TypeProcess DEF Next, Queue, vars, TypeOK
<1> QED
  BY <1>1, <1>2, WakeupNext, SaveNext

(* What LocalTypeOK says of the variables the queue does not have, in      *)
(* groups that the steps change together.                                  *)
ServerTyped ==
    /\ shuttingDown \in BOOLEAN /\ ready \in BOOLEAN
    /\ admitted \in 0..MaxAdmitted
    /\ exec \in {"none", "alive", "dead", "closed"}
    /\ termed \in BOOLEAN
    /\ used \in [calls : 0..MaxFaults, kills : 0..MaxFaults, shutdowns : 0..MaxShutdowns]
ChannelTyped ==
    /\ wire \in Seq(Requests)
    /\ answer \in [kind : {"none", "nothing", "job", "stop", "go", "ok"}, job : {0} \cup Jobs]
WorkerTyped ==
    /\ pc \in Pcs
    /\ held \in {0} \cup Jobs
    /\ stopSeen \in BOOLEAN /\ interrupted \in BOOLEAN
    /\ unsent \in SUBSET RunIds
    /\ proc \in {"none", "build", "buildOK", "buildBad", "run", "runOK", "runBad"}
    /\ active \in {"none", "build", "run"}
    /\ started \in [Jobs -> SUBSET RunIds]

LEMMA LocalTypes == LocalTypeOK <=> TypeOK /\ ServerTyped /\ ChannelTyped /\ WorkerTyped
  BY DEF LocalTypeOK, ServerTyped, ChannelTyped, WorkerTyped

LEMMA LocalTypesAfter ==
    LocalTypeOK' <=> TypeOK' /\ ServerTyped' /\ ChannelTyped' /\ WorkerTyped'
  BY LocalTypes, PTL

LEMMA AnswersTyped ==
    ASSUME NEW k \in {"nothing", "job", "stop", "go", "ok"}, NEW j \in {0} \cup Jobs
    PROVE  /\ Answer(k, j) \in [kind : {"none", "nothing", "job", "stop", "go", "ok"},
                                job : {0} \cup Jobs]
           /\ NoAnswer \in [kind : {"none", "nothing", "job", "stop", "go", "ok"},
                            job : {0} \cup Jobs]
           /\ Answer(k, j).kind = k /\ Answer(k, j).job = j /\ Answer(k, j) # NoAnswer
  BY DEF Answer, NoAnswer

LEMMA RequestIs ==
    ASSUME NEW k \in {"claim", "report", "done"}, NEW j \in {0} \cup Jobs,
           NEW st \in JobStates, NEW rs \in SUBSET RunIds
    PROVE  /\ Request(k, j, st, rs) \in Requests
           /\ Request(k, j, st, rs).kind = k /\ Request(k, j, st, rs).job = j
           /\ Request(k, j, st, rs).st = st /\ Request(k, j, st, rs).runs = rs
           /\ Request(k, j, st, rs).live
  BY DEF Request, Requests

LEMMA OutcomesTyped ==
    /\ FinalState \in Outcomes /\ Outcomes \subseteq JobStates /\ Progress \subseteq JobStates
    /\ Outcomes \subseteq Terminal
  BY LocalAssumption DEF LocalAssumption, FinalState, JobStates, InFlight, Terminal

(* The wire is typed after every way the steps change it.                  *)
LEMMA WireTyped ==
    ASSUME wire \in Seq(Requests), NEW r \in Requests
    PROVE  /\ Abandon(wire) \in Seq(Requests)
           /\ Append(wire, r) \in Seq(Requests)
           /\ Append(Abandon(wire), r) \in Seq(Requests)
           /\ <<>> \in Seq(Requests)
           /\ wire # <<>> => Tail(wire) \in Seq(Requests)
           /\ \A i \in 1..Len(wire) : RemoveAt(wire, i) \in Seq(Requests)
<1>1. Abandon(wire) \in Seq(Requests)
  BY AbandonIs DEF Carried
<1> HIDE DEF Abandon
<1> QED
  BY <1>1, AppendIs, TailIs, RemoveIs

LEMMA GoneTyped ==
    ASSUME ServerTyped, MaxAdmitted \in Nat, AllGone
    PROVE  ServerTyped'
<1>1. /\ shuttingDown' = FALSE /\ ready' = FALSE /\ admitted' = 0 /\ exec' = "none"
      /\ termed' = FALSE /\ used' = used
  BY DEF AllGone
<1>2. shuttingDown' \in BOOLEAN /\ ready' \in BOOLEAN /\ termed' \in BOOLEAN
  BY <1>1
<1>3. admitted' \in 0..MaxAdmitted
  BY <1>1
<1> QED
  BY <1>1, <1>2, <1>3 DEF ServerTyped

LEMMA ServerTypes ==
    ASSUME LocalInv, LocalNext, TypeOK'
    PROVE  ServerTyped'
<1>1. ServerTyped /\ MaxAdmitted \in Nat /\ MaxFaults \in Nat /\ MaxShutdowns \in Nat
  BY LocalTypes, LocalAssumption DEF LocalInv, LocalAssumption
<1>2. CASE ServerStep \/ Clients
  <2>1. HandleClaim \/ HandleReport \/ HandleDone \/ HoldEnds \/ Disk => ServerTyped'
    BY <1>1 DEF HandleClaim, HandleReport, HandleDone, HoldEnds, Disk, ServerTyped, server,
                outside, local
  <2>2. RunSubmit \/ AdmitSubmit \/ DropSubmit => ServerTyped'
    BY <1>1 DEF RunSubmit, AdmitSubmit, DropSubmit, ServerTyped, outside
  <2>3. ExecutorClosed \/ ServerExits \/ Boot => ServerTyped'
    <3>1. ExecutorClosed => ServerTyped'
      BY <1>1 DEF ExecutorClosed, ServerTyped
    <3>2. AllGone => ServerTyped'
      BY <1>1, GoneTyped
    <3>3. Boot => ServerTyped'
      BY <1>1 DEF Boot, ServerTyped, server
    <3> QED
      BY <3>1, <3>2, <3>3 DEF ServerExits
  <2>4. (\E j \in Jobs : UserStop(j)) => ServerTyped'
    BY <1>1 DEF UserStop, ServerTyped, local, server, outside
  <2>5. Shutdown => ServerTyped'
    <3> SUFFICES ASSUME Shutdown PROVE ServerTyped'
      OBVIOUS
    <3>1. /\ shuttingDown' = TRUE /\ ready' = FALSE /\ admitted' = admitted /\ exec' = exec
          /\ termed' = (exec = "alive")
      BY DEF Shutdown
    <3>2. \/ used' = used
          \/ used.shutdowns < MaxShutdowns /\ used' = [used EXCEPT !.shutdowns = @ + 1]
      BY DEF Shutdown
    <3>3. termed' \in BOOLEAN
      BY <3>1
    <3>4. used' \in [calls : 0..MaxFaults, kills : 0..MaxFaults, shutdowns : 0..MaxShutdowns]
      BY <1>1, <3>2 DEF ServerTyped
    <3> QED
      BY <1>1, <3>1, <3>3, <3>4 DEF ServerTyped
  <2> QED
    BY <1>2, <2>1, <2>2, <2>3, <2>4, <2>5 DEF ServerStep, Clients
<1>3. CASE WorkerStep \/ Experiment
  <2>1. UNCHANGED <<shuttingDown, ready, admitted, termed, used>>
    BY <1>3 DEF WorkerStep, AskForJob, GetNothing, GetJob, FlushAnswered, LastFlushAnswered,
         SpawnBuild, SetBuild, BuildTick, BuildInterrupt, BuildStopped, BuildFailed, BuildDone,
         SpawnRun, SetRun, RunTick, RunInterrupt, RunDone, DoneAnswered, ErrorReported,
         Terminated, TermDoneEnds, WorkerExits, Move, FlushEnds, LastFlushEnds, JobLeft, Dies,
         workerFrame, server, outside, Experiment, ProcessEnds, BuildEnds, RunEnds, RunAnnounced,
         ProcFrame
  <2>2. exec' \in {exec, "dead"}
    BY <1>3 DEF WorkerStep, AskForJob, GetNothing, GetJob, FlushAnswered, LastFlushAnswered,
         SpawnBuild, SetBuild, BuildTick, BuildInterrupt, BuildStopped, BuildFailed, BuildDone,
         SpawnRun, SetRun, RunTick, RunInterrupt, RunDone, DoneAnswered, ErrorReported,
         Terminated, TermDoneEnds, WorkerExits, Move, FlushEnds, LastFlushEnds, JobLeft, Dies,
         workerFrame, server, outside, Experiment, ProcessEnds, BuildEnds, RunEnds, RunAnnounced,
         ProcFrame
  <2> QED
    BY <1>1, <2>1, <2>2 DEF ServerTyped
<1>4. CASE Faults
  <2>1. FlushLost \/ LastFlushLost \/ GiveUp => ServerTyped'
    BY <1>1 DEF FlushLost, LastFlushLost, GiveUp, CallLost, FlushEnds, LastFlushEnds,
                workerFrame, server, outside, ServerTyped
  <2>2. ExecuteFails => ServerTyped'
    <3> SUFFICES ASSUME ExecuteFails PROVE ServerTyped'
      OBVIOUS
    <3>1. used.calls + used.kills < MaxFaults /\ used' = [used EXCEPT !.calls = @ + 1]
      BY DEF ExecuteFails, SpawnFails, CallLost
    <3>2. UNCHANGED <<shuttingDown, ready, admitted, exec, termed>>
      BY DEF ExecuteFails, workerFrame, server, outside
    <3> QED
      BY <1>1, <3>1, <3>2 DEF ServerTyped
  <2>3. WorkerKilled => ServerTyped'
    BY <1>1 DEF WorkerKilled, Dies, server, ServerTyped
  <2>4. RequestLost \/ ServerCrashes => ServerTyped'
    <3>1. RequestLost => ServerTyped'
      BY <1>1 DEF RequestLost, server, outside, ServerTyped
    <3>2. AllGone => ServerTyped'
      BY <1>1, GoneTyped
    <3> QED
      BY <3>1, <3>2 DEF ServerCrashes
  <2> QED
    BY <1>4, <2>1, <2>2, <2>3, <2>4 DEF Faults
<1> QED
  BY <1>2, <1>3, <1>4 DEF LocalNext

(* Every request the executor sends is typed.                              *)
LEMMA SendsTyped ==
    ASSUME ChannelTyped, WorkerTyped
    PROVE  /\ Request("claim", 0, "none", {}) \in Requests
           /\ Request("report", answer.job, "building", {}) \in Requests
           /\ \A st \in {"none", "running"} : Request("report", held, st, unsent) \in Requests
           /\ Request("report", held, "none", {}) \in Requests
           /\ Request("done", held, FinalState, {}) \in Requests
           /\ \A st \in {"stopped", "error"} : Request("done", held, st, {}) \in Requests
<1>1. answer.job \in {0} \cup Jobs /\ held \in {0} \cup Jobs /\ unsent \in SUBSET RunIds
  BY DEF ChannelTyped, WorkerTyped
<1>2. /\ {"none", "building", "running", "stopped", "error"} \subseteq JobStates
      /\ FinalState \in JobStates
  BY OutcomesTyped DEF JobStates, InFlight, Terminal
<1>3. ASSUME NEW k \in {"claim", "report", "done"}, NEW j \in {0} \cup Jobs,
             NEW st \in JobStates, NEW rs \in SUBSET RunIds
      PROVE  Request(k, j, st, rs) \in Requests
  BY RequestIs
<1>4. Request("claim", 0, "none", {}) \in Requests
  BY <1>2, <1>3
<1>5. /\ Request("report", answer.job, "building", {}) \in Requests
      /\ Request("report", held, "none", {}) \in Requests
  BY <1>1, <1>2, <1>3
<1>6. \A st \in {"none", "running"} : Request("report", held, st, unsent) \in Requests
  BY <1>1, <1>2, <1>3
<1>7. /\ Request("done", held, FinalState, {}) \in Requests
      /\ \A st \in {"stopped", "error"} : Request("done", held, st, {}) \in Requests
  BY <1>1, <1>2, <1>3
<1> QED
  BY <1>4, <1>5, <1>6, <1>7

LEMMA ChannelServer ==
    ASSUME LocalInv, ServerStep \/ Clients, TypeOK'
    PROVE  ChannelTyped'
<1>1. ChannelTyped /\ wire \in Seq(Requests)
  BY LocalTypes DEF LocalInv, ChannelTyped
<1>2. ASSUME HandleClaim \/ HandleReport \/ HandleDone
      PROVE  ChannelTyped'
  <2>1. wire # <<>> /\ wire' = Tail(wire)
    BY <1>2 DEF HandleClaim, HandleReport, HandleDone, Take
  <2>2. answer' = answer \/ \E k \in {"nothing", "job", "stop", "go", "ok"} :
                               \E j \in {0} \cup Jobs : answer' = Answer(k, j)
    BY <1>2 DEF HandleClaim, HandleReport, HandleDone, Reply
  <2>3. Tail(wire) \in Seq(Requests)
    BY <1>1, <2>1, TailIs
  <2> QED
    BY <1>1, <2>1, <2>2, <2>3, AnswersTyped DEF ChannelTyped
<1>3. ASSUME HoldEnds PROVE ChannelTyped'
  BY <1>1, <1>3, AnswersTyped DEF HoldEnds, ChannelTyped
<1>4. ASSUME RunSubmit PROVE ChannelTyped'
  <2>1. wire' = wire
    BY <1>4 DEF RunSubmit
  <2>2. answer' = answer \/ (SubmitAssigned /\ answer' = Answer("job", submitted'))
    BY <1>4 DEF RunSubmit
  <2>3. SubmitAssigned => submitted' \in Jobs
    BY QueueAssumption DEF SubmitAssigned, CanSubmit, LocalInv, LocalTypeOK, TypeOK, Jobs,
                           QueueAssumption
  <2>4. ASSUME NEW j \in Jobs
        PROVE  Answer("job", j) \in [kind : {"none", "nothing", "job", "stop", "go", "ok"},
                                      job : {0} \cup Jobs]
    BY AnswersTyped
  <2> QED
    BY <1>1, <2>1, <2>2, <2>3, <2>4 DEF ChannelTyped
<1>5. ASSUME AllGone PROVE ChannelTyped'
  <2>1. wire' = <<>> /\ answer' = NoAnswer
    BY <1>5 DEF AllGone
  <2>2. wire' \in Seq(Requests)
    BY <2>1
  <2> QED
    BY <2>1, <2>2, AnswersTyped DEF ChannelTyped
<1>6. ASSUME ExecutorClosed \/ Boot \/ Disk \/ AdmitSubmit \/ DropSubmit
             \/ (\E j \in Jobs : UserStop(j)) \/ Shutdown
      PROVE  ChannelTyped'
  BY <1>1, <1>6 DEF ExecutorClosed, Boot, Disk, AdmitSubmit, DropSubmit, UserStop, Shutdown,
                    channel, local, ChannelTyped
<1> QED
  BY <1>2, <1>3, <1>4, <1>5, <1>6 DEF ServerStep, Clients, ServerExits

LEMMA ChannelWorker ==
    ASSUME LocalInv, WorkerStep \/ Experiment \/ Faults
    PROVE  ChannelTyped'
<1>1. ChannelTyped /\ WorkerTyped /\ wire \in Seq(Requests)
  BY LocalTypes DEF LocalInv, ChannelTyped
<1>2. ASSUME NEW r \in Requests, Send(r) PROVE ChannelTyped'
  BY <1>1, <1>2, AppendIs, AnswersTyped DEF Send, ChannelTyped
<1>3. ASSUME NEW r \in Requests, wire' = Append(Abandon(wire), r), answer' = NoAnswer
      PROVE  ChannelTyped'
  BY <1>1, <1>3, WireTyped, AnswersTyped DEF ChannelTyped
<1>4. ASSUME wire' \in {wire, Abandon(wire)}, answer' \in {answer, NoAnswer}
      PROVE  ChannelTyped'
  <2>1. Abandon(wire) \in Seq(Requests)
    BY <1>1, AbandonIs DEF Carried
  <2> QED
    BY <1>1, <1>4, <2>1, AnswersTyped DEF ChannelTyped
<1>5. AskForJob \/ GetJob \/ LastFlushAnswered \/ BuildTick \/ BuildStopped \/ BuildFailed
      \/ SetRun \/ RunTick \/ RunDone \/ ErrorReported => ChannelTyped'
  BY <1>1, <1>2, SendsTyped DEF AskForJob, GetJob, LastFlushAnswered, BuildTick, BuildStopped,
       BuildFailed, SetRun, RunTick, RunDone, ErrorReported, SendReport
<1>6. LastFlushLost \/ ExecuteFails => ChannelTyped'
  BY <1>1, <1>3, SendsTyped DEF LastFlushLost, ExecuteFails
<1>7. Terminated => ChannelTyped'
  BY <1>1, <1>3, <1>4, SendsTyped DEF Terminated
<1>8. GetNothing \/ FlushAnswered \/ SpawnBuild \/ SetBuild \/ BuildInterrupt \/ BuildDone
      \/ SpawnRun \/ RunInterrupt \/ DoneAnswered \/ TermDoneEnds => ChannelTyped'
  BY <1>4 DEF GetNothing, FlushAnswered, SpawnBuild, SetBuild, BuildInterrupt, BuildDone,
       SpawnRun, RunInterrupt, DoneAnswered, TermDoneEnds, channel
<1>9. WorkerExits \/ FlushLost \/ GiveUp \/ WorkerKilled => ChannelTyped'
  BY <1>4 DEF WorkerExits, FlushLost, GiveUp, WorkerKilled, Dies
<1>10. Experiment => ChannelTyped'
  BY <1>4 DEF Experiment, ProcessEnds, BuildEnds, RunEnds, RunAnnounced, ProcFrame, channel
<1>11. RequestLost => ChannelTyped'
  BY <1>1, RemoveIs DEF RequestLost, ChannelTyped
<1>12. ServerCrashes => ChannelTyped'
  <2> SUFFICES ASSUME ServerCrashes PROVE ChannelTyped'
    OBVIOUS
  <2>1. wire' = <<>> /\ answer' = NoAnswer
    BY DEF ServerCrashes, AllGone
  <2>2. wire' \in Seq(Requests)
    BY <2>1
  <2> QED
    BY <2>1, <2>2, AnswersTyped DEF ChannelTyped
<1> QED
  BY <1>5, <1>6, <1>7, <1>8, <1>9, <1>10, <1>11, <1>12 DEF WorkerStep, Faults

LEMMA WorkerTypes ==
    ASSUME LocalInv, LocalNext
    PROVE  WorkerTyped'
<1>1. WorkerTyped /\ ChannelTyped /\ Places
  BY LocalTypes DEF LocalInv, Shape
<1>2. ASSUME AllGone PROVE WorkerTyped'
  <2>1. /\ pc' = "idle" /\ held' = 0 /\ stopSeen' = FALSE /\ interrupted' = FALSE
        /\ unsent' = {} /\ proc' = "none" /\ active' = "none" /\ started' = started
    BY <1>2 DEF AllGone
  <2>2. stopSeen' \in BOOLEAN /\ interrupted' \in BOOLEAN
    BY <2>1
  <2>3. pc' \in Pcs /\ held' \in {0} \cup Jobs /\ unsent' \in SUBSET RunIds
    BY <2>1 DEF Pcs
  <2> QED
    BY <1>1, <2>1, <2>2, <2>3 DEF WorkerTyped
<1>3. CASE ServerStep \/ Clients
  <2>1. ServerExits \/ (UNCHANGED <<pc, held, stopSeen, interrupted, unsent, proc, active, started>>)
    BY <1>3 DEF ServerStep, Clients, HandleClaim, HandleReport, HandleDone, HoldEnds, RunSubmit,
       ExecutorClosed, Boot, Disk, AdmitSubmit, DropSubmit, UserStop, Shutdown,
       local, executor, reporter, child, outside
  <2> QED
    BY <1>1, <1>2, <2>1 DEF ServerExits, WorkerTyped
<1>4. Interrupt => proc' \in {"none", "build", "buildOK", "buildBad", "run", "runOK", "runBad"}
  BY <1>1 DEF Interrupt, WorkerTyped
<1>5. ASSUME NEW s, FlushEnds(s), s \in BOOLEAN PROVE WorkerTyped'
  <2>1. /\ pc' = AfterFlush(pc) /\ pc \in FlushPcs \ {"badBuild", "final"}
        /\ stopSeen' = (stopSeen \/ s)
        /\ interrupted' = (interrupted \/ (pc = "tickRun" /\ stopSeen'))
        /\ Interrupt \/ proc' = proc
        /\ UNCHANGED <<held, unsent, active, started>>
    BY <1>5 DEF FlushEnds, workerFrame, outside
  <2>2. pc' \in Pcs
    BY <2>1 DEF AfterFlush, FlushPcs, Pcs
  <2>3. stopSeen' \in BOOLEAN /\ interrupted' \in BOOLEAN
    BY <2>1
  <2> QED
    BY <1>1, <1>4, <2>1, <2>2, <2>3 DEF WorkerTyped
<1>6. ASSUME NEW s, LastFlushEnds(s), s \in BOOLEAN PROVE WorkerTyped'
  <2>1. /\ pc' = "done" /\ stopSeen' = (stopSeen \/ s)
        /\ UNCHANGED <<held, interrupted, unsent, proc, active, started>>
    BY <1>6 DEF LastFlushEnds, workerFrame, outside, child
  <2>2. pc' \in Pcs
    BY <2>1 DEF Pcs, Waiting
  <2>3. stopSeen' \in BOOLEAN
    BY <2>1
  <2> QED
    BY <1>1, <2>1, <2>2, <2>3 DEF WorkerTyped
<1>7. CASE FlushAnswered \/ FlushLost \/ LastFlushAnswered \/ LastFlushLost
  BY <1>5, <1>6, <1>7 DEF FlushAnswered, FlushLost, LastFlushAnswered, LastFlushLost
<1>8. CASE AskForJob \/ GetNothing \/ SpawnBuild \/ SetBuild \/ BuildTick \/ BuildStopped
           \/ BuildFailed \/ BuildDone \/ SpawnRun \/ SetRun \/ RunTick \/ RunDone
           \/ ErrorReported \/ TermDoneEnds
  <2>1. /\ UNCHANGED <<held, stopSeen, interrupted, started>>
        /\ unsent' \in {unsent, {}} /\ pc' \in Pcs
        /\ proc' \in {proc, "build", "run"} /\ active' \in {active, "none", "build", "run"}
    BY <1>8 DEF AskForJob, GetNothing, SpawnBuild, SetBuild, BuildTick, BuildStopped,
       BuildFailed, BuildDone, SpawnRun, SetRun, RunTick, RunDone, ErrorReported, TermDoneEnds,
       Move, workerFrame, outside, reporter, child, SendReport, Pcs, Waiting, FlushPcs
  <2> QED
    BY <1>1, <2>1 DEF WorkerTyped
<1>9. CASE GetJob
  <2>1. /\ pc' = "rbuild" /\ held' = answer.job
        /\ stopSeen' = FALSE /\ interrupted' = FALSE /\ unsent' = {}
        /\ UNCHANGED <<proc, active, started>>
    BY <1>9 DEF GetJob, Move, workerFrame, outside, child
  <2>2. stopSeen' \in BOOLEAN /\ interrupted' \in BOOLEAN
    BY <2>1
  <2>3. pc' \in Pcs /\ held' \in {0} \cup Jobs /\ unsent' \in SUBSET RunIds
    BY <1>1, <2>1 DEF Pcs, Waiting, FlushPcs, ChannelTyped
  <2> QED
    BY <1>1, <2>1, <2>2, <2>3 DEF WorkerTyped
<1>10. CASE BuildInterrupt \/ RunInterrupt
  <2>1. /\ UNCHANGED <<pc, held, stopSeen, unsent, active, started>> /\ Interrupt
        /\ interrupted' = interrupted \/ interrupted' = TRUE
    BY <1>10 DEF BuildInterrupt, RunInterrupt, workerFrame, outside, reporter
  <2>2. interrupted' \in BOOLEAN
    BY <1>1, <2>1 DEF WorkerTyped
  <2> QED
    BY <1>1, <1>4, <2>1, <2>2 DEF WorkerTyped
<1>11. CASE DoneAnswered
  BY <1>1, <1>11 DEF DoneAnswered, JobLeft, workerFrame, outside, reporter, WorkerTyped, Pcs
<1>12. CASE ExecuteFails \/ GiveUp \/ Terminated
  <2>1. /\ pc' \in {"errReport", "exit", "termDone"} /\ Interrupt
        /\ UNCHANGED <<held, stopSeen, interrupted, unsent, active, started>>
    BY <1>12 DEF ExecuteFails, GiveUp, Terminated, workerFrame, outside, reporter
  <2>2. pc' \in Pcs
    BY <2>1 DEF Pcs, Waiting
  <2> QED
    BY <1>1, <1>4, <2>1, <2>2 DEF WorkerTyped
<1>13. CASE WorkerExits \/ WorkerKilled
  BY <1>1, <1>13 DEF WorkerExits, WorkerKilled, Dies, reporter, child, WorkerTyped, Pcs
<1>14. CASE RequestLost
  BY <1>1, <1>14 DEF RequestLost, executor, outside, reporter, child, WorkerTyped
<1>15. CASE ServerCrashes
  BY <1>2, <1>15 DEF ServerCrashes
<1>16. CASE ProcessEnds
  BY <1>1, <1>16 DEF ProcessEnds, BuildEnds, RunEnds, ProcFrame, WorkerTyped
<1>17. ASSUME NEW x \in RunIds, RunAnnounced(x) PROVE WorkerTyped'
  <2>1. /\ started' = [started EXCEPT ![held] = @ \cup {x}] /\ unsent' = unsent \cup {x}
        /\ pc \in {"run", "tickRun", "rrun"}
        /\ UNCHANGED <<proc, pc, held, stopSeen, interrupted, active>>
    BY <1>17 DEF RunAnnounced, ProcFrame
  <2>2. held \in Jobs
    BY <1>1, <2>1 DEF Places
  <2>3. started' \in [Jobs -> SUBSET RunIds] /\ unsent' \in SUBSET RunIds
    BY <1>1, <2>1, <2>2 DEF WorkerTyped
  <2> QED
    BY <1>1, <2>1, <2>3 DEF WorkerTyped
<1> QED
  BY <1>3, <1>7, <1>8, <1>9, <1>10, <1>11, <1>12, <1>13, <1>14, <1>15, <1>16, <1>17
     DEF LocalNext, WorkerStep, Faults, Experiment

LEMMA LocalTypeNext == LocalInv /\ [LocalNext]_allVars => LocalTypeOK'
<1> SUFFICES ASSUME LocalInv, [LocalNext]_allVars PROVE LocalTypeOK'
  OBVIOUS
<1>1. TypeOK'
  BY QueueNext
<1>2. CASE LocalNext
  BY <1>1, <1>2, ServerTypes, ChannelServer, ChannelWorker, WorkerTypes, LocalTypesAfter
     DEF LocalNext
<1>3. CASE UNCHANGED allVars
  BY <1>1, <1>3, LocalTypes, LocalTypesAfter DEF LocalInv, allVars, local, server, channel,
     executor, reporter, child, outside, ServerTyped, ChannelTyped, WorkerTyped
<1> QED
  BY <1>2, <1>3

-----------------------------------------------------------------------------
(* The executor's steps keep the shape of the conversation.                *)
LEMMA NotWaiting ==
    ASSUME LocalInv, pc \notin Waiting
    PROVE  Carried(wire) /\ NoneLive(wire) /\ answer = NoAnswer
  BY WireCarried DEF LocalInv, LocalTypeOK, Shape, Wired, Answered, NoneLive

LEMMA GotReply ==
    ASSUME LocalInv, answer # NoAnswer
    PROVE  Carried(wire) /\ NoneLive(wire) /\ wire = <<>> /\ pc \in Waiting
  BY WireCarried DEF LocalInv, LocalTypeOK, Shape, Answered, NoneLive

LEMMA GivenUp ==
    ASSUME LocalInv
    PROVE  Carried(Abandon(wire)) /\ NoneLive(Abandon(wire))
  BY AbandonIs DEF LocalInv, LocalTypeOK

(* A report or a done for the job that is held.                            *)
LEMMA SendsForHeld ==
    ASSUME LocalInv, LocalTypeOK', Executors, NEW w, Carried(w), NoneLive(w),
           pc \notin {"idle", "claim", "exit"}, pc' \in Waiting \ {"claim"}, held' = held,
           pc' \in Executing => pc \in Executing,
           NEW k \in {"report", "done"}, NEW st \in JobStates, NEW rs \in SUBSET RunIds,
           k = CallOf(pc'), k = "report" => st \in Progress, k = "done" => st \in Outcomes,
           wire' = Append(w, Request(k, held, st, rs)), answer' = NoAnswer
    PROVE  Shape'
<1> DEFINE r == Request(k, held, st, rs)
<1>1. /\ held \in Jobs /\ held \in {0} \cup Jobs /\ GivenOut(held)
      /\ pc \in Executing => InFlightJobs = {held}
  BY DEF LocalInv, Shape, Places
<1>2. /\ r \in Requests /\ r.live /\ r.kind = k /\ r.job = held /\ r.st = st
  BY <1>1, RequestIs
<1>3. Sound(r)
  BY <1>1, <1>2 DEF Sound
<1>4. pc' \in Executing => k = "report"
  BY DEF CallOf, Waiting, Executing, FlushPcs
<1> HIDE DEF r
<1> QED
  BY <1>1, <1>2, <1>3, <1>4, SendKeeps DEF r

LEMMA ReportsKeep ==
    ASSUME LocalInv, LocalTypeOK',
           BuildTick \/ BuildFailed \/ RunTick \/ RunDone \/ SetRun \/ BuildStopped
    PROVE  Shape'
<1>1. /\ Executors /\ held' = held
      /\ pc \in {"build", "run", "setRun"}
      /\ pc' \in Waiting \ {"claim"}
      /\ pc' \in Executing => pc \in Executing
  BY DEF BuildTick, BuildFailed, RunTick, RunDone, SetRun, BuildStopped, Move, Ready, Alive,
         workerFrame, outside, Executors, Waiting, Executing, FlushPcs
<1>2. /\ Carried(wire) /\ NoneLive(wire) /\ unsent \in SUBSET RunIds
      /\ {"none", "running"} \subseteq JobStates /\ {"none", "running"} \subseteq Progress
      /\ "stopped" \in JobStates /\ "stopped" \in Outcomes
  BY <1>1, NotWaiting, LocalAssumption
     DEF Waiting, FlushPcs, LocalInv, LocalTypeOK, LocalAssumption, JobStates, InFlight, Terminal
<1>3. CASE BuildTick \/ BuildFailed \/ RunTick \/ RunDone \/ SetRun
  <2>1. /\ \E st \in {"none", "running"} : wire' = Append(wire, Request("report", held, st, unsent))
        /\ answer' = NoAnswer /\ CallOf(pc') = "report"
    BY <1>3 DEF BuildTick, BuildFailed, RunTick, RunDone, SetRun, SendReport, Send, Move, CallOf,
                FlushPcs
  <2> QED
    BY <1>1, <1>2, <2>1, SendsForHeld
<1>4. CASE BuildStopped
  <2>1. /\ wire' = Append(wire, Request("done", held, "stopped", {}))
        /\ answer' = NoAnswer /\ CallOf(pc') = "done"
    BY <1>4 DEF BuildStopped, Send, Move, CallOf, FlushPcs
  <2> QED
    BY <1>1, <1>2, <2>1, SendsForHeld
<1> QED
  BY <1>3, <1>4

LEMMA DonesKeep ==
    ASSUME LocalInv, LocalTypeOK', LastFlushAnswered \/ LastFlushLost \/ ErrorReported
    PROVE  Shape'
<1>1. /\ Executors /\ held' = held
      /\ pc \in {"badBuild", "final", "errReport"} /\ pc' \in {"done", "errDone"}
  BY DEF LastFlushAnswered, LastFlushLost, LastFlushEnds, CallLost, ErrorReported, Move, Ready,
         Alive, workerFrame, outside, Executors
<1>2. /\ \E w \in {wire, Abandon(wire)}, st \in {FinalState, "error"} :
            Carried(w) /\ NoneLive(w) /\ wire' = Append(w, Request("done", held, st, {}))
      /\ answer' = NoAnswer
  <2>1. CASE LastFlushAnswered \/ ErrorReported
    <3>1. answer # NoAnswer
      BY <2>1 DEF LastFlushAnswered, ErrorReported, NoAnswer
    <3> QED
      BY <2>1, <3>1, GotReply DEF LastFlushAnswered, ErrorReported, Send
  <2>2. CASE LastFlushLost
    BY <2>2, GivenUp DEF LastFlushLost
  <2> QED
    BY <2>1, <2>2
<1>3. /\ {FinalState, "error"} \subseteq Outcomes /\ {FinalState, "error"} \subseteq JobStates
  BY OutcomesTyped, LocalAssumption DEF LocalAssumption
<1>4. /\ CallOf(pc') = "done" /\ pc' \in Waiting \ {"claim"} /\ pc' \notin Executing
  BY <1>1 DEF CallOf, Waiting, FlushPcs, Executing
<1> QED
  BY <1>1, <1>2, <1>3, <1>4, SendsForHeld

LEMMA FailuresKeep ==
    ASSUME LocalInv, LocalTypeOK', ExecuteFails \/ (Terminated /\ held # 0)
    PROVE  Shape'
<1>1. /\ Executors /\ held' = held /\ answer' = NoAnswer
      /\ pc \notin {"idle", "claim", "exit"} /\ pc' \in {"errReport", "termDone"}
  BY DEF ExecuteFails, SpawnFails, CallLost, Terminated, Alive, workerFrame, outside, Executors,
         LocalInv, Shape, Places
<1>2. \E st \in {"none", "stopped"} :
         /\ wire' = Append(Abandon(wire), Request(CallOf(pc'), held, st, {}))
         /\ CallOf(pc') = "report" => st = "none"
         /\ CallOf(pc') = "done" => st = "stopped"
  BY DEF ExecuteFails, Terminated, CallOf, FlushPcs
<1>3. /\ pc' \in Waiting \ {"claim"} /\ pc' \notin Executing /\ CallOf(pc') \in {"report", "done"}
      /\ {"none", "stopped"} \subseteq JobStates /\ "none" \in Progress /\ "stopped" \in Outcomes
  BY <1>1, LocalAssumption
     DEF CallOf, Waiting, FlushPcs, Executing, LocalAssumption, JobStates, Terminal
<1> QED
  BY <1>1, <1>2, <1>3, GivenUp, SendsForHeld

LEMMA AsksKeep ==
    ASSUME LocalInv, LocalTypeOK', AskForJob \/ GetJob
    PROVE  Shape'
<1>1. Executors
  BY DEF AskForJob, GetJob, Move, Ready, Alive, workerFrame, outside, Executors
<1>2. CASE AskForJob
  <2> DEFINE r == Request("claim", 0, "none", {})
  <2>1. /\ pc = "idle" /\ pc' = "claim" /\ held' = held /\ wire' = Append(wire, r)
        /\ answer' = NoAnswer
    BY <1>2 DEF AskForJob, Move, Ready, Send
  <2>2. Carried(wire) /\ NoneLive(wire) /\ wire = <<>> /\ held = 0
    BY <2>1, NotWaiting DEF Waiting, FlushPcs, LocalInv, Shape, Places
  <2>3. r \in Requests /\ r.live /\ r.kind = "claim" /\ Sound(r)
    BY RequestIs DEF JobStates, Sound
  <2>4. CallOf(pc') = "claim" /\ pc' \in Waiting /\ pc' \notin Executing
    BY <2>1 DEF CallOf, Waiting, FlushPcs, Executing
  <2> HIDE DEF r
  <2> QED
    BY <1>1, <2>1, <2>2, <2>3, <2>4, SendKeeps
<1>3. CASE GetJob
  <2> DEFINE r == Request("report", answer.job, "building", {})
  <2>1. /\ pc = "claim" /\ pc' = "rbuild" /\ held' = answer.job /\ wire' = Append(wire, r)
        /\ answer' = NoAnswer /\ answer.kind = "job"
    BY <1>3 DEF GetJob, Move, Ready, Send
  <2>2. Carried(wire) /\ NoneLive(wire) /\ wire = <<>>
    BY <2>1, GotReply DEF NoAnswer
  <2>3. answer.job \in Jobs /\ answer.job \in {0} \cup Jobs /\ InFlightJobs = {answer.job}
    BY <2>1 DEF LocalInv, Shape, Answered
  <2>4. GivenOut(answer.job)
    BY <2>3 DEF InFlightJobs, InFlight, GivenOut
  <2>5. "building" \in JobStates /\ "building" \in Progress
    BY LocalAssumption DEF LocalAssumption, JobStates, InFlight
  <2>6. r \in Requests /\ r.live /\ r.kind = "report" /\ r.job = answer.job /\ r.st = "building"
    <3>1. ASSUME NEW j \in {0} \cup Jobs
          PROVE  /\ Request("report", j, "building", {}) \in Requests
                 /\ Request("report", j, "building", {}).live
                 /\ Request("report", j, "building", {}).kind = "report"
                 /\ Request("report", j, "building", {}).job = j
                 /\ Request("report", j, "building", {}).st = "building"
      BY <2>5, RequestIs
    <3> QED
      BY <2>3, <3>1
  <2>7. Sound(r)
    BY <2>3, <2>4, <2>5, <2>6 DEF Sound
  <2>8. CallOf(pc') = "report" /\ pc' \in Waiting
    BY <2>1 DEF CallOf, Waiting, FlushPcs
  <2> HIDE DEF r
  <2> QED
    BY <1>1, <2>1, <2>2, <2>3, <2>4, <2>6, <2>7, <2>8, SendKeeps
<1> QED
  BY <1>2, <1>3

LEMMA AfterFlushIs ==
    ASSUME pc \in FlushPcs \ {"badBuild", "final"}
    PROVE  /\ AfterFlush(pc) \in {"spawnBuild", "build", "run"}
           /\ AfterFlush(pc) \in Executing /\ AfterFlush(pc) \notin Waiting /\ pc \in Executing
  BY DEF AfterFlush, FlushPcs, Executing, Waiting

LEMMA RepliesKeep ==
    ASSUME LocalInv, LocalTypeOK', GetNothing \/ FlushAnswered \/ DoneAnswered
    PROVE  Shape'
<1>1. /\ answer # NoAnswer /\ answer' = NoAnswer /\ wire' = wire
      /\ up /\ exec = "alive" /\ exec' = exec /\ UNCHANGED vars
  BY DEF GetNothing, FlushAnswered, DoneAnswered, FlushEnds, JobLeft, Move, Ready, Alive,
         workerFrame, outside, NoAnswer
<1>2. Carried(wire) /\ NoneLive(wire) /\ wire = <<>>
  BY <1>1, GotReply
<1>3. \/ pc' = "idle" /\ held' = 0
      \/ /\ pc' \in Executing \ Waiting /\ pc' \notin {"idle", "exit"}
         /\ pc \in Executing /\ held' = held /\ pc \notin {"idle", "claim", "exit"}
  <2>1. GetNothing => pc' = "idle" /\ held' = 0
    BY DEF GetNothing, Move, Ready, LocalInv, Shape, Places
  <2>2. DoneAnswered => pc' = "idle" /\ held' = 0
    BY DEF DoneAnswered, JobLeft
  <2>3. FlushAnswered => /\ pc' \in {"spawnBuild", "build", "run"} /\ pc' \in Executing \ Waiting
                         /\ pc \in Executing /\ held' = held
    BY AfterFlushIs DEF FlushAnswered, FlushEnds
  <2>4. pc \in Executing => pc \notin {"idle", "claim", "exit"}
    BY DEF Executing, FlushPcs
  <2> QED
    BY <2>1, <2>2, <2>3, <2>4
<1>4. "idle" \notin Waiting \cup Executing
  BY DEF Waiting, Executing, FlushPcs
<1> QED
  BY <1>1, <1>2, <1>3, <1>4, QuietKeeps

LEMMA SilentKeep ==
    ASSUME LocalInv, LocalTypeOK', SpawnBuild \/ SetBuild \/ BuildDone \/ SpawnRun
    PROVE  Shape'
<1>1. /\ UNCHANGED <<wire, answer, held, exec, vars>> /\ up /\ exec = "alive"
      /\ pc \in {"spawnBuild", "setBuild", "build", "spawnRun"}
      /\ pc' \in {"setBuild", "build", "spawnRun", "setRun"}
  BY DEF SpawnBuild, SetBuild, BuildDone, SpawnRun, Move, Ready, Alive, workerFrame, outside,
         channel
<1>2. pc \notin Waiting /\ pc' \notin Waiting /\ pc \in Executing
  BY <1>1 DEF Waiting, FlushPcs, Executing
<1> QED
  BY <1>1, <1>2, NotWaiting, QuietKeeps

LEMMA GoneKeep ==
    ASSUME LocalInv, LocalTypeOK',
           GiveUp \/ TermDoneEnds \/ WorkerExits \/ WorkerKilled \/ (Terminated /\ held = 0)
    PROVE  Shape'
<1>1. /\ wire' = Abandon(wire) /\ answer' = NoAnswer /\ pc' = "exit"
      /\ up /\ exec = "alive" /\ exec' \in {"alive", "dead"} /\ UNCHANGED vars
  BY DEF GiveUp, CallLost, TermDoneEnds, WorkerExits, WorkerKilled, Dies, Terminated, Move, Ready,
         Alive, workerFrame, outside
<1>2. pc' \notin Waiting /\ pc' \notin Executing
  BY <1>1 DEF Waiting, FlushPcs, Executing
<1> QED
  BY <1>1, <1>2, GivenUp, QuietKeeps

LEMMA FlushLostKeeps ==
    ASSUME LocalInv, LocalTypeOK', FlushLost
    PROVE  Shape'
<1>1. /\ wire' = Abandon(wire) /\ answer' = NoAnswer /\ pc' = AfterFlush(pc) /\ held' = held
      /\ pc \in FlushPcs \ {"badBuild", "final"}
      /\ up /\ exec = "alive" /\ exec' = exec /\ UNCHANGED vars
  BY DEF FlushLost, CallLost, FlushEnds, Alive, workerFrame, outside
<1>2. pc \notin {"idle", "claim", "exit"}
  BY <1>1 DEF FlushPcs
<1> QED
  BY <1>1, <1>2, AfterFlushIs, GivenUp, QuietKeeps

(* Steps that move neither the executor nor what is between it and the     *)
(* server.                                                                 *)
LEMMA SameKeeps ==
    ASSUME LocalInv, UNCHANGED <<up, state, waiters, chain, wire, answer, exec, pc, held>>
    PROVE  Shape'
<1>1. /\ InFlightJobs' = InFlightJobs /\ (Room' <=> Room)
      /\ \A j : GivenOut(j)' <=> GivenOut(j)
  BY DEF InFlightJobs, Room, GivenOut
<1>2. \A i \in 1..Len(wire) : Sound(wire[i])' <=> Sound(wire[i])
  BY DEF Sound, GivenOut
<1>3. Life' /\ Answered' /\ Parked' /\ Places'
  BY <1>1 DEF LocalInv, Shape, Life, Answered, Parked, Places, GivenOut
<1>4. Wired'
  BY <1>2 DEF LocalInv, Shape, Wired, CallOf
<1> QED
  BY <1>3, <1>4 DEF Shape

LEMMA PlaceKept ==
    ASSUME LocalInv,
           BuildInterrupt \/ RunInterrupt \/ Experiment \/ AdmitSubmit \/ DropSubmit \/ Shutdown
    PROVE  Shape'
<1>1. UNCHANGED <<vars, wire, answer, exec, pc, held>>
  BY DEF BuildInterrupt, RunInterrupt, Experiment, ProcessEnds, BuildEnds, RunEnds, RunAnnounced,
         ProcFrame, workerFrame, channel, outside, AdmitSubmit, DropSubmit, Shutdown, executor
<1> QED
  BY <1>1, SameKeeps DEF vars

LEMMA WorkerShape ==
    ASSUME LocalInv, LocalTypeOK', WorkerStep \/ Experiment
    PROVE  Shape'
  BY ReportsKeep, DonesKeep, FailuresKeep, AsksKeep, RepliesKeep, SilentKeep, GoneKeep, PlaceKept
     DEF WorkerStep

-----------------------------------------------------------------------------
(* The server's steps keep it too.                                         *)
LEMMA ClaimKeeps ==
    ASSUME LocalInv, LocalTypeOK', HandleClaim
    PROVE  Shape'
<1>1. /\ wire # <<>> /\ wire[1].kind = "claim" /\ wire' = Tail(wire) /\ up /\ Room
      /\ UNCHANGED <<pc, held, exec>>
  BY HeadIsSound DEF HandleClaim, Take, executor, outside
<1>2. /\ Len(wire) = 1 /\ pc \in {"claim", "exit"} /\ waiters = <<>> /\ answer = NoAnswer
      /\ pc = "claim" => held = 0
      /\ wire[1].live => pc = "claim"
  BY <1>1, HeadIsSound DEF LocalInv, Shape, Wired, Places, Waiting, FlushPcs
<1>3. wire' = <<>>
  <2>1. Tail(wire) \in Seq(Requests) /\ Len(Tail(wire)) = 0
    BY <1>1, <1>2, TailIs DEF LocalInv, LocalTypeOK
  <2> QED
    BY <1>1, <2>1
<1>4. \/ /\ waiters' = <<>> /\ up'
         /\ \/ answer' = NoAnswer
            \/ pc = "claim" /\ answer' = Answer("nothing", 0)
            \/ \E j \in Jobs : pc = "claim" /\ answer' = Answer("job", j) /\ InFlightJobs' = {j}
      \/ /\ Len(waiters') = 1 /\ answer' = NoAnswer /\ InFlightJobs' = {} /\ chain' = chain /\ up'
  <2>1. CASE vars' = vars
    <3>1. answer' = NoAnswer \/ (wire[1].live /\ answer' = Answer("nothing", 0))
          \/ ClaimParked(TheWorker) \/ \E j \in Jobs : ClaimQueued(j)
      BY <1>1, <1>2, HeadIsSound DEF HandleClaim, Reply
    <3>2. ~ClaimParked(TheWorker)
      BY <1>2, <2>1, OnlyWorker DEF ClaimParked, vars
    <3>3. ~\E j \in Jobs : ClaimQueued(j)
      <4> SUFFICES ASSUME NEW j \in Jobs, ClaimQueued(j) PROVE FALSE
        OBVIOUS
      <4>1. state'[j] = "claimed" /\ state[j] = "queued"
        BY DEF ClaimQueued, IsNextQueued, QueuedJobs, LocalInv, LocalTypeOK, TypeOK
      <4> QED
        BY <2>1, <4>1 DEF vars
    <3> QED
      BY <1>1, <1>2, <2>1, <3>1, <3>2, <3>3 DEF vars
  <2>2. ASSUME NEW j \in Jobs, ClaimQueued(j), Reply(wire[1], Answer("job", j))
        PROVE  <1>4
    <3>1. /\ InFlightJobs = {} /\ state' = [state EXCEPT ![j] = "claimed"] /\ up' = up
          /\ waiters' = waiters
      BY <2>2 DEF ClaimQueued
    <3>2. InFlightJobs' = {j}
      <4>1. \A k \in Jobs : state'[k] = IF k = j THEN "claimed" ELSE state[k]
        BY <3>1 DEF LocalInv, LocalTypeOK, TypeOK
      <4>2. \A k \in Jobs : state[k] \notin InFlight
        BY <3>1 DEF InFlightJobs
      <4> QED
        BY <4>1, <4>2 DEF InFlightJobs, InFlight
    <3> QED
      BY <1>1, <1>2, <2>2, <3>1, <3>2 DEF Reply
  <2>3. ASSUME ClaimParked(TheWorker), answer' = answer PROVE <1>4
    <3>1. waiters' = Append(<<>>, TheWorker) /\ UNCHANGED <<state, chain, up>>
          /\ InFlightJobs = {}
      BY <1>2, <2>3 DEF ClaimParked, memory, Backlog
    <3>2. Len(waiters') = 1 /\ InFlightJobs' = InFlightJobs
      BY <3>1 DEF InFlightJobs
    <3> QED
      BY <1>1, <1>2, <2>3, <3>1, <3>2
  <2> QED
    BY <1>1, <2>1, <2>2, <2>3, HeadIsSound DEF HandleClaim
<1>5. Life'
  BY <1>1, <1>4 DEF LocalInv, Shape, Life
<1>6. Wired'
  BY <1>3 DEF Wired
<1>7. Answered'
  BY <1>1, <1>3, <1>4, AnswersTyped DEF Answered, Answer, NoAnswer, Waiting
<1>8. Parked'
  BY <1>1, <1>2, <1>3, <1>4 DEF Parked, Room
<1>9. Places'
  BY <1>1, <1>2, <1>3 DEF Places, Executing, FlushPcs
<1> QED
  BY <1>5, <1>6, <1>7, <1>8, <1>9 DEF Shape

LEMMA HoldKeeps ==
    ASSUME LocalInv, LocalTypeOK', HoldEnds
    PROVE  Shape'
<1>1. /\ up /\ up' = up /\ UNCHANGED <<state, chain, wire, exec, pc, held>>
      /\ answer' = IF ClaimIsLive THEN Answer("nothing", 0) ELSE answer
  BY DEF HoldEnds, ClaimExpired, memory, outside, executor
<1>2. /\ waiters \in Seq(Workers)
      /\ \E i \in 1..Len(waiters) : waiters' = RemoveAt(waiters, i)
  BY DEF HoldEnds, ClaimExpired, LocalInv, LocalTypeOK, TypeOK
<1>3. Len(waiters) = 1 /\ wire = <<>> /\ answer = NoAnswer /\ pc \in {"claim", "exit"}
  BY <1>2 DEF LocalInv, Shape, Parked
<1>4. waiters' = <<>>
  <2>1. waiters' \in Seq(Workers) /\ Len(waiters') = 0
    BY <1>2, <1>3, RemoveIs
  <2> QED
    BY <2>1
<1>5. /\ InFlightJobs' = InFlightJobs /\ \A j : GivenOut(j)' <=> GivenOut(j)
  BY <1>1 DEF InFlightJobs, GivenOut
<1>6. Life' /\ Wired' /\ Parked' /\ Places'
  BY <1>1, <1>3, <1>4, <1>5 DEF LocalInv, Shape, Life, Wired, Parked, Places, Executing, FlushPcs
<1>7. Answered'
  BY <1>1, <1>3 DEF ClaimIsLive, Answered, Answer, NoAnswer, Waiting
<1> QED
  BY <1>6, <1>7 DEF Shape

(* A report or a done is handled: what remains on the wire is its tail, and *)
(* the jobs that were given out stay given out.                            *)
LEMMA HandlingKeeps ==
    ASSUME LocalInv, LocalTypeOK', wire # <<>>, wire' = Tail(wire), wire[1].kind # "claim",
           UNCHANGED <<up, waiters, exec, pc, held>>,
           \A j \in Jobs : GivenOut(j) => GivenOut(j)',
           InFlightJobs' = InFlightJobs \/ pc \notin Executing,
           answer' = answer \/ (wire[1].live /\ answer'.kind # "job")
    PROVE  Shape'
<1>1. /\ LocalTypeOK /\ Life /\ Wired /\ Answered /\ Parked /\ Places
  BY DEF LocalInv, Shape
<1>2. /\ Len(wire) \in Nat \ {0} /\ Len(wire') = Len(wire) - 1 /\ wire' \in Seq(Requests)
      /\ \A i \in 1..Len(wire') : i + 1 \in 1..Len(wire) /\ wire'[i] = wire[i + 1]
  BY <1>1, TailIs DEF LocalTypeOK
<1>3. /\ waiters = <<>> /\ answer = NoAnswer
  BY HeadIsSound
<1>4. wire[1].live => wire' = <<>> /\ pc \in Waiting
  <2> SUFFICES ASSUME wire[1].live PROVE wire' = <<>> /\ pc \in Waiting
    OBVIOUS
  <2>1. 1 \in 1..Len(wire)
    BY <1>2
  <2>2. 1 = Len(wire) /\ pc \in Waiting
    BY <1>1, <2>1 DEF Wired
  <2> QED
    BY <1>2, <2>2
<1>5. Life' /\ Parked'
  BY <1>1, <1>3 DEF Life, Parked
<1>6. Wired'
  <2> SUFFICES ASSUME NEW i \in 1..Len(wire')
               PROVE  /\ Sound(wire[i])'
                      /\ wire'[i].live => /\ i = Len(wire') /\ answer' = NoAnswer
                                          /\ pc \in Waiting /\ wire'[i].kind = CallOf(pc)
                      /\ wire'[i].kind # "claim"
    BY DEF Wired, CallOf
  <2> DEFINE m == i + 1
  <2>1. m \in 1..Len(wire) /\ wire'[i] = wire[m] /\ (m = Len(wire) <=> i = Len(wire')) /\ m # 1
    BY <1>2
  <2> HIDE DEF m
  <2>2. /\ Sound(wire[m]) /\ wire[m].kind # "claim"
        /\ wire[m].live => m = Len(wire) /\ pc \in Waiting /\ wire[m].kind = CallOf(pc)
    <3>1. wire[m].kind = "claim" => Len(wire) = 1
      BY <1>1, <2>1 DEF Wired
    <3>2. wire[m].kind # "claim"
      <4>1. Len(wire) # 1
        BY <2>1
      <4> QED
        BY <3>1, <4>1
    <3>3. m \in 1..Len(wire)
      BY <2>1
    <3>4. Sound(wire[m])
      BY <1>1, <3>3 DEF Wired
    <3>5. wire[m].live => m = Len(wire) /\ pc \in Waiting /\ wire[m].kind = CallOf(pc)
      BY <1>1, <3>3 DEF Wired
    <3> QED
      BY <3>2, <3>4, <3>5
  <2>3. ~wire[1].live
    BY <1>2, <1>4
  <2>4. Sound(wire[i])'
    BY <2>1, <2>2 DEF Sound, GivenOut
  <2>5. answer' = NoAnswer
    BY <1>3, <2>3
  <2> QED
    BY <2>1, <2>2, <2>4, <2>5
<1>7. Answered'
  BY <1>2, <1>3, <1>4 DEF Answered, NoAnswer
<1>8. Places'
  <2>1. pc # "claim" /\ pc # "idle"
    BY <1>1, <1>2 DEF Places
  <2>2. pc \in Executing => \A i \in 1..Len(wire') : wire'[i].kind = "report" /\ wire'[i].job = held
    BY <1>1, <1>2 DEF Places
  <2>3. pc # "exit" => held \in Jobs /\ GivenOut(held)'
    BY <1>1, <2>1 DEF Places
  <2> QED
    BY <1>1, <2>1, <2>2, <2>3 DEF Places, GivenOut
<1> QED
  BY <1>5, <1>6, <1>7, <1>8 DEF Shape

(* What a report and a done do to the jobs.                                *)
LEMMA ReportMoves ==
    ASSUME LocalInv, HandleReport
    PROVE  /\ wire # <<>> /\ wire' = Tail(wire) /\ wire[1].kind = "report" /\ up /\ up' = up
           /\ wire[1].job \in Jobs /\ GivenOut(wire[1].job)
           /\ wire[1].runs \in SUBSET RunIds
           /\ UNCHANGED <<submitted, waiters, disk, crashes, failures>>
           /\ UNCHANGED <<server, outside, executor, used>>
           /\ answer' = answer \/ (wire[1].live /\ answer'.kind \in {"stop", "go"})
           /\ \A j \in Jobs : GivenOut(j) <=> GivenOut(j)'
           /\ InFlightJobs' = InFlightJobs
           /\ \A j \in Jobs \ {wire[1].job} : state'[j] = state[j] /\ runs'[j] = runs[j]
           /\ state[wire[1].job] \in Terminal => /\ state' = state /\ runs' = runs
           /\ state[wire[1].job] \notin Terminal =>
                 /\ state'[wire[1].job] \in InFlight
                 /\ runs'[wire[1].job] = runs[wire[1].job] \cup wire[1].runs
<1> DEFINE r == wire[1]
<1>1. /\ wire # <<>> /\ wire' = Tail(wire) /\ r.kind = "report" /\ Report(r.job, r.st, r.runs)
      /\ Reply(r, Answer(IF ReportStops(r.job) THEN "stop" ELSE "go", 0))
      /\ UNCHANGED <<server, outside, executor, used>>
  BY HeadIsSound DEF HandleReport, Take
<1>2. /\ r.job \in Jobs /\ GivenOut(r.job) /\ r.st \in Progress /\ r.runs \in SUBSET RunIds
  BY <1>1, HeadIsSound DEF Sound, Requests
<1>3. /\ up /\ UNCHANGED <<up, submitted, waiters, disk, crashes, failures>>
      /\ state \in [Jobs -> JobStates] /\ runs \in [Jobs -> SUBSET RunIds]
  BY <1>1 DEF Report, faults, LocalInv, LocalTypeOK, TypeOK
<1>4. answer' = answer \/ (r.live /\ answer'.kind \in {"stop", "go"})
  BY <1>1 DEF Reply, Answer
<1> HIDE DEF r
<1>5. state[r.job] \in InFlight \/ state[r.job] \in Terminal
  BY <1>2, <1>3 DEF GivenOut, JobStates
<1>6. CASE state[r.job] \in Terminal
  <2>1. state' = state /\ runs' = runs
    BY <1>1, <1>6 DEF Report
  <2> QED
    BY <1>1, <1>2, <1>3, <1>4, <1>6, <2>1 DEF r, GivenOut, InFlightJobs
<1>7. CASE state[r.job] \notin Terminal
  <2>1. /\ state' = [state EXCEPT ![r.job] = ReportState(r.job, r.st)]
        /\ runs' = [runs EXCEPT ![r.job] = @ \cup r.runs]
    BY <1>1, <1>7 DEF Report
  <2>2. ReportState(r.job, r.st) \in InFlight
    BY <1>2, <1>5, <1>7, LocalAssumption DEF ReportState, LocalAssumption, InFlight
  <2>3. /\ state'[r.job] \in InFlight /\ runs'[r.job] = runs[r.job] \cup r.runs
        /\ \A j \in Jobs \ {r.job} : state'[j] = state[j] /\ runs'[j] = runs[j]
    BY <1>2, <1>3, <2>1, <2>2
  <2>4. \A j \in Jobs : (state'[j] \in InFlight <=> state[j] \in InFlight)
    BY <1>5, <1>7, <2>3
  <2>5. \A j \in Jobs : GivenOut(j) <=> GivenOut(j)'
    BY <1>2, <2>3 DEF GivenOut, InFlight
  <2>6. InFlightJobs' = InFlightJobs
    BY <2>4 DEF InFlightJobs
  <2> QED
    BY <1>1, <1>2, <1>3, <1>4, <1>7, <2>3, <2>5, <2>6 DEF r
<1> QED
  BY <1>6, <1>7

LEMMA DoneMoves ==
    ASSUME LocalInv, HandleDone
    PROVE  /\ wire # <<>> /\ wire' = Tail(wire) /\ wire[1].kind = "done" /\ up /\ up' = up
           /\ wire[1].job \in Jobs /\ GivenOut(wire[1].job) /\ wire[1].st \in Terminal
           /\ UNCHANGED <<submitted, runs, waiters, disk, crashes, failures>>
           /\ UNCHANGED <<server, outside, executor, used>>
           /\ answer' = answer \/ (wire[1].live /\ answer'.kind = "ok")
           /\ \A j \in Jobs : GivenOut(j) <=> GivenOut(j)'
           /\ \A j \in Jobs : state'[j] = IF j = wire[1].job THEN wire[1].st ELSE state[j]
           /\ pc \notin Executing
<1> DEFINE r == wire[1]
<1>1. /\ wire # <<>> /\ wire' = Tail(wire) /\ r.kind = "done" /\ Done(r.job, r.st)
      /\ Reply(r, Answer("ok", 0))
      /\ UNCHANGED <<server, outside, executor, used>>
  BY HeadIsSound DEF HandleDone, Take
<1>2. /\ r.job \in Jobs /\ GivenOut(r.job) /\ r.st \in Outcomes /\ r.st \in Terminal
  BY <1>1, HeadIsSound, OutcomesTyped DEF Sound
<1>3. /\ up /\ UNCHANGED <<up, submitted, runs, waiters, disk, crashes, failures>>
      /\ state' = [state EXCEPT ![r.job] = r.st] /\ state \in [Jobs -> JobStates]
  BY <1>1 DEF Done, faults, LocalInv, LocalTypeOK, TypeOK
<1>4. answer' = answer \/ (r.live /\ answer'.kind = "ok")
  BY <1>1 DEF Reply, Answer
<1>5. pc \notin Executing
  BY <1>1, HeadIsSound DEF LocalInv, Shape, Places
<1> HIDE DEF r
<1>6. \A j \in Jobs : state'[j] = IF j = r.job THEN r.st ELSE state[j]
  BY <1>2, <1>3
<1>7. \A j \in Jobs : GivenOut(j) <=> GivenOut(j)'
  BY <1>2, <1>6 DEF GivenOut, Terminal
<1> QED
  BY <1>1, <1>2, <1>3, <1>4, <1>5, <1>6, <1>7 DEF r

LEMMA RequestsKeep ==
    ASSUME LocalInv, LocalTypeOK', HandleReport \/ HandleDone
    PROVE  Shape'
<1>1. HandleReport => Shape'
  BY ReportMoves, HandlingKeeps DEF executor, outside
<1>2. HandleDone => Shape'
  BY DoneMoves, HandlingKeeps DEF executor, outside
<1> QED
  BY <1>1, <1>2

(* A step of the queue alone: what was given out stays so, and nothing in  *)
(* flight changes under an executor that works on it.                      *)
LEMMA QueueKeeps ==
    ASSUME LocalInv, LocalTypeOK', Life', UNCHANGED <<wire, answer, pc, held>>,
           \A j \in Jobs : GivenOut(j) => GivenOut(j)',
           InFlightJobs' = InFlightJobs \/ (pc \notin Executing /\ answer.kind # "job"),
           waiters' # <<>> => /\ waiters' = waiters /\ Len(chain') <= Len(chain)
                              /\ InFlightJobs = {} => InFlightJobs' = {}
    PROVE  Shape'
<1>1. /\ LocalTypeOK /\ Wired /\ Answered /\ Parked /\ Places
  BY DEF LocalInv, Shape
<1>2. Wired'
  <2>1. ASSUME NEW i \in 1..Len(wire) PROVE Sound(wire[i])'
    <3>1. Sound(wire[i])
      BY <1>1 DEF Wired
    <3> QED
      BY <3>1 DEF Sound, GivenOut
  <2>2. \A i \in 1..Len(wire) :
           /\ wire[i].live => /\ i = Len(wire) /\ answer = NoAnswer
                              /\ pc \in Waiting /\ wire[i].kind = CallOf(pc)
           /\ wire[i].kind = "claim" => Len(wire) = 1 /\ pc \in {"claim", "exit"}
    BY <1>1 DEF Wired
  <2> QED
    BY <2>1, <2>2 DEF Wired, CallOf
<1>3. Answered'
  BY <1>1 DEF Answered
<1>4. Parked'
  <2> SUFFICES ASSUME waiters' # <<>>
               PROVE  /\ Len(waiters') = 1 /\ wire = <<>> /\ answer = NoAnswer
                      /\ pc \in {"claim", "exit"} /\ InFlightJobs' = {} /\ Room'
    BY DEF Parked
  <2>1. Len(chain') \in Nat /\ Len(chain) \in Nat /\ MaxChain \in Nat
    BY <1>1, QueueAssumption DEF LocalTypeOK, TypeOK, QueueAssumption
  <2> QED
    BY <1>1, <2>1 DEF Parked, Room
<1>5. Places'
  BY <1>1 DEF Places, GivenOut
<1> QED
  BY <1>2, <1>3, <1>4, <1>5 DEF Shape

LEMMA SubmitKeeps ==
    ASSUME LocalInv, LocalTypeOK', RunSubmit
    PROVE  Shape'
<1> DEFINE new == submitted + 1
<1>1. /\ up /\ up' = up /\ CanSubmit /\ UNCHANGED <<exec, wire, pc, held>>
  BY DEF RunSubmit, SubmitParked, SubmitAssigned, CanSubmit, outside, executor
<1>2. /\ new \in Jobs /\ state[new] = "none" /\ state \in [Jobs -> JobStates]
  <2>1. state \in [Jobs -> JobStates] /\ submitted \in 0..MaxJobs /\ MaxJobs \in Nat
    BY QueueAssumption DEF LocalInv, LocalTypeOK, TypeOK, QueueAssumption
  <2>2. new \in Jobs /\ new > submitted
    BY <1>1, <2>1 DEF CanSubmit, Jobs
  <2> QED
    BY <2>1, <2>2 DEF LocalInv, SaveInv, Fresh
<1> HIDE DEF new
<1>3. Life'
  BY <1>1 DEF LocalInv, Shape, Life
<1>4. CASE SubmitParked /\ answer' = answer
  <2>1. waiters = <<>> /\ waiters' = waiters /\ state' = [state EXCEPT ![new] = "queued"]
    BY <1>4 DEF SubmitParked, new
  <2>2. /\ \A j \in Jobs : state'[j] = IF j = new THEN "queued" ELSE state[j]
        /\ \A j \in Jobs : GivenOut(j) <=> GivenOut(j)'
        /\ InFlightJobs' = InFlightJobs
    BY <1>2, <2>1 DEF GivenOut, InFlightJobs, InFlight
  <2> QED
    BY <1>1, <1>3, <1>4, <2>1, <2>2, QueueKeeps
<1>5. CASE SubmitAssigned /\ answer' = IF ClaimIsLive THEN Answer("job", submitted') ELSE answer
  <2>1. /\ waiters # <<>> /\ waiters' = Tail(waiters) /\ submitted' = new
        /\ state' = [state EXCEPT ![new] = "claimed"]
    BY <1>5 DEF SubmitAssigned, new
  <2>2. /\ Len(waiters) = 1 /\ wire = <<>> /\ answer = NoAnswer /\ pc \in {"claim", "exit"}
        /\ InFlightJobs = {}
    BY <2>1 DEF LocalInv, Shape, Parked
  <2>3. waiters' = <<>>
    <3>1. waiters \in Seq(Workers)
      BY DEF LocalInv, LocalTypeOK, TypeOK
    <3> QED
      BY <2>1, <2>2, <3>1
  <2>4. InFlightJobs' = {new}
    <3>1. /\ \A j \in Jobs : state'[j] = IF j = new THEN "claimed" ELSE state[j]
          /\ \A j \in Jobs : state[j] \notin InFlight
      BY <1>2, <2>1, <2>2 DEF InFlightJobs
    <3> QED
      BY <1>2, <3>1 DEF InFlightJobs, InFlight
  <2>5. Wired' /\ Parked'
    BY <1>1, <2>2, <2>3 DEF Wired, Parked
  <2>6. Places'
    BY <1>1, <2>2 DEF LocalInv, Shape, Places, Executing, FlushPcs
  <2>7. Answered'
    BY <1>1, <1>2, <1>5, <2>1, <2>2, <2>4 DEF Answered, Answer, NoAnswer, ClaimIsLive, Waiting
  <2> QED
    BY <1>3, <2>5, <2>6, <2>7 DEF Shape
<1> QED
  BY <1>4, <1>5 DEF RunSubmit

LEMMA StopKeeps ==
    ASSUME LocalInv, LocalTypeOK', NEW n \in Jobs, UserStop(n)
    PROVE  Shape'
<1>1. /\ up /\ up' = up /\ waiters' = waiters /\ UNCHANGED <<exec, wire, answer, pc, held>>
  BY DEF UserStop, StopQueued, StopInFlight, local, channel, executor, outside
<1>2. /\ Life' /\ state \in [Jobs -> JobStates]
  BY <1>1 DEF LocalInv, Shape, Life, LocalTypeOK, TypeOK
<1>3. CASE StopQueued(n)
  <2>1. waiters = <<>>
    BY <1>3 DEF StopQueued, LocalInv, Wakeup, NoLostWakeup, QueuedJobs
  <2>2. state[n] = "queued" /\ state' = [state EXCEPT ![n] = "stopped"]
    BY <1>3 DEF StopQueued
  <2>3. /\ \A j \in Jobs : GivenOut(j) => GivenOut(j)'
        /\ InFlightJobs' = InFlightJobs
    BY <1>2, <2>2 DEF GivenOut, InFlightJobs, InFlight
  <2> QED
    BY <1>1, <1>2, <2>1, <2>3, QueueKeeps
<1>4. CASE StopInFlight(n)
  <2>1. state' = state /\ chain' = chain
    BY <1>4 DEF StopInFlight
  <2> QED
    BY <1>1, <2>1, SameKeeps
<1> QED
  BY <1>3, <1>4 DEF UserStop

LEMMA ClosedKeeps ==
    ASSUME LocalInv, LocalTypeOK', ExecutorClosed
    PROVE  Shape'
<1>1. /\ up /\ up' = up /\ waiters' = waiters /\ UNCHANGED <<wire, answer, pc, held>>
      /\ exec = "dead" /\ exec' = "closed"
      /\ state' = [j \in Jobs |-> IF state[j] \in InFlight THEN "orphaned" ELSE state[j]]
      /\ InFlightJobs = {} => chain' = chain
  BY DEF ExecutorClosed, InterruptJobs, PersistAll, channel, executor
<1>2. pc = "exit"
  BY <1>1 DEF LocalInv, Shape, Life
<1>3. Life'
  BY <1>1, <1>2 DEF Life
<1>4. /\ \A j \in Jobs : state'[j] = IF state[j] \in InFlight THEN "orphaned" ELSE state[j]
  BY <1>1
<1>5. /\ \A j \in Jobs : GivenOut(j) => GivenOut(j)'
      /\ InFlightJobs' = {}
  BY <1>4 DEF GivenOut, InFlightJobs, InFlight
<1>6. pc \notin Executing /\ answer.kind # "job"
  BY <1>2 DEF LocalInv, Shape, Answered, Executing, Waiting, FlushPcs, NoAnswer
<1>7. waiters' # <<>> => Len(chain') <= Len(chain)
  <2> SUFFICES ASSUME waiters # <<>> PROVE Len(chain') <= Len(chain)
    BY <1>1
  <2>1. InFlightJobs = {}
    BY DEF LocalInv, Shape, Parked
  <2>2. Len(chain) \in Nat
    BY DEF LocalInv, LocalTypeOK, TypeOK
  <2> QED
    BY <1>1, <2>1, <2>2
<1> QED
  BY <1>1, <1>3, <1>5, <1>6, <1>7, QueueKeeps

LEMMA DiskKeeps ==
    ASSUME LocalInv, LocalTypeOK', Disk
    PROVE  Shape'
<1>1. PICK n \in Jobs : WriteSnapshot(n) \/ WriteFails(n)
  BY DEF Disk
<1>2. /\ up /\ up' = up /\ waiters' = waiters /\ state' = state
      /\ UNCHANGED <<exec, wire, answer, pc, held>>
      /\ WriteOf(n) /\ chain' = ChainAfter(n)
  BY <1>1 DEF Disk, WriteSnapshot, WriteFails, memory, local, channel, executor, outside
<1>3. Len(chain') <= Len(chain)
  <2>1. /\ chain \in Seq(Link) /\ chain # <<>>
    BY <1>2 DEF LocalInv, LocalTypeOK, TypeOK, WriteOf
  <2>2. /\ Len(chain) \in Nat /\ Tail(chain) \in Seq(Link) /\ Len(Tail(chain)) = Len(chain) - 1
        /\ Head(chain) \in Link
    BY <2>1
  <2>3. ASSUME NEW L PROVE Len(<<L>> \o Tail(chain)) = Len(chain)
    <3>1. <<L>> \in Seq({L} \cup Link) /\ Tail(chain) \in Seq({L} \cup Link) /\ Len(<<L>>) = 1
      BY <2>2
    <3> QED
      BY <2>2, <3>1
  <2> QED
    BY <1>2, <2>2, <2>3 DEF ChainAfter
<1>4. /\ InFlightJobs' = InFlightJobs
      /\ \A j \in Jobs : GivenOut(j) => GivenOut(j)'
      /\ Life'
  BY <1>2 DEF InFlightJobs, GivenOut, LocalInv, Shape, Life
<1> QED
  BY <1>2, <1>3, <1>4, QueueKeeps

LEMMA BootKeeps ==
    ASSUME LocalInv, LocalTypeOK', Boot
    PROVE  Shape'
<1>1. /\ ~up /\ up' /\ waiters' = waiters /\ exec' = "alive"
      /\ UNCHANGED <<wire, answer, pc, held>>
  BY DEF Boot, InitJobs, channel, executor
<1>2. waiters = <<>> /\ exec = "none" /\ pc = "idle" /\ wire = <<>> /\ held = 0
  BY <1>1 DEF LocalInv, Wakeup, Shape, Life, Places, LocalTypeOK, TypeOK
<1>3. answer = NoAnswer
  BY <1>2 DEF LocalInv, Shape, Answered, Waiting, FlushPcs
<1>4. Life' /\ Wired' /\ Answered' /\ Parked'
  BY <1>1, <1>2, <1>3 DEF Life, Wired, Answered, Parked, NoAnswer
<1>5. Places'
  BY <1>1, <1>2 DEF Places, Executing, FlushPcs
<1> QED
  BY <1>4, <1>5 DEF Shape

LEMMA AllGoneKeeps ==
    ASSUME LocalTypeOK', ServerExits \/ ServerCrashes
    PROVE  Shape'
<1>1. /\ up' = FALSE /\ waiters' = <<>> /\ exec' = "none" /\ wire' = <<>> /\ answer' = NoAnswer
      /\ pc' = "idle" /\ held' = 0
  BY DEF ServerExits, ServerCrashes, AllGone, Exit, Crash, Down
<1>2. Life' /\ Wired' /\ Answered' /\ Parked'
  BY <1>1 DEF Life, Wired, Answered, Parked, NoAnswer
<1>3. Places'
  BY <1>1 DEF Places, Executing, FlushPcs
<1> QED
  BY <1>2, <1>3 DEF Shape

(* A late request disappears from the wire.                                *)
LEMMA LostKeeps ==
    ASSUME LocalInv, LocalTypeOK', RequestLost
    PROVE  Shape'
<1>1. PICK n \in 1..Len(wire) : ~wire[n].live /\ wire' = RemoveAt(wire, n)
  BY DEF RequestLost
<1>2. /\ UNCHANGED vars /\ UNCHANGED <<exec, answer, pc, held>>
  BY DEF RequestLost, outside, executor
<1>3. /\ LocalTypeOK /\ Life /\ Wired /\ Answered /\ Parked /\ Places
  BY DEF LocalInv, Shape
<1> DEFINE at(i) == IF i < n THEN i ELSE i + 1
<1>4. /\ Len(wire) \in Nat /\ Len(wire') = Len(wire) - 1
      /\ \A i \in 1..Len(wire') : at(i) \in 1..Len(wire) /\ wire'[i] = wire[at(i)]
      /\ \A i \in 1..Len(wire') : at(i) = Len(wire) => i = Len(wire')
  <2>1. wire \in Seq(Requests) /\ Len(wire) \in Nat
    BY <1>3 DEF LocalTypeOK
  <2>2. /\ Len(RemoveAt(wire, n)) = Len(wire) - 1
        /\ \A i \in 1..Len(RemoveAt(wire, n)) :
              RemoveAt(wire, n)[i] = wire[IF i < n THEN i ELSE i + 1]
    BY <2>1, RemoveIs
  <2>3. /\ Len(wire') = Len(wire) - 1
        /\ \A i \in 1..Len(wire') : wire'[i] = wire[at(i)]
    BY <1>1, <2>2
  <2> QED
    BY <2>1, <2>3
<1> HIDE DEF at
<1>5. /\ wire # <<>> /\ waiters = <<>> /\ answer = NoAnswer
  <2>1. wire # <<>>
    BY <1>1, <1>3 DEF LocalTypeOK
  <2> QED
    BY <2>1, HeadIsSound
<1>6. /\ InFlightJobs' = InFlightJobs /\ UNCHANGED <<state, waiters, up>>
  BY <1>2 DEF InFlightJobs, vars
<1>7. Wired'
  <2> SUFFICES ASSUME NEW i \in 1..Len(wire')
               PROVE  /\ Sound(wire[i])'
                      /\ wire'[i].live => /\ i = Len(wire') /\ answer' = NoAnswer
                                          /\ pc \in Waiting /\ wire'[i].kind = CallOf(pc)
                      /\ wire'[i].kind # "claim"
    BY <1>2 DEF Wired, CallOf
  <2>1. at(i) \in 1..Len(wire) /\ wire'[i] = wire[at(i)] /\ (at(i) = Len(wire) => i = Len(wire'))
    BY <1>4
  <2>2. Sound(wire[at(i)])
    BY <1>3, <2>1 DEF Wired
  <2>3. wire[at(i)].live => at(i) = Len(wire) /\ pc \in Waiting /\ wire[at(i)].kind = CallOf(pc)
    BY <1>3, <2>1 DEF Wired
  <2>4. wire[at(i)].kind # "claim"
    <3>1. Len(wire) # 1
      BY <1>4
    <3> QED
      BY <1>3, <2>1, <3>1 DEF Wired
  <2>5. Sound(wire[i])'
    BY <1>6, <2>1, <2>2 DEF Sound, GivenOut
  <2> QED
    BY <1>2, <1>5, <2>1, <2>3, <2>4, <2>5
<1>8. Life' /\ Answered' /\ Parked'
  BY <1>2, <1>3, <1>5, <1>6 DEF Life, Answered, Parked
<1>9. Places'
  <2>1. pc # "claim" /\ (pc = "idle" => FALSE)
    BY <1>1, <1>3, <1>5 DEF Places
  <2>2. pc \in Executing => \A i \in 1..Len(wire') : wire'[i].kind = "report" /\ wire'[i].job = held
    BY <1>3, <1>4 DEF Places
  <2> QED
    BY <1>2, <1>3, <1>6, <2>1, <2>2 DEF Places, GivenOut
<1> QED
  BY <1>7, <1>8, <1>9 DEF Shape

LEMMA ShapeNext == LocalInv /\ [LocalNext]_allVars => Shape'
<1> SUFFICES ASSUME LocalInv, [LocalNext]_allVars PROVE Shape'
  OBVIOUS
<1>1. LocalTypeOK'
  BY LocalTypeNext
<1>2. CASE ServerStep \/ Clients
  BY <1>1, <1>2, ClaimKeeps, RequestsKeep, HoldKeeps, SubmitKeeps, ClosedKeeps, AllGoneKeeps,
     BootKeeps, DiskKeeps, PlaceKept, StopKeeps DEF ServerStep, Clients
<1>3. CASE WorkerStep \/ Experiment
  BY <1>1, <1>3, WorkerShape
<1>4. CASE Faults
  BY <1>1, <1>4, FlushLostKeeps, DonesKeep, FailuresKeep, GoneKeep, LostKeeps, AllGoneKeeps
     DEF Faults
<1>5. CASE UNCHANGED allVars
  BY <1>5, SameKeeps DEF allVars, vars, local, channel, executor, outside
<1> QED
  BY <1>2, <1>3, <1>4, <1>5 DEF LocalNext

-----------------------------------------------------------------------------
(* The runs that were announced.  The counters of what was lost only grow, *)
(* so a state in which nothing was lost comes after one.                   *)
LEMMA CountersTyped ==
    ASSUME LocalTypeOK
    PROVE  used.calls \in Nat /\ crashes \in Nat /\ failures \in Nat
<1>1. MaxFaults \in Nat /\ MaxCrashes \in Nat /\ MaxWriteFailures \in Nat
  BY QueueAssumption, LocalAssumption DEF QueueAssumption, LocalAssumption
<1> QED
  BY <1>1 DEF LocalTypeOK, TypeOK

LEMMA CallsGrow ==
    ASSUME LocalInv, [LocalNext]_allVars
    PROVE  /\ used'.calls \in {used.calls, used.calls + 1}
           /\ FlushLost \/ LastFlushLost \/ ExecuteFails \/ GiveUp => used'.calls = used.calls + 1
<1>1. used \in [calls : 0..MaxFaults, kills : 0..MaxFaults, shutdowns : 0..MaxShutdowns]
  BY DEF LocalInv, LocalTypeOK
<1>2. FlushLost \/ LastFlushLost \/ ExecuteFails \/ GiveUp => used'.calls = used.calls + 1
  BY <1>1 DEF FlushLost, LastFlushLost, ExecuteFails, GiveUp, SpawnFails, CallLost
<1>3. WorkerKilled \/ Shutdown => used'.calls = used.calls
  BY <1>1 DEF WorkerKilled, Shutdown
<1>4. RequestLost \/ ServerCrashes \/ ServerExits \/ AdmitSubmit \/ DropSubmit
      \/ (\E j \in Jobs : UserStop(j)) => used' = used
  BY DEF RequestLost, ServerCrashes, ServerExits, AllGone, AdmitSubmit, DropSubmit, UserStop, local
<1>5. HandleClaim \/ HandleReport \/ HandleDone \/ HoldEnds \/ RunSubmit \/ ExecutorClosed \/ Boot
      \/ Disk => used' = used
  BY DEF HandleClaim, HandleReport, HandleDone, HoldEnds, RunSubmit, ExecutorClosed, Boot, Disk,
         local
<1>6. WorkerStep => used' = used
  BY DEF WorkerStep, AskForJob, GetNothing, GetJob, FlushAnswered, LastFlushAnswered,
         SpawnBuild, SetBuild, BuildTick, BuildInterrupt, BuildStopped, BuildFailed, BuildDone,
         SpawnRun, SetRun, RunTick, RunInterrupt, RunDone, DoneAnswered, ErrorReported,
         Terminated, TermDoneEnds, WorkerExits
<1>7. Experiment => used' = used
  BY DEF Experiment, ProcessEnds, BuildEnds, RunEnds, RunAnnounced, ProcFrame
<1>8. UNCHANGED allVars => used' = used
  BY DEF allVars, local
<1> QED
  BY <1>2, <1>3, <1>4, <1>5, <1>6, <1>7, <1>8
     DEF LocalNext, ServerStep, Clients, Faults

LEMMA LossesGrow ==
    ASSUME LocalInv, [Next]_vars
    PROVE  /\ crashes' \in {crashes, crashes + 1} /\ failures' \in {failures, failures + 1}
           /\ (Crash => crashes' = crashes + 1)
           /\ \A j \in Jobs : WriteFails(j) => failures' = failures + 1
<1>1. Calls => UNCHANGED <<crashes, failures>>
  BY DEF Calls, Submit, SubmitParked, SubmitAssigned, ClaimQueued, ClaimParked, ClaimExpired,
         Report, Done, StopQueued, StopInFlight, InterruptJobs, faults
<1>2. Storage => crashes' = crashes /\ failures' \in {failures, failures + 1}
  BY DEF Storage, WriteSnapshot, WriteFails, faults
<1>3. Process => failures' = failures /\ crashes' \in {crashes, crashes + 1}
  BY DEF Process, Exit, Crash, InitJobs, Down, faults
<1>4. (Crash => crashes' = crashes + 1) /\ \A j \in Jobs : WriteFails(j) => failures' = failures + 1
  BY DEF Crash, WriteFails
<1> QED
  BY <1>1, <1>2, <1>3, <1>4 DEF Next, Queue, vars

LEMMA CleanBefore ==
    ASSUME LocalInv, [LocalNext]_allVars, Clean'
    PROVE  /\ Clean /\ failures = 0
           /\ ~FlushLost /\ ~LastFlushLost /\ ~ExecuteFails /\ ~GiveUp /\ ~ServerCrashes
           /\ \A j \in Jobs : ~WriteFails(j)
<1>1. used.calls \in Nat /\ crashes \in Nat /\ failures \in Nat
  BY CountersTyped DEF LocalInv
<1>2. /\ used'.calls \in {used.calls, used.calls + 1}
      /\ crashes' \in {crashes, crashes + 1} /\ failures' \in {failures, failures + 1}
      /\ FlushLost \/ LastFlushLost \/ ExecuteFails \/ GiveUp => used'.calls = used.calls + 1
      /\ (Crash => crashes' = crashes + 1)
      /\ \A j \in Jobs : WriteFails(j) => failures' = failures + 1
  BY CallsGrow, LossesGrow, QueueStep
<1>3. used'.calls + crashes' + failures' = 0
  BY DEF Clean
<1>4. used'.calls = 0 /\ crashes' = 0 /\ failures' = 0
  <2>1. used'.calls \in Nat /\ crashes' \in Nat /\ failures' \in Nat
    BY <1>1, <1>2
  <2> QED
    BY <1>3, <2>1
<1>5. used.calls = 0 /\ crashes = 0 /\ failures = 0
  BY <1>1, <1>2, <1>4
<1>6. Clean
  BY <1>5 DEF Clean
<1> QED
  BY <1>1, <1>2, <1>4, <1>5, <1>6 DEF ServerCrashes

LEMMA SameShown ==
    ASSUME UNCHANGED <<up, state, runs, disk>>, NEW j
    PROVE  Shown(j)' = Shown(j)
  BY DEF Shown, Snap

(* Steps that leave alone whatever the links are made of.                  *)
LEMMA LinksSame ==
    ASSUME Linked, UNCHANGED <<up, state, runs, disk, wire, answer, pc, held, unsent, started>>
    PROVE  Linked'
<1>1. JobsLinked'
  BY SameShown DEF Linked, JobsLinked
<1>2. DonesLinked' /\ OfferUnstarted' /\ Underway' /\ Flushed'
  BY DEF Linked, DonesLinked, OfferUnstarted, Underway, OnTheWay, Flushed
<1> QED
  BY <1>1, <1>2 DEF Linked

(* A step of the executor that does not start it again on a job.           *)
LEMMA LinksOfWorker ==
    ASSUME Linked, UNCHANGED <<vars, started>>, answer' = NoAnswer,
           DonesLinked', Underway', Flushed'
    PROVE  Linked'
<1>1. JobsLinked'
  BY SameShown DEF Linked, JobsLinked, vars
<1>2. OfferUnstarted'
  BY DEF OfferUnstarted, NoAnswer
<1> QED
  BY <1>1, <1>2 DEF Linked

(* Nothing is left on the wire of an executor that works on a job and has  *)
(* no call open.                                                           *)
LEMMA WireEmpty ==
    ASSUME LocalInv, Linked, pc \in Executing \ Waiting
    PROVE  wire = <<>> /\ answer = NoAnswer
<1>1. wire \in Seq(Requests) /\ NoneLive(wire) /\ answer = NoAnswer
  BY NotWaiting DEF LocalInv, LocalTypeOK
<1>2. \A i \in 1..Len(wire) : FALSE
  BY <1>1 DEF Linked, Underway, NoneLive
<1> QED
  BY <1>1, <1>2

LEMMA OneSent ==
    ASSUME NEW r, wire = <<>>, wire' = Append(wire, r)
    PROVE  Len(wire') = 1 /\ wire'[1] = r
  OBVIOUS

LEMMA ReportsLink ==
    ASSUME LocalInv, LocalTypeOK', Linked,
           BuildTick \/ BuildFailed \/ RunTick \/ RunDone \/ SetRun \/ BuildStopped
    PROVE  Linked'
<1>1. /\ UNCHANGED <<vars, started, held>> /\ answer' = NoAnswer
      /\ pc \in {"build", "run", "setRun"} /\ pc \in Executing \ Waiting
  BY DEF BuildTick, BuildFailed, RunTick, RunDone, SetRun, BuildStopped, Move, Ready,
         workerFrame, outside, SendReport, Send, Executing, Waiting, FlushPcs
<1>2. /\ wire = <<>> /\ UNCHANGED <<runs>>
      /\ \A x \in started[held] : x \in runs[held] \/ x \in unsent
  <2>1. wire = <<>>
    BY <1>1, WireEmpty
  <2> QED
    BY <1>1, <2>1 DEF Linked, Underway, OnTheWay, vars
<1>3. CASE BuildTick \/ BuildFailed \/ RunTick \/ RunDone \/ SetRun
  <2>1. PICK st \in {"none", "running"} :
           wire' = Append(wire, Request("report", held, st, unsent)) /\ unsent' = {}
    BY <1>3 DEF BuildTick, BuildFailed, RunTick, RunDone, SetRun, SendReport, Send
  <2>2. /\ Len(wire') = 1 /\ wire'[1].kind = "report" /\ wire'[1].runs = unsent /\ wire'[1].live
    BY <1>2, <2>1, OneSent DEF Request
  <2>3. DonesLinked' /\ Flushed'
    BY <2>1, <2>2 DEF DonesLinked, Flushed
  <2>4. Underway'
    <3>1. ASSUME NEW x \in started[held] PROVE OnTheWay(x)'
      <4>1. 1 \in 1..Len(wire')
        BY <2>2
      <4> QED
        BY <1>1, <1>2, <2>2, <4>1 DEF OnTheWay
    <3> QED
      BY <1>1, <2>2, <3>1 DEF Underway
  <2> QED
    BY <1>1, <2>3, <2>4, LinksOfWorker
<1>4. CASE BuildStopped
  <2>1. /\ wire' = Append(wire, Request("done", held, "stopped", {})) /\ pc' = "done"
    BY <1>4 DEF BuildStopped, Send, Move
  <2>2. Len(wire') = 1 /\ wire'[1].st = "stopped"
    BY <1>2, <2>1, OneSent DEF Request
  <2>3. DonesLinked' /\ Flushed' /\ Underway'
    BY <2>1, <2>2 DEF DonesLinked, Ended, Flushed, Underway, Executing, FlushPcs
  <2> QED
    BY <1>1, <2>3, LinksOfWorker
<1> QED
  BY <1>3, <1>4

LEMMA DonesLink ==
    ASSUME LocalInv, LocalTypeOK', Linked, LastFlushAnswered \/ ErrorReported
    PROVE  Linked'
<1>1. /\ UNCHANGED <<vars, started, held>> /\ answer' = NoAnswer /\ pc' \in {"done", "errDone"}
      /\ answer # NoAnswer
  BY DEF LastFlushAnswered, LastFlushEnds, ErrorReported, Move, workerFrame, outside, Send,
         NoAnswer
<1>2. wire = <<>>
  BY <1>1, GotReply
<1>3. PICK st : /\ wire' = Append(wire, Request("done", held, st, {}))
                /\ Ended(st) => pc = "final"
  BY DEF LastFlushAnswered, LastFlushEnds, ErrorReported, Send, FinalState, Ended
<1>4. Len(wire') = 1 /\ wire'[1].st = st /\ wire'[1].job = held
  BY <1>2, <1>3, OneSent DEF Request
<1>5. pc = "final" => started[held] \subseteq runs[held]
  <2> SUFFICES ASSUME pc = "final" PROVE started[held] \subseteq runs[held]
    OBVIOUS
  <2>1. pc \in Executing /\ unsent = {}
    BY DEF Linked, Flushed, Executing, FlushPcs
  <2> QED
    BY <1>2, <2>1 DEF Linked, Underway, OnTheWay
<1>6. DonesLinked'
  BY <1>1, <1>3, <1>4, <1>5 DEF DonesLinked, vars
<1>7. Underway' /\ Flushed'
  BY <1>1 DEF Underway, Flushed, Executing, FlushPcs
<1> QED
  BY <1>1, <1>6, <1>7, LinksOfWorker

(* The executor gives up what it waits for and works on no job any more.   *)
LEMMA EndsLink ==
    ASSUME LocalInv, LocalTypeOK', Linked,
           Terminated \/ TermDoneEnds \/ WorkerExits \/ WorkerKilled
    PROVE  Linked'
<1>1. /\ UNCHANGED <<vars, started>> /\ answer' = NoAnswer /\ pc' \in {"termDone", "exit"}
      /\ \/ wire' = Abandon(wire)
         \/ wire' = Append(Abandon(wire), Request("done", held, "stopped", {}))
  BY DEF Terminated, TermDoneEnds, WorkerExits, WorkerKilled, Dies, Move, workerFrame, outside
<1>2. Carried(Abandon(wire)) /\ Abandon(wire) \in Seq(Requests)
  BY GivenUp DEF Carried
<1>3. Underway' /\ Flushed'
  BY <1>1 DEF Underway, Flushed, Executing, FlushPcs
<1>4. DonesLinked'
  <2> SUFFICES ASSUME NEW i \in 1..Len(wire'), wire'[i].kind = "done", Ended(wire'[i].st)
               PROVE  started'[wire'[i].job] \subseteq runs'[wire'[i].job]
    BY DEF DonesLinked, Ended
  <2> DEFINE r == Request("done", held, "stopped", {})
             w == Abandon(wire)
  <2>1. ~Ended(r.st)
    BY DEF Request, Ended
  <2> HIDE DEF r, w
  <2>2. w \in Seq(Requests) /\ Len(w) = Len(wire) /\ Len(wire) \in Nat
    BY <1>2 DEF Carried, w
  <2>3. i \in 1..Len(wire) /\ wire'[i] = w[i]
    <3>1. CASE wire' = w
      BY <2>2, <3>1
    <3>2. CASE wire' = Append(w, r)
      <4>1. /\ Len(wire') = Len(w) + 1
            /\ \A n \in 1..Len(w) : wire'[n] = w[n]
            /\ wire'[Len(w) + 1] = r
        BY <2>2, <3>2
      <4>2. i # Len(w) + 1
        BY <2>1, <4>1
      <4> QED
        BY <2>2, <4>1, <4>2
    <3> QED
      BY <1>1, <3>1, <3>2 DEF r, w
  <2>4. /\ w[i].kind = wire[i].kind /\ w[i].job = wire[i].job /\ w[i].st = wire[i].st
    BY <1>2, <2>3 DEF Carried, w
  <2> QED
    BY <1>1, <2>3, <2>4 DEF Linked, DonesLinked, vars
<1> QED
  BY <1>1, <1>3, <1>4, LinksOfWorker

LEMMA AsksLink ==
    ASSUME LocalInv, LocalTypeOK', Linked, AskForJob \/ GetJob
    PROVE  Linked'
<1>1. /\ UNCHANGED <<vars, started>> /\ answer' = NoAnswer /\ pc \in {"idle", "claim"}
  BY DEF AskForJob, GetJob, Move, Ready, workerFrame, outside, Send
<1>2. wire = <<>>
  <2>1. AskForJob => wire = <<>>
    BY DEF AskForJob, Move, Ready, LocalInv, Shape, Places
  <2>2. GetJob => answer # NoAnswer
    BY DEF GetJob, NoAnswer
  <2> QED
    BY <2>1, <2>2, GotReply
<1>3. CASE AskForJob
  <2>1. pc' = "claim" /\ wire' = Append(wire, Request("claim", 0, "none", {}))
    BY <1>3 DEF AskForJob, Move, Send
  <2>2. Len(wire') = 1 /\ wire'[1].kind = "claim"
    BY <1>2, <2>1, OneSent DEF Request
  <2>3. DonesLinked' /\ Underway' /\ Flushed'
    BY <2>1, <2>2 DEF DonesLinked, Underway, Flushed, Executing, FlushPcs
  <2> QED
    BY <1>1, <2>3, LinksOfWorker
<1>4. CASE GetJob
  <2>1. /\ pc' = "rbuild" /\ held' = answer.job /\ answer.kind = "job"
        /\ wire' = Append(wire, Request("report", answer.job, "building", {}))
    BY <1>4 DEF GetJob, Move, Send
  <2>2. Len(wire') = 1 /\ wire'[1].kind = "report" /\ wire'[1].live
    BY <1>2, <2>1, OneSent DEF Request
  <2>3. DonesLinked' /\ Flushed'
    BY <2>1, <2>2 DEF DonesLinked, Flushed
  <2>4. started'[held'] = {}
    BY <1>1, <2>1 DEF Linked, OfferUnstarted
  <2>5. Underway'
    BY <2>2, <2>4 DEF Underway
  <2> QED
    BY <1>1, <2>3, <2>5, LinksOfWorker
<1> QED
  BY <1>3, <1>4

LEMMA MovesLink ==
    ASSUME LocalInv, LocalTypeOK', Linked,
           GetNothing \/ FlushAnswered \/ DoneAnswered
           \/ SpawnBuild \/ SetBuild \/ BuildDone \/ SpawnRun
    PROVE  Linked'
<1>1. /\ UNCHANGED <<vars, started, wire, unsent>> /\ pc' # "final"
  BY DEF GetNothing, FlushAnswered, DoneAnswered, FlushEnds, JobLeft, AfterFlush, FlushPcs,
         SpawnBuild, SetBuild, BuildDone, SpawnRun, Move, Ready, workerFrame, outside, reporter,
         channel
<1>2. answer' = NoAnswer
  <2>1. CASE GetNothing \/ FlushAnswered \/ DoneAnswered
    BY <2>1 DEF GetNothing, FlushAnswered, DoneAnswered
  <2>2. CASE SpawnBuild \/ SetBuild \/ BuildDone \/ SpawnRun
    <3>1. answer' = answer /\ pc \notin Waiting
      BY <2>2 DEF SpawnBuild, SetBuild, BuildDone, SpawnRun, Move, Ready, channel, Waiting,
                  FlushPcs
    <3> QED
      BY <3>1, NotWaiting
  <2> QED
    BY <2>1, <2>2
<1>3. pc' \in Executing => pc \in Executing /\ held' = held
  BY AfterFlushIs DEF GetNothing, FlushAnswered, DoneAnswered, FlushEnds, JobLeft,
         SpawnBuild, SetBuild, BuildDone, SpawnRun, Move, Ready, Executing, FlushPcs
<1>4. Underway'
  BY <1>1, <1>3 DEF Linked, Underway, OnTheWay, vars
<1>5. DonesLinked' /\ Flushed'
  BY <1>1 DEF Linked, DonesLinked, Flushed, vars
<1> QED
  BY <1>1, <1>2, <1>4, <1>5, LinksOfWorker

LEMMA StillLink ==
    ASSUME Linked, BuildInterrupt \/ RunInterrupt \/ ProcessEnds
                   \/ AdmitSubmit \/ DropSubmit \/ Shutdown \/ UNCHANGED allVars
    PROVE  Linked'
<1>1. UNCHANGED <<vars, wire, answer, pc, held, unsent, started>>
  BY DEF BuildInterrupt, RunInterrupt, ProcessEnds, BuildEnds, RunEnds, ProcFrame, workerFrame,
         channel, outside, reporter, AdmitSubmit, DropSubmit, Shutdown, executor, allVars, local
<1> QED
  BY <1>1, LinksSame DEF vars

(* A run is announced: it joins the batch of the job that is in flight.    *)
LEMMA AnnouncedLink ==
    ASSUME LocalInv, LocalTypeOK', Linked, NEW r \in RunIds, RunAnnounced(r)
    PROVE  Linked'
<1>1. /\ up /\ UNCHANGED <<vars, wire, answer, pc, held>>
      /\ pc \in {"run", "tickRun", "rrun"}
      /\ started' = [started EXCEPT ![held] = @ \cup {r}] /\ unsent' = unsent \cup {r}
  BY DEF RunAnnounced, ProcFrame, channel
<1>2. /\ pc \in Executing /\ held \in Jobs /\ InFlightJobs = {held}
      /\ started \in [Jobs -> SUBSET RunIds]
  BY <1>1 DEF Executing, FlushPcs, LocalInv, Shape, Places, LocalTypeOK
<1>3. \A j \in Jobs : started'[j] = IF j = held THEN started[j] \cup {r} ELSE started[j]
  BY <1>1, <1>2
<1>4. state[held] \in InFlight
  BY <1>2 DEF InFlightJobs
<1>5. JobsLinked'
  <2> SUFFICES ASSUME NEW j \in Jobs
               PROVE  /\ Ended(Shown(j).state) => started'[j] \subseteq Shown(j).runs
                      /\ Shown(j).state \in {"none", "queued"} => started'[j] = {}
    BY <1>1, SameShown DEF JobsLinked, Ended, vars
  <2>1. CASE j = held
    <3>1. Shown(j).state \in InFlight
      BY <1>1, <1>4, <2>1, SnapFields DEF Shown
    <3> QED
      BY <3>1 DEF Ended, InFlight
  <2>2. CASE j # held
    BY <1>3, <2>2 DEF Linked, JobsLinked
  <2> QED
    BY <2>1, <2>2
<1>6. DonesLinked'
  <2>1. \A i \in 1..Len(wire) : wire[i].kind = "report"
    BY <1>2 DEF LocalInv, Shape, Places
  <2> QED
    BY <1>1, <2>1 DEF DonesLinked
<1>7. OfferUnstarted'
  BY <1>1 DEF LocalInv, Shape, Answered, OfferUnstarted
<1>8. Underway'
  <2>1. ASSUME NEW x \in started'[held] PROVE OnTheWay(x)'
    <3>1. x \in started[held] \/ x = r
      BY <1>2, <1>3
    <3> QED
      BY <1>1, <1>2, <3>1 DEF Linked, Underway, OnTheWay, vars
  <2> QED
    BY <1>1, <1>2, <2>1 DEF Linked, Underway
<1>9. Flushed'
  BY <1>1 DEF Flushed
<1> QED
  BY <1>5, <1>6, <1>7, <1>8, <1>9 DEF Linked

LEMMA LinksByWorker ==
    ASSUME LocalInv, LocalTypeOK', Linked, WorkerStep \/ Experiment \/ WorkerKilled
    PROVE  Linked'
  BY ReportsLink, DonesLink, EndsLink, AsksLink, MovesLink, StillLink, AnnouncedLink
     DEF WorkerStep, Experiment

-----------------------------------------------------------------------------
(* The server's part in it.                                                *)
LEMMA ShownUp ==
    /\ up => \A j : Shown(j).state = state[j] /\ Shown(j).runs = runs[j]
    /\ ~up => \A j : Shown(j) = disk[j]
  BY SnapFields DEF Shown

LEMMA ShownUpAfter ==
    /\ up' => \A j : Shown(j)'.state = state'[j] /\ Shown(j)'.runs = runs'[j]
    /\ ~up' => \A j : Shown(j)' = disk'[j]
  BY SnapFields DEF Shown

(* A step of the queue that gives no new job away: each job keeps its end, *)
(* or ends otherwise, or is new, and no run is unlinked.                   *)
LEMMA LinksOfQueue ==
    ASSUME LocalTypeOK, Linked, up, up', UNCHANGED <<wire, pc, held, unsent, started>>,
           answer' = answer \/ answer'.kind # "job" \/ started[answer'.job] = {},
           \A j \in Jobs : /\ runs[j] \subseteq runs'[j]
                           /\ \/ state'[j] = state[j]
                              \/ /\ ~Ended(state'[j])
                                 /\ state'[j] \in {"none", "queued"} =>
                                       state[j] \in {"none", "queued"},
           pc \in Executing => held \in Jobs,
           \A i \in 1..Len(wire) : wire[i].kind = "done" => wire[i].job \in Jobs
    PROVE  Linked'
<1>1. JobsLinked'
  <2> SUFFICES ASSUME NEW j \in Jobs
               PROVE  /\ Ended(state'[j]) => started[j] \subseteq runs'[j]
                      /\ state'[j] \in {"none", "queued"} => started[j] = {}
    BY ShownUpAfter DEF JobsLinked, Ended
  <2>1. /\ Ended(state[j]) => started[j] \subseteq runs[j]
        /\ state[j] \in {"none", "queued"} => started[j] = {}
    BY ShownUp DEF Linked, JobsLinked
  <2> QED
    BY <2>1
<1>2. DonesLinked'
  BY DEF Linked, DonesLinked, Ended
<1>3. OfferUnstarted' /\ Flushed'
  BY DEF Linked, OfferUnstarted, Flushed
<1>4. Underway'
  BY DEF Linked, Underway, OnTheWay
<1> QED
  BY <1>1, <1>2, <1>3, <1>4 DEF Linked

LEMMA HeldIsJob ==
    ASSUME LocalInv
    PROVE  /\ pc \in Executing => held \in Jobs
           /\ \A i \in 1..Len(wire) : wire[i].kind = "done" => wire[i].job \in Jobs
<1>1. pc \in Executing => pc \notin {"idle", "claim", "exit"}
  BY DEF Executing, FlushPcs
<1> QED
  BY <1>1 DEF LocalInv, Shape, Places, Wired, Sound

LEMMA QueueLinks ==
    ASSUME LocalInv, LocalTypeOK', Linked,
           RunSubmit \/ HoldEnds \/ ExecutorClosed \/ (\E j \in Jobs : UserStop(j))
           \/ (\E j \in Jobs : WriteSnapshot(j) /\ UNCHANGED local)
    PROVE  Linked'
<1>1. /\ up /\ up' = up /\ UNCHANGED <<runs, wire, pc, held, unsent, started>>
      /\ state \in [Jobs -> JobStates] /\ runs \in [Jobs -> SUBSET RunIds]
  BY DEF RunSubmit, SubmitParked, SubmitAssigned, CanSubmit, HoldEnds, ClaimExpired,
         ExecutorClosed, InterruptJobs, UserStop, StopQueued, StopInFlight, WriteSnapshot,
         memory, local, executor, outside, channel, reporter, LocalInv, LocalTypeOK, TypeOK
<1>2. CASE RunSubmit
  <2> DEFINE new == submitted + 1
  <2>1. /\ new \in Jobs /\ state[new] = "none"
    <3>1. submitted \in 0..MaxJobs /\ MaxJobs \in Nat /\ submitted < MaxJobs
      BY <1>2, QueueAssumption DEF LocalInv, LocalTypeOK, TypeOK, QueueAssumption, RunSubmit,
         SubmitParked, SubmitAssigned, CanSubmit
    <3>2. new \in Jobs /\ new > submitted
      BY <3>1 DEF Jobs
    <3> QED
      BY <3>2 DEF LocalInv, SaveInv, Fresh
  <2>2. \/ state' = [state EXCEPT ![new] = "queued"]
        \/ state' = [state EXCEPT ![new] = "claimed"]
    BY <1>2 DEF RunSubmit, SubmitParked, SubmitAssigned
  <2>3. \/ answer' = answer
        \/ answer' = Answer("job", new)
    BY <1>2 DEF RunSubmit, SubmitAssigned
  <2> HIDE DEF new
  <2>4. \A j \in Jobs : /\ j # new => state'[j] = state[j]
                        /\ j = new => state'[j] \in {"queued", "claimed"}
    BY <1>1, <2>1, <2>2
  <2>5. started[new] = {}
    BY <1>1, <2>1, ShownUp DEF Linked, JobsLinked
  <2>6. \A j \in Jobs : state'[j] = state[j]
                        \/ (~Ended(state'[j]) /\ state[j] \in {"none", "queued"})
    BY <2>1, <2>4 DEF Ended
  <2> QED
    BY <1>1, <2>3, <2>5, <2>6, HeldIsJob, LinksOfQueue DEF Answer, LocalInv
<1>3. CASE HoldEnds
  <2>1. state' = state /\ (answer' = answer \/ answer'.kind # "job")
    BY <1>3 DEF HoldEnds, ClaimExpired, memory, Answer
  <2> QED
    BY <1>1, <2>1, HeldIsJob, LinksOfQueue DEF LocalInv
<1>4. CASE ExecutorClosed
  <2>1. /\ state' = [j \in Jobs |-> IF state[j] \in InFlight THEN "orphaned" ELSE state[j]]
        /\ answer' = answer
    BY <1>4 DEF ExecutorClosed, InterruptJobs, channel
  <2>2. \A j \in Jobs : state'[j] = state[j] \/ state'[j] = "orphaned"
    BY <2>1
  <2>3. ~Ended("orphaned")
    BY DEF Ended
  <2> QED
    BY <1>1, <2>1, <2>2, <2>3, HeldIsJob, LinksOfQueue DEF LocalInv
<1>5. ASSUME NEW n \in Jobs, UserStop(n) PROVE Linked'
  <2>1. answer' = answer
    BY <1>5 DEF UserStop, local, channel
  <2>2. \A j \in Jobs : state'[j] = state[j] \/ state'[j] = "stopped"
    BY <1>1, <1>5 DEF UserStop, StopQueued, StopInFlight
  <2>3. ~Ended("stopped")
    BY DEF Ended
  <2> QED
    BY <1>1, <2>1, <2>2, <2>3, HeldIsJob, LinksOfQueue DEF LocalInv
<1>6. ASSUME NEW n \in Jobs, WriteSnapshot(n), UNCHANGED local PROVE Linked'
  <2>1. answer' = answer /\ state' = state
    BY <1>6 DEF WriteSnapshot, memory, local, channel
  <2> QED
    BY <1>1, <2>1, HeldIsJob, LinksOfQueue DEF LocalInv
<1> QED
  BY <1>2, <1>3, <1>4, <1>5, <1>6

LEMMA ClaimLinks ==
    ASSUME LocalInv, LocalTypeOK', Linked, HandleClaim
    PROVE  Linked'
<1>1. /\ wire # <<>> /\ wire[1].kind = "claim" /\ wire' = Tail(wire) /\ up /\ up' = up
      /\ UNCHANGED <<pc, held, unsent, started, runs>>
      /\ state \in [Jobs -> JobStates]
  BY HeadIsSound DEF HandleClaim, Take, executor, outside, reporter, ClaimQueued, ClaimParked,
                     memory, vars, LocalInv, LocalTypeOK, TypeOK
<1>2. Len(wire) = 1 /\ pc \in {"claim", "exit"} /\ answer = NoAnswer
  BY <1>1, HeadIsSound DEF LocalInv, Shape, Wired
<1>3. Len(wire') = 0
  BY <1>1, <1>2, TailIs DEF LocalInv, LocalTypeOK
<1>4. DonesLinked' /\ Underway' /\ Flushed'
  <2>1. \A i \in 1..Len(wire') : FALSE
    BY <1>3
  <2>2. DonesLinked'
    BY <2>1 DEF DonesLinked
  <2>3. Underway' /\ Flushed'
    BY <1>1, <1>2 DEF Underway, Flushed, Executing, FlushPcs
  <2> QED
    BY <2>2, <2>3
<1>5. CASE state' = state /\ answer' \in {NoAnswer, Answer("nothing", 0)}
  <2>1. JobsLinked'
    <3> SUFFICES ASSUME NEW j \in Jobs
                 PROVE  /\ Ended(state[j]) => started[j] \subseteq runs[j]
                        /\ state[j] \in {"none", "queued"} => started[j] = {}
      BY <1>1, <1>5, ShownUpAfter DEF JobsLinked, Ended
    <3> QED
      BY <1>1, ShownUp DEF Linked, JobsLinked
  <2>2. OfferUnstarted'
    BY <1>5 DEF OfferUnstarted, NoAnswer, Answer
  <2> QED
    BY <1>4, <2>1, <2>2 DEF Linked
<1>6. ASSUME NEW n \in Jobs, ClaimQueued(n), answer' \in {NoAnswer, Answer("job", n)}
      PROVE  Linked'
  <2>1. state[n] = "queued" /\ state' = [state EXCEPT ![n] = "claimed"]
    BY <1>6 DEF ClaimQueued, IsNextQueued, QueuedJobs
  <2>2. started[n] = {}
    BY <1>1, <2>1, ShownUp DEF Linked, JobsLinked
  <2>3. JobsLinked'
    <3> SUFFICES ASSUME NEW j \in Jobs
                 PROVE  /\ Ended(state'[j]) => started[j] \subseteq runs[j]
                        /\ state'[j] \in {"none", "queued"} => started[j] = {}
      BY <1>1, ShownUpAfter DEF JobsLinked, Ended
    <3>1. state'[j] = state[j] \/ state'[j] = "claimed"
      BY <1>1, <2>1
    <3>2. ~Ended("claimed")
      BY DEF Ended
    <3> QED
      BY <1>1, <3>1, <3>2, ShownUp DEF Linked, JobsLinked
  <2>4. OfferUnstarted'
    BY <1>1, <1>6, <2>2 DEF OfferUnstarted, NoAnswer, Answer
  <2> QED
    BY <1>4, <2>3, <2>4 DEF Linked
<1>7. \/ state' = state /\ answer' \in {NoAnswer, Answer("nothing", 0)}
      \/ \E n \in Jobs : ClaimQueued(n) /\ answer' \in {NoAnswer, Answer("job", n)}
  BY <1>2 DEF HandleClaim, Reply, ClaimParked, memory, vars
<1> QED
  BY <1>5, <1>6, <1>7

(* The tail of the wire, after its first request was handled.              *)
LEMMA ReportLinks ==
    ASSUME LocalInv, LocalTypeOK', Linked, HandleReport
    PROVE  Linked'
<1> DEFINE r == wire[1]
<1>1. /\ wire # <<>> /\ wire' = Tail(wire) /\ up /\ up' = up
      /\ r.job \in Jobs /\ GivenOut(r.job)
      /\ UNCHANGED <<pc, held, unsent, started>>
      /\ \A j \in Jobs \ {r.job} : state'[j] = state[j] /\ runs'[j] = runs[j]
      /\ state[r.job] \in Terminal => /\ state' = state /\ runs' = runs
      /\ state[r.job] \notin Terminal => /\ state'[r.job] \in InFlight
                                         /\ runs'[r.job] = runs[r.job] \cup r.runs
      /\ answer' = answer \/ answer'.kind \in {"stop", "go"}
  BY ReportMoves DEF executor, outside, reporter
<1>2. /\ wire \in Seq(Requests) /\ Len(wire) \in Nat \ {0} /\ Len(wire') = Len(wire) - 1
      /\ \A i \in 1..Len(wire') : i + 1 \in 1..Len(wire) /\ wire'[i] = wire[i + 1]
  BY <1>1, TailIs DEF LocalInv, LocalTypeOK
<1>3. \A j \in Jobs : runs[j] \subseteq runs'[j]
  BY <1>1
<1>4. JobsLinked'
  <2> SUFFICES ASSUME NEW j \in Jobs
               PROVE  /\ Ended(state'[j]) => started[j] \subseteq runs'[j]
                      /\ state'[j] \in {"none", "queued"} => started[j] = {}
    BY <1>1, ShownUpAfter DEF JobsLinked, Ended
  <2>1. /\ Ended(state[j]) => started[j] \subseteq runs[j]
        /\ state[j] \in {"none", "queued"} => started[j] = {}
    BY <1>1, ShownUp DEF Linked, JobsLinked
  <2>2. state'[j] = state[j] \/ state'[j] \in InFlight
    BY <1>1
  <2> QED
    BY <1>3, <2>1, <2>2 DEF Ended, InFlight
<1>5. DonesLinked'
  <2> SUFFICES ASSUME NEW i \in 1..Len(wire'), wire'[i].kind = "done", Ended(wire'[i].st)
               PROVE  started[wire'[i].job] \subseteq runs'[wire'[i].job]
    BY <1>1 DEF DonesLinked, Ended
  <2> DEFINE m == i + 1
  <2>1. m \in 1..Len(wire) /\ wire'[i] = wire[m]
    BY <1>2
  <2> HIDE DEF m
  <2>2. started[wire[m].job] \subseteq runs[wire[m].job] /\ wire[m].job \in Jobs
    BY <2>1, HeldIsJob DEF Linked, DonesLinked
  <2> QED
    BY <1>3, <2>1, <2>2
<1>6. OfferUnstarted' /\ Flushed'
  BY <1>1 DEF Linked, OfferUnstarted, Flushed
<1>7. Underway'
  <2> SUFFICES ASSUME pc \in Executing
               PROVE  /\ \A x \in started[held] : OnTheWay(x)'
                      /\ \A i \in 1..Len(wire') : wire'[i].live
    BY <1>1 DEF Underway
  <2>1. /\ 1 \in 1..Len(wire)
        /\ \A i \in 1..Len(wire) : wire[i].job = held
        /\ InFlightJobs = {held} /\ held \in Jobs
    BY <1>2, HeldIsJob DEF LocalInv, Shape, Places
  <2>2. r.job = held /\ state[held] \in InFlight
    BY <2>1 DEF InFlightJobs
  <2>3. runs'[held] = runs[held] \cup r.runs
    BY <1>1, <2>2 DEF InFlight, Terminal
  <2>4. ASSUME NEW x \in started[held] PROVE OnTheWay(x)'
    <3>1. CASE \E i \in 1..Len(wire) : x \in wire[i].runs
      <4>1. PICK i \in 1..Len(wire) : x \in wire[i].runs
        BY <3>1
      <4>2. CASE i = 1
        BY <1>1, <2>3, <4>1, <4>2 DEF OnTheWay
      <4>3. CASE i # 1
        <5>1. i - 1 \in 1..Len(wire') /\ (i - 1) + 1 = i
          BY <1>2, <4>3
        <5>2. wire'[i - 1] = wire[i]
          BY <1>2, <5>1
        <5> QED
          BY <4>1, <5>1, <5>2 DEF OnTheWay
      <4> QED
        BY <4>2, <4>3
    <3>2. CASE x \in runs[held] \/ x \in unsent
      BY <1>1, <2>3, <3>2 DEF OnTheWay
    <3> QED
      BY <3>1, <3>2 DEF Linked, Underway, OnTheWay
  <2>5. \A i \in 1..Len(wire') : wire'[i].live
    BY <1>2 DEF Linked, Underway
  <2> QED
    BY <2>4, <2>5
<1> QED
  BY <1>4, <1>5, <1>6, <1>7 DEF Linked

LEMMA DoneLinks ==
    ASSUME LocalInv, LocalTypeOK', Linked, HandleDone
    PROVE  Linked'
<1> DEFINE r == wire[1]
<1>1. /\ wire # <<>> /\ wire' = Tail(wire) /\ r.kind = "done" /\ up /\ up' = up
      /\ r.job \in Jobs /\ r.st \in Terminal
      /\ UNCHANGED <<pc, held, unsent, started, runs>>
      /\ \A j \in Jobs : state'[j] = IF j = r.job THEN r.st ELSE state[j]
      /\ pc \notin Executing
      /\ answer' = answer \/ answer'.kind = "ok"
  BY DoneMoves DEF executor, outside, reporter
<1>2. /\ wire \in Seq(Requests) /\ Len(wire) \in Nat \ {0} /\ Len(wire') = Len(wire) - 1
      /\ \A i \in 1..Len(wire') : i + 1 \in 1..Len(wire) /\ wire'[i] = wire[i + 1]
  BY <1>1, TailIs DEF LocalInv, LocalTypeOK
<1>3. Ended(r.st) => started[r.job] \subseteq runs[r.job]
  <2>1. 1 \in 1..Len(wire)
    BY <1>2
  <2> QED
    BY <1>1, <2>1 DEF Linked, DonesLinked
<1>4. JobsLinked'
  <2> SUFFICES ASSUME NEW j \in Jobs
               PROVE  /\ Ended(state'[j]) => started[j] \subseteq runs[j]
                      /\ state'[j] \in {"none", "queued"} => started[j] = {}
    BY <1>1, ShownUpAfter DEF JobsLinked, Ended
  <2>1. /\ Ended(state[j]) => started[j] \subseteq runs[j]
        /\ state[j] \in {"none", "queued"} => started[j] = {}
    BY <1>1, ShownUp DEF Linked, JobsLinked
  <2> QED
    BY <1>1, <1>3, <2>1 DEF Terminal
<1>5. DonesLinked'
  <2> SUFFICES ASSUME NEW i \in 1..Len(wire'), wire'[i].kind = "done", Ended(wire'[i].st)
               PROVE  started[wire'[i].job] \subseteq runs[wire'[i].job]
    BY <1>1 DEF DonesLinked, Ended
  <2>1. i + 1 \in 1..Len(wire) /\ wire'[i] = wire[i + 1]
    BY <1>2
  <2> QED
    BY <2>1 DEF Linked, DonesLinked
<1>6. OfferUnstarted' /\ Flushed' /\ Underway'
  BY <1>1 DEF Linked, OfferUnstarted, Flushed, Underway
<1> QED
  BY <1>4, <1>5, <1>6 DEF Linked

LEMMA LostLinks ==
    ASSUME LocalInv, LocalTypeOK', Linked, RequestLost
    PROVE  Linked'
<1>1. PICK n \in 1..Len(wire) : ~wire[n].live /\ wire' = RemoveAt(wire, n)
  BY DEF RequestLost
<1>2. UNCHANGED <<vars, answer, pc, held, unsent, started>>
  BY DEF RequestLost, outside, executor, reporter
<1>3. JobsLinked' /\ OfferUnstarted' /\ Flushed'
  BY <1>2, SameShown DEF Linked, JobsLinked, OfferUnstarted, Flushed, vars
<1>4. pc \notin Executing
  BY <1>1 DEF Linked, Underway
<1>5. DonesLinked'
  <2>1. wire \in Seq(Requests) /\ Len(wire) \in Nat
    BY DEF LocalInv, LocalTypeOK
  <2>2. /\ Len(wire') = Len(wire) - 1
        /\ \A i \in 1..Len(wire') : wire'[i] = wire[IF i < n THEN i ELSE i + 1]
    BY <1>1, <2>1, RemoveIs
  <2>3. \A i \in 1..Len(wire') : \E m \in 1..Len(wire) : wire'[i] = wire[m]
    BY <2>1, <2>2
  <2> QED
    BY <1>2, <2>3 DEF Linked, DonesLinked, vars
<1>6. Underway'
  BY <1>2, <1>4 DEF Underway
<1> QED
  BY <1>3, <1>5, <1>6 DEF Linked

(* Between two processes the files speak for the jobs.                     *)
LEMMA ExitLinks ==
    ASSUME LocalInv, LocalTypeOK', Linked, failures = 0, ServerExits
    PROVE  Linked'
<1>1. /\ up /\ up' = FALSE /\ chain = <<>> /\ disk' = disk /\ started' = started
      /\ wire' = <<>> /\ answer' = NoAnswer /\ pc' = "idle"
  BY DEF ServerExits, Exit, Down, AllGone
<1>2. \A j \in Jobs : disk[j] = Snap(state[j], runs[j])
  <2>1. Newest(chain, disk, state, runs)
    BY <1>1 DEF LocalInv, SaveInv, Agree
  <2>2. Len(chain) = 0
    BY <1>1
  <2> QED
    BY <2>1, <2>2 DEF Newest
<1>3. JobsLinked'
  <2> SUFFICES ASSUME NEW j \in Jobs
               PROVE  /\ Ended(disk[j].state) => started[j] \subseteq disk[j].runs
                      /\ disk[j].state \in {"none", "queued"} => started[j] = {}
    BY <1>1, ShownUpAfter DEF JobsLinked, Ended
  <2>1. Shown(j) = disk[j]
    BY <1>1, <1>2 DEF Shown
  <2> QED
    BY <2>1 DEF Linked, JobsLinked
<1>4. DonesLinked' /\ OfferUnstarted' /\ Underway' /\ Flushed'
  BY <1>1 DEF DonesLinked, OfferUnstarted, Underway, Flushed, NoAnswer, Executing, FlushPcs
<1> QED
  BY <1>3, <1>4 DEF Linked

LEMMA BootLinks ==
    ASSUME LocalInv, LocalTypeOK', Linked, Boot
    PROVE  Linked'
<1>1. /\ ~up /\ up' /\ UNCHANGED <<wire, answer, pc, held, unsent, started>>
      /\ \A j \in Jobs : /\ state'[j] = IF disk[j].state \in InFlight THEN "orphaned"
                                        ELSE disk[j].state
                         /\ runs'[j] = disk[j].runs
  BY DEF Boot, InitJobs, channel, executor, reporter
<1>2. pc = "idle" /\ wire = <<>> /\ answer = NoAnswer
  BY <1>1 DEF LocalInv, LocalTypeOK, TypeOK, Shape, Life, Places, Answered, Waiting, FlushPcs
<1>3. JobsLinked'
  <2> SUFFICES ASSUME NEW j \in Jobs
               PROVE  /\ Ended(state'[j]) => started[j] \subseteq runs'[j]
                      /\ state'[j] \in {"none", "queued"} => started[j] = {}
    BY <1>1, ShownUpAfter DEF JobsLinked, Ended
  <2>1. /\ Ended(disk[j].state) => started[j] \subseteq disk[j].runs
        /\ disk[j].state \in {"none", "queued"} => started[j] = {}
    BY <1>1, ShownUp DEF Linked, JobsLinked
  <2>2. ~Ended("orphaned") /\ "orphaned" \notin {"none", "queued"}
    BY DEF Ended
  <2> QED
    BY <1>1, <2>1, <2>2
<1>4. DonesLinked' /\ OfferUnstarted' /\ Underway' /\ Flushed'
  BY <1>1, <1>2 DEF DonesLinked, OfferUnstarted, Underway, Flushed, NoAnswer, Executing, FlushPcs
<1> QED
  BY <1>3, <1>4 DEF Linked

LEMMA LinksNext ==
    ASSUME LocalInv, [LocalNext]_allVars
    PROVE  (Clean => Linked)'
<1> SUFFICES ASSUME Clean' PROVE Linked'
  BY DEF Clean
<1>1. /\ Linked /\ failures = 0 /\ LocalTypeOK'
      /\ ~FlushLost /\ ~LastFlushLost /\ ~ExecuteFails /\ ~GiveUp /\ ~ServerCrashes
      /\ \A j \in Jobs : ~WriteFails(j)
  BY CleanBefore, LocalTypeNext DEF LocalInv
<1>2. CASE ServerStep \/ Clients
  BY <1>1, <1>2, ClaimLinks, ReportLinks, DoneLinks, QueueLinks, ExitLinks, BootLinks, StillLink
     DEF ServerStep, Clients, Disk
<1>3. CASE WorkerStep \/ Experiment
  BY <1>1, <1>3, LinksByWorker
<1>4. CASE Faults
  BY <1>1, <1>4, LinksByWorker, LostLinks DEF Faults
<1>5. CASE UNCHANGED allVars
  BY <1>1, <1>5, StillLink
<1> QED
  BY <1>2, <1>3, <1>4, <1>5 DEF LocalNext

-----------------------------------------------------------------------------
(* The theorems.                                                           *)
LEMMA LocalStart == LocalInit => LocalInv
<1> SUFFICES ASSUME LocalInit PROVE LocalInv
  OBVIOUS
<1>1. TypeOK /\ SaveInv /\ Wakeup /\ up
  BY TypeInit, SaveStart, QueueAssumption DEF LocalInit, Init, Wakeup, NoLostWakeup
<1>2. /\ state = [j \in Jobs |-> "none"] /\ waiters = <<>>
      /\ shuttingDown = FALSE /\ ready = FALSE /\ admitted = 0
      /\ exec = "alive" /\ termed = FALSE /\ wire = <<>> /\ answer = NoAnswer
      /\ pc = "idle" /\ held = 0 /\ stopSeen = FALSE /\ interrupted = FALSE
      /\ unsent = {} /\ proc = "none" /\ active = "none"
      /\ started = [j \in Jobs |-> {}]
      /\ used = [calls |-> 0, kills |-> 0, shutdowns |-> 0]
  BY DEF LocalInit, Init, FreshWorker
<1>3. LocalTypeOK
  <2>1. MaxAdmitted \in Nat /\ MaxFaults \in Nat /\ MaxShutdowns \in Nat
    BY LocalAssumption DEF LocalAssumption
  <2>2. ServerTyped
    <3>1. shuttingDown \in BOOLEAN /\ ready \in BOOLEAN /\ termed \in BOOLEAN
      BY <1>2
    <3>2. used \in [calls : 0..MaxFaults, kills : 0..MaxFaults, shutdowns : 0..MaxShutdowns]
      BY <1>2, <2>1
    <3> QED
      BY <1>2, <2>1, <3>1, <3>2 DEF ServerTyped
  <2>3. ChannelTyped
    <3>1. wire \in Seq(Requests)
      BY <1>2
    <3> QED
      BY <1>2, <3>1, AnswersTyped DEF ChannelTyped
  <2>4. WorkerTyped
    <3>1. stopSeen \in BOOLEAN /\ interrupted \in BOOLEAN
      BY <1>2
    <3>2. pc \in Pcs /\ held \in {0} \cup Jobs /\ unsent \in SUBSET RunIds
          /\ started \in [Jobs -> SUBSET RunIds]
      BY <1>2 DEF Pcs
    <3> QED
      BY <1>2, <3>1, <3>2 DEF WorkerTyped
  <2> QED
    BY <1>1, <2>2, <2>3, <2>4, LocalTypes
<1>4. Life /\ Wired /\ Answered /\ Parked
  BY <1>1, <1>2 DEF Life, Wired, Answered, Parked, NoAnswer
<1>5. Places
  BY <1>2 DEF Places, Executing, FlushPcs
<1>6. Linked
  <2>1. JobsLinked
    BY <1>2 DEF JobsLinked
  <2>2. DonesLinked /\ OfferUnstarted /\ Underway /\ Flushed
    BY <1>2 DEF DonesLinked, OfferUnstarted, Underway, Flushed, NoAnswer, Executing, FlushPcs
  <2> QED
    BY <2>1, <2>2 DEF Linked
<1> QED
  BY <1>1, <1>3, <1>4, <1>5, <1>6 DEF LocalInv, Shape

LEMMA LocalNextKeeps == LocalInv /\ [LocalNext]_allVars => LocalInv'
  BY QueueNext, LocalTypeNext, ShapeNext, LinksNext DEF LocalInv

LEMMA AlwaysLocalInv == LocalSpec => []LocalInv
  BY LocalStart, LocalNextKeeps, PTL DEF LocalSpec

(* Types of the server, of the wire and of the executor                    *)
(* (server.ts, executor.ts, worker.py).                                    *)
THEOREM LocalTypeCorrect == LocalSpec => []LocalTypeOK
<1>1. LocalInv => LocalTypeOK
  BY DEF LocalInv
<1> QED
  BY <1>1, AlwaysLocalInv, PTL

(* The composition implements the queue: every step of the server and of   *)
(* its executor is a step of queue.ts as its callers may take it (one      *)
(* parked claim per worker, reports and dones for jobs given out only), or *)
(* leaves the queue alone.                                                 *)
THEOREM LocalUsesQueue == LocalSpec => QueueSpec
<1>1. LocalInit => Init
  BY DEF LocalInit
<1>2. LocalInv /\ [LocalNext]_allVars => [Next]_vars
  BY QueueStep
<1> QED
  BY <1>1, <1>2, AlwaysLocalInv, PTL DEF LocalSpec, QueueSpec, Spec

(* Whoever reads the jobs through the server sees each go through its      *)
(* lifecycle (JobLifecycle), whatever the executor, its process and the    *)
(* network do.                                                             *)
THEOREM LocalIsLifecycle == LocalSpec => LifecycleSpec
  BY LocalUsesQueue, QueueIsLifecycle, PTL DEF QueueSpec

(* The executor and the queue agree: while worker.py works on a job and    *)
(* has sent no final state, the queue shows that job, and no other, in     *)
(* flight, whatever stops, late requests and lost replies came between.    *)
THEOREM HeldAgrees == LocalSpec => []HeldIsInFlight
<1>1. LocalInv => HeldIsInFlight
  BY HeldIsJob DEF LocalInv, Shape, Places, HeldIsInFlight
<1> QED
  BY <1>1, AlwaysLocalInv, PTL

(* Every run the experiment announced is linked from its job once the job  *)
(* is completed or failed, unless a call failed or a write was lost        *)
(* (worker.py, Reporter: the batch is forgotten as it is sent).            *)
THEOREM RunsAreLinked == LocalSpec => []RunsLinked
<1>1. LocalInv => RunsLinked
  <2> SUFFICES ASSUME LocalInv, up, Clean, NEW j \in Jobs, state[j] \in {"completed", "failed"}
               PROVE  started[j] \subseteq runs[j]
    BY DEF RunsLinked, Clean
  <2> QED
    BY ShownUp DEF LocalInv, Linked, JobsLinked, Ended
<1> QED
  BY <1>1, AlwaysLocalInv, PTL

LEMMA TerminalStays ==
    ASSUME TypeOK, SaveInv, [Next]_vars, up, up', NEW j \in Jobs, state[j] \in Terminal
    PROVE  state'[j] \in Terminal
<1>1. /\ state[j] \notin {"none", "queued"} /\ state[j] \notin InFlight
      /\ state \in [Jobs -> JobStates]
  BY DEF Terminal, InFlight, TypeOK
<1>2. CASE Submit
  <2>1. submitted \in Nat /\ (submitted + 1 > submitted)
    BY QueueAssumption DEF TypeOK, QueueAssumption
  <2>2. j # submitted + 1
    BY <1>1, <2>1 DEF SaveInv, Fresh
  <2> QED
    BY <1>1, <1>2, <2>2 DEF Submit, SubmitParked, SubmitAssigned
<1>3. ASSUME NEW i \in Jobs, ClaimQueued(i) PROVE state'[j] = state[j]
  BY <1>1, <1>3 DEF ClaimQueued, IsNextQueued, QueuedJobs
<1>4. ASSUME NEW i \in Jobs, NEW st \in Progress, NEW rs \in SUBSET RunIds, Report(i, st, rs)
      PROVE  state'[j] = state[j]
  BY <1>1, <1>4 DEF Report
<1>5. ASSUME NEW i \in Jobs, NEW st \in Outcomes, Done(i, st)
      PROVE  state'[j] \in {state[j], st} /\ st \in Terminal
  BY <1>1, <1>5, OutcomesTyped DEF Done
<1>6. ASSUME NEW i \in Jobs, StopQueued(i) \/ StopInFlight(i) PROVE state'[j] = state[j]
  BY <1>1, <1>6 DEF StopQueued, StopInFlight
<1>7. InterruptJobs => state'[j] = state[j]
  BY <1>1 DEF InterruptJobs
<1>8. ASSUME NEW w, ClaimParked(w) \/ ClaimExpired(w) PROVE state' = state
  BY <1>8 DEF ClaimParked, ClaimExpired, memory
<1>9. Storage \/ UNCHANGED vars => state' = state
  BY DEF Storage, WriteSnapshot, WriteFails, memory, vars
<1>10. ~Process
  BY DEF Process, Exit, Crash, InitJobs, Down
<1> QED
  BY <1>2, <1>3, <1>4, <1>5, <1>6, <1>7, <1>8, <1>9, <1>10 DEF Next, Queue, Calls

(* A terminal job never returns to the queue or to an executor, not even   *)
(* by a report or a done that arrives after its end (queue.ts: report      *)
(* answers "stop" for it, done only replaces one final state by another).  *)
THEOREM TerminalNeverReturns == LocalSpec => TerminalIsOver
<1>1. LocalInv /\ [LocalNext]_allVars =>
        [\A j \in Jobs : up /\ up' /\ state[j] \in Terminal => state'[j] \in Terminal]_allVars
  BY QueueStep, TerminalStays DEF LocalInv, LocalTypeOK
<1> QED
  BY <1>1, AlwaysLocalInv, PTL DEF LocalSpec, TerminalIsOver

=============================================================================
