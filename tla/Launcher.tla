------------------------------ MODULE Launcher ------------------------------
(***************************************************************************)
(* The run tab (web/src/components/launcher.tsx) and the Jobs page         *)
(* (web/src/pages/jobs.tsx) against the local server: a page posts jobs,   *)
(* polls the one it shows and drops answers about another one.  Requests   *)
(* of a page travel independently: the server may handle them, and the     *)
(* page get the answers, in any order.  The queue behind the server is     *)
(* what JobLifecycle promises of it, without lost writes.                  *)
(***************************************************************************)
EXTENDS Naturals, FiniteSets, Browser

CONSTANTS Calls, MaxJobs, QueueCap
ASSUME JobsAreCounted == MaxJobs \in Nat

VARIABLES
    phase, lossy,   \* the queue
    ready,          \* the executor has claimed and has not exited
    seen,           \* page -> what its executor poll last said
    panel,          \* page -> the job of its card (0: none) and the phase shown
    jobId,          \* page -> the job whose answers are taken (the ref of the panel)
    call,           \* slot -> a request in flight
    latest          \* history: page -> the job of the last launch it got an answer for
launchVars == <<phase, lossy, ready, seen, panel, jobId, call, latest>>

Queue == INSTANCE JobLifecycle
Jobs  == 1..MaxJobs

Request(kind, by, job) == [kind |-> kind, by |-> by, job |-> job, answer |-> "none"]
Free == Request("free", Nobody, 0)
NoPanel == [job |-> 0, phase |-> "absent"]

LaunchInit ==
    /\ Queue!Init
    /\ ready = FALSE
    /\ seen = [t \in Tabs |-> FALSE]
    /\ panel = [t \in Tabs |-> NoPanel]
    /\ jobId = [t \in Tabs |-> 0]
    /\ call = [c \in Calls |-> Free]
    /\ latest = [t \in Tabs |-> 0]

Over(ph)      == ph = "over"
JobActive(t)  == panel[t].job # 0 /\ ~Over(panel[t].phase)
ServerVars    == <<phase, lossy, ready>>
PageVars      == <<seen, panel, jobId, latest>>

-----------------------------------------------------------------------------
(* A page.  The button is not disabled between the click and the answer.   *)
Send(c, r) == call[c] = Free /\ call' = [call EXCEPT ![c] = r]

Gate(t) == seen[t] /\ ~JobActive(t)
Launch(t, c) == Gate(t) /\ Send(c, Request("launch", t, 0)) /\ UNCHANGED <<ServerVars, PageVars>>

(* Stop on the card; stop and re-run on the Jobs page, of any job there.   *)
StopPanel(t, c) ==
    JobActive(t) /\ Send(c, Request("stop", t, panel[t].job)) /\ UNCHANGED <<ServerVars, PageVars>>
JobsPage(c) ==
    /\ \E j \in Jobs : \/ phase[j] \in {"waiting", "active"} /\ Send(c, Request("stop", Nobody, j))
                       \/ Over(phase[j]) /\ Send(c, Request("rerun", Nobody, j))
    /\ UNCHANGED <<ServerVars, PageVars>>

SeeExecutor(t) ==
    /\ seen[t] # ready
    /\ seen' = [seen EXCEPT ![t] = ready]
    /\ UNCHANGED <<ServerVars, panel, jobId, call, latest>>

(* The timer of a live card; it does not wait for the answer before.       *)
PollTick(t, c) ==
    /\ JobActive(t)
    /\ Send(c, Request("poll", t, panel[t].job))
    /\ UNCHANGED <<ServerVars, PageVars>>

-----------------------------------------------------------------------------
(* The server takes a request up.  A view of a job has its state.          *)
GetJob(j) == phase[j]
Answered(c, a) == call' = [call EXCEPT ![c].answer = a]
NextJob == CHOOSE j \in Jobs : phase[j] = "absent" /\ \A k \in 1..j - 1 : phase[k] # "absent"
NoneActive    == \A j \in Jobs : phase[j] # "active"
HandlePost(c) ==
    /\ call[c].kind \in {"launch", "rerun"}
    /\ IF ~ready \/ Cardinality(Queue!Live) >= QueueCap
       THEN Answered(c, "refused") /\ UNCHANGED <<phase, lossy>>
       ELSE /\ \E j \in Jobs : phase[j] = "absent"
            /\ \E to \in {"waiting"} \cup (IF NoneActive THEN {"active"} ELSE {}) :
                  /\ Queue!Accept(NextJob, to)
                  /\ call' = [call EXCEPT ![c].answer = to, ![c].job = NextJob]
HandleStop(c) ==
    /\ call[c].kind = "stop"
    /\ Answered(c, "ok")
    /\ IF phase[call[c].job] = "waiting" THEN Queue!Close(call[c].job) ELSE UNCHANGED <<phase, lossy>>
HandlePoll(c) ==
    /\ call[c].kind = "poll"
    /\ Answered(c, GetJob(call[c].job))
    /\ UNCHANGED <<phase, lossy>>
Handle(c) ==
    /\ call[c].answer = "none"
    /\ HandlePost(c) \/ HandleStop(c) \/ HandlePoll(c)
    /\ UNCHANGED <<ready, PageVars>>

(* The executor: it claims one job at a time, ends it, or exits for good.  *)
Claim ==
    /\ NoneActive
    /\ ready' = TRUE
    /\ IF \E j \in Jobs : phase[j] = "waiting" THEN \E j \in Jobs : Queue!Give(j)
                                               ELSE ~ready /\ UNCHANGED <<phase, lossy>>
    /\ UNCHANGED <<call, PageVars>>
Done ==
    /\ \E j \in Jobs : phase[j] = "active" /\ Queue!Close(j)
    /\ UNCHANGED <<ready, call, PageVars>>
ExecutorExits ==
    /\ ready
    /\ ready' = FALSE
    /\ Queue!CloseActive
    /\ UNCHANGED <<call, PageVars>>

-----------------------------------------------------------------------------
(* The page gets an answer.  A launched job takes the card over, and from  *)
(* then on only answers about it count.                                    *)
(* Mutant: every answer of a poll is shown. *)
AnyJob(t, j) == TRUE

Ours(t, j) == jobId[t] = j
Show(t, j, ph) == panel' = [panel EXCEPT ![t] = [job |-> j, phase |-> ph]]
Deliver(c) ==
    LET r == call[c] IN
    /\ r.answer # "none"
    /\ call' = [call EXCEPT ![c] = Free]
    /\ IF r.by \in Tabs /\ r.kind = "launch" /\ r.answer # "refused"
       THEN /\ Show(r.by, r.job, r.answer)
            /\ jobId' = [jobId EXCEPT ![r.by] = r.job]
            /\ latest' = [latest EXCEPT ![r.by] = r.job]
       ELSE /\ IF r.by \in Tabs /\ r.kind = "poll" /\ Ours(r.by, r.job)
               THEN Show(r.by, r.job, r.answer) ELSE UNCHANGED panel
            /\ UNCHANGED <<jobId, latest>>
    /\ UNCHANGED <<ServerVars, seen>>

(* A request or its answer is lost: a poll is tried again by the timer, a  *)
(* launch shows the error.                                                 *)
Lose(c) ==
    /\ call[c] # Free
    /\ call' = [call EXCEPT ![c] = Free]
    /\ UNCHANGED <<ServerVars, PageVars>>

(* Mutant: the card outlives its run tab. *)
KeepsCard(t) ==
    /\ call' = [c \in Calls |-> IF call[c].by = t THEN [call[c] EXCEPT !.by = Nobody] ELSE call[c]]
    /\ UNCHANGED <<ServerVars, PageVars>>

(* The tab of the page is gone: answers on their way find nobody.          *)
Unmount(t) ==
    /\ panel' = [panel EXCEPT ![t] = NoPanel]
    /\ jobId' = [jobId EXCEPT ![t] = 0]
    /\ latest' = [latest EXCEPT ![t] = 0]
    /\ call' = [c \in Calls |-> IF call[c].by = t THEN [call[c] EXCEPT !.by = Nobody] ELSE call[c]]
    /\ UNCHANGED <<ServerVars, seen>>

Machine ==
    \/ \E c \in Calls : Handle(c) \/ Deliver(c)
    \/ Claim \/ Done
    \/ \E t \in Tabs : SeeExecutor(t)
    \/ \E t \in Tabs, c \in Calls : PollTick(t, c)
LaunchNext ==
    \/ Machine
    \/ ExecutorExits
    \/ \E c \in Calls : JobsPage(c) \/ Lose(c)
    \/ \E t \in Tabs, c \in Calls : Launch(t, c) \/ StopPanel(t, c)
    \/ \E t \in Tabs : Unmount(t)
LaunchSpec == LaunchInit /\ [][LaunchNext]_launchVars

-----------------------------------------------------------------------------
(* The card is about the job that was launched last, never about an        *)
(* earlier one whose answer came late, and it calls a job over only when   *)
(* the queue does, for good (launcher.tsx:254-263).                        *)
PanelTells ==
    \A t \in Tabs :
        /\ panel[t].job = latest[t]
        /\ Over(panel[t].phase) => Over(phase[panel[t].job])
=============================================================================
