---------------------------- MODULE RunProtocol -----------------------------
(***************************************************************************)
(* One run of an experiment: execute_run (runner/.../protocol.py) records  *)
(* into events.jsonl what the experiment prints (two reader threads and a  *)
(* queue) and what it emits over a Unix socket (one handler thread per     *)
(* event, lib/adb-events), keeps the card run.json in step, and closes the *)
(* run.  Writers share record_lock; a step that one writer completes under *)
(* it is one action here.                                                  *)
(***************************************************************************)
EXTENDS Naturals, Sequences, FiniteSets, SequencesExt

CONSTANTS
    Clients,        \* emits: one event on one connection each
    Results,        \* those that report one and the same declared result
    Undeclared,     \* those that report a result no manifest declares
    MaxLines,       \* bound: lines written to stdout and stderr together
    MaxDisturbances \* bound: failing calls, Ctrl-C and SIGKILLs together

ASSUME RunAssumption ==
    /\ Results \subseteq Clients /\ Undeclared \subseteq Clients
    /\ Results \cap Undeclared = {}
    /\ "free" \notin Clients
    /\ {MaxLines, MaxDisturbances} \subseteq Nat

Streams == {"stdout", "stderr"}

VARIABLES
    main,          \* where execute_run is
    stream,        \* events.jsonl, as other processes see it
    kept,          \* lines of failed writes, still in the file's buffer
    seq,           \* the next sequence number
    card,          \* the projection: lifecycle state and the folded records
    file,          \* run.json: the last card written
    lock,          \* who holds record_lock between two of its writes
    socket,        \* the event socket: none, open, closing, closed
    conn,          \* conn[c]: the handler of c's connection
    heard,         \* heard[c]: what the emitter of c knows
    seenResult,    \* the declared result was reported before
    child,         \* the experiment process
    code,          \* its exit status
    heirs,         \* descendants of it are alive and hold its pipes
    unread,        \* the parameters exceed the pipe and nobody has read them yet
    printed,       \* printed[s]: lines written to s so far
    pipe,          \* pipe[s]: of these, the unread ones (a count)
    reader,        \* reader[s]: the thread that reads s
    items,         \* events_q
    finished,      \* readers whose end the main loop has seen
    captureFailed, \* a reader gave up
    interrupted,   \* the main loop was interrupted while it waited
    used           \* failing calls and signals so far

files    == <<stream, kept, seq, card, file>>
emitters == <<socket, conn, heard, seenResult>>
process  == <<child, code, heirs, unread, printed>>
output   == <<pipe, reader, items>>
loop     == <<finished, captureFailed, interrupted>>
vars == <<main, files, lock, emitters, process, output, loop, used>>

(* Main's pcs from Popen until the socket is closed for new events.        *)
Serving == {"popen", "params", "loop"}
Over    == {"done", "aborted", "killed"}

Record(n, kind, of) == [seq |-> n, kind |-> kind, of |-> of]
NoCard == [state |-> "none", folded |-> <<>>]

Final == {"completed", "failed", "interrupted"}

(* A call that raises, a Ctrl-C or a SIGKILL.                              *)
Disturbed(kind) ==
    /\ used.faults + used.signals < MaxDisturbances
    /\ used' = [used EXCEPT ![kind] = @ + 1]
Fault  == Disturbed("faults")
Signal == Disturbed("signals")

-----------------------------------------------------------------------------
(* The store.                                                              *)

(* Mutant: the tag of the record is not looked at.                         *)
ObserveAny(c, r) ==
    [state |-> IF r.kind = "start" THEN "provisioning" ELSE r.kind,
     folded |-> Append(c.folded, r)]

(* CardProjection.observe: a pure fold, kept here as the folded records.   *)
Observe(c, r) ==
    [state  |-> CASE r.kind = "start" -> "provisioning"
                  [] r.kind = "end"   -> r.of
                  [] OTHER            -> c.state,
     folded |-> Append(c.folded, r)]

(* Mutant: a warning takes the number of the event it is about.            *)
SaveShared(kind, of) ==
    LET r == Record(IF kind = "warn" THEN seq - 1 ELSE seq, kind, of) IN
    /\ stream' = stream \o kept \o <<r>>
    /\ kept' = <<>>
    /\ card' = Observe(card, r)
    /\ seq' = r.seq + 1

(* save_payload: write_event flushes one line, and with it the lines that  *)
(* earlier failed writes left in the buffer.                               *)
Save(kind, of) ==
    LET r == Record(seq, kind, of) IN
    /\ stream' = stream \o kept \o <<r>>
    /\ kept' = <<>>
    /\ card' = Observe(card, r)
    /\ seq' = seq + 1

(* write_event raises: nothing is folded, but the line stays buffered.     *)
SaveFails(kind, of) ==
    /\ Fault
    /\ kept' = Append(kept, Record(seq, kind, of))
    /\ UNCHANGED <<stream, card, seq>>

(* write_card: replaced atomically.                                        *)
WriteCard == file' = card

-----------------------------------------------------------------------------
Init ==
    /\ main = "start"
    /\ stream = <<>> /\ kept = <<>> /\ seq = 0
    /\ card = NoCard /\ file = NoCard
    /\ lock = "free"
    /\ socket = "none"
    /\ conn = [c \in Clients |-> "none"]
    /\ heard = [c \in Clients |-> "unsent"]
    /\ seenResult = FALSE
    /\ child = "none" /\ code = "none" /\ heirs = FALSE
    /\ unread \in BOOLEAN
    /\ printed = [s \in Streams |-> 0]
    /\ pipe = [s \in Streams |-> 0]
    /\ reader = [s \in Streams |-> "none"]
    /\ items = <<>>
    /\ finished = 0 /\ captureFailed = FALSE /\ interrupted = FALSE
    /\ used = [faults |-> 0, signals |-> 0]

-----------------------------------------------------------------------------
(* The main thread of execute_run.                                         *)

(* run.start, with the card that goes with it.                             *)
RecordStart ==
    /\ main = "start"
    /\ Save("start", "run")
    /\ file' = card'
    /\ main' = "running"
    /\ UNCHANGED <<lock, emitters, process, output, loop, used>>

MarkRunning ==
    /\ main = "running"
    /\ card' = [card EXCEPT !.state = "running"]
    /\ file' = card'
    /\ socket' = "open"
    /\ main' = "popen"
    /\ UNCHANGED <<stream, kept, seq, lock, conn, heard, seenResult, process,
                   output, loop, used>>

(* Popen, and the two reader threads.                                      *)
StartChild ==
    /\ main = "popen"
    /\ child' = "alive"
    /\ reader' = [s \in Streams |-> "reading"]
    /\ main' = "params"
    /\ UNCHANGED <<files, lock, emitters, code, heirs, unread, printed, pipe, items,
                   loop, used>>

(* The write blocks while more is to be read than the pipe holds, and      *)
(* fails when nobody is left to read it, which does not matter.            *)
WriteParams ==
    /\ main = "params"
    /\ unread => child = "exited" /\ ~heirs
    /\ main' = "loop"
    /\ unread' = FALSE
    /\ UNCHANGED <<files, lock, emitters, child, code, heirs, printed, output, loop, used>>

(* Mutant: the loop ends with the first reader. *)
FirstReaderDone == finished >= 1 /\ child = "exited"

LoopDone == finished = 2 /\ child = "exited"

Heartbeat ==
    /\ main = "loop" /\ ~LoopDone
    /\ lock = "free"
    /\ file # card
    /\ WriteCard
    /\ UNCHANGED <<main, stream, kept, seq, card, lock, emitters, process,
                   output, loop, used>>

TakeEnd ==
    /\ main = "loop" /\ ~LoopDone
    /\ items # <<>> /\ Head(items).kind = "eof"
    /\ items' = Tail(items)
    /\ finished' = finished + 1
    /\ UNCHANGED <<main, files, lock, emitters, process, pipe, reader,
                   captureFailed, interrupted, used>>

TakeItem ==
    /\ main = "loop" /\ ~LoopDone
    /\ lock = "free"
    /\ items # <<>> /\ Head(items).kind # "eof"
    /\ items' = Tail(items)
    /\ captureFailed' = (captureFailed \/ Head(items).kind = "error")
    /\ Save(Head(items).kind, Head(items).of)
    /\ UNCHANGED <<main, file, lock, emitters, process, pipe, reader, finished,
                   interrupted, used>>

(* Mutant: the end of both pipes is awaited. *)
AwaitPipes ==
    /\ main = "loop" /\ ~LoopDone
    /\ lock = "free"
    /\ items = <<>> /\ child = "exited"
    /\ \A s \in Streams : reader[s] = "over"
    /\ Save("warn", "pipes")
    /\ main' = "wait"
    /\ UNCHANGED <<file, lock, emitters, process, output, loop, used>>

(* Ten seconds after the child's exit nothing comes: descendants hold the  *)
(* pipes, or an interrupt took a reader's end off the queue.               *)
LeavePipes ==
    /\ main = "loop" /\ ~LoopDone
    /\ lock = "free"
    /\ items = <<>> /\ child = "exited"
    /\ \A s \in Streams : reader[s] = "over" \/ heirs
    /\ Save("warn", "pipes")
    /\ main' = "wait"
    /\ UNCHANGED <<file, lock, emitters, process, output, loop, used>>

LeaveLoop ==
    /\ main = "loop" /\ LoopDone
    /\ main' = "wait"
    /\ UNCHANGED <<files, lock, emitters, process, output, loop, used>>

(* Mutant: connections that were not accepted are left as they are. *)
NoReset == heard

(* proc.wait(), then out of the with block: the socket takes no new        *)
(* connection; those that were not accepted are reset.                     *)
Reset == [c \in Clients |->
             IF conn[c] = "queued" /\ heard[c] = "waiting" THEN "failed"
             ELSE heard[c]]
CloseSocket ==
    /\ socket' = "closing"
    /\ heard' = Reset
    /\ conn' = [c \in Clients |-> IF conn[c] = "queued" THEN "over" ELSE conn[c]]
    /\ UNCHANGED seenResult

(* Mutant: the card is final before run.end. *)
EarlyCard ==
    /\ main = "wait" /\ child = "exited"
    /\ CloseSocket
    /\ main' = "closing"
    /\ file' = [card EXCEPT !.state = IF code = "zero" THEN "completed" ELSE "failed"]
    /\ UNCHANGED <<stream, kept, seq, card, lock, process, output, loop, used>>

LeaveSocket ==
    /\ main = "wait" /\ child = "exited"
    /\ CloseSocket
    /\ main' = "closing"
    /\ UNCHANGED <<files, lock, process, output, loop, used>>

(* Mutant: handlers are daemon threads. *)
NoJoin == TRUE

(* server_close joins every handler thread.                                *)
HandlersDone == \A c \in Clients : conn[c] \in {"none", "over"}

SocketClosed ==
    /\ main \in {"closing", "aborting"}
    /\ HandlersDone
    /\ socket' = "closed"
    /\ main' = IF main = "closing" THEN "end" ELSE "aborted"
    /\ UNCHANGED <<files, lock, conn, heard, seenResult, process, output, loop,
                   used>>

EndState ==
    IF interrupted \/ code = "signal" THEN "interrupted"
    ELSE IF code = "zero" /\ ~captureFailed THEN "completed" ELSE "failed"

RecordEnd ==
    /\ main = "end"
    /\ Save("end", EndState)
    /\ main' = "card"
    /\ UNCHANGED <<file, lock, emitters, process, output, loop, used>>

FinalCard ==
    /\ main = "card"
    /\ WriteCard
    /\ main' = "done"
    /\ UNCHANGED <<stream, kept, seq, card, lock, emitters, process, output,
                   loop, used>>

-----------------------------------------------------------------------------
(* How the main thread is disturbed.                                       *)

(* Ctrl-C while it is in the queue's get: ask the child to stop.  The item *)
(* that get had just removed is lost with it.                              *)
InterruptWait ==
    /\ main = "loop" /\ ~LoopDone
    /\ Signal
    /\ interrupted' = TRUE
    /\ items' = items \/ (items # <<>> /\ items' = Tail(items))
    /\ UNCHANGED <<main, files, lock, emitters, process, pipe, reader, finished,
                   captureFailed>>

(* An exception leaves execute_run; on the way out the socket is closed.   *)
Leave ==
    IF main \in Serving \cup {"wait"}
    THEN CloseSocket /\ main' = "aborting"
    ELSE /\ main' = IF main = "closing" THEN "aborting" ELSE "aborted"
         /\ UNCHANGED emitters

(* Ctrl-C anywhere else, also between two statements of save_payload: the  *)
(* record may be written and neither folded nor counted.                   *)
InterruptElsewhere ==
    /\ main \in Serving \cup {"running", "wait", "closing", "end", "card"}
    /\ Signal
    /\ Leave
    /\ \/ UNCHANGED <<stream, items>>
       \/ /\ main = "loop" /\ lock = "free"
          /\ items # <<>> /\ Head(items).kind # "eof"
          /\ items' = Tail(items)
          /\ stream' = stream \o kept \o
                       <<Record(seq, Head(items).kind, Head(items).of)>>
       \/ /\ main = "end"
          /\ stream' = stream \o kept \o <<Record(seq, "end", EndState)>>
          /\ UNCHANGED items
    /\ kept' = IF stream' = stream THEN kept ELSE <<>>
    /\ UNCHANGED <<seq, card, file, lock, process, pipe, reader, loop>>

(* Popen, a heartbeat or a write of the main thread fails: the OSError     *)
(* leaves execute_run.                                                     *)
CallFails ==
    /\ Fault
    /\ UNCHANGED <<stream, kept, seq, card, items>>

MainFails ==
    /\ \/ main \in {"popen", "loop", "card"} /\ CallFails
       \/ main = "start" /\ SaveFails("start", "run") /\ UNCHANGED items
       \/ /\ main = "loop" /\ lock = "free"
          /\ items # <<>> /\ Head(items).kind # "eof"
          /\ SaveFails(Head(items).kind, Head(items).of)
          /\ items' = Tail(items)
       \/ /\ main = "end"
          /\ SaveFails("end", EndState)
          /\ UNCHANGED items
    /\ Leave
    /\ UNCHANGED <<file, lock, process, pipe, reader, loop>>

(* The process ends after the exception; its file object may be flushed.   *)
FlushAtExit ==
    /\ main = "aborted"
    /\ kept # <<>>
    /\ stream' = stream \o kept
    /\ kept' = <<>>
    /\ UNCHANGED <<main, seq, card, file, lock, emitters, process, output, loop,
                   used>>

(* SIGKILL: the runner's threads and connections are gone.                 *)
Killed ==
    /\ main \notin Over
    /\ Signal
    /\ main' = "killed"
    /\ kept' = <<>>
    /\ lock' = "free"
    /\ socket' = "closed"
    /\ heard' = [c \in Clients |-> IF heard[c] = "waiting" THEN "failed" ELSE heard[c]]
    /\ conn' = [c \in Clients |-> IF conn[c] = "none" THEN "none" ELSE "over"]
    /\ UNCHANGED <<stream, seq, card, file, seenResult, process, output, loop>>

-----------------------------------------------------------------------------
(* The readers of stdout and stderr.                                       *)

ReadLine(s) ==
    /\ main \notin Over
    /\ reader[s] = "reading" /\ pipe[s] > 0
    /\ pipe' = [pipe EXCEPT ![s] = @ - 1]
    /\ items' = Append(items, [kind |-> s, of |-> printed[s] - pipe[s] + 1])
    /\ UNCHANGED <<main, files, lock, emitters, process, reader, loop, used>>

ReadEnd(s) ==
    /\ main \notin Over
    /\ reader[s] = "reading" /\ pipe[s] = 0
    /\ child = "exited" /\ ~heirs
    /\ reader' = [reader EXCEPT ![s] = "over"]
    /\ items' = Append(items, [kind |-> "eof", of |-> 0])
    /\ UNCHANGED <<main, files, lock, emitters, process, pipe, loop, used>>

(* The stream cannot be read on: an error record, then the end.            *)
ReadFails(s) ==
    /\ main \notin Over
    /\ reader[s] = "reading"
    /\ Fault
    /\ reader' = [reader EXCEPT ![s] = "over"]
    /\ items' = items \o <<[kind |-> "error", of |-> 0], [kind |-> "eof", of |-> 0]>>
    /\ UNCHANGED <<main, files, lock, emitters, process, pipe, loop>>

-----------------------------------------------------------------------------
(* The socket handlers.                                                    *)

Accept(c) ==
    /\ socket = "open" /\ main \notin Over
    /\ conn[c] = "queued"
    /\ conn' = [conn EXCEPT ![c] = "reading"]
    /\ UNCHANGED <<main, files, lock, socket, heard, seenResult, process, output,
                   loop, used>>

(* Invalid, too large, cut off or too slow: nothing is recorded.           *)
Reject(c) ==
    /\ conn[c] = "reading"
    /\ conn' = [conn EXCEPT ![c] = "refused"]
    /\ UNCHANGED <<main, files, lock, socket, heard, seenResult, process, output,
                   loop, used>>

IsResult(c) == c \in Results \cup Undeclared
NeedsWarning(c) == c \in Undeclared \/ (c \in Results /\ seenResult)

(* Mutant: the lock is taken for each write. *)
RecordUnlocked(c) ==
    /\ conn[c] = "reading" /\ lock = "free"
    /\ Save("event", c)
    /\ seenResult' = (seenResult \/ c \in Results)
    /\ conn' = [conn EXCEPT ![c] = IF NeedsWarning(c) THEN "warning" ELSE "recorded"]
    /\ UNCHANGED <<main, file, lock, socket, heard, process, output, loop, used>>

(* record_payload up to the warning, which is saved under the same lock.   *)
RecordEvent(c) ==
    /\ conn[c] = "reading" /\ lock = "free"
    /\ Save("event", c)
    /\ seenResult' = (seenResult \/ c \in Results)
    /\ conn' = [conn EXCEPT ![c] = IF NeedsWarning(c) THEN "warning" ELSE "recorded"]
    /\ lock' = IF NeedsWarning(c) THEN c ELSE "free"
    /\ UNCHANGED <<main, file, socket, heard, process, output, loop, used>>

RecordWarning(c) ==
    /\ conn[c] = "warning"
    /\ Save("warn", c)
    /\ conn' = [conn EXCEPT ![c] = "recorded"]
    /\ lock' = "free"
    /\ UNCHANGED <<main, file, socket, heard, seenResult, process, output, loop,
                   used>>

(* Mutant: a failed write is acknowledged. *)
AckAnyway(c) ==
    /\ conn[c] = "reading" /\ lock = "free" /\ SaveFails("event", c)
    /\ conn' = [conn EXCEPT ![c] = "recorded"]
    /\ UNCHANGED <<main, file, lock, socket, heard, seenResult, process, output, loop>>

(* The write of the event or of its warning fails: an error reply.         *)
EventSaveFails(c) ==
    /\ \/ conn[c] = "reading" /\ lock = "free" /\ SaveFails("event", c)
       \/ conn[c] = "warning" /\ SaveFails("warn", c)
    /\ conn' = [conn EXCEPT ![c] = "refused"]
    /\ lock' = "free"
    /\ UNCHANGED <<main, file, socket, heard, seenResult, process, output, loop>>

(* on_event raises after the record is saved: an error reply all the same. *)
CallbackFails(c) ==
    /\ conn[c] = "reading" /\ lock = "free"
    /\ Fault
    /\ Save("event", c)
    /\ seenResult' = (seenResult \/ c \in Results)
    /\ conn' = [conn EXCEPT ![c] = "refused"]
    /\ UNCHANGED <<main, file, lock, socket, heard, process, output, loop>>

(* The reply; an emitter that left does not hear it.                       *)
ReplyTo(c) ==
    /\ conn[c] \in {"recorded", "refused"}
    /\ conn' = [conn EXCEPT ![c] = "over"]
    /\ heard' = [heard EXCEPT ![c] =
                    IF @ # "waiting" THEN @
                    ELSE IF conn[c] = "recorded" THEN "acked" ELSE "failed"]
    /\ UNCHANGED <<main, files, lock, socket, seenResult, process, output, loop,
                   used>>

-----------------------------------------------------------------------------
(* The experiment, its descendants and their emitters; what they do after  *)
(* the runner is gone is not followed.                                     *)

Someone == main \notin Over /\ (child = "alive" \/ heirs)

WriteLine(s) ==
    /\ Someone
    /\ reader[s] = "reading"
    /\ printed["stdout"] + printed["stderr"] < MaxLines
    /\ printed' = [printed EXCEPT ![s] = @ + 1]
    /\ pipe' = [pipe EXCEPT ![s] = @ + 1]
    /\ UNCHANGED <<main, files, lock, emitters, child, code, heirs, unread, reader,
                   items, loop, used>>

(* send_event: connect and send; the connection waits in the backlog.      *)
Emit(c) ==
    /\ Someone
    /\ heard[c] = "unsent"
    /\ IF socket = "open"
       THEN /\ heard' = [heard EXCEPT ![c] = "waiting"]
            /\ conn' = [conn EXCEPT ![c] = "queued"]
       ELSE heard' = [heard EXCEPT ![c] = "failed"] /\ UNCHANGED conn
    /\ UNCHANGED <<main, files, lock, socket, seenResult, process, output, loop,
                   used>>

(* Thirty seconds without a reply, or the emitter's process is gone.       *)
GiveUp(c) ==
    /\ heard[c] = "waiting"
    /\ heard' = [heard EXCEPT ![c] = "failed"]
    /\ UNCHANGED <<main, files, lock, socket, conn, seenResult, process, output,
                   loop, used>>

(* The parameters are the whole of the experiment's standard input.        *)
ReadParams ==
    /\ Someone
    /\ main = "params" /\ unread
    /\ unread' = FALSE
    /\ UNCHANGED <<main, files, lock, emitters, child, code, heirs, printed, output,
                   loop, used>>

ChildExits(how, leaves) ==
    /\ main \notin Over /\ child = "alive"
    /\ child' = "exited"
    /\ code' = how
    /\ heirs' = leaves
    /\ UNCHANGED <<main, files, lock, emitters, unread, printed, output, loop, used>>

HeirsEnd ==
    /\ main \notin Over /\ heirs
    /\ heirs' = FALSE
    /\ UNCHANGED <<main, files, lock, emitters, child, code, unread, printed, output,
                   loop, used>>

-----------------------------------------------------------------------------
MainStep ==
    \/ RecordStart \/ MarkRunning \/ StartChild \/ WriteParams
    \/ Heartbeat \/ TakeEnd \/ TakeItem \/ LeavePipes \/ LeaveLoop
    \/ LeaveSocket \/ SocketClosed \/ RecordEnd \/ FinalCard

Disturbance == InterruptWait \/ InterruptElsewhere \/ MainFails \/ FlushAtExit \/ Killed

ReaderStep(s) == ReadLine(s) \/ ReadEnd(s) \/ ReadFails(s)

HandlerStep(c) ==
    \/ Accept(c) \/ Reject(c) \/ RecordEvent(c) \/ RecordWarning(c)
    \/ EventSaveFails(c) \/ CallbackFails(c) \/ ReplyTo(c)

Experiment ==
    \/ \E s \in Streams : WriteLine(s)
    \/ \E c \in Clients : Emit(c) \/ GiveUp(c)
    \/ \E how \in {"zero", "nonzero", "signal"}, leaves \in BOOLEAN :
          ChildExits(how, leaves)
    \/ HeirsEnd \/ ReadParams

Next ==
    \/ MainStep
    \/ Disturbance
    \/ \E s \in Streams : ReaderStep(s)
    \/ \E c \in Clients : HandlerStep(c)
    \/ Experiment

Spec == Init /\ [][Next]_vars

(* The runner's threads are scheduled; nothing is assumed of the child,    *)
(* its descendants or its emitters.  The heartbeat needs no fairness, and  *)
(* none is given to the actions that fail.                                 *)
Progress ==
    \/ RecordStart \/ MarkRunning \/ StartChild \/ WriteParams
    \/ TakeEnd \/ TakeItem \/ LeavePipes \/ LeaveLoop
    \/ LeaveSocket \/ SocketClosed \/ RecordEnd \/ FinalCard

Fairness ==
    /\ WF_vars(Progress)
    /\ \A s \in Streams : WF_vars(ReadLine(s)) /\ WF_vars(ReadEnd(s))
    /\ \A c \in Clients : WF_vars(HandlerStep(c))

FairSpec == Spec /\ Fairness

-----------------------------------------------------------------------------
(* Properties.                                                             *)

Kinds == {"start", "event", "warn", "error", "end"} \cup Streams
IsRecord(r) ==
    /\ DOMAIN r = {"seq", "kind", "of"}
    /\ r.seq \in Nat /\ r.kind \in Kinds

TypeOK ==
    /\ main \in Over \cup Serving \cup
               {"start", "running", "wait", "closing", "aborting", "end", "card"}
    /\ \A log \in {stream, kept, card.folded, file.folded} :
          \A i \in 1..Len(log) : IsRecord(log[i])
    /\ seq \in Nat
    /\ {card.state, file.state} \subseteq {"none", "provisioning", "running"} \cup Final
    /\ lock \in {"free"} \cup Clients
    /\ socket \in {"none", "open", "closing", "closed"}
    /\ conn \in [Clients -> {"none", "queued", "reading", "warning", "recorded",
                             "refused", "over"}]
    /\ heard \in [Clients -> {"unsent", "waiting", "acked", "failed"}]
    /\ child \in {"none", "alive", "exited"}
    /\ code \in {"none", "zero", "nonzero", "signal"}
    /\ heirs \in BOOLEAN /\ unread \in BOOLEAN
    /\ printed \in [Streams -> 0..MaxLines] /\ pipe \in [Streams -> 0..MaxLines]
    /\ reader \in [Streams -> {"none", "reading", "over"}]
    /\ \A i \in 1..Len(items) : items[i].kind \in Streams \cup {"eof", "error"}
    /\ finished \in 0..2
    /\ captureFailed \in BOOLEAN /\ interrupted \in BOOLEAN
    /\ used \in [faults : 0..MaxDisturbances, signals : 0..MaxDisturbances]

RecordsOf(kind, of) == {i \in 1..Len(stream) : stream[i].kind = kind /\ stream[i].of = of}
Ended == stream # <<>> /\ Last(stream).kind = "end"

(* event_socket.py:35, "Do not acknowledge storage failures as successful  *)
(* delivery", and the other way round: an emitter that was told ok has its *)
(* event in the stream, exactly once, whatever timed out, failed, was      *)
(* interrupted or killed around it.                                        *)
AckedIsRecorded ==
    \A c \in Clients : heard[c] = "acked" => Cardinality(RecordsOf("event", c)) = 1

(* verify.py _records, the audit every finished run must pass: run.start   *)
(* first, run.end last, neither anywhere else, sequence numbers contiguous *)
(* from 0.  Handlers, the main loop and warnings number records together.  *)
Lifecycle(s) ==
    /\ s # <<>>
    /\ \A i \in 1..Len(s) : /\ s[i].kind = "start" <=> i = 1
                            /\ s[i].kind = "end"   <=> i = Len(s)
Contiguous(s) == \A i \in 1..Len(s) : s[i].seq = i - 1
AuditPasses ==
    main = "done" => Lifecycle(stream) /\ (used.faults = 0 => Contiguous(stream))

(* The stream is closed by run.end: no late emitter, reader, descendant or *)
(* retained line is recorded after it.                                     *)
NothingAfterEnd == [][Ended => stream' = stream]_vars

(* run.json is never ahead of events.jsonl, also when the runner dies: the *)
(* card shows a prefix of the stream, and a final state only when run.end  *)
(* with that state is in the stream; a finished run's card is complete.    *)
CardFollowsStream ==
    /\ used.faults = 0 => IsPrefix(file.folded, stream)
    /\ file.state \in Final => Ended /\ Last(stream).of = file.state
    /\ main = "done" => /\ file.state \in Final
                        /\ used.faults = 0 => file.folded = stream

(* protocol.md:53, "The runner drains captured output and waits for the    *)
(* process": every line printed is recorded, in order, unless descendants  *)
(* kept the pipes, a reader failed (which makes the run fail) or Ctrl-C    *)
(* came (which makes it interrupted).                                      *)
LinesOf(s) == {i \in 1..Len(stream) : stream[i].kind = s}
OutputDrained ==
    main = "done" /\ RecordsOf("warn", "pipes") = {} /\ ~captureFailed /\ ~interrupted =>
        \A s \in Streams :
            /\ {stream[i].of : i \in LinesOf(s)} = 1..printed[s]
            /\ \A i, k \in LinesOf(s) : i < k => stream[i].of < stream[k].of

(* A result that is undeclared or reported before is followed at once by   *)
(* its warning, whatever else is recorded at that moment.                  *)
Repeated(i) == \E k \in 1..(i - 1) : stream[k].kind = "event" /\ stream[k].of \in Results
Suspect(i) ==
    /\ stream[i].kind = "event"
    /\ stream[i].of \in Undeclared \/ (stream[i].of \in Results /\ Repeated(i))
WarningFollows ==
    used.faults = 0 =>
        \A i \in 1..(Len(stream) - 1) :
            Suspect(i) => stream[i + 1].kind = "warn" /\ stream[i + 1].of = stream[i].of

(* events.md:49, seq is a "sequence number increasing within the run", and *)
(* layout.md:32, "Records are addressed by (run, seq)".                    *)
SeqIncreases ==
    \A i \in 1..(Len(stream) - 1) : stream[i].seq < stream[i + 1].seq

(* Once the experiment has exited, the run closes: neither parameters that *)
(* it never read, nor descendants that only hold its pipes, nor slow       *)
(* emitters keep it open, unless a descendant also keeps the pipe of       *)
(* parameters that are unread and larger than it.                          *)
Stuck == main = "params" /\ unread /\ heirs
RunCloses == (child = "exited" /\ ~Stuck) ~> main \in Over

(* Every emitter hears something: an ok, an error or a reset.              *)
EmitReturns ==
    \A c \in Clients : heard[c] = "waiting" ~> heard[c] \in {"acked", "failed"}
=============================================================================
