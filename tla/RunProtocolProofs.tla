-------------------------- MODULE RunProtocolProofs --------------------------
(***************************************************************************)
(* Theorems about the recorder of a run for every number of emitters,      *)
(* lines, failing calls and signals.                                       *)
(***************************************************************************)
EXTENDS RunProtocol, SequenceTheorems, FiniteSetTheorems, TLAPS

Ofs   == {"run", "pipes"} \cup Final \cup Clients \cup Nat
Recs  == [seq : Nat, kind : Kinds, of : Ofs]
Items == [kind : Streams \cup {"eof", "error"}, of : Nat]
Cards == [state : {"none", "provisioning", "running"} \cup Final, folded : Seq(Recs)]

(* TypeOK with the records of the logs and the items of the queue in full, *)
(* and no more unread than printed.                                        *)
LogsTyped ==
    /\ stream \in Seq(Recs) /\ kept \in Seq(Recs)
    /\ card \in Cards /\ file \in Cards
    /\ seq \in Nat
ThreadsTyped ==
    /\ main \in Over \cup Serving \cup
               {"start", "running", "wait", "closing", "aborting", "end", "card"}
    /\ lock \in {"free"} \cup Clients
    /\ socket \in {"none", "open", "closing", "closed"}
    /\ conn \in [Clients -> {"none", "queued", "reading", "warning", "recorded",
                             "refused", "over"}]
    /\ heard \in [Clients -> {"unsent", "waiting", "acked", "failed"}]
    /\ used \in [faults : 0..MaxDisturbances, signals : 0..MaxDisturbances]
OutputTyped ==
    /\ child \in {"none", "alive", "exited"}
    /\ code \in {"none", "zero", "nonzero", "signal"}
    /\ heirs \in BOOLEAN /\ unread \in BOOLEAN
    /\ printed \in [Streams -> 0..MaxLines] /\ pipe \in [Streams -> 0..MaxLines]
    /\ \A s \in Streams : pipe[s] <= printed[s]
    /\ reader \in [Streams -> {"none", "reading", "over"}]
    /\ items \in Seq(Items)
    /\ captureFailed \in BOOLEAN /\ interrupted \in BOOLEAN
Typed == LogsTyped /\ ThreadsTyped /\ OutputTyped

-----------------------------------------------------------------------------
(* The log: what the stream holds and what the next write takes along.     *)
log == stream \o kept

LEMMA LogTyped == LogsTyped =>
    /\ log \in Seq(Recs)
    /\ Len(log) = Len(stream) + Len(kept)
    /\ Len(log) \in Nat /\ Len(stream) \in Nat /\ Len(kept) \in Nat
    /\ Len(stream) <= Len(log)
    /\ \A i \in 1..Len(stream) : log[i] = stream[i]
    /\ \A i \in 1..Len(log) : log[i] \in Recs
    /\ kept = <<>> => log = stream
  BY ConcatProperties, ConcatEmptySeq DEF LogsTyped, log

LEMMA AppendFacts ==
    ASSUME NEW s \in Seq(Recs), NEW r \in Recs, NEW t, t = Append(s, r)
    PROVE  /\ t \in Seq(Recs) /\ Len(t) = Len(s) + 1
           /\ \A i \in 1..Len(s) : t[i] = s[i]
           /\ t[Len(s) + 1] = r
  BY AppendProperties

(* One record more at the end, the others where they were.                 *)
Adds(r) ==
    /\ r \in Recs
    /\ Len(log') = Len(log) + 1
    /\ \A i \in 1..Len(log) : log'[i] = log[i]
    /\ log'[Len(log) + 1] = r

(* A write adds its record and leaves nothing behind.                      *)
LEMMA WriteAdds ==
    ASSUME LogsTyped, NEW r \in Recs, stream' = stream \o kept \o <<r>>, kept' = <<>>
    PROVE  /\ Adds(r)
           /\ stream' = log' /\ stream' \in Seq(Recs) /\ kept' \in Seq(Recs)
           /\ stream' = Append(log, r)
<1>1. log \in Seq(Recs) /\ stream' = log \o <<r>>
  BY LogTyped DEF log
<1>2. stream' = Append(log, r) /\ stream' \in Seq(Recs)
  BY <1>1, AppendProperties, AppendIsConcat
<1>3. log' = stream'
  BY <1>2, ConcatEmptySeq DEF log
<1>4. kept' \in Seq(Recs)
  BY EmptySeq
<1>5. /\ Len(log') = Len(log) + 1
      /\ \A i \in 1..Len(log) : log'[i] = log[i]
      /\ log'[Len(log) + 1] = r
  <2>1. log' = Append(log, r)
    BY <1>2, <1>3
  <2> HIDE <1>2, <1>3
  <2> QED
    BY <1>1, <2>1, AppendFacts
<1>6. Adds(r)
  BY <1>5 DEF Adds
<1> QED
  BY <1>2, <1>3, <1>4, <1>6

(* A failed write adds its record to what the next write takes along.      *)
LEMMA KeepAdds ==
    ASSUME LogsTyped, NEW r \in Recs, kept' = Append(kept, r), stream' = stream
    PROVE  Adds(r) /\ stream' \in Seq(Recs) /\ kept' \in Seq(Recs)
<1>1. kept' \in Seq(Recs) /\ Len(kept') = Len(kept) + 1
  BY AppendProperties DEF LogsTyped
<1>2. /\ Len(log) = Len(stream) + Len(kept) /\ Len(stream) \in Nat /\ Len(kept) \in Nat
      /\ \A i \in 1..Len(log) : log[i] = IF i <= Len(stream) THEN stream[i] ELSE kept[i - Len(stream)]
  BY ConcatProperties DEF LogsTyped, log
<1>3. /\ Len(log') = Len(stream) + Len(kept')
      /\ \A i \in 1..Len(log') :
            log'[i] = IF i <= Len(stream) THEN stream[i] ELSE kept'[i - Len(stream)]
  BY <1>1, ConcatProperties DEF LogsTyped, log
<1>4. \A i \in 1..Len(kept) : kept'[i] = kept[i]
  BY AppendProperties DEF LogsTyped
<1>5. kept'[Len(kept) + 1] = r
  BY AppendProperties DEF LogsTyped
<1>6. Len(log') = Len(log) + 1
  BY <1>1, <1>2, <1>3
<1>7. \A i \in 1..Len(log) : log'[i] = log[i]
  BY <1>1, <1>2, <1>3, <1>4
<1>8. log'[Len(log) + 1] = r
  BY <1>1, <1>2, <1>3, <1>5
<1>9. Adds(r)
  BY <1>6, <1>7, <1>8 DEF Adds
<1> QED
  BY <1>1, <1>9 DEF LogsTyped

LEMMA FlushTyped ==
    ASSUME LogsTyped, stream' = stream \o kept, kept' = <<>>
    PROVE  log' = log /\ stream' = log /\ stream' \in Seq(Recs) /\ kept' \in Seq(Recs)
  BY ConcatProperties, ConcatEmptySeq DEF LogsTyped, log

LEMMA LogSame == UNCHANGED <<stream, kept>> => log' = log
  BY DEF log

LEMMA RecordTyped ==
    ASSUME NEW n \in Nat, NEW k \in Kinds, NEW o \in Ofs
    PROVE  Record(n, k, o) \in Recs
  BY DEF Record, Recs

(* save_payload keeps the shape of the logs and of the card.               *)
LEMMA SaveTyped ==
    ASSUME LogsTyped, NEW k \in Kinds, NEW o \in Ofs, Save(k, o), k = "end" => o \in Final
    PROVE  /\ Adds(Record(seq, k, o)) /\ stream' = log' /\ kept' = <<>>
           /\ stream' = Append(log, Record(seq, k, o))
           /\ stream' \in Seq(Recs) /\ kept' \in Seq(Recs) /\ seq' \in Nat
           /\ card' \in Cards
<1> DEFINE r == Record(seq, k, o)
<1>1. r \in Recs /\ seq \in Nat
  BY RecordTyped DEF LogsTyped
<1>2. stream' = stream \o kept \o <<r>> /\ kept' = <<>> /\ seq' = seq + 1 /\ card' = Observe(card, r)
  BY DEF Save
<1>3. Append(card.folded, r) \in Seq(Recs)
  BY <1>1, AppendProperties DEF LogsTyped, Cards
<1>4. card' \in Cards
  BY <1>1, <1>2, <1>3 DEF Observe, Cards, LogsTyped, Record
<1> HIDE DEF r
<1>5. /\ Adds(r) /\ stream' = log' /\ stream' = Append(log, r)
      /\ stream' \in Seq(Recs) /\ kept' \in Seq(Recs)
  BY <1>1, <1>2, WriteAdds
<1>6. seq' \in Nat /\ kept' = <<>>
  BY <1>1, <1>2
<1> QED
  BY <1>4, <1>5, <1>6 DEF r

-----------------------------------------------------------------------------
(* Every step keeps the shapes.                                            *)
LEMMA TypedInit == Init => Typed
<1> SUFFICES ASSUME Init PROVE Typed
  OBVIOUS
<1>1. LogsTyped
  BY EmptySeq DEF Init, LogsTyped, Cards, NoCard
<1>2. ThreadsTyped
  BY RunAssumption DEF Init, ThreadsTyped, RunAssumption
<1>3. OutputTyped
  <2>1. MaxLines \in Nat
    BY RunAssumption DEF RunAssumption
  <2>2. items \in Seq(Items)
    BY EmptySeq DEF Init
  <2>3. /\ printed \in [Streams -> 0..MaxLines] /\ pipe \in [Streams -> 0..MaxLines]
        /\ \A s \in Streams : pipe[s] <= printed[s]
    BY <2>1 DEF Init
  <2>4. reader \in [Streams -> {"none", "reading", "over"}]
    BY DEF Init
  <2> QED
    BY <2>2, <2>3, <2>4 DEF Init, OutputTyped
<1> QED
  BY <1>1, <1>2, <1>3 DEF Typed

LEMMA ClosedTyped == ThreadsTyped /\ CloseSocket =>
    /\ socket' = "closing"
    /\ conn' \in [Clients -> {"none", "queued", "reading", "warning", "recorded",
                              "refused", "over"}]
    /\ heard' \in [Clients -> {"unsent", "waiting", "acked", "failed"}]
  BY DEF ThreadsTyped, CloseSocket, Reset

LEMMA DisturbedTyped ==
    ASSUME ThreadsTyped, Fault \/ Signal
    PROVE  used' \in [faults : 0..MaxDisturbances, signals : 0..MaxDisturbances]
  BY RunAssumption DEF Fault, Signal, Disturbed, ThreadsTyped, RunAssumption

LEMMA EndStateFinal == EndState \in Final
  BY DEF EndState, Final

(* An item of the queue becomes a record.                                  *)
LEMMA ItemTyped ==
    ASSUME OutputTyped, items # <<>>
    PROVE  /\ Head(items) \in Items /\ Head(items).of \in Ofs
           /\ Tail(items) \in Seq(Items)
           /\ Head(items).kind # "eof" => Head(items).kind \in Kinds \ {"start", "event", "warn", "end"}
<1>1. Head(items) \in Items /\ Tail(items) \in Seq(Items)
  BY HeadTailProperties DEF OutputTyped
<1> QED
  BY <1>1 DEF Items, Ofs, Kinds, Streams

LEMMA TypedMain == Typed /\ MainStep => Typed'
<1> SUFFICES ASSUME LogsTyped, ThreadsTyped, OutputTyped, MainStep
             PROVE  LogsTyped' /\ ThreadsTyped' /\ OutputTyped'
  BY DEF Typed
<1> USE DEF files, emitters, process, output, loop
<1>1. CASE RecordStart
  <2>1. "start" \in Kinds /\ "run" \in Ofs
    BY DEF Kinds, Ofs
  <2>2. LogsTyped'
    BY <1>1, <2>1, SaveTyped DEF RecordStart, LogsTyped
  <2> QED
    BY <1>1, <2>2 DEF RecordStart, ThreadsTyped, OutputTyped
<1>2. CASE MarkRunning
  BY <1>2 DEF MarkRunning, LogsTyped, ThreadsTyped, OutputTyped, Serving, Cards
<1>3. CASE StartChild
  BY <1>3 DEF StartChild, LogsTyped, ThreadsTyped, OutputTyped, Serving
<1>4. CASE WriteParams
  BY <1>4 DEF WriteParams, LogsTyped, ThreadsTyped, OutputTyped, Serving
<1>5. CASE Heartbeat
  BY <1>5 DEF Heartbeat, WriteCard, LogsTyped, ThreadsTyped, OutputTyped
<1>6. CASE TakeEnd
  BY <1>6, ItemTyped DEF TakeEnd, LogsTyped, ThreadsTyped, OutputTyped
<1>7. CASE TakeItem
  <2>1. LogsTyped'
    BY <1>7, ItemTyped, SaveTyped DEF TakeItem, LogsTyped
  <2>2. captureFailed' \in BOOLEAN /\ items' \in Seq(Items)
    BY <1>7, ItemTyped DEF TakeItem, OutputTyped
  <2> QED
    BY <1>7, <2>1, <2>2 DEF TakeItem, ThreadsTyped, OutputTyped
<1>8. CASE LeavePipes
  <2>1. "warn" \in Kinds /\ "pipes" \in Ofs
    BY DEF Kinds, Ofs
  <2>2. LogsTyped'
    BY <1>8, <2>1, SaveTyped DEF LeavePipes, LogsTyped
  <2> QED
    BY <1>8, <2>2 DEF LeavePipes, ThreadsTyped, OutputTyped
<1>9. CASE LeaveLoop
  BY <1>9 DEF LeaveLoop, LogsTyped, ThreadsTyped, OutputTyped
<1>10. CASE LeaveSocket
  BY <1>10, ClosedTyped DEF LeaveSocket, LogsTyped, ThreadsTyped, OutputTyped
<1>11. CASE SocketClosed
  BY <1>11 DEF SocketClosed, LogsTyped, ThreadsTyped, OutputTyped, Over
<1>12. CASE RecordEnd
  <2>1. "end" \in Kinds /\ EndState \in Ofs
    BY EndStateFinal DEF Kinds, Ofs
  <2>2. LogsTyped'
    BY <1>12, <2>1, EndStateFinal, SaveTyped DEF RecordEnd, LogsTyped
  <2> QED
    BY <1>12, <2>2 DEF RecordEnd, ThreadsTyped, OutputTyped
<1>13. CASE FinalCard
  BY <1>13 DEF FinalCard, WriteCard, LogsTyped, ThreadsTyped, OutputTyped, Over
<1> QED
  BY <1>1, <1>2, <1>3, <1>4, <1>5, <1>6, <1>7, <1>8, <1>9, <1>10, <1>11, <1>12, <1>13
  DEF MainStep

(* What leaves execute_run keeps the shapes.                               *)
LEMMA LeaveTyped ==
    ASSUME ThreadsTyped, Leave, lock' = lock,
           used' \in [faults : 0..MaxDisturbances, signals : 0..MaxDisturbances]
    PROVE  ThreadsTyped' /\ main' \in {"aborting", "aborted"}
  BY ClosedTyped DEF Leave, ThreadsTyped, emitters, Over

(* Which write goes with an interrupt between two statements.              *)
InterruptedWrite(k, o) ==
    /\ k \in Kinds \ {"start", "event", "warn"} /\ o \in Ofs
    /\ k = "end" => main = "end" /\ o = EndState /\ UNCHANGED items
    /\ k # "end" => /\ main = "loop" /\ lock = "free" /\ items # <<>>
                    /\ k = Head(items).kind /\ items' = Tail(items)
    /\ stream' = stream \o kept \o <<Record(seq, k, o)>> /\ kept' = <<>>
LEMMA InterruptShape ==
    ASSUME LogsTyped, OutputTyped, InterruptElsewhere
    PROVE  \/ UNCHANGED <<stream, kept, items>>
           \/ \E k \in Kinds, o \in Ofs : InterruptedWrite(k, o)
<1>1. CASE UNCHANGED <<stream, items>>
  BY <1>1 DEF InterruptElsewhere
<1>2. ASSUME NEW k \in Kinds, NEW o \in Ofs, stream' = stream \o kept \o <<Record(seq, k, o)>>
      PROVE  kept' = <<>>
  <2>1. Record(seq, k, o) \in Recs
    BY RecordTyped DEF LogsTyped
  <2>2. Len(stream \o kept) >= Len(stream) /\ stream \o kept \in Seq(Recs) /\ Len(stream) \in Nat
    BY ConcatProperties DEF LogsTyped
  <2>3. Len((stream \o kept) \o <<Record(seq, k, o)>>) = Len(stream \o kept) + 1
    BY <2>1, <2>2, ConcatProperties
  <2>4. stream' # stream
    BY <1>2, <2>2, <2>3
  <2> QED
    BY <2>4 DEF InterruptElsewhere
<1>3. CASE /\ main = "loop" /\ lock = "free"
           /\ items # <<>> /\ Head(items).kind # "eof"
           /\ items' = Tail(items)
           /\ stream' = stream \o kept \o
                        <<Record(seq, Head(items).kind, Head(items).of)>>
  <2>1. Head(items).kind \in Kinds \ {"start", "event", "warn", "end"} /\ Head(items).of \in Ofs
    BY <1>3, ItemTyped
  <2>2. kept' = <<>>
    BY <1>2, <1>3, <2>1
  <2>3. InterruptedWrite(Head(items).kind, Head(items).of)
    BY <1>3, <2>1, <2>2 DEF InterruptedWrite
  <2> QED
    BY <2>1, <2>3
<1>4. CASE /\ main = "end"
           /\ stream' = stream \o kept \o <<Record(seq, "end", EndState)>>
           /\ UNCHANGED items
  <2>1. "end" \in Kinds \ {"start", "event", "warn"} /\ EndState \in Ofs
    BY EndStateFinal DEF Kinds, Ofs, Streams
  <2>2. kept' = <<>>
    BY <1>2, <1>4, <2>1
  <2>3. InterruptedWrite("end", EndState)
    BY <1>4, <2>1, <2>2 DEF InterruptedWrite
  <2> QED
    BY <2>1, <2>3
<1> QED
  BY <1>1, <1>3, <1>4 DEF InterruptElsewhere

(* Which write may fail under the main thread.                             *)
FailedWrite(k, o) ==
    /\ k \in Kinds \ {"event", "warn"} /\ o \in Ofs
    /\ k = "start" => main = "start" /\ UNCHANGED items
    /\ k = "end" => main = "end" /\ UNCHANGED items
    /\ k \notin {"start", "end"} =>
          main = "loop" /\ lock = "free" /\ items # <<>> /\ items' = Tail(items)
    /\ SaveFails(k, o)
LEMMA FailShape ==
    ASSUME LogsTyped, OutputTyped, MainFails
    PROVE  \/ main \in {"popen", "loop", "card"} /\ CallFails
           \/ \E k \in Kinds, o \in Ofs : FailedWrite(k, o)
<1>1. CASE main \in {"popen", "loop", "card"} /\ CallFails
  BY <1>1
<1>2. CASE main = "start" /\ SaveFails("start", "run") /\ UNCHANGED items
  <2>1. "start" \in Kinds \ {"event", "warn"} /\ "run" \in Ofs
    BY DEF Kinds, Ofs, Streams
  <2> QED
    BY <1>2, <2>1 DEF FailedWrite
<1>3. CASE /\ main = "loop" /\ lock = "free"
           /\ items # <<>> /\ Head(items).kind # "eof"
           /\ SaveFails(Head(items).kind, Head(items).of)
           /\ items' = Tail(items)
  <2>1. Head(items).kind \in Kinds \ {"start", "event", "warn", "end"} /\ Head(items).of \in Ofs
    BY <1>3, ItemTyped
  <2> QED
    BY <1>3, <2>1 DEF FailedWrite
<1>4. CASE main = "end" /\ SaveFails("end", EndState) /\ UNCHANGED items
  <2>1. "end" \in Kinds \ {"event", "warn"} /\ EndState \in Ofs
    BY EndStateFinal DEF Kinds, Ofs, Streams
  <2> QED
    BY <1>4, <2>1 DEF FailedWrite
<1> QED
  BY <1>1, <1>2, <1>3, <1>4 DEF MainFails

LEMMA TypedDisturbance == Typed /\ Disturbance => Typed'
<1> SUFFICES ASSUME LogsTyped, ThreadsTyped, OutputTyped, Disturbance
             PROVE  LogsTyped' /\ ThreadsTyped' /\ OutputTyped'
  BY DEF Typed
<1> USE DEF files, emitters, process, output, loop
<1>1. CASE InterruptWait
  <2>1. items' \in Seq(Items)
    BY <1>1, ItemTyped DEF InterruptWait, OutputTyped
  <2>2. used' \in [faults : 0..MaxDisturbances, signals : 0..MaxDisturbances]
    BY <1>1, DisturbedTyped DEF InterruptWait
  <2> QED
    BY <1>1, <2>1, <2>2 DEF InterruptWait, LogsTyped, ThreadsTyped, OutputTyped
<1>2. CASE InterruptElsewhere
  <2>1. stream' \in Seq(Recs) /\ kept' \in Seq(Recs) /\ items' \in Seq(Items)
    <3>1. CASE UNCHANGED <<stream, kept, items>>
      BY <3>1 DEF LogsTyped, OutputTyped
    <3>2. ASSUME NEW k \in Kinds, NEW o \in Ofs, InterruptedWrite(k, o)
          PROVE  stream' \in Seq(Recs) /\ kept' \in Seq(Recs) /\ items' \in Seq(Items)
      <4>1. Record(seq, k, o) \in Recs
        BY RecordTyped DEF LogsTyped
      <4>2. stream' \in Seq(Recs) /\ kept' \in Seq(Recs)
        BY <3>2, <4>1, WriteAdds DEF InterruptedWrite
      <4>3. items' \in Seq(Items)
        BY <3>2, ItemTyped DEF InterruptedWrite, OutputTyped
      <4> QED
        BY <4>2, <4>3
    <3> QED
      BY <1>2, <3>1, <3>2, InterruptShape
  <2>2. used' \in [faults : 0..MaxDisturbances, signals : 0..MaxDisturbances]
    BY <1>2, DisturbedTyped DEF InterruptElsewhere
  <2>3. ThreadsTyped'
    BY <1>2, <2>2, LeaveTyped DEF InterruptElsewhere
  <2> QED
    BY <1>2, <2>1, <2>3 DEF InterruptElsewhere, LogsTyped, OutputTyped
<1>3. CASE MainFails
  <2>1. /\ UNCHANGED <<stream, card, seq>> /\ kept' \in Seq(Recs) /\ items' \in Seq(Items)
        /\ Fault
    <3>1. CASE main \in {"popen", "loop", "card"} /\ CallFails
      BY <3>1 DEF CallFails, LogsTyped, OutputTyped
    <3>2. ASSUME NEW k \in Kinds, NEW o \in Ofs, FailedWrite(k, o)
          PROVE  /\ UNCHANGED <<stream, card, seq>> /\ kept' \in Seq(Recs) /\ items' \in Seq(Items)
                 /\ Fault
      <4>1. kept' \in Seq(Recs) /\ UNCHANGED <<stream, card, seq>> /\ Fault
        BY <3>2, RecordTyped, KeepAdds DEF FailedWrite, SaveFails, LogsTyped
      <4>2. items' \in Seq(Items)
        BY <3>2, ItemTyped DEF FailedWrite, OutputTyped
      <4> QED
        BY <4>1, <4>2
    <3>3. \/ main \in {"popen", "loop", "card"} /\ CallFails
          \/ \E k \in Kinds, o \in Ofs : FailedWrite(k, o)
      BY <1>3, FailShape
    <3> QED
      BY <3>1, <3>2, <3>3
  <2>2. used' \in [faults : 0..MaxDisturbances, signals : 0..MaxDisturbances]
    BY <2>1, DisturbedTyped
  <2>3. ThreadsTyped'
    BY <1>3, <2>2, LeaveTyped DEF MainFails
  <2> QED
    BY <1>3, <2>1, <2>3 DEF MainFails, LogsTyped, OutputTyped
<1>4. CASE FlushAtExit
  <2>1. stream' \in Seq(Recs) /\ kept' \in Seq(Recs)
    BY <1>4, FlushTyped DEF FlushAtExit
  <2> QED
    BY <1>4, <2>1 DEF FlushAtExit, LogsTyped, ThreadsTyped, OutputTyped
<1>5. CASE Killed
  <2>1. kept' \in Seq(Recs)
    BY <1>5, EmptySeq DEF Killed
  <2>2. used' \in [faults : 0..MaxDisturbances, signals : 0..MaxDisturbances]
    BY <1>5, DisturbedTyped DEF Killed
  <2> QED
    BY <1>5, <2>1, <2>2 DEF Killed, LogsTyped, ThreadsTyped, OutputTyped, Over
<1> QED
  BY <1>1, <1>2, <1>3, <1>4, <1>5 DEF Disturbance

LEMMA TypedReader ==
    ASSUME Typed, NEW s \in Streams, ReaderStep(s)
    PROVE  Typed'
<1> USE DEF files, emitters, process, output, loop
<1>0. LogsTyped /\ ThreadsTyped /\ OutputTyped
  BY DEF Typed
<1>1. LogsTyped'
  BY <1>0 DEF ReaderStep, ReadLine, ReadEnd, ReadFails, LogsTyped
<1>2. CASE ReadLine(s)
  <2>1. printed[s] - pipe[s] + 1 \in Nat /\ MaxLines \in Nat
    BY <1>0, RunAssumption DEF OutputTyped, RunAssumption
  <2>2. items' \in Seq(Items)
    BY <1>0, <1>2, <2>1, AppendProperties DEF ReadLine, OutputTyped, Items
  <2> QED
    BY <1>0, <1>1, <1>2, <2>1, <2>2 DEF ReadLine, Typed, ThreadsTyped, OutputTyped
<1>3. CASE ReadEnd(s)
  <2>1. items' \in Seq(Items)
    BY <1>0, <1>3, AppendProperties DEF ReadEnd, OutputTyped, Items
  <2> QED
    BY <1>0, <1>1, <1>3, <2>1 DEF ReadEnd, Typed, ThreadsTyped, OutputTyped
<1>4. CASE ReadFails(s)
  <2>1. [kind |-> "error", of |-> 0] \in Items /\ [kind |-> "eof", of |-> 0] \in Items
    BY DEF Items
  <2>2. items' \in Seq(Items)
    BY <1>0, <1>4, <2>1, ConcatProperties DEF ReadFails, OutputTyped
  <2>3. used' \in [faults : 0..MaxDisturbances, signals : 0..MaxDisturbances]
    BY <1>0, <1>4, DisturbedTyped DEF ReadFails
  <2> QED
    BY <1>0, <1>1, <1>4, <2>2, <2>3 DEF ReadFails, Typed, ThreadsTyped, OutputTyped
<1> QED
  BY <1>2, <1>3, <1>4 DEF ReaderStep

LEMMA TypedHandler ==
    ASSUME Typed, NEW c \in Clients, HandlerStep(c)
    PROVE  Typed'
<1> USE DEF files, emitters, process, output, loop
<1>0. LogsTyped /\ ThreadsTyped /\ OutputTyped
  BY DEF Typed
<1>1. OutputTyped'
  BY <1>0 DEF HandlerStep, Accept, Reject, RecordEvent, RecordWarning, EventSaveFails,
              CallbackFails, ReplyTo, OutputTyped
<1>2. {"event", "warn"} \subseteq Kinds /\ c \in Ofs
  BY DEF Kinds, Ofs
<1>3. CASE Accept(c) \/ Reject(c) \/ ReplyTo(c)
  BY <1>0, <1>1, <1>3 DEF Accept, Reject, ReplyTo, Typed, LogsTyped, ThreadsTyped
<1>4. CASE RecordEvent(c) \/ RecordWarning(c) \/ CallbackFails(c)
  <2>1. LogsTyped'
    <3>1. Save("event", c) \/ Save("warn", c)
      BY <1>4 DEF RecordEvent, RecordWarning, CallbackFails
    <3>2. UNCHANGED file
      BY <1>4 DEF RecordEvent, RecordWarning, CallbackFails
    <3> QED
      BY <1>0, <1>2, <3>1, <3>2, SaveTyped DEF LogsTyped
  <2>2. used' \in [faults : 0..MaxDisturbances, signals : 0..MaxDisturbances]
    BY <1>0, <1>4, DisturbedTyped DEF RecordEvent, RecordWarning, CallbackFails, ThreadsTyped
  <2> QED
    BY <1>0, <1>1, <1>4, <2>1, <2>2
    DEF RecordEvent, RecordWarning, CallbackFails, Typed, ThreadsTyped
<1>5. CASE EventSaveFails(c)
  <2>1. LogsTyped' /\ Fault
    <3>1. SaveFails("event", c) \/ SaveFails("warn", c)
      BY <1>5 DEF EventSaveFails
    <3>2. kept' \in Seq(Recs) /\ UNCHANGED <<stream, card, seq>> /\ Fault
      BY <1>0, <1>2, <3>1, RecordTyped, KeepAdds DEF SaveFails, LogsTyped
    <3> QED
      BY <1>0, <1>5, <3>2 DEF EventSaveFails, LogsTyped
  <2>2. used' \in [faults : 0..MaxDisturbances, signals : 0..MaxDisturbances]
    BY <1>0, <2>1, DisturbedTyped
  <2> QED
    BY <1>0, <1>1, <1>5, <2>1, <2>2 DEF EventSaveFails, Typed, ThreadsTyped
<1> QED
  BY <1>3, <1>4, <1>5 DEF HandlerStep

LEMMA TypedExperiment == Typed /\ Experiment => Typed'
<1> SUFFICES ASSUME LogsTyped, ThreadsTyped, OutputTyped, Experiment
             PROVE  LogsTyped' /\ ThreadsTyped' /\ OutputTyped'
  BY DEF Typed
<1> USE DEF files, emitters, process, output, loop
<1>1. LogsTyped'
  BY DEF Experiment, WriteLine, Emit, GiveUp, ChildExits, HeirsEnd, ReadParams, LogsTyped
<1>2. ASSUME NEW s \in Streams, WriteLine(s) PROVE ThreadsTyped' /\ OutputTyped'
  <2>1. MaxLines \in Nat
    BY RunAssumption DEF RunAssumption
  <2>2. printed[s] < MaxLines
    <3>1. printed["stdout"] \in Nat /\ printed["stderr"] \in Nat
      BY DEF OutputTyped, Streams
    <3>2. printed["stdout"] + printed["stderr"] < MaxLines
      BY <1>2 DEF WriteLine
    <3> QED
      BY <2>1, <3>1, <3>2 DEF Streams
  <2>3. printed[s] \in 0..MaxLines /\ pipe[s] \in 0..MaxLines /\ pipe[s] <= printed[s]
    BY DEF OutputTyped
  <2>4. printed[s] + 1 \in 0..MaxLines /\ pipe[s] + 1 \in 0..MaxLines
    BY <2>1, <2>2, <2>3
  <2>5. ThreadsTyped'
    BY <1>2 DEF WriteLine, ThreadsTyped
  <2>6. OutputTyped'
    BY <1>2, <2>3, <2>4 DEF WriteLine, OutputTyped
  <2> QED
    BY <2>5, <2>6
<1>3. ASSUME NEW c \in Clients, Emit(c) \/ GiveUp(c) PROVE ThreadsTyped' /\ OutputTyped'
  <2>1. ThreadsTyped'
    BY <1>3 DEF Emit, GiveUp, ThreadsTyped
  <2>2. OutputTyped'
    BY <1>3 DEF Emit, GiveUp, OutputTyped
  <2> QED
    BY <2>1, <2>2
<1>4. ASSUME NEW how \in {"zero", "nonzero", "signal"}, NEW leaves \in BOOLEAN,
             ChildExits(how, leaves)
      PROVE  ThreadsTyped' /\ OutputTyped'
  <2>1. ThreadsTyped'
    BY <1>4 DEF ChildExits, ThreadsTyped
  <2>2. OutputTyped'
    BY <1>4 DEF ChildExits, OutputTyped
  <2> QED
    BY <2>1, <2>2
<1>5. CASE HeirsEnd \/ ReadParams
  <2>1. ThreadsTyped'
    BY <1>5 DEF HeirsEnd, ReadParams, ThreadsTyped
  <2>2. OutputTyped'
    BY <1>5 DEF HeirsEnd, ReadParams, OutputTyped
  <2> QED
    BY <1>1, <2>1, <2>2
<1> QED
  BY <1>1, <1>2, <1>3, <1>4, <1>5 DEF Experiment

LEMMA TypedStep == Typed /\ [Next]_vars => Typed'
<1>1. Typed /\ UNCHANGED vars => Typed'
  BY DEF vars, files, emitters, process, output, loop, Typed, LogsTyped, ThreadsTyped,
         OutputTyped
<1> QED
  BY <1>1, TypedMain, TypedDisturbance, TypedReader, TypedHandler, TypedExperiment DEF Next

LEMMA TypedAlways == Spec => []Typed
  BY TypedInit, TypedStep, PTL DEF Spec

-----------------------------------------------------------------------------
(* The emitters' connections: record_lock is held by the handler that owes *)
(* a warning and by no other; where execute_run has no socket open, every  *)
(* handler is done; an emitter heard ok only from a handler that is over.  *)
Left       == {"aborting", "aborted", "killed"}
OutOfReach == {"start", "running", "end", "card", "done", "aborted", "killed"}
Handlers ==
    /\ \A c \in Clients : conn[c] = "warning" <=> lock = c
    /\ main \in OutOfReach => HandlersDone /\ socket # "open"
    /\ main \in {"closing", "aborting"} => socket # "open"
    /\ \A c \in Clients : heard[c] = "unsent" => conn[c] = "none"
    /\ \A c \in Clients : heard[c] = "acked" => conn[c] = "over"

LEMMA HandlersInit == Init => Handlers
  BY RunAssumption DEF Init, Handlers, HandlersDone, RunAssumption

(* Out of the with block nothing new is accepted, and no answer is lost    *)
(* that was given.                                                         *)
LEMMA HandlersClose ==
    ASSUME ThreadsTyped, Handlers, CloseSocket, lock' = lock, main' \in {"closing", "aborting"}
    PROVE  Handlers'
  BY DEF ThreadsTyped, Handlers, CloseSocket, Reset, OutOfReach, HandlersDone

LEMMA HandlersLeave ==
    ASSUME ThreadsTyped, Handlers, Leave, lock' = lock, main # "aborting"
    PROVE  Handlers'
<1> USE DEF emitters
<1>1. CASE main \in Serving \cup {"wait"}
  BY <1>1, HandlersClose DEF Leave
<1>2. CASE main = "closing"
  BY <1>2 DEF Leave, Handlers, Serving, OutOfReach, HandlersDone
<1>3. CASE main \notin Serving \cup {"wait", "closing"}
  <2>1. main' = "aborted" /\ UNCHANGED emitters
    BY <1>3 DEF Leave
  <2>2. main \in OutOfReach
    BY <1>3 DEF ThreadsTyped, OutOfReach, Over
  <2> QED
    BY <2>1, <2>2 DEF Handlers, OutOfReach, HandlersDone
<1> QED
  BY <1>1, <1>2, <1>3

LEMMA HandlersStep == ThreadsTyped /\ Handlers /\ [Next]_vars => Handlers'
<1> SUFFICES ASSUME ThreadsTyped, Handlers, [Next]_vars PROVE Handlers'
  OBVIOUS
<1> USE DEF files, emitters, process, output, loop
<1>1. CASE UNCHANGED <<main, socket, conn, heard, lock>>
  BY <1>1 DEF Handlers, HandlersDone
<1>2. CASE MainStep
  <2>1. CASE Heartbeat \/ TakeEnd \/ TakeItem
    BY <1>1, <2>1 DEF Heartbeat, TakeEnd, TakeItem
  <2>2. CASE RecordStart \/ RecordEnd \/ FinalCard
    BY <2>2 DEF RecordStart, RecordEnd, FinalCard, Handlers, OutOfReach, HandlersDone
  <2>3. CASE MarkRunning \/ StartChild \/ WriteParams \/ LeavePipes \/ LeaveLoop
    BY <2>3 DEF MarkRunning, StartChild, WriteParams, LeavePipes, LeaveLoop, Handlers, OutOfReach
  <2>4. CASE LeaveSocket
    BY <2>4, HandlersClose DEF LeaveSocket
  <2>5. CASE SocketClosed
    BY <2>5 DEF SocketClosed, Handlers, OutOfReach, HandlersDone
  <2> QED
    BY <1>2, <2>1, <2>2, <2>3, <2>4, <2>5 DEF MainStep
<1>3. CASE Disturbance
  <2>1. CASE InterruptWait \/ FlushAtExit
    BY <1>1, <2>1 DEF InterruptWait, FlushAtExit
  <2>2. CASE InterruptElsewhere
    BY <2>2, HandlersLeave DEF InterruptElsewhere, Serving
  <2>3. CASE MainFails
    BY <2>3, HandlersLeave DEF MainFails, Serving
  <2>4. CASE Killed
    BY <2>4, RunAssumption DEF Killed, Handlers, OutOfReach, HandlersDone, ThreadsTyped, RunAssumption
  <2> QED
    BY <1>3, <2>1, <2>2, <2>3, <2>4 DEF Disturbance
<1>4. ASSUME NEW s \in Streams, ReaderStep(s) PROVE Handlers'
  BY <1>1, <1>4 DEF ReaderStep, ReadLine, ReadEnd, ReadFails
<1>5. ASSUME NEW c \in Clients, HandlerStep(c) PROVE Handlers'
  <2>1. "free" # c /\ "free" \notin Clients
    BY RunAssumption DEF RunAssumption
  <2>2. CASE Accept(c)
    BY <2>2 DEF Accept, Handlers, ThreadsTyped
  <2>3. CASE conn[c] \in {"reading", "warning", "recorded", "refused"}
    <3>1. main \notin OutOfReach
      BY <2>3 DEF Handlers, HandlersDone
    <3>2. CASE Reject(c)
      BY <3>1, <3>2 DEF Reject, Handlers, ThreadsTyped
    <3>3. CASE RecordEvent(c)
      BY <2>1, <3>1, <3>3 DEF RecordEvent, Handlers, ThreadsTyped
    <3>4. CASE RecordWarning(c)
      BY <2>1, <3>1, <3>4 DEF RecordWarning, Handlers, ThreadsTyped
    <3>5. CASE EventSaveFails(c)
      BY <2>1, <3>1, <3>5 DEF EventSaveFails, Handlers, ThreadsTyped
    <3>6. CASE CallbackFails(c)
      BY <2>1, <3>1, <3>6 DEF CallbackFails, Handlers, ThreadsTyped
    <3>7. CASE ReplyTo(c)
      BY <3>1, <3>7 DEF ReplyTo, Handlers, ThreadsTyped
    <3> QED
      BY <1>5, <2>2, <3>2, <3>3, <3>4, <3>5, <3>6, <3>7 DEF HandlerStep
  <2> QED
    BY <1>5, <2>2, <2>3
    DEF HandlerStep, Reject, RecordEvent, RecordWarning, EventSaveFails, CallbackFails, ReplyTo
<1>6. CASE Experiment
  <2>1. ASSUME NEW s \in Streams, WriteLine(s) PROVE Handlers'
    BY <1>1, <2>1 DEF WriteLine
  <2>2. ASSUME NEW c \in Clients, Emit(c) PROVE Handlers'
    <3>1. "free" # c /\ "free" \notin Clients /\ lock # c
      BY <2>2, RunAssumption DEF RunAssumption, Emit, Handlers
    <3> QED
      BY <2>2, <3>1 DEF Emit, Handlers, ThreadsTyped, HandlersDone
  <2>3. ASSUME NEW c \in Clients, GiveUp(c) PROVE Handlers'
    BY <2>3 DEF GiveUp, Handlers, ThreadsTyped, HandlersDone
  <2>4. ASSUME NEW how \in {"zero", "nonzero", "signal"}, NEW leaves \in BOOLEAN,
               ChildExits(how, leaves)
        PROVE  Handlers'
    BY <1>1, <2>4 DEF ChildExits
  <2>5. CASE HeirsEnd \/ ReadParams
    BY <1>1, <2>5 DEF HeirsEnd, ReadParams
  <2> QED
    BY <1>6, <2>1, <2>2, <2>3, <2>4, <2>5 DEF Experiment
<1>7. CASE UNCHANGED vars
  BY <1>1, <1>7 DEF vars
<1> QED
  BY <1>2, <1>3, <1>4, <1>5, <1>6, <1>7 DEF Next

-----------------------------------------------------------------------------
(* What the steps do to the log.                                           *)

(* The main thread adds no event, and run.start and run.end at their place.*)
MainWrite(r) ==
    /\ Adds(r)
    /\ r.kind # "event"
    /\ r.kind = "start" => main = "start"
    /\ r.kind = "end" => main = "end"

(* The stream takes the whole log with it, or is left alone.               *)
Written == stream' = log' /\ kept' = <<>>
Buffered == stream' = stream /\ kept' # <<>> /\ used'.faults # 0

LEMMA FaultCounts == ThreadsTyped /\ Fault => used'.faults # 0 /\ used'.faults >= used.faults
  BY DEF ThreadsTyped, Fault, Disturbed

LEMMA SaveFailsBuffers ==
    ASSUME LogsTyped, ThreadsTyped, NEW k \in Kinds, NEW o \in Ofs, SaveFails(k, o)
    PROVE  /\ Adds(Record(seq, k, o)) /\ Buffered
           /\ UNCHANGED <<stream, card, seq>>
<1>1. Record(seq, k, o) \in Recs
  BY RecordTyped DEF LogsTyped
<1>2. Adds(Record(seq, k, o))
  BY <1>1, KeepAdds DEF SaveFails
<1>3. kept' # <<>>
  BY <1>1, AppendProperties DEF SaveFails, LogsTyped
<1> QED
  BY <1>2, <1>3, FaultCounts DEF SaveFails, Buffered

LEMMA MainSaves ==
    ASSUME LogsTyped, OutputTyped, RecordStart \/ TakeItem \/ LeavePipes \/ RecordEnd
    PROVE  \E r \in Recs : MainWrite(r) /\ Written /\ r.seq = seq /\ card' = Observe(card, r)
<1>1. PICK k \in Kinds \ {"event"}, o \in Ofs :
          /\ Save(k, o)
          /\ k = "start" => main = "start"
          /\ k = "end" => main = "end" /\ o \in Final
  <2>1. CASE RecordStart
    <3>1. "start" \in Kinds \ {"event"} /\ "run" \in Ofs
      BY DEF Kinds, Ofs
    <3> QED
      BY <2>1, <3>1 DEF RecordStart
  <2>2. CASE TakeItem
    <3>1. /\ Head(items).kind \in Kinds \ {"start", "event", "warn", "end"}
          /\ Head(items).of \in Ofs
      BY <2>2, ItemTyped DEF TakeItem
    <3> QED
      BY <2>2, <3>1 DEF TakeItem
  <2>3. CASE LeavePipes
    <3>1. "warn" \in Kinds \ {"event"} /\ "pipes" \in Ofs
      BY DEF Kinds, Ofs
    <3> QED
      BY <2>3, <3>1 DEF LeavePipes
  <2>4. CASE RecordEnd
    <3>1. "end" \in Kinds \ {"event"} /\ EndState \in Ofs
      BY EndStateFinal DEF Kinds, Ofs
    <3> QED
      BY <2>4, <3>1, EndStateFinal DEF RecordEnd
  <2> QED
    BY <2>1, <2>2, <2>3, <2>4
<1> DEFINE r == Record(seq, k, o)
<1>2. Adds(r) /\ Written /\ r \in Recs
  BY <1>1, SaveTyped, RecordTyped DEF Written, LogsTyped
<1>3. r.kind = k /\ r.seq = seq /\ card' = Observe(card, r)
  BY <1>1 DEF Record, Save
<1>4. MainWrite(r)
  BY <1>1, <1>2, <1>3 DEF MainWrite
<1> QED
  BY <1>2, <1>3, <1>4

LEMMA MainBreaks ==
    ASSUME LogsTyped, ThreadsTyped, OutputTyped, InterruptElsewhere \/ MainFails
    PROVE  \/ UNCHANGED <<stream, kept>>
           \/ \E r \in Recs : MainWrite(r) /\ (Written \/ Buffered)
<1>1. ASSUME NEW k \in Kinds, NEW o \in Ofs, InterruptedWrite(k, o)
      PROVE  \E r \in Recs : MainWrite(r) /\ Written
  <2> DEFINE r == Record(seq, k, o)
  <2>1. r \in Recs /\ r.kind = k
    BY RecordTyped DEF LogsTyped, Record
  <2>2. Adds(r) /\ Written
    BY <1>1, <2>1, WriteAdds DEF InterruptedWrite, Written
  <2> QED
    BY <1>1, <2>1, <2>2 DEF MainWrite, InterruptedWrite
<1>2. ASSUME NEW k \in Kinds, NEW o \in Ofs, FailedWrite(k, o)
      PROVE  \E r \in Recs : MainWrite(r) /\ Buffered
  <2> DEFINE r == Record(seq, k, o)
  <2>1. r \in Recs /\ r.kind = k
    BY RecordTyped DEF LogsTyped, Record
  <2>2. Adds(r) /\ Buffered
    BY <1>2, SaveFailsBuffers DEF FailedWrite
  <2> QED
    BY <1>2, <2>1, <2>2 DEF MainWrite, FailedWrite
<1>3. CASE InterruptElsewhere
  BY <1>1, <1>3, InterruptShape
<1>4. CASE MainFails
  BY <1>2, <1>4, FailShape DEF CallFails
<1> QED
  BY <1>3, <1>4

(* A write never shortens the stream, and the log goes on from it.         *)
LEMMA LogGrows ==
    ASSUME LogsTyped, NEW r, Adds(r), Written \/ Buffered
    PROVE  Len(stream) <= Len(stream') /\ Len(stream') <= Len(log')
  BY LogTyped DEF Adds, Written, Buffered

-----------------------------------------------------------------------------
(* The event of an emitter is written at most once, not before its handler *)
(* is at it, and it is in the stream once the handler answers ok.          *)
IsEvent(i, c) == log[i].kind = "event" /\ log[i].of = c
Pending(c)    == conn[c] \in {"none", "queued", "reading"}
Stored(c)     == conn[c] \in {"warning", "recorded"} \/ heard[c] = "acked"
Once(c) ==
    /\ \A i, k \in 1..Len(log) : IsEvent(i, c) /\ IsEvent(k, c) => i = k
    /\ Pending(c) => \A i \in 1..Len(log) : ~IsEvent(i, c)
    /\ Stored(c) => \E i \in 1..Len(stream) : IsEvent(i, c)
Events == \A c \in Clients : Once(c)

(* The stream only grows, within the log, and what is new is no event.     *)
Extends ==
    /\ Len(stream) <= Len(stream') /\ Len(stream') <= Len(log')
    /\ Len(stream') \in Nat /\ Len(log') \in Nat
    /\ \A i \in 1..Len(stream) : log'[i] = log[i]
NoEvent ==
    /\ Extends
    /\ \A i \in 1..Len(log') :
          (i \in 1..Len(log) /\ log'[i] = log[i]) \/ log'[i].kind # "event"

LEMMA SameNoEvent == LogsTyped /\ UNCHANGED <<stream, kept>> => NoEvent
  BY LogTyped, LogSame DEF NoEvent, Extends

LEMMA AddsExtends ==
    ASSUME LogsTyped, NEW r, Adds(r), Written \/ Buffered
    PROVE  Extends
<1>1. /\ Len(stream) \in Nat /\ Len(log) \in Nat /\ Len(stream) <= Len(log)
  BY LogTyped
<1>2. Len(stream) <= Len(stream') /\ Len(stream') <= Len(log') /\ Len(stream') \in Nat
  BY <1>1, LogGrows DEF Written, Buffered, Adds
<1> QED
  BY <1>1, <1>2 DEF Extends, Adds

LEMMA AddsNoEvent ==
    ASSUME LogsTyped, NEW r, Adds(r), Written \/ Buffered, r.kind # "event"
    PROVE  NoEvent
<1>1. Extends /\ Len(log) \in Nat
  BY AddsExtends, LogTyped
<1> QED
  BY <1>1 DEF NoEvent, Adds

LEMMA FlushNoEvent == LogsTyped /\ FlushAtExit => NoEvent
<1> SUFFICES ASSUME LogsTyped, FlushAtExit PROVE NoEvent
  OBVIOUS
<1>1. log' = log /\ stream' = log
  BY FlushTyped DEF FlushAtExit
<1> QED
  BY <1>1, LogTyped DEF NoEvent, Extends

LEMMA KilledNoEvent == LogsTyped /\ Killed => NoEvent /\ log' = stream
<1> SUFFICES ASSUME LogsTyped, Killed PROVE NoEvent /\ log' = stream
  OBVIOUS
<1>1. log' = stream /\ stream' = stream
  BY ConcatEmptySeq DEF Killed, log, LogsTyped
<1> QED
  BY <1>1, LogTyped DEF NoEvent, Extends

LEMMA MainNoEvent ==
    ASSUME LogsTyped, ThreadsTyped, OutputTyped, MainStep \/ InterruptElsewhere \/ MainFails
    PROVE  NoEvent
<1>1. CASE RecordStart \/ TakeItem \/ LeavePipes \/ RecordEnd
  BY <1>1, MainSaves, AddsNoEvent DEF MainWrite
<1>2. CASE MainStep /\ ~(RecordStart \/ TakeItem \/ LeavePipes \/ RecordEnd)
  <2>1. UNCHANGED <<stream, kept>>
    BY <1>2 DEF MainStep, MarkRunning, StartChild, WriteParams, Heartbeat, TakeEnd, LeaveLoop,
                LeaveSocket, SocketClosed, FinalCard, files
  <2> QED
    BY <2>1, SameNoEvent
<1>3. CASE InterruptElsewhere \/ MainFails
  BY <1>3, MainBreaks, SameNoEvent, AddsNoEvent DEF MainWrite
<1> QED
  BY <1>1, <1>2, <1>3

LEMMA OnceKept ==
    ASSUME LogsTyped, NoEvent, NEW c \in Clients, Once(c),
           Pending(c)' => Pending(c), Stored(c)' => Stored(c)
    PROVE  Once(c)'
<1>1. /\ Len(stream) \in Nat /\ Len(log) \in Nat /\ Len(stream) <= Len(log)
  BY LogTyped
<1>2. \A i \in 1..Len(log') : IsEvent(i, c)' => i \in 1..Len(log) /\ IsEvent(i, c)
  BY DEF NoEvent, IsEvent
<1>3. \A i \in 1..Len(stream) : IsEvent(i, c) => i \in 1..Len(stream') /\ IsEvent(i, c)'
  BY <1>1 DEF NoEvent, Extends, IsEvent
<1> QED
  BY <1>2, <1>3 DEF Once

LEMMA OnceAdded ==
    ASSUME LogsTyped, NEW c \in Clients, Once(c), Pending(c), ~Pending(c)',
           NEW r, Adds(r), r.kind = "event", r.of = c, Written \/ Buffered,
           Stored(c)' => Written
    PROVE  Once(c)'
<1>1. Len(log) \in Nat
  BY LogTyped
<1>2. \A i \in 1..Len(log') : IsEvent(i, c)' => i = Len(log) + 1
  <2> SUFFICES ASSUME NEW i \in 1..Len(log'), log'[i].kind = "event", log'[i].of = c,
                      i # Len(log) + 1
               PROVE  FALSE
    BY DEF IsEvent
  <2>1. i \in 1..Len(log) /\ log'[i] = log[i]
    BY <1>1 DEF Adds
  <2> QED
    BY <2>1 DEF Once, IsEvent
<1>3. log'[Len(log) + 1].kind = "event" /\ log'[Len(log) + 1].of = c
  BY DEF Adds
<1>4. Written => Len(log) + 1 \in 1..Len(stream')
  BY <1>1 DEF Written, Adds
<1>5. Stored(c)' => \E i \in 1..Len(stream') : IsEvent(i, c)'
  BY <1>3, <1>4 DEF IsEvent
<1> QED
  BY <1>2, <1>5 DEF Once

LEMMA EventsInit == Init => Events
<1> SUFFICES ASSUME Init PROVE Events
  OBVIOUS
<1>1. log = <<>>
  BY ConcatEmptySeq, EmptySeq DEF Init, log
<1>2. Len(log) = 0
  BY <1>1, EmptySeq
<1> QED
  BY <1>2 DEF Init, Events, Once, Stored

LEMMA EventsStep == Typed /\ Handlers /\ Events /\ [Next]_vars => Events'
<1> SUFFICES ASSUME LogsTyped, ThreadsTyped, OutputTyped, Handlers, Events, [Next]_vars PROVE Events'
  BY DEF Typed
<1> USE DEF files, emitters, process, output, loop
<1>1. CASE /\ NoEvent
           /\ \A d \in Clients : (Pending(d)' => Pending(d)) /\ (Stored(d)' => Stored(d))
  BY <1>1, OnceKept DEF Events
<1>2. CASE UNCHANGED <<stream, kept, conn, heard>>
  BY <1>1, <1>2, SameNoEvent DEF Pending, Stored
<1>3. ASSUME CloseSocket
      PROVE  \A d \in Clients : (Pending(d)' => Pending(d)) /\ (Stored(d)' => Stored(d))
  BY <1>3 DEF CloseSocket, Reset, Pending, Stored, ThreadsTyped
<1>4. CASE MainStep
  <2>1. CASE LeaveSocket
    BY <1>1, <1>3, <1>4, <2>1, MainNoEvent DEF LeaveSocket
  <2>2. CASE ~LeaveSocket
    <3>1. UNCHANGED <<conn, heard>>
      BY <1>4, <2>2 DEF MainStep, RecordStart, MarkRunning, StartChild, WriteParams, Heartbeat,
             TakeEnd, TakeItem, LeavePipes, LeaveLoop, SocketClosed, RecordEnd, FinalCard
    <3> QED
      BY <1>1, <1>4, <3>1, MainNoEvent DEF Pending, Stored
  <2> QED
    BY <2>1, <2>2
<1>5. CASE InterruptElsewhere \/ MainFails
  <2>1. Leave
    BY <1>5 DEF InterruptElsewhere, MainFails
  <2>2. CloseSocket \/ UNCHANGED <<conn, heard>>
    BY <2>1 DEF Leave
  <2> QED
    BY <1>1, <1>3, <1>5, <2>2, MainNoEvent DEF Pending, Stored
<1>6. CASE Disturbance /\ ~(InterruptElsewhere \/ MainFails)
  <2>1. CASE InterruptWait
    BY <1>2, <2>1 DEF InterruptWait
  <2>2. CASE FlushAtExit
    <3>1. UNCHANGED <<conn, heard>>
      BY <2>2 DEF FlushAtExit
    <3> QED
      BY <1>1, <2>2, <3>1, FlushNoEvent DEF Pending, Stored
  <2>3. CASE Killed
    <3>1. \A d \in Clients : (Pending(d)' => Pending(d)) /\ (Stored(d)' => Stored(d))
      BY <2>3 DEF Killed, Pending, Stored, ThreadsTyped
    <3> QED
      BY <1>1, <2>3, <3>1, KilledNoEvent
  <2> QED
    BY <1>6, <2>1, <2>2, <2>3 DEF Disturbance
<1>7. ASSUME NEW s \in Streams, ReaderStep(s) PROVE Events'
  BY <1>2, <1>7 DEF ReaderStep, ReadLine, ReadEnd, ReadFails
<1>8. ASSUME NEW c \in Clients, HandlerStep(c) PROVE Events'
  <2>0. {"event", "warn"} \subseteq Kinds /\ c \in Ofs
    BY DEF Kinds, Ofs
  <2> DEFINE r == Record(seq, "event", c)
             w == Record(seq, "warn", c)
  <2>1. r.kind = "event" /\ r.of = c /\ w.kind = "warn"
    BY DEF Record
  <2> HIDE DEF r, w
  <2>2. CASE Accept(c) \/ Reject(c) \/ ReplyTo(c)
    <3>1. UNCHANGED <<stream, kept>>
      BY <2>2 DEF Accept, Reject, ReplyTo
    <3>2. \A d \in Clients : (Pending(d)' => Pending(d)) /\ (Stored(d)' => Stored(d))
      BY <2>2 DEF Accept, Reject, ReplyTo, Pending, Stored, ThreadsTyped
    <3> QED
      BY <1>1, <3>1, <3>2, SameNoEvent
  <2>3. CASE RecordWarning(c)
    <3>1. Adds(w) /\ Written
      BY <2>0, <2>3, SaveTyped DEF RecordWarning, Written, w
    <3>2. \A d \in Clients : (Pending(d)' => Pending(d)) /\ (Stored(d)' => Stored(d))
      BY <2>3 DEF RecordWarning, Pending, Stored, ThreadsTyped
    <3> QED
      BY <1>1, <2>1, <3>1, <3>2, AddsNoEvent
  <2>4. CASE conn[c] = "warning" /\ SaveFails("warn", c) /\ EventSaveFails(c)
    <3>1. Adds(w) /\ Buffered
      BY <2>0, <2>4, SaveFailsBuffers DEF w
    <3>2. \A d \in Clients : (Pending(d)' => Pending(d)) /\ (Stored(d)' => Stored(d))
      BY <2>4 DEF EventSaveFails, Pending, Stored, ThreadsTyped
    <3> QED
      BY <1>1, <2>1, <3>1, <3>2, AddsNoEvent
  <2>5. CASE \/ RecordEvent(c) \/ CallbackFails(c)
             \/ conn[c] = "reading" /\ SaveFails("event", c) /\ EventSaveFails(c)
    <3>1. /\ Adds(r)
          /\ RecordEvent(c) \/ CallbackFails(c) => Written
          /\ ~(RecordEvent(c) \/ CallbackFails(c)) => Buffered
      <4>1. CASE RecordEvent(c) \/ CallbackFails(c)
        BY <2>0, <4>1, SaveTyped DEF RecordEvent, CallbackFails, Written, r
      <4>2. CASE ~(RecordEvent(c) \/ CallbackFails(c))
        BY <2>0, <2>5, <4>2, SaveFailsBuffers DEF r
      <4> QED
        BY <4>1, <4>2
    <3>2. /\ Pending(c) /\ ~Pending(c)'
          /\ Stored(c)' => Stored(c) \/ RecordEvent(c)
      BY <2>5 DEF RecordEvent, CallbackFails, EventSaveFails, Pending, Stored, ThreadsTyped
    <3>3. ~Stored(c) 
      BY <3>2, LogTyped DEF Events, Once
    <3>4. Once(c)'
      BY <2>1, <3>1, <3>2, <3>3, OnceAdded DEF Events
    <3>5. ASSUME NEW d \in Clients, d # c PROVE Once(d)'
      <4>1. (Pending(d)' => Pending(d)) /\ (Stored(d)' => Stored(d))
        BY <2>5, <3>5 DEF RecordEvent, CallbackFails, EventSaveFails, Pending, Stored, ThreadsTyped
      <4>2. Extends /\ Len(log) \in Nat /\ Len(stream) \in Nat
        BY <3>1, AddsExtends, LogTyped
      <4>3. \A i \in 1..Len(log') : IsEvent(i, d)' => i \in 1..Len(log) /\ IsEvent(i, d)
        BY <2>1, <3>1, <3>5, <4>2 DEF Adds, IsEvent
      <4>4. \A i \in 1..Len(stream) : IsEvent(i, d) => i \in 1..Len(stream') /\ IsEvent(i, d)'
        BY <4>2 DEF Extends, IsEvent
      <4> QED
        BY <4>1, <4>3, <4>4 DEF Events, Once
    <3> QED
      BY <3>4, <3>5 DEF Events
  <2> QED
    BY <1>8, <2>2, <2>3, <2>4, <2>5 DEF HandlerStep, EventSaveFails
<1>9. CASE Experiment
  <2>1. UNCHANGED <<stream, kept>>
    BY <1>9 DEF Experiment, WriteLine, Emit, GiveUp, ChildExits, HeirsEnd, ReadParams
  <2>2. \A d \in Clients : (Pending(d)' => Pending(d)) /\ (Stored(d)' => Stored(d))
    <3>1. CASE UNCHANGED <<conn, heard>>
      BY <3>1 DEF Pending, Stored
    <3>2. ASSUME NEW c \in Clients, Emit(c) \/ GiveUp(c)
          PROVE  \A d \in Clients : (Pending(d)' => Pending(d)) /\ (Stored(d)' => Stored(d))
      BY <3>2 DEF Emit, GiveUp, Pending, Stored, ThreadsTyped, Handlers
    <3> QED
      BY <1>9, <3>1, <3>2 DEF Experiment, WriteLine, ChildExits, HeirsEnd, ReadParams
  <2> QED
    BY <1>1, <2>1, <2>2, SameNoEvent
<1>10. CASE UNCHANGED vars
  BY <1>2, <1>10 DEF vars
<1> QED
  BY <1>4, <1>5, <1>6, <1>7, <1>8, <1>9, <1>10 DEF Next, Disturbance

(* event_socket.py:35: an emitter that heard ok has its event in           *)
(* events.jsonl, and has it there once, however the writes of other        *)
(* threads, failed writes, Ctrl-C and SIGKILL fall between.                *)
THEOREM AckedIsRecordedOnce == Spec => []AckedIsRecorded
<1>1. Typed /\ Events => AckedIsRecorded
  <2> SUFFICES ASSUME Typed, Events, NEW c \in Clients, heard[c] = "acked"
               PROVE  Cardinality(RecordsOf("event", c)) = 1
    BY DEF AckedIsRecorded
  <2>1. PICK i \in 1..Len(stream) : IsEvent(i, c)
    BY DEF Events, Once, Stored
  <2>2. \A k \in 1..Len(stream) : stream[k] = log[k] /\ k \in 1..Len(log)
    BY LogTyped DEF Typed
  <2>3. RecordsOf("event", c) = {i}
    BY <2>1, <2>2 DEF RecordsOf, Events, Once, IsEvent
  <2> QED
    BY <2>3, FS_Singleton
<1> QED
  BY <1>1, TypedAlways, HandlersInit, HandlersStep, EventsInit, EventsStep, PTL DEF Spec, Typed

-----------------------------------------------------------------------------
(* run.start opens the log and run.end closes it; the card is final from   *)
(* run.end on, and run.json once the last card is written.                 *)
Closed == {"card", "done"}
Gone   == {"aborted", "killed"}
Edges ==
    /\ main = "start" => Len(log) = 0
    /\ \A i \in 1..Len(log) : log[i].kind = "start" => i = 1
    /\ main \notin {"start"} \cup Gone => Len(stream) > 0 /\ log[1].kind = "start"
    /\ \A i \in 1..Len(log) :
          log[i].kind = "end" => i = Len(log) /\ main \in Closed \cup Gone
    /\ main \in Closed =>
          /\ kept = <<>> /\ log[Len(log)].kind = "end"
          /\ log[Len(log)].of = card.state /\ card.state \in Final
    /\ card.state \in Final => main \in Closed \cup Gone
    /\ file.state \in Final => main = "done"
    /\ main = "done" => file = card

LEMMA EdgesInit == Init => Edges
<1> SUFFICES ASSUME Init PROVE Edges
  OBVIOUS
<1>1. log = <<>>
  BY ConcatEmptySeq, EmptySeq DEF Init, log
<1>2. Len(log) = 0
  BY <1>1, EmptySeq
<1> QED
  BY <1>2 DEF Init, Edges, NoCard, Final, Closed

(* Between the two edges a record is added.                                *)
LEMMA EdgesAdded ==
    ASSUME LogsTyped, Edges, NEW r, Adds(r), Written \/ Buffered,
           main \notin {"start"} \cup Closed \cup Gone, main' \notin {"start", "done"},
           r.kind # "start",
           r.kind = "end" => main' \in {"card", "aborted"},
           main' = "card" => r.kind = "end" /\ Written /\ card'.state = r.of /\ r.of \in Final,
           card'.state \in Final => main' \in {"card", "aborted"},
           file'.state = file.state
    PROVE  Edges'
<1>1. /\ Len(log) \in Nat /\ Len(stream) \in Nat /\ Len(stream) <= Len(log)
      /\ Len(stream) > 0 /\ Len(stream) <= Len(stream')
      /\ Len(stream') \in Nat /\ Len(log') = Len(log) + 1
  BY LogTyped, AddsExtends DEF Edges, Extends, Adds
<1>2. \A i \in 1..Len(log') :
         \/ i \in 1..Len(log) /\ log'[i] = log[i]
         \/ i = Len(log') /\ log'[i] = r
  BY <1>1 DEF Adds
<1>3. \A i \in 1..Len(log') : log'[i].kind = "start" => i = 1
  BY <1>2 DEF Edges
<1>4. Len(stream') > 0 /\ log'[1].kind = "start"
  BY <1>1 DEF Edges, Adds
<1>5. \A i \in 1..Len(log') :
         log'[i].kind = "end" => i = Len(log') /\ main' \in Closed \cup Gone
  BY <1>2 DEF Edges, Closed, Gone
<1>6. main' \in Closed => /\ kept' = <<>> /\ log'[Len(log')].kind = "end"
                          /\ log'[Len(log')].of = card'.state /\ card'.state \in Final
  BY <1>1 DEF Closed, Adds, Written
<1>7. file'.state \notin Final /\ card'.state \in Final => main' \in Closed \cup Gone
  BY DEF Edges, Closed, Gone
<1>8. file.state \notin Final
  BY DEF Edges, Closed
<1> QED
  BY <1>3, <1>4, <1>5, <1>6, <1>7, <1>8 DEF Edges, Gone, Closed

(* Where nothing is written the edges only depend on main and the cards.   *)
LEMMA EdgesSame ==
    ASSUME LogsTyped, Edges, UNCHANGED <<stream, kept>>,
           main' = "start" => main = "start",
           main = "start" => main' \in {"start"} \cup Gone,
           main \in Gone => main' \in Gone,
           main \in Closed => main' \in Closed \cup Gone,
           main' \in Closed => main \in Closed /\ card' = card,
           card'.state \in Final => card.state \in Final,
           file'.state \in Final => main' = "done",
           main' = "done" => file' = card'
    PROVE  Edges'
  BY LogSame DEF Edges, Closed, Gone

LEMMA EdgesMain == Typed /\ Edges /\ MainStep => Edges'
<1> SUFFICES ASSUME LogsTyped, ThreadsTyped, OutputTyped, Edges, MainStep PROVE Edges'
  BY DEF Typed
<1> USE DEF files, emitters, process, output, loop
<1>0. /\ Len(log) \in Nat /\ Len(stream) \in Nat /\ Len(stream) <= Len(log)
      /\ kept = <<>> => log = stream
  BY LogTyped
<1>1. CASE RecordStart
  <2>1. "start" \in Kinds /\ "run" \in Ofs /\ "run" \notin Final
    BY DEF Kinds, Ofs, Final
  <2> DEFINE r == Record(seq, "start", "run")
  <2>2. Adds(r) /\ stream' = log' /\ card' = Observe(card, r)
    BY <1>1, <2>1, SaveTyped DEF RecordStart, Save
  <2>3. Len(log) = 0 /\ main' = "running" /\ file' = card' /\ card'.state = "provisioning"
    BY <1>1, <2>2 DEF RecordStart, Edges, Observe, Record
  <2>4. Len(log') = 1 /\ log'[1] = r /\ r.kind = "start"
    BY <2>2, <2>3 DEF Adds, Record
  <2> QED
    BY <2>2, <2>3, <2>4 DEF Edges, Closed, Gone, Final
<1>2. CASE TakeItem \/ LeavePipes
  <2>1. PICK r \in Recs : MainWrite(r) /\ Written /\ card' = Observe(card, r)
    BY <1>2, MainSaves
  <2>2. main = "loop" /\ main' \in {"loop", "wait"} /\ file' = file
    BY <1>2 DEF TakeItem, LeavePipes
  <2>3. r.kind \notin {"start", "end"} /\ card'.state = card.state
    BY <2>1, <2>2 DEF MainWrite, Observe
  <2> QED
    BY <2>1, <2>2, <2>3, EdgesAdded DEF MainWrite, Closed, Gone, Edges
<1>3. CASE RecordEnd
  <2>1. "end" \in Kinds /\ EndState \in Ofs /\ EndState \in Final
    BY EndStateFinal DEF Kinds, Ofs
  <2> DEFINE r == Record(seq, "end", EndState)
  <2>2. Adds(r) /\ Written /\ card' = Observe(card, r)
    BY <1>3, <2>1, SaveTyped DEF RecordEnd, Save, Written
  <2>3. r.kind = "end" /\ r.of = EndState /\ card'.state = r.of
    BY <2>2 DEF Record, Observe
  <2>4. main = "end" /\ main' = "card" /\ file' = file
    BY <1>3 DEF RecordEnd
  <2> HIDE DEF r
  <2> QED
    BY <2>1, <2>2, <2>3, <2>4, EdgesAdded DEF Closed, Gone
<1>4. CASE FinalCard
  BY <1>4, EdgesSame DEF FinalCard, WriteCard, Closed, Gone
<1>5. CASE Heartbeat
  BY <1>5, EdgesSame DEF Heartbeat, WriteCard, Edges, Closed, Gone
<1>6. CASE MarkRunning
  <2>1. card'.state = "running" /\ file' = card'
    BY <1>6 DEF MarkRunning, LogsTyped, Cards
  <2> QED
    BY <1>6, <2>1, EdgesSame DEF MarkRunning, Closed, Gone, Final
<1>7. CASE StartChild \/ WriteParams \/ TakeEnd \/ LeaveLoop \/ LeaveSocket \/ SocketClosed
  <2>1. /\ UNCHANGED <<stream, kept, card, file>>
        /\ main \notin {"start"} \cup Closed \cup Gone
        /\ main' \notin {"start"} \cup Closed
    BY <1>7 DEF StartChild, WriteParams, TakeEnd, LeaveLoop, LeaveSocket, SocketClosed, Closed, Gone
  <2>2. file.state \notin Final
    BY <2>1 DEF Edges, Closed
  <2> QED
    BY <2>1, <2>2, EdgesSame DEF Closed, Gone
<1> QED
  BY <1>1, <1>2, <1>3, <1>4, <1>5, <1>6, <1>7 DEF MainStep

LEMMA EdgesBreak ==
    ASSUME LogsTyped, ThreadsTyped, OutputTyped, Edges, InterruptElsewhere \/ MainFails
    PROVE  Edges'
<1>0. /\ Len(log) \in Nat /\ Len(stream) \in Nat /\ Len(stream) <= Len(log)
  BY LogTyped
<1>1. /\ main' \in {"aborting", "aborted"} /\ UNCHANGED <<card, file>>
      /\ main \notin Gone \cup {"done"}
      /\ main \in {"start", "end", "card"} => main' = "aborted"
  <2>1. Leave /\ UNCHANGED <<card, file>> /\ main \notin Gone \cup {"done"}
    BY DEF InterruptElsewhere, MainFails, SaveFails, CallFails, Serving, Gone
  <2> QED
    BY <2>1 DEF Leave, Serving
<1>2. file.state \notin Final
  BY <1>1 DEF Edges
<1>3. CASE UNCHANGED <<stream, kept>>
  BY <1>1, <1>2, <1>3, EdgesSame DEF Closed, Gone
<1>4. ASSUME NEW r \in Recs, MainWrite(r), Written \/ Buffered, main # "start", main # "card"
      PROVE  Edges'
  <2>1. card'.state \in Final => FALSE
    BY <1>1, <1>4 DEF Edges, Closed, Gone
  <2> QED
    BY <1>1, <1>4, <2>1, EdgesAdded DEF MainWrite, Closed, Gone
<1>5. ASSUME NEW r \in Recs, MainWrite(r), Written \/ Buffered, main = "start"
      PROVE  Edges'
  <2>1. Len(log) = 0 /\ Len(log') = 1 /\ r.kind # "end" /\ log'[1] = r
    BY <1>5 DEF Edges, MainWrite, Adds
  <2>2. card'.state \notin Final
    BY <1>1, <1>5 DEF Edges, Closed, Gone
  <2> QED
    BY <1>1, <1>2, <1>5, <2>1, <2>2 DEF Edges, Closed, Gone
<1>6. CASE main = "card"
  <2>1. UNCHANGED <<stream, kept>>
    BY <1>6 DEF InterruptElsewhere, MainFails, CallFails
  <2> QED
    BY <1>3, <2>1
<1> QED
  BY <1>3, <1>4, <1>5, <1>6, MainBreaks

LEMMA EdgesHandler ==
    ASSUME LogsTyped, ThreadsTyped, Handlers, Edges, NEW c \in Clients, HandlerStep(c)
    PROVE  Edges'
<1> USE DEF files, emitters, process, output, loop
<1>1. UNCHANGED <<main, file>>
  BY DEF HandlerStep, Accept, Reject, RecordEvent, RecordWarning, EventSaveFails, CallbackFails,
         ReplyTo
<1>2. CASE Accept(c) \/ Reject(c) \/ ReplyTo(c)
  <2>1. UNCHANGED <<stream, kept, card>>
    BY <1>2 DEF Accept, Reject, ReplyTo
  <2> QED
    BY <1>1, <2>1, EdgesSame DEF Edges, Closed, Gone
<1>3. CASE RecordEvent(c) \/ RecordWarning(c) \/ CallbackFails(c) \/ EventSaveFails(c)
  <2>1. conn[c] \in {"reading", "warning"}
    BY <1>3 DEF RecordEvent, RecordWarning, CallbackFails, EventSaveFails
  <2>2. main \notin {"start"} \cup Closed \cup Gone
    BY <2>1 DEF Handlers, HandlersDone, OutOfReach, Closed, Gone
  <2>3. PICK k \in {"event", "warn"} : Save(k, c) \/ SaveFails(k, c)
    BY <1>3 DEF RecordEvent, RecordWarning, CallbackFails, EventSaveFails
  <2>4. k \in Kinds /\ c \in Ofs
    BY DEF Kinds, Ofs
  <2> DEFINE r == Record(seq, k, c)
  <2>5. Adds(r) /\ (Written \/ Buffered)
    BY <2>3, <2>4, SaveTyped, SaveFailsBuffers DEF Written
  <2>6. r.kind = k
    BY DEF Record
  <2>7. card'.state = card.state
    BY <2>3, <2>6 DEF Save, SaveFails, Observe
  <2>8. card.state \notin Final
    BY <2>2 DEF Edges
  <2> HIDE DEF r
  <2> QED
    BY <1>1, <2>2, <2>5, <2>6, <2>7, <2>8, EdgesAdded DEF Closed, Gone
<1> QED
  BY <1>2, <1>3 DEF HandlerStep

LEMMA EdgesStep == Typed /\ Handlers /\ Edges /\ [Next]_vars => Edges'
<1> SUFFICES ASSUME LogsTyped, ThreadsTyped, OutputTyped, Handlers, Edges, [Next]_vars
             PROVE  Edges'
  BY DEF Typed
<1> USE DEF files, emitters, process, output, loop
<1>1. CASE UNCHANGED <<main, stream, kept, card, file>>
  BY <1>1, EdgesSame DEF Edges, Closed, Gone
<1>2. CASE FlushAtExit
  <2>1. log' = log /\ main = "aborted" /\ UNCHANGED <<main, card, file>>
    BY <1>2, FlushTyped DEF FlushAtExit
  <2> QED
    BY <2>1 DEF Edges, Closed, Gone
<1>3. CASE Killed
  <2>1. /\ log' = stream /\ main' = "killed" /\ UNCHANGED <<card, file>>
        /\ main # "done"
    BY <1>3, KilledNoEvent DEF Killed, Over
  <2>2. /\ Len(log) \in Nat /\ Len(stream) \in Nat /\ Len(stream) <= Len(log)
        /\ \A i \in 1..Len(stream) : stream[i] = log[i]
    BY LogTyped
  <2>3. file'.state \notin Final
    BY <2>1 DEF Edges
  <2>4. \A i \in 1..Len(log') : log'[i].kind = "start" => i = 1
    BY <2>1, <2>2 DEF Edges
  <2>5. \A i \in 1..Len(log') : log'[i].kind = "end" => i = Len(log')
    BY <2>1, <2>2 DEF Edges
  <2> QED
    BY <2>1, <2>3, <2>4, <2>5 DEF Edges, Closed, Gone
<1>4. ASSUME NEW s \in Streams, ReaderStep(s) PROVE Edges'
  BY <1>1, <1>4 DEF ReaderStep, ReadLine, ReadEnd, ReadFails
<1>5. CASE InterruptWait \/ Experiment
  BY <1>1, <1>5 DEF InterruptWait, Experiment, WriteLine, Emit, GiveUp, ChildExits, HeirsEnd,
                    ReadParams
<1>6. CASE UNCHANGED vars
  BY <1>1, <1>6 DEF vars
<1> QED
  BY <1>2, <1>3, <1>4, <1>5, <1>6, EdgesMain, EdgesBreak, EdgesHandler
  DEF Next, Disturbance, Typed

LEMMA TypedHandlersAlways == Spec => [](Typed /\ Handlers)
  BY TypedAlways, HandlersInit, HandlersStep, PTL DEF Spec, Typed
LEMMA EdgesAlways == Spec => []Edges
  BY TypedHandlersAlways, EdgesInit, EdgesStep, PTL DEF Spec

(* protocol.py closes the run with run.end: whoever held the lock, waited  *)
(* in the queue or left a line in the file's buffer, no record comes after *)
(* it, not even when the process ends after a failure.                     *)
THEOREM NothingIsRecordedAfterEnd == Spec => NothingAfterEnd
<1>1. Typed /\ Handlers /\ Edges /\ [Next]_vars => [Ended => stream' = stream]_vars
  <2> SUFFICES ASSUME LogsTyped, ThreadsTyped, OutputTyped, Handlers, Edges, Next, Ended
               PROVE  stream' = stream
    BY DEF Typed
  <2> USE DEF files, emitters, process, output, loop
  <2>1. /\ Len(log) = Len(stream) + Len(kept) /\ Len(kept) \in Nat
        /\ Len(stream) \in 1..Len(log) /\ log[Len(stream)].kind = "end"
    <3>1. stream[Len(stream)].kind = "end" /\ Len(stream) # 0
      BY DEF Ended, Last, LogsTyped
    <3> QED
      BY <3>1, LogTyped
  <2>2. main \in Closed \cup Gone /\ Len(stream) = Len(log)
    BY <2>1 DEF Edges
  <2>3. kept = <<>>
    BY <2>1, <2>2, EmptySeq DEF LogsTyped
  <2>4. ASSUME NEW c \in Clients, HandlerStep(c) PROVE stream' = stream
    <3>1. conn[c] \in {"none", "over"}
      BY <2>2 DEF Handlers, HandlersDone, OutOfReach, Closed, Gone
    <3> QED
      BY <2>4, <3>1 DEF HandlerStep, Accept, Reject, RecordEvent, RecordWarning, EventSaveFails,
                        CallbackFails, ReplyTo
  <2>5. CASE MainStep \/ Disturbance
    BY <2>2, <2>3, <2>5
    DEF MainStep, RecordStart, MarkRunning, StartChild, WriteParams, Heartbeat, TakeEnd, TakeItem,
        LeavePipes, LeaveLoop, LeaveSocket, SocketClosed, RecordEnd, FinalCard, Disturbance,
        InterruptWait, InterruptElsewhere, MainFails, CallFails, SaveFails, FlushAtExit, Killed,
        Closed, Gone, Serving
  <2>6. ASSUME NEW s \in Streams, ReaderStep(s) PROVE stream' = stream
    BY <2>6 DEF ReaderStep, ReadLine, ReadEnd, ReadFails
  <2>7. CASE Experiment
    BY <2>7 DEF Experiment, WriteLine, Emit, GiveUp, ChildExits, HeirsEnd, ReadParams
  <2> QED
    BY <2>4, <2>5, <2>6, <2>7 DEF Next
<1> QED
  BY <1>1, TypedHandlersAlways, EdgesAlways, PTL DEF Spec, NothingAfterEnd

-----------------------------------------------------------------------------
(* The card and the numbers, as long as no call has failed: the card is    *)
(* the fold of the stream until the main thread leaves, run.json never     *)
(* holds a record that the stream does not.                                *)
Leads(s, t) == Len(s) <= Len(t) /\ \A i \in 1..Len(s) : s[i] = t[i]
Follows ==
    /\ kept = <<>>
    /\ Leads(file.folded, stream)
    /\ main \notin Left =>
          /\ card.folded = stream
          /\ seq = Len(stream)
          /\ \A i \in 1..Len(stream) : stream[i].seq = i - 1
CardFollows == used.faults = 0 => Follows

LEMMA LeadsIsPrefix ==
    ASSUME NEW s \in Seq(Recs), NEW t \in Seq(Recs), Leads(s, t)
    PROVE  IsPrefix(s, t)
<1>1. Len(s) \in Nat /\ Len(t) \in Nat /\ Len(s) <= Len(t)
  BY DEF Leads
<1>2. CASE Len(s) = 0
  <2>1. SubSeq(s, 1, Len(s)) = <<>> /\ SubSeq(t, 1, Len(s)) = <<>>
    BY <1>2, SubSeqEmpty
  <2> QED
    BY <1>1, <2>1 DEF IsPrefix
<1>3. CASE Len(s) > 0
  <2>1. SubSeq(s, 1, Len(s)) = s
    BY SubSeqFull
  <2>2. /\ SubSeq(t, 1, Len(s)) \in Seq(Recs) /\ Len(SubSeq(t, 1, Len(s))) = Len(s)
        /\ \A i \in 1..Len(s) : SubSeq(t, 1, Len(s))[i] = t[i]
    BY <1>1, <1>3, SubSeqProperties
  <2>3. SubSeq(t, 1, Len(s)) = s
    BY <2>2, SeqEqual DEF Leads
  <2> QED
    BY <1>1, <2>1, <2>3 DEF IsPrefix
<1> QED
  BY <1>1, <1>2, <1>3

LEMMA CardFollowsInit == Init => CardFollows
<1> SUFFICES ASSUME Init PROVE CardFollows
  OBVIOUS
<1>1. stream = <<>> /\ Len(stream) = 0 /\ file.folded = <<>> /\ card.folded = <<>>
  BY EmptySeq DEF Init, NoCard
<1> QED
  BY <1>1 DEF Init, CardFollows, Follows, Leads

(* A saved record is counted and folded.                                   *)
LEMMA FollowsSave ==
    ASSUME LogsTyped, Follows, NEW k \in Kinds, NEW o \in Ofs, Save(k, o),
           k = "end" => o \in Final,
           main' \notin Left => main \notin Left, file' = file \/ (file' = card' /\ main \notin Left)
    PROVE  Follows'
<1> DEFINE r == Record(seq, k, o)
<1>1. log = stream /\ kept' = <<>> /\ stream' = Append(stream, r) /\ r \in Recs
  BY LogTyped, SaveTyped, RecordTyped DEF Follows, LogsTyped
<1>2. /\ Len(stream) \in Nat /\ Len(stream') = Len(stream) + 1
      /\ \A i \in 1..Len(stream) : stream'[i] = stream[i]
      /\ stream'[Len(stream) + 1] = r
  BY <1>1, AppendFacts DEF LogsTyped
<1>3. card'.folded = Append(card.folded, r) /\ seq' = seq + 1 /\ r.seq = seq
  BY DEF Save, Observe, Record
<1>4. Leads(file'.folded, stream')
  <2>1. CASE file' = file
    BY <1>2, <2>1 DEF Follows, Leads, LogsTyped, Cards
  <2>2. CASE file' = card' /\ main \notin Left
    <3>1. card.folded = stream
      BY <2>2 DEF Follows
    <3>2. file'.folded = stream'
      BY <1>1, <1>3, <2>2, <3>1
    <3> QED
      BY <1>2, <3>2 DEF Leads
  <2> QED
    BY <2>1, <2>2
<1>5. ASSUME main' \notin Left
      PROVE  /\ card'.folded = stream' /\ seq' = Len(stream')
             /\ \A i \in 1..Len(stream') : stream'[i].seq = i - 1
  <2>1. /\ card.folded = stream /\ seq = Len(stream)
        /\ \A i \in 1..Len(stream) : stream[i].seq = i - 1
    BY <1>5 DEF Follows
  <2>2. \A i \in 1..Len(stream') : i \in 1..Len(stream) \/ i = Len(stream) + 1
    BY <1>2
  <2> HIDE DEF r
  <2> QED
    BY <1>1, <1>2, <1>3, <2>1, <2>2
<1> QED
  BY <1>1, <1>4, <1>5 DEF Follows

(* Where nothing is written, run.json may take the card that is due.       *)
LEMMA FollowsSame ==
    ASSUME LogsTyped, Follows, UNCHANGED <<stream, kept, seq>>, card'.folded = card.folded,
           main' \notin Left => main \notin Left,
           file'.folded = file.folded \/ (file'.folded = card.folded /\ main \notin Left)
    PROVE  Follows'
  BY DEF Follows, Leads, LogsTyped, Cards

(* Failing calls are counted and never forgotten.                          *)
LEMMA FaultsGrow ==
    ASSUME ThreadsTyped, [Next]_vars, used'.faults = 0
    PROVE  used.faults = 0 /\ ~Fault
<1>1. ~Fault
  BY FaultCounts
<1>2. CASE Signal
  BY <1>1, <1>2 DEF Signal, Disturbed, ThreadsTyped
<1>3. Signal \/ used' = used
  BY <1>1 DEF Next, MainStep, RecordStart, MarkRunning, StartChild, WriteParams, Heartbeat,
      TakeEnd, TakeItem, LeavePipes, LeaveLoop, LeaveSocket, SocketClosed, RecordEnd, FinalCard,
      Disturbance, InterruptWait, InterruptElsewhere, MainFails, CallFails, SaveFails,
      FlushAtExit, Killed, ReaderStep, ReadLine, ReadEnd, ReadFails, HandlerStep, Accept, Reject,
      RecordEvent, RecordWarning, EventSaveFails, CallbackFails, ReplyTo,
      Experiment, WriteLine, Emit, GiveUp, ChildExits, HeirsEnd, ReadParams, vars
<1> QED
  BY <1>1, <1>2, <1>3

LEMMA CardFollowsStep == Typed /\ Handlers /\ CardFollows /\ [Next]_vars => CardFollows'
<1> SUFFICES ASSUME LogsTyped, ThreadsTyped, OutputTyped, Handlers, CardFollows, [Next]_vars,
                    used'.faults = 0
             PROVE  Follows'
  BY DEF Typed, CardFollows
<1> USE DEF files, emitters, process, output, loop
<1>1. used.faults = 0 /\ ~Fault
  BY FaultsGrow
<1>2. Follows
  BY <1>1 DEF CardFollows
<1>3. CASE UNCHANGED <<main, stream, kept, seq, card, file>>
  <2>1. card'.folded = card.folded /\ file'.folded = file.folded
    BY <1>3
  <2> QED
    BY <1>2, <1>3, <2>1, FollowsSame DEF Left
<1>4. CASE RecordStart
  <2>1. "start" \in Kinds /\ "run" \in Ofs
    BY DEF Kinds, Ofs
  <2> QED
    BY <1>2, <1>4, <2>1, FollowsSave DEF RecordStart, Left
<1>5. CASE TakeItem
  BY <1>2, <1>5, ItemTyped, FollowsSave DEF TakeItem, Left
<1>6. CASE LeavePipes
  <2>1. "warn" \in Kinds /\ "pipes" \in Ofs
    BY DEF Kinds, Ofs
  <2> QED
    BY <1>2, <1>6, <2>1, FollowsSave DEF LeavePipes, Left
<1>7. CASE RecordEnd
  <2>1. "end" \in Kinds /\ EndState \in Ofs
    BY EndStateFinal DEF Kinds, Ofs
  <2> QED
    BY <1>2, <1>7, <2>1, EndStateFinal, FollowsSave DEF RecordEnd, Left
<1>8. CASE MarkRunning \/ Heartbeat \/ FinalCard
  <2>1. /\ UNCHANGED <<stream, kept, seq>> /\ main \notin Left
        /\ card'.folded = card.folded /\ file'.folded = card.folded
    BY <1>8 DEF MarkRunning, Heartbeat, FinalCard, WriteCard, Left, LogsTyped, Cards
  <2> QED
    BY <1>2, <2>1, FollowsSame
<1>9. CASE StartChild \/ WriteParams \/ TakeEnd \/ LeaveLoop \/ LeaveSocket \/ SocketClosed
  <2>1. UNCHANGED <<stream, kept, seq, card, file>> /\ (main' \notin Left => main \notin Left)
    BY <1>9 DEF StartChild, WriteParams, TakeEnd, LeaveLoop, LeaveSocket, SocketClosed, Left
  <2>2. card'.folded = card.folded /\ file'.folded = file.folded
    BY <2>1
  <2> QED
    BY <1>2, <2>1, <2>2, FollowsSame DEF Left
<1>10. CASE InterruptElsewhere
  <2>1. UNCHANGED <<seq, card, file>> /\ main' \in Left
    BY <1>10, LeaveTyped, DisturbedTyped DEF InterruptElsewhere, Left
  <2>2. CASE UNCHANGED <<stream, kept>>
    BY <1>2, <2>1, <2>2 DEF Follows
  <2>3. ASSUME NEW r \in Recs, Adds(r), Written PROVE Follows'
    <3>1. Extends /\ log = stream /\ Len(stream) \in Nat
      BY <1>2, <2>3, AddsExtends, LogTyped DEF Follows
    <3>2. /\ Len(file.folded) \in Nat /\ Len(file.folded) <= Len(stream)
          /\ \A i \in 1..Len(file.folded) : file.folded[i] = stream[i]
      BY <1>2 DEF Follows, Leads, LogsTyped, Cards
    <3>3. Leads(file.folded, stream')
      BY <2>3, <3>1, <3>2 DEF Extends, Written, Leads
    <3> QED
      BY <2>1, <2>3, <3>3 DEF Follows, Written
  <2> QED
    BY <1>1, <1>10, <2>2, <2>3, MainBreaks, FaultCounts DEF MainWrite, Buffered
<1>11. CASE FlushAtExit \/ MainFails
  BY <1>1, <1>2, <1>11 DEF FlushAtExit, Follows, MainFails, CallFails, SaveFails
<1>12. CASE Killed
  BY <1>2, <1>12 DEF Killed, Follows, Left
<1>13. ASSUME NEW s \in Streams, ReaderStep(s) PROVE Follows'
  BY <1>3, <1>13 DEF ReaderStep, ReadLine, ReadEnd, ReadFails
<1>14. ASSUME NEW c \in Clients, HandlerStep(c) PROVE Follows'
  <2>1. CASE Accept(c) \/ Reject(c) \/ ReplyTo(c)
    BY <1>3, <2>1 DEF Accept, Reject, ReplyTo
  <2>2. CASE RecordEvent(c) \/ RecordWarning(c)
    <3>1. PICK k \in {"event", "warn"} : Save(k, c)
      BY <2>2 DEF RecordEvent, RecordWarning
    <3>2. k \in Kinds /\ c \in Ofs /\ UNCHANGED <<main, file>>
      BY <2>2 DEF RecordEvent, RecordWarning, Kinds, Ofs
    <3> QED
      BY <1>2, <3>1, <3>2, FollowsSave DEF Left
  <2> QED
    BY <1>1, <1>14, <2>1, <2>2 DEF HandlerStep, CallbackFails, EventSaveFails, SaveFails
<1>15. CASE InterruptWait \/ Experiment
  BY <1>3, <1>15 DEF InterruptWait, Experiment, WriteLine, Emit, GiveUp, ChildExits, HeirsEnd,
                    ReadParams
<1>16. CASE UNCHANGED vars
  BY <1>3, <1>16 DEF vars
<1> QED
  BY <1>4, <1>5, <1>6, <1>7, <1>8, <1>9, <1>10, <1>11, <1>12, <1>13, <1>14, <1>15, <1>16
  DEF Next, MainStep, Disturbance

LEMMA CardFollowsAlways == Spec => []CardFollows
  BY TypedHandlersAlways, CardFollowsInit, CardFollowsStep, PTL DEF Spec

(* verify.py _records: a finished run has run.start first, run.end last,   *)
(* neither of them anywhere else, and, where no write failed, the numbers  *)
(* 0, 1, 2, ... in order although three kinds of threads draw them.        *)
THEOREM FinishedRunsPassTheAudit == Spec => []AuditPasses
<1>1. Typed /\ Edges /\ CardFollows => AuditPasses
  <2> SUFFICES ASSUME LogsTyped, Edges, CardFollows, main = "done"
               PROVE  Lifecycle(stream) /\ (used.faults = 0 => Contiguous(stream))
    BY DEF AuditPasses, Typed
  <2>1. log = stream /\ Len(stream) > 0 /\ Len(stream) \in Nat
    BY LogTyped DEF Edges, Closed, Gone
  <2>2. /\ stream[1].kind = "start" /\ stream[Len(stream)].kind = "end"
        /\ \A i \in 1..Len(stream) : /\ stream[i].kind = "start" => i = 1
                                     /\ stream[i].kind = "end" => i = Len(stream)
    BY <2>1 DEF Edges, Closed, Gone
  <2>3. stream # <<>>
    BY <2>1
  <2>4. Lifecycle(stream)
    BY <2>1, <2>2, <2>3 DEF Lifecycle
  <2> QED
    BY <2>4 DEF CardFollows, Follows, Contiguous, Left
<1> QED
  BY <1>1, TypedAlways, EdgesAlways, CardFollowsAlways, PTL

(* run.json, which CardProjection writes, is never ahead of events.jsonl:  *)
(* it folds a prefix of it, and a final state in it is that of the run.end *)
(* in the stream.                                                          *)
THEOREM CardNeverAhead == Spec => []CardFollowsStream
<1>1. Typed /\ Edges /\ CardFollows => CardFollowsStream
  <2> SUFFICES ASSUME LogsTyped, Edges, CardFollows PROVE CardFollowsStream
    BY DEF Typed
  <2>1. used.faults = 0 => IsPrefix(file.folded, stream)
    BY LeadsIsPrefix DEF CardFollows, Follows, LogsTyped, Cards
  <2>2. ASSUME main = "done"
        PROVE  Ended /\ Last(stream).of = file.state /\ file.state \in Final
    <3>1. log = stream /\ Len(stream) > 0 /\ Len(stream) \in Nat
      BY <2>2, LogTyped DEF Edges, Closed, Gone
    <3>2. stream # <<>>
      BY <3>1
    <3> QED
      BY <2>2, <3>1, <3>2 DEF Edges, Closed, Ended, Last
  <2>3. main = "done" /\ used.faults = 0 => file.folded = stream
    BY DEF CardFollows, Follows, Left, Edges
  <2> QED
    BY <2>1, <2>2, <2>3 DEF CardFollowsStream, Edges
<1> QED
  BY <1>1, TypedAlways, EdgesAlways, CardFollowsAlways, PTL

-----------------------------------------------------------------------------
(* A suspect result is the last record only under the lock of its handler, *)
(* unless the runner was killed there.                                     *)
Warns ==
    /\ \A i \in 1..Len(stream) :
          stream[i].kind = "event" /\ stream[i].of \in Results => seenResult
    /\ Len(stream) > 0 /\ Suspect(Len(stream)) =>
          main = "killed" \/ lock = stream[Len(stream)].of
    /\ lock # "free" => /\ Len(stream) > 0 /\ stream[Len(stream)].kind = "event"
                        /\ stream[Len(stream)].of = lock
    /\ \A i \in 1..(Len(stream) - 1) :
          Suspect(i) => stream[i + 1].kind = "warn" /\ stream[i + 1].of = stream[i].of
Warned == used.faults = 0 => Warns

LEMMA WarnedInit == Init => Warned
<1> SUFFICES ASSUME Init PROVE Warned
  OBVIOUS
<1>1. stream = <<>> /\ Len(stream) = 0
  BY EmptySeq DEF Init
<1> QED
  BY <1>1 DEF Init, Warned, Warns

LEMMA WarnsSame ==
    ASSUME LogsTyped, Warns, stream' = stream, main = "killed" => main' = "killed",
           lock' = lock \/ (lock' = "free" /\ main' = "killed"), seenResult' = seenResult
    PROVE  Warns'
<1>1. \A i \in 1..Len(stream) : Suspect(i)' <=> Suspect(i)
  BY DEF Suspect, Repeated
<1>2. Len(stream) \in Nat
  BY LogTyped
<1> QED
  BY <1>1, <1>2 DEF Warns

LEMMA WarnsAdded ==
    ASSUME LogsTyped, Follows, Warns, NEW r \in Recs, Adds(r), Written, main # "killed",
           lock = "free" \/ (r.kind = "warn" /\ r.of = lock),
           lock' # "free" => r.kind = "event" /\ lock' = r.of,
           r.kind = "event" =>
              /\ r.of \in Results => seenResult'
              /\ r.of \in Undeclared \/ (r.of \in Results /\ seenResult) => lock' = r.of,
           seenResult => seenResult'
    PROVE  Warns'
<1> PICK n \in Nat : n = Len(stream)
  BY LogTyped
<1>1. /\ Len(stream') = n + 1 /\ stream'[n + 1] = r
      /\ \A i \in 1..n : stream'[i] = stream[i]
  BY LogTyped DEF Follows, Adds, Written
<1>2. \A i \in 1..n : Suspect(i)' <=> Suspect(i)
  <2> SUFFICES ASSUME NEW i \in 1..n PROVE Suspect(i)' <=> Suspect(i)
    OBVIOUS
  <2>1. \A k \in 1..(i - 1) : stream'[k] = stream[k]
    BY <1>1
  <2>2. Repeated(i)' <=> Repeated(i)
    BY <2>1 DEF Repeated
  <2> QED
    BY <1>1, <2>2 DEF Suspect
<1>3. Suspect(n + 1)' => lock' = r.of
  <2>1. Repeated(n + 1)' => seenResult
    BY <1>1 DEF Repeated, Warns
  <2> QED
    BY <1>1, <2>1 DEF Suspect
<1>4. n > 0 /\ Suspect(n) => r.kind = "warn" /\ r.of = stream[n].of
  <2>1. Suspect(n) => stream[n].of # "free"
    BY RunAssumption DEF Suspect, RunAssumption
  <2> QED
    BY <2>1 DEF Warns
<1>5. \A i \in 1..(n + 1) :
         stream'[i].kind = "event" /\ stream'[i].of \in Results => seenResult'
  BY <1>1 DEF Warns
<1>6. \A i \in 1..n :
         Suspect(i)' => stream'[i + 1].kind = "warn" /\ stream'[i + 1].of = stream'[i].of
  <2> SUFFICES ASSUME NEW i \in 1..n, Suspect(i)
               PROVE  stream'[i + 1].kind = "warn" /\ stream'[i + 1].of = stream'[i].of
    BY <1>2
  <2>1. CASE i = n
    BY <1>1, <1>4, <2>1
  <2>2. CASE i # n
    BY <1>1, <2>2 DEF Warns
  <2> QED
    BY <2>1, <2>2
<1>7. (lock # "free")' => /\ Len(stream') > 0 /\ stream'[Len(stream')].kind = "event"
                          /\ stream'[Len(stream')].of = lock'
  BY <1>1
<1>8. Suspect(Len(stream))' => lock' = stream'[Len(stream')].of
  BY <1>1, <1>3 DEF Suspect, Repeated
<1>9. Len(stream') - 1 = n
  BY <1>1
<1> QED
  BY <1>1, <1>5, <1>6, <1>7, <1>8, <1>9 DEF Warns

LEMMA WarnedStep ==
    Typed /\ Handlers /\ CardFollows /\ Warned /\ [Next]_vars => Warned'
<1> SUFFICES ASSUME LogsTyped, ThreadsTyped, OutputTyped, Handlers, CardFollows, Warned,
                    [Next]_vars, used'.faults = 0
             PROVE  Warns'
  BY DEF Typed, Warned
<1> USE DEF files, emitters, process, output, loop
<1>1. ~Fault /\ Follows /\ Warns
  BY FaultsGrow DEF CardFollows, Warned
<1>2. CASE UNCHANGED <<stream, lock, seenResult>> /\ (main = "killed" => main' = "killed")
  BY <1>1, <1>2, WarnsSame
<1>3. main \in OutOfReach => lock = "free"
  BY DEF Handlers, HandlersDone, ThreadsTyped
<1>4. ASSUME NEW r \in Recs, MainWrite(r), Written, lock = "free", UNCHANGED <<lock, seenResult>>,
             main # "killed"
      PROVE  Warns'
  BY <1>1, <1>4, WarnsAdded DEF MainWrite
<1>5. CASE RecordStart \/ TakeItem \/ LeavePipes \/ RecordEnd
  <2>1. UNCHANGED <<lock, seenResult>> /\ main # "killed"
    BY <1>5 DEF RecordStart, TakeItem, LeavePipes, RecordEnd
  <2>2. lock = "free"
    BY <1>3, <1>5 DEF RecordStart, TakeItem, LeavePipes, RecordEnd, OutOfReach
  <2> QED
    BY <1>4, <1>5, <2>1, <2>2, MainSaves
<1>6. CASE MainStep /\ ~(RecordStart \/ TakeItem \/ LeavePipes \/ RecordEnd)
  BY <1>2, <1>6 DEF MainStep, MarkRunning, StartChild, WriteParams, Heartbeat, TakeEnd, LeaveLoop,
                    LeaveSocket, CloseSocket, SocketClosed, FinalCard
<1>7. CASE InterruptElsewhere
  <2>1. UNCHANGED <<lock, seenResult>> /\ main # "killed"
    BY <1>7 DEF InterruptElsewhere, Serving, Leave, CloseSocket
  <2>2. CASE UNCHANGED <<stream, kept>>
    BY <1>2, <2>1, <2>2
  <2>3. CASE ~UNCHANGED <<stream, kept>>
    <3>1. main \in {"loop", "end"} /\ (main = "loop" => lock = "free")
      BY <1>7, <2>3 DEF InterruptElsewhere
    <3>2. lock = "free"
      BY <1>3, <3>1 DEF OutOfReach
    <3>3. PICK r \in Recs : MainWrite(r) /\ (Written \/ Buffered)
      BY <1>7, <2>3, MainBreaks
    <3>4. Written
      BY <3>3 DEF Buffered
    <3> QED
      BY <1>4, <2>1, <3>2, <3>3, <3>4
  <2> QED
    BY <2>2, <2>3
<1>8. CASE InterruptWait \/ MainFails \/ FlushAtExit
  <2>1. InterruptWait
    BY <1>1, <1>8 DEF MainFails, CallFails, SaveFails, FlushAtExit, Follows
  <2> QED
    BY <1>2, <2>1 DEF InterruptWait
<1>9. CASE Killed
  BY <1>1, <1>9, WarnsSame DEF Killed
<1>10. ASSUME NEW s \in Streams, ReaderStep(s) PROVE Warns'
  BY <1>2, <1>10 DEF ReaderStep, ReadLine, ReadEnd, ReadFails
<1>11. ASSUME NEW c \in Clients, HandlerStep(c) PROVE Warns'
  <2>0. {"event", "warn"} \subseteq Kinds /\ c \in Ofs /\ c # "free"
    BY RunAssumption DEF Kinds, Ofs, RunAssumption
  <2> DEFINE r == Record(seq, "event", c)
             w == Record(seq, "warn", c)
  <2>1. /\ r.kind = "event" /\ r.of = c /\ w.kind = "warn" /\ w.of = c
        /\ r \in Recs /\ w \in Recs
    BY <2>0, RecordTyped DEF Record, LogsTyped
  <2> HIDE DEF r, w
  <2>2. CASE Accept(c) \/ Reject(c) \/ ReplyTo(c)
    BY <1>2, <2>2 DEF Accept, Reject, ReplyTo
  <2>3. CASE RecordEvent(c)
    <3>1. Adds(r) /\ Written
      BY <2>0, <2>3, SaveTyped DEF RecordEvent, Written, r
    <3>2. main # "killed"
      BY <2>3 DEF RecordEvent, Handlers, HandlersDone, OutOfReach
    <3>3. /\ lock = "free" /\ lock' \in {"free", c}
          /\ seenResult => seenResult'
          /\ c \in Results => seenResult'
          /\ c \in Undeclared \/ (c \in Results /\ seenResult) => lock' = c
      BY <2>3 DEF RecordEvent, NeedsWarning
    <3> QED
      BY <1>1, <2>1, <3>1, <3>2, <3>3, WarnsAdded
  <2>4. CASE RecordWarning(c)
    <3>1. Adds(w) /\ Written
      BY <2>0, <2>4, SaveTyped DEF RecordWarning, Written, w
    <3>2. main # "killed" /\ lock = c
      BY <2>4 DEF RecordWarning, Handlers, HandlersDone, OutOfReach
    <3>3. lock' = "free" /\ seenResult' = seenResult
      BY <2>4 DEF RecordWarning
    <3> QED
      BY <1>1, <2>1, <3>1, <3>2, <3>3, WarnsAdded
  <2> QED
    BY <1>1, <1>11, <2>2, <2>3, <2>4 DEF HandlerStep, CallbackFails, EventSaveFails, SaveFails
<1>12. CASE Experiment
  BY <1>2, <1>12 DEF Experiment, WriteLine, Emit, GiveUp, ChildExits, HeirsEnd, ReadParams
<1>13. CASE UNCHANGED vars
  BY <1>2, <1>13 DEF vars
<1> QED
  BY <1>5, <1>6, <1>7, <1>8, <1>9, <1>10, <1>11, <1>12, <1>13 DEF Next, Disturbance

(* record_payload holds record_lock over a result and its warning: no line *)
(* of output and no other emitter's event comes between the two.           *)
THEOREM WarningsFollowAtOnce == Spec => []WarningFollows
<1>1. Warned => WarningFollows
  BY DEF Warned, Warns, WarningFollows
<1> QED
  BY <1>1, TypedHandlersAlways, CardFollowsAlways, WarnedInit, WarnedStep, PTL DEF Spec

-----------------------------------------------------------------------------
(* The ends of the readers: each over reader has put one end on the queue, *)
(* of which the main loop counts each at most once.                        *)
Early     == {"start", "running", "popen"}
IsEof(i)  == items[i].kind = "eof"
Overs     == (IF reader["stdout"] = "over" THEN 1 ELSE 0) + (IF reader["stderr"] = "over" THEN 1 ELSE 0)
NoEof     == \A i \in 1..Len(items) : ~IsEof(i)
OneEof    == \A i, k \in 1..Len(items) : IsEof(i) /\ IsEof(k) => i = k
TwoEofs   == \A i, j, k \in 1..Len(items) :
                IsEof(i) /\ IsEof(j) /\ IsEof(k) => i = j \/ j = k \/ i = k
Ends ==
    /\ finished \in 0..Overs
    /\ finished = Overs => NoEof
    /\ finished + 1 = Overs => OneEof
    /\ TwoEofs
    /\ Overs = 2 /\ items # <<>> => IsEof(Len(items))
    /\ main \in Early => \A s \in Streams : reader[s] = "none"

LEMMA OversTyped == Overs \in 0..2
  BY DEF Overs

LEMMA EndsInit == Init => Ends
<1> SUFFICES ASSUME Init PROVE Ends
  OBVIOUS
<1>1. items = <<>> /\ Len(items) = 0 /\ Overs = 0
  BY EmptySeq DEF Init, Overs, Streams
<1> QED
  BY <1>1 DEF Init, Ends, NoEof, OneEof, TwoEofs, Streams

(* An item leaves the queue, which may be an end.                          *)
LEMMA EndsTail ==
    ASSUME OutputTyped, Ends, items # <<>>, items' = Tail(items), reader' = reader,
           main' \in Early => main \in Early,
           \/ finished' = finished
           \/ finished' = finished + 1 /\ Head(items).kind = "eof"
    PROVE  Ends'
<1>1. /\ Len(items) \in Nat /\ Len(items) > 0 /\ Len(items') = Len(items) - 1
      /\ \A i \in 1..Len(items') : items'[i] = items[i + 1]
      /\ Head(items) = items[1]
  BY HeadTailProperties, EmptySeq DEF OutputTyped
<1>2. \A i \in 1..Len(items') : i + 1 \in 1..Len(items) /\ i + 1 # 1 /\ (IsEof(i)' <=> IsEof(i + 1))
  BY <1>1 DEF IsEof
<1>3. Overs' = Overs /\ Overs \in 0..2 /\ finished \in Nat
  BY OversTyped DEF Overs, Ends
<1>4. NoEof => NoEof'
  BY <1>2 DEF NoEof
<1>5. OneEof => OneEof' /\ (Head(items).kind = "eof" => NoEof')
  <2>1. OneEof => OneEof'
    BY <1>2 DEF OneEof
  <2>2. OneEof /\ Head(items).kind = "eof" => NoEof'
    BY <1>1, <1>2 DEF OneEof, NoEof, IsEof
  <2> QED
    BY <2>1, <2>2
<1>6. TwoEofs' /\ (Head(items).kind = "eof" => OneEof')
  <2>1. TwoEofs'
    <3> SUFFICES ASSUME NEW i \in 1..Len(items'), NEW j \in 1..Len(items'), NEW k \in 1..Len(items'),
                        IsEof(i)', IsEof(j)', IsEof(k)'
                 PROVE  i = j \/ j = k \/ i = k
      BY DEF TwoEofs
    <3>1. i + 1 = j + 1 \/ j + 1 = k + 1 \/ i + 1 = k + 1
      BY <1>2 DEF Ends, TwoEofs
    <3> QED
      BY <3>1
  <2>2. ASSUME Head(items).kind = "eof" PROVE OneEof'
    <3> SUFFICES ASSUME NEW i \in 1..Len(items'), NEW k \in 1..Len(items'), IsEof(i)', IsEof(k)'
                 PROVE  i = k
      BY DEF OneEof
    <3>1. IsEof(1) /\ 1 \in 1..Len(items)
      BY <1>1, <2>2 DEF IsEof
    <3>2. 1 = i + 1 \/ i + 1 = k + 1 \/ 1 = k + 1
      BY <1>2, <3>1 DEF Ends, TwoEofs
    <3> QED
      BY <3>2
  <2> QED
    BY <2>1, <2>2
<1>7. items' # <<>> /\ IsEof(Len(items)) => items'[Len(items')].kind = "eof"
  <2> SUFFICES ASSUME items' # <<>>, IsEof(Len(items)) PROVE items'[Len(items')].kind = "eof"
    OBVIOUS
  <2>1. Len(items') # 0
    BY <1>1, EmptySeq, HeadTailProperties DEF OutputTyped
  <2> QED
    BY <1>1, <2>1 DEF IsEof
<1>8. Overs = 2 /\ items' # <<>> => IsEof(Len(items))'
  BY <1>7 DEF Ends, IsEof
<1>9. CASE finished' = finished
  BY <1>3, <1>4, <1>5, <1>6, <1>8, <1>9 DEF Ends
<1>10. CASE finished' = finished + 1 /\ Head(items).kind = "eof"
  <2>1. finished # Overs
    BY <1>1, <1>10 DEF Ends, NoEof, IsEof
  <2> QED
    BY <1>3, <1>5, <1>6, <1>8, <1>10, <2>1 DEF Ends
<1> QED
  BY <1>9, <1>10

(* The queue grows by items that are no ends, and by the end of a reader   *)
(* that is over now.                                                       *)
Longer ==
    /\ Len(items) \in Nat /\ Len(items') \in Nat /\ Len(items) < Len(items')
    /\ \A i \in 1..Len(items) : items'[i] = items[i]

LEMMA EndsLine ==
    ASSUME Ends, NEW s \in Streams, reader[s] = "reading", UNCHANGED <<main, reader, finished>>,
           Longer, \A i \in 1..Len(items') : i \in 1..Len(items) \/ ~IsEof(i)'
    PROVE  Ends'
<1>1. Overs' = Overs /\ Overs # 2
  BY DEF Overs, Streams
<1>2. \A i \in 1..Len(items') : IsEof(i)' => i \in 1..Len(items) /\ IsEof(i)
  BY DEF Longer, IsEof
<1>3. (NoEof => NoEof') /\ (OneEof => OneEof') /\ TwoEofs'
  BY <1>2 DEF NoEof, OneEof, TwoEofs, Ends
<1> QED
  BY <1>1, <1>3 DEF Ends

LEMMA EndsOver ==
    ASSUME OutputTyped, Ends, NEW s \in Streams, reader[s] = "reading",
           reader' = [reader EXCEPT ![s] = "over"], UNCHANGED <<main, finished>>, Longer,
           \A i \in 1..Len(items') : i \in 1..Len(items) \/ i = Len(items') \/ ~IsEof(i)',
           IsEof(Len(items))'
    PROVE  Ends'
<1>1. Overs' = Overs + 1 /\ Overs \in 0..1 /\ finished \in 0..Overs
  BY DEF Overs, Streams, OutputTyped, Ends
<1>2. \A i \in 1..Len(items') : IsEof(i)' => i = Len(items') \/ (i \in 1..Len(items) /\ IsEof(i))
  BY DEF Longer, IsEof
<1>3. (NoEof => OneEof') /\ (OneEof => TwoEofs') /\ (NoEof => OneEof)
  BY <1>2 DEF NoEof, OneEof, TwoEofs
<1>4. finished = Overs \/ finished + 1 = Overs
  BY <1>1
<1>5. TwoEofs' /\ (finished = Overs => OneEof')
  BY <1>3, <1>4 DEF Ends
<1>6. main \notin Early
  BY DEF Ends
<1> QED
  BY <1>1, <1>5, <1>6 DEF Ends

LEMMA LineShape ==
    ASSUME OutputTyped, NEW s \in Streams, ReadLine(s)
    PROVE  /\ Longer /\ Len(items') = Len(items) + 1
           /\ items'[Len(items) + 1] = [kind |-> s, of |-> printed[s] - pipe[s] + 1]
<1>1. items \in Seq(Items) /\ [kind |-> s, of |-> printed[s] - pipe[s] + 1] \in Items
  BY RunAssumption DEF OutputTyped, Items, RunAssumption
<1> QED
  BY <1>1, AppendProperties DEF ReadLine, Longer

LEMMA OverShape ==
    ASSUME OutputTyped, NEW s \in Streams, ReadEnd(s) \/ ReadFails(s)
    PROVE  /\ Longer /\ items'[Len(items')].kind = "eof"
           /\ \A i \in 1..Len(items') :
                 i \in 1..Len(items) \/ i = Len(items') \/ items'[i].kind = "error"
           /\ ReadFails(s) => \E i \in 1..Len(items') : items'[i].kind = "error"
<1> DEFINE eof == [kind |-> "eof", of |-> 0]
           err == [kind |-> "error", of |-> 0]
<1>1. items \in Seq(Items) /\ eof \in Items /\ err \in Items /\ eof.kind = "eof" /\ err.kind = "error"
  BY DEF OutputTyped, Items
<1> HIDE DEF eof, err
<1>2. CASE ReadEnd(s)
  <2>1. items' = Append(items, eof) /\ ~ReadFails(s)
    <3>1. items' = Append(items, eof)
      BY <1>2 DEF ReadEnd, eof
    <3>2. Len(items') = Len(items) + 1 /\ Len(items) \in Nat
      BY <1>1, <3>1, AppendProperties
    <3>3. ReadFails(s) => Len(items') = Len(items) + 2
      BY <1>1, ConcatProperties DEF ReadFails, eof, err
    <3> QED
      BY <3>1, <3>2, <3>3
  <2> QED
    BY <1>1, <2>1, AppendProperties DEF Longer
<1>3. CASE ReadFails(s)
  <2>1. items' = items \o <<err, eof>>
    BY <1>3 DEF ReadFails, eof, err
  <2>2. /\ <<err, eof>> \in Seq(Items) /\ Len(<<err, eof>>) = 2
        /\ <<err, eof>>[1] = err /\ <<err, eof>>[2] = eof
    BY <1>1
  <2>3. /\ Len(items) \in Nat /\ Len(items') = Len(items) + 2
        /\ \A i \in 1..Len(items) : items'[i] = items[i]
        /\ items'[Len(items) + 1] = err /\ items'[Len(items) + 2] = eof
    BY <1>1, <2>1, <2>2, ConcatProperties
  <2>4. \A i \in 1..Len(items') : i \in 1..Len(items) \/ i = Len(items) + 1 \/ i = Len(items')
    BY <2>3
  <2>5. Len(items) + 1 \in 1..Len(items')
    BY <2>3
  <2> QED
    BY <1>1, <2>3, <2>4, <2>5 DEF Longer
<1> QED
  BY <1>2, <1>3

LEMMA EndsStep == Typed /\ Ends /\ [Next]_vars => Ends'
<1> SUFFICES ASSUME LogsTyped, ThreadsTyped, OutputTyped, Ends, [Next]_vars PROVE Ends'
  BY DEF Typed
<1> USE DEF files, emitters, process, output, loop
<1>1. CASE UNCHANGED <<items, reader, finished>> /\ (main' \in Early => main \in Early)
  BY <1>1 DEF Ends, NoEof, OneEof, TwoEofs, IsEof, Overs
<1>2. CASE StartChild
  <2>1. Overs = 0 /\ Overs' = 0
    BY <1>2 DEF StartChild, Ends, Early, Overs, Streams
  <2> QED
    BY <1>2, <2>1 DEF StartChild, Early, Ends, NoEof, OneEof, TwoEofs, IsEof
<1>3. CASE TakeEnd
  BY <1>3, EndsTail DEF TakeEnd
<1>4. CASE TakeItem
  BY <1>4, EndsTail DEF TakeItem
<1>5. CASE MainStep /\ ~(StartChild \/ TakeEnd \/ TakeItem)
  BY <1>1, <1>5 DEF MainStep, RecordStart, MarkRunning, WriteParams, Heartbeat, LeavePipes,
                    LeaveLoop, LeaveSocket, SocketClosed, RecordEnd, FinalCard, Early
<1>6. CASE InterruptWait \/ InterruptElsewhere \/ MainFails
  <2>1. /\ UNCHANGED <<reader, finished>>
        /\ main' \in Early => main \in Early
    <3>1. CASE InterruptWait
      BY <3>1 DEF InterruptWait
    <3>2. CASE InterruptElsewhere \/ MainFails
      <4>1. Leave /\ UNCHANGED <<reader, finished>>
        BY <3>2 DEF InterruptElsewhere, MainFails
      <4> QED
        BY <4>1 DEF Leave, Early
    <3> QED
      BY <1>6, <3>1, <3>2
  <2>2. items' = items \/ (items # <<>> /\ items' = Tail(items))
    BY <1>6 DEF InterruptWait, InterruptElsewhere, MainFails, CallFails
  <2> QED
    BY <1>1, <2>1, <2>2, EndsTail
<1>7. CASE FlushAtExit \/ Killed
  BY <1>1, <1>7 DEF FlushAtExit, Killed, Early
<1>8. ASSUME NEW s \in Streams, ReaderStep(s) PROVE Ends'
  <2>1. reader[s] = "reading" /\ UNCHANGED <<main, finished>>
    BY <1>8 DEF ReaderStep, ReadLine, ReadEnd, ReadFails
  <2>2. CASE ReadLine(s)
    <3>0. /\ Longer /\ Len(items') = Len(items) + 1
          /\ items'[Len(items) + 1] = [kind |-> s, of |-> printed[s] - pipe[s] + 1]
      BY <2>2, LineShape
    <3>1. /\ Longer /\ Len(items') = Len(items) + 1
          /\ items'[Len(items) + 1].kind = s
      BY <3>0
    <3>2. \A i \in 1..Len(items') : i \in 1..Len(items) \/ ~IsEof(i)'
      BY <3>1 DEF Longer, IsEof, Streams
    <3>3. reader' = reader
      BY <2>2 DEF ReadLine
    <3> QED
      BY <2>1, <3>1, <3>2, <3>3, EndsLine
  <2>3. CASE ReadEnd(s) \/ ReadFails(s)
    <3>1. /\ Longer /\ IsEof(Len(items))'
          /\ \A i \in 1..Len(items') : i \in 1..Len(items) \/ i = Len(items') \/ ~IsEof(i)'
      BY <2>3, OverShape DEF IsEof
    <3>2. reader' = [reader EXCEPT ![s] = "over"]
      BY <2>3 DEF ReadEnd, ReadFails
    <3> QED
      BY <2>1, <3>1, <3>2, EndsOver
  <2> QED
    BY <1>8, <2>2, <2>3 DEF ReaderStep
<1>9. ASSUME NEW c \in Clients, HandlerStep(c) PROVE Ends'
  BY <1>1, <1>9 DEF HandlerStep, Accept, Reject, RecordEvent, RecordWarning, EventSaveFails,
                    CallbackFails, ReplyTo
<1>10. CASE Experiment
  BY <1>1, <1>10 DEF Experiment, WriteLine, Emit, GiveUp, ChildExits, HeirsEnd, ReadParams
<1>11. CASE UNCHANGED vars
  BY <1>1, <1>11 DEF vars
<1> QED
  BY <1>2, <1>3, <1>4, <1>5, <1>6, <1>7, <1>8, <1>9, <1>10, <1>11 DEF Next, Disturbance

LEMMA EndsAlways == Spec => []Ends
  BY TypedAlways, EndsInit, EndsStep, PTL DEF Spec

(* Every variable keeps its type; in particular the main loop never counts *)
(* more ends than there are readers.                                       *)
THEOREM RunTypeCorrect == Spec => []TypeOK
<1>1. Typed /\ Ends => TypeOK
  <2> SUFFICES ASSUME LogsTyped, ThreadsTyped, OutputTyped, Ends PROVE TypeOK
    BY DEF Typed
  <2>1. \A r \in Recs : IsRecord(r)
    BY DEF Recs, IsRecord
  <2>2. {stream, kept, card.folded, file.folded} \subseteq Seq(Recs)
    BY DEF LogsTyped, Cards
  <2>3. \A l \in Seq(Recs) : \A i \in 1..Len(l) : l[i] \in Recs
    OBVIOUS
  <2>4. \A l \in {stream, kept, card.folded, file.folded} : \A i \in 1..Len(l) : IsRecord(l[i])
    BY <2>1, <2>2, <2>3
  <2>5. {card.state, file.state} \subseteq {"none", "provisioning", "running"} \cup Final
    BY DEF LogsTyped, Cards
  <2>6. finished \in 0..2
    BY OversTyped DEF Ends
  <2>7. \A i \in 1..Len(items) : items[i].kind \in Streams \cup {"eof", "error"}
    <3>1. \A i \in 1..Len(items) : items[i] \in Items
      BY DEF OutputTyped
    <3> QED
      BY <3>1 DEF Items
  <2> QED
    BY <2>4, <2>5, <2>6, <2>7 DEF TypeOK, LogsTyped, ThreadsTyped, OutputTyped
<1> QED
  BY <1>1, TypedAlways, EndsAlways, PTL

-----------------------------------------------------------------------------
(* What was read of a stream is in the log and, after it, in the queue,    *)
(* each line once and in order; what was not read is still in the pipe.    *)
ReadSoFar(s) == printed[s] - pipe[s]
LogLine(s, i)  == i \in 1..Len(log) /\ log[i].kind = s
ItemLine(s, i) == i \in 1..Len(items) /\ items[i].kind = s
Delivered(s) ==
    /\ \A i : LogLine(s, i) => i <= Len(stream) /\ log[i].of \in 1..ReadSoFar(s)
    /\ \A i : ItemLine(s, i) => items[i].of \in 1..ReadSoFar(s)
    /\ \A i, k : LogLine(s, i) /\ LogLine(s, k) /\ i < k => log[i].of < log[k].of
    /\ \A i, k : ItemLine(s, i) /\ ItemLine(s, k) /\ i < k => items[i].of < items[k].of
    /\ \A i, k : LogLine(s, i) /\ ItemLine(s, k) => log[i].of < items[k].of
    /\ \A n \in 1..ReadSoFar(s) :
          \/ \E i : LogLine(s, i) /\ log[i].of = n
          \/ \E i : ItemLine(s, i) /\ items[i].of = n

LEMMA DeliveredInit == Init => \A s \in Streams : Delivered(s)
<1> SUFFICES ASSUME Init, NEW s \in Streams PROVE Delivered(s)
  OBVIOUS
<1>1. log = <<>>
  BY ConcatEmptySeq, EmptySeq DEF Init, log
<1>2. Len(log) = 0 /\ Len(items) = 0 /\ ReadSoFar(s) = 0
  BY <1>1, EmptySeq DEF Init, ReadSoFar
<1> QED
  BY <1>2 DEF Delivered, LogLine, ItemLine

LEMMA DeliveredSame ==
    ASSUME NEW s, Delivered(s), UNCHANGED <<stream, kept, items>>, ReadSoFar(s)' = ReadSoFar(s)
    PROVE  Delivered(s)'
  BY LogSame DEF Delivered, LogLine, ItemLine

(* Somebody else's record, or the end of a reader.                         *)
LEMMA DeliveredOther ==
    ASSUME LogsTyped, NEW s, Delivered(s), NEW r, Adds(r), Written \/ Buffered, r.kind # s,
           UNCHANGED <<items, printed, pipe>>
    PROVE  Delivered(s)'
<1>1. /\ Len(log) \in Nat /\ Len(stream) <= Len(log) /\ Extends
  BY LogTyped, AddsExtends
<1>2. ReadSoFar(s)' = ReadSoFar(s) /\ \A i : ItemLine(s, i)' <=> ItemLine(s, i)
  BY DEF ReadSoFar, ItemLine
<1>3. \A i : LogLine(s, i)' => LogLine(s, i) /\ log'[i] = log[i]
  BY <1>1 DEF LogLine, Adds
<1>4. \A i : LogLine(s, i) => LogLine(s, i)' /\ log'[i] = log[i] /\ i <= Len(stream')
  BY <1>1 DEF LogLine, Adds, Delivered, Extends
<1> QED
  BY <1>2, <1>3, <1>4 DEF Delivered

LEMMA DeliveredLonger ==
    ASSUME NEW s, Delivered(s), UNCHANGED <<stream, kept>>, ReadSoFar(s)' = ReadSoFar(s), Longer,
           \A i \in 1..Len(items') : i \in 1..Len(items) \/ items'[i].kind # s
    PROVE  Delivered(s)'
<1>1. log' = log
  BY LogSame
<1>2. \A i : LogLine(s, i)' <=> LogLine(s, i)
  BY <1>1 DEF LogLine
<1>3. \A i : ItemLine(s, i)' => ItemLine(s, i) /\ items'[i] = items[i]
  BY DEF ItemLine, Longer
<1>4. \A i : ItemLine(s, i) => ItemLine(s, i)'
  BY DEF ItemLine, Longer
<1> QED
  BY <1>1, <1>2, <1>3, <1>4 DEF Delivered

(* A line goes from the pipe to the queue.                                 *)
LEMMA DeliveredRead ==
    ASSUME OutputTyped, NEW s \in Streams, Delivered(s), ReadLine(s)
    PROVE  Delivered(s)'
<1> USE DEF files, emitters, process, output, loop
<1> PICK n \in Nat : n = ReadSoFar(s)
  BY RunAssumption DEF OutputTyped, ReadSoFar, RunAssumption
<1> PICK l \in Nat : l = Len(items)
  BY DEF OutputTyped
<1>1. log' = log /\ stream' = stream
  BY LogSame DEF ReadLine
<1>2. /\ Longer /\ Len(items') = l + 1
      /\ items'[l + 1] = [kind |-> s, of |-> n + 1]
  BY LineShape DEF ReadSoFar
<1>3. ReadSoFar(s)' = n + 1
  BY RunAssumption DEF ReadSoFar, ReadLine, OutputTyped, RunAssumption
<1>4. items'[l + 1].kind = s /\ items'[l + 1].of = n + 1
  BY <1>2
<1>5. \A i : ItemLine(s, i)' <=> ItemLine(s, i) \/ i = l + 1
  BY <1>2, <1>4 DEF ItemLine, Longer
<1>6. \A i : ItemLine(s, i) => i \in 1..l /\ items'[i] = items[i] /\ items[i].of \in 1..n
  BY <1>2 DEF ItemLine, Longer, Delivered
<1>7. \A i : LogLine(s, i)' <=> LogLine(s, i)
  BY <1>1 DEF LogLine
<1>8. \A i : LogLine(s, i) => i <= Len(stream) /\ log[i].of \in 1..n
  BY DEF Delivered
<1>9. \A i : LogLine(s, i)' => i <= Len(stream') /\ log'[i].of \in 1..(n + 1)
  BY <1>1, <1>7, <1>8
<1>10. \A i : ItemLine(s, i)' => items'[i].of \in 1..(n + 1)
  BY <1>4, <1>5, <1>6
<1>11. \A i, k : LogLine(s, i)' /\ LogLine(s, k)' /\ i < k => log'[i].of < log'[k].of
  BY <1>1, <1>7 DEF Delivered
<1>12. \A i, k : ItemLine(s, i)' /\ ItemLine(s, k)' /\ i < k => items'[i].of < items'[k].of
  <2> SUFFICES ASSUME NEW i, NEW k, ItemLine(s, i)', ItemLine(s, k)', i < k
               PROVE  items'[i].of < items'[k].of
    OBVIOUS
  <2>1. ItemLine(s, i)
    BY <1>2, <1>5, <1>6 DEF ItemLine
  <2>2. CASE ItemLine(s, k)
    BY <1>6, <2>1, <2>2 DEF Delivered
  <2>3. CASE k = l + 1
    BY <1>4, <1>6, <2>1, <2>3
  <2> QED
    BY <1>5, <2>2, <2>3
<1>13. \A i, k : LogLine(s, i)' /\ ItemLine(s, k)' => log'[i].of < items'[k].of
  BY <1>1, <1>4, <1>5, <1>6, <1>7, <1>8 DEF Delivered
<1>14. \A m \in 1..(n + 1) :
         \/ \E i : LogLine(s, i)' /\ log'[i].of = m
         \/ \E i : ItemLine(s, i)' /\ items'[i].of = m
  <2> SUFFICES ASSUME NEW m \in 1..(n + 1)
               PROVE  \/ \E i : LogLine(s, i)' /\ log'[i].of = m
                      \/ \E i : ItemLine(s, i)' /\ items'[i].of = m
    OBVIOUS
  <2>1. CASE m = n + 1
    BY <1>4, <1>5, <2>1
  <2>2. CASE m \in 1..n
    <3>1. (\E i : LogLine(s, i) /\ log[i].of = m) \/ (\E i : ItemLine(s, i) /\ items[i].of = m)
      BY <2>2 DEF Delivered
    <3> QED
      BY <1>1, <1>5, <1>6, <1>7, <3>1
  <2> QED
    BY <2>1, <2>2
<1> QED
  BY <1>3, <1>9, <1>10, <1>11, <1>12, <1>13, <1>14 DEF Delivered

(* An item goes from the queue to the log, as a record, or is an end.      *)
LEMMA DeliveredTake ==
    ASSUME LogsTyped, OutputTyped, NEW s, Delivered(s), items # <<>>, items' = Tail(items),
           UNCHANGED <<printed, pipe>>,
           NEW r, Adds(r), Written, r.kind = Head(items).kind, r.of = Head(items).of
    PROVE  Delivered(s)'
<1> PICK l \in Nat : l = Len(log)
  BY LogTyped
<1>1. /\ Len(items) \in Nat /\ Len(items) > 0 /\ Len(items') = Len(items) - 1
      /\ \A i \in 1..Len(items') : items'[i] = items[i + 1]
      /\ Head(items) = items[1]
  BY HeadTailProperties, EmptySeq DEF OutputTyped
<1>2. ReadSoFar(s)' = ReadSoFar(s)
  BY DEF ReadSoFar
<1>3. /\ Len(log') = l + 1 /\ log'[l + 1] = r /\ Len(stream') = l + 1
      /\ \A i \in 1..l : log'[i] = log[i]
  BY DEF Adds, Written
<1>4. \A i : LogLine(s, i)' => i \in 1..(l + 1) /\ (i # l + 1 => LogLine(s, i) /\ log'[i] = log[i])
  BY <1>3 DEF LogLine
<1>5. \A i : LogLine(s, i) => LogLine(s, i)' /\ log'[i] = log[i] /\ i \in 1..l
  BY <1>3 DEF LogLine
<1>6. LogLine(s, l + 1)' => ItemLine(s, 1) /\ log'[l + 1].of = items[1].of
  BY <1>1, <1>3 DEF LogLine, ItemLine
<1>7. ItemLine(s, 1) => LogLine(s, l + 1)' /\ log'[l + 1].of = items[1].of
  BY <1>1, <1>3 DEF LogLine, ItemLine
<1>8. \A i : ItemLine(s, i)' => /\ i \in 1..Len(items') /\ ItemLine(s, i + 1)
                                /\ items'[i] = items[i + 1]
  BY <1>1 DEF ItemLine
<1>9. \A i : ItemLine(s, i) /\ i # 1 => ItemLine(s, i - 1)' /\ items'[i - 1] = items[i]
  BY <1>1 DEF ItemLine
<1>10. \A i : LogLine(s, i)' => i <= Len(stream') /\ log'[i].of \in 1..ReadSoFar(s)
  BY <1>3, <1>4, <1>6 DEF Delivered
<1>11. \A i : ItemLine(s, i)' => items'[i].of \in 1..ReadSoFar(s)
  BY <1>8 DEF Delivered
<1>12. \A i, k : LogLine(s, i)' /\ LogLine(s, k)' /\ i < k => log'[i].of < log'[k].of
  <2> SUFFICES ASSUME NEW i, NEW k, LogLine(s, i)', LogLine(s, k)', i < k
               PROVE  log'[i].of < log'[k].of
    OBVIOUS
  <2>1. LogLine(s, i) /\ log'[i] = log[i]
    BY <1>4
  <2>2. CASE k = l + 1
    BY <1>6, <2>1, <2>2 DEF Delivered
  <2>3. CASE k # l + 1
    BY <1>4, <2>1, <2>3 DEF Delivered
  <2> QED
    BY <2>2, <2>3
<1>13. \A i, k : ItemLine(s, i)' /\ ItemLine(s, k)' /\ i < k => items'[i].of < items'[k].of
  <2> SUFFICES ASSUME NEW i, NEW k, ItemLine(s, i)', ItemLine(s, k)', i < k
               PROVE  items'[i].of < items'[k].of
    OBVIOUS
  <2>1. i + 1 < k + 1 /\ ItemLine(s, i + 1) /\ ItemLine(s, k + 1)
    BY <1>1, <1>8
  <2> QED
    BY <1>8, <2>1 DEF Delivered
<1>14. \A i, k : LogLine(s, i)' /\ ItemLine(s, k)' => log'[i].of < items'[k].of
  <2> SUFFICES ASSUME NEW i, NEW k, LogLine(s, i)', ItemLine(s, k)'
               PROVE  log'[i].of < items'[k].of
    OBVIOUS
  <2>1. ItemLine(s, k + 1) /\ items'[k] = items[k + 1] /\ 1 < k + 1
    BY <1>1, <1>8
  <2>2. CASE i = l + 1
    <3>1. LogLine(s, l + 1)'
      BY <2>2
    <3>2. ItemLine(s, 1) /\ log'[i].of = items[1].of
      BY <1>6, <2>2, <3>1
    <3>3. items[1].of < items[k + 1].of
      BY <2>1, <3>2 DEF Delivered
    <3> QED
      BY <2>1, <3>2, <3>3
  <2>3. CASE i # l + 1
    BY <1>4, <2>1, <2>3 DEF Delivered
  <2> QED
    BY <2>2, <2>3
<1>15. \A n \in 1..ReadSoFar(s) :
          \/ \E i : LogLine(s, i)' /\ log'[i].of = n
          \/ \E i : ItemLine(s, i)' /\ items'[i].of = n
  <2> SUFFICES ASSUME NEW n \in 1..ReadSoFar(s)
               PROVE  \/ \E i : LogLine(s, i)' /\ log'[i].of = n
                      \/ \E i : ItemLine(s, i)' /\ items'[i].of = n
    OBVIOUS
  <2>1. CASE \E i : LogLine(s, i) /\ log[i].of = n
    BY <1>5, <2>1
  <2>2. CASE \E i : ItemLine(s, i) /\ items[i].of = n
    BY <1>7, <1>9, <2>2
  <2> QED
    BY <2>1, <2>2 DEF Delivered
<1> QED
  BY <1>2, <1>10, <1>11, <1>12, <1>13, <1>14, <1>15 DEF Delivered

(* An end is taken off the queue.                                          *)
LEMMA DeliveredDrop ==
    ASSUME OutputTyped, NEW s, Delivered(s), items # <<>>, items' = Tail(items),
           Head(items).kind # s, UNCHANGED <<stream, kept, printed, pipe>>
    PROVE  Delivered(s)'
<1>1. /\ Len(items) \in Nat /\ Len(items) > 0 /\ Len(items') = Len(items) - 1
      /\ \A i \in 1..Len(items') : items'[i] = items[i + 1]
      /\ Head(items) = items[1]
  BY HeadTailProperties, EmptySeq DEF OutputTyped
<1>2. log' = log /\ ReadSoFar(s)' = ReadSoFar(s)
  BY LogSame DEF ReadSoFar
<1>3. \A i : ItemLine(s, i)' => /\ i \in 1..Len(items') /\ ItemLine(s, i + 1)
                                /\ items'[i] = items[i + 1]
  BY <1>1 DEF ItemLine
<1>4. \A i : ItemLine(s, i) => ItemLine(s, i - 1)' /\ items'[i - 1] = items[i]
  BY <1>1 DEF ItemLine
<1>5. \A i : LogLine(s, i)' <=> LogLine(s, i)
  BY <1>2 DEF LogLine
<1>6. \A i, k : ItemLine(s, i)' /\ ItemLine(s, k)' /\ i < k => items'[i].of < items'[k].of
  <2> SUFFICES ASSUME NEW i, NEW k, ItemLine(s, i)', ItemLine(s, k)', i < k
               PROVE  items'[i].of < items'[k].of
    OBVIOUS
  <2>1. i + 1 < k + 1 /\ ItemLine(s, i + 1) /\ ItemLine(s, k + 1)
    BY <1>1, <1>3
  <2> QED
    BY <1>3, <2>1 DEF Delivered
<1>7. \A n \in 1..ReadSoFar(s) :
          \/ \E i : LogLine(s, i)' /\ log'[i].of = n
          \/ \E i : ItemLine(s, i)' /\ items'[i].of = n
  <2> SUFFICES ASSUME NEW n \in 1..ReadSoFar(s)
               PROVE  \/ \E i : LogLine(s, i)' /\ log'[i].of = n
                      \/ \E i : ItemLine(s, i)' /\ items'[i].of = n
    OBVIOUS
  <2>1. CASE \E i : LogLine(s, i) /\ log[i].of = n
    BY <1>2, <1>5, <2>1
  <2>2. CASE \E i : ItemLine(s, i) /\ items[i].of = n
    BY <1>4, <2>2
  <2> QED
    BY <2>1, <2>2 DEF Delivered
<1>8. /\ \A i : LogLine(s, i)' => i <= Len(stream') /\ log'[i].of \in 1..ReadSoFar(s)
      /\ \A i : ItemLine(s, i)' => items'[i].of \in 1..ReadSoFar(s)
      /\ \A i, k : LogLine(s, i)' /\ LogLine(s, k)' /\ i < k => log'[i].of < log'[k].of
      /\ \A i, k : LogLine(s, i)' /\ ItemLine(s, k)' => log'[i].of < items'[k].of
  BY <1>2, <1>3, <1>5 DEF Delivered
<1> QED
  BY <1>2, <1>6, <1>7, <1>8 DEF Delivered

(* Nothing of this is lost while the main thread is undisturbed: what a    *)
(* reader leaves in its pipe is announced by an error, and the loop is     *)
(* only left with both readers over and the queue empty, or with a warning.*)
AfterLoop   == {"wait", "closing", "end", "card", "done"}
PipesWarned == RecordsOf("warn", "pipes") # {}
ErrorQueued == \E i \in 1..Len(items) : items[i].kind = "error"
Drains(s) ==
    /\ Delivered(s)
    /\ reader[s] = "over" /\ pipe[s] # 0 => captureFailed \/ ErrorQueued
    /\ main \in AfterLoop => PipesWarned \/ (items = <<>> /\ reader[s] = "over")
Drained == ~interrupted /\ main \notin Left => \A s \in Streams : Drains(s)

LEMMA DrainedInit == Init => Drained
  BY DeliveredInit DEF Init, Drained, Drains, AfterLoop

LEMMA WarnedStays ==
    ASSUME LogsTyped, NEW r, Adds(r), Written \/ Buffered, PipesWarned
    PROVE  PipesWarned'
<1>1. PICK i \in 1..Len(stream) : stream[i].kind = "warn" /\ stream[i].of = "pipes"
  BY DEF PipesWarned, RecordsOf
<1>2. i \in 1..Len(stream') /\ stream'[i] = stream[i]
  BY LogTyped, AddsExtends DEF Written, Buffered, Extends
<1>3. i \in RecordsOf("warn", "pipes")'
  BY <1>1, <1>2 DEF RecordsOf
<1> QED
  BY <1>3 DEF PipesWarned

LEMMA DrainsOther ==
    ASSUME LogsTyped, NEW s, Drains(s), NEW r, Adds(r), Written \/ Buffered, r.kind # s,
           UNCHANGED <<items, reader, printed, pipe, captureFailed>>,
           main' \in AfterLoop =>
              main \in AfterLoop \/ (Written /\ r.kind = "warn" /\ r.of = "pipes")
    PROVE  Drains(s)'
<1>1. Delivered(s)'
  BY DeliveredOther DEF Drains
<1>2. ErrorQueued' <=> ErrorQueued
  BY DEF ErrorQueued
<1>3. PipesWarned => PipesWarned'
  BY WarnedStays
<1>4. Written /\ r.kind = "warn" /\ r.of = "pipes" => PipesWarned'
  <2>1. Written => Len(log) + 1 \in 1..Len(stream') /\ stream'[Len(log) + 1] = r
    BY LogTyped DEF Written, Adds
  <2> QED
    BY <2>1 DEF PipesWarned, RecordsOf
<1> QED
  BY <1>1, <1>2, <1>3, <1>4 DEF Drains

LEMMA DrainsSame ==
    ASSUME NEW s \in Streams, Drains(s), UNCHANGED <<stream, kept, items, captureFailed>>,
           ReadSoFar(s)' = ReadSoFar(s),
           reader'[s] = "over" => reader[s] = "over" /\ pipe'[s] = pipe[s],
           main' \in AfterLoop => main \in AfterLoop /\ reader'[s] = reader[s]
    PROVE  Drains(s)'
<1>1. Delivered(s)'
  BY DeliveredSame DEF Drains
<1>2. (ErrorQueued' <=> ErrorQueued) /\ (PipesWarned' <=> PipesWarned)
  BY DEF ErrorQueued, PipesWarned, RecordsOf
<1> QED
  BY <1>1, <1>2 DEF Drains

LEMMA DrainsMain ==
    ASSUME LogsTyped, ThreadsTyped, OutputTyped, Ends, NEW s \in Streams, Drains(s), MainStep
    PROVE  Drains(s)'
<1> USE DEF files, emitters, process, output, loop
<1>1. CASE RecordStart \/ LeavePipes \/ RecordEnd
  <2>1. PICK k \in {"start", "warn", "end"}, o \in Ofs :
            /\ Save(k, o) /\ (k = "end" => o \in Final)
            /\ LeavePipes => k = "warn" /\ o = "pipes"
    <3>1. CASE RecordStart
      <4>1. "run" \in Ofs /\ ~LeavePipes
        BY <3>1 DEF Ofs, RecordStart, LeavePipes
      <4> QED
        BY <3>1, <4>1 DEF RecordStart
    <3>2. CASE LeavePipes
      <4>1. "pipes" \in Ofs
        BY DEF Ofs
      <4> QED
        BY <3>2, <4>1 DEF LeavePipes
    <3>3. CASE RecordEnd
      <4>1. EndState \in Ofs /\ ~LeavePipes
        BY <3>3, EndStateFinal DEF Ofs, RecordEnd, LeavePipes
      <4> QED
        BY <3>3, <4>1, EndStateFinal DEF RecordEnd
    <3> QED
      BY <1>1, <3>1, <3>2, <3>3
  <2> DEFINE r == Record(seq, k, o)
  <2>2. Adds(r) /\ Written
    BY <2>1, SaveTyped DEF Written, Kinds
  <2>3. r.kind = k /\ r.of = o /\ r.kind # s
    BY DEF Record, Streams
  <2>4. /\ UNCHANGED <<items, reader, printed, pipe, captureFailed>>
        /\ main' \in AfterLoop => main \in AfterLoop \/ LeavePipes
    BY <1>1 DEF RecordStart, LeavePipes, RecordEnd, AfterLoop
  <2> HIDE DEF r
  <2> QED
    BY <2>1, <2>2, <2>3, <2>4, DrainsOther
<1>2. CASE TakeItem
  <2>0. Head(items).kind \in Kinds \ {"start", "event", "warn", "end"} /\ Head(items).of \in Ofs
    BY <1>2, ItemTyped DEF TakeItem
  <2> DEFINE r == Record(seq, Head(items).kind, Head(items).of)
  <2>1. Adds(r) /\ Written
    BY <1>2, <2>0, SaveTyped DEF TakeItem, Written
  <2>2. r.kind = Head(items).kind /\ r.of = Head(items).of
    BY DEF Record
  <2> HIDE DEF r
  <2>3. /\ items # <<>> /\ items' = Tail(items) /\ UNCHANGED <<printed, pipe, reader, main>>
        /\ captureFailed' = (captureFailed \/ Head(items).kind = "error") /\ main = "loop"
    BY <1>2 DEF TakeItem
  <2>4. Delivered(s)'
    BY <2>1, <2>2, <2>3, DeliveredTake DEF Drains
  <2>5. ErrorQueued => ErrorQueued' \/ Head(items).kind = "error"
    <3>1. /\ Len(items) \in Nat /\ Len(items') = Len(items) - 1 /\ Head(items) = items[1]
          /\ \A i \in 1..Len(items') : items'[i] = items[i + 1]
      BY <2>3, HeadTailProperties DEF OutputTyped
    <3> SUFFICES ASSUME NEW i \in 1..Len(items), items[i].kind = "error", i # 1
                 PROVE  ErrorQueued'
      BY <3>1 DEF ErrorQueued
    <3>2. i - 1 \in 1..Len(items') /\ items'[i - 1] = items[i]
      BY <3>1
    <3> QED
      BY <3>2 DEF ErrorQueued
  <2> QED
    BY <2>3, <2>4, <2>5 DEF Drains, AfterLoop
<1>3. CASE TakeEnd
  <2>1. /\ items # <<>> /\ items' = Tail(items) /\ Head(items).kind = "eof" /\ main = "loop"
        /\ UNCHANGED <<main, stream, kept, printed, pipe, reader, captureFailed>>
    BY <1>3 DEF TakeEnd
  <2>2. Delivered(s)'
    BY <2>1, DeliveredDrop DEF Drains, Streams
  <2>3. ErrorQueued => ErrorQueued'
    <3>1. /\ Len(items) \in Nat /\ Len(items') = Len(items) - 1 /\ Head(items) = items[1]
          /\ \A i \in 1..Len(items') : items'[i] = items[i + 1]
      BY <2>1, HeadTailProperties DEF OutputTyped
    <3> SUFFICES ASSUME NEW i \in 1..Len(items), items[i].kind = "error"
                 PROVE  ErrorQueued'
      BY DEF ErrorQueued
    <3>2. i - 1 \in 1..Len(items') /\ items'[i - 1] = items[i]
      BY <2>1, <3>1
    <3> QED
      BY <3>2 DEF ErrorQueued
  <2> QED
    BY <2>1, <2>2, <2>3 DEF Drains, AfterLoop
<1>4. CASE LeaveLoop
  <2>1. finished = 2 /\ Overs = 2
    BY <1>4, OversTyped DEF LeaveLoop, LoopDone, Ends
  <2>2. reader[s] = "over"
    BY <2>1 DEF Overs, Streams
  <2>3. items = <<>>
    <3> SUFFICES ASSUME items # <<>> PROVE FALSE
      OBVIOUS
    <3>1. Len(items) \in 1..Len(items)
      BY EmptySeq DEF OutputTyped
    <3> QED
      BY <2>1, <3>1 DEF Ends, NoEof
  <2>4. UNCHANGED <<stream, kept, items, captureFailed, printed, pipe, reader>>
    BY <1>4 DEF LeaveLoop
  <2>5. Delivered(s)' /\ (ErrorQueued' <=> ErrorQueued)
    BY <2>4, DeliveredSame DEF Drains, ErrorQueued, ReadSoFar
  <2> QED
    BY <2>2, <2>3, <2>4, <2>5 DEF Drains
<1>5. CASE StartChild
  <2>1. /\ UNCHANGED <<stream, kept, items, captureFailed, printed, pipe>>
        /\ main' = "params" /\ reader'[s] # "over"
    BY <1>5 DEF StartChild
  <2> QED
    BY <2>1, DrainsSame DEF ReadSoFar, AfterLoop
<1>6. CASE \/ MarkRunning \/ WriteParams \/ Heartbeat \/ LeaveSocket \/ SocketClosed \/ FinalCard
  <2>1. /\ UNCHANGED <<stream, kept, items, captureFailed, printed, pipe, reader>>
        /\ main' \in AfterLoop => main \in AfterLoop
    BY <1>6 DEF MarkRunning, WriteParams, Heartbeat, LeaveSocket, SocketClosed, FinalCard, AfterLoop
  <2> QED
    BY <2>1, DrainsSame DEF ReadSoFar
<1> QED
  BY <1>1, <1>2, <1>3, <1>4, <1>5, <1>6 DEF MainStep

LEMMA DrainsReader ==
    ASSUME LogsTyped, OutputTyped, \A s \in Streams : Drains(s),
           NEW t \in Streams, ReaderStep(t), NEW s \in Streams
    PROVE  Drains(s)'
<1> USE DEF files, emitters, process, output, loop
<1>1. /\ UNCHANGED <<main, stream, kept, printed, captureFailed>> /\ reader[t] = "reading"
      /\ t # s => reader'[s] = reader[s] /\ pipe'[s] = pipe[s]
  BY DEF ReaderStep, ReadLine, ReadEnd, ReadFails, OutputTyped
<1>2. main \in AfterLoop => PipesWarned'
  BY <1>1 DEF Drains, PipesWarned, RecordsOf
<1>3. Longer
  BY LineShape, OverShape DEF ReaderStep
<1>4. ErrorQueued => ErrorQueued'
  <2> SUFFICES ASSUME NEW i \in 1..Len(items), items[i].kind = "error" PROVE ErrorQueued'
    BY DEF ErrorQueued
  <2>1. i \in 1..Len(items') /\ items'[i] = items[i]
    BY <1>3 DEF Longer
  <2> QED
    BY <2>1 DEF ErrorQueued
<1>5. Delivered(s)'
  <2>1. CASE ReadLine(t) /\ s = t
    BY <2>1, DeliveredRead DEF Drains
  <2>2. CASE ReadLine(t) /\ s # t
    <3>1. items'[Len(items) + 1] = [kind |-> t, of |-> printed[t] - pipe[t] + 1]
          /\ Len(items') = Len(items) + 1
      BY <2>2, LineShape
    <3>2. items'[Len(items) + 1].kind = t
      BY <3>1
    <3>3. \A i \in 1..Len(items') : i \in 1..Len(items) \/ items'[i].kind # s
      BY <1>3, <2>2, <3>1, <3>2 DEF Longer
    <3>4. ReadSoFar(s)' = ReadSoFar(s)
      BY <1>1, <2>2 DEF ReadSoFar
    <3> QED
      BY <1>1, <1>3, <3>3, <3>4, DeliveredLonger DEF Drains
  <2>3. CASE ReadEnd(t) \/ ReadFails(t)
    <3>1. \A i \in 1..Len(items') : i \in 1..Len(items) \/ items'[i].kind # s
      BY <2>3, OverShape DEF Streams
    <3>2. ReadSoFar(s)' = ReadSoFar(s)
      BY <2>3 DEF ReadSoFar, ReadEnd, ReadFails
    <3> QED
      BY <1>1, <1>3, <3>1, <3>2, DeliveredLonger DEF Drains
  <2> QED
    BY <2>1, <2>2, <2>3 DEF ReaderStep
<1>6. reader'[s] = "over" /\ pipe'[s] # 0 => captureFailed \/ ErrorQueued'
  <2>1. CASE s # t
    BY <1>1, <1>4, <2>1 DEF Drains
  <2>2. CASE s = t /\ ReadLine(t)
    BY <1>1, <2>2 DEF ReadLine
  <2>3. CASE s = t /\ ReadEnd(t)
    BY <2>3 DEF ReadEnd
  <2>4. CASE s = t /\ ReadFails(t)
    BY <2>4, OverShape DEF ErrorQueued
  <2> QED
    BY <2>1, <2>2, <2>3, <2>4 DEF ReaderStep
<1> QED
  BY <1>1, <1>2, <1>5, <1>6 DEF Drains

LEMMA DrainsHandler ==
    ASSUME LogsTyped, ThreadsTyped, NEW c \in Clients, HandlerStep(c),
           NEW s \in Streams, Drains(s)
    PROVE  Drains(s)'
<1> USE DEF files, emitters, process, output, loop
<1>1. UNCHANGED <<main, items, reader, printed, pipe, captureFailed>>
  BY DEF HandlerStep, Accept, Reject, RecordEvent, RecordWarning, EventSaveFails, CallbackFails,
         ReplyTo
<1>2. CASE Accept(c) \/ Reject(c) \/ ReplyTo(c)
  <2>1. UNCHANGED <<stream, kept>>
    BY <1>2 DEF Accept, Reject, ReplyTo
  <2> QED
    BY <1>1, <2>1, DrainsSame DEF ReadSoFar
<1>3. CASE RecordEvent(c) \/ RecordWarning(c) \/ CallbackFails(c) \/ EventSaveFails(c)
  <2>1. PICK k \in {"event", "warn"} : Save(k, c) \/ SaveFails(k, c)
    BY <1>3 DEF RecordEvent, RecordWarning, CallbackFails, EventSaveFails
  <2>2. k \in Kinds /\ c \in Ofs
    BY DEF Kinds, Ofs
  <2> DEFINE r == Record(seq, k, c)
  <2>3. Adds(r) /\ (Written \/ Buffered)
    BY <2>1, <2>2, SaveTyped, SaveFailsBuffers DEF Written
  <2>4. r.kind # s
    BY DEF Record, Streams
  <2> HIDE DEF r
  <2> QED
    BY <1>1, <2>3, <2>4, DrainsOther
<1> QED
  BY <1>2, <1>3 DEF HandlerStep

LEMMA DrainedStep == Typed /\ Ends /\ Drained /\ [Next]_vars => Drained'
<1> SUFFICES ASSUME LogsTyped, ThreadsTyped, OutputTyped, Ends, Drained, [Next]_vars,
                    ~interrupted', main' \notin Left, NEW s \in Streams
             PROVE  Drains(s)'
  BY DEF Typed, Drained
<1> USE DEF files, emitters, process, output, loop
<1>1. ~(InterruptWait \/ InterruptElsewhere \/ MainFails \/ Killed)
  BY LeaveTyped, DisturbedTyped
  DEF InterruptWait, InterruptElsewhere, MainFails, CallFails, SaveFails, Killed, Left
<1>2. CASE UNCHANGED vars
  <2>1. Drains(s)
    BY <1>2 DEF vars, Drained
  <2> QED
    BY <1>2, <2>1, DrainsSame DEF vars, ReadSoFar
<1>3. CASE Next
  <2>1. ~interrupted /\ main \notin Left /\ ~FlushAtExit
    <3>1. CASE MainStep
      BY <3>1 DEF MainStep, RecordStart, MarkRunning, StartChild, WriteParams, Heartbeat, TakeEnd,
        TakeItem, LeavePipes, LeaveLoop, LeaveSocket, SocketClosed, RecordEnd, FinalCard,
        FlushAtExit, Left
    <3>2. CASE FlushAtExit
      BY <3>2 DEF FlushAtExit, Left
    <3>3. ASSUME UNCHANGED <<main, interrupted>> PROVE ~interrupted /\ main \notin Left
      BY <3>3
    <3>4. ASSUME NEW t \in Streams, ReaderStep(t) PROVE UNCHANGED <<main, interrupted>>
      BY <3>4 DEF ReaderStep, ReadLine, ReadEnd, ReadFails
    <3>5. ASSUME NEW c \in Clients, HandlerStep(c) PROVE UNCHANGED <<main, interrupted>>
      BY <3>5 DEF HandlerStep, Accept, Reject, RecordEvent, RecordWarning, EventSaveFails,
                  CallbackFails, ReplyTo
    <3>6. CASE Experiment
      BY <3>3, <3>6 DEF Experiment, WriteLine, Emit, GiveUp, ChildExits, HeirsEnd, ReadParams,
                        FlushAtExit, Left
    <3> QED
      BY <1>1, <1>3, <3>1, <3>2, <3>3, <3>4, <3>5, <3>6 DEF Next, Disturbance
  <2>2. \A t \in Streams : Drains(t)
    BY <2>1 DEF Drained
  <2>3. CASE Experiment
    <3>1. /\ UNCHANGED <<main, stream, kept, items, captureFailed, reader>>
          /\ reader[s] = "over" => pipe'[s] = pipe[s]
          /\ ReadSoFar(s)' = ReadSoFar(s)
      <4>1. ASSUME NEW t \in Streams, WriteLine(t)
            PROVE  /\ reader[s] = "over" => pipe'[s] = pipe[s]
                   /\ ReadSoFar(s)' = ReadSoFar(s)
        <5>1. CASE t = s
          <6>1. printed'[s] = printed[s] + 1 /\ pipe'[s] = pipe[s] + 1 /\ reader[s] = "reading"
            BY <4>1, <5>1 DEF WriteLine, OutputTyped
          <6>2. printed[s] \in Nat /\ pipe[s] \in Nat
            BY RunAssumption DEF OutputTyped, RunAssumption
          <6> QED
            BY <6>1, <6>2 DEF ReadSoFar
        <5>2. CASE t # s
          BY <4>1, <5>2 DEF WriteLine, OutputTyped, ReadSoFar
        <5> QED
          BY <5>1, <5>2
      <4>2. UNCHANGED <<main, stream, kept, items, captureFailed, reader>>
        BY <2>3 DEF Experiment, WriteLine, Emit, GiveUp, ChildExits, HeirsEnd, ReadParams
      <4>3. ASSUME UNCHANGED <<printed, pipe>>
            PROVE  pipe'[s] = pipe[s] /\ ReadSoFar(s)' = ReadSoFar(s)
        BY <4>3 DEF ReadSoFar
      <4> QED
        BY <2>3, <4>1, <4>2, <4>3 DEF Experiment, Emit, GiveUp, ChildExits, HeirsEnd, ReadParams
    <3> QED
      BY <2>2, <3>1, DrainsSame
  <2> QED
    BY <1>1, <1>3, <2>1, <2>2, <2>3, DrainsMain, DrainsReader, DrainsHandler DEF Next, Disturbance
<1> QED
  BY <1>2, <1>3

(* protocol.md:53, "The runner drains captured output and waits for the    *)
(* process": in a finished run every line printed is recorded, once and in *)
(* order, unless the pipes were left, a reader failed or Ctrl-C came.      *)
THEOREM OutputIsDrained == Spec => []OutputDrained
<1>1. Typed /\ Edges /\ Drained => OutputDrained
  <2> SUFFICES ASSUME LogsTyped, OutputTyped, Edges, Drained, main = "done",
                      RecordsOf("warn", "pipes") = {}, ~captureFailed, ~interrupted,
                      NEW s \in Streams
               PROVE  /\ {stream[i].of : i \in LinesOf(s)} = 1..printed[s]
                      /\ \A i, k \in LinesOf(s) : i < k => stream[i].of < stream[k].of
    BY DEF OutputDrained, Typed
  <2>1. log = stream
    BY LogTyped DEF Edges, Closed
  <2>2. Drains(s)
    BY DEF Drained, Left
  <2>3. items = <<>> /\ reader[s] = "over"
    BY <2>2 DEF Drains, AfterLoop, PipesWarned
  <2>4. Len(items) = 0
    BY <2>3, EmptySeq
  <2>5. pipe[s] = 0 /\ printed[s] \in Nat
    BY <2>2, <2>3, <2>4, RunAssumption DEF Drains, ErrorQueued, OutputTyped, RunAssumption
  <2>6. ReadSoFar(s) = printed[s]
    BY <2>5 DEF ReadSoFar
  <2>7. \A i : LogLine(s, i) <=> i \in LinesOf(s)
    BY <2>1 DEF LogLine, LinesOf
  <2>8. \A n \in 1..printed[s] : \E i \in LinesOf(s) : stream[i].of = n
    BY <2>1, <2>2, <2>4, <2>6, <2>7 DEF Drains, Delivered, ItemLine
  <2>9. \A i \in LinesOf(s) : stream[i].of \in 1..printed[s]
    BY <2>1, <2>2, <2>6, <2>7 DEF Drains, Delivered
  <2>10. \A i, k \in LinesOf(s) : i < k => stream[i].of < stream[k].of
    BY <2>1, <2>2, <2>7 DEF Drains, Delivered
  <2> QED
    BY <2>8, <2>9, <2>10
<1> QED
  BY <1>1, TypedAlways, EdgesAlways, EndsAlways, DrainedInit, DrainedStep, PTL DEF Spec
=============================================================================
