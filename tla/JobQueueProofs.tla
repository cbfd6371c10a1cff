--------------------------- MODULE JobQueueProofs ---------------------------
(***************************************************************************)
(* Theorems about the job queue for every number of jobs, workers, run     *)
(* ids, crashes and refused writes.                                        *)
(***************************************************************************)
EXTENDS JobQueue, SequenceTheorems, FiniteSetTheorems, TLAPS

(* The snapshot of a typed job is typed, and so is every link built.       *)
LEMMA SnapTyped ==
    ASSUME NEW st \in JobStates, NEW rs \in SUBSET RunIds
    PROVE  Snap(st, rs) \in Snapshot
  BY DEF Snap, Snapshot

LEMMA EmptyTyped == NoFile \in Snapshot /\ EmptyLink \in Link
  BY SnapTyped DEF NoFile, EmptyLink, Link, JobStates

LEMMA LinkForTyped ==
    ASSUME NEW j \in Jobs, NEW snap \in Snapshot
    PROVE  LinkFor(j, snap) \in Link
  BY EmptyTyped DEF LinkFor, Link

(* persist appends one typed link at most.                                 *)
LEMMA PersistTyped ==
    ASSUME NEW S \in SUBSET Jobs, chain \in Seq(Link),
           state' \in [Jobs -> JobStates], runs' \in [Jobs -> SUBSET RunIds],
           PersistAll(S)
    PROVE  chain' \in Seq(Link)
<1> DEFINE new == [j \in Jobs |-> IF j \in S THEN Snap(state'[j], runs'[j]) ELSE NoFile]
<1>1. new \in Link
  BY SnapTyped, EmptyTyped DEF Link
<1>2. CASE S = {}
  BY <1>2 DEF PersistAll
<1>3. CASE S # {}
  <2>1. chain' = Append(chain, new)
    BY <1>3 DEF PersistAll
  <2> QED
    BY <2>1, <1>1
<1> QED
  BY <1>2, <1>3

(* Taking one job's snapshot out of the head keeps the chain typed.        *)
LEMMA ChainAfterTyped ==
    ASSUME NEW j \in Jobs, chain \in Seq(Link), chain # <<>>
    PROVE  /\ Head(chain) \in Link
           /\ ChainAfter(j) \in Seq(Link)
<1> DEFINE rest == [Head(chain) EXCEPT ![j] = NoFile]
<1>1. Head(chain) \in Link /\ Tail(chain) \in Seq(Link)
  OBVIOUS
<1>2. rest \in Link
  BY <1>1, EmptyTyped DEF Link
<1>3. <<rest>> \o Tail(chain) \in Seq(Link)
  BY <1>1, <1>2
<1> QED
  BY <1>1, <1>3 DEF ChainAfter

LEMMA RemoveAtTyped ==
    ASSUME NEW S, NEW s \in Seq(S), NEW i \in 1..Len(s)
    PROVE  RemoveAt(s, i) \in Seq(S) /\ s # <<>>
<1>1. SubSeq(s, 1, i - 1) \in Seq(S) /\ SubSeq(s, i + 1, Len(s)) \in Seq(S)
  OBVIOUS
<1> QED
  BY <1>1 DEF RemoveAt

-----------------------------------------------------------------------------
(* Type correctness: every variable keeps the shape the code gives it,     *)
(* through every handler, write and restart (queue.ts, whole module).      *)
LEMMA TypeInit == QueueAssumption /\ Init => TypeOK
  BY EmptyTyped DEF QueueAssumption, Init, TypeOK, JobStates

LEMMA TypeSubmit == TypeOK /\ Submit => TypeOK'
<1> SUFFICES ASSUME TypeOK, Submit PROVE TypeOK'
  OBVIOUS
<1> DEFINE j == submitted + 1
<1>1. j \in Jobs /\ submitted + 1 \in 0..MaxJobs
  BY QueueAssumption DEF Submit, SubmitParked, SubmitAssigned, CanSubmit, TypeOK, Jobs,
                         QueueAssumption
<1>2. CASE SubmitParked
  <2>1. state' \in [Jobs -> JobStates] /\ runs' \in [Jobs -> SUBSET RunIds]
    BY <1>2, <1>1 DEF SubmitParked, TypeOK, memory, JobStates
  <2>2. chain' \in Seq(Link)
    BY <1>2, <2>1, <1>1, PersistTyped DEF SubmitParked, Persist, TypeOK
  <2> QED
    BY <1>2, <1>1, <2>1, <2>2 DEF SubmitParked, TypeOK, faults
<1>3. CASE SubmitAssigned
  <2>1. /\ Snap("queued", {}) \in Snapshot
        /\ Snap("claimed", {}) \in Snapshot
    BY SnapTyped DEF JobStates, InFlight
  <2>2. << LinkFor(j, Snap("queued", {})), LinkFor(j, Snap("claimed", {})) >> \in Seq(Link)
    BY <1>1, <2>1, LinkForTyped
  <2>3. chain' \in Seq(Link)
    BY <1>3, <2>2, ConcatProperties DEF SubmitAssigned, TypeOK
  <2>4. waiters' \in Seq(Workers)
    BY <1>3 DEF SubmitAssigned, TypeOK
  <2>5. state' \in [Jobs -> JobStates] /\ handed' \in [Jobs -> Nat]
    BY <1>3, <1>1 DEF SubmitAssigned, TypeOK, JobStates, InFlight
  <2> QED
    BY <1>3, <1>1, <2>3, <2>4, <2>5 DEF SubmitAssigned, TypeOK, faults
<1> QED
  BY <1>2, <1>3 DEF Submit

LEMMA TypeCalls == TypeOK /\ Calls => TypeOK'
<1> SUFFICES ASSUME TypeOK, Calls PROVE TypeOK'
  OBVIOUS
<1> USE DEF faults, memory
<1>1. CASE Submit
  BY <1>1, TypeSubmit
<1>2. ASSUME NEW j \in Jobs, ClaimQueued(j) PROVE TypeOK'
  <2>1. /\ state' \in [Jobs -> JobStates] /\ runs' \in [Jobs -> SUBSET RunIds]
        /\ handed' \in [Jobs -> Nat]
    BY <1>2 DEF ClaimQueued, TypeOK, JobStates, InFlight
  <2>2. chain' \in Seq(Link)
    BY <1>2, <2>1, PersistTyped DEF ClaimQueued, Persist, TypeOK
  <2> QED
    BY <1>2, <2>1, <2>2 DEF ClaimQueued, TypeOK
<1>3. ASSUME NEW w \in Workers, ClaimParked(w) PROVE TypeOK'
  <2>1. waiters' \in Seq(Workers)
    BY <1>3 DEF ClaimParked, TypeOK
  <2> QED
    BY <1>3, <2>1 DEF ClaimParked, TypeOK
<1>4. ASSUME NEW w \in Workers, ClaimExpired(w) PROVE TypeOK'
  <2>1. PICK i \in 1..Len(waiters) : waiters' = RemoveAt(waiters, i)
    BY <1>4 DEF ClaimExpired
  <2>2. waiters' \in Seq(Workers)
    BY <2>1, RemoveAtTyped DEF TypeOK
  <2> QED
    BY <1>4, <2>2 DEF ClaimExpired, TypeOK
<1>5. ASSUME NEW j \in Jobs, NEW st \in Progress, NEW rs \in SUBSET RunIds,
             Report(j, st, rs)
      PROVE  TypeOK'
  <2>1. ReportState(j, st) \in JobStates
    BY QueueAssumption DEF ReportState, QueueAssumption, TypeOK, JobStates, InFlight
  <2>2. state' \in [Jobs -> JobStates] /\ runs' \in [Jobs -> SUBSET RunIds]
    BY <1>5, <2>1 DEF Report, TypeOK
  <2>3. chain' \in Seq(Link)
    BY <1>5, <2>2, PersistTyped DEF Report, Persist, TypeOK
  <2> QED
    BY <1>5, <2>2, <2>3 DEF Report, TypeOK
<1>6. ASSUME NEW j \in Jobs, NEW st \in Outcomes, Done(j, st) PROVE TypeOK'
  <2>1. state' \in [Jobs -> JobStates] /\ runs' \in [Jobs -> SUBSET RunIds]
    BY <1>6, QueueAssumption DEF Done, TypeOK, JobStates, Terminal, QueueAssumption
  <2>2. chain' \in Seq(Link)
    BY <1>6, <2>1, PersistTyped DEF Done, Persist, TypeOK
  <2> QED
    BY <1>6, <2>1, <2>2 DEF Done, TypeOK
<1>7. ASSUME NEW j \in Jobs, StopQueued(j) PROVE TypeOK'
  <2>1. state' \in [Jobs -> JobStates] /\ runs' \in [Jobs -> SUBSET RunIds]
    BY <1>7 DEF StopQueued, TypeOK, JobStates, Terminal
  <2>2. chain' \in Seq(Link)
    BY <1>7, <2>1, PersistTyped DEF StopQueued, Persist, TypeOK
  <2> QED
    BY <1>7, <2>1, <2>2 DEF StopQueued, TypeOK
<1>8. ASSUME NEW j \in Jobs, StopInFlight(j) PROVE TypeOK'
  BY <1>8 DEF StopInFlight, TypeOK
<1>9. CASE InterruptJobs
  <2>1. state' \in [Jobs -> JobStates] /\ runs' \in [Jobs -> SUBSET RunIds]
    BY <1>9 DEF InterruptJobs, TypeOK, JobStates, Terminal
  <2>2. InFlightJobs \in SUBSET Jobs
    BY DEF InFlightJobs
  <2>3. chain' \in Seq(Link)
    BY <1>9, <2>1, <2>2, PersistTyped DEF InterruptJobs, TypeOK
  <2> QED
    BY <1>9, <2>1, <2>3 DEF InterruptJobs, TypeOK
<1> QED
  BY <1>1, <1>2, <1>3, <1>4, <1>5, <1>6, <1>7, <1>8, <1>9 DEF Calls

LEMMA TypeStorage == TypeOK /\ Storage => TypeOK'
<1> SUFFICES ASSUME TypeOK, NEW j \in Jobs, WriteSnapshot(j) \/ WriteFails(j)
             PROVE  TypeOK'
  BY DEF Storage
<1>1. chain # <<>> /\ chain' = ChainAfter(j)
  BY DEF WriteSnapshot, WriteFails, WriteOf
<1>2. Head(chain)[j] \in Snapshot /\ chain' \in Seq(Link)
  BY <1>1, ChainAfterTyped DEF Link, TypeOK
<1>3. CASE WriteSnapshot(j)
  BY <1>2, <1>3 DEF WriteSnapshot, TypeOK, faults, memory
<1>4. CASE WriteFails(j)
  BY <1>2, <1>4, QueueAssumption DEF WriteFails, TypeOK, faults, memory, QueueAssumption
<1> QED
  BY <1>3, <1>4

LEMMA TypeProcess == TypeOK /\ Process => TypeOK'
<1> SUFFICES ASSUME TypeOK, Process PROVE TypeOK'
  OBVIOUS
<1>1. ASSUME Down, crashes' \in 0..MaxCrashes PROVE TypeOK'
  <2>1. /\ state' \in [Jobs -> JobStates] /\ runs' \in [Jobs -> SUBSET RunIds]
        /\ stopRequested' \in [Jobs -> BOOLEAN]
    BY <1>1 DEF Down, JobStates
  <2>2. waiters' \in Seq(Workers) /\ chain' \in Seq(Link)
    BY <1>1 DEF Down
  <2> QED
    BY <1>1, <2>1, <2>2 DEF Down, TypeOK
<1>2. CASE Exit
  BY <1>1, <1>2 DEF Exit, TypeOK
<1>3. CASE Crash
  BY <1>1, <1>3, QueueAssumption DEF Crash, TypeOK, QueueAssumption
<1>4. CASE InitJobs
  <2>1. \A j \in Jobs : disk[j].state \in JobStates /\ disk[j].runs \in SUBSET RunIds
    BY DEF TypeOK, Snapshot
  <2>2. state' \in [Jobs -> JobStates] /\ runs' \in [Jobs -> SUBSET RunIds]
    BY <1>4, <2>1 DEF InitJobs, JobStates, Terminal
  <2>3. chain' \in Seq(Link)
    BY <1>4, <2>2, PersistTyped DEF InitJobs, TypeOK
  <2> QED
    BY <1>4, <2>2, <2>3 DEF InitJobs, TypeOK, faults
<1> QED
  BY <1>2, <1>3, <1>4 DEF Process

THEOREM TypeCorrect == Spec => []TypeOK
<1>1. Init => TypeOK
  BY TypeInit, QueueAssumption
<1>2. TypeOK /\ [Next]_vars => TypeOK'
  <2>1. TypeOK /\ Next => TypeOK'
    BY TypeCalls, TypeStorage, TypeProcess DEF Next, Queue
  <2>2. TypeOK /\ UNCHANGED vars => TypeOK'
    BY DEF vars, TypeOK
  <2> QED
    BY <2>1, <2>2
<1> QED
  BY <1>1, <1>2, PTL DEF Spec

-----------------------------------------------------------------------------
(* NoLostWakeup is inductive once a dead server parks no claim: submit is  *)
(* the only handler that makes a job queued, and does so only when no      *)
(* claim is parked; a claim parks only when nothing is queued.             *)
Wakeup == NoLostWakeup /\ (~up => waiters = <<>>)

LEMMA WakeupCalls == TypeOK /\ Wakeup /\ Calls => Wakeup'
<1> SUFFICES ASSUME TypeOK, Wakeup, Calls PROVE Wakeup'
  OBVIOUS
<1> USE DEF Wakeup, NoLostWakeup, QueuedJobs, faults, memory, vars
<1>1. CASE SubmitParked
  BY <1>1 DEF SubmitParked, CanSubmit
<1>2. CASE SubmitAssigned
  <2>1. \A j \in Jobs : state'[j] = "queued" => state[j] = "queued"
    BY <1>2 DEF SubmitAssigned, TypeOK
  <2> QED
    BY <1>2, <2>1 DEF SubmitAssigned, CanSubmit
<1>3. ASSUME NEW j \in Jobs, ClaimQueued(j) PROVE Wakeup'
  <2>1. waiters = <<>>
    BY <1>3 DEF ClaimQueued, IsNextQueued
  <2> QED
    BY <1>3, <2>1 DEF ClaimQueued
<1>4. ASSUME NEW w \in Workers, ClaimParked(w) PROVE Wakeup'
  BY <1>4 DEF ClaimParked, Backlog
<1>5. ASSUME NEW w \in Workers, ClaimExpired(w) PROVE Wakeup'
  <2>1. waiters # <<>>
    BY <1>5 DEF ClaimExpired, TypeOK
  <2> QED
    BY <1>5, <2>1 DEF ClaimExpired
<1>6. ASSUME NEW j \in Jobs, NEW st \in Progress, NEW rs \in SUBSET RunIds,
             Report(j, st, rs)
      PROVE  Wakeup'
  <2>1. \A k \in Jobs : state'[k] = "queued" => state[k] = "queued"
    BY <1>6, QueueAssumption DEF Report, ReportState, QueueAssumption, TypeOK
  <2> QED
    BY <1>6, <2>1 DEF Report
<1>7. ASSUME NEW j \in Jobs, NEW st \in Outcomes, Done(j, st) PROVE Wakeup'
  <2>1. \A k \in Jobs : state'[k] = "queued" => state[k] = "queued"
    BY <1>7, QueueAssumption DEF Done, QueueAssumption, TypeOK
  <2> QED
    BY <1>7, <2>1 DEF Done
<1>8. ASSUME NEW j \in Jobs, StopQueued(j) PROVE Wakeup'
  BY <1>8 DEF StopQueued, TypeOK
<1>9. ASSUME NEW j \in Jobs, StopInFlight(j) PROVE Wakeup'
  BY <1>9 DEF StopInFlight
<1>10. CASE InterruptJobs
  BY <1>10 DEF InterruptJobs, TypeOK
<1> QED
  BY <1>1, <1>2, <1>3, <1>4, <1>5, <1>6, <1>7, <1>8, <1>9, <1>10 DEF Calls, Submit

LEMMA WakeupNext == TypeOK /\ Wakeup /\ [Next]_vars => Wakeup'
<1> SUFFICES ASSUME TypeOK, Wakeup, [Next]_vars PROVE Wakeup'
  OBVIOUS
<1>1. CASE Queue
  BY <1>1, WakeupCalls DEF Queue
<1>2. CASE Storage
  BY <1>2 DEF Storage, WriteSnapshot, WriteFails, Wakeup, NoLostWakeup, QueuedJobs,
              faults, memory
<1>3. CASE Process
  BY <1>3 DEF Process, Exit, Crash, Down, InitJobs, Wakeup, NoLostWakeup, faults
<1>4. CASE UNCHANGED vars
  BY <1>4 DEF vars, Wakeup, NoLostWakeup, QueuedJobs
<1> QED
  BY <1>1, <1>2, <1>3, <1>4 DEF Next

(* A parked claim and a queued job never wait for each other, through any  *)
(* order of submits, claims, stops, expiries, crashes and restarts.        *)
THEOREM WakeupNeverLost == Spec => []NoLostWakeup
<1>1. Init => Wakeup
  BY DEF Init, Wakeup, NoLostWakeup
<1>2. Wakeup => NoLostWakeup
  BY DEF Wakeup
<1> QED
  BY <1>1, <1>2, WakeupNext, TypeCorrect, PTL DEF Spec

(* First in, first out: with NoLostWakeup, submit's direct hand-off cannot *)
(* overtake a queued job, and nextQueued picks the oldest (queue.ts:90-93, *)
(* 141-158).                                                               *)
LEMMA OrderStep == TypeOK /\ Wakeup /\ Next =>
    \A j \in Jobs : handed'[j] # handed[j] =>
        \A k \in 1..(j - 1) : state'[k] # "queued"
<1> SUFFICES ASSUME TypeOK, Wakeup, Next, NEW j \in Jobs, handed'[j] # handed[j],
                    NEW k \in 1..(j - 1)
             PROVE  state'[k] # "queued"
  OBVIOUS
<1>1. k \in Jobs /\ k < j /\ j \in Nat
  BY QueueAssumption DEF Jobs, QueueAssumption
<1>2. SubmitAssigned \/ \E i \in Jobs : ClaimQueued(i)
  BY DEF Next, Queue, Calls, Submit, SubmitParked, ClaimParked, ClaimExpired, Report,
         Done, StopQueued, StopInFlight, InterruptJobs, Storage, WriteSnapshot,
         WriteFails, Process, Exit, Crash, Down, InitJobs, faults
<1>3. CASE SubmitAssigned
  BY <1>1, <1>3 DEF SubmitAssigned, Wakeup, NoLostWakeup, QueuedJobs, TypeOK
<1>4. ASSUME NEW i \in Jobs, ClaimQueued(i) PROVE state'[k] # "queued"
  <2>1. i = j
    BY <1>4 DEF ClaimQueued, TypeOK
  <2>2. state[k] # "queued"
    BY <1>1, <1>4, <2>1 DEF ClaimQueued, IsNextQueued, QueuedJobs
  <2> QED
    BY <1>1, <1>4, <2>1, <2>2 DEF ClaimQueued, TypeOK
<1> QED
  BY <1>2, <1>3, <1>4

THEOREM OldestFirst == Spec => ServedInOrder
<1>1. Init => Wakeup
  BY DEF Init, Wakeup, NoLostWakeup
<1>2. TypeOK /\ Wakeup /\ [Next]_vars =>
        [\A j \in Jobs : handed'[j] # handed[j] =>
            \A k \in 1..(j - 1) : state'[k] # "queued"]_vars
  BY OrderStep
<1> QED
  BY <1>1, <1>2, WakeupNext, TypeCorrect, PTL DEF Spec, ServedInOrder

-----------------------------------------------------------------------------
(* The versions of a job that the disk and the chain hold, oldest first:   *)
(* version 0 is the file, version i the snapshot of the chain's link i.    *)
Ver(ch, dk, i, j) == IF i = 0 THEN dk[j] ELSE ch[i][j]

(* How far a job is; it never goes back.                                   *)
Rank(st) == CASE st = "none" -> 0 [] st = "queued" -> 1 [] st \in InFlight -> 2 [] OTHER -> 3

(* The versions of a job come in the order of its states, and none is      *)
(* ahead of memory.                                                        *)
InOrder(ch, dk, st) ==
    \A j \in Jobs, i \in 0..Len(ch) :
        /\ Rank(Ver(ch, dk, i, j).state) <= Rank(st[j])
        /\ \A k \in i..Len(ch) : Ver(ch, dk, k, j) # NoFile =>
              Rank(Ver(ch, dk, i, j).state) <= Rank(Ver(ch, dk, k, j).state)

(* Unless a write was refused, some version is as far as memory, and the   *)
(* newest is what memory holds.                                            *)
Reached(ch, dk, st) ==
    \A j \in Jobs : \E i \in 0..Len(ch) : Rank(Ver(ch, dk, i, j).state) = Rank(st[j])
Newest(ch, dk, st, rs) ==
    \A j \in Jobs :
        /\ (\A i \in 1..Len(ch) : ch[i][j] = NoFile) => dk[j] = Snap(st[j], rs[j])
        /\ \A i \in 1..Len(ch) :
              ch[i][j] # NoFile /\ (\A k \in i + 1..Len(ch) : ch[k][j] = NoFile)
                  => ch[i][j] = Snap(st[j], rs[j])

(* A job is saved as queued by itself.                                     *)
Single(ch) ==
    \A i \in 1..Len(ch), j \in Jobs :
        ch[i][j].state = "queued" => \A k \in Jobs \ {j} : ch[i][k] = NoFile

(* The jobs that would be found queued if the process died once link n is  *)
(* written: they were in the backlog when the link was appended.           *)
Unclaimed(ch, dk, n) ==
    {j \in Jobs : /\ \E i \in 0..n : Ver(ch, dk, i, j).state = "queued"
                  /\ \A i \in 0..n : Rank(Ver(ch, dk, i, j).state) <= 1}
Capped(ch, dk) == \A n \in 0..Len(ch) : Cardinality(Unclaimed(ch, dk, n)) <= QueueCap

(* Nothing is known of a job before it is submitted.                       *)
Fresh ==
    \A j \in Jobs : j > submitted =>
        /\ state[j] = "none" /\ runs[j] = {} /\ disk[j] = NoFile
        /\ \A i \in 1..Len(chain) : chain[i][j] = NoFile

(* A dead process holds nothing.                                           *)
Dead == ~up => chain = <<>> /\ \A j \in Jobs : state[j] = "none" /\ runs[j] = {}

(* What the disk, the chain and memory have to do with each other, as long *)
(* as no write was refused (f = 0) and otherwise.                          *)
Agree(ch, dk, st, rs, f) ==
    /\ InOrder(ch, dk, st)
    /\ f = 0 => /\ Reached(ch, dk, st) /\ Newest(ch, dk, st, rs)
                /\ Single(ch) /\ Capped(ch, dk)

SaveInv ==
    /\ Fresh /\ Dead
    /\ up => Agree(chain, disk, state, runs, failures)
    /\ failures = 0 => /\ Cardinality(Backlog) <= QueueCap
                       /\ Capped(chain, disk)


LEMMA RankTyped == /\ \A st : Rank(st) \in 0..3
                   /\ \A st : Rank(st) = 0 <=> st = "none"
                   /\ \A st : Rank(st) = 1 <=> st = "queued"
                   /\ \A st : Rank(st) = 2 <=> st \in InFlight
                   /\ \A st \in JobStates : Rank(st) = 3 <=> st \in Terminal
  BY DEF Rank, InFlight, Terminal, JobStates

LEMMA SnapFields == \A a, b : Snap(a, b).state = a /\ Snap(a, b).runs = b
  BY DEF Snap

LEMMA NoFileRank == NoFile.state = "none" /\ Rank(NoFile.state) = 0
  BY RankTyped DEF NoFile, Snap

LEMMA VerTyped ==
    ASSUME NEW ch \in Seq(Link), NEW dk \in [Jobs -> Snapshot], NEW i \in 0..Len(ch), NEW j \in Jobs
    PROVE  Ver(ch, dk, i, j) \in Snapshot /\ Ver(ch, dk, i, j).state \in JobStates
<1>1. CASE i = 0
  BY <1>1 DEF Ver, Snapshot
<1>2. CASE i # 0
  <2>1. ch[i] \in Link
    BY <1>2
  <2> QED
    BY <1>2, <2>1 DEF Ver, Link, Snapshot
<1> QED
  BY <1>1, <1>2

(* Jobs can be counted.                                                    *)
LEMMA JobsCounted ==
    ASSUME NEW S \in SUBSET Jobs
    PROVE  /\ IsFiniteSet(S) /\ Cardinality(S) \in Nat
           /\ \A T \in SUBSET S : Cardinality(T) <= Cardinality(S)
<1>1. IsFiniteSet(Jobs)
  BY FS_Interval, QueueAssumption DEF Jobs, QueueAssumption
<1> QED
  BY <1>1, FS_Subset, FS_CardinalityType

-----------------------------------------------------------------------------
(* A link joins the chain: it holds what memory becomes, of the jobs that  *)
(* change at least.                                                        *)
AppendsTo(L, st, rs, st2, rs2) ==
    \A j \in Jobs :
        /\ Rank(st[j]) <= Rank(st2[j])
        /\ \/ L[j] = NoFile /\ st2[j] = st[j] /\ rs2[j] = rs[j]
           \/ L[j] # NoFile /\ L[j] = Snap(st2[j], rs2[j])

LEMMA AppendVer ==
    ASSUME NEW ch \in Seq(Link), NEW dk, NEW L \in Link
    PROVE  /\ Append(ch, L) \in Seq(Link) /\ Len(Append(ch, L)) = Len(ch) + 1
           /\ \A j \in Jobs :
                 /\ \A i \in 0..Len(ch) : Ver(Append(ch, L), dk, i, j) = Ver(ch, dk, i, j)
                 /\ Ver(Append(ch, L), dk, Len(ch) + 1, j) = L[j]
<1>1. /\ Append(ch, L) \in Seq(Link) /\ Len(Append(ch, L)) = Len(ch) + 1 /\ Len(ch) \in Nat
      /\ \A i \in 1..Len(ch) : Append(ch, L)[i] = ch[i]
      /\ Append(ch, L)[Len(ch) + 1] = L
  OBVIOUS
<1> QED
  BY <1>1 DEF Ver

LEMMA AppendInOrder ==
    ASSUME NEW ch \in Seq(Link), NEW dk \in [Jobs -> Snapshot], NEW L \in Link,
           NEW st, NEW rs, NEW st2, NEW rs2,
           AppendsTo(L, st, rs, st2, rs2), InOrder(ch, dk, st)
    PROVE  InOrder(Append(ch, L), dk, st2)
<1> DEFINE ch2 == Append(ch, L)
           n == Len(ch) + 1
<1>1. /\ Len(ch2) = n /\ Len(ch) \in Nat
      /\ \A j \in Jobs : /\ \A i \in 0..Len(ch) : Ver(ch2, dk, i, j) = Ver(ch, dk, i, j)
                         /\ Ver(ch2, dk, n, j) = L[j]
  BY AppendVer
<1>2. ASSUME NEW j \in Jobs PROVE L[j] = NoFile \/ L[j].state = st2[j]
  BY <1>2, SnapFields DEF AppendsTo
<1> SUFFICES ASSUME NEW j \in Jobs, NEW i \in 0..Len(ch2)
             PROVE  /\ Rank(Ver(ch2, dk, i, j).state) <= Rank(st2[j])
                    /\ \A k \in i..Len(ch2) : Ver(ch2, dk, k, j) # NoFile =>
                          Rank(Ver(ch2, dk, i, j).state) <= Rank(Ver(ch2, dk, k, j).state)
  BY DEF InOrder
<1> HIDE DEF ch2
<1>3. Rank(Ver(ch2, dk, i, j).state) <= Rank(st2[j])
  <2>1. CASE i \in 0..Len(ch)
    <3>1. Rank(Ver(ch, dk, i, j).state) <= Rank(st[j]) /\ Rank(st[j]) <= Rank(st2[j])
      BY <2>1 DEF InOrder, AppendsTo
    <3> QED
      BY <1>1, <2>1, <3>1, RankTyped
  <2>2. CASE i = n
    <3>1. Rank(L[j].state) <= Rank(st2[j])
      BY <1>2, NoFileRank, RankTyped
    <3> QED
      BY <1>1, <2>2, <3>1
  <2> QED
    BY <1>1, <2>1, <2>2
<1>4. ASSUME NEW k \in i..Len(ch2), Ver(ch2, dk, k, j) # NoFile
      PROVE  Rank(Ver(ch2, dk, i, j).state) <= Rank(Ver(ch2, dk, k, j).state)
  <2>1. CASE k = n
    <3>1. Ver(ch2, dk, k, j).state = st2[j]
      BY <1>1, <1>2, <1>4, <2>1
    <3> QED
      BY <1>3, <3>1
  <2>2. CASE k # n
    <3>1. i \in 0..Len(ch) /\ k \in i..Len(ch)
      BY <1>1, <2>2
    <3>2. Ver(ch2, dk, k, j) = Ver(ch, dk, k, j) /\ Ver(ch2, dk, i, j) = Ver(ch, dk, i, j)
      BY <1>1, <3>1
    <3> QED
      BY <1>4, <3>1, <3>2 DEF InOrder
  <2> QED
    BY <2>1, <2>2
<1> QED
  BY <1>3, <1>4

LEMMA AppendReached ==
    ASSUME NEW ch \in Seq(Link), NEW dk \in [Jobs -> Snapshot], NEW L \in Link,
           NEW st, NEW rs, NEW st2, NEW rs2,
           AppendsTo(L, st, rs, st2, rs2), Reached(ch, dk, st)
    PROVE  Reached(Append(ch, L), dk, st2)
<1> DEFINE ch2 == Append(ch, L)
           n == Len(ch) + 1
<1>1. /\ Len(ch2) = n /\ Len(ch) \in Nat
      /\ \A j \in Jobs : /\ \A i \in 0..Len(ch) : Ver(ch2, dk, i, j) = Ver(ch, dk, i, j)
                         /\ Ver(ch2, dk, n, j) = L[j]
  BY AppendVer
<1> HIDE DEF ch2
<1>2. ASSUME NEW j \in Jobs PROVE \E i \in 0..Len(ch2) : Rank(Ver(ch2, dk, i, j).state) = Rank(st2[j])
  <2>1. CASE L[j] = NoFile
    <3>1. st2[j] = st[j]
      BY <2>1 DEF AppendsTo
    <3>2. PICK i \in 0..Len(ch) : Rank(Ver(ch, dk, i, j).state) = Rank(st[j])
      BY DEF Reached
    <3> QED
      BY <1>1, <3>1, <3>2
  <2>2. CASE L[j] # NoFile
    <3>1. L[j].state = st2[j]
      BY <2>2, SnapFields DEF AppendsTo
    <3>2. n \in 0..Len(ch2)
      BY <1>1
    <3> QED
      BY <1>1, <3>1, <3>2
  <2> QED
    BY <2>1, <2>2
<1> QED
  BY <1>2 DEF Reached, ch2

LEMMA AppendNewest ==
    ASSUME NEW ch \in Seq(Link), NEW dk \in [Jobs -> Snapshot], NEW L \in Link,
           NEW st, NEW rs, NEW st2, NEW rs2,
           AppendsTo(L, st, rs, st2, rs2), Newest(ch, dk, st, rs)
    PROVE  Newest(Append(ch, L), dk, st2, rs2)
<1> DEFINE ch2 == Append(ch, L)
           n == Len(ch) + 1
<1>1. /\ Len(ch2) = n /\ Len(ch) \in Nat
      /\ \A i \in 1..Len(ch) : ch2[i] = ch[i]
      /\ ch2[n] = L
  OBVIOUS
<1> HIDE DEF ch2
<1>2. ASSUME NEW j \in Jobs, \A i \in 1..Len(ch2) : ch2[i][j] = NoFile
      PROVE  dk[j] = Snap(st2[j], rs2[j])
  <2>1. L[j] = NoFile /\ \A i \in 1..Len(ch) : ch[i][j] = NoFile
    BY <1>1, <1>2
  <2> QED
    BY <2>1 DEF Newest, AppendsTo
<1>3. ASSUME NEW j \in Jobs, NEW i \in 1..Len(ch2), ch2[i][j] # NoFile,
             \A k \in i + 1..Len(ch2) : ch2[k][j] = NoFile
      PROVE  ch2[i][j] = Snap(st2[j], rs2[j])
  <2>1. CASE i = n
    BY <1>1, <1>3, <2>1 DEF AppendsTo
  <2>2. CASE i # n
    <3>1. i \in 1..Len(ch) /\ n \in i + 1..Len(ch2)
      BY <1>1, <2>2
    <3>2. L[j] = NoFile
      BY <1>1, <1>3, <3>1
    <3>3. \A k \in i + 1..Len(ch) : ch[k][j] = NoFile
      BY <1>1, <1>3, <3>1
    <3> QED
      BY <1>1, <1>3, <3>1, <3>2, <3>3 DEF Newest, AppendsTo
  <2> QED
    BY <2>1, <2>2
<1> QED
  BY <1>2, <1>3 DEF Newest, ch2

LEMMA AppendSingle ==
    ASSUME NEW ch \in Seq(Link), NEW L \in Link, Single(ch),
           \A j \in Jobs : L[j].state = "queued" => \A k \in Jobs \ {j} : L[k] = NoFile
    PROVE  Single(Append(ch, L))
<1>1. /\ Len(Append(ch, L)) = Len(ch) + 1 /\ Len(ch) \in Nat
      /\ \A i \in 1..Len(ch) : Append(ch, L)[i] = ch[i]
      /\ Append(ch, L)[Len(ch) + 1] = L
  OBVIOUS
<1> QED
  BY <1>1 DEF Single

(* What the whole chain leaves queued is queued in memory.                 *)
LEMMA WaitingAtEnd ==
    ASSUME NEW ch \in Seq(Link), NEW dk \in [Jobs -> Snapshot], NEW st,
           InOrder(ch, dk, st), Reached(ch, dk, st)
    PROVE  \A j \in Unclaimed(ch, dk, Len(ch)) : st[j] = "queued"
<1> SUFFICES ASSUME NEW j \in Unclaimed(ch, dk, Len(ch)) PROVE Rank(st[j]) = 1
  BY RankTyped
<1>1. j \in Jobs /\ Len(ch) \in Nat
  BY DEF Unclaimed
<1>2. PICK i \in 0..Len(ch) : Rank(Ver(ch, dk, i, j).state) = Rank(st[j])
  BY <1>1 DEF Reached
<1>3. Rank(st[j]) <= 1
  BY <1>2 DEF Unclaimed
<1>4. PICK k \in 0..Len(ch) : Ver(ch, dk, k, j).state = "queued"
  BY DEF Unclaimed
<1>5. 1 <= Rank(st[j])
  BY <1>1, <1>4, RankTyped DEF InOrder
<1> QED
  BY <1>3, <1>5, RankTyped

LEMMA AppendCapped ==
    ASSUME NEW ch \in Seq(Link), NEW dk \in [Jobs -> Snapshot], NEW L \in Link,
           NEW st, NEW rs, NEW st2, NEW rs2, NEW B \in SUBSET Jobs,
           AppendsTo(L, st, rs, st2, rs2), InOrder(ch, dk, st), Reached(ch, dk, st),
           Capped(ch, dk), \A j \in Jobs : st2[j] = "queued" => j \in B,
           Cardinality(B) <= QueueCap
    PROVE  Capped(Append(ch, L), dk)
<1> DEFINE ch2 == Append(ch, L)
           n == Len(ch) + 1
<1>1. /\ ch2 \in Seq(Link) /\ Len(ch2) = n /\ Len(ch) \in Nat
      /\ \A j \in Jobs, i \in 0..Len(ch) : Ver(ch2, dk, i, j) = Ver(ch, dk, i, j)
  BY AppendVer
<1>2. InOrder(ch2, dk, st2) /\ Reached(ch2, dk, st2)
  BY AppendInOrder, AppendReached
<1> HIDE DEF ch2
<1>3. ASSUME NEW m \in 0..Len(ch) PROVE Unclaimed(ch2, dk, m) = Unclaimed(ch, dk, m)
  <2>1. \A i \in 0..m : i \in 0..Len(ch)
    BY <1>1
  <2> QED
    BY <1>1, <2>1 DEF Unclaimed
<1>4. Unclaimed(ch2, dk, n) \subseteq B
  BY <1>1, <1>2, WaitingAtEnd DEF Unclaimed
<1>5. Cardinality(Unclaimed(ch2, dk, n)) <= QueueCap
  BY <1>4, JobsCounted, QueueAssumption DEF QueueAssumption
<1> QED
  BY <1>1, <1>3, <1>5 DEF Capped, ch2

-----------------------------------------------------------------------------
(* A write takes job j's snapshot out of the head of the chain, and the    *)
(* head with it (d = 1) if there is nothing else in it.                    *)
Shifted(ch, ch2, j, d) ==
    /\ Len(ch2) = Len(ch) - d
    /\ \A i \in 1..Len(ch2), k \in Jobs :
          ch2[i][k] = IF i + d = 1 /\ k = j THEN NoFile ELSE ch[i + d][k]
    /\ d = 1 => \A k \in Jobs \ {j} : ch[1][k] = NoFile

LEMMA ChainShifts ==
    ASSUME chain \in Seq(Link), NEW j \in Jobs, WriteOf(j)
    PROVE  /\ Len(chain) >= 1 /\ chain[1] = Head(chain) /\ chain[1][j] # NoFile
           /\ ChainAfter(j) \in Seq(Link)
           /\ \E d \in {0, 1} : Shifted(chain, ChainAfter(j), j, d)
<1> DEFINE rest == [Head(chain) EXCEPT ![j] = NoFile]
<1>1. /\ chain # <<>> /\ Head(chain)[j] # NoFile
      /\ Len(chain) \in Nat /\ Len(chain) >= 1 /\ chain[1] = Head(chain) /\ Head(chain) \in Link
      /\ Tail(chain) \in Seq(Link) /\ Len(Tail(chain)) = Len(chain) - 1
      /\ \A i \in 1..Len(chain) - 1 : Tail(chain)[i] = chain[i + 1]
  BY DEF WriteOf
<1>2. ChainAfter(j) \in Seq(Link)
  BY <1>1, ChainAfterTyped
<1>3. /\ rest \in Link
      /\ \A k \in Jobs : rest[k] = IF k = j THEN NoFile ELSE Head(chain)[k]
  BY <1>1, EmptyTyped DEF Link
<1>4. CASE rest = EmptyLink
  <2>1. ChainAfter(j) = Tail(chain)
    BY <1>4 DEF ChainAfter
  <2>2. \A k \in Jobs \ {j} : chain[1][k] = NoFile
    BY <1>1, <1>3, <1>4 DEF EmptyLink
  <2>3. Shifted(chain, ChainAfter(j), j, 1)
    BY <1>1, <2>1, <2>2 DEF Shifted
  <2> QED
    BY <1>1, <1>2, <2>3
<1>5. CASE rest # EmptyLink
  <2> HIDE DEF rest
  <2>1. ChainAfter(j) = <<rest>> \o Tail(chain)
    BY <1>5 DEF ChainAfter, rest
  <2>2. <<rest>> \in Seq(Link) /\ Len(<<rest>>) = 1 /\ <<rest>>[1] = rest
    BY <1>3
  <2>3. /\ Len(ChainAfter(j)) = Len(chain)
        /\ ChainAfter(j)[1] = rest
        /\ \A i \in 2..Len(chain) : ChainAfter(j)[i] = chain[i]
    BY <1>1, <2>1, <2>2, ConcatProperties
  <2>4. \A i \in 1..Len(chain) : i = 1 \/ i \in 2..Len(chain)
    BY <1>1
  <2>5. Shifted(chain, ChainAfter(j), j, 0)
    BY <1>1, <1>3, <2>3, <2>4 DEF Shifted
  <2> QED
    BY <1>1, <1>2, <2>5
<1> QED
  BY <1>4, <1>5

(* The versions that the chain still holds are some of those it held, and  *)
(* none is lost but the one that was written.                              *)
Kept(ch, ch2, dk, dk2, j, d) ==
    \A k \in Jobs, i \in 1..Len(ch2) :
        /\ i + d \in 1..Len(ch)
        /\ \/ Ver(ch2, dk2, i, k) = NoFile
           \/ Ver(ch2, dk2, i, k) = Ver(ch, dk, i + d, k) /\ (k = j => i + d >= 2)
Found(ch, ch2, dk, dk2, j, d) ==
    \A k \in Jobs, m \in 1..Len(ch) : (k = j => m >= 2) =>
        \/ Ver(ch, dk, m, k) = NoFile
        \/ m - d \in 1..Len(ch2) /\ Ver(ch2, dk2, m - d, k) = Ver(ch, dk, m, k)

LEMMA ShiftVer ==
    ASSUME NEW ch \in Seq(Link), NEW ch2 \in Seq(Link), NEW j \in Jobs, NEW d \in {0, 1},
           Len(ch) >= 1, Shifted(ch, ch2, j, d),
           NEW dk \in [Jobs -> Snapshot], NEW dk2 \in [Jobs -> Snapshot]
    PROVE  Kept(ch, ch2, dk, dk2, j, d)
<1> SUFFICES ASSUME NEW k \in Jobs, NEW i \in 1..Len(ch2)
             PROVE  /\ i + d \in 1..Len(ch)
                    /\ \/ Ver(ch2, dk2, i, k) = NoFile
                       \/ Ver(ch2, dk2, i, k) = Ver(ch, dk, i + d, k) /\ (k = j => i + d >= 2)
  BY DEF Kept
<1>1. Len(ch) \in Nat /\ Len(ch2) \in Nat
  OBVIOUS
<1>2. i + d \in 1..Len(ch) /\ i # 0 /\ i + d # 0
  BY <1>1 DEF Shifted
<1>3. /\ Ver(ch2, dk2, i, k) = ch2[i][k] /\ Ver(ch, dk, i + d, k) = ch[i + d][k]
  BY <1>2 DEF Ver
<1> QED
  BY <1>1, <1>2, <1>3 DEF Shifted

LEMMA ShiftBack ==
    ASSUME NEW ch \in Seq(Link), NEW ch2 \in Seq(Link), NEW j \in Jobs, NEW d \in {0, 1},
           Len(ch) >= 1, Shifted(ch, ch2, j, d),
           NEW dk \in [Jobs -> Snapshot], NEW dk2 \in [Jobs -> Snapshot]
    PROVE  Found(ch, ch2, dk, dk2, j, d)
<1> SUFFICES ASSUME NEW k \in Jobs, NEW m \in 1..Len(ch), k = j => m >= 2
             PROVE  \/ Ver(ch, dk, m, k) = NoFile
                    \/ m - d \in 1..Len(ch2) /\ Ver(ch2, dk2, m - d, k) = Ver(ch, dk, m, k)
  BY DEF Found
<1>1. Len(ch) \in Nat /\ Len(ch2) \in Nat
  OBVIOUS
<1>2. Ver(ch, dk, m, k) = ch[m][k]
  BY DEF Ver
<1>3. CASE m - d = 0
  <2>1. m = 1 /\ d = 1 /\ k # j
    BY <1>3
  <2> QED
    BY <1>2, <2>1 DEF Shifted
<1>4. CASE m - d # 0
  <2>1. m - d \in 1..Len(ch2) /\ (m - d) + d = m /\ ~(m = 1 /\ k = j)
    BY <1>1, <1>4 DEF Shifted
  <2>2. ch2[m - d][k] = ch[m][k]
    BY <2>1 DEF Shifted
  <2>3. Ver(ch2, dk2, m - d, k) = ch2[m - d][k]
    BY <2>1 DEF Ver
  <2> QED
    BY <1>2, <2>1, <2>2, <2>3
<1> QED
  BY <1>3, <1>4

(* The write is done, or refused.                                          *)
Stored(ch, dk, dk2, j) == \A k \in Jobs : dk2[k] = IF k = j THEN ch[1][j] ELSE dk[k]

LEMMA WriteInOrder ==
    ASSUME NEW ch \in Seq(Link), NEW ch2 \in Seq(Link), NEW j \in Jobs, NEW d \in {0, 1},
           Len(ch) >= 1, ch[1][j] # NoFile, Shifted(ch, ch2, j, d),
           NEW dk \in [Jobs -> Snapshot], NEW dk2 \in [Jobs -> Snapshot],
           dk2 = dk \/ Stored(ch, dk, dk2, j), NEW st, InOrder(ch, dk, st)
    PROVE  InOrder(ch2, dk2, st)
<1>1. Len(ch) \in Nat /\ Len(ch2) \in Nat
  OBVIOUS
<1>2. ASSUME NEW k \in Jobs
      PROVE  \E o \in 0..1 : Ver(ch2, dk2, 0, k) = Ver(ch, dk, o, k) /\ (k = j \/ o = 0)
  <2>1. Ver(ch2, dk2, 0, k) = dk2[k] /\ Ver(ch, dk, 0, k) = dk[k] /\ Ver(ch, dk, 1, k) = ch[1][k]
    BY DEF Ver
  <2> QED
    BY <2>1 DEF Stored
<1>v. Kept(ch, ch2, dk, dk2, j, d)
  BY ShiftVer
<1>3. ASSUME NEW k \in Jobs, NEW i \in 0..Len(ch2)
      PROVE  \/ Ver(ch2, dk2, i, k) = NoFile
             \/ \E m \in 0..Len(ch) : /\ Ver(ch2, dk2, i, k) = Ver(ch, dk, m, k)
                                      /\ i = 0 => m <= 1 /\ (k = j \/ m = 0)
                                      /\ i # 0 => m = i + d /\ (k = j => m >= 2)
  <2>1. CASE i = 0
    BY <1>1, <1>2, <2>1
  <2>2. CASE i # 0
    <3>1. i \in 1..Len(ch2)
      BY <1>1, <2>2
    <3>2. i + d \in 0..Len(ch) /\ i + d # 0
      BY <1>1, <1>v, <3>1 DEF Kept
    <3> QED
      BY <1>v, <2>2, <3>1, <3>2 DEF Kept
  <2> QED
    BY <2>1, <2>2
<1> SUFFICES ASSUME NEW k \in Jobs, NEW i \in 0..Len(ch2)
             PROVE  /\ Rank(Ver(ch2, dk2, i, k).state) <= Rank(st[k])
                    /\ \A l \in i..Len(ch2) : Ver(ch2, dk2, l, k) # NoFile =>
                          Rank(Ver(ch2, dk2, i, k).state) <= Rank(Ver(ch2, dk2, l, k).state)
  BY DEF InOrder
<1>4. Rank(Ver(ch2, dk2, i, k).state) <= Rank(st[k])
  BY <1>3, NoFileRank, RankTyped DEF InOrder
<1>5. ASSUME NEW l \in i..Len(ch2), Ver(ch2, dk2, l, k) # NoFile
      PROVE  Rank(Ver(ch2, dk2, i, k).state) <= Rank(Ver(ch2, dk2, l, k).state)
  <2>1. CASE Ver(ch2, dk2, i, k) = NoFile
    BY <2>1, NoFileRank, RankTyped
  <2>2. CASE Ver(ch2, dk2, i, k) # NoFile
    <3>1. PICK m \in 0..Len(ch) : /\ Ver(ch2, dk2, i, k) = Ver(ch, dk, m, k)
                                  /\ i = 0 => m <= 1 /\ (k = j \/ m = 0)
                                  /\ i # 0 => m = i + d /\ (k = j => m >= 2)
      BY <1>3, <2>2
    <3>2. l \in 0..Len(ch2)
      BY <1>1
    <3>3. PICK n \in 0..Len(ch) : /\ Ver(ch2, dk2, l, k) = Ver(ch, dk, n, k)
                                  /\ l = 0 => n <= 1 /\ (k = j \/ n = 0)
                                  /\ l # 0 => n = l + d /\ (k = j => n >= 2)
      BY <1>3, <1>5, <3>2
    <3>4. CASE l = 0
      <4>1. i = l
        BY <1>1, <3>4
      <4> QED
        BY <4>1, RankTyped
    <3>5. CASE l # 0
      <4>1. m <= n
        <5>1. CASE i = 0
          BY <1>1, <3>1, <3>2, <3>3, <3>5, <5>1
        <5>2. CASE i # 0
          BY <1>1, <3>1, <3>2, <3>3, <3>5, <5>2
        <5> QED
          BY <5>1, <5>2
      <4>2. n \in m..Len(ch)
        BY <1>1, <4>1
      <4> QED
        BY <1>5, <3>1, <3>3, <4>2 DEF InOrder
    <3> QED
      BY <3>4, <3>5
  <2> QED
    BY <2>1, <2>2
<1> QED
  BY <1>4, <1>5

LEMMA WriteReached ==
    ASSUME NEW ch \in Seq(Link), NEW ch2 \in Seq(Link), NEW j \in Jobs, NEW d \in {0, 1},
           Len(ch) >= 1, ch[1][j] # NoFile, Shifted(ch, ch2, j, d),
           NEW dk \in [Jobs -> Snapshot], NEW dk2 \in [Jobs -> Snapshot],
           Stored(ch, dk, dk2, j), NEW st, InOrder(ch, dk, st), Reached(ch, dk, st)
    PROVE  Reached(ch2, dk2, st)
<1>1. Len(ch) \in Nat /\ Len(ch2) \in Nat
  OBVIOUS
<1>b. Found(ch, ch2, dk, dk2, j, d)
  BY ShiftBack
<1> SUFFICES ASSUME NEW k \in Jobs
             PROVE  \E i \in 0..Len(ch2) : Rank(Ver(ch2, dk2, i, k).state) = Rank(st[k])
  BY DEF Reached
<1>2. PICK m \in 0..Len(ch) : Rank(Ver(ch, dk, m, k).state) = Rank(st[k])
  BY DEF Reached
<1>3. 0 \in 0..Len(ch2) /\ Ver(ch2, dk2, 0, k) = dk2[k] /\ Ver(ch, dk, 0, k) = dk[k]
  BY <1>1 DEF Ver
<1>4. CASE k = j /\ m \in {0, 1}
  <2>1. Ver(ch, dk, 1, k) = ch[1][j] /\ dk2[k] = ch[1][j] /\ ch[1][j] # NoFile
    BY <1>4 DEF Ver, Stored
  <2>2. 1 \in m..Len(ch) /\ 1 \in 0..Len(ch)
    BY <1>1, <1>4
  <2>3. /\ Rank(Ver(ch, dk, m, k).state) <= Rank(Ver(ch, dk, 1, k).state)
        /\ Rank(Ver(ch, dk, 1, k).state) <= Rank(st[k])
    BY <2>1, <2>2 DEF InOrder
  <2>4. Rank(Ver(ch, dk, 1, k).state) = Rank(st[k])
    BY <1>2, <2>3, RankTyped
  <2> QED
    BY <1>3, <2>1, <2>4
<1>5. CASE k # j /\ m = 0
  BY <1>2, <1>3, <1>5 DEF Stored
<1>6. CASE m # 0 /\ (k = j => m # 1)
  <2>1. m \in 1..Len(ch) /\ (k = j => m >= 2)
    BY <1>1, <1>6
  <2>2. CASE Ver(ch, dk, m, k) = NoFile
    <3>1. k # j => Rank(dk[k].state) <= Rank(st[k]) /\ dk2[k] = dk[k]
      BY <1>1, <1>3 DEF InOrder, Stored
    <3>2. k = j => Rank(dk2[k].state) <= Rank(st[k])
      <4>1. k = j => Ver(ch, dk, 1, k) = dk2[k] /\ 1 \in 0..Len(ch)
        BY <1>1 DEF Ver, Stored
      <4> QED
        BY <4>1 DEF InOrder
    <3>3. Rank(st[k]) = 0
      BY <1>2, <2>2, NoFileRank
    <3>4. Rank(dk2[k].state) = 0
      BY <3>1, <3>2, <3>3, RankTyped
    <3> QED
      BY <1>3, <3>3, <3>4
  <2>3. CASE Ver(ch, dk, m, k) # NoFile
    <3>1. m - d \in 1..Len(ch2) /\ Ver(ch2, dk2, m - d, k) = Ver(ch, dk, m, k)
      BY <1>b, <2>1, <2>3 DEF Found
    <3>2. m - d \in 0..Len(ch2)
      BY <1>1, <3>1
    <3> QED
      BY <1>2, <3>1, <3>2
  <2> QED
    BY <2>2, <2>3
<1> QED
  BY <1>4, <1>5, <1>6

LEMMA WriteNewest ==
    ASSUME NEW ch \in Seq(Link), NEW ch2 \in Seq(Link), NEW j \in Jobs, NEW d \in {0, 1},
           Len(ch) >= 1, ch[1][j] # NoFile, Shifted(ch, ch2, j, d),
           NEW dk \in [Jobs -> Snapshot], NEW dk2 \in [Jobs -> Snapshot],
           Stored(ch, dk, dk2, j), NEW st, NEW rs, Newest(ch, dk, st, rs)
    PROVE  Newest(ch2, dk2, st, rs)
<1>1. Len(ch) \in Nat /\ Len(ch2) \in Nat /\ Len(ch2) = Len(ch) - d
  BY DEF Shifted
<1>2. ASSUME NEW k \in Jobs, NEW m \in 1..Len(ch), k = j => m >= 2
      PROVE  ch[m][k] = NoFile \/ (m - d \in 1..Len(ch2) /\ ch2[m - d][k] = ch[m][k])
  <2>1. Found(ch, ch2, dk, dk2, j, d)
    BY ShiftBack
  <2>2. m \in Nat /\ m # 0 /\ (m - d \in 1..Len(ch2) => m - d # 0)
    BY <1>1
  <2> QED
    BY <1>2, <2>1, <2>2 DEF Ver, Found
<1>3. ASSUME NEW k \in Jobs, \A i \in 1..Len(ch2) : ch2[i][k] = NoFile
      PROVE  dk2[k] = Snap(st[k], rs[k])
  <2>1. \A m \in 1..Len(ch) : (k = j => m >= 2) => ch[m][k] = NoFile
    BY <1>2, <1>3
  <2>2. CASE k = j
    <3>1. 1 \in 1..Len(ch) /\ \A m \in 2..Len(ch) : m \in 1..Len(ch) /\ m >= 2
      BY <1>1
    <3>2. ch[1][j] = Snap(st[j], rs[j])
      BY <2>1, <2>2, <3>1 DEF Newest
    <3> QED
      BY <2>2, <3>2 DEF Stored
  <2>3. CASE k # j
    BY <2>1, <2>3 DEF Newest, Stored
  <2> QED
    BY <2>2, <2>3
<1>4. ASSUME NEW k \in Jobs, NEW i \in 1..Len(ch2), ch2[i][k] # NoFile,
             \A l \in i + 1..Len(ch2) : ch2[l][k] = NoFile
      PROVE  ch2[i][k] = Snap(st[k], rs[k])
  <2>1. i + d \in 1..Len(ch) /\ ch2[i][k] = ch[i + d][k] /\ (k = j => i + d >= 2)
    <3>1. i + d \in 1..Len(ch)
      BY <1>1
    <3>2. ~(i + d = 1 /\ k = j) /\ ch2[i][k] = ch[i + d][k]
      BY <1>4 DEF Shifted
    <3> QED
      BY <3>1, <3>2
  <2>2. ASSUME NEW m \in (i + d) + 1..Len(ch) PROVE ch[m][k] = NoFile
    <3>1. m \in 1..Len(ch) /\ m >= 2 /\ (m - d \in 1..Len(ch2) => m - d \in i + 1..Len(ch2))
      BY <1>1
    <3> QED
      BY <1>2, <1>4, <3>1
  <2> QED
    BY <1>4, <2>1, <2>2 DEF Newest
<1> QED
  BY <1>3, <1>4 DEF Newest

LEMMA WriteSingle ==
    ASSUME NEW ch \in Seq(Link), NEW ch2 \in Seq(Link), NEW j \in Jobs, NEW d \in {0, 1},
           Len(ch) >= 1, Shifted(ch, ch2, j, d), Single(ch)
    PROVE  Single(ch2)
<1> SUFFICES ASSUME NEW i \in 1..Len(ch2), NEW k \in Jobs, ch2[i][k].state = "queued",
                    NEW l \in Jobs \ {k}
             PROVE  ch2[i][l] = NoFile
  BY DEF Single
<1>1. Len(ch) \in Nat /\ Len(ch2) \in Nat /\ Len(ch2) = Len(ch) - d
  BY DEF Shifted
<1>2. i + d \in 1..Len(ch)
  BY <1>1
<1>3. ch2[i][k] = ch[i + d][k]
  BY NoFileRank DEF Shifted
<1>4. ch[i + d][l] = NoFile
  BY <1>2, <1>3 DEF Single
<1> QED
  BY <1>4 DEF Shifted

LEMMA WriteCapped ==
    ASSUME NEW ch \in Seq(Link), NEW ch2 \in Seq(Link), NEW j \in Jobs, NEW d \in {0, 1},
           Len(ch) >= 1, ch[1][j] # NoFile, Shifted(ch, ch2, j, d),
           NEW dk \in [Jobs -> Snapshot], NEW dk2 \in [Jobs -> Snapshot],
           Stored(ch, dk, dk2, j), NEW st, InOrder(ch, dk, st), Single(ch), Capped(ch, dk)
    PROVE  Capped(ch2, dk2)
<1>1. Len(ch) \in Nat /\ Len(ch2) \in Nat /\ Len(ch2) = Len(ch) - d
  BY DEF Shifted
<1>2. \A k \in Jobs : /\ Ver(ch2, dk2, 0, k) = dk2[k] /\ Ver(ch, dk, 0, k) = dk[k]
                      /\ Ver(ch, dk, 1, k) = ch[1][k]
  BY DEF Ver
<1>v. Kept(ch, ch2, dk, dk2, j, d)
  BY ShiftVer
<1>b. Found(ch, ch2, dk, dk2, j, d)
  BY ShiftBack
<1>3. ASSUME NEW n \in 0..Len(ch2)
      PROVE  \E m \in 0..Len(ch) : Unclaimed(ch2, dk2, n) \subseteq Unclaimed(ch, dk, m)
  <2>1. CASE n # 0
    <3>1. n + d \in 0..Len(ch) /\ n \in Nat /\ n >= 1
      BY <1>1, <2>1
    <3>2. ASSUME NEW k \in Unclaimed(ch2, dk2, n) PROVE k \in Unclaimed(ch, dk, n + d)
      <4>1. k \in Jobs
        BY DEF Unclaimed
      <4>2. \E m \in 0..n + d : Ver(ch, dk, m, k).state = "queued"
        <5>1. PICK i \in 0..n : Ver(ch2, dk2, i, k).state = "queued"
          BY DEF Unclaimed
        <5>2. CASE i = 0
          <6>1. Ver(ch, dk, IF k = j THEN 1 ELSE 0, k) = Ver(ch2, dk2, i, k)
            BY <1>2, <4>1, <5>2 DEF Stored
          <6>2. (IF k = j THEN 1 ELSE 0) \in 0..n + d
            BY <3>1
          <6> QED
            BY <5>1, <6>1, <6>2
        <5>3. CASE i # 0
          <6>1. i \in 1..Len(ch2) /\ i + d \in 0..n + d
            BY <1>1, <5>3
          <6>2. Ver(ch2, dk2, i, k) = Ver(ch, dk, i + d, k)
            BY <1>v, <4>1, <5>1, <6>1, NoFileRank DEF Kept
          <6> QED
            BY <5>1, <6>1, <6>2
        <5> QED
          BY <5>2, <5>3
      <4>3. \A i \in 0..n : Rank(Ver(ch2, dk2, i, k).state) <= 1
        BY DEF Unclaimed
      <4>4. ASSUME NEW m \in 0..n + d PROVE Rank(Ver(ch, dk, m, k).state) <= 1
        <5>1. Rank(dk2[k].state) <= 1
          BY <1>2, <3>1, <4>1, <4>3
        <5>2. CASE k # j /\ m = 0
          BY <1>2, <4>1, <5>1, <5>2 DEF Stored
        <5>3. CASE k = j /\ m = 1
          BY <1>2, <4>1, <5>1, <5>3 DEF Stored
        <5>4. CASE k = j /\ m = 0
          <6>1. 1 \in 0..Len(ch) /\ Rank(Ver(ch, dk, 0, k).state) <= Rank(Ver(ch, dk, 1, k).state)
            BY <1>1, <1>2, <4>1, <5>4 DEF InOrder
          <6>2. Ver(ch, dk, 1, k) = dk2[k]
            BY <1>2, <4>1, <5>4 DEF Stored
          <6> QED
            BY <5>1, <5>4, <6>1, <6>2, RankTyped
        <5>5. CASE m # 0 /\ (k = j => m # 1)
          <6>1. m \in 1..Len(ch) /\ (k = j => m >= 2)
            BY <1>1, <5>5
          <6>2. CASE Ver(ch, dk, m, k) = NoFile
            BY <6>2, NoFileRank
          <6>3. CASE Ver(ch, dk, m, k) # NoFile
            <7>1. m - d \in 1..Len(ch2) /\ Ver(ch2, dk2, m - d, k) = Ver(ch, dk, m, k)
              BY <1>b, <4>1, <6>1, <6>3 DEF Found
            <7>2. m - d \in 0..n
              BY <3>1, <6>1, <7>1
            <7> QED
              BY <4>3, <7>1, <7>2
          <6> QED
            BY <6>2, <6>3
        <5> QED
          BY <5>2, <5>3, <5>4, <5>5
      <4> QED
        BY <4>1, <4>2, <4>4 DEF Unclaimed
    <3> QED
      BY <3>1, <3>2
  <2>2. CASE n = 0 /\ ch[1][j].state = "queued"
    <3>1. 1 \in 0..Len(ch) /\ 1 \in 1..Len(ch)
      BY <1>1
    <3>2. \A k \in Jobs \ {j} : ch[1][k] = NoFile
      BY <2>2, <3>1 DEF Single
    <3>3. Rank(Ver(ch, dk, 0, j).state) <= 1
      <4>1. Ver(ch, dk, 1, j) # NoFile /\ Rank(Ver(ch, dk, 1, j).state) = 1
        BY <1>2, <2>2, RankTyped
      <4> QED
        BY <3>1, <4>1 DEF InOrder
    <3>4. ASSUME NEW k \in Unclaimed(ch2, dk2, n) PROVE k \in Unclaimed(ch, dk, 1)
      <4>1. k \in Jobs /\ dk2[k].state = "queued"
        BY <1>2, <2>2 DEF Unclaimed
      <4>2. CASE k = j
        BY <1>2, <2>2, <3>3, <4>1, <4>2, RankTyped DEF Unclaimed
      <4>3. CASE k # j
        BY <1>2, <3>2, <4>1, <4>3, NoFileRank, RankTyped DEF Unclaimed, Stored
      <4> QED
        BY <4>2, <4>3
    <3> QED
      BY <3>1, <3>4
  <2>3. CASE n = 0 /\ ch[1][j].state # "queued"
    <3>1. ASSUME NEW k \in Unclaimed(ch2, dk2, n) PROVE k \in Unclaimed(ch, dk, 0)
      <4>1. k \in Jobs /\ dk2[k].state = "queued"
        BY <1>2, <2>3 DEF Unclaimed
      <4>2. k # j
        BY <2>3, <4>1 DEF Stored
      <4> QED
        BY <1>2, <4>1, <4>2, RankTyped DEF Unclaimed, Stored
    <3> QED
      BY <1>1, <3>1
  <2> QED
    BY <2>1, <2>2, <2>3
<1>4. ASSUME NEW n \in 0..Len(ch2) PROVE Cardinality(Unclaimed(ch2, dk2, n)) <= QueueCap
  <2>1. PICK m \in 0..Len(ch) : Unclaimed(ch2, dk2, n) \subseteq Unclaimed(ch, dk, m)
    BY <1>3
  <2>2. Unclaimed(ch, dk, m) \in SUBSET Jobs /\ Unclaimed(ch2, dk2, n) \in SUBSET Jobs
    BY DEF Unclaimed
  <2>3. Cardinality(Unclaimed(ch, dk, m)) <= QueueCap
    BY DEF Capped
  <2> QED
    BY <2>1, <2>2, <2>3, JobsCounted, QueueAssumption DEF QueueAssumption
<1> QED
  BY <1>4 DEF Capped

-----------------------------------------------------------------------------
(* The handlers.  Each appends links of what memory becomes.               *)
LEMMA AppendAgrees ==
    ASSUME NEW ch \in Seq(Link), NEW dk \in [Jobs -> Snapshot], NEW L \in Link,
           NEW st, NEW rs, NEW st2, NEW rs2, NEW f, NEW B \in SUBSET Jobs,
           AppendsTo(L, st, rs, st2, rs2), Agree(ch, dk, st, rs, f),
           \A j \in Jobs : L[j].state = "queued" => \A k \in Jobs \ {j} : L[k] = NoFile,
           \A j \in Jobs : st2[j] = "queued" => j \in B,
           f = 0 => Cardinality(B) <= QueueCap
    PROVE  Agree(Append(ch, L), dk, st2, rs2, f)
<1>1. InOrder(ch, dk, st) /\ InOrder(Append(ch, L), dk, st2)
  BY AppendInOrder DEF Agree
<1>2. ASSUME f = 0
      PROVE  /\ Reached(Append(ch, L), dk, st2) /\ Newest(Append(ch, L), dk, st2, rs2)
             /\ Single(Append(ch, L)) /\ Capped(Append(ch, L), dk)
  <2>1. /\ Reached(ch, dk, st) /\ Newest(ch, dk, st, rs) /\ Single(ch) /\ Capped(ch, dk)
        /\ Cardinality(B) <= QueueCap
    BY <1>2 DEF Agree
  <2>2. Reached(Append(ch, L), dk, st2)
    BY <2>1, AppendReached
  <2>3. Newest(Append(ch, L), dk, st2, rs2)
    BY <2>1, AppendNewest
  <2>4. Single(Append(ch, L))
    BY <2>1, AppendSingle
  <2>5. Capped(Append(ch, L), dk)
    BY <1>1, <2>1, AppendCapped
  <2> QED
    BY <2>2, <2>3, <2>4, <2>5
<1> QED
  BY <1>1, <1>2 DEF Agree

(* persist of a set of jobs, when only they change and each goes forward.  *)
LEMMA PersistLink ==
    ASSUME TypeOK, NEW S \in SUBSET Jobs,
           state' \in [Jobs -> JobStates], runs' \in [Jobs -> SUBSET RunIds], PersistAll(S),
           \A j \in Jobs \ S : state'[j] = state[j] /\ runs'[j] = runs[j],
           \A j \in S : Rank(state[j]) <= Rank(state'[j]) /\ state'[j] # "none"
    PROVE  \/ S = {} /\ chain' = chain
           \/ \E L \in Link : /\ chain' = Append(chain, L)
                              /\ AppendsTo(L, state, runs, state', runs')
                              /\ \A j \in Jobs : L[j] = IF j \in S THEN Snap(state'[j], runs'[j])
                                                        ELSE NoFile
<1> DEFINE L == [j \in Jobs |-> IF j \in S THEN Snap(state'[j], runs'[j]) ELSE NoFile]
<1>1. CASE S = {}
  BY <1>1 DEF PersistAll
<1>2. CASE S # {}
  <2>1. chain' = Append(chain, L)
    BY <1>2 DEF PersistAll
  <2>2. L \in Link
    BY SnapTyped, EmptyTyped DEF Link
  <2>3. \A j \in Jobs : L[j] = IF j \in S THEN Snap(state'[j], runs'[j]) ELSE NoFile
    OBVIOUS
  <2> HIDE DEF L
  <2>4. ASSUME NEW j \in Jobs
        PROVE  /\ Rank(state[j]) <= Rank(state'[j])
               /\ \/ L[j] = NoFile /\ state'[j] = state[j] /\ runs'[j] = runs[j]
                  \/ L[j] # NoFile /\ L[j] = Snap(state'[j], runs'[j])
    <3>1. CASE j \in S
      BY <2>3, <3>1, SnapFields, NoFileRank
    <3>2. CASE j \notin S
      BY <2>3, <3>2, RankTyped
    <3> QED
      BY <3>1, <3>2
  <2> QED
    BY <2>1, <2>2, <2>3, <2>4 DEF AppendsTo
<1> QED
  BY <1>1, <1>2

(* So a handler that persists what it changes, queues nothing and leaves   *)
(* no more live jobs than before keeps the invariant.                      *)
LEMMA PersistSaves ==
    ASSUME TypeOK, SaveInv, up, up', NEW S \in SUBSET Jobs, PersistAll(S),
           state' \in [Jobs -> JobStates], runs' \in [Jobs -> SUBSET RunIds],
           UNCHANGED <<submitted, disk, failures>>,
           \A j \in Jobs \ S : state'[j] = state[j] /\ runs'[j] = runs[j],
           \A j \in S : /\ Rank(state[j]) <= Rank(state'[j])
                        /\ state[j] # "none" /\ state'[j] \notin {"none", "queued"}
                        /\ state'[j] \in InFlight => j \in Backlog
    PROVE  SaveInv'
<1>1. chain \in Seq(Link) /\ disk \in [Jobs -> Snapshot] /\ failures \in Nat
  BY QueueAssumption DEF TypeOK, QueueAssumption
<1>2. Backlog' \subseteq Backlog /\ Backlog \in SUBSET Jobs
  BY DEF Backlog, QueuedJobs, InFlightJobs
<1>3. failures = 0 => Cardinality(Backlog') <= QueueCap /\ Cardinality(Backlog) <= QueueCap
  <2>1. Cardinality(Backlog') <= Cardinality(Backlog)
    BY <1>2, JobsCounted
  <2>2. Cardinality(Backlog') \in Nat /\ Cardinality(Backlog) \in Nat
    BY <1>2, JobsCounted
  <2> QED
    BY <2>1, <2>2, QueueAssumption DEF SaveInv, QueueAssumption
<1>4. ASSUME NEW j \in Jobs, j > submitted PROVE j \notin S
  BY <1>4 DEF SaveInv, Fresh
<1>5. CASE S = {} /\ chain' = chain
  <2>1. state' = state /\ runs' = runs
    BY <1>5 DEF TypeOK
  <2> QED
    BY <1>3, <1>5, <2>1 DEF SaveInv, Fresh, Dead
<1>6. ASSUME NEW L \in Link, chain' = Append(chain, L),
             AppendsTo(L, state, runs, state', runs'),
             \A j \in Jobs : L[j] = IF j \in S THEN Snap(state'[j], runs'[j]) ELSE NoFile
      PROVE  SaveInv'
  <2>1. \A j \in Jobs : L[j].state # "queued"
    BY <1>6, SnapFields, NoFileRank
  <2>2. \A j \in Jobs : state'[j] = "queued" => j \in Backlog
    BY DEF Backlog, QueuedJobs
  <2>3. Agree(chain, disk, state, runs, failures)
    BY DEF SaveInv
  <2>4. Agree(Append(chain, L), disk, state', runs', failures)
    BY <1>1, <1>2, <1>3, <1>6, <2>1, <2>2, <2>3, AppendAgrees
  <2>5. Fresh'
    <3>1. ASSUME NEW j \in Jobs, j > submitted, NEW i \in 1..Len(Append(chain, L))
          PROVE  Append(chain, L)[i][j] = NoFile
      <4>1. L[j] = NoFile /\ Len(chain) \in Nat
        BY <1>1, <1>4, <1>6, <3>1
      <4>2. i \in 1..Len(chain) \/ i = Len(chain) + 1
        BY <1>1
      <4>3. CASE i \in 1..Len(chain)
        <5>1. Append(chain, L)[i] = chain[i]
          BY <1>1, <4>3
        <5> QED
          BY <3>1, <4>3, <5>1 DEF SaveInv, Fresh
      <4>4. CASE i = Len(chain) + 1
        BY <1>1, <4>1, <4>4
      <4> QED
        BY <4>2, <4>3, <4>4
    <3> QED
      BY <1>4, <1>6, <3>1 DEF SaveInv, Fresh
  <2>6. Agree(chain, disk, state, runs, failures)'
    BY <1>6, <2>4
  <2>7. failures = 0 => Capped(chain', disk')
    BY <2>6 DEF Agree
  <2> QED
    BY <1>3, <2>5, <2>6, <2>7 DEF SaveInv, Dead
<1> QED
  BY <1>5, <1>6, PersistLink

LEMMA SaveSame ==
    SaveInv /\ UNCHANGED <<up, submitted, state, runs, chain, disk, failures>> => SaveInv'
  BY DEF SaveInv, Fresh, Dead, Backlog, QueuedJobs, InFlightJobs

(* submit: the new job's snapshots are its own.                            *)
LEMMA LinkForFields ==
    ASSUME NEW j \in Jobs, NEW snap \in Snapshot
    PROVE  /\ LinkFor(j, snap) \in Link
           /\ \A k \in Jobs : LinkFor(j, snap)[k] = IF k = j THEN snap ELSE NoFile
  BY LinkForTyped, EmptyTyped DEF LinkFor, EmptyLink, Link

LEMMA SaveSubmit == TypeOK /\ SaveInv /\ Submit => SaveInv'
<1> SUFFICES ASSUME TypeOK, SaveInv, Submit PROVE SaveInv'
  OBVIOUS
<1> DEFINE j == submitted + 1
           B == Backlog \cup {j}
           st1 == [state EXCEPT ![j] = "queued"]
           L1 == LinkFor(j, Snap("queued", {}))
<1>1. /\ j \in Jobs /\ j > submitted /\ submitted \in Nat /\ up /\ up'
      /\ Cardinality(Backlog) < QueueCap /\ submitted' = j
      /\ UNCHANGED <<disk, failures, runs>>
  BY QueueAssumption DEF Submit, SubmitParked, SubmitAssigned, CanSubmit, TypeOK, Jobs,
                         QueueAssumption, faults
<1>2. chain \in Seq(Link) /\ disk \in [Jobs -> Snapshot] /\ state \in [Jobs -> JobStates]
  BY DEF TypeOK
<1>3. state[j] = "none" /\ runs[j] = {}
  BY <1>1 DEF SaveInv, Fresh
<1>4. /\ Snap("queued", {}) \in Snapshot /\ Snap("claimed", {}) \in Snapshot
      /\ Snap("queued", {}).state = "queued" /\ Snap("claimed", {}).state = "claimed"
  BY SnapTyped, SnapFields DEF JobStates, InFlight
<1>5. /\ L1 \in Link
      /\ \A k \in Jobs : L1[k] = IF k = j THEN Snap("queued", {}) ELSE NoFile
  BY <1>1, <1>4, LinkForFields
<1>6. /\ st1[j] = "queued" /\ \A k \in Jobs \ {j} : st1[k] = state[k]
  BY <1>1, <1>2
<1>7. B \in SUBSET Jobs /\ Cardinality(B) <= QueueCap
  <2>1. Backlog \in SUBSET Jobs /\ IsFiniteSet(Backlog) /\ j \notin Backlog
    BY <1>3, JobsCounted DEF Backlog, QueuedJobs, InFlightJobs, InFlight
  <2>2. Cardinality(Backlog \cup {j}) = Cardinality(Backlog) + 1 /\ Cardinality(Backlog) \in Nat
    BY <2>1, JobsCounted, FS_AddElement
  <2> QED
    BY <1>1, <2>1, <2>2, QueueAssumption DEF QueueAssumption
<1>8. AppendsTo(L1, state, runs, st1, runs)
  <2>1. Rank("none") = 0 /\ Rank("queued") = 1
    BY RankTyped
  <2> QED
    BY <1>3, <1>4, <1>5, <1>6, <2>1, NoFileRank, RankTyped DEF AppendsTo
<1>9. \A k \in Jobs : /\ L1[k].state = "queued" => \A l \in Jobs \ {k} : L1[l] = NoFile
                      /\ st1[k] = "queued" => k \in B
  BY <1>5, <1>6, NoFileRank DEF Backlog, QueuedJobs
<1>10. \A k \in Jobs : k > submitted => /\ state[k] = "none" /\ runs[k] = {} /\ disk[k] = NoFile
                                        /\ \A i \in 1..Len(chain) : chain[i][k] = NoFile
  BY DEF SaveInv, Fresh
<1>11. Agree(chain, disk, state, runs, failures)
  BY <1>1 DEF SaveInv
<1> HIDE DEF st1, L1, B
<1>12. Agree(Append(chain, L1), disk, st1, runs, failures)
  BY <1>2, <1>5, <1>7, <1>8, <1>9, <1>11, AppendAgrees
<1>13. /\ Append(chain, L1) \in Seq(Link) /\ Len(chain) \in Nat
       /\ Len(Append(chain, L1)) = Len(chain) + 1 /\ Append(chain, L1)[Len(chain) + 1] = L1
       /\ \A i \in 1..Len(chain) : Append(chain, L1)[i] = chain[i]
  BY <1>2, <1>5
<1>14. \A k \in Jobs, i \in 1..Len(Append(chain, L1)) :
          k > j => Append(chain, L1)[i][k] = NoFile
  <2> SUFFICES ASSUME NEW k \in Jobs, NEW i \in 1..Len(Append(chain, L1)), k > j
               PROVE  Append(chain, L1)[i][k] = NoFile
    OBVIOUS
  <2>1. k > submitted /\ k # j
    BY <1>1 DEF Jobs
  <2>2. CASE i = Len(chain) + 1
    BY <1>5, <1>13, <2>1, <2>2
  <2>3. CASE i # Len(chain) + 1
    <3>1. i \in 1..Len(chain)
      BY <1>13, <2>3
    <3> QED
      BY <1>10, <1>13, <2>1, <3>1
  <2> QED
    BY <2>2, <2>3
<1>15. \A k \in Jobs : k > j => k > submitted /\ k # j
  BY <1>1 DEF Jobs
<1>16. ASSUME Agree(chain, disk, state, runs, failures)', Backlog' \subseteq B,
              \A k \in Jobs \ {j} : state'[k] = state[k],
              \A k \in Jobs, i \in 1..Len(chain') : k > j => chain'[i][k] = NoFile
       PROVE  SaveInv'
  <2>1. Fresh' /\ Dead'
    BY <1>1, <1>10, <1>15, <1>16 DEF Fresh, Dead
  <2>2. Cardinality(Backlog') <= QueueCap
    <3>1. /\ Cardinality(Backlog') <= Cardinality(B) /\ Cardinality(Backlog') \in Nat
          /\ Cardinality(B) \in Nat
      BY <1>7, <1>16, JobsCounted
    <3> QED
      BY <1>7, <3>1, QueueAssumption DEF QueueAssumption
  <2>3. failures' = 0 => Capped(chain, disk)'
    BY <1>16 DEF Agree
  <2> QED
    BY <1>16, <2>1, <2>2, <2>3 DEF SaveInv
<1>17. \A k \in Jobs \ {j} : state'[k] = state[k]
  BY <1>1, <1>2 DEF Submit, SubmitParked, SubmitAssigned
<1>18. Backlog' \subseteq B
  BY <1>17 DEF B, Backlog, QueuedJobs, InFlightJobs
<1>19. CASE SubmitParked
  <2>1. state' = st1 /\ runs' = runs
    BY <1>19 DEF SubmitParked, st1
  <2>2. chain' = Append(chain, [k \in Jobs |-> IF k \in {j} THEN Snap(state'[k], runs'[k])
                                               ELSE NoFile])
    BY <1>19 DEF SubmitParked, Persist, PersistAll
  <2>3. chain' = Append(chain, L1)
    <3>1. L1 = [k \in Jobs |-> L1[k]]
      BY <1>5 DEF Link
    <3>2. [k \in Jobs |-> L1[k]]
             = [k \in Jobs |-> IF k \in {j} THEN Snap(state'[k], runs'[k]) ELSE NoFile]
      BY <1>3, <1>5, <1>6, <2>1
    <3> QED
      BY <2>2, <3>1, <3>2
  <2> QED
    BY <1>1, <1>12, <1>14, <1>16, <1>17, <1>18, <2>1, <2>3
<1>20. CASE SubmitAssigned
  <2> DEFINE L2 == LinkFor(j, Snap("claimed", {}))
  <2>1. /\ L2 \in Link
        /\ \A k \in Jobs : L2[k] = IF k = j THEN Snap("claimed", {}) ELSE NoFile
    BY <1>1, <1>4, LinkForFields
  <2>2. state'[j] = "claimed" /\ \A k \in Jobs \ {j} : state'[k] = st1[k]
    BY <1>1, <1>2, <1>6, <1>20 DEF SubmitAssigned
  <2>3. chain' = chain \o <<L1, L2>>
    BY <1>20 DEF SubmitAssigned, L1
  <2> HIDE DEF L2
  <2>4. chain' = Append(Append(chain, L1), L2)
    BY <1>2, <1>5, <2>1, <2>3
  <2>5. AppendsTo(L2, st1, runs, state', runs')
    <3>1. /\ Rank(st1[j]) <= Rank(state'[j]) /\ L2[j] # NoFile
          /\ L2[j] = Snap(state'[j], runs'[j])
      BY <1>1, <1>3, <1>4, <1>6, <2>1, <2>2, NoFileRank DEF Rank, InFlight
    <3>2. ASSUME NEW k \in Jobs \ {j}
          PROVE  /\ Rank(st1[k]) <= Rank(state'[k]) /\ L2[k] = NoFile
                 /\ state'[k] = st1[k] /\ runs'[k] = runs[k]
      <4>1. state'[k] = st1[k] /\ runs'[k] = runs[k] /\ L2[k] = NoFile
        BY <1>1, <2>1, <2>2
      <4> QED
        BY <4>1, RankTyped
    <3> QED
      BY <3>1, <3>2 DEF AppendsTo
  <2>6. \A k \in Jobs : L2[k].state # "queued"
    BY <1>4, <2>1, NoFileRank
  <2>7. \A k \in Jobs : state'[k] = "queued" => k \in B
    BY <1>6, <1>9, <2>2
  <2>8. Agree(Append(Append(chain, L1), L2), disk, state', runs', failures)
    BY <1>2, <1>7, <1>12, <1>13, <2>1, <2>5, <2>6, <2>7, AppendAgrees
  <2>9. Agree(chain, disk, state, runs, failures)'
    BY <1>1, <2>4, <2>8
  <2>10. \A k \in Jobs, i \in 1..Len(chain') : k > j => chain'[i][k] = NoFile
    <3> DEFINE ch == Append(chain, L1)
    <3>1. /\ Len(chain') = Len(ch) + 1 /\ chain'[Len(ch) + 1] = L2 /\ Len(ch) \in Nat
          /\ \A i \in 1..Len(ch) : chain'[i] = ch[i]
      BY <1>13, <2>1, <2>4
    <3> HIDE DEF ch
    <3> SUFFICES ASSUME NEW k \in Jobs, NEW i \in 1..Len(chain'), k > j
                 PROVE  chain'[i][k] = NoFile
      OBVIOUS
    <3>2. CASE i = Len(ch) + 1
      BY <1>15, <2>1, <3>1, <3>2
    <3>3. CASE i # Len(ch) + 1
      <4>1. i \in 1..Len(ch)
        BY <3>1, <3>3
      <4> QED
        BY <1>14, <3>1, <4>1 DEF ch
    <3> QED
      BY <3>2, <3>3
  <2> QED
    BY <1>16, <1>17, <1>18, <2>9, <2>10
<1> QED
  BY <1>19, <1>20 DEF Submit

LEMMA SaveCalls == TypeOK /\ SaveInv /\ Calls => SaveInv'
<1> SUFFICES ASSUME TypeOK, SaveInv, Calls PROVE SaveInv'
  OBVIOUS
<1> USE DEF faults, memory
<1>1. CASE Submit
  BY <1>1, SaveSubmit
<1>2. TypeOK'
  BY TypeCalls
<1>3. /\ state \in [Jobs -> JobStates] /\ runs \in [Jobs -> SUBSET RunIds]
      /\ state' \in [Jobs -> JobStates] /\ runs' \in [Jobs -> SUBSET RunIds]
  BY <1>2 DEF TypeOK
<1>4. ASSUME NEW j \in Jobs, ClaimQueued(j) PROVE SaveInv'
  <2>1. state[j] = "queued" /\ state'[j] = "claimed" /\ j \in Backlog
    BY <1>3, <1>4 DEF ClaimQueued, IsNextQueued, QueuedJobs, Backlog
  <2>2. Rank(state[j]) <= Rank(state'[j])
    BY <2>1 DEF Rank, InFlight
  <2> QED
    BY <1>3, <1>4, <2>1, <2>2, PersistSaves DEF ClaimQueued, Persist
<1>5. ASSUME NEW w \in Workers, ClaimParked(w) \/ ClaimExpired(w) PROVE SaveInv'
  BY <1>5, SaveSame DEF ClaimParked, ClaimExpired
<1>6. ASSUME NEW j \in Jobs, NEW st \in Progress, NEW rs \in SUBSET RunIds,
             GivenOut(j), Report(j, st, rs)
      PROVE  SaveInv'
  <2>1. CASE state[j] \in Terminal
    BY <1>6, <2>1, SaveSame DEF Report
  <2>2. CASE state[j] \notin Terminal
    <3>1. state[j] \in InFlight /\ j \in Backlog
      BY <1>3, <1>6, <2>2 DEF GivenOut, JobStates, Backlog, InFlightJobs
    <3>2. state'[j] \in InFlight
      BY <1>3, <1>6, <2>2, <3>1, QueueAssumption
         DEF Report, ReportState, QueueAssumption, InFlight
    <3>3. state[j] # "none" /\ state'[j] \notin {"none", "queued"}
      BY <3>1, <3>2 DEF InFlight
    <3>4. Rank(state[j]) = 2 /\ Rank(state'[j]) = 2
      BY <3>1, <3>2, RankTyped
    <3>5. /\ up /\ up' /\ PersistAll({j}) /\ UNCHANGED <<submitted, disk, failures>>
          /\ \A k \in Jobs \ {j} : state'[k] = state[k] /\ runs'[k] = runs[k]
      BY <1>3, <1>6, <2>2 DEF Report, Persist
    <3> QED
      BY <1>3, <3>1, <3>3, <3>4, <3>5, PersistSaves
  <2> QED
    BY <2>1, <2>2
<1>7. ASSUME NEW j \in Jobs, NEW st \in Outcomes, GivenOut(j), Done(j, st) PROVE SaveInv'
  <2>1. state'[j] \in Terminal /\ state[j] # "none"
    BY <1>3, <1>7, QueueAssumption DEF Done, GivenOut, QueueAssumption, Terminal
  <2>2. state'[j] \notin {"none", "queued"} /\ state'[j] \notin InFlight
    BY <2>1 DEF Terminal, InFlight
  <2>3. Rank(state[j]) <= Rank(state'[j])
    BY <1>3, <2>1, RankTyped
  <2> QED
    BY <1>3, <1>7, <2>1, <2>2, <2>3, PersistSaves DEF Done, Persist
<1>8. ASSUME NEW j \in Jobs, StopQueued(j) PROVE SaveInv'
  <2>1. state[j] = "queued" /\ state'[j] = "stopped"
    BY <1>3, <1>8 DEF StopQueued
  <2>2. Rank(state[j]) <= Rank(state'[j]) /\ state'[j] \notin InFlight
    BY <2>1 DEF Rank, InFlight
  <2> QED
    BY <1>3, <1>8, <2>1, <2>2, PersistSaves DEF StopQueued, Persist
<1>9. ASSUME NEW j \in Jobs, StopInFlight(j) PROVE SaveInv'
  BY <1>9, SaveSame DEF StopInFlight
<1>10. CASE InterruptJobs
  <2>1. /\ \A j \in InFlightJobs : state[j] \in InFlight /\ state'[j] = "orphaned"
        /\ \A j \in Jobs \ InFlightJobs : state'[j] = state[j]
        /\ InFlightJobs \in SUBSET Jobs
    BY <1>10 DEF InterruptJobs, InFlightJobs
  <2>2. ASSUME NEW j \in InFlightJobs
        PROVE  /\ Rank(state[j]) <= Rank(state'[j]) /\ state[j] # "none"
               /\ state'[j] \notin {"none", "queued"} /\ state'[j] \notin InFlight
    BY <2>1 DEF Rank, InFlight
  <2> QED
    BY <1>3, <1>10, <2>1, <2>2, PersistSaves DEF InterruptJobs
<1> QED
  BY <1>1, <1>4, <1>5, <1>6, <1>7, <1>8, <1>9, <1>10 DEF Calls

-----------------------------------------------------------------------------
(* A write takes the oldest version of one job to the disk, or loses it.   *)
LEMMA SaveStorage == TypeOK /\ SaveInv /\ Storage => SaveInv'
<1> SUFFICES ASSUME TypeOK, SaveInv, NEW j \in Jobs, WriteSnapshot(j) \/ WriteFails(j)
             PROVE  SaveInv'
  BY DEF Storage
<1>1. /\ up /\ up' /\ WriteOf(j) /\ chain' = ChainAfter(j)
      /\ UNCHANGED <<submitted, state, runs>>
  BY DEF WriteSnapshot, WriteFails, faults, memory
<1>2. /\ chain \in Seq(Link) /\ disk \in [Jobs -> Snapshot] /\ failures \in Nat
  BY QueueAssumption DEF TypeOK, QueueAssumption
<1>3. /\ chain' \in Seq(Link) /\ disk' \in [Jobs -> Snapshot]
  BY TypeStorage DEF Storage, TypeOK
<1>4. /\ Len(chain) >= 1 /\ chain[1] = Head(chain) /\ chain[1][j] # NoFile
      /\ \E d \in {0, 1} : Shifted(chain, ChainAfter(j), j, d)
  BY <1>1, <1>2, ChainShifts
<1>5. PICK d \in {0, 1} : Shifted(chain, chain', j, d)
  BY <1>1, <1>4
<1>6. /\ failures' = 0 => failures = 0 /\ Stored(chain, disk, disk', j)
      /\ disk' = disk \/ Stored(chain, disk, disk', j)
  <2>1. CASE WriteSnapshot(j)
    BY <1>2, <1>4, <2>1 DEF WriteSnapshot, Stored, faults
  <2>2. CASE WriteFails(j)
    BY <1>2, <2>2 DEF WriteFails
  <2> QED
    BY <2>1, <2>2
<1>7. Agree(chain, disk, state, runs, failures)
  BY <1>1 DEF SaveInv
<1>8. InOrder(chain, disk, state) /\ InOrder(chain', disk', state)
  BY <1>2, <1>3, <1>4, <1>5, <1>6, <1>7, WriteInOrder DEF Agree
<1>9. ASSUME failures' = 0
      PROVE  /\ Reached(chain', disk', state) /\ Newest(chain', disk', state, runs)
             /\ Single(chain') /\ Capped(chain', disk')
  <2>1. /\ failures = 0 /\ Stored(chain, disk, disk', j)
        /\ Reached(chain, disk, state) /\ Newest(chain, disk, state, runs)
        /\ Single(chain) /\ Capped(chain, disk)
    BY <1>6, <1>7, <1>9 DEF Agree
  <2>2. Reached(chain', disk', state)
    BY <1>2, <1>3, <1>4, <1>5, <1>8, <2>1, WriteReached
  <2>3. Newest(chain', disk', state, runs)
    BY <1>2, <1>3, <1>4, <1>5, <2>1, WriteNewest
  <2>4. Single(chain')
    BY <1>2, <1>3, <1>4, <1>5, <2>1, WriteSingle
  <2>5. Capped(chain', disk')
    BY <1>2, <1>3, <1>4, <1>5, <1>8, <2>1, WriteCapped
  <2> QED
    BY <2>2, <2>3, <2>4, <2>5
<1>10. Agree(chain, disk, state, runs, failures)'
  BY <1>1, <1>8, <1>9 DEF Agree
<1>11. Fresh'
  <2> SUFFICES ASSUME NEW k \in Jobs, k > submitted
               PROVE  /\ state[k] = "none" /\ runs[k] = {} /\ disk'[k] = NoFile
                      /\ \A i \in 1..Len(chain') : chain'[i][k] = NoFile
    BY <1>1 DEF Fresh
  <2>1. /\ state[k] = "none" /\ runs[k] = {} /\ disk[k] = NoFile
        /\ \A i \in 1..Len(chain) : chain[i][k] = NoFile
    BY DEF SaveInv, Fresh
  <2>2. k # j
    BY <1>2, <1>4, <2>1
  <2>3. disk'[k] = NoFile
    BY <1>6, <2>1, <2>2 DEF Stored
  <2>4. ASSUME NEW i \in 1..Len(chain') PROVE chain'[i][k] = NoFile
    <3>1. i + d \in 1..Len(chain)
      BY <1>2, <1>3, <1>5 DEF Shifted
    <3> QED
      BY <1>5, <2>1, <3>1 DEF Shifted
  <2> QED
    BY <2>1, <2>3, <2>4
<1>12. failures' = 0 => Cardinality(Backlog') <= QueueCap
  BY <1>1, <1>6 DEF SaveInv, Backlog, QueuedJobs, InFlightJobs
<1> QED
  BY <1>1, <1>9, <1>10, <1>11, <1>12 DEF SaveInv, Dead

(* A restart finds on disk what the chain had got to, which the cap covers *)
(* whatever the chain still held.                                          *)
LEMMA FilesCapped ==
    ASSUME NEW ch \in Seq(Link), NEW dk \in [Jobs -> Snapshot], Capped(ch, dk)
    PROVE  /\ Capped(<<>>, dk)
           /\ Cardinality({j \in Jobs : dk[j].state = "queued"}) <= QueueCap
<1>1. 0 \in 0..Len(ch) /\ 0..0 = {0} /\ Len(<<>>) = 0
  OBVIOUS
<1>2. \A j \in Jobs : Ver(ch, dk, 0, j) = dk[j] /\ Ver(<<>>, dk, 0, j) = dk[j]
  BY DEF Ver
<1>3. Unclaimed(<<>>, dk, 0) = Unclaimed(ch, dk, 0)
  BY <1>1, <1>2 DEF Unclaimed
<1>4. Cardinality(Unclaimed(<<>>, dk, 0)) <= QueueCap
  BY <1>1, <1>3 DEF Capped
<1>5. Unclaimed(<<>>, dk, 0) = {j \in Jobs : dk[j].state = "queued"}
  <2>1. \A j \in Jobs : dk[j].state = "queued" => Rank(dk[j].state) <= 1
    BY RankTyped
  <2> QED
    BY <1>1, <1>2, <2>1 DEF Unclaimed
<1> QED
  BY <1>1, <1>4, <1>5 DEF Capped

LEMMA SaveDown == TypeOK /\ SaveInv /\ (Exit \/ Crash) => SaveInv'
<1> SUFFICES ASSUME TypeOK, SaveInv, Down PROVE SaveInv'
  BY DEF Exit, Crash
<1>1. /\ up' = FALSE /\ chain' = <<>> /\ UNCHANGED <<submitted, disk, failures>>
      /\ \A j \in Jobs : state'[j] = "none" /\ runs'[j] = {}
  BY DEF Down
<1>2. Fresh' /\ Dead'
  BY <1>1 DEF SaveInv, Fresh, Dead
<1>3. Backlog' = {}
  BY <1>1 DEF Backlog, QueuedJobs, InFlightJobs, InFlight
<1>4. Cardinality(Backlog') <= QueueCap
  BY <1>3, FS_EmptySet, QueueAssumption DEF QueueAssumption
<1>5. failures' = 0 => Capped(chain', disk')
  BY <1>1, FilesCapped DEF SaveInv, TypeOK
<1> QED
  BY <1>1, <1>2, <1>4, <1>5 DEF SaveInv

LEMMA SaveInit == TypeOK /\ SaveInv /\ InitJobs => SaveInv'
<1> SUFFICES ASSUME TypeOK, SaveInv, InitJobs PROVE SaveInv'
  OBVIOUS
<1> DEFINE st == [j \in Jobs |-> disk[j].state]
           rs == [j \in Jobs |-> disk[j].runs]
           S == {j \in Jobs : disk[j].state \in InFlight}
           L == [j \in Jobs |-> IF j \in S THEN Snap(state'[j], runs'[j]) ELSE NoFile]
           B == {j \in Jobs : disk[j].state = "queued"}
<1>1. /\ ~up /\ up' /\ chain = <<>> /\ UNCHANGED <<submitted, disk, failures>>
      /\ \A j \in Jobs : /\ state'[j] = IF j \in S THEN "orphaned" ELSE st[j]
                         /\ runs'[j] = rs[j]
      /\ PersistAll(S)
  BY DEF InitJobs, SaveInv, Dead, faults
<1>2. /\ disk \in [Jobs -> Snapshot] /\ <<>> \in Seq(Link) /\ Len(<<>>) = 0 /\ 0..0 = {0}
      /\ failures \in Nat /\ failures' = failures
  BY <1>1, QueueAssumption DEF TypeOK, QueueAssumption
<1>3. \A j \in Jobs : /\ disk[j] = Snap(st[j], rs[j]) /\ st[j] \in JobStates
                      /\ rs[j] \in SUBSET RunIds /\ Ver(<<>>, disk, 0, j) = disk[j]
                      /\ disk[j].state = st[j]
  BY <1>2 DEF Snapshot, Snap, Ver
<1>4. failures = 0 => Capped(<<>>, disk) /\ Cardinality(B) <= QueueCap
  BY <1>1, <1>2, FilesCapped DEF SaveInv
<1>5. Agree(<<>>, disk, st, rs, failures)
  <2>1. InOrder(<<>>, disk, st)
    BY <1>2, <1>3, RankTyped DEF InOrder
  <2>2. Reached(<<>>, disk, st)
    BY <1>2, <1>3 DEF Reached
  <2>3. Newest(<<>>, disk, st, rs)
    BY <1>2, <1>3 DEF Newest
  <2>4. Single(<<>>)
    BY <1>2 DEF Single
  <2> QED
    BY <1>4, <2>1, <2>2, <2>3, <2>4 DEF Agree
<1>6. /\ state' \in [Jobs -> JobStates] /\ runs' \in [Jobs -> SUBSET RunIds]
  BY TypeProcess DEF Process, TypeOK
<1>7. L \in Link
  BY <1>6, SnapTyped, EmptyTyped DEF Link
<1>8. \A j \in Jobs : L[j] = IF j \in S THEN Snap(state'[j], runs'[j]) ELSE NoFile
  OBVIOUS
<1>9. chain' = IF S = {} THEN <<>> ELSE Append(<<>>, L)
  BY <1>1 DEF PersistAll
<1>10. Backlog' \subseteq B /\ B \in SUBSET Jobs
  <2>1. ASSUME NEW j \in Jobs, state'[j] \in {"queued"} \cup InFlight PROVE j \in B
    <3>1. j \notin S
      BY <1>1, <2>1 DEF InFlight
    <3>2. st[j] = "queued"
      BY <1>1, <1>3, <2>1, <3>1
    <3> QED
      BY <1>3, <3>2
  <2> QED
    BY <2>1 DEF Backlog, QueuedJobs, InFlightJobs
<1>11. \A j \in Jobs : state'[j] = "queued" => j \in B
  BY <1>10 DEF Backlog, QueuedJobs
<1>12. \A j \in Jobs : /\ j \in S => st[j] \in InFlight
                       /\ j \notin S => st[j] \notin InFlight
                       /\ j > submitted => disk[j] = NoFile
  BY <1>1, <1>3 DEF SaveInv, Fresh
<1> HIDE DEF st, rs, S, L, B
<1>13. \A j \in Jobs : j > submitted => j \notin S /\ state'[j] = "none" /\ runs'[j] = {}
  <2>1. \A j \in Jobs : j > submitted => st[j] = "none" /\ rs[j] = {}
    BY <1>3, <1>12, SnapFields DEF NoFile
  <2> QED
    BY <1>1, <1>12, <2>1 DEF InFlight
<1>14. failures = 0 => Cardinality(Backlog') <= QueueCap
  <2>1. /\ Cardinality(Backlog') <= Cardinality(B) /\ Cardinality(Backlog') \in Nat
        /\ Cardinality(B) \in Nat
    BY <1>10, JobsCounted
  <2> QED
    BY <1>4, <2>1, QueueAssumption DEF QueueAssumption
<1>15. ASSUME Agree(chain, disk, state, runs, failures)',
              \A j \in Jobs : j > submitted => \A i \in 1..Len(chain') : chain'[i][j] = NoFile
       PROVE  SaveInv'
  <2>1. Fresh' /\ Dead'
    BY <1>1, <1>12, <1>13, <1>15 DEF Fresh, Dead
  <2>2. failures' = 0 => Capped(chain', disk')
    BY <1>15 DEF Agree
  <2> QED
    BY <1>1, <1>14, <1>15, <2>1, <2>2 DEF SaveInv
<1>16. CASE S = {}
  <2>1. state' = st /\ runs' = rs
    BY <1>1, <1>6, <1>16 DEF st, rs
  <2>2. Agree(chain, disk, state, runs, failures)'
    BY <1>1, <1>5, <1>9, <1>16, <2>1
  <2> QED
    BY <1>2, <1>9, <1>15, <1>16, <2>2
<1>17. CASE S # {}
  <2>1. \A j \in Jobs : L[j].state # "queued"
    BY <1>1, <1>8, SnapFields, NoFileRank
  <2>2. AppendsTo(L, st, rs, state', runs')
    <3>1. ASSUME NEW j \in Jobs, j \in S
          PROVE  /\ Rank(st[j]) <= Rank(state'[j])
                 /\ L[j] # NoFile /\ L[j] = Snap(state'[j], runs'[j])
      <4>1. state'[j] = "orphaned" /\ L[j] = Snap(state'[j], runs'[j])
        BY <1>1, <1>8, <3>1
      <4>2. L[j] # NoFile
        BY <4>1, SnapFields, NoFileRank
      <4>3. Rank(st[j]) <= Rank(state'[j])
        BY <1>12, <3>1, <4>1 DEF Rank, InFlight
      <4> QED
        BY <4>1, <4>2, <4>3
    <3>2. ASSUME NEW j \in Jobs, j \notin S
          PROVE  /\ Rank(st[j]) <= Rank(state'[j])
                 /\ L[j] = NoFile /\ state'[j] = st[j] /\ runs'[j] = rs[j]
      BY <1>1, <1>8, <3>2, RankTyped
    <3> QED
      BY <3>1, <3>2 DEF AppendsTo
  <2>3. Agree(Append(<<>>, L), disk, state', runs', failures)
    BY <1>2, <1>4, <1>5, <1>7, <1>10, <1>11, <2>1, <2>2, AppendAgrees
  <2>4. chain' = Append(<<>>, L)
    BY <1>9, <1>17
  <2>5. Agree(chain, disk, state, runs, failures)'
    BY <1>1, <2>3, <2>4
  <2>6. Len(chain') = 1 /\ chain'[1] = L
    BY <2>4
  <2> QED
    BY <1>8, <1>13, <1>15, <2>5, <2>6
<1> QED
  BY <1>16, <1>17

LEMMA SaveStart == Init => SaveInv
<1> SUFFICES ASSUME Init PROVE SaveInv
  OBVIOUS
<1>1. /\ up /\ chain = <<>> /\ disk \in [Jobs -> Snapshot] /\ failures = 0
      /\ Len(<<>>) = 0 /\ 0..0 = {0}
      /\ \A j \in Jobs : /\ state[j] = "none" /\ runs[j] = {} /\ disk[j] = NoFile
                         /\ Ver(<<>>, disk, 0, j) = NoFile
  BY EmptyTyped DEF Init, Ver
<1>2. Fresh /\ Dead
  BY <1>1 DEF Fresh, Dead
<1>3. Backlog = {} /\ Unclaimed(<<>>, disk, 0) = {}
  BY <1>1, NoFileRank DEF Backlog, QueuedJobs, InFlightJobs, InFlight, Unclaimed
<1>4. Cardinality({}) <= QueueCap
  BY FS_EmptySet, QueueAssumption DEF QueueAssumption
<1>5. Capped(<<>>, disk)
  BY <1>1, <1>3, <1>4 DEF Capped
<1>6. InOrder(<<>>, disk, state) /\ Reached(<<>>, disk, state)
  BY <1>1, NoFileRank DEF InOrder, Reached
<1>7. Newest(<<>>, disk, state, runs) /\ Single(<<>>)
  <2>1. \A j \in Jobs : disk[j] = Snap(state[j], runs[j])
    BY <1>1 DEF NoFile
  <2>2. \A i \in 1..Len(<<>>) : FALSE
    BY <1>1
  <2>3. Newest(<<>>, disk, state, runs)
    BY <2>1, <2>2 DEF Newest
  <2>4. Single(<<>>)
    BY <2>2 DEF Single
  <2> QED
    BY <2>3, <2>4
<1> QED
  BY <1>1, <1>2, <1>3, <1>4, <1>5, <1>6, <1>7 DEF SaveInv, Agree

LEMMA SaveNext == TypeOK /\ SaveInv /\ [Next]_vars => SaveInv'
<1>1. TypeOK /\ SaveInv /\ Next => SaveInv'
  BY SaveCalls, SaveStorage, SaveDown, SaveInit DEF Next, Queue, Process
<1>2. SaveInv /\ UNCHANGED vars => SaveInv'
  BY SaveSame DEF vars
<1> QED
  BY <1>1, <1>2

LEMMA AlwaysSaved == Spec => []SaveInv
  BY SaveStart, SaveNext, TypeCorrect, PTL DEF Spec

(* Every change of a job reaches the chain: while no write was refused the *)
(* newest snapshot of a job, pending or written, is what memory holds      *)
(* (queue.ts: persist after every change of submit, claim, report, done,   *)
(* stopJob, interruptJobs and initJobs).                                   *)
THEOREM NothingIsUnsaved == Spec => []NothingUnsaved
<1>1. TypeOK /\ SaveInv => NothingUnsaved
  <2> SUFFICES ASSUME TypeOK, SaveInv, up, failures = 0, NEW j \in Jobs
               PROVE  IF PendingFor(j) = {} THEN disk[j] = Snap(state[j], runs[j])
                      ELSE \A i \in PendingFor(j) :
                              IsNewest(j, i) => chain[i][j] = Snap(state[j], runs[j])
    BY DEF NothingUnsaved
  <2>1. Newest(chain, disk, state, runs) /\ Len(chain) \in Nat
    BY DEF SaveInv, Agree, TypeOK
  <2>2. CASE PendingFor(j) = {}
    BY <2>1, <2>2 DEF Newest, PendingFor
  <2>3. ASSUME NEW i \in PendingFor(j), IsNewest(j, i)
        PROVE  chain[i][j] = Snap(state[j], runs[j])
    <3>1. i \in 1..Len(chain) /\ chain[i][j] # NoFile
      BY DEF PendingFor
    <3>2. ASSUME NEW k \in i + 1..Len(chain) PROVE chain[k][j] = NoFile
      <4>1. k \in 1..Len(chain) /\ ~(k <= i)
        BY <2>1, <3>1
      <4> QED
        BY <2>3, <4>1 DEF IsNewest, PendingFor
    <3> QED
      BY <2>1, <3>1, <3>2 DEF Newest
  <2> QED
    BY <2>2, <2>3
<1> QED
  BY <1>1, AlwaysSaved, TypeCorrect, PTL

(* The backlog cap holds at every moment, also after a crash anywhere in   *)
(* the chain of writes (queue.ts: the QUEUE_CAP check of submit).          *)
THEOREM BacklogAlwaysCapped == Spec => []BacklogCapped
<1>1. SaveInv => BacklogCapped
  BY DEF SaveInv, BacklogCapped
<1> QED
  BY <1>1, AlwaysSaved, PTL

-----------------------------------------------------------------------------
(* How often a job is given out.                                           *)

(* The crashes and refused writes so far.                                  *)
Losses == crashes + failures

(* Nothing on the disk or underway to it says that the job was given out.  *)
Unrecorded(j) == \A i \in 0..Len(chain) : Rank(Ver(chain, disk, i, j).state) <= 1

(* A job is given out once more than there were losses, and only then if   *)
(* that has left a trace.                                                  *)
Counted(j) == /\ handed[j] <= Losses + 1
              /\ Unrecorded(j) => handed[j] <= Losses
ReplayInv == \A j \in Jobs : Counted(j)

LEMMA LossesTyped == TypeOK => Losses \in Nat /\ \A j \in Jobs : handed[j] \in Nat
  BY QueueAssumption DEF TypeOK, QueueAssumption, Losses

(* A chain that is added to still has all traces.                          *)
Longer ==
    /\ Len(chain) <= Len(chain')
    /\ \A i \in 1..Len(chain) : chain'[i] = chain[i]
    /\ disk' = disk
LEMMA TracesStay ==
    ASSUME TypeOK, TypeOK', Longer, NEW j \in Jobs, Unrecorded(j)'
    PROVE  Unrecorded(j)
<1> SUFFICES ASSUME NEW i \in 0..Len(chain) PROVE Rank(Ver(chain, disk, i, j).state) <= 1
  BY DEF Unrecorded
<1>1. Len(chain) \in Nat /\ Len(chain') \in Nat /\ i \in 0..Len(chain')
  BY DEF TypeOK, Longer
<1>2. Ver(chain', disk', i, j) = Ver(chain, disk, i, j)
  BY <1>1 DEF Ver, Longer
<1>3. Rank(Ver(chain', disk', i, j).state) <= 1
  BY <1>1 DEF Unrecorded
<1> QED
  BY <1>2, <1>3

LEMMA PersistLonger ==
    ASSUME TypeOK, NEW S, PersistAll(S), disk' = disk
    PROVE  Longer
<1>1. chain \in Seq(Link)
  BY DEF TypeOK
<1>2. ASSUME NEW L, chain' = Append(chain, L) PROVE Longer
  BY <1>1, <1>2 DEF Longer
<1>3. chain' = chain \/ \E L : chain' = Append(chain, L)
  BY DEF PersistAll
<1>4. CASE chain' = chain
  BY <1>1, <1>4 DEF Longer
<1> QED
  BY <1>2, <1>3, <1>4

(* A job that is not given out in a step keeps its count.                  *)
LEMMA CountStays ==
    ASSUME TypeOK, NEW j \in Jobs, Counted(j), handed'[j] = handed[j], UNCHANGED <<crashes, failures>>,
           Unrecorded(j)' => Unrecorded(j)
    PROVE  Counted(j)'
  BY DEF Counted, Losses

(* A loss may take the trace, and is counted itself.                       *)
LEMMA LossIsCounted ==
    ASSUME TypeOK, NEW j \in Jobs, Counted(j), handed'[j] = handed[j],
           \/ crashes' = crashes + 1 /\ failures' = failures
           \/ crashes' = crashes /\ failures' = failures + 1
    PROVE  Counted(j)'
<1>1. crashes \in Nat /\ failures \in Nat /\ handed[j] \in Nat
  BY QueueAssumption DEF TypeOK, QueueAssumption
<1> QED
  BY <1>1 DEF Counted, Losses

(* Giving out a job of which no trace was left leaves one.                 *)
LEMMA GivenIsCounted ==
    ASSUME TypeOK, TypeOK', NEW j \in Jobs, Counted(j), Unrecorded(j),
           handed' = [handed EXCEPT ![j] = @ + 1], UNCHANGED <<crashes, failures>>,
           Len(chain') > 0, chain'[Len(chain')][j].state = "claimed"
    PROVE  Counted(j)'
<1>1. Losses \in Nat /\ handed[j] \in Nat /\ handed'[j] = handed[j] + 1 /\ Losses' = Losses
  BY LossesTyped DEF TypeOK, Losses
<1>2. Len(chain') \in Nat /\ Len(chain') \in 0..Len(chain') /\ Len(chain') # 0
  BY DEF TypeOK
<1>3. Ver(chain', disk', Len(chain'), j).state = "claimed"
  BY <1>2 DEF Ver
<1>4. Rank("claimed") = 2
  BY RankTyped DEF InFlight
<1>5. ~Unrecorded(j)'
  BY <1>2, <1>3, <1>4 DEF Unrecorded
<1> QED
  BY <1>1, <1>5 DEF Counted

(* What memory has as not given out left no trace: none is ahead of it.    *)
LEMMA WaitingIsUnrecorded ==
    ASSUME TypeOK, SaveInv, up, NEW j \in Jobs, state[j] \in {"none", "queued"}
    PROVE  Unrecorded(j)
<1>1. InOrder(chain, disk, state)
  BY DEF SaveInv, Agree
<1>2. Rank(state[j]) <= 1
  BY RankTyped
<1> SUFFICES ASSUME NEW i \in 0..Len(chain) PROVE Rank(Ver(chain, disk, i, j).state) <= 1
  BY DEF Unrecorded
<1>3. Rank(Ver(chain, disk, i, j).state) <= Rank(state[j])
  BY <1>1 DEF InOrder
<1>4. Rank(Ver(chain, disk, i, j).state) \in 0..3 /\ Rank(state[j]) \in 0..3
  BY RankTyped
<1> QED
  BY <1>2, <1>3, <1>4

LEMMA SubmitCounted == TypeOK /\ SaveInv /\ ReplayInv /\ Submit => ReplayInv'
<1> SUFFICES ASSUME TypeOK, SaveInv, ReplayInv, Submit, NEW k \in Jobs PROVE Counted(k)'
  BY DEF ReplayInv
<1> DEFINE j == submitted + 1
           L1 == LinkFor(j, Snap("queued", {}))
           L2 == LinkFor(j, Snap("claimed", {}))
<1>1. TypeOK' /\ Counted(k) /\ chain \in Seq(Link) /\ up
  BY TypeCalls DEF Calls, ReplayInv, TypeOK, Submit, SubmitParked, SubmitAssigned, CanSubmit
<1>2. CASE SubmitParked
  <2>1. Longer
    BY <1>2, PersistLonger DEF SubmitParked, Persist
  <2> QED
    BY <1>1, <1>2, <2>1, TracesStay, CountStays DEF SubmitParked, faults
<1>3. CASE SubmitAssigned
  <2>1. /\ chain' = chain \o <<L1, L2>> /\ disk' = disk /\ UNCHANGED <<crashes, failures>>
        /\ handed' = [handed EXCEPT ![j] = @ + 1] /\ j \in Jobs /\ submitted \in Nat
    BY <1>3, QueueAssumption DEF SubmitAssigned, faults, CanSubmit, TypeOK, Jobs, QueueAssumption
  <2>2. L1 \in Link /\ L2 \in Link /\ L2[j].state = "claimed"
    <3>1. /\ Snap("queued", {}) \in Snapshot /\ Snap("claimed", {}) \in Snapshot
          /\ Snap("claimed", {}).state = "claimed"
      BY SnapTyped, SnapFields DEF JobStates, InFlight
    <3> HIDE DEF j
    <3> QED
      BY <2>1, <3>1, LinkForFields
  <2> HIDE DEF L1, L2
  <2>3. /\ Len(chain') = Len(chain) + 2 /\ Len(chain) \in Nat /\ chain'[Len(chain) + 2] = L2
        /\ \A i \in 1..Len(chain) : chain'[i] = chain[i]
    BY <1>1, <2>1, <2>2
  <2>4. CASE k = j
    <3>1. state[j] = "none"
      BY <2>1 DEF SaveInv, Fresh
    <3>2. Unrecorded(j)
      BY <1>1, <2>1, <3>1, WaitingIsUnrecorded
    <3>3. Len(chain') > 0 /\ chain'[Len(chain')][j].state = "claimed"
      BY <2>2, <2>3
    <3> HIDE DEF j
    <3> QED
      BY <1>1, <2>1, <2>4, <3>2, <3>3, GivenIsCounted
  <2>5. CASE k # j
    <3>1. Longer
      BY <2>1, <2>3 DEF Longer
    <3>2. handed'[k] = handed[k]
      BY <2>1, <2>5 DEF TypeOK
    <3> QED
      BY <1>1, <2>1, <3>1, <3>2, TracesStay, CountStays
  <2> QED
    BY <2>4, <2>5
<1> QED
  BY <1>2, <1>3 DEF Submit

LEMMA ClaimCounted ==
    ASSUME TypeOK, SaveInv, ReplayInv, NEW j \in Jobs, ClaimQueued(j)
    PROVE  ReplayInv'
<1> SUFFICES ASSUME NEW k \in Jobs PROVE Counted(k)'
  BY DEF ReplayInv
<1> DEFINE L == [i \in Jobs |-> IF i \in {j} THEN Snap(state'[i], runs'[i]) ELSE NoFile]
<1>1. TypeOK' /\ Counted(k) /\ chain \in Seq(Link)
  BY TypeCalls DEF Calls, ReplayInv, TypeOK
<1>2. /\ up /\ state[j] = "queued" /\ state'[j] = "claimed" /\ disk' = disk /\ PersistAll({j})
      /\ UNCHANGED <<crashes, failures>> /\ handed' = [handed EXCEPT ![j] = @ + 1]
  BY DEF ClaimQueued, IsNextQueued, QueuedJobs, Persist, faults, TypeOK
<1>3. chain' = Append(chain, L)
  BY <1>2 DEF PersistAll
<1>4. L[j].state = "claimed"
  BY <1>2, SnapFields
<1> HIDE DEF L
<1>5. CASE k = j
  <2>1. Unrecorded(j)
    BY <1>2, WaitingIsUnrecorded
  <2>2. Len(chain') > 0 /\ chain'[Len(chain')] = L
    BY <1>1, <1>3
  <2>3. chain'[Len(chain')][j].state = "claimed"
    BY <1>4, <2>2
  <2> QED
    BY <1>1, <1>2, <1>5, <2>1, <2>2, <2>3, GivenIsCounted
<1>6. CASE k # j
  <2>1. Longer
    BY <1>2, PersistLonger
  <2>2. handed'[k] = handed[k]
    BY <1>2, <1>6 DEF TypeOK
  <2> QED
    BY <1>1, <1>2, <2>1, <2>2, TracesStay, CountStays
<1> QED
  BY <1>5, <1>6

LEMMA CallsCounted == TypeOK /\ SaveInv /\ ReplayInv /\ Calls => ReplayInv'
<1> SUFFICES ASSUME TypeOK, SaveInv, ReplayInv, Calls PROVE ReplayInv'
  OBVIOUS
<1> USE DEF faults, memory
<1>1. TypeOK' /\ chain \in Seq(Link)
  BY TypeCalls DEF TypeOK
<1>2. CASE UNCHANGED <<chain, disk, handed, faults>>
  <2>1. Longer
    BY <1>1, <1>2 DEF Longer
  <2> SUFFICES ASSUME NEW k \in Jobs PROVE Counted(k)'
    BY DEF ReplayInv
  <2> QED
    BY <1>1, <1>2, <2>1, TracesStay, CountStays DEF ReplayInv
<1>3. ASSUME NEW S, PersistAll(S), UNCHANGED <<disk, handed, faults>> PROVE ReplayInv'
  <2>1. Longer
    BY <1>3, PersistLonger
  <2> SUFFICES ASSUME NEW k \in Jobs PROVE Counted(k)'
    BY DEF ReplayInv
  <2> QED
    BY <1>1, <1>3, <2>1, TracesStay, CountStays DEF ReplayInv
<1>4. ASSUME NEW j \in Jobs, NEW st, NEW rs, Report(j, st, rs) PROVE ReplayInv'
  BY <1>2, <1>3, <1>4 DEF Report, Persist
<1>5. ASSUME NEW w, ClaimParked(w) \/ ClaimExpired(w) PROVE ReplayInv'
  BY <1>2, <1>5 DEF ClaimParked, ClaimExpired
<1>6. ASSUME NEW j, StopInFlight(j) PROVE ReplayInv'
  BY <1>2, <1>6 DEF StopInFlight
<1>7. ASSUME NEW j, NEW st, Done(j, st) \/ StopQueued(j) PROVE ReplayInv'
  BY <1>3, <1>7 DEF Done, StopQueued, Persist
<1>8. CASE InterruptJobs
  BY <1>3, <1>8 DEF InterruptJobs
<1> QED
  BY <1>4, <1>5, <1>6, <1>7, <1>8, SubmitCounted, ClaimCounted DEF Calls

(* The version that is written was not behind the file it replaces.        *)
LEMMA StorageCounted == TypeOK /\ SaveInv /\ ReplayInv /\ Storage => ReplayInv'
<1> SUFFICES ASSUME TypeOK, SaveInv, ReplayInv, NEW j \in Jobs, WriteSnapshot(j) \/ WriteFails(j),
                    NEW k \in Jobs
             PROVE  Counted(k)'
  BY DEF Storage, ReplayInv
<1>1. Counted(k) /\ handed' = handed
  BY DEF ReplayInv, WriteSnapshot, WriteFails, faults, memory
<1>2. CASE WriteFails(j)
  BY <1>1, <1>2, LossIsCounted DEF WriteFails
<1>3. CASE WriteSnapshot(j)
  <2>1. /\ up /\ WriteOf(j) /\ chain' = ChainAfter(j) /\ UNCHANGED <<crashes, failures>>
        /\ chain \in Seq(Link) /\ disk \in [Jobs -> Snapshot] /\ Len(chain) \in Nat
    BY <1>3 DEF WriteSnapshot, faults, TypeOK
  <2>2. chain' \in Seq(Link) /\ disk' \in [Jobs -> Snapshot] /\ Len(chain') \in Nat
    BY TypeStorage DEF Storage, TypeOK
  <2>3. /\ Len(chain) >= 1 /\ chain[1] = Head(chain) /\ chain[1][j] # NoFile
        /\ \E d \in {0, 1} : Shifted(chain, ChainAfter(j), j, d)
    BY <2>1, ChainShifts
  <2>4. PICK d \in {0, 1} : Shifted(chain, chain', j, d)
    BY <2>1, <2>3
  <2>5. disk'[j] = chain[1][j] /\ \A i \in Jobs \ {j} : disk'[i] = disk[i]
    BY <1>3, <2>1, <2>3 DEF WriteSnapshot
  <2>6. Found(chain, chain', disk, disk', j, d)
    BY <2>1, <2>2, <2>3, <2>4, ShiftBack
  <2>7. InOrder(chain, disk, state)
    BY <2>1 DEF SaveInv, Agree
  <2>8. ASSUME Unrecorded(k)', NEW i \in 0..Len(chain)
        PROVE  Rank(Ver(chain, disk, i, k).state) <= 1
    <3>0. \A n \in 0..Len(chain') : Rank(Ver(chain', disk', n, k).state) <= 1
      BY <2>8 DEF Unrecorded
    <3>1. Rank(disk'[k].state) <= 1
      BY <2>2, <3>0 DEF Ver
    <3>2. CASE i = 0
      <4>1. CASE k # j
        BY <2>5, <3>1, <3>2, <4>1 DEF Ver
      <4>2. CASE k = j
        <5>1. Ver(chain, disk, 1, j) = disk'[j] /\ Ver(chain, disk, 1, j) # NoFile
          BY <2>3, <2>5 DEF Ver
        <5>2. Rank(Ver(chain, disk, 0, j).state) <= Rank(Ver(chain, disk, 1, j).state)
          BY <2>1, <2>3, <2>7, <5>1 DEF InOrder
        <5>3. Rank(Ver(chain, disk, 0, j).state) \in 0..3 /\ Rank(disk'[j].state) \in 0..3
          BY RankTyped
        <5> QED
          BY <3>1, <3>2, <4>2, <5>1, <5>2, <5>3
      <4> QED
        BY <4>1, <4>2
    <3>3. CASE i = 1 /\ k = j
      BY <2>5, <3>1, <3>3 DEF Ver
    <3>4. CASE i # 0 /\ (k = j => i >= 2)
      <4>1. \/ Ver(chain, disk, i, k) = NoFile
            \/ i - d \in 1..Len(chain') /\ Ver(chain', disk', i - d, k) = Ver(chain, disk, i, k)
        BY <2>1, <2>6, <3>4 DEF Found
      <4>2. ASSUME i - d \in 1..Len(chain') PROVE i - d \in 0..Len(chain')
        BY <2>1, <2>2, <4>2
      <4> QED
        BY <3>0, <4>1, <4>2, NoFileRank
    <3> QED
      BY <2>1, <3>2, <3>3, <3>4
  <2>9. Unrecorded(k)' => Unrecorded(k)
    BY <2>8 DEF Unrecorded
  <2> QED
    BY <1>1, <2>1, <2>9, CountStays
<1> QED
  BY <1>2, <1>3

LEMMA ProcessCounted == TypeOK /\ SaveInv /\ ReplayInv /\ Process => ReplayInv'
<1> SUFFICES ASSUME TypeOK, SaveInv, ReplayInv, Process, NEW k \in Jobs PROVE Counted(k)'
  BY DEF ReplayInv
<1>1. TypeOK' /\ Counted(k) /\ chain \in Seq(Link)
  BY TypeProcess DEF ReplayInv, TypeOK
<1>2. CASE Exit
  <2>1. Longer /\ UNCHANGED <<handed, crashes, failures>>
    BY <1>2 DEF Exit, Down, Longer
  <2> QED
    BY <1>1, <2>1, TracesStay, CountStays
<1>3. CASE Crash
  BY <1>1, <1>3, LossIsCounted DEF Crash, Down
<1>4. CASE InitJobs
  <2>1. PersistAll({j \in Jobs : disk[j].state \in InFlight}) /\ disk' = disk
        /\ UNCHANGED <<handed, crashes, failures>>
    BY <1>4 DEF InitJobs, faults
  <2>2. Longer
    BY <2>1, PersistLonger
  <2> QED
    BY <1>1, <2>1, <2>2, TracesStay, CountStays
<1> QED
  BY <1>2, <1>3, <1>4 DEF Process

LEMMA ReplayNext == TypeOK /\ SaveInv /\ ReplayInv /\ [Next]_vars => ReplayInv'
<1>1. TypeOK /\ SaveInv /\ ReplayInv /\ Next => ReplayInv'
  BY CallsCounted, StorageCounted, ProcessCounted DEF Next, Queue
<1>2. ReplayInv /\ UNCHANGED vars => ReplayInv'
  BY DEF vars, ReplayInv, Counted, Unrecorded, Losses
<1> QED
  BY <1>1, <1>2

(* queue.ts:1 says that jobs never replay; a crash or a refused write      *)
(* breaks that.  Each costs a job one replay at most, whatever else it     *)
(* loses, and while there is none no job is given out twice, whatever      *)
(* restarts and other calls come between.                                  *)
THEOREM ReplayedOncePerLoss == Spec => []ReplaysAreLosses /\ [](crashes + failures = 0 => NeverReplayed)
<1>1. Init => ReplayInv
  BY QueueAssumption DEF Init, ReplayInv, Counted, Losses
<1>2. TypeOK /\ ReplayInv => ReplaysAreLosses
  <2> SUFFICES ASSUME TypeOK, ReplayInv, NEW j \in Jobs PROVE handed[j] <= 1 + crashes + failures
    BY DEF ReplaysAreLosses
  <2>1. crashes \in Nat /\ failures \in Nat /\ handed[j] \in Nat
    BY QueueAssumption DEF TypeOK, QueueAssumption
  <2> QED
    BY <2>1 DEF ReplayInv, Counted, Losses
<1>3. TypeOK /\ ReplaysAreLosses => (crashes + failures = 0 => NeverReplayed)
  <2> SUFFICES ASSUME TypeOK, ReplaysAreLosses, crashes + failures = 0, NEW j \in Jobs
               PROVE  handed[j] <= 1
    BY DEF NeverReplayed
  <2>1. crashes \in Nat /\ failures \in Nat /\ handed[j] \in Nat
    BY QueueAssumption DEF TypeOK, QueueAssumption
  <2> QED
    BY <2>1 DEF ReplaysAreLosses
<1> QED
  BY <1>1, <1>2, <1>3, ReplayNext, AlwaysSaved, TypeCorrect, PTL DEF Spec

-----------------------------------------------------------------------------
(* The queue implements JobLifecycle: a reader, who sees memory while the  *)
(* server is up and the files while it is down, sees only its steps.       *)
PhaseNames == {"absent", "waiting", "active", "over"}

LEMMA PhaseTyped ==
    ASSUME NEW st \in JobStates
    PROVE  /\ PhaseOf(st) \in PhaseNames
           /\ PhaseOf(st) = "absent" <=> st = "none"
           /\ PhaseOf(st) = "waiting" <=> st = "queued"
           /\ PhaseOf(st) = "active" <=> st \in InFlight
           /\ PhaseOf(st) = "over" <=> st \in Terminal
<1>1. st \in {"none", "queued"} \cup InFlight \cup Terminal
  BY DEF JobStates
<1>2. /\ st \in InFlight => st \notin Terminal /\ st \notin {"none", "queued"}
      /\ st \in Terminal => st \notin InFlight /\ st \notin {"none", "queued"}
  BY DEF InFlight, Terminal
<1>3. CASE st \in {"none", "queued"}
  BY <1>2, <1>3 DEF PhaseOf, PhaseNames
<1>4. CASE st \in InFlight
  BY <1>2, <1>4 DEF PhaseOf, PhaseNames
<1>5. CASE st \in Terminal
  BY <1>2, <1>5 DEF PhaseOf, PhaseNames
<1> QED
  BY <1>1, <1>3, <1>4, <1>5

(* What each of the two views shows of a job.                              *)
FilePhase(st) == IF st \in InFlight THEN "over" ELSE PhaseOf(st)

LEMMA PhasesFields ==
    ASSUME TypeOK
    PROVE  /\ Phases \in [Jobs -> PhaseNames]
           /\ \A j \in Jobs : Phases[j] = IF up THEN PhaseOf(state[j])
                                          ELSE FilePhase(disk[j].state)
<1>1. \A j \in Jobs : Phases[j] = IF up THEN PhaseOf(state[j]) ELSE FilePhase(disk[j].state)
  BY DEF Phases, FilePhase
<1>2. \A j \in Jobs : state[j] \in JobStates /\ disk[j].state \in JobStates
  BY DEF TypeOK, Snapshot
<1>3. \A j \in Jobs : Phases[j] \in PhaseNames
  BY <1>1, <1>2, PhaseTyped DEF FilePhase, PhaseNames
<1>4. Phases = [j \in Jobs |-> Phases[j]]
  BY DEF Phases
<1> QED
  BY <1>1, <1>3, <1>4

LEMMA PhasesAfter ==
    ASSUME TypeOK'
    PROVE  /\ Phases' \in [Jobs -> PhaseNames]
           /\ \A j \in Jobs : Phases'[j] = IF up' THEN PhaseOf(state'[j])
                                           ELSE FilePhase(disk'[j].state)
<1>1. \A j \in Jobs : Phases'[j] = IF up' THEN PhaseOf(state'[j])
                                   ELSE FilePhase(disk'[j].state)
  BY DEF Phases, FilePhase
<1>2. \A j \in Jobs : state'[j] \in JobStates /\ disk'[j].state \in JobStates
  BY DEF TypeOK, Snapshot
<1>3. \A j \in Jobs : Phases'[j] \in PhaseNames
  BY <1>1, <1>2, PhaseTyped DEF FilePhase, PhaseNames
<1>4. Phases' = [j \in Jobs |-> Phases'[j]]
  BY DEF Phases
<1> QED
  BY <1>1, <1>3, <1>4

(* A file is never ahead of memory, so a restart shows the job as it is or *)
(* where it stood before.                                                  *)
LEMMA FileIsEarlier ==
    ASSUME NEW st \in JobStates, NEW f \in JobStates, Rank(f) <= Rank(st)
    PROVE  FilePhase(f) \in Lifecycle!Earlier(PhaseOf(st))
<1>1. /\ st \in {"none", "queued"} \cup InFlight \cup Terminal
      /\ f \in {"none", "queued"} \cup InFlight \cup Terminal
  BY DEF JobStates
<1>2. /\ Rank("none") = 0 /\ Rank("queued") = 1
      /\ st \in InFlight => Rank(st) = 2
      /\ st \in Terminal => Rank(st) = 3
      /\ f \in InFlight => Rank(f) = 2
      /\ f \in Terminal => Rank(f) = 3
  BY RankTyped
<1>3. /\ f = "none" => FilePhase(f) = "absent"
      /\ f = "queued" => FilePhase(f) = "waiting"
      /\ f \in InFlight \cup Terminal => FilePhase(f) = "over"
  <2>1. f \in {"none", "queued"} => f \notin InFlight
    BY DEF InFlight
  <2> QED
    BY <2>1, PhaseTyped DEF FilePhase
<1>4. CASE st = "none"
  <2>1. f = "none"
    BY <1>1, <1>2, <1>4
  <2> QED
    BY <1>3, <1>4, <2>1, PhaseTyped DEF Lifecycle!Earlier
<1>5. CASE st = "queued"
  <2>1. f \in {"none", "queued"}
    BY <1>1, <1>2, <1>5
  <2> QED
    BY <1>3, <1>5, <2>1, PhaseTyped DEF Lifecycle!Earlier
<1>6. CASE st \in InFlight
  BY <1>1, <1>3, <1>6, PhaseTyped DEF Lifecycle!Earlier
<1>7. CASE st \in Terminal
  BY <1>1, <1>3, <1>7, PhaseTyped DEF Lifecycle!Earlier
<1> QED
  BY <1>1, <1>4, <1>5, <1>6, <1>7

(* The two modules count sets alike.                                       *)
LEMMA SameCardinality == \A S : Lifecycle!Cardinality(S) = Cardinality(S)
  BY DEF Lifecycle!Cardinality, Cardinality

(* The jobs a reader counts as live are the backlog.                       *)
LEMMA LiveIsBacklog ==
    ASSUME TypeOK, up
    PROVE  Lifecycle!Live = Backlog
<1>1. \A j \in Jobs : Phases[j] \in {"waiting", "active"}
                         <=> state[j] = "queued" \/ state[j] \in InFlight
  <2> SUFFICES ASSUME NEW j \in Jobs
               PROVE  Phases[j] \in {"waiting", "active"}
                         <=> state[j] = "queued" \/ state[j] \in InFlight
    OBVIOUS
  <2>1. Phases[j] = PhaseOf(state[j]) /\ state[j] \in JobStates
    BY PhasesFields DEF TypeOK
  <2> QED
    BY <2>1, PhaseTyped
<1>2. Lifecycle!Items = Jobs
  BY DEF Lifecycle!Items, Jobs
<1> QED
  BY <1>1, <1>2 DEF Lifecycle!Live, Backlog, QueuedJobs, InFlightJobs

(* While the server is up a reader sees what memory holds: a job that      *)
(* changes there changes for the reader, and nothing else does.            *)
LEMMA PhaseMoves ==
    ASSUME TypeOK, TypeOK', up, up', NEW j \in Jobs, NEW to,
           \A k \in Jobs \ {j} : state'[k] = state[k], PhaseOf(state'[j]) = to
    PROVE  Phases' = [Phases EXCEPT ![j] = to]
<1>1. /\ Phases \in [Jobs -> PhaseNames]
      /\ \A k \in Jobs : Phases[k] = PhaseOf(state[k])
  BY PhasesFields
<1>2. /\ Phases' \in [Jobs -> PhaseNames]
      /\ \A k \in Jobs : Phases'[k] = PhaseOf(state'[k])
  BY PhasesAfter
<1>3. \A k \in Jobs \ {j} : Phases'[k] = Phases[k]
  BY <1>1, <1>2
<1> HIDE DEF Phases
<1> QED
  BY <1>1, <1>2, <1>3

(* Every call is a step of the lifecycle, or nothing a reader sees.        *)
Sees == Lifecycle!Next \/ UNCHANGED <<Phases, crashes, failures>>

LEMMA SeesSame ==
    ASSUME TypeOK, TypeOK', up, up', UNCHANGED <<crashes, failures>>,
           \A j \in Jobs : PhaseOf(state'[j]) = PhaseOf(state[j])
    PROVE  Sees
<1>1. /\ Phases \in [Jobs -> PhaseNames]
      /\ \A k \in Jobs : Phases[k] = PhaseOf(state[k])
  BY PhasesFields
<1>2. /\ Phases' \in [Jobs -> PhaseNames]
      /\ \A k \in Jobs : Phases'[k] = PhaseOf(state'[k])
  BY PhasesAfter
<1>3. Phases' = Phases
  BY <1>1, <1>2
<1> QED
  BY <1>3 DEF Sees

LEMMA SeesSubmit ==
    ASSUME TypeOK, TypeOK', Wakeup, SaveInv, Submit
    PROVE  Sees
<1> DEFINE j == submitted + 1
           to == IF waiters = <<>> THEN "waiting" ELSE "active"
<1>1. /\ j \in Jobs /\ up /\ up' /\ Cardinality(Backlog) < QueueCap
      /\ UNCHANGED <<crashes, failures>> /\ j > submitted /\ submitted \in Nat
  BY QueueAssumption DEF Submit, SubmitParked, SubmitAssigned, CanSubmit, TypeOK, Jobs,
                         QueueAssumption, faults
<1>2. /\ state \in [Jobs -> JobStates] /\ state' \in [Jobs -> JobStates]
  BY DEF TypeOK
<1>3. \A k \in Jobs : k > submitted => state[k] = "none"
  BY DEF SaveInv, Fresh
<1>4. \A k \in Jobs : k > j => k > submitted
  BY <1>1 DEF Jobs
<1>5. /\ \A k \in Jobs \ {j} : state'[k] = state[k]
      /\ waiters = <<>> => state'[j] = "queued"
      /\ waiters # <<>> => state'[j] = "claimed"
  BY <1>1, <1>2 DEF Submit, SubmitParked, SubmitAssigned
<1>6. PhaseOf(state'[j]) = to
  BY <1>1, <1>5, PhaseTyped DEF JobStates, InFlight
<1>7. /\ Phases[j] = "absent"
      /\ \A k \in Lifecycle!Items : k > j => Phases[k] = "absent"
  BY <1>1, <1>2, <1>3, <1>4, PhasesFields, PhaseTyped DEF Lifecycle!Items, Jobs
<1>8. Lifecycle!Cardinality(Lifecycle!Live) < QueueCap
  BY <1>1, LiveIsBacklog, SameCardinality
<1>9. to = "active" => \A k \in Lifecycle!Items : Phases[k] # "waiting"
  <2>1. to = "active" => waiters # <<>>
    OBVIOUS
  <2>2. waiters # <<>> => \A k \in Jobs : state[k] # "queued"
    BY DEF Wakeup, NoLostWakeup, QueuedJobs
  <2>3. \A k \in Jobs : state[k] # "queued" => Phases[k] # "waiting"
    BY <1>1, <1>2, PhasesFields, PhaseTyped
  <2> QED
    BY <2>1, <2>2, <2>3 DEF Lifecycle!Items, Jobs
<1>10. Phases' = [Phases EXCEPT ![j] = to]
  BY <1>1, <1>5, <1>6, PhaseMoves
<1>11. to \in {"waiting", "active"} /\ j \in Lifecycle!Items
  BY <1>1 DEF Lifecycle!Items, Jobs
<1> HIDE DEF j, to, Phases
<1>12. Lifecycle!Accept(j, to)
  <2>1. UNCHANGED (crashes + failures > 0)
    BY <1>1
  <2> QED
    BY <1>7, <1>8, <1>9, <1>10, <2>1 DEF Lifecycle!Accept
<1> QED
  BY <1>11, <1>12 DEF Sees, Lifecycle!Next

LEMMA SeesClose ==
    ASSUME TypeOK, TypeOK', up, up', UNCHANGED <<crashes, failures>>, NEW j \in Jobs,
           state[j] \in {"queued"} \cup InFlight \cup Terminal, state'[j] \in Terminal,
           \A k \in Jobs \ {j} : state'[k] = state[k]
    PROVE  Sees
<1>1. state[j] \in JobStates /\ state'[j] \in JobStates
  BY DEF TypeOK
<1>2. PhaseOf(state'[j]) = "over"
  BY <1>1, PhaseTyped
<1>3. CASE state[j] \in Terminal
  <2>1. PhaseOf(state[j]) = "over"
    BY <1>1, <1>3, PhaseTyped
  <2>2. \A k \in Jobs : PhaseOf(state'[k]) = PhaseOf(state[k])
    BY <1>2, <2>1
  <2> QED
    BY <2>2, SeesSame
<1>4. CASE state[j] \in {"queued"} \cup InFlight
  <2>1. Phases[j] = PhaseOf(state[j])
    BY PhasesFields
  <2>2. Phases[j] \in {"waiting", "active"}
    BY <1>1, <1>4, <2>1, PhaseTyped
  <2>3. Phases' = [Phases EXCEPT ![j] = "over"]
    BY <1>2, PhaseMoves
  <2> HIDE DEF Phases
  <2>4. Lifecycle!Close(j)
    BY <2>2, <2>3 DEF Lifecycle!Close
  <2> QED
    BY <2>4 DEF Sees, Lifecycle!Next, Lifecycle!Items, Jobs
<1> QED
  BY <1>3, <1>4

LEMMA SeesCalls ==
    ASSUME TypeOK, TypeOK', Wakeup, SaveInv, Calls
    PROVE  Sees
<1> USE DEF faults, memory
<1>1. CASE Submit
  BY <1>1, SeesSubmit
<1>2. /\ state \in [Jobs -> JobStates] /\ state' \in [Jobs -> JobStates]
  BY DEF TypeOK
<1>3. ASSUME NEW j \in Jobs, ClaimQueued(j) PROVE Sees
  <2>1. /\ state[j] = "queued" /\ state'[j] = "claimed" /\ up /\ up'
        /\ UNCHANGED <<crashes, failures>>
        /\ \A k \in Jobs \ {j} : state'[k] = state[k]
        /\ \A k \in Jobs : state[k] = "queued" => j <= k
    BY <1>2, <1>3 DEF ClaimQueued, IsNextQueued, QueuedJobs
  <2>2. PhaseOf(state'[j]) = "active"
    BY <2>1, PhaseTyped DEF JobStates, InFlight
  <2>3. Phases' = [Phases EXCEPT ![j] = "active"]
    BY <2>1, <2>2, PhaseMoves
  <2>4. /\ Phases[j] = "waiting"
        /\ \A k \in Jobs : Phases[k] = "waiting" => j <= k
    BY <1>2, <2>1, PhasesFields, PhaseTyped
  <2> HIDE DEF Phases
  <2>5. Lifecycle!Give(j)
    BY <2>1, <2>3, <2>4 DEF Lifecycle!Give, Lifecycle!Items, Jobs
  <2> QED
    BY <2>5 DEF Sees, Lifecycle!Next, Lifecycle!Items, Jobs
<1>4. ASSUME NEW w \in Workers, ClaimParked(w) \/ ClaimExpired(w) PROVE Sees
  BY <1>4, SeesSame DEF ClaimParked, ClaimExpired
<1>5. ASSUME NEW j \in Jobs, NEW st \in Progress, NEW rs \in SUBSET RunIds,
             GivenOut(j), Report(j, st, rs)
      PROVE  Sees
  <2>1. \A k \in Jobs \ {j} : state'[k] = state[k]
    BY <1>2, <1>5 DEF Report
  <2>2. PhaseOf(state'[j]) = PhaseOf(state[j])
    <3>1. CASE state[j] \in Terminal
      BY <1>5, <3>1 DEF Report
    <3>2. CASE state[j] \notin Terminal
      <4>1. state[j] \in InFlight
        BY <1>2, <1>5, <3>2 DEF GivenOut, JobStates
      <4>2. state'[j] \in InFlight
        BY <1>2, <1>5, <3>2, <4>1, QueueAssumption
           DEF Report, ReportState, QueueAssumption, InFlight
      <4> QED
        BY <1>2, <4>1, <4>2, PhaseTyped
    <3> QED
      BY <3>1, <3>2
  <2>3. \A k \in Jobs : PhaseOf(state'[k]) = PhaseOf(state[k])
    BY <2>1, <2>2
  <2> QED
    BY <1>5, <2>3, SeesSame DEF Report
<1>6. ASSUME NEW j \in Jobs, NEW st \in Outcomes, GivenOut(j), Done(j, st) PROVE Sees
  <2>1. state'[j] \in Terminal /\ state[j] \in {"queued"} \cup InFlight \cup Terminal
    BY <1>2, <1>6, QueueAssumption DEF Done, GivenOut, QueueAssumption, Terminal, JobStates
  <2>2. \A k \in Jobs \ {j} : state'[k] = state[k]
    BY <1>2, <1>6 DEF Done
  <2> QED
    BY <1>6, <2>1, <2>2, SeesClose DEF Done
<1>7. ASSUME NEW j \in Jobs, StopQueued(j) PROVE Sees
  <2>1. /\ state'[j] \in Terminal /\ state[j] \in {"queued"} \cup InFlight \cup Terminal
        /\ \A k \in Jobs \ {j} : state'[k] = state[k]
    BY <1>2, <1>7 DEF StopQueued, Terminal
  <2> QED
    BY <1>7, <2>1, SeesClose DEF StopQueued
<1>8. ASSUME NEW j \in Jobs, StopInFlight(j) PROVE Sees
  BY <1>8, SeesSame DEF StopInFlight
<1>9. CASE InterruptJobs
  <2>1. /\ up /\ up' /\ UNCHANGED <<crashes, failures>>
        /\ \A j \in Jobs : state'[j] = IF state[j] \in InFlight THEN "orphaned" ELSE state[j]
    BY <1>9 DEF InterruptJobs
  <2>2. /\ Phases \in [Jobs -> PhaseNames] /\ Phases' \in [Jobs -> PhaseNames]
        /\ \A k \in Jobs : Phases[k] = PhaseOf(state[k]) /\ Phases'[k] = PhaseOf(state'[k])
    BY <2>1, PhasesFields, PhasesAfter
  <2>3. \A k \in Jobs : Phases'[k] = IF Phases[k] = "active" THEN "over" ELSE Phases[k]
    <3>1. PhaseOf("orphaned") = "over"
      BY PhaseTyped DEF JobStates, Terminal
    <3> QED
      BY <1>2, <2>1, <2>2, <3>1, PhaseTyped
  <2> HIDE DEF Phases
  <2>4. Phases' = [k \in Jobs |-> IF Phases[k] = "active" THEN "over" ELSE Phases[k]]
    BY <2>2, <2>3
  <2>5. Lifecycle!CloseActive
    BY <2>1, <2>4 DEF Lifecycle!CloseActive, Lifecycle!Items, Jobs
  <2> QED
    BY <2>5 DEF Sees, Lifecycle!Next
<1> QED
  BY <1>1, <1>3, <1>4, <1>5, <1>6, <1>7, <1>8, <1>9 DEF Calls

(* A write that is done is not seen, one that is refused is a loss.        *)
LEMMA EarlierSame == \A p \in PhaseNames : p \in Lifecycle!Earlier(p)
  BY DEF PhaseNames, Lifecycle!Earlier

LEMMA SeesStorage ==
    ASSUME TypeOK, TypeOK', Storage
    PROVE  Sees
<1> SUFFICES ASSUME NEW j \in Jobs, WriteSnapshot(j) \/ WriteFails(j) PROVE Sees
  BY DEF Storage
<1>1. CASE WriteSnapshot(j)
  BY <1>1, SeesSame DEF WriteSnapshot, faults, memory
<1>2. CASE WriteFails(j)
  <2>1. /\ up /\ up' /\ state' = state /\ crashes' = crashes /\ failures' = failures + 1
        /\ crashes \in Nat /\ failures \in Nat
    BY <1>2, QueueAssumption DEF WriteFails, memory, TypeOK, QueueAssumption
  <2>2. /\ Phases \in [Jobs -> PhaseNames] /\ Phases' \in [Jobs -> PhaseNames]
        /\ \A k \in Jobs : Phases'[k] = Phases[k]
    BY <2>1, PhasesFields, PhasesAfter
  <2>3. crashes' + failures' > 0
    BY <2>1
  <2> HIDE DEF Phases
  <2>4. Lifecycle!Lapse
    BY <2>2, <2>3, EarlierSame DEF Lifecycle!Lapse, Lifecycle!Items, Jobs
  <2> QED
    BY <2>4 DEF Sees, Lifecycle!Next
<1> QED
  BY <1>1, <1>2

(* The end of the process is a loss, unless it is a clean exit of a server *)
(* that lost nothing before; the restart shows what the files showed.      *)
LEMMA SeesProcess ==
    ASSUME TypeOK, TypeOK', SaveInv, Process
    PROVE  Sees
<1>1. /\ state \in [Jobs -> JobStates] /\ disk \in [Jobs -> Snapshot] /\ disk' = disk
      /\ \A j \in Jobs : disk[j].state \in JobStates
      /\ crashes \in Nat /\ failures \in Nat
  BY QueueAssumption DEF Process, Exit, Crash, Down, InitJobs, TypeOK, QueueAssumption, Snapshot
<1>2. Phases \in [Jobs -> PhaseNames] /\ Phases' \in [Jobs -> PhaseNames]
  BY PhasesFields, PhasesAfter
<1>3. ASSUME up, Down, crashes' + failures' > 0 PROVE Sees
  <2>1. \A j \in Jobs : Phases[j] = PhaseOf(state[j])
    BY <1>3, PhasesFields
  <2>2. \A j \in Jobs : Phases'[j] = FilePhase(disk[j].state)
    BY <1>1, <1>3, PhasesFields, PhasesAfter DEF Down
  <2>3. \A j \in Jobs : Rank(disk[j].state) <= Rank(state[j])
    <3>1. InOrder(chain, disk, state) /\ 0 \in 0..Len(chain)
      BY <1>3 DEF SaveInv, Agree, TypeOK
    <3>2. \A j \in Jobs : Ver(chain, disk, 0, j) = disk[j]
      BY DEF Ver
    <3> QED
      BY <3>1, <3>2 DEF InOrder
  <2>4. \A j \in Jobs : Phases'[j] \in Lifecycle!Earlier(Phases[j])
    BY <1>1, <2>1, <2>2, <2>3, FileIsEarlier
  <2> HIDE DEF Phases
  <2>5. Lifecycle!Lapse
    BY <1>2, <1>3, <2>4 DEF Lifecycle!Lapse, Lifecycle!Items, Jobs
  <2> QED
    BY <2>5 DEF Sees, Lifecycle!Next
<1>4. CASE Crash
  <2>1. up /\ Down /\ crashes' = crashes + 1
    BY <1>4 DEF Crash
  <2>2. crashes' + failures' > 0
    BY <1>1, <2>1 DEF Down
  <2> QED
    BY <1>3, <2>1, <2>2
<1>5. CASE Exit
  <2>1. CASE crashes + failures > 0
    BY <1>3, <1>5, <2>1 DEF Exit, Down
  <2>2. CASE ~(crashes + failures > 0)
    <3>1. /\ up /\ ~up' /\ chain = <<>> /\ Len(<<>>) = 0 /\ failures = 0
          /\ UNCHANGED <<crashes, failures>>
      BY <1>1, <1>5, <2>2 DEF Exit, Down
    <3>2. \A j \in Jobs : disk[j] = Snap(state[j], runs[j])
      <4>1. Newest(<<>>, disk, state, runs)
        BY <3>1 DEF SaveInv, Agree
      <4>2. \A i \in 1..Len(<<>>) : FALSE
        BY <3>1
      <4> QED
        BY <4>1, <4>2 DEF Newest
    <3>3. \A j \in Jobs : Phases[j] = PhaseOf(state[j]) /\ Phases'[j] = FilePhase(state[j])
      BY <1>1, <3>1, <3>2, SnapFields, PhasesFields, PhasesAfter
    <3>4. \A j \in Jobs : Phases'[j] = IF Phases[j] = "active" THEN "over" ELSE Phases[j]
      BY <1>1, <3>3, PhaseTyped DEF FilePhase
    <3> HIDE DEF Phases
    <3>5. Phases' = [j \in Jobs |-> IF Phases[j] = "active" THEN "over" ELSE Phases[j]]
      BY <1>2, <3>4
    <3>6. Lifecycle!CloseActive
      BY <3>1, <3>5 DEF Lifecycle!CloseActive, Lifecycle!Items, Jobs
    <3> QED
      BY <3>6 DEF Sees, Lifecycle!Next
  <2> QED
    BY <2>1, <2>2
<1>6. CASE InitJobs
  <2>1. /\ ~up /\ up' /\ UNCHANGED <<crashes, failures>>
        /\ \A j \in Jobs : state'[j] = IF disk[j].state \in InFlight THEN "orphaned"
                                       ELSE disk[j].state
    BY <1>6 DEF InitJobs, faults
  <2>2. \A j \in Jobs : /\ Phases[j] = FilePhase(disk[j].state)
                        /\ Phases'[j] = PhaseOf(state'[j])
    BY <2>1, PhasesFields, PhasesAfter
  <2>3. PhaseOf("orphaned") = "over"
    BY PhaseTyped DEF JobStates, Terminal
  <2>4. \A j \in Jobs : Phases'[j] = Phases[j]
    BY <2>1, <2>2, <2>3 DEF FilePhase
  <2> HIDE DEF Phases
  <2>5. Phases' = Phases
    BY <1>2, <2>4
  <2> QED
    BY <2>1, <2>5 DEF Sees
<1> QED
  BY <1>4, <1>5, <1>6 DEF Process

(* The queue implements the lifecycle of JobLifecycle.                     *)
THEOREM QueueIsLifecycle == Spec => LifecycleSpec
<1>1. Init => Lifecycle!Init
  <2> SUFFICES ASSUME Init PROVE Lifecycle!Init
    OBVIOUS
  <2>1. /\ up /\ crashes = 0 /\ failures = 0
        /\ \A j \in Jobs : state[j] = "none"
    BY DEF Init
  <2>2. TypeOK
    BY TypeInit, QueueAssumption
  <2>3. Phases \in [Jobs -> PhaseNames] /\ \A j \in Jobs : Phases[j] = "absent"
    <3>1. PhaseOf("none") = "absent"
      BY PhaseTyped DEF JobStates
    <3> QED
      BY <2>1, <2>2, <3>1, PhasesFields
  <2>4. ~(crashes + failures > 0)
    BY <2>1
  <2> HIDE DEF Phases
  <2> QED
    BY <2>3, <2>4 DEF Lifecycle!Init, Lifecycle!Items, Jobs
<1>2. TypeOK /\ TypeOK' /\ Wakeup /\ SaveInv /\ [Next]_vars
         => [Lifecycle!Next]_<<Phases, crashes + failures > 0>>
  <2> SUFFICES ASSUME TypeOK, TypeOK', Wakeup, SaveInv, [Next]_vars
               PROVE  [Lifecycle!Next]_<<Phases, crashes + failures > 0>>
    OBVIOUS
  <2>1. Sees => [Lifecycle!Next]_<<Phases, crashes + failures > 0>>
    BY DEF Sees
  <2>2. Next => Sees
    BY SeesCalls, SeesStorage, SeesProcess DEF Next, Queue
  <2>3. UNCHANGED vars => Sees
    BY DEF vars, Sees, Phases
  <2> QED
    BY <2>1, <2>2, <2>3
<1>3. Init => Wakeup
  BY DEF Init, Wakeup, NoLostWakeup
<1> QED
  BY <1>1, <1>2, <1>3, WakeupNext, AlwaysSaved, TypeCorrect, PTL
     DEF Spec, LifecycleSpec, Lifecycle!Spec
=============================================================================
