-------------------------- MODULE RunReadingProofs --------------------------
(***************************************************************************)
(* Theorems about the page of a run for every length of a run, every       *)
(* number of loads in flight, of visits, overlaps and failures.            *)
(***************************************************************************)
EXTENDS RunReading, TLAPS

(* The card calls the run over only beside the whole stream.               *)
CardSound == store.card = "over" => store.lines = Whole

(* A load that holds the card "over" reads the whole stream; a load of the *)
(* page begins where the page has everything before.                       *)
Begins(n, shown) == \A q \in Records : q < n => q \in ToSet(shown)
LoadSound(load) ==
    /\ load.phase = "stream" /\ load.over => store.card = "over"
    /\ load.phase = "answer" /\ load.over => load.upto = Whole
    /\ load.phase # "idle" /\ load.owner = "page" => page.open /\ Begins(load.from, page.shown)
LoadsSound == \A l \in Loads : LoadSound(loads[l])

(* Before the timer is set the first load is under way; it is stopped when *)
(* the page holds run.end.                                                 *)
TimerSound ==
    page.open => /\ page.timer = "first" => Busy("page") # {}
                 /\ page.timer = "off" => Done(page.shown)

ReadInv ==
    /\ TypeOK /\ CardSound /\ LoadsSound /\ TimerSound
    /\ ShownIsPrefix /\ ImmutableIsWhole

LEMMA LengthsAre == Whole \in Nat /\ Lengths = 0..Whole /\ 0 \in Lengths /\ Whole \in Lengths
                    /\ Records \subseteq Lengths
  BY ReadingAssumption DEF Whole, Lengths, Records

LEMMA QuietIsDone == ReadInv => PollsUntilEnd
  BY DEF ReadInv, TypeOK, TimerSound, PollsUntilEnd

-----------------------------------------------------------------------------
(* What an answer adds.                                                    *)
LEMMA SetOfConcat ==
    ASSUME NEW s \in Sequence, NEW t \in Sequence
    PROVE  s \o t \in Sequence /\ ToSet(s \o t) = ToSet(s) \cup ToSet(t)
<1>1. s \in Seq(Records) /\ t \in Seq(Records) /\ s \o t \in Seq(Records)
  BY DEF Sequence
<1>2. ASSUME NEW x \in ToSet(s \o t) PROVE x \in ToSet(s) \cup ToSet(t)
  <2>1. PICK i \in DOMAIN (s \o t) : (s \o t)[i] = x
    BY DEF ToSet
  <2>2. CASE i <= Len(s)
    BY <1>1, <2>1, <2>2 DEF ToSet
  <2>3. CASE i > Len(s)
    <3>1. i - Len(s) \in DOMAIN t /\ t[i - Len(s)] = x
      BY <1>1, <2>1, <2>3
    <3> QED
      BY <3>1 DEF ToSet
  <2> QED
    BY <1>1, <2>1, <2>2, <2>3
<1>3. ASSUME NEW x \in ToSet(s) PROVE x \in ToSet(s \o t)
  <2>1. PICK i \in DOMAIN s : s[i] = x
    BY DEF ToSet
  <2>2. i \in DOMAIN (s \o t) /\ (s \o t)[i] = x
    BY <1>1, <2>1
  <2> QED
    BY <2>2 DEF ToSet
<1>4. ASSUME NEW x \in ToSet(t) PROVE x \in ToSet(s \o t)
  <2>1. PICK i \in DOMAIN t : t[i] = x
    BY DEF ToSet
  <2>2. i + Len(s) \in DOMAIN (s \o t) /\ (s \o t)[i + Len(s)] = x
    BY <1>1, <2>1
  <2> QED
    BY <2>2 DEF ToSet
<1> QED
  BY <1>1, <1>2, <1>3, <1>4 DEF Sequence

LEMMA FreshIs ==
    ASSUME NEW n \in Lengths, NEW m \in Lengths
    PROVE  /\ Fresh(n, m) \in Sequence
           /\ \A q \in Records : q \in ToSet(Fresh(n, m)) <=> n <= q /\ q < m
<1> DEFINE d == IF n < m THEN m - n ELSE 0
<1>1. n \in Nat /\ m \in Nat /\ m <= RunEnd + 1 /\ RunEnd \in Nat /\ d \in Nat
  BY ReadingAssumption DEF Lengths, Whole
<1>2. \A i \in 1..d : n + i - 1 \in Records
  BY <1>1 DEF Records
<1>3. Fresh(n, m) \in Seq(Records) /\ DOMAIN Fresh(n, m) = 1..d
      /\ \A i \in 1..d : Fresh(n, m)[i] = n + i - 1
  BY <1>1, <1>2 DEF Fresh
<1>4. ASSUME NEW q \in Records PROVE q \in ToSet(Fresh(n, m)) <=> n <= q /\ q < m
  <2>1. q \in Nat
    BY <1>1 DEF Records
  <2>2. ASSUME n <= q, q < m PROVE q \in ToSet(Fresh(n, m))
    <3>1. q - n + 1 \in 1..d /\ Fresh(n, m)[q - n + 1] = q
      BY <1>1, <1>3, <2>1, <2>2
    <3> QED
      BY <1>3, <3>1 DEF ToSet
  <2>3. ASSUME q \in ToSet(Fresh(n, m)) PROVE n <= q /\ q < m
    <3>1. PICK i \in 1..d : q = n + i - 1
      BY <1>3, <2>3 DEF ToSet
    <3> QED
      BY <1>1, <3>1
  <2> QED
    BY <2>2, <2>3
<1> QED
  BY <1>3, <1>4 DEF Sequence

LEMMA SeqInRecords == ASSUME NEW s \in Sequence PROVE ToSet(s) \subseteq Records
  BY DEF Sequence, ToSet

(* An answer that begins where everything before is there leaves no hole.  *)
LEMMA AnswerFits ==
    ASSUME NEW s \in Sequence, NEW n \in Lengths, NEW m \in Lengths,
           Begins(n, s), \A q \in ToSet(s) : \A r \in 0..q : r \in ToSet(s)
    PROVE  /\ s \o Fresh(n, m) \in Sequence
           /\ ToSet(s) \subseteq ToSet(s \o Fresh(n, m))
           /\ n < m => HasNoHole(s \o Fresh(n, m), m)
           /\ \A q \in ToSet(s \o Fresh(n, m)) : \A r \in 0..q : r \in ToSet(s \o Fresh(n, m))
<1> DEFINE t == s \o Fresh(n, m)
<1>1. t \in Sequence /\ ToSet(t) = ToSet(s) \cup ToSet(Fresh(n, m))
  BY FreshIs, SetOfConcat
<1>2. n \in Nat /\ m \in Nat /\ Records = 0..RunEnd /\ RunEnd \in Nat
  BY ReadingAssumption DEF Lengths, Whole, Records
<1>3. ASSUME NEW q \in Records, q < m PROVE q < n \/ q \in ToSet(t)
  <2>1. CASE n <= q
    BY <1>1, <1>3, <2>1, FreshIs
  <2> QED
    BY <1>2, <2>1
<1>4. ASSUME NEW q \in Records, q < n \/ q < m PROVE q \in ToSet(t)
  BY <1>1, <1>3, <1>4 DEF Begins
<1>5. ASSUME NEW q \in ToSet(t), NEW r \in 0..q PROVE r \in ToSet(t)
  <2>1. CASE q \in ToSet(s)
    BY <1>1, <1>5, <2>1
  <2>2. CASE q \notin ToSet(s)
    <3>1. q \in Records /\ q \in ToSet(Fresh(n, m))
      BY <1>1, <2>2, SeqInRecords
    <3>2. q < m
      BY <3>1, FreshIs
    <3>3. r \in Records /\ r < m
      BY <1>2, <3>1, <3>2
    <3> QED
      BY <1>4, <3>3
  <2> QED
    BY <2>1, <2>2
<1> QED
  BY <1>1, <1>4, <1>5 DEF HasNoHole

-----------------------------------------------------------------------------
LEMMA ReadInit == Init => ReadInv
<1> SUFFICES ASSUME Init PROVE ReadInv
  OBVIOUS
<1>1. <<>> \in Sequence /\ ToSet(<<>>) = {}
  BY DEF Sequence, ToSet
<1>2. TypeOK
  <2>1. store \in [lines : Lengths, torn : BOOLEAN, card : {"none", "running", "over"},
                   alive : BOOLEAN]
    BY LengthsAre DEF Init
  <2> QED
    BY <1>1, <2>1, LengthsAre, ReadingAssumption DEF Init, TypeOK, Load, Idle, Closed, Nothing
<1>3. CardSound
  BY DEF Init, CardSound
<1>4. LoadsSound
  BY DEF Init, LoadsSound, LoadSound, Idle
<1>5. TimerSound
  BY DEF Init, TimerSound, Closed
<1>6. ShownIsPrefix
  BY <1>1, LengthsAre DEF Init, ShownIsPrefix, HasNoHole, Closed, Nothing, Records
<1>7. ImmutableIsWhole
  BY DEF Init, ImmutableIsWhole
<1> QED
  BY <1>2, <1>3, <1>4, <1>5, <1>6, <1>7 DEF ReadInv

(* The runner: what was sound about a load stays so.                       *)
LEMMA RunnerKeeps == ReadInv /\ Runner => ReadInv'
<1> SUFFICES ASSUME ReadInv, Runner PROVE ReadInv'
  OBVIOUS
<1> USE DEF ReadInv
<1>1. UNCHANGED <<mode, loads, cached, full, opened, page, kept, visits, failures, overlaps>>
  BY DEF Runner, TearLine, WriteRecord, WriteCard, RunnerDies, Disk, shows, bounds
<1>2. store \in [lines : Lengths, torn : BOOLEAN, card : {"none", "running", "over"},
                 alive : BOOLEAN]
  BY DEF TypeOK
<1>3. /\ store' \in [lines : Lengths, torn : BOOLEAN, card : {"none", "running", "over"},
                     alive : BOOLEAN]
      /\ CardSound' /\ (store.card = "over" => store'.card = "over")
  <2>1. CASE TearLine \/ RunnerDies
    BY <1>2, <2>1 DEF TearLine, RunnerDies, Disk, CardSound
  <2>2. CASE WriteRecord
    <3>1. store.lines + 1 \in Lengths /\ store.card # "over"
      BY <1>2, <2>2, LengthsAre DEF WriteRecord, CardSound
    <3> QED
      BY <1>2, <2>2, <3>1 DEF WriteRecord, Disk, CardSound
  <2>3. CASE WriteCard
    BY <1>2, <2>3 DEF WriteCard, Disk, CardSound
  <2> QED
    BY <2>1, <2>2, <2>3 DEF Runner
<1>4. TypeOK'
  BY <1>1, <1>3 DEF TypeOK
<1>5. LoadsSound'
  BY <1>1, <1>3 DEF LoadsSound, LoadSound, Begins
<1>6. TimerSound'
  BY <1>1 DEF TimerSound, Busy, Done
<1>7. ShownIsPrefix' /\ ImmutableIsWhole'
  BY <1>1 DEF ShownIsPrefix, HasNoHole, ImmutableIsWhole
<1> QED
  BY <1>3, <1>4, <1>5, <1>6, <1>7

-----------------------------------------------------------------------------
(* A load goes on: nobody but it is affected.                              *)
LEMMA LoadGoesOn ==
    ASSUME ReadInv, NEW l \in Loads, NEW load \in Load, Becomes(l, load),
           loads[l].phase # "idle", load.phase # "idle",
           load.owner = loads[l].owner, load.from = loads[l].from,
           load.phase = "stream" /\ load.over => store.card = "over",
           load.phase = "answer" /\ load.over => load.upto = Whole,
           UNCHANGED <<mode, store, page, kept, visits, overlaps>>,
           cached' \in [Lengths -> Lengths], full' \subseteq Large,
           opened' \in {"none", "card", "stream", "whole", "rejected"},
           failures' \in 0..MaxFailures, ImmutableIsWhole'
    PROVE  ReadInv'
<1> USE DEF ReadInv
<1>1. /\ loads \in [Loads -> Load] /\ loads' = [loads EXCEPT ![l] = load]
      /\ loads'[l] = load /\ \A k \in Loads \ {l} : loads'[k] = loads[k]
  BY DEF Becomes, TypeOK
<1>2. TypeOK'
  BY <1>1 DEF TypeOK
<1>3. LoadsSound'
  BY <1>1 DEF LoadsSound, LoadSound, Begins
<1>4. Busy("page") \subseteq Busy("page")'
  BY <1>1 DEF Busy
<1>5. TimerSound'
  BY <1>4 DEF TimerSound, Done
<1>6. CardSound' /\ ShownIsPrefix'
  BY DEF CardSound, ShownIsPrefix, HasNoHole
<1> QED
  BY <1>2, <1>3, <1>5, <1>6

LEMMA MovesTyped ==
    ASSUME TypeOK, NEW l \in Loads, NEW phase \in {"sent", "stream", "answer", "listed", "failed"}
    PROVE  /\ loads[l] \in Load /\ [loads[l] EXCEPT !.phase = phase] \in Load
           /\ [loads[l] EXCEPT !.phase = phase].owner = loads[l].owner
           /\ [loads[l] EXCEPT !.phase = phase].from = loads[l].from
           /\ [loads[l] EXCEPT !.phase = phase].over = loads[l].over
           /\ [loads[l] EXCEPT !.phase = phase].upto = loads[l].upto
           /\ [loads[l] EXCEPT !.phase = phase].phase = phase
  BY DEF TypeOK, Load

LEMMA AnswersKeep ==
    ASSUME ReadInv, NEW l \in Loads,
           \/ ReadCard(l) \/ ReadStream(l) \/ Answer(l) \/ FetchFull(l) \/ Settled(l)
           \/ RequestFails(l)
    PROVE  ReadInv'
<1> USE DEF ReadInv
<1>1. loads[l] \in Load /\ LoadSound(loads[l]) /\ ReadingAssumption
  BY ReadingAssumption DEF TypeOK, LoadsSound
<1>2. ASSUME NEW phase \in {"listed", "failed"}, loads[l].phase # "idle", Moves(l, phase),
             UNCHANGED <<mode, store, page, kept, visits, overlaps>>,
             cached' \in [Lengths -> Lengths], full' \subseteq Large,
             opened' \in {"none", "card", "stream", "whole", "rejected"},
             failures' \in 0..MaxFailures, ImmutableIsWhole'
      PROVE  ReadInv'
  BY <1>2, MovesTyped, LoadGoesOn DEF Moves
<1>3. CASE ReadCard(l)
  <2>1. UNCHANGED <<mode, store, page, kept, visits, overlaps, cached, full, opened, failures>>
    BY <1>3 DEF ReadCard, source, shows, bounds
  <2>2. CASE store.card = "none"
    BY <1>2, <1>3, <2>1, <2>2 DEF ReadCard, TypeOK, ImmutableIsWhole
  <2>3. CASE store.card # "none"
    <3> DEFINE load == [loads[l] EXCEPT !.phase = "stream", !.over = store.card = "over"]
    <3>1. load \in Load /\ load.owner = loads[l].owner /\ load.from = loads[l].from
          /\ load.phase = "stream" /\ load.over = (store.card = "over")
      BY <1>1 DEF Load
    <3>2. Becomes(l, load) /\ loads[l].phase # "idle"
      BY <1>3, <2>3 DEF ReadCard
    <3>3. ImmutableIsWhole' 
      BY <2>1 DEF ImmutableIsWhole
    <3> QED
      BY <2>1, <3>1, <3>2, <3>3, LoadGoesOn DEF TypeOK
  <2> QED
    BY <2>2, <2>3
<1>4. CASE ReadStream(l)
  <2>1. UNCHANGED <<mode, store, page, kept, visits, overlaps, cached, full, opened, failures>>
    BY <1>4 DEF ReadStream, source, shows, bounds
  <2>2. CASE ~LinesParse
    BY <1>2, <1>4, <2>1, <2>2 DEF ReadStream, TypeOK, ImmutableIsWhole
  <2>3. CASE LinesParse
    <3> DEFINE load == [loads[l] EXCEPT !.phase = "answer", !.upto = store.lines]
    <3>1. load \in Load /\ load.owner = loads[l].owner /\ load.from = loads[l].from
          /\ load.phase = "answer" /\ load.over = loads[l].over /\ load.upto = store.lines
      BY <1>1 DEF Load, TypeOK
    <3>2. Becomes(l, load) /\ loads[l].phase = "stream"
      BY <1>4, <2>3 DEF ReadStream
    <3>3. load.over => load.upto = Whole
      BY <1>1, <3>1, <3>2 DEF LoadSound, CardSound
    <3>4. ImmutableIsWhole' 
      BY <2>1 DEF ImmutableIsWhole
    <3> QED
      BY <2>1, <3>1, <3>2, <3>3, <3>4, LoadGoesOn DEF TypeOK
  <2> QED
    BY <2>2, <2>3
<1>5. CASE Answer(l)
  <2>1. /\ loads[l].phase = "answer" /\ Moves(l, "listed")
        /\ cached' = [cached EXCEPT ![loads[l].from] =
                         IF loads[l].over THEN loads[l].upto ELSE cached[loads[l].from]]
        /\ UNCHANGED <<mode, store, page, kept, visits, overlaps, full, opened, failures>>
    BY <1>5 DEF Answer, Answered, shows, bounds
  <2>2. cached' \in [Lengths -> Lengths] /\ ImmutableIsWhole'
    BY <1>1, <2>1 DEF TypeOK, Load, LoadSound, ImmutableIsWhole
  <2> QED
    BY <1>2, <2>1, <2>2 DEF TypeOK
<1>6. CASE FetchFull(l)
  <2>1. UNCHANGED <<mode, store, page, kept, visits, overlaps, cached, opened, failures>>
        /\ loads[l].phase = "listed"
    BY <1>6 DEF FetchFull, shows, bounds
  <2>2. PICK q \in Elided(l) : IF ReadRecord(q) = {} THEN Moves(l, "failed") /\ UNCHANGED full
                               ELSE full' = full \cup ReadRecord(q) /\ UNCHANGED loads
    BY <1>6 DEF FetchFull
  <2>3. CASE ReadRecord(q) = {}
    BY <1>2, <2>1, <2>2, <2>3 DEF TypeOK, ImmutableIsWhole
  <2>4. CASE ReadRecord(q) # {}
    <3>1. full' \subseteq Large
      BY <2>2, <2>4 DEF ReadRecord, Elided, Elides, TypeOK
    <3>2. Becomes(l, loads[l])
      BY <2>2, <2>4 DEF Becomes, TypeOK
    <3>3. ImmutableIsWhole'
      BY <2>1 DEF ImmutableIsWhole
    <3> QED
      BY <1>1, <2>1, <3>1, <3>2, <3>3, LoadGoesOn DEF TypeOK, LoadSound
  <2> QED
    BY <2>3, <2>4
<1>7. CASE Settled(l)
  <2>1. UNCHANGED <<mode, store, page, kept, visits, overlaps, cached, full, opened, failures>>
        /\ loads[l].phase = "sent"
    BY <1>7 DEF Settled, source, shows, bounds
  <2>2. CASE Moves(l, "failed")
    BY <1>2, <2>1, <2>2 DEF TypeOK, ImmutableIsWhole
  <2>3. CASE Becomes(l, [loads[l] EXCEPT !.phase = "listed", !.upto = Whole])
    <3> DEFINE load == [loads[l] EXCEPT !.phase = "listed", !.upto = Whole]
    <3>1. load \in Load /\ load.owner = loads[l].owner /\ load.from = loads[l].from
          /\ load.phase = "listed"
      BY <1>1, LengthsAre DEF Load
    <3>2. ImmutableIsWhole' 
      BY <2>1 DEF ImmutableIsWhole
    <3> QED
      BY <2>1, <2>3, <3>1, <3>2, LoadGoesOn DEF TypeOK
  <2> QED
    BY <1>7, <2>2, <2>3 DEF Settled
<1>8. CASE RequestFails(l)
  <2>1. UNCHANGED <<mode, store, page, kept, visits, overlaps, cached, full, opened>>
        /\ failures' = failures + 1 /\ failures < MaxFailures
        /\ loads[l].phase # "idle" /\ Moves(l, "failed")
    BY <1>8 DEF RequestFails, source, shows
  <2>2. failures' \in 0..MaxFailures
    BY <2>1, ReadingAssumption DEF TypeOK
  <2> QED
    BY <1>2, <2>1, <2>2 DEF TypeOK, ImmutableIsWhole
<1> QED
  BY <1>3, <1>4, <1>5, <1>6, <1>7, <1>8

(* Opening the published run touches the shared promise only.              *)
LEMMA OpenKeeps == ReadInv /\ (OpenPublished \/ OpenFails) => ReadInv'
<1> SUFFICES ASSUME ReadInv, OpenPublished \/ OpenFails PROVE ReadInv'
  OBVIOUS
<1> USE DEF ReadInv
<1>1. UNCHANGED <<mode, store, loads, cached, full, page, kept, visits, overlaps>>
  BY DEF OpenPublished, OpenFails, shows, bounds
<1>2. opened' \in {"none", "card", "stream", "whole", "rejected"} /\ failures' \in 0..MaxFailures
  BY ReadingAssumption DEF OpenPublished, OpenFails, bounds, TypeOK
<1>3. TypeOK'
  BY <1>1, <1>2 DEF TypeOK
<1>4. CardSound' /\ LoadsSound' /\ TimerSound' /\ ShownIsPrefix' /\ ImmutableIsWhole'
  BY <1>1 DEF CardSound, LoadsSound, LoadSound, Begins, TimerSound, Busy, Done, ShownIsPrefix,
              HasNoHole, ImmutableIsWhole
<1> QED
  BY <1>3, <1>4

-----------------------------------------------------------------------------
(* The page.  A load of it begins where it holds everything before.        *)
LEMMA NewLoadTyped ==
    ASSUME TypeOK, NEW owner \in {"page", "prefetch"}, NEW n \in Lengths
    PROVE  /\ NewLoad(owner, n) \in Load
           /\ NewLoad(owner, n).phase \in {"sent", "listed"}
           /\ NewLoad(owner, n).owner = owner /\ NewLoad(owner, n).from = n
  BY DEF TypeOK, NewLoad, Load

LEMMA StartKeeps ==
    ASSUME ReadInv, NEW owner \in {"page", "prefetch"}, NEW n \in Lengths, Start(owner, n),
           UNCHANGED <<mode, store, cached, full, opened, page, kept, failures>>,
           visits' \in 0..MaxVisits, overlaps' \in 0..MaxOverlaps,
           owner = "page" => page.open /\ Begins(n, page.shown)
    PROVE  ReadInv'
<1> USE DEF ReadInv
<1>1. PICK l \in Free : loads' = [loads EXCEPT ![l] = NewLoad(owner, n)]
  <2>1. (CHOOSE l \in Loads : l \in Free) \in Free
    BY DEF Start, Free
  <2> QED
    BY <2>1 DEF Start
<1>2. l \in Loads /\ loads \in [Loads -> Load] /\ loads[l].phase = "idle"
  BY <1>1 DEF Free, TypeOK
<1>3. loads'[l] = NewLoad(owner, n) /\ \A k \in Loads \ {l} : loads'[k] = loads[k]
  BY <1>1, <1>2
<1>4. TypeOK'
  BY <1>1, <1>2, NewLoadTyped DEF TypeOK
<1>5. LoadsSound'
  BY <1>3, NewLoadTyped DEF LoadsSound, LoadSound, Begins
<1>6. Busy("page") \subseteq Busy("page")'
  BY <1>2, <1>3 DEF Busy
<1>7. TimerSound'
  BY <1>6 DEF TimerSound, Done
<1>8. CardSound' /\ ShownIsPrefix' /\ ImmutableIsWhole'
  BY DEF CardSound, ShownIsPrefix, HasNoHole, ImmutableIsWhole
<1> QED
  BY <1>4, <1>5, <1>7, <1>8

LEMMA PollKeeps == ReadInv /\ (Poll \/ Prefetch) => ReadInv'
<1> SUFFICES ASSUME ReadInv, Poll \/ Prefetch PROVE ReadInv'
  OBVIOUS
<1>1. CASE Poll
  <2>1. page.known \in Lengths /\ Begins(page.known, page.shown) /\ page.open
    BY <1>1 DEF Poll, ReadInv, TypeOK, ShownIsPrefix, HasNoHole, Begins
  <2>2. overlaps' \in 0..MaxOverlaps
    BY <1>1, ReadingAssumption DEF Poll, ReadInv, TypeOK
  <2> QED
    BY <1>1, <2>1, <2>2, StartKeeps DEF Poll, source, shows, ReadInv, TypeOK
<1>2. CASE Prefetch
  BY <1>2, LengthsAre, StartKeeps DEF Prefetch, source, shows, bounds, ReadInv, TypeOK
<1> QED
  BY <1>1, <1>2

LEMMA VisitKeeps == ReadInv /\ Visit => ReadInv'
<1> SUFFICES ASSUME ReadInv, Visit PROVE ReadInv'
  OBVIOUS
<1> USE DEF ReadInv
<1>1. /\ ~page.open /\ kept \in [shown : Sequence, known : Lengths]
      /\ page' = [open |-> TRUE, shown |-> kept.shown, known |-> kept.known,
                  error |-> FALSE, timer |-> "first"]
      /\ UNCHANGED <<mode, store, cached, full, opened, kept, failures, overlaps>>
  BY DEF Visit, source, TypeOK
<1>2. PICK l \in Free : loads' = [loads EXCEPT ![l] = NewLoad("page", kept.known)]
  <2>1. (CHOOSE l \in Loads : l \in Free) \in Free
    BY DEF Visit, Start, Free
  <2> QED
    BY <2>1 DEF Visit, Start
<1>3. l \in Loads /\ loads \in [Loads -> Load]
  BY <1>2 DEF Free, TypeOK
<1>4. loads'[l] = NewLoad("page", kept.known) /\ \A k \in Loads \ {l} : loads'[k] = loads[k]
  BY <1>2, <1>3
<1>5. /\ NewLoad("page", kept.known) \in Load
      /\ NewLoad("page", kept.known).phase \in {"sent", "listed"}
      /\ NewLoad("page", kept.known).owner = "page"
      /\ NewLoad("page", kept.known).from = kept.known
  BY <1>1, NewLoadTyped
<1>6. TypeOK'
  <2>1. visits' \in 0..MaxVisits
    BY ReadingAssumption DEF Visit, TypeOK
  <2> QED
    BY <1>1, <1>2, <1>3, <1>5, <2>1 DEF TypeOK
<1>7. Begins(kept.known, kept.shown)
  BY DEF ShownIsPrefix, HasNoHole, Begins
<1>8. LoadsSound'
  <2>1. LoadSound(loads[l])'
    BY <1>1, <1>4, <1>5, <1>7 DEF LoadSound, Begins
  <2>2. ASSUME NEW k \in Loads \ {l} PROVE LoadSound(loads[k])'
    BY <1>1, <1>4 DEF LoadsSound, LoadSound
  <2> QED
    BY <2>1, <2>2 DEF LoadsSound
<1>9. TimerSound'
  BY <1>1, <1>3, <1>4, <1>5 DEF TimerSound, Busy
<1>10. CardSound' /\ ShownIsPrefix' /\ ImmutableIsWhole'
  BY <1>1 DEF CardSound, ShownIsPrefix, HasNoHole, ImmutableIsWhole
<1> QED
  BY <1>6, <1>8, <1>9, <1>10

LEMMA LeaveKeeps == ReadInv /\ Leave => ReadInv'
<1> SUFFICES ASSUME ReadInv, Leave PROVE ReadInv'
  OBVIOUS
<1> USE DEF ReadInv
<1>1. /\ page' = Closed /\ loads \in [Loads -> Load]
      /\ UNCHANGED <<mode, store, cached, full, opened, kept, visits, failures, overlaps>>
  BY DEF Leave, source, bounds, TypeOK
<1>2. <<>> \in Sequence /\ ToSet(<<>>) = {}
  BY DEF Sequence, ToSet
<1>3. \A l \in Loads : /\ loads'[l] \in Load /\ loads'[l].phase = loads[l].phase
                       /\ loads'[l].over = loads[l].over /\ loads'[l].upto = loads[l].upto
                       /\ loads'[l].phase # "idle" => loads'[l].owner # "page"
  BY <1>1 DEF Leave, Busy, Load
<1>4. TypeOK'
  <2>1. loads' \in [Loads -> Load]
    BY <1>3 DEF Leave
  <2> QED
    BY <1>1, <1>2, <2>1, LengthsAre DEF TypeOK, Closed
<1>5. LoadsSound'
  BY <1>1, <1>3 DEF LoadsSound, LoadSound
<1>6. TimerSound' /\ CardSound' /\ ImmutableIsWhole'
  BY <1>1 DEF TimerSound, Closed, CardSound, ImmutableIsWhole
<1>7. ShownIsPrefix'
  BY <1>1, <1>2, LengthsAre DEF ShownIsPrefix, HasNoHole, Closed, Records
<1> QED
  BY <1>4, <1>5, <1>6, <1>7

-----------------------------------------------------------------------------
(* A load is over: the page has at least what it had, and the timer is set *)
(* by what it shows.                                                       *)
LEMMA LoadEnds ==
    ASSUME ReadInv, NEW l \in Loads, Becomes(l, Idle),
           UNCHANGED <<mode, store, cached, full, opened, visits, failures, overlaps>>,
           page' \in [open : BOOLEAN, shown : Sequence, known : Lengths, error : BOOLEAN,
                      timer : {"first", "on", "off"}],
           kept' \in [shown : Sequence, known : Lengths],
           ShownIsPrefix', page'.open = page.open,
           ToSet(page.shown) \subseteq ToSet(page'.shown),
           page'.timer = "off" /\ page.open => Done(page'.shown),
           page'.timer = "first" => loads[l].owner # "page" /\ page.timer = "first"
    PROVE  ReadInv'
<1> USE DEF ReadInv
<1>1. /\ loads \in [Loads -> Load] /\ loads' = [loads EXCEPT ![l] = Idle]
      /\ loads'[l] = Idle /\ \A k \in Loads \ {l} : loads'[k] = loads[k]
  BY DEF Becomes, TypeOK
<1>2. TypeOK'
  BY <1>1, LengthsAre DEF TypeOK, Idle, Load
<1>3. LoadsSound'
  <2>1. LoadSound(loads[l])'
    BY <1>1 DEF LoadSound, Idle
  <2>2. ASSUME NEW k \in Loads \ {l} PROVE LoadSound(loads[k])'
    BY <1>1 DEF LoadsSound, LoadSound, Begins
  <2> QED
    BY <2>1, <2>2 DEF LoadsSound
<1>4. TimerSound'
  <2>1. CASE page'.timer = "first" /\ page.open
    <3>1. PICK k \in Busy("page") : k # l
      BY <2>1 DEF TimerSound, Busy
    <3>2. k \in Busy("page")'
      BY <1>1, <3>1 DEF Busy
    <3> QED
      BY <2>1, <3>2 DEF TimerSound
  <2> QED
    BY <2>1 DEF TimerSound
<1>5. CardSound' /\ ImmutableIsWhole'
  BY DEF CardSound, ImmutableIsWhole
<1> QED
  BY <1>2, <1>3, <1>4, <1>5

LEMMA TimerAfterIs ==
    ASSUME TypeOK, NEW shown
    PROVE  /\ TimerAfter(shown) \in {"on", "off"}
           /\ TimerAfter(shown) = "off" => Done(shown) \/ page.timer = "off"
  BY DEF TypeOK, TimerAfter

LEMMA DoneStays ==
    ASSUME NEW s, NEW t, ToSet(s) \subseteq ToSet(t), Done(s) PROVE Done(t)
  BY DEF Done

LEMMA DeliveredKeeps == ASSUME ReadInv, NEW l \in Loads, Delivered(l) PROVE ReadInv'
<1> USE DEF ReadInv
<1> DEFINE n == loads[l].from
           m == loads[l].upto
<1>1. /\ n \in Lengths /\ m \in Lengths /\ LoadSound(loads[l]) /\ loads[l].phase = "listed"
      /\ loads[l].owner \in {"page", "gone", "prefetch"}
      /\ UNCHANGED <<mode, store, cached, full, opened, visits, failures, overlaps>>
      /\ Becomes(l, Idle)
  BY DEF Delivered, TypeOK, Load, LoadsSound, source, bounds
<1>2. /\ page \in [open : BOOLEAN, shown : Sequence, known : Lengths, error : BOOLEAN,
                   timer : {"first", "on", "off"}]
      /\ kept \in [shown : Sequence, known : Lengths]
  BY DEF TypeOK
<1>3. CASE loads[l].owner = "page"
  <2> DEFINE shown == page.shown \o Fresh(n, m)
  <2>1. /\ page' = [page EXCEPT !.error = FALSE, !.shown = shown,
                                !.known = IF n < m THEN m ELSE page.known,
                                !.timer = TimerAfter(shown)]
        /\ kept' = IF n < m THEN [shown |-> shown, known |-> m] ELSE kept
    BY <1>3 DEF Delivered, AppendFresh
  <2>2. /\ page.open /\ Begins(n, page.shown)
        /\ \A q \in ToSet(page.shown) : \A r \in 0..q : r \in ToSet(page.shown)
    BY <1>1, <1>3 DEF LoadSound, ShownIsPrefix, HasNoHole
  <2>3. /\ shown \in Sequence /\ ToSet(page.shown) \subseteq ToSet(shown)
        /\ n < m => HasNoHole(shown, m)
        /\ \A q \in ToSet(shown) : \A r \in 0..q : r \in ToSet(shown)
    BY <1>1, <1>2, <2>2, AnswerFits
  <2>4. TimerAfter(shown) \in {"on", "off"}
        /\ (TimerAfter(shown) = "off" => Done(shown) \/ page.timer = "off")
    BY TimerAfterIs
  <2>5. /\ page' \in [open : BOOLEAN, shown : Sequence, known : Lengths, error : BOOLEAN,
                      timer : {"first", "on", "off"}]
        /\ page'.open = page.open /\ page'.shown = shown /\ page'.timer = TimerAfter(shown)
        /\ page'.known = IF n < m THEN m ELSE page.known
    BY <1>1, <1>2, <2>1, <2>3, <2>4
  <2>6. kept' \in [shown : Sequence, known : Lengths]
    BY <1>1, <1>2, <2>1, <2>3
  <2>7. ShownIsPrefix'
    <3>1. CASE n < m
      BY <2>1, <2>3, <2>5, <3>1 DEF ShownIsPrefix
    <3>2. CASE ~(n < m)
      BY <2>1, <2>3, <2>5, <3>2 DEF ShownIsPrefix, HasNoHole
    <3> QED
      BY <3>1, <3>2
  <2>8. page'.timer = "off" => Done(page'.shown)
    BY <2>2, <2>3, <2>4, <2>5, DoneStays DEF TimerSound
  <2> QED
    BY <1>1, <2>3, <2>4, <2>5, <2>6, <2>7, <2>8, LoadEnds
<1>4. CASE loads[l].owner = "prefetch"
  <2>1. kept' = [shown |-> Fresh(0, m), known |-> m] /\ page' = page
    BY <1>4 DEF Delivered, KeepPrefetched
  <2>2. Fresh(0, m) \in Sequence /\ HasNoHole(Fresh(0, m), m)
    <3>1. /\ Fresh(0, m) \in Sequence
          /\ \A q \in Records : q \in ToSet(Fresh(0, m)) <=> 0 <= q /\ q < m
      BY <1>1, LengthsAre, FreshIs
    <3>2. ToSet(Fresh(0, m)) \subseteq Records
      BY <3>1, SeqInRecords
    <3>3. m \in Nat /\ Records = 0..RunEnd /\ RunEnd \in Nat
      BY <1>1, ReadingAssumption DEF Lengths, Whole, Records
    <3>4. \A q \in Records : \A r \in 0..q : r \in Records /\ 0 <= r /\ (q < m => r < m)
      BY <3>3
    <3> QED
      BY <3>1, <3>2, <3>3, <3>4 DEF HasNoHole
  <2>3. ShownIsPrefix'
    BY <2>1, <2>2 DEF ShownIsPrefix
  <2> QED
    BY <1>1, <1>2, <1>4, <2>1, <2>2, <2>3, LoadEnds DEF TimerSound
<1>5. CASE loads[l].owner = "gone"
  <2>1. page' = page /\ kept' = kept
    BY <1>5 DEF Delivered, shows
  <2>2. ShownIsPrefix'
    BY <2>1 DEF ShownIsPrefix
  <2> QED
    BY <1>1, <1>2, <1>5, <2>1, <2>2, LoadEnds DEF TimerSound
<1> QED
  BY <1>1, <1>3, <1>4, <1>5

LEMMA RejectedKeeps == ASSUME ReadInv, NEW l \in Loads, Rejected(l) PROVE ReadInv'
<1> USE DEF ReadInv
<1>1. /\ UNCHANGED <<mode, store, cached, full, opened, visits, failures, overlaps, kept>>
      /\ Becomes(l, Idle) /\ kept \in [shown : Sequence, known : Lengths]
      /\ page \in [open : BOOLEAN, shown : Sequence, known : Lengths, error : BOOLEAN,
                   timer : {"first", "on", "off"}]
  BY DEF Rejected, source, bounds, TypeOK
<1>2. CASE loads[l].owner # "page"
  <2>1. page' = page
    BY <1>2 DEF Rejected
  <2>2. ShownIsPrefix'
    BY <1>1, <2>1 DEF ShownIsPrefix
  <2> QED
    BY <1>1, <1>2, <2>1, <2>2, LoadEnds DEF TimerSound
<1>3. CASE loads[l].owner = "page"
  <2> DEFINE timer == IF page.timer = "first" THEN TimerAfter(page.shown) ELSE page.timer
  <2>1. page' = [page EXCEPT !.error = TRUE, !.timer = timer]
    BY <1>3 DEF Rejected
  <2>2. timer \in {"on", "off"} /\ (timer = "off" => Done(page.shown) \/ page.timer = "off")
    BY <1>1, TimerAfterIs
  <2>3. /\ page' \in [open : BOOLEAN, shown : Sequence, known : Lengths, error : BOOLEAN,
                      timer : {"first", "on", "off"}]
        /\ page'.open = page.open /\ page'.shown = page.shown /\ page'.known = page.known
        /\ page'.timer = timer
    BY <1>1, <2>1, <2>2
  <2>4. ShownIsPrefix'
    BY <1>1, <2>3 DEF ShownIsPrefix
  <2> QED
    BY <1>1, <2>2, <2>3, <2>4, LoadEnds DEF TimerSound
<1> QED
  BY <1>2, <1>3

-----------------------------------------------------------------------------
LEMMA ReadStep == ReadInv /\ [Next]_vars => ReadInv'
<1> SUFFICES ASSUME ReadInv, [Next]_vars PROVE ReadInv'
  OBVIOUS
<1>1. CASE UNCHANGED vars
  BY <1>1 DEF vars, ReadInv, TypeOK, CardSound, LoadsSound, LoadSound, Begins, TimerSound, Busy,
              Done, ShownIsPrefix, HasNoHole, ImmutableIsWhole
<1>2. CASE Runner
  BY <1>2, RunnerKeeps
<1>3. CASE OpenPublished \/ OpenFails
  BY <1>3, OpenKeeps
<1>4. ASSUME NEW l \in Loads, Answers(l) \/ RequestFails(l) PROVE ReadInv'
  BY <1>4, AnswersKeep, DeliveredKeeps, RejectedKeeps DEF Answers
<1>5. CASE Reader
  BY <1>5, PollKeeps, VisitKeeps, LeaveKeeps DEF Reader
<1> QED
  BY <1>1, <1>2, <1>3, <1>4, <1>5 DEF Next

LEMMA ReadAlways == Spec => []ReadInv
  BY ReadInit, ReadStep, PTL DEF Spec

(* Every variable keeps its shape, and no counter passes its bound.        *)
THEOREM ReadTypeCorrect == Spec => []TypeOK
<1>1. ReadInv => TypeOK
  BY DEF ReadInv
<1> QED
  BY <1>1, ReadAlways, PTL

(* Whatever order answers arrive in, the page and its cache hold every     *)
(* record before the newest they hold and before the one they would ask    *)
(* from (run.tsx:50-58, data.ts:185-191).                                  *)
THEOREM NeverAHole == Spec => []ShownIsPrefix
<1>1. ReadInv => ShownIsPrefix
  BY DEF ReadInv
<1> QED
  BY <1>1, ReadAlways, PTL

(* The browser keeps whole streams only (server.ts:494-500).               *)
THEOREM OnlyWholeIsKept == Spec => []ImmutableIsWhole
<1>1. ReadInv => ImmutableIsWhole
  BY DEF ReadInv
<1> QED
  BY <1>1, ReadAlways, PTL

(* A page that waits for nothing and has no timer holds run.end            *)
(* (run.tsx:45-64).                                                        *)
THEOREM NeverQuietEarly == Spec => []PollsUntilEnd
  BY QuietIsDone, ReadAlways, PTL

-----------------------------------------------------------------------------
(* As long as no polls overlapped, what is shown is exactly the records    *)
(* before the one the page would ask from, and the one load of the page    *)
(* begins there.                                                           *)
Exact(shown, known) == Len(shown) = known /\ \A i \in 1..known : shown[i] = i - 1
OneLoad == \A l \in Busy("page") : /\ loads[l].from = page.known
                                   /\ \A k \in Busy("page") : k = l
OnceInv ==
    overlaps = 0 => /\ Exact(page.shown, page.known) /\ Exact(kept.shown, kept.known)
                    /\ OneLoad

LEMMA ExactOnce ==
    ASSUME NEW s \in Sequence, NEW n, Exact(s, n)
    PROVE  OnceEach(s)
<1>1. DOMAIN s = 1..n /\ \A i \in 1..n : i \in Int
  BY DEF Exact, Sequence
<1> QED
  BY <1>1 DEF Exact, OnceEach

LEMMA ConcatRight ==
    ASSUME NEW s \in Seq(Records), NEW t \in Seq(Records), NEW i \in Nat,
           i > Len(s), i <= Len(s) + Len(t)
    PROVE  (s \o t)[i] = t[i - Len(s)]
  OBVIOUS

LEMMA ExactGrows ==
    ASSUME NEW s \in Sequence, NEW n \in Lengths, NEW m \in Lengths, Exact(s, n)
    PROVE  Exact(s \o Fresh(n, m), IF n < m THEN m ELSE n)
<1> DEFINE d == IF n < m THEN m - n ELSE 0
<1>1. n \in Nat /\ m \in Nat /\ d \in Nat /\ n + d = IF n < m THEN m ELSE n
  BY LengthsAre
<1>2. /\ Fresh(n, m) \in Seq(Records) /\ s \in Seq(Records)
      /\ DOMAIN Fresh(n, m) = 1..d /\ \A i \in 1..d : Fresh(n, m)[i] = n + i - 1
  <2>1. Fresh(n, m) \in Seq(Records) /\ s \in Seq(Records)
    BY FreshIs DEF Sequence
  <2>2. DOMAIN Fresh(n, m) = 1..d /\ \A i \in 1..d : Fresh(n, m)[i] = n + i - 1
    BY <1>1 DEF Fresh
  <2> QED
    BY <2>1, <2>2
<1> HIDE DEF d
<1>3. Len(Fresh(n, m)) = d /\ Len(s) = n
  <2>1. Len(Fresh(n, m)) \in Nat /\ 1..Len(Fresh(n, m)) = 1..d
    BY <1>2
  <2>2. /\ d = 0 \/ d \in 1..d
        /\ Len(Fresh(n, m)) = 0 \/ Len(Fresh(n, m)) \in 1..Len(Fresh(n, m))
    BY <1>1, <2>1
  <2>3. Len(Fresh(n, m)) <= d /\ d <= Len(Fresh(n, m))
    BY <1>1, <2>1, <2>2
  <2> QED
    BY <1>1, <2>1, <2>3 DEF Exact
<1>4. Len(s \o Fresh(n, m)) = n + d
  BY <1>1, <1>2, <1>3
<1>5. ASSUME NEW i \in 1..n + d PROVE (s \o Fresh(n, m))[i] = i - 1
  <2>1. CASE i <= n
    BY <1>1, <1>2, <1>3, <2>1 DEF Exact
  <2>2. CASE i > n
    <3>1. i - n \in 1..d /\ i \in Nat
      BY <1>1, <2>2
    <3>2. (s \o Fresh(n, m))[i] = Fresh(n, m)[i - n]
      <4>1. i <= n + d
        BY <1>1
      <4> QED
        BY <1>2, <1>3, <2>2, <3>1, <4>1, ConcatRight
    <3>3. Fresh(n, m)[i - n] = n + (i - n) - 1
      BY <1>2, <3>1
    <3> QED
      BY <1>1, <3>1, <3>2, <3>3
  <2>3. i <= n \/ i > n
    BY <1>1
  <2> QED
    BY <2>1, <2>2, <2>3
<1> QED
  BY <1>1, <1>4, <1>5 DEF Exact

LEMMA ExactStarts ==
    /\ Exact(<<>>, 0)
    /\ \A m \in Lengths : Exact(Fresh(0, m), m)
<1>1. Exact(<<>>, 0) /\ <<>> \in Sequence
  BY DEF Exact, Sequence
<1>2. ASSUME NEW m \in Lengths PROVE Exact(Fresh(0, m), m)
  <2>1. Exact(<<>> \o Fresh(0, m), IF 0 < m THEN m ELSE 0)
    BY <1>1, LengthsAre, ExactGrows
  <2>2. <<>> \o Fresh(0, m) = Fresh(0, m) /\ m = IF 0 < m THEN m ELSE 0
    BY LengthsAre, FreshIs DEF Sequence
  <2> QED
    BY <2>1, <2>2
<1> QED
  BY <1>1, <1>2

LEMMA OnceInit == Init => OnceInv
<1> SUFFICES ASSUME Init PROVE OnceInv
  OBVIOUS
<1>1. /\ page.shown = <<>> /\ page.known = 0 /\ kept.shown = <<>> /\ kept.known = 0
      /\ Busy("page") = {}
  BY DEF Init, Closed, Nothing, Busy, Idle
<1> QED
  BY <1>1, ExactStarts DEF OnceInv, OneLoad

(* No load of the page is added and none begins elsewhere.                 *)
LEMMA OnceSame ==
    ASSUME OnceInv, UNCHANGED <<page, kept, overlaps>>,
           \A l \in Loads : loads'[l].phase # "idle" /\ loads'[l].owner = "page" =>
              loads[l].phase # "idle" /\ loads[l].owner = "page" /\ loads'[l].from = loads[l].from
    PROVE  OnceInv'
<1>1. \A l \in Busy("page")' : l \in Busy("page") /\ loads'[l].from = loads[l].from
  BY DEF Busy
<1> QED
  BY <1>1 DEF OnceInv, OneLoad

(* The page's one load starts where the page has got to.                   *)
LEMMA OnceStart ==
    ASSUME ReadInv, Busy("page") = {}, Start("page", page'.known), page'.known \in Lengths,
           overlaps' = 0 => Exact(page'.shown, page'.known) /\ Exact(kept'.shown, kept'.known)
    PROVE  OnceInv'
<1>1. PICK l \in Free : loads' = [loads EXCEPT ![l] = NewLoad("page", page'.known)]
  <2>1. (CHOOSE l \in Loads : l \in Free) \in Free
    BY DEF Start, Free
  <2> QED
    BY <2>1 DEF Start
<1>2. l \in Loads /\ loads \in [Loads -> Load]
  BY <1>1 DEF Free, ReadInv, TypeOK
<1>3. /\ loads'[l].from = page'.known
      /\ \A k \in Loads \ {l} : loads'[k] = loads[k]
  BY <1>1, <1>2, NewLoadTyped DEF ReadInv
<1>4. \A k \in Busy("page")' : k = l
  BY <1>3 DEF Busy
<1> QED
  BY <1>3, <1>4 DEF OnceInv, OneLoad

LEMMA OnceStep == ReadInv /\ OnceInv /\ [Next]_vars => OnceInv'
<1> SUFFICES ASSUME ReadInv, OnceInv, [Next]_vars PROVE OnceInv'
  OBVIOUS
<1> USE DEF source, shows, bounds
<1>1. /\ loads \in [Loads -> Load]
      /\ page \in [open : BOOLEAN, shown : Sequence, known : Lengths, error : BOOLEAN,
                   timer : {"first", "on", "off"}]
      /\ kept \in [shown : Sequence, known : Lengths]
  BY DEF ReadInv, TypeOK
<1>2. CASE UNCHANGED <<page, kept, loads, overlaps>>
  BY <1>2, OnceSame
<1>3. CASE Runner
  BY <1>2, <1>3 DEF Runner, TearLine, WriteRecord, WriteCard, RunnerDies, Disk
<1>4. CASE OpenPublished \/ OpenFails
  BY <1>2, <1>4 DEF OpenPublished, OpenFails
<1>5. ASSUME NEW l \in Loads, NEW load, Becomes(l, load), loads[l].phase # "idle",
             load.owner = loads[l].owner, load.from = loads[l].from,
             UNCHANGED <<page, kept, overlaps>>
      PROVE  OnceInv'
  <2>1. loads'[l] = load /\ \A k \in Loads \ {l} : loads'[k] = loads[k]
    BY <1>1, <1>5 DEF Becomes
  <2> QED
    BY <1>5, <2>1, OnceSame
<1>6. ASSUME NEW l \in Loads, NEW phase \in {"sent", "stream", "answer", "listed", "failed"},
             Moves(l, phase), loads[l].phase # "idle", UNCHANGED <<page, kept, overlaps>>
      PROVE  OnceInv'
  BY <1>5, <1>6, MovesTyped DEF Moves, ReadInv
<1>7. ASSUME NEW l \in Loads, ReadCard(l) PROVE OnceInv'
  <2>1. /\ loads[l].phase # "idle" /\ UNCHANGED <<page, kept, overlaps>>
        /\ \/ Moves(l, "failed")
           \/ Becomes(l, [loads[l] EXCEPT !.phase = "stream", !.over = store.card = "over"])
    BY <1>7 DEF ReadCard
  <2>2. /\ [loads[l] EXCEPT !.phase = "stream", !.over = store.card = "over"].owner
              = loads[l].owner
        /\ [loads[l] EXCEPT !.phase = "stream", !.over = store.card = "over"].from
              = loads[l].from
    BY <1>1 DEF Load
  <2> QED
    BY <1>5, <1>6, <2>1, <2>2
<1>8. ASSUME NEW l \in Loads, ReadStream(l) PROVE OnceInv'
  <2>1. /\ loads[l].phase # "idle" /\ UNCHANGED <<page, kept, overlaps>>
        /\ \/ Moves(l, "failed")
           \/ Becomes(l, [loads[l] EXCEPT !.phase = "answer", !.upto = store.lines])
    BY <1>8 DEF ReadStream
  <2>2. /\ [loads[l] EXCEPT !.phase = "answer", !.upto = store.lines].owner = loads[l].owner
        /\ [loads[l] EXCEPT !.phase = "answer", !.upto = store.lines].from = loads[l].from
    BY <1>1 DEF Load
  <2> QED
    BY <1>5, <1>6, <2>1, <2>2
<1>9. ASSUME NEW l \in Loads, Answer(l) \/ RequestFails(l) PROVE OnceInv'
  BY <1>6, <1>9 DEF Answer, Answered, RequestFails
<1>10. ASSUME NEW l \in Loads, FetchFull(l) PROVE OnceInv'
  BY <1>2, <1>6, <1>10 DEF FetchFull
<1>11. ASSUME NEW l \in Loads, Settled(l) PROVE OnceInv'
  <2>1. /\ loads[l].phase # "idle" /\ UNCHANGED <<page, kept, overlaps>>
        /\ \/ Moves(l, "failed")
           \/ Becomes(l, [loads[l] EXCEPT !.phase = "listed", !.upto = Whole])
    BY <1>11 DEF Settled
  <2>2. /\ [loads[l] EXCEPT !.phase = "listed", !.upto = Whole].owner = loads[l].owner
        /\ [loads[l] EXCEPT !.phase = "listed", !.upto = Whole].from = loads[l].from
    BY <1>1 DEF Load
  <2> QED
    BY <1>5, <1>6, <2>1, <2>2
<1>12. ASSUME NEW l \in Loads, Becomes(l, Idle), UNCHANGED overlaps,
              loads[l].owner = "page" \/ page'.known = page.known,
              overlaps = 0 => Exact(page'.shown, page'.known) /\ Exact(kept'.shown, kept'.known),
              loads[l].phase # "idle"
       PROVE  OnceInv'
  <2>1. loads'[l] = Idle /\ \A k \in Loads \ {l} : loads'[k] = loads[k]
    BY <1>1, <1>12 DEF Becomes
  <2>2. \A k \in Busy("page")' : k \in Busy("page") /\ k # l /\ loads'[k] = loads[k]
    BY <2>1 DEF Busy, Idle
  <2>3. loads[l].owner = "page" => l \in Busy("page")
    BY <1>12 DEF Busy
  <2> QED
    BY <1>12, <2>2, <2>3 DEF OnceInv, OneLoad
<1>13. ASSUME NEW l \in Loads, Delivered(l) PROVE OnceInv'
  <2> DEFINE n == loads[l].from
             m == loads[l].upto
  <2>1. /\ loads[l].phase = "listed" /\ Becomes(l, Idle) /\ UNCHANGED overlaps
        /\ loads[l].owner \in {"page", "gone", "prefetch"}
        /\ n \in Lengths /\ m \in Lengths
    BY <1>1, <1>13 DEF Delivered, Load
  <2>2. CASE loads[l].owner = "page"
    <3>1. /\ page' = [page EXCEPT !.error = FALSE, !.shown = page.shown \o Fresh(n, m),
                                  !.known = IF n < m THEN m ELSE page.known,
                                  !.timer = TimerAfter(page.shown \o Fresh(n, m))]
          /\ kept' = IF n < m THEN [shown |-> page.shown \o Fresh(n, m), known |-> m] ELSE kept
      BY <1>13, <2>2 DEF Delivered, AppendFresh
    <3>2. /\ page'.shown = page.shown \o Fresh(n, m)
          /\ page'.known = IF n < m THEN m ELSE page.known
      BY <1>1, <3>1
    <3>3. ASSUME overlaps = 0
          PROVE  Exact(page'.shown, page'.known) /\ Exact(kept'.shown, kept'.known)
      <4>1. /\ Exact(page.shown, page.known) /\ Exact(kept.shown, kept.known)
            /\ n = page.known
        BY <2>1, <2>2, <3>3 DEF OnceInv, OneLoad, Busy
      <4>2. Exact(page'.shown, page'.known)
        BY <1>1, <2>1, <3>2, <4>1, ExactGrows
      <4>3. n < m => kept'.shown = page'.shown /\ kept'.known = page'.known
        BY <3>1, <3>2
      <4>4. ~(n < m) => kept' = kept
        BY <3>1
      <4> QED
        BY <4>1, <4>2, <4>3, <4>4
    <3> QED
      BY <1>12, <2>1, <2>2, <3>3
  <2>3. CASE loads[l].owner = "prefetch"
    <3>1. kept' = [shown |-> Fresh(0, m), known |-> m] /\ page' = page
      BY <1>13, <2>3 DEF Delivered, KeepPrefetched
    <3> QED
      BY <1>12, <2>1, <3>1, ExactStarts DEF OnceInv
  <2>4. CASE loads[l].owner = "gone"
    BY <1>12, <1>13, <2>1, <2>4 DEF Delivered, OnceInv
  <2> QED
    BY <2>1, <2>2, <2>3, <2>4
<1>14. ASSUME NEW l \in Loads, Rejected(l) PROVE OnceInv'
  <2>1. /\ loads[l].phase = "failed" /\ Becomes(l, Idle) /\ UNCHANGED <<overlaps, kept>>
        /\ page'.shown = page.shown /\ page'.known = page.known
    BY <1>1, <1>14 DEF Rejected
  <2> QED
    BY <1>12, <2>1 DEF OnceInv
<1>15. CASE Poll
  <2>1. CASE overlaps' = 0
    <3>1. overlaps = 0 /\ Busy("page") = {} /\ Start("page", page.known)
          /\ UNCHANGED <<page, kept>>
      BY <1>15, <2>1, ReadingAssumption DEF Poll, Overlapping, ReadInv, TypeOK
    <3> QED
      BY <1>1, <3>1, OnceStart DEF OnceInv
  <2>2. CASE overlaps' # 0
    BY <2>2 DEF OnceInv
  <2> QED
    BY <2>1, <2>2
<1>16. CASE Prefetch
  <2>1. PICK l \in Free : loads' = [loads EXCEPT ![l] = NewLoad("prefetch", 0)]
    <3>1. (CHOOSE l \in Loads : l \in Free) \in Free
      BY <1>16 DEF Prefetch, Start, Free
    <3> QED
      BY <1>16, <3>1 DEF Prefetch, Start
  <2>2. l \in Loads /\ loads'[l].owner = "prefetch"
        /\ \A k \in Loads \ {l} : loads'[k] = loads[k]
    BY <1>1, <2>1, NewLoadTyped, LengthsAre DEF Free, ReadInv
  <2> QED
    BY <1>16, <2>2, OnceSame DEF Prefetch
<1>17. CASE Visit
  <2>1. Busy("page") = {}
    BY <1>17 DEF Visit, Busy, ReadInv, LoadsSound, LoadSound
  <2>2. /\ page'.shown = kept.shown /\ page'.known = kept.known /\ UNCHANGED <<kept, overlaps>>
        /\ Start("page", page'.known)
    BY <1>17 DEF Visit
  <2> QED
    BY <1>1, <2>1, <2>2, OnceStart DEF OnceInv
<1>18. CASE Leave
  <2>1. page'.shown = <<>> /\ page'.known = 0 /\ UNCHANGED <<kept, overlaps>>
    BY <1>18 DEF Leave, Closed
  <2>2. Busy("page")' = {}
    <3>1. \A l \in Loads : loads'[l].phase # "idle" => loads'[l].owner # "page"
      BY <1>1, <1>18 DEF Leave, Busy, Load
    <3> QED
      BY <3>1 DEF Busy
  <2> QED
    BY <2>1, <2>2, ExactStarts DEF OnceInv, OneLoad
<1> QED
  BY <1>2, <1>3, <1>4, <1>7, <1>8, <1>9, <1>10, <1>11, <1>13, <1>14, <1>15, <1>16, <1>17, <1>18
     DEF Next, Answers, Reader, vars

(* A record is shown twice only if two polls overlapped (run.tsx:50-62:    *)
(* the interval does not wait for the poll before it).                     *)
THEOREM TwiceOnlyIfOverlapped == Spec => []TwiceNeedsOverlap
<1>1. ReadInv /\ OnceInv => TwiceNeedsOverlap
  BY ExactOnce DEF ReadInv, TypeOK, OnceInv, TwiceNeedsOverlap
<1> QED
  BY <1>1, OnceInit, OnceStep, ReadAlways, PTL DEF Spec
=============================================================================
