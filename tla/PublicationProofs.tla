-------------------------- MODULE PublicationProofs --------------------------
(***************************************************************************)
(* Theorems about publication for every number of runs, publishers and     *)
(* failures: the bucket first, then the index that is folded from it, then *)
(* what a browser makes of the index.                                      *)
(***************************************************************************)
EXTENDS Publication, FiniteSetTheorems, TLAPS

Places == {"idle", "headStream", "headCard", "putStream", "putCard"}

UploadTyped ==
    /\ bucket \in [Runs -> SUBSET Objects]
    /\ pub \in [Publishers -> [at : Places, run : 0..MaxRuns, exists : BOOLEAN]]
    /\ \A p \in Publishers : pub[p].at # "idle" => pub[p].run \in Runs

(* A publisher that is about to put the card has put the stream.           *)
StreamFirst ==
    /\ CardCommits
    /\ \A p \in Publishers : pub[p].at = "putCard" => "stream" \in bucket[pub[p].run]

(* A run nobody shared: one publisher has it, and what that one was told,  *)
(* or put last, still describes the bucket.                                *)
Undisturbed(p) ==
    /\ \A q \in Publishers \ {p} : ~(pub[q].at # "idle" /\ pub[q].run = pub[p].run)
    /\ pub[p].at = "headCard" /\ ~pub[p].exists => "stream" \notin bucket[pub[p].run]
    /\ pub[p].at = "putStream" => bucket[pub[p].run] = {}
    /\ pub[p].at = "putCard" => "card" \notin bucket[pub[p].run]

Alone == \A p \in Publishers :
            pub[p].at # "idle" /\ pub[p].run \notin overlap => Undisturbed(p)

UploadInv == UploadTyped /\ StreamFirst /\ Alone /\ OverwriteNeedsOverlap

-----------------------------------------------------------------------------
LEMMA InitUpload == Init => UploadInv
  BY PublicationAssumption
  DEF Init, UploadInv, UploadTyped, StreamFirst, Alone, CardCommits, OverwriteNeedsOverlap,
      Resting, Places, Objects, Runs

LEMMA SelectUpload ==
    ASSUME UploadInv, NEW p \in Publishers, NEW r \in Runs, Select(p, r)
    PROVE  UploadInv'
<1> USE DEF UploadInv
<1>1. /\ bucket' = bucket /\ overwritten' = overwritten
      /\ pub' = [pub EXCEPT ![p] = [at |-> "headStream", run |-> r, exists |-> FALSE]]
  BY DEF Select
<1>2. UploadTyped'
  BY <1>1, PublicationAssumption DEF UploadTyped, Places, Runs
<1>3. StreamFirst'
  BY <1>1 DEF UploadTyped, StreamFirst, CardCommits
<1>4. overlap \subseteq overlap' /\ (r \notin overlap' => Busy(r) = {})
  BY DEF Select
<1>5. Alone'
  BY <1>1, <1>4 DEF UploadTyped, Alone, Undisturbed, Busy
<1>6. OverwriteNeedsOverlap'
  BY <1>1, <1>4 DEF OverwriteNeedsOverlap
<1> QED
  BY <1>2, <1>3, <1>5, <1>6

LEMMA HeadUpload ==
    ASSUME UploadInv, NEW p \in Publishers, HeadStream(p) \/ HeadCard(p)
    PROVE  UploadInv'
<1> USE DEF UploadInv
<1>1. bucket' = bucket /\ overwritten' = overwritten /\ overlap' = overlap
  BY DEF HeadStream, HeadCard
<1>2. UploadTyped'
  <2>1. CASE HeadStream(p)
    <3> DEFINE told == "stream" \in bucket[pub[p].run]
               next == [pub[p] EXCEPT !.at = "headCard", !.exists = told]
    <3>1. told \in BOOLEAN
      OBVIOUS
    <3>2. pub' = [pub EXCEPT ![p] = next]
      BY <2>1 DEF HeadStream, UploadTyped
    <3> HIDE DEF told
    <3>3. next \in [at : Places, run : 0..MaxRuns, exists : BOOLEAN] /\ next.run \in Runs
      BY <2>1, <3>1 DEF HeadStream, UploadTyped, Places
    <3> HIDE DEF next
    <3> QED
      BY <1>1, <3>2, <3>3 DEF UploadTyped
  <2>2. CASE HeadCard(p)
    <3>1. PICK next \in {Resting, [pub[p] EXCEPT !.at = "putStream"]} :
             pub' = [pub EXCEPT ![p] = next]
      BY <2>2 DEF HeadCard, UploadTyped
    <3>2. /\ next \in [at : Places, run : 0..MaxRuns, exists : BOOLEAN]
          /\ next.at # "idle" => next.run \in Runs
      <4>1. CASE next = Resting
        BY <4>1, PublicationAssumption DEF Resting, Places
      <4>2. CASE next = [pub[p] EXCEPT !.at = "putStream"]
        BY <2>2, <4>2 DEF HeadCard, UploadTyped, Places
      <4> QED
        BY <3>1, <4>1, <4>2
    <3> QED
      BY <1>1, <3>1, <3>2 DEF UploadTyped
  <2> QED
    BY <2>1, <2>2
<1>3. StreamFirst'
  BY <1>1 DEF HeadStream, HeadCard, UploadTyped, StreamFirst, CardCommits, Resting
<1>4. Alone'
  <2>1. CASE HeadStream(p)
    BY <1>1, <2>1 DEF HeadStream, UploadTyped, Alone, Undisturbed
  <2>2. CASE HeadCard(p)
    BY <1>1, <2>2 DEF HeadCard, UploadTyped, Alone, Undisturbed, Resting, Objects
  <2> QED
    BY <2>1, <2>2
<1>5. OverwriteNeedsOverlap'
  BY <1>1 DEF OverwriteNeedsOverlap
<1> QED
  BY <1>2, <1>3, <1>4, <1>5

(* A PUT, whether its caller learns of it or not: the next place is where  *)
(* the publisher goes.                                                     *)
LEMMA PutUpload ==
    ASSUME UploadInv, NEW p \in Publishers, NEW o \in Objects, Put(pub[p].run, o),
           NEW next \in [at : Places, run : 0..MaxRuns, exists : BOOLEAN],
           pub' = [pub EXCEPT ![p] = next], overlap' = overlap,
           \/ pub[p].at = "putStream" /\ o = "stream"
           \/ pub[p].at = "putCard" /\ o = "card",
           \/ next = Resting
           \/ o = "stream" /\ next.at = "putCard" /\ next.run = pub[p].run
    PROVE  UploadInv'
<1> USE DEF UploadInv
<1> DEFINE r == pub[p].run
<1>1. r \in Runs /\ pub[p].at # "idle"
  BY DEF UploadTyped
<1>2. bucket' = [bucket EXCEPT ![r] = @ \cup {o}]
  BY DEF Put
<1>3. UploadTyped'
  BY <1>1, <1>2 DEF UploadTyped, Resting
<1>4. StreamFirst'
  BY <1>1, <1>2 DEF UploadTyped, StreamFirst, CardCommits, Resting
<1>5. Alone'
  BY <1>1, <1>2 DEF UploadTyped, Alone, Undisturbed, Resting
<1>6. OverwriteNeedsOverlap'
  BY <1>1 DEF OverwriteNeedsOverlap, Put, Alone, Undisturbed
<1> QED
  BY <1>3, <1>4, <1>5, <1>6

LEMMA FailUpload ==
    ASSUME UploadInv, NEW p \in Publishers, UploadFails(p)
    PROVE  UploadInv'
<1>1. /\ pub' = [pub EXCEPT ![p] = Resting] /\ overlap' = overlap
      /\ Resting \in [at : Places, run : 0..MaxRuns, exists : BOOLEAN]
  BY PublicationAssumption DEF UploadFails, Resting, Places
<1>2. CASE UNCHANGED <<bucket, overwritten>>
  BY <1>1, <1>2
  DEF UploadInv, UploadTyped, StreamFirst, CardCommits, Alone, Undisturbed,
      OverwriteNeedsOverlap, Resting
<1>3. CASE pub[p].at = "putStream" /\ Put(pub[p].run, "stream")
  BY <1>1, <1>3, PutUpload DEF Objects
<1>4. CASE pub[p].at = "putCard" /\ Put(pub[p].run, "card")
  BY <1>1, <1>4, PutUpload DEF Objects
<1> QED
  BY <1>2, <1>3, <1>4 DEF UploadFails

LEMMA NextUpload == UploadInv /\ [Next]_vars => UploadInv'
<1> SUFFICES ASSUME UploadInv, [Next]_vars PROVE UploadInv'
  OBVIOUS
<1>1. ASSUME NEW p \in Publishers, Publish(p) PROVE UploadInv'
  <2>1. CASE \E r \in Runs : Select(p, r)
    BY <2>1, SelectUpload
  <2>2. CASE HeadStream(p) \/ HeadCard(p)
    BY <2>2, HeadUpload
  <2>3. CASE PutStream(p)
    <3> DEFINE next == [pub[p] EXCEPT !.at = "putCard"]
    <3>1. /\ pub' = [pub EXCEPT ![p] = next] /\ next.run = pub[p].run
          /\ next \in [at : Places, run : 0..MaxRuns, exists : BOOLEAN]
      BY <2>3 DEF PutStream, UploadInv, UploadTyped, Places
    <3>2. /\ pub[p].at = "putStream" /\ Put(pub[p].run, "stream")
          /\ overlap' = overlap /\ next.at = "putCard"
      BY <2>3 DEF PutStream, UploadInv, UploadTyped
    <3> HIDE DEF next
    <3> QED
      BY <3>1, <3>2, PutUpload DEF Objects
  <2>4. CASE PutCard(p)
    <3>1. Resting \in [at : Places, run : 0..MaxRuns, exists : BOOLEAN]
      BY PublicationAssumption DEF Resting, Places
    <3> QED
      BY <2>4, <3>1, PutUpload DEF PutCard, Objects
  <2>5. CASE UploadFails(p)
    BY <2>5, FailUpload
  <2> QED
    BY <1>1, <2>1, <2>2, <2>3, <2>4, <2>5 DEF Publish
<1>2. CASE UNCHANGED upload
  BY <1>2
  DEF upload, UploadInv, UploadTyped, StreamFirst, CardCommits, Alone, Undisturbed,
      OverwriteNeedsOverlap
<1>3. Index => UNCHANGED upload
  BY DEF Index, StartIndex, ListPage, Deploy, IndexFails
<1>4. Refresh => UNCHANGED upload
  BY DEF Refresh, RefreshRoot, RootFails, RefreshShard, ShardFails, RefreshEnds
<1> QED
  BY <1>1, <1>2, <1>3, <1>4 DEF Next, vars

(* publish.py:136: a card in the bucket means its stream is there, for any *)
(* number of publishers and wherever each of them died.                    *)
THEOREM CardNeverAlone == Spec => []CardCommits
<1>1. UploadInv => CardCommits
  BY DEF UploadInv, StreamFirst
<1> QED
  BY <1>1, InitUpload, NextUpload, PTL DEF Spec

(* publishing.md:71-72: an object is put twice only if two publishers had  *)
(* its run in hand at the same time.                                       *)
THEOREM OverwriteOnlyInOverlap == Spec => []OverwriteNeedsOverlap
<1>1. UploadInv => OverwriteNeedsOverlap
  BY DEF UploadInv
<1> QED
  BY <1>1, InitUpload, NextUpload, PTL DEF Spec

-----------------------------------------------------------------------------
(* What the indexer has seen: keys listed before `pos` are all there that  *)
(* a run whole at the start has, and nothing is listed that is not there.  *)
Seen(r, o) == Key(r, o) \in ix.listed

Listing ==
    /\ ix \in [at : {"idle", "list", "read"}, pos : 1..LastKey, listed : SUBSET Nat,
               whole : SUBSET Runs]
    /\ ix.whole \subseteq Whole
    /\ \A r \in Runs, o \in Objects : Seen(r, o) => o \in bucket[r]
    /\ \A r \in ix.whole, o \in Objects :
          ix.at = "read" \/ (ix.at = "list" /\ Key(r, o) < ix.pos) => Seen(r, o)

IndexInv == UploadInv /\ Listing /\ IndexComplete

(* Two objects never share a key, and no key lies beyond the last.         *)
LEMMA KeysDiffer ==
    ASSUME NEW r \in Runs, NEW s \in Runs, NEW o \in Objects, NEW q \in Objects
    PROVE  /\ Key(r, o) = Key(s, q) => r = s /\ o = q
           /\ Key(r, o) \in 1..LastKey
  BY PublicationAssumption DEF Key, LastKey, Runs, Objects

LEMMA InitIndex == Init => IndexInv
<1> SUFFICES ASSUME Init PROVE IndexInv
  OBVIOUS
<1>1. Listing /\ IndexComplete
  BY PublicationAssumption DEF Init, Listing, Seen, IndexComplete, Whole, NoIndexer, LastKey
<1> QED
  BY <1>1, InitUpload DEF IndexInv

(* Objects are never taken out of the bucket.                              *)
LEMMA BucketGrows ==
    ASSUME UploadInv, NEW p \in Publishers, Publish(p)
    PROVE  \A r \in Runs : bucket[r] \subseteq bucket'[r] /\ bucket'[r] \subseteq Objects
  BY DEF UploadInv, UploadTyped, Publish, Select, HeadStream, HeadCard, PutStream, PutCard,
         UploadFails, Put, Objects

LEMMA PublishIndex ==
    ASSUME IndexInv, NEW p \in Publishers, Publish(p)
    PROVE  (Listing /\ IndexComplete)'
<1>1. UNCHANGED <<ix, site>>
  BY DEF Publish, Select, HeadStream, HeadCard, PutStream, PutCard, UploadFails
<1>2. \A r \in Runs : bucket[r] \subseteq bucket'[r] /\ bucket'[r] \subseteq Objects
  BY BucketGrows DEF IndexInv
<1>3. Whole \subseteq Whole'
  BY <1>2 DEF Whole
<1> QED
  BY <1>1, <1>2, <1>3 DEF IndexInv, Listing, Seen, Key, IndexComplete, Whole

(* One page: the keys from pos to k that exist now join the listing.       *)
LEMMA ListPageIndex ==
    ASSUME IndexInv, ListPage
    PROVE  (Listing /\ IndexComplete)'
<1>1. PICK k \in ix.pos..LastKey :
         ix' = [ix EXCEPT !.listed = @ \cup Existing(ix.pos, k),
                          !.at  = IF k = LastKey THEN "read" ELSE "list",
                          !.pos = IF k = LastKey THEN 1 ELSE k + 1]
  BY DEF ListPage
<1>2. ix.at = "list" /\ LastKey \in Nat \ {0} /\ k \in Nat \ {0}
  BY PublicationAssumption DEF ListPage, IndexInv, Listing, LastKey
<1>3. UNCHANGED <<bucket, site>>
  BY DEF ListPage, upload
<1>4. /\ ix'.at = IF k = LastKey THEN "read" ELSE "list"
      /\ ix'.pos = IF k = LastKey THEN 1 ELSE k + 1
      /\ ix'.listed = ix.listed \cup Existing(ix.pos, k)
      /\ ix'.whole = ix.whole
  BY <1>1 DEF IndexInv, Listing
<1>5. Existing(ix.pos, k) \subseteq Nat
  BY <1>2 DEF Existing, IndexInv, Listing
<1>6. ix' \in [at : {"idle", "list", "read"}, pos : 1..LastKey, listed : SUBSET Nat,
               whole : SUBSET Runs]
  <2>1. PICK a \in {"list", "read"}, n \in 1..LastKey :
           ix' = [ix EXCEPT !.listed = @ \cup Existing(ix.pos, k), !.at = a, !.pos = n]
    <3>1. (IF k = LastKey THEN 1 ELSE k + 1) \in 1..LastKey
      BY <1>1, <1>2 DEF IndexInv, Listing
    <3> QED
      BY <1>1, <3>1
  <2> QED
    BY <1>5, <2>1 DEF IndexInv, Listing
<1>7. ASSUME NEW r \in Runs, NEW o \in Objects, Key(r, o) \in ix'.listed
      PROVE  o \in bucket'[r]
  <2>1. CASE Seen(r, o)
    BY <2>1, <1>3 DEF IndexInv, Listing
  <2>2. CASE Key(r, o) \in Existing(ix.pos, k)
    <3>1. PICK s \in Runs : \E q \in bucket[s] : Key(r, o) = Key(s, q)
      BY <2>2 DEF Existing
    <3>2. PICK q \in bucket[s] : Key(r, o) = Key(s, q)
      BY <3>1
    <3>3. q \in Objects
      BY <3>2 DEF IndexInv, UploadInv, UploadTyped
    <3> QED
      BY <1>3, <3>2, <3>3, KeysDiffer
  <2> QED
    BY <1>4, <1>7, <2>1, <2>2 DEF Seen
<1>8. ASSUME NEW r \in ix'.whole, NEW o \in Objects,
             ix'.at = "read" \/ (ix'.at = "list" /\ Key(r, o) < ix'.pos)
      PROVE  Key(r, o) \in ix'.listed
  <2>1. r \in Runs /\ o \in bucket[r]
    BY <1>4, <1>8 DEF IndexInv, Listing, Whole
  <2>2. Key(r, o) \in 1..LastKey
    BY <2>1, KeysDiffer
  <2>3. CASE Key(r, o) < ix.pos
    BY <1>2, <1>4, <1>8, <2>3 DEF IndexInv, Listing, Seen
  <2>4. CASE Key(r, o) >= ix.pos
    <3>1. Key(r, o) \in ix.pos..k
      BY <1>1, <1>2, <1>4, <1>8, <2>2, <2>4 DEF IndexInv, Listing
    <3> QED
      BY <1>4, <2>1, <3>1 DEF Existing
  <2> QED
    BY <2>2, <2>3, <2>4 DEF IndexInv, Listing
<1> QED
  BY <1>3, <1>4, <1>6, <1>7, <1>8 DEF IndexInv, Listing, Seen, IndexComplete, Whole

LEMMA OtherIndex ==
    ASSUME IndexInv, StartIndex \/ IndexFails
    PROVE  (Listing /\ IndexComplete)'
<1>1. UNCHANGED <<bucket, site>> /\ LastKey \in Nat \ {0}
  BY PublicationAssumption DEF StartIndex, IndexFails, upload, LastKey
<1>2. PICK w \in {Whole, {}}, a \in {"list", "idle"} :
         ix' = [at |-> a, pos |-> 1, listed |-> {}, whole |-> w]
  BY DEF StartIndex, IndexFails, NoIndexer
<1>3. \A r \in Runs, o \in Objects : ~(Key(r, o) < 1)
  BY PublicationAssumption DEF Key, Runs
<1> QED
  BY <1>1, <1>2, <1>3 DEF IndexInv, Listing, Seen, Key, IndexComplete, Whole

LEMMA DeployIndex ==
    ASSUME IndexInv, Deploy
    PROVE  (Listing /\ IndexComplete)'
<1>1. ix.at = "read" /\ ix' = NoIndexer /\ UNCHANGED bucket
  BY DEF Deploy, upload
<1>2. Listing'
  BY <1>1, PublicationAssumption DEF Listing, NoIndexer, Seen, Whole, LastKey
<1>3. ix.whole \subseteq Pairs
  BY <1>1 DEF IndexInv, Listing, Seen, Pairs, Whole, Objects
<1>4. Pairs \subseteq Whole
  BY DEF IndexInv, UploadInv, UploadTyped, Listing, Seen, Pairs, Whole, Objects
<1>5. IndexComplete'
  BY <1>1, <1>3, <1>4 DEF Deploy, IndexComplete, Whole
<1> QED
  BY <1>2, <1>5

LEMMA NextIndex == IndexInv /\ [Next]_vars => IndexInv'
<1> SUFFICES ASSUME IndexInv, [Next]_vars PROVE (Listing /\ IndexComplete)'
  BY NextUpload DEF IndexInv
<1>1. CASE \E p \in Publishers : Publish(p)
  BY <1>1, PublishIndex
<1>2. CASE Index
  BY <1>2, ListPageIndex, OtherIndex, DeployIndex DEF Index
<1>3. CASE UNCHANGED <<bucket, ix, site>>
  BY <1>3 DEF IndexInv, Listing, Seen, Key, IndexComplete, Whole
<1>4. Refresh => UNCHANGED <<bucket, ix, site>>
  BY DEF Refresh, RefreshRoot, RootFails, RefreshShard, ShardFails, RefreshEnds, upload
<1> QED
  BY <1>1, <1>2, <1>3, <1>4 DEF Next, vars, upload

(* A deployed index lists whole runs only, and every wanted run that was   *)
(* whole when its command started and could be read, however many pages    *)
(* the listing takes and whatever is published in between.                 *)
THEOREM IndexMissesNothing == Spec => []IndexComplete
<1>1. IndexInv => IndexComplete
  BY DEF IndexInv
<1> QED
  BY <1>1, InitIndex, NextIndex, PTL DEF Spec

-----------------------------------------------------------------------------
(* The browser.  While it reads, each run it is owed waits for its shard,  *)
(* is among the rows, or has a diagnostic entry of its experiment.         *)
Accounted ==
    \A r \in page.owed :
        \/ ExperimentOf[r] \in page.todo
        \/ r \in page.rows
        \/ ExperimentOf[r] \in page.failed

(* What TypeOK says beyond UploadTyped and Listing.                        *)
RestTyped ==
    /\ overlap \subseteq Runs /\ overwritten \subseteq Runs
    /\ ix.listed \subseteq 1..LastKey
    /\ site \in [built : BOOLEAN, rows : SUBSET Runs, owed : SUBSET Runs]
    /\ page \in [at : {"idle", "shards"}, todo : SUBSET Experiments,
                 rows : SUBSET Runs, failed : SUBSET Experiments, owed : SUBSET Runs]
    /\ shown \subseteq Runs
    /\ faults \in 0..MaxFaults

SiteInv == IndexInv /\ RestTyped /\ Accounted

LEMMA SiteInvImplies == SiteInv => TypeOK /\ NothingHidden
<1> SUFFICES ASSUME SiteInv PROVE TypeOK /\ NothingHidden
  OBVIOUS
<1> USE DEF SiteInv, IndexInv
<1>1. ix \in [at : {"idle", "list", "read"}, pos : 1..LastKey, listed : SUBSET (1..LastKey),
              whole : SUBSET Runs]
  BY DEF Listing, RestTyped
<1>2. TypeOK
  BY <1>1 DEF UploadInv, UploadTyped, Places, RestTyped, TypeOK
<1>3. NothingHidden
  BY DEF Accounted, NothingHidden
<1> QED
  BY <1>2, <1>3

LEMMA InitSite == Init => SiteInv
<1> SUFFICES ASSUME Init PROVE RestTyped /\ Accounted
  BY InitIndex DEF SiteInv
<1> QED
  BY PublicationAssumption DEF Init, RestTyped, Accounted, NoIndexer, NoPage

(* Runs are finitely many: their number can be counted.                    *)
LEMMA RunsCounted ==
    ASSUME NEW S \in SUBSET Runs
    PROVE  Cardinality(S) \in Nat
<1>1. IsFiniteSet(Runs)
  BY FS_Interval, PublicationAssumption DEF Runs
<1> QED
  BY <1>1, FS_Subset, FS_CardinalityType

(* Experiments of runs are experiments.                                    *)
LEMMA NamedTyped ==
    ASSUME RestTyped PROVE Named \subseteq Experiments
  BY PublicationAssumption DEF RestTyped, Named

LEMMA FaultsCounted ==
    ASSUME RestTyped, Fault \/ UNCHANGED faults PROVE faults' \in 0..MaxFaults
  BY PublicationAssumption DEF RestTyped, Fault

LEMMA PublishSite ==
    ASSUME SiteInv, NEW p \in Publishers, Publish(p)
    PROVE  (RestTyped /\ Accounted)'
<1>1. pub[p].at # "idle" => pub[p].run \in Runs
  BY DEF SiteInv, IndexInv, UploadInv, UploadTyped
<1>2. overlap' \subseteq Runs
  BY DEF SiteInv, RestTyped, Publish, Select, HeadStream, HeadCard, PutStream, PutCard, UploadFails
<1>3. overwritten' \subseteq Runs
  BY <1>1 DEF SiteInv, RestTyped, Publish, Select, HeadStream, HeadCard, PutStream, PutCard,
              UploadFails, Put
<1>4. faults' \in 0..MaxFaults
  BY FaultsCounted
  DEF SiteInv, Publish, Select, HeadStream, HeadCard, PutStream, PutCard, UploadFails
<1>5. UNCHANGED <<ix, site, page, shown>>
  BY DEF Publish, Select, HeadStream, HeadCard, PutStream, PutCard, UploadFails, browser
<1> QED
  BY <1>2, <1>3, <1>4, <1>5 DEF SiteInv, RestTyped, Accounted

LEMMA IndexSite ==
    ASSUME SiteInv, Index
    PROVE  (RestTyped /\ Accounted)'
<1>1. UNCHANGED <<overlap, overwritten, page, shown>>
  BY DEF Index, StartIndex, ListPage, Deploy, IndexFails, upload, browser
<1>2. CASE StartIndex \/ IndexFails
  <2>a. PICK w \in {Whole, {}}, a \in {"list", "idle"} :
           ix' = [at |-> a, pos |-> 1, listed |-> {}, whole |-> w]
    BY <1>2 DEF StartIndex, IndexFails, NoIndexer
  <2>1. ix'.listed = {} /\ site' = site
    BY <1>2, <2>a DEF StartIndex, IndexFails
  <2>2. faults' \in 0..MaxFaults
    BY <1>2, FaultsCounted DEF StartIndex, IndexFails, SiteInv
  <2> QED
    BY <1>1, <2>1, <2>2 DEF SiteInv, RestTyped, Accounted
<1>3. CASE ListPage
  <2>1. /\ ix'.listed \subseteq ix.listed \cup {k \in Nat : \E r \in Runs, o \in Objects : k = Key(r, o)}
        /\ UNCHANGED <<site, faults>>
    <3>1. PICK k \in ix.pos..LastKey : ix'.listed = ix.listed \cup Existing(ix.pos, k)
      BY <1>3 DEF ListPage, SiteInv, IndexInv, Listing
    <3>2. Existing(ix.pos, k) \subseteq {n \in Nat : \E r \in Runs, o \in Objects : n = Key(r, o)}
      <4>1. ix.pos \in Nat
        BY DEF SiteInv, IndexInv, Listing
      <4>2. \A r \in Runs : bucket[r] \subseteq Objects
        BY DEF SiteInv, IndexInv, UploadInv, UploadTyped
      <4>3. ix.pos..k \subseteq Nat
        BY <4>1
      <4> QED
        BY <4>2, <4>3 DEF Existing
    <3> QED
      BY <1>3, <3>1, <3>2 DEF ListPage
  <2>2. ix'.listed \subseteq 1..LastKey
    BY <2>1, KeysDiffer DEF SiteInv, RestTyped
  <2> QED
    BY <1>1, <2>1, <2>2 DEF SiteInv, RestTyped, Accounted
<1>4. CASE Deploy
  <2>1. PICK skipped \in SUBSET Pairs :
           /\ faults' = faults + Cardinality(skipped) /\ faults' <= MaxFaults
           /\ site' = [built |-> TRUE, rows |-> (Pairs \cap Wanted) \ skipped,
                       owed |-> (ix.whole \cap Wanted) \ skipped]
    BY <1>4 DEF Deploy
  <2>2. Cardinality(skipped) \in Nat
    BY RunsCounted DEF Pairs
  <2>3. faults' \in 0..MaxFaults
    BY <2>1, <2>2, PublicationAssumption DEF SiteInv, RestTyped
  <2>4. site' \in [built : BOOLEAN, rows : SUBSET Runs, owed : SUBSET Runs]
    BY <2>1 DEF Pairs, SiteInv, IndexInv, Listing
  <2>5. ix'.listed = {}
    BY <1>4 DEF Deploy, NoIndexer
  <2> QED
    BY <1>1, <2>3, <2>4, <2>5 DEF SiteInv, RestTyped, Accounted
<1> QED
  BY <1>2, <1>3, <1>4 DEF Index

(* A shard that is read brings every run of its experiment that the index  *)
(* owes; one that is not read is named.                                    *)
LEMMA RefreshSite ==
    ASSUME SiteInv, Refresh
    PROVE  (RestTyped /\ Accounted)'
<1>1. UNCHANGED <<overlap, overwritten, ix, site>>
  BY DEF Refresh, RefreshRoot, RootFails, RefreshShard, ShardFails, RefreshEnds, upload
<1>2. faults' \in 0..MaxFaults
  BY FaultsCounted
  DEF SiteInv, Refresh, RefreshRoot, RootFails, RefreshShard, ShardFails, RefreshEnds
<1>3. site.owed \subseteq site.rows
  BY DEF SiteInv, IndexInv, IndexComplete
<1>4. CASE RefreshRoot
  <2>1. page' = [NoPage EXCEPT !.at = "shards", !.todo = Named, !.owed = site.owed] /\ shown' = shown
    BY <1>4 DEF RefreshRoot
  <2>2. \A r \in site.owed : ExperimentOf[r] \in Named
    BY <1>3 DEF Named
  <2> QED
    BY <1>1, <1>2, <2>1, <2>2, NamedTyped DEF SiteInv, RestTyped, Accounted, NoPage
<1>5. CASE RootFails
  BY <1>1, <1>2, <1>5 DEF RootFails, SiteInv, RestTyped, Accounted, NoPage
<1>6. ASSUME NEW e \in Experiments, RefreshShard(e) PROVE (RestTyped /\ Accounted)'
  <2> DEFINE still == {r \in page.owed : ExperimentOf[r] = e => r \in site.owed}
  <2>1. /\ page' = [page EXCEPT !.todo = @ \ {e}, !.rows = @ \cup Shard(e), !.owed = still]
        /\ shown' = shown
    BY <1>6 DEF RefreshShard, SiteInv, RestTyped
  <2>2. Shard(e) \subseteq Runs /\ still \subseteq Runs
    BY DEF Shard, SiteInv, RestTyped
  <2>3. /\ page'.todo = page.todo \ {e} /\ page'.rows = page.rows \cup Shard(e)
        /\ page'.owed = still /\ page'.failed = page.failed /\ page'.at = page.at
    BY <2>1 DEF SiteInv, RestTyped
  <2>4. Accounted'
    BY <1>3, <2>3 DEF SiteInv, Accounted, Shard, RestTyped
  <2>5. page' \in [at : {"idle", "shards"}, todo : SUBSET Experiments, rows : SUBSET Runs,
                   failed : SUBSET Experiments, owed : SUBSET Runs]
    <3> HIDE DEF still
    <3> QED
      BY <2>1, <2>2 DEF SiteInv, RestTyped
  <2> QED
    BY <1>1, <1>2, <2>1, <2>4, <2>5 DEF SiteInv, RestTyped
<1>7. ASSUME NEW e \in Experiments, ShardFails(e) PROVE (RestTyped /\ Accounted)'
  BY <1>1, <1>2, <1>7 DEF ShardFails, SiteInv, RestTyped, Accounted
<1>8. CASE RefreshEnds
  BY <1>1, <1>2, <1>8 DEF RefreshEnds, SiteInv, RestTyped, Accounted, NoPage
<1> QED
  BY <1>4, <1>5, <1>6, <1>7, <1>8 DEF Refresh

LEMMA NextSite == SiteInv /\ [Next]_vars => SiteInv'
<1> SUFFICES ASSUME SiteInv, [Next]_vars PROVE (RestTyped /\ Accounted)'
  BY NextIndex DEF SiteInv
<1>1. CASE UNCHANGED vars
  BY <1>1 DEF vars, upload, browser, SiteInv, RestTyped, Accounted
<1> QED
  BY <1>1, PublishSite, IndexSite, RefreshSite DEF Next

(* Publishers, indexer and browser keep their shapes.                      *)
THEOREM PublicationTypeCorrect == Spec => []TypeOK
  BY InitSite, NextSite, SiteInvImplies, PTL DEF Spec

(* publishing.md:177-178: a refresh ends with every run owed by the index  *)
(* whose root it read and by the one whose shard it read, or names the     *)
(* run's experiment, however often the site is deployed in between.        *)
THEOREM RefreshHidesNothing == Spec => []NothingHidden
  BY InitSite, NextSite, SiteInvImplies, PTL DEF Spec
=============================================================================
