----------------------------- MODULE Publication -----------------------------
(***************************************************************************)
(* From a finished run to a row in the published viewer.  Publishers       *)
(* (runner/.../publish.py) copy a run into a bucket with HEAD and PUT      *)
(* alone; the indexer (index.py) folds what a paged listing shows into a   *)
(* site; browsers (web/src/lib/published-source.ts) read the site piece by *)
(* piece.  None of the three knows of the others, nothing is locked.       *)
(***************************************************************************)
EXTENDS Naturals, FiniteSets

CONSTANTS
    MaxRuns,        \* runs, numbered in the order of their keys
    Publishers,     \* processes that publish
    Fit,            \* Fit[p]: runs of p's data directory that pass the gate
    Wanted,         \* runs the filters of the store list let through
    Experiments,
    ExperimentOf,   \* the experiment on each run's card
    MaxFaults       \* bound: calls that raise, processes killed

Runs == 1..MaxRuns

ASSUME PublicationAssumption ==
    /\ MaxRuns \in Nat \ {0} /\ MaxFaults \in Nat
    /\ Fit \in [Publishers -> SUBSET Runs] /\ Wanted \subseteq Runs
    /\ ExperimentOf \in [Runs -> Experiments]

VARIABLES
    bucket,      \* bucket[r]: the objects that exist under the run's key
    pub,         \* pub[p]: where the publisher is, with which run
    overlap,     \* history: runs two publishers worked on at once
    overwritten, \* history: runs one of whose objects was put twice
    ix,          \* the indexer
    site,        \* the index that is deployed, and what it owes
    page,        \* a browser's refresh
    shown,       \* the runs its list shows
    faults

upload == <<bucket, pub, overlap, overwritten>>
browser == <<page, shown>>
vars == <<upload, ix, site, browser, faults>>

Objects == {"stream", "card"}
Whole == {r \in Runs : bucket[r] = Objects}

Fault == faults < MaxFaults /\ faults' = faults + 1

-----------------------------------------------------------------------------
Resting == [at |-> "idle", run |-> 0, exists |-> FALSE]
NoIndexer == [at |-> "idle", pos |-> 1, listed |-> {}, whole |-> {}]
NoPage == [at |-> "idle", todo |-> {}, rows |-> {}, failed |-> {}, owed |-> {}]

Init ==
    /\ bucket = [r \in Runs |-> {}]
    /\ pub = [p \in Publishers |-> Resting]
    /\ overlap = {} /\ overwritten = {}
    /\ ix = NoIndexer
    /\ site = [built |-> FALSE, rows |-> {}, owed |-> {}]
    /\ page = NoPage
    /\ shown = {}
    /\ faults = 0

-----------------------------------------------------------------------------
(* A publisher.                                                            *)

Busy(r) == {p \in Publishers : pub[p].at # "idle" /\ pub[p].run = r}

(* upload_run up to its first call: the local run is terminal, pinned, and *)
(* passes the audit.                                                       *)
Select(p, r) ==
    /\ pub[p].at = "idle"
    /\ r \in Fit[p]
    /\ pub' = [pub EXCEPT ![p] = [at |-> "headStream", run |-> r, exists |-> FALSE]]
    /\ overlap' = IF Busy(r) = {} THEN overlap ELSE overlap \cup {r}
    /\ UNCHANGED <<bucket, overwritten, ix, site, browser, faults>>

(* Mutant: only the card tells that a run is there. *)
SkipStream(p) ==
    /\ pub[p].at = "headStream"
    /\ pub' = [pub EXCEPT ![p].at = "headCard"]
    /\ UNCHANGED <<bucket, overlap, overwritten, ix, site, browser, faults>>

HeadStream(p) ==
    /\ pub[p].at = "headStream"
    /\ pub' = [pub EXCEPT ![p].at = "headCard",
                          ![p].exists = "stream" \in bucket[pub[p].run]]
    /\ UNCHANGED <<bucket, overlap, overwritten, ix, site, browser, faults>>

(* Either object refuses the run, also one a dead publisher left alone; a  *)
(* dry run ends here.                                                      *)
HeadCard(p) ==
    /\ pub[p].at = "headCard"
    /\ \/ pub' = [pub EXCEPT ![p] = Resting]
       \/ /\ ~pub[p].exists /\ "card" \notin bucket[pub[p].run]
          /\ pub' = [pub EXCEPT ![p].at = "putStream"]
    /\ UNCHANGED <<bucket, overlap, overwritten, ix, site, browser, faults>>

Put(r, o) ==
    /\ bucket' = [bucket EXCEPT ![r] = @ \cup {o}]
    /\ overwritten' = IF o \in bucket[r] THEN overwritten \cup {r} ELSE overwritten

(* Mutant: the card first. *)
PutCardFirst(p) ==
    /\ pub[p].at = "putStream"
    /\ Put(pub[p].run, "card")
    /\ pub' = [pub EXCEPT ![p].at = "putCard"]
    /\ UNCHANGED <<overlap, ix, site, browser, faults>>

PutStream(p) ==
    /\ pub[p].at = "putStream"
    /\ Put(pub[p].run, "stream")
    /\ pub' = [pub EXCEPT ![p].at = "putCard"]
    /\ UNCHANGED <<overlap, ix, site, browser, faults>>

PutCard(p) ==
    /\ pub[p].at = "putCard"
    /\ Put(pub[p].run, "card")
    /\ pub' = [pub EXCEPT ![p] = Resting]
    /\ UNCHANGED <<overlap, ix, site, browser, faults>>

(* A call raises, or the publisher is killed; a PUT may have been carried  *)
(* out all the same.  The batch goes on with other runs.                   *)
UploadFails(p) ==
    /\ pub[p].at # "idle"
    /\ Fault
    /\ pub' = [pub EXCEPT ![p] = Resting]
    /\ \/ UNCHANGED <<bucket, overwritten>>
       \/ pub[p].at = "putStream" /\ Put(pub[p].run, "stream")
       \/ pub[p].at = "putCard" /\ Put(pub[p].run, "card")
    /\ UNCHANGED <<overlap, ix, site, browser>>

Publish(p) ==
    \/ \E r \in Runs : Select(p, r)
    \/ HeadStream(p) \/ HeadCard(p) \/ PutStream(p) \/ PutCard(p)
    \/ UploadFails(p)

-----------------------------------------------------------------------------
(* The indexer.  Keys are listed in their order, page by page; the stream  *)
(* of a run comes just before its card.                                    *)

Key(r, o) == IF o = "stream" THEN 2 * r - 1 ELSE 2 * r
LastKey == 2 * MaxRuns
Existing(lo, hi) ==
    {k \in lo..hi : \E r \in Runs : \E o \in bucket[r] : k = Key(r, o)}

StartIndex ==
    /\ ix.at = "idle"
    /\ ix' = [NoIndexer EXCEPT !.at = "list", !.whole = Whole]
    /\ UNCHANGED <<upload, site, browser, faults>>

(* Mutant: the first page is taken for the whole listing. *)
FirstPageOnly ==
    /\ ix.at = "list"
    /\ \E k \in ix.pos..LastKey :
          ix' = [ix EXCEPT !.listed = Existing(ix.pos, k), !.at = "read", !.pos = 1]
    /\ UNCHANGED <<upload, site, browser, faults>>

(* Mutant: the listing goes on after the last key. *)
PageAfterLast ==
    /\ ix.at = "list"
    /\ \E k \in ix.pos..LastKey :
          ix' = [ix EXCEPT !.listed = @ \cup Existing(ix.pos, k), !.pos = k + 1]
    /\ UNCHANGED <<upload, site, browser, faults>>

ListPage ==
    /\ ix.at = "list"
    /\ \E k \in ix.pos..LastKey :
          ix' = [ix EXCEPT !.listed = @ \cup Existing(ix.pos, k),
                           !.at  = IF k = LastKey THEN "read" ELSE "list",
                           !.pos = IF k = LastKey THEN 1 ELSE k + 1]
    /\ UNCHANGED <<upload, site, browser, faults>>

(* Listing or writing fails: the command fails and nothing is deployed.    *)
IndexFails ==
    /\ ix.at # "idle"
    /\ Fault
    /\ ix' = NoIndexer
    /\ UNCHANGED <<upload, site, browser>>

(* A card counts only with its stream.                                     *)
Pairs == {r \in Runs : {Key(r, "stream"), Key(r, "card")} \subseteq ix.listed}

(* The cards are read, which nobody changes; one that cannot be read is    *)
(* skipped with a warning.  The directory is written, its root last, and   *)
(* deployed by whoever ran the command once it has succeeded.              *)
Deploy ==
    /\ ix.at = "read"
    /\ \E skipped \in SUBSET Pairs :
          /\ faults' = faults + Cardinality(skipped) /\ faults' <= MaxFaults
          /\ site' = [built |-> TRUE, rows |-> (Pairs \cap Wanted) \ skipped,
                      owed |-> (ix.whole \cap Wanted) \ skipped]
    /\ ix' = NoIndexer
    /\ UNCHANGED <<upload, browser>>

Index ==
    \/ StartIndex \/ ListPage \/ Deploy \/ IndexFails

-----------------------------------------------------------------------------
(* A browser: index.json names the experiments, then one shard after the   *)
(* other; the site may be deployed anew between two reads.                 *)

Shard(e) == {r \in site.rows : ExperimentOf[r] = e}
Named == {ExperimentOf[r] : r \in site.rows}

RefreshRoot ==
    /\ page.at = "idle"
    /\ site.built
    /\ page' = [NoPage EXCEPT !.at = "shards", !.todo = Named, !.owed = site.owed]
    /\ UNCHANGED <<upload, ix, site, shown, faults>>

(* Not there, or not reached: one diagnostic entry stands for everything.  *)
RootFails ==
    /\ page.at = "idle"
    /\ Fault \/ (~site.built /\ UNCHANGED faults)
    /\ page' = [NoPage EXCEPT !.at = "shards", !.failed = Experiments]
    /\ UNCHANGED <<upload, ix, site, shown>>

RefreshShard(e) ==
    /\ page.at = "shards" /\ e \in page.todo
    /\ Shard(e) # {}
    /\ page' = [page EXCEPT !.todo = @ \ {e}, !.rows = @ \cup Shard(e),
                            !.owed = {r \in @ : ExperimentOf[r] = e => r \in site.owed}]
    /\ UNCHANGED <<upload, ix, site, shown, faults>>

(* Mutant: a shard that cannot be read is left out. *)
ShardLeftOut(e) ==
    /\ page.at = "shards" /\ e \in page.todo
    /\ Fault \/ (Shard(e) = {} /\ UNCHANGED faults)
    /\ page' = [page EXCEPT !.todo = @ \ {e}]
    /\ UNCHANGED <<upload, ix, site, shown>>

(* A diagnostic entry for the experiment.                                  *)
ShardFails(e) ==
    /\ page.at = "shards" /\ e \in page.todo
    /\ Fault \/ (Shard(e) = {} /\ UNCHANGED faults)
    /\ page' = [page EXCEPT !.todo = @ \ {e}, !.failed = @ \cup {e}]
    /\ UNCHANGED <<upload, ix, site, shown>>

(* Mutant: `refreshing` is never cleared. *)
RefreshStays ==
    /\ page.at = "shards" /\ page.todo = {}
    /\ shown' = page.rows
    /\ UNCHANGED <<upload, ix, site, page, faults>>

RefreshEnds ==
    /\ page.at = "shards" /\ page.todo = {}
    /\ shown' = page.rows
    /\ page' = NoPage
    /\ UNCHANGED <<upload, ix, site, faults>>

Refresh ==
    \/ RefreshRoot \/ RootFails \/ RefreshEnds
    \/ \E e \in Experiments : RefreshShard(e) \/ ShardFails(e)

-----------------------------------------------------------------------------
Next == (\E p \in Publishers : Publish(p)) \/ Index \/ Refresh

Spec == Init /\ [][Next]_vars

(* The browser's timer asks again each minute.  Nothing in the repository  *)
(* starts the indexer: whoever keeps a site is assumed to rerun it.  No    *)
(* publisher has to do anything.                                           *)
FairSpec == Spec /\ WF_vars(Refresh) /\ WF_vars(Index)

-----------------------------------------------------------------------------
(* Properties.                                                             *)

TypeOK ==
    /\ bucket \in [Runs -> SUBSET Objects]
    /\ pub \in [Publishers ->
                   [at : {"idle", "headStream", "headCard", "putStream", "putCard"},
                    run : 0..MaxRuns, exists : BOOLEAN]]
    /\ overlap \subseteq Runs /\ overwritten \subseteq Runs
    /\ ix \in [at : {"idle", "list", "read"}, pos : 1..LastKey, listed : SUBSET (1..LastKey),
               whole : SUBSET Runs]
    /\ site \in [built : BOOLEAN, rows : SUBSET Runs, owed : SUBSET Runs]
    /\ page \in [at : {"idle", "shards"}, todo : SUBSET Experiments,
                 rows : SUBSET Runs, failed : SUBSET Experiments, owed : SUBSET Runs]
    /\ shown \subseteq Runs
    /\ faults \in 0..MaxFaults

(* publish.py:136, "The card commits the run": a card in the bucket means  *)
(* its stream is there, whichever publisher died where.                    *)
CardCommits == \A r \in Runs : "card" \in bucket[r] => "stream" \in bucket[r]

(* publishing.md:71-72: an object that exists is not overwritten, also not *)
(* the rest of an upload that died, unless two publishers had the run in   *)
(* hand at the same time: HEAD and PUT are two calls.                      *)
OverwriteNeedsOverlap == overwritten \subseteq overlap

(* A deployed index lists every wanted run that was whole when the command *)
(* started, except those it warned about, and only whole runs, although    *)
(* the bucket grew while it was listed.                                    *)
IndexComplete == site.owed \subseteq site.rows /\ site.rows \subseteq Whole

(* publishing.md:177-178, diagnostics come "without hiding healthy runs":  *)
(* the list a refresh ends with has every run owed by the index whose root *)
(* it read and by the index whose shard it read, which need not be the     *)
(* same one, or else a diagnostic entry of the run's experiment.           *)
NothingHidden ==
    (page.at = "shards" /\ page.todo = {}) =>
        \A r \in page.owed : r \in page.rows \/ ExperimentOf[r] \in page.failed

(* A run that was published whole comes to be listed in every open         *)
(* browser, whatever was skipped, failed or half deployed in between.      *)
EventuallyListed == \A r \in Wanted : (r \in Whole) ~> (r \in shown)
=============================================================================
