------------------------------- MODULE Retrain -------------------------------
(***************************************************************************)
(* The weekly alpha158 retrain (retrain_alpha158_fund.py) and the seal of  *)
(* the serving pair (bundle_seal.py), which work on the same files.        *)
(*                                                                         *)
(* A retrain refreshes the bars of the panel universe, lets the freshness  *)
(* guard decide, builds and merges the panel, certifies the raw-label      *)
(* corpus of the sigma head against it, trains the scorer, refits the      *)
(* calibrator and stamps it with the scorer's fingerprint.  It may crash   *)
(* between any two of these and be started again.  Beside it the operator  *)
(* edits the exclusion registry, the exchange completes sessions, the live *)
(* path refreshes bars, and the seal publishes the pair in the prod        *)
(* directory.                                                              *)
(*                                                                         *)
(* Simplifications.  A digest is the number of the run or publication that *)
(* wrote the bytes, 0 for an absent file.  Every day is an exchange        *)
(* session.  A panel is known by the last bar of each of its tickers.  A   *)
(* dry run changes nothing and is left out, and so are the alerts.  The    *)
(* alpha panel is a field of the job: only the merge of the same run reads *)
(* that file.                                                              *)
(***************************************************************************)
EXTENDS Integers, FiniteSets, Functions

CONSTANTS
    Tickers,     \* tier A and tier B of the inventory
    Options,     \* command lines: refresh, rawlabel, fail and slot
    StaleAfter,  \* freshness_stale_after_days
    FirstSession, FirstBars,  \* calendar and bars on disk at the start
    Registries,  \* what the operator may make of the registry
    MaxSession, MaxRuns, MaxEdits  \* bounds

ASSUME RetrainAssumption ==
    /\ IsFiniteSet(Tickers) /\ Tickers # {} /\ StaleAfter \in Nat
    /\ MaxSession \in Nat \ {0} /\ MaxRuns \in Nat /\ MaxEdits \in Nat
    /\ FirstSession \in 1..MaxSession /\ FirstBars \in [Tickers -> 0..MaxSession]
    /\ Registries \subseteq [valid : BOOLEAN, names : SUBSET Tickers]
    /\ Options # {}
    /\ Options \subseteq [refresh : BOOLEAN, rawlabel : BOOLEAN, fail : BOOLEAN,
                          slot : {"prod", "staging"}]

VARIABLES
    session,   \* the latest completed exchange session
    bars,      \* date of the newest bar of each ticker on disk, 0 for none
    registry,  \* the reviewed exclusions, and whether they validate
    job,       \* the retrain process
    disk,      \* panel, corpus, receipt and provenance files
    pairs,     \* scorer and calibrator files of the two slots
    seal,      \* the seal process
    store,     \* the bundle store: PREPARE record and ACTIVE pair
    lost,      \* whether a view replaced a file by other bytes
    count      \* runs and registry edits so far

vars == <<session, bars, registry, job, disk, pairs, seal, store, lost, count>>

NoBars == <<>>

NoVerdict == [strict |-> FALSE, expected |-> 0, excluded |-> {}]

NoPanel == [id |-> 0, keys |-> NoBars, by |-> NoVerdict]

NoCorpus == [id |-> 0, keys |-> NoBars, sound |-> FALSE]

EmptyDisk == [effective |-> {}, panel |-> NoPanel,
              corpus |-> NoCorpus, receipt |-> FALSE,
              provenance |-> [panel |-> 0, corpus |-> 0]]

NoPair == [scorer |-> 0, fit |-> 0, stamp |-> 0]

(* What an earlier retrain left in prod.                                   *)
EarlierPair == [scorer |-> 1, fit |-> 1, stamp |-> 1]

NoJob == [pc |-> "down", opt |-> CHOOSE o \in Options : TRUE, run |-> 0, todo |-> {},
          captured |-> NoBars, handed |-> FALSE, by |-> NoVerdict, alpha |-> NoPanel,
          report |-> 0, sha |-> 0, sigma |-> "none"]

NoSeal == [pc |-> "idle", views |-> FALSE, pair |-> NoPair]

Init ==
    /\ session = FirstSession /\ bars = FirstBars
    /\ registry = [valid |-> TRUE, names |-> {}]
    /\ job = NoJob /\ disk = EmptyDisk
    /\ pairs = [prod |-> EarlierPair, staging |-> NoPair]
    /\ seal = NoSeal /\ store = [prepared |-> FALSE, active |-> NoPair]
    /\ lost = FALSE /\ count = [runs |-> 0, edits |-> 0]

Slot == job.opt.slot

Abort == job' = NoJob

Goto(pc) == job' = [job EXCEPT !.pc = pc]

-----------------------------------------------------------------------------
(* Universe, refresh and freshness guard.                                  *)

Universe == Tickers \ registry.names

Resolvable == registry.valid /\ Universe # {}

Start ==
    /\ job.pc = "down" /\ count.runs < MaxRuns
    /\ count' = [count EXCEPT !.runs = @ + 1]
    /\ \E o \in Options :
         job' = [NoJob EXCEPT !.pc = "refresh", !.opt = o, !.run = count.runs + 2]
    /\ UNCHANGED <<session, bars, registry, disk, pairs, seal, store, lost>>

RefreshBegins ==
    /\ job.pc = "refresh"
    /\ IF ~job.opt.refresh THEN Goto("guard")
       ELSE IF Resolvable
            THEN job' = [job EXCEPT !.pc = "fetch", !.todo = Universe]
            ELSE Abort
    /\ UNCHANGED <<session, bars, registry, disk, pairs, seal, store, lost, count>>

(* The dates the refresh returned, with one more.                          *)
Captured(n, d) ==
    [m \in DOMAIN job.captured \cup {n} |-> IF m = n THEN d ELSE job.captured[m]]

(* One ticker: the fetch fails, finds nothing new, or appends bars up to   *)
(* the completed session or, from a feed that is ahead, one beyond it.     *)
Fetch ==
    /\ job.pc = "fetch" /\ job.todo # {}
    /\ \E t \in job.todo :
         \/ /\ job' = [job EXCEPT !.todo = @ \ {t}, !.captured = Captured(t, 0)]
            /\ UNCHANGED bars
         \/ \E d \in {bars[t], session, session + 1} :
              /\ d >= bars[t]
              /\ bars' = [bars EXCEPT ![t] = d]
              /\ job' = [job EXCEPT !.todo = @ \ {t}, !.captured = Captured(t, d)]
    /\ UNCHANGED <<session, registry, disk, pairs, seal, store, lost, count>>

FetchDone ==
    /\ job.pc = "fetch" /\ job.todo = {}
    /\ Goto("guard")
    /\ UNCHANGED <<session, bars, registry, disk, pairs, seal, store, lost, count>>

(* The guard resolves the universe again and writes the effective          *)
(* inventory before it looks at a single date.                             *)
WriteEffectiveInventory ==
    /\ job.pc = "guard"
    /\ IF Resolvable
       THEN /\ disk' = [disk EXCEPT !.effective = Universe]
            /\ job' = [job EXCEPT !.pc = "verdict", !.handed = TRUE,
                                  !.by.excluded = Tickers \ Universe]
       ELSE Abort /\ UNCHANGED disk
    /\ UNCHANGED <<session, bars, registry, pairs, seal, store, lost, count>>

(* The date the refresh captured, a failed fetch included, else the disk.  *)
MaxDate(t) == IF t \in DOMAIN job.captured THEN job.captured[t] ELSE bars[t]

ExpectedSession_Open == session + 1

(* The latest session whose close has passed.                              *)
ExpectedSession == session

BadName_KnownOnly(t) ==
    /\ MaxDate(t) # 0
    /\ MaxDate(t) > ExpectedSession \/ ExpectedSession - MaxDate(t) > StaleAfter

BadName(t) ==
    \/ MaxDate(t) = 0
    \/ MaxDate(t) > ExpectedSession
    \/ ExpectedSession - MaxDate(t) > StaleAfter

Guarded == Tickers \ job.by.excluded

(* The strict default tolerates no bad name; no date at all, or no         *)
(* calendar, leaves freshness unprovable.                                  *)
GuardVerdict ==
    /\ job.pc = "verdict"
    /\ LET bad == {t \in Guarded : BadName(t)}
       IN  \/ Abort
           \/ /\ \E t \in Guarded : MaxDate(t) # 0
              /\ IF bad = {} \/ ~job.opt.fail
                 THEN job' = [job EXCEPT !.pc = "build", !.captured = NoBars,
                                         !.by.expected = ExpectedSession,
                                         !.by.strict = job.opt.fail]
                 ELSE Abort
    /\ UNCHANGED <<session, bars, registry, disk, pairs, seal, store, lost, count>>

-----------------------------------------------------------------------------
(* Panel.  A subprocess that fails ends the run.                           *)

(* The universe the build reads: the inventory file it is handed.          *)
BuildUniverse == IF job.handed THEN disk.effective ELSE {}

BuildPanel ==
    /\ job.pc = "build"
    /\ \/ Abort
       \/ LET keys == Restrict(bars, {t \in BuildUniverse : bars[t] # 0})
          IN  job' = [job EXCEPT !.pc = "merge", !.by = NoVerdict,
                                 !.alpha = [id |-> job.run, keys |-> keys, by |-> job.by]]
    /\ UNCHANGED <<session, bars, registry, disk, pairs, seal, store, lost, count>>

(* The merge may also exit without an output.                              *)
MergeFund ==
    /\ job.pc = "merge"
    /\ \/ Abort /\ UNCHANGED disk
       \/ /\ job' = [job EXCEPT !.pc = "sigma", !.alpha = NoPanel]
          /\ disk' \in {disk, [disk EXCEPT !.panel = job.alpha]}
    /\ UNCHANGED <<session, bars, registry, pairs, seal, store, lost, count>>

-----------------------------------------------------------------------------
(* The raw-label corpus of the sigma head: consume, or have it republished *)
(* and consume that; certify; and whatever fails leaves a receipt.         *)

Verified_AnyCoverage == disk.corpus.sound

Verified == disk.corpus.sound /\ disk.corpus.keys = disk.panel.keys

Invalidated == [disk EXCEPT !.receipt = TRUE]

SigmaEnds(outcome) == job' = [job EXCEPT !.pc = "train", !.sigma = outcome,
                                         !.report = 0, !.sha = 0]

SigmaConsume ==
    /\ job.pc = "sigma"
    /\ IF ~job.opt.rawlabel THEN SigmaEnds("skipped") /\ UNCHANGED disk
       ELSE IF disk.panel.id = 0 THEN SigmaEnds("failed") /\ disk' = Invalidated
       ELSE /\ IF disk.corpus.id # 0 /\ Verified
               THEN job' = [job EXCEPT !.pc = "digest", !.report = disk.panel.id]
               ELSE Goto("publish")
            /\ UNCHANGED disk
    /\ UNCHANGED <<session, bars, registry, pairs, seal, store, lost, count>>

(* The sole writer builds beside the corpus and replaces it; what it built *)
(* need not have enough finite labels.                                     *)
SigmaPublish ==
    /\ job.pc = "publish"
    /\ \E sound \in BOOLEAN :
         disk' = [disk EXCEPT !.corpus = [id |-> @.id + 1, keys |-> disk.panel.keys,
                                          sound |-> sound]]
    /\ Goto("reverify")
    /\ UNCHANGED <<session, bars, registry, pairs, seal, store, lost, count>>

SigmaReverify ==
    /\ job.pc = "reverify"
    /\ IF Verified
       THEN /\ job' = [job EXCEPT !.pc = "digest", !.report = disk.panel.id]
            /\ UNCHANGED disk
       ELSE SigmaEnds("failed") /\ disk' = Invalidated
    /\ UNCHANGED <<session, bars, registry, pairs, seal, store, lost, count>>

SigmaDigest ==
    /\ job.pc = "digest"
    /\ job' = [job EXCEPT !.pc = "provenance", !.sha = disk.corpus.id]
    /\ UNCHANGED <<session, bars, registry, disk, pairs, seal, store, lost, count>>

SigmaProvenance ==
    /\ job.pc = "provenance"
    /\ disk' = [disk EXCEPT !.provenance = [panel |-> job.report, corpus |-> job.sha]]
    /\ Goto("clear")
    /\ UNCHANGED <<session, bars, registry, pairs, seal, store, lost, count>>

Cleared_Forgotten == disk

Cleared == [disk EXCEPT !.receipt = FALSE]

SigmaClear ==
    /\ job.pc = "clear"
    /\ disk' = Cleared
    /\ SigmaEnds("verified")
    /\ UNCHANGED <<session, bars, registry, pairs, seal, store, lost, count>>

(* Any other exception of these steps: the writer fails, a file cannot be  *)
(* read or written, the contract cannot be imported.                       *)
SigmaFails ==
    /\ \/ job.pc \in {"publish", "reverify", "digest", "provenance", "clear"}
       \/ job.pc = "sigma" /\ job.opt.rawlabel /\ disk.panel.id # 0
    /\ disk' = Invalidated
    /\ SigmaEnds("failed")
    /\ UNCHANGED <<session, bars, registry, pairs, seal, store, lost, count>>

(* The receipt half of the admission contract.                             *)
Admissible == disk.corpus.id # 0 /\ ~disk.receipt

(* The digest half, of the trainer outside this repository: the provenance *)
(* names the panel and the corpus by the bytes that are on disk now.       *)
DigestsMatch ==
    disk.provenance = [panel |-> disk.panel.id, corpus |-> disk.corpus.id]

-----------------------------------------------------------------------------
(* Scorer, calibrator and stamp.                                           *)

(* The artifact is on disk when its validation fails.                      *)
TrainScorer ==
    /\ job.pc = "train"
    /\ \/ Abort /\ UNCHANGED pairs
       \/ /\ pairs' = [pairs EXCEPT ![Slot].scorer = job.run]
          /\ Abort \/ Goto("refit")
    /\ UNCHANGED <<session, bars, registry, disk, seal, store, lost, count>>

(* A new calibrator has no identity claims.                                *)
Refit(pair) == [pair EXCEPT !.fit = pair.scorer, !.stamp = 0]

RefitCalibrator_Unchecked ==
    /\ job.pc = "refit" /\ Goto("stamp")
    /\ \/ UNCHANGED pairs
       \/ pairs' = [pairs EXCEPT ![Slot] = Refit(pairs[Slot])]
    /\ UNCHANGED <<session, bars, registry, disk, seal, store, lost, count>>

RefitCalibrator ==
    /\ job.pc = "refit"
    /\ \/ Abort /\ UNCHANGED pairs
       \/ /\ pairs' = [pairs EXCEPT ![Slot] = Refit(pairs[Slot])]
          /\ Abort \/ Goto("stamp")
    /\ UNCHANGED <<session, bars, registry, disk, seal, store, lost, count>>

(* The scorer is read again from disk.                                     *)
StampCalibrator ==
    /\ job.pc = "stamp"
    /\ \/ UNCHANGED pairs
       \/ pairs' = [pairs EXCEPT ![Slot].stamp = pairs[Slot].scorer]
    /\ Abort
    /\ UNCHANGED <<session, bars, registry, disk, seal, store, lost, count>>

Crash ==
    /\ job.pc # "down" /\ Abort
    /\ UNCHANGED <<session, bars, registry, disk, pairs, seal, store, lost, count>>

-----------------------------------------------------------------------------
(* The seal of the prod pair as generation 1.                              *)

Prod == pairs["prod"]

SealTo(pc) == seal' = [seal EXCEPT !.pc = pc]

SealGives(ok, pc) == IF ok THEN SealTo(pc) ELSE seal' = NoSeal

SealReadScorer ==
    /\ seal.pc = "idle" /\ ~store.prepared /\ Prod.scorer # 0
    /\ \E views \in BOOLEAN :
         seal' = [pc |-> "calibrator", views |-> views,
                  pair |-> [NoPair EXCEPT !.scorer = Prod.scorer]]
    /\ UNCHANGED <<session, bars, registry, job, disk, pairs, store, lost, count>>

SealReadCalibrator ==
    /\ seal.pc = "calibrator"
    /\ seal' = [seal EXCEPT !.pc = IF seal.views THEN "flat1" ELSE "prepare",
                            !.pair = [Prod EXCEPT !.scorer = seal.pair.scorer]]
    /\ UNCHANGED <<session, bars, registry, job, disk, pairs, store, lost, count>>

SameCalibrator(p, q) == p.fit = q.fit /\ p.stamp = q.stamp

(* Where views are wanted the flat files must still have the bytes that    *)
(* were read; they are compared one after the other, the scorer first.     *)
SealPreflight ==
    /\ \/ /\ seal.pc = "flat1"
          /\ SealGives(Prod.scorer = seal.pair.scorer, "flat2")
       \/ /\ seal.pc = "flat2"
          /\ SealGives(SameCalibrator(Prod, seal.pair), "prepare")
    /\ UNCHANGED <<session, bars, registry, job, disk, pairs, store, lost, count>>

(* The pair validator wired into the store, then the PREPARE record.       *)
PairValid_Unwired(pair) == pair.scorer # 0

PairValid(pair) == pair.scorer # 0 /\ pair.stamp = pair.scorer

SealPrepare ==
    /\ seal.pc = "prepare"
    /\ SealGives(PairValid(seal.pair), "activate")
    /\ store' = [store EXCEPT !.prepared = PairValid(seal.pair)]
    /\ UNCHANGED <<session, bars, registry, job, disk, pairs, lost, count>>

SealActivate ==
    /\ seal.pc = "activate"
    /\ store' = [store EXCEPT !.active = seal.pair]
    /\ SealGives(seal.views, "check1")
    /\ UNCHANGED <<session, bars, registry, job, disk, pairs, lost, count>>

(* Phase 1 of the views, again file by file: no member may change one.     *)
ViewsCheck ==
    /\ \/ /\ seal.pc = "check1"
          /\ SealGives(Prod.scorer = store.active.scorer, "check2")
       \/ /\ seal.pc = "check2"
          /\ SealGives(SameCalibrator(Prod, store.active), "view1")
    /\ UNCHANGED <<session, bars, registry, job, disk, pairs, store, lost, count>>

(* Phase 2: one replacement per member, the scorer first.                  *)
ReplaceFlat(pair) ==
    /\ pairs' = [pairs EXCEPT !["prod"] = pair]
    /\ lost' = (lost \/ pair # Prod)

ViewScorer ==
    /\ seal.pc = "view1"
    /\ ReplaceFlat([Prod EXCEPT !.scorer = store.active.scorer])
    /\ SealTo("view2")
    /\ UNCHANGED <<session, bars, registry, job, disk, store, count>>

ViewCalibrator ==
    /\ seal.pc = "view2"
    /\ ReplaceFlat([store.active EXCEPT !.scorer = Prod.scorer])
    /\ seal' = NoSeal
    /\ UNCHANGED <<session, bars, registry, job, disk, store, count>>

SealCrash ==
    /\ seal.pc # "idle" /\ seal' = NoSeal
    /\ UNCHANGED <<session, bars, registry, job, disk, pairs, store, lost, count>>

-----------------------------------------------------------------------------
(* Exchange, live path and operator.                                       *)

SessionCompletes ==
    /\ session < MaxSession /\ session' = session + 1
    /\ UNCHANGED <<bars, registry, job, disk, pairs, seal, store, lost, count>>

LiveRefresh ==
    /\ \E t \in Tickers : bars[t] < session /\ bars' = [bars EXCEPT ![t] = session]
    /\ UNCHANGED <<session, registry, job, disk, pairs, seal, store, lost, count>>

EditRegistry ==
    /\ count.edits < MaxEdits
    /\ count' = [count EXCEPT !.edits = @ + 1]
    /\ registry' \in Registries
    /\ UNCHANGED <<session, bars, job, disk, pairs, seal, store, lost>>

RetrainStep ==
    \/ Start \/ RefreshBegins \/ Fetch \/ FetchDone \/ WriteEffectiveInventory
    \/ GuardVerdict \/ BuildPanel \/ MergeFund \/ SigmaConsume \/ SigmaPublish
    \/ SigmaReverify \/ SigmaDigest \/ SigmaProvenance \/ SigmaClear \/ SigmaFails
    \/ TrainScorer \/ RefitCalibrator \/ StampCalibrator \/ Crash

SealStep ==
    \/ SealReadScorer \/ SealReadCalibrator \/ SealPreflight \/ SealPrepare
    \/ SealActivate \/ ViewsCheck \/ ViewScorer \/ ViewCalibrator \/ SealCrash

Next == RetrainStep \/ SealStep \/ SessionCompletes \/ LiveRefresh \/ EditRegistry

Spec == Init /\ [][Next]_vars

-----------------------------------------------------------------------------
(* Properties.                                                             *)

Dates == 0..(MaxSession + 1)

Keys == UNION {[S -> Dates] : S \in SUBSET Tickers}

Ids == 0..(MaxRuns + 1)

Verdicts == [strict : BOOLEAN, expected : 0..MaxSession, excluded : SUBSET Tickers]

Panels == [id : Ids, keys : Keys, by : Verdicts]

Jobs == [pc : {"down", "refresh", "fetch", "guard", "verdict", "build", "merge",
               "sigma", "publish", "reverify", "digest", "provenance", "clear",
               "train", "refit", "stamp"},
         opt : Options, run : Ids, todo : SUBSET Tickers, captured : Keys,
         handed : BOOLEAN, by : Verdicts, alpha : Panels, report : Ids, sha : Nat,
         sigma : {"none", "skipped", "verified", "failed"}]

Disks == [effective : SUBSET Tickers, panel : Panels, receipt : BOOLEAN,
          corpus : [id : Nat, keys : Keys, sound : BOOLEAN],
          provenance : [panel : Ids, corpus : Nat]]

Pair == [scorer : Ids, fit : Ids, stamp : Ids]

Seals == [pc : {"idle", "calibrator", "flat1", "flat2", "prepare", "activate",
                "check1", "check2", "view1", "view2"},
          views : BOOLEAN, pair : Pair]

\* TypeOK: the shapes of the processes and the files.
TypeOK ==
    /\ session \in 1..MaxSession /\ bars \in [Tickers -> Dates]
    /\ registry \in [valid : BOOLEAN, names : SUBSET Tickers] /\ lost \in BOOLEAN
    /\ job \in Jobs /\ disk \in Disks /\ seal \in Seals
    /\ pairs \in [{"prod", "staging"} -> Pair]
    /\ store \in [prepared : BOOLEAN, active : Pair]
    /\ count \in [runs : 0..MaxRuns, edits : 0..MaxEdits]

\* PanelVetted: a panel of a run that fails on stale bars holds exactly the
\* names the guard left in, none with bars that lag the session the guard
\* measured against, whatever happened to registry, inventory file and bars in between
\* (PanelUniverseFreshnessGuardTask, BuildAlpha158PanelTask).
PanelVetted ==
    LET p == disk.panel
    IN  p.id # 0 /\ p.by.strict =>
            /\ DOMAIN p.keys = Tickers \ p.by.excluded
            /\ \A t \in DOMAIN p.keys : p.keys[t] + StaleAfter >= p.by.expected

\* ProvenanceIsLockstep: a provenance file that names the corpus and the
\* panel on disk by their digests tells the truth: the corpus is sound and
\* covers exactly that panel, at every point of a retrain and after every
\* crash.  The receipt alone does not give this: after a merge that is cut
\* off, or a run without the sigma step, a corpus without a receipt lies
\* beside a newer panel (RefreshSigmaHeadRawLabelTask, _write_rawlabel_provenance).
ProvenanceIsLockstep ==
    disk.corpus.id # 0 /\ DigestsMatch =>
        disk.corpus.sound /\ disk.corpus.keys = disk.panel.keys

\* SigmaVerdictHolds: a run that goes on with a verified corpus leaves one
\* that receipt and digests admit, and one that goes on with a failure leaves
\* one the receipt refuses (RefreshSigmaHeadRawLabelTask).
SigmaVerdictHolds ==
    /\ job.sigma = "verified" => Admissible /\ DigestsMatch
    /\ job.sigma = "failed" => ~Admissible

\* ServedPairFit: a calibrator that the fingerprint check accepts was fitted
\* on the scorer beside it, in both slots and after every crash, unless the
\* seal's views have overwritten a concurrent retrain (RefitCalibratorTask,
\* _stamp_calibrator_fingerprint, regenerate_flat_views).
ServedPairFit ==
    lost \/ \A s \in DOMAIN pairs :
                pairs[s].stamp = pairs[s].scorer => pairs[s].fit = pairs[s].scorer

\* SealedPairFit: the pair of the active bundle was fitted together, although
\* its two files are read one after the other while a retrain may be writing
\* them (seal_serving_pair).
SealedPairFit ==
    store.active # NoPair =>
        /\ store.active.fit = store.active.scorer
        /\ store.active.stamp = store.active.scorer
=============================================================================
