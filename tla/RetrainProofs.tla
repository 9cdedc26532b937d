---------------------------- MODULE RetrainProofs ----------------------------
(***************************************************************************)
(* The promises of the retrain and of the seal, for any universe, command  *)
(* lines, number of runs, edits, sessions and crashes.  Four invariants    *)
(* follow the data: the bars from the refresh to the panel, the identities *)
(* from the panel to the receipt, the calibrator from its fit to its       *)
(* stamp, and the pair from the prod directory to the active bundle.       *)
(***************************************************************************)
EXTENDS Retrain, TLAPS

USE RetrainAssumption DEF RetrainAssumption

Lockstep == disk.corpus.sound /\ disk.corpus.keys = disk.panel.keys

Vetted(p) ==
    p.by.strict => /\ DOMAIN p.keys = Tickers \ p.by.excluded
                   /\ \A t \in DOMAIN p.keys : p.keys[t] + StaleAfter >= p.by.expected

\* What the guard saw is still true when the panel is built: bars only get
\* newer, and the effective inventory is the guard's own.
FreshInv ==
    /\ \A t \in DOMAIN job.captured : job.captured[t] <= bars[t]
    /\ job.pc \in {"verdict", "build"} =>
           job.handed /\ disk.effective = Tickers \ job.by.excluded
    /\ job.pc = "build" /\ job.by.strict =>
           \A t \in disk.effective : /\ bars[t] # 0
                                     /\ bars[t] + StaleAfter >= job.by.expected
    /\ job.pc = "merge" => Vetted(job.alpha)
    /\ Vetted(disk.panel)

\* A panel of a new run has a new identity, and so has a new corpus: what the
\* provenance names is either what is on disk or older.
RunInv ==
    /\ job.pc # "down" => job.run = count.runs + 1
    /\ disk.panel.id <= count.runs + 1
    /\ job.pc \in {"refresh", "fetch", "guard", "verdict", "build", "merge"} =>
           disk.panel.id < job.run
    /\ job.pc = "merge" => job.alpha.id = job.run

LockstepInv ==
    /\ disk.provenance.panel <= disk.panel.id
    /\ disk.provenance.corpus <= disk.corpus.id
    /\ disk.corpus.id # 0 /\ DigestsMatch => Lockstep
    /\ job.pc \in {"reverify", "digest", "provenance", "clear"} => disk.corpus.id # 0
    /\ job.pc \in {"digest", "provenance", "clear"} =>
           Lockstep /\ job.report = disk.panel.id
    /\ job.pc = "provenance" => job.sha = disk.corpus.id
    /\ job.pc = "clear" => DigestsMatch
    /\ job.sigma # "none" => job.pc \in {"train", "refit", "stamp"}
    /\ job.sigma = "failed" => disk.receipt
    /\ job.sigma = "verified" => Admissible /\ DigestsMatch

\* A stamped calibrator is fitted on the scorer it names.
FitInv(pair) ==
    /\ pair.stamp # 0 => pair.fit = pair.stamp
    /\ pair.scorer = 0 => pair.fit = 0

PairInv ==
    ~lost => /\ \A s \in {"prod", "staging"} : FitInv(pairs[s])
             /\ job.pc = "stamp" => pairs[Slot].fit = pairs[Slot].scorer

Together(pair) == pair.fit = pair.scorer /\ pair.stamp = pair.scorer

\* Only one pair is ever sealed, and before it is no view has been written.
SealInv ==
    /\ ~store.prepared => ~lost /\ store.active = NoPair
    /\ seal.pc \in {"calibrator", "flat1", "flat2", "prepare"} => ~store.prepared
    /\ seal.pc \in {"activate", "check1", "check2", "view1", "view2"} => store.prepared
    /\ seal.pc \in {"flat1", "flat2", "prepare"} =>
           (seal.pair.stamp # 0 => seal.pair.fit = seal.pair.stamp)
    /\ seal.pc = "activate" => Together(seal.pair)
    /\ store.active # NoPair => Together(store.active)

IInv == TypeOK /\ FreshInv /\ RunInv /\ LockstepInv /\ PairInv /\ SealInv

-----------------------------------------------------------------------------
(* Types.                                                                  *)

LEMMA InitialTypes ==
    /\ NoBars \in Keys /\ NoVerdict \in Verdicts /\ NoPanel \in Panels
    /\ NoJob \in Jobs /\ EmptyDisk \in Disks
    /\ NoPair \in Pair /\ EarlierPair \in Pair /\ NoSeal \in Seals
<1>1. NoBars \in [{} -> Dates]
  BY DEF NoBars
<1>2. NoBars \in Keys
  BY <1>1 DEF Keys
<1>3. NoVerdict \in Verdicts
  BY DEF NoVerdict, Verdicts
<1>4. NoPanel \in Panels /\ NoCorpus \in [id : Nat, keys : Keys, sound : BOOLEAN]
  BY <1>2, <1>3 DEF NoPanel, NoCorpus, Panels, Ids
<1>5. (CHOOSE o \in Options : TRUE) \in Options
  OBVIOUS
<1>6. NoJob \in Jobs
  BY <1>2, <1>3, <1>4, <1>5 DEF NoJob, Jobs, Ids
<1>7. EmptyDisk \in Disks
  BY <1>4 DEF EmptyDisk, Disks, Ids
<1>8. NoPair \in Pair /\ EarlierPair \in Pair /\ NoSeal \in Seals
  BY DEF NoPair, EarlierPair, NoSeal, Pair, Seals, Ids
<1>. QED
  BY <1>2, <1>3, <1>4, <1>6, <1>7, <1>8

LEMMA InitTypeOK == Init => TypeOK
<1>. SUFFICES ASSUME Init PROVE TypeOK
  OBVIOUS
<1>1. bars \in [Tickers -> Dates] /\ session \in 1..MaxSession
  BY DEF Init, Dates
<1>2. pairs \in [{"prod", "staging"} -> Pair]
  <2>1. pairs = [s \in {"prod", "staging"} |-> IF s = "prod" THEN EarlierPair ELSE NoPair]
    BY DEF Init
  <2>. QED
    BY <2>1, InitialTypes
<1>3. store \in [prepared : BOOLEAN, active : Pair]
  BY InitialTypes DEF Init
<1>4. registry \in [valid : BOOLEAN, names : SUBSET Tickers] /\ lost \in BOOLEAN
  BY DEF Init
<1>5. count \in [runs : 0..MaxRuns, edits : 0..MaxEdits]
  BY DEF Init
<1>6. job \in Jobs /\ disk \in Disks /\ seal \in Seals
  BY InitialTypes DEF Init
<1>. QED
  BY <1>1, <1>2, <1>3, <1>4, <1>5, <1>6 DEF TypeOK

\* A captured date extends the map by one name.
LEMMA CaptureType ==
    ASSUME TypeOK, NEW n \in Tickers, NEW d \in Dates
    PROVE  Captured(n, d) \in Keys
<1>1. PICK S \in SUBSET Tickers : job.captured \in [S -> Dates]
  BY DEF TypeOK, Jobs, Keys
<1>2. Captured(n, d) \in [S \cup {n} -> Dates]
  BY <1>1 DEF Captured
<1>3. S \cup {n} \in SUBSET Tickers
  OBVIOUS
<1>. QED
  BY <1>2, <1>3 DEF Keys

\* The panel's bars are a part of the bars on disk.
LEMMA RestrictType ==
    ASSUME NEW f \in [Tickers -> Dates], NEW S \in SUBSET Tickers
    PROVE  Restrict(f, S) \in Keys
BY DEF Restrict, Keys

LEMMA ResetJob == NoJob \in Jobs /\ NoSeal \in Seals
BY InitialTypes

LEMMA SigmaEndsType ==
    ASSUME job \in Jobs, NEW outcome \in {"skipped", "verified", "failed"},
           SigmaEnds(outcome)
    PROVE  job' \in Jobs
<1>1. 0 \in Ids /\ 0 \in Nat
  BY DEF Ids
<1>. QED
  BY <1>1 DEF SigmaEnds, Jobs

LEMMA InvalidatedType == disk \in Disks => Invalidated \in Disks /\ Cleared \in Disks
BY DEF Invalidated, Cleared, Disks

LEMMA StepTypeOK == TypeOK /\ [Next]_vars => TypeOK'
<1>. SUFFICES ASSUME TypeOK, [Next]_vars PROVE TypeOK'
  OBVIOUS
<1>. USE ResetJob
<1>a. job \in Jobs /\ disk \in Disks
  BY DEF TypeOK
<1>b. disk.panel.id \in Ids /\ job.run \in Ids
  BY <1>a DEF Jobs, Disks, Panels
<1>1. CASE Start
  <2>1. count.runs + 2 \in Ids
    BY <1>1 DEF Start, TypeOK, Ids
  <2>2. job' \in Jobs
    BY <1>1, <2>1 DEF Start, Jobs
  <2>. QED
    BY <1>1, <2>2 DEF Start, TypeOK
<1>2. CASE RefreshBegins
  <2>1. Universe \in SUBSET Tickers
    BY DEF Universe
  <2>2. CASE job' = [job EXCEPT !.pc = "fetch", !.todo = Universe]
    BY <1>a, <1>2, <2>1, <2>2 DEF RefreshBegins, TypeOK, Jobs
  <2>3. CASE Goto("guard") \/ Abort
    <3>1. job' \in Jobs
      BY <1>a, <2>3 DEF Goto, Abort, Jobs
    <3>. QED
      BY <1>2, <3>1 DEF RefreshBegins, TypeOK
  <2>. QED
    BY <1>2, <2>2, <2>3 DEF RefreshBegins
<1>3. CASE Fetch
  <2>1. PICK n \in job.todo :
          \/ job' = [job EXCEPT !.todo = @ \ {n}, !.captured = Captured(n, 0)] /\ UNCHANGED bars
          \/ \E d \in {bars[n], session, session + 1} :
               /\ bars' = [bars EXCEPT ![n] = d]
               /\ job' = [job EXCEPT !.todo = @ \ {n}, !.captured = Captured(n, d)]
    BY <1>3 DEF Fetch
  <2>2. n \in Tickers
    BY DEF TypeOK, Jobs
  <2>3. \A d \in {0, bars[n], session, session + 1} : d \in Dates /\ Captured(n, d) \in Keys
    BY <2>2, CaptureType DEF TypeOK, Dates
  <2>4. job' \in Jobs
    <3>1. PICK d \in Dates : job' = [job EXCEPT !.todo = @ \ {n}, !.captured = Captured(n, d)]
      BY <2>1, <2>3
    <3>2. Captured(n, d) \in Keys
      BY <2>2, CaptureType
    <3>. QED
      BY <1>a, <3>1, <3>2 DEF Jobs
  <2>5. bars' \in [Tickers -> Dates]
    BY <2>1, <2>2, <2>3 DEF TypeOK
  <2>. QED
    BY <1>3, <2>4, <2>5 DEF Fetch, TypeOK
<1>4. CASE FetchDone
  BY <1>4 DEF FetchDone, Goto, TypeOK, Jobs
<1>5. CASE WriteEffectiveInventory
  <2>1. Universe \in SUBSET Tickers
    BY DEF Universe
  <2>2. disk' \in Disks
    BY <1>a, <1>5, <2>1 DEF WriteEffectiveInventory, Disks
  <2>3. [job.by EXCEPT !.excluded = Tickers \ Universe] \in Verdicts
    BY <1>a DEF Jobs, Verdicts
  <2>4. job' \in Jobs
    <3>1. CASE job' = [job EXCEPT !.pc = "verdict", !.handed = TRUE,
                                  !.by.excluded = Tickers \ Universe]
      <4>1. PICK v \in Verdicts : job' = [job EXCEPT !.pc = "verdict", !.handed = TRUE, !.by = v]
        BY <2>3, <3>1
      <4>. QED
        BY <1>a, <4>1 DEF Jobs
    <3>. QED
      BY <1>5, <3>1 DEF WriteEffectiveInventory, Abort
  <2>. QED
    BY <1>5, <2>2, <2>4 DEF WriteEffectiveInventory, TypeOK
<1>6. CASE GuardVerdict
  <2>1. session \in 0..MaxSession
    BY DEF TypeOK
  <2>2. CASE job' = [job EXCEPT !.pc = "build", !.captured = NoBars,
                                !.by.expected = ExpectedSession, !.by.strict = job.opt.fail]
    <3>1. job.opt.fail \in BOOLEAN
      BY <1>a DEF Jobs
    <3>. QED
      BY <1>a, <1>6, <2>1, <2>2, <3>1, InitialTypes
      DEF GuardVerdict, ExpectedSession, TypeOK, Jobs, Verdicts
  <2>. QED
    BY <1>6, <2>2 DEF GuardVerdict, Abort, TypeOK
<1>7. CASE BuildPanel
  <2>1. Restrict(bars, {t \in BuildUniverse : bars[t] # 0}) \in Keys
    BY RestrictType DEF TypeOK, BuildUniverse, Disks
  <2>2. job' \in Jobs
    <3>1. CASE job' = [job EXCEPT !.pc = "merge", !.by = NoVerdict,
                         !.alpha = [id |-> job.run, by |-> job.by,
                                    keys |-> Restrict(bars, {t \in BuildUniverse : bars[t] # 0})]]
      BY <1>a, <1>b, <2>1, <3>1, InitialTypes DEF Jobs, Panels
    <3>. QED
      BY <1>7, <3>1 DEF BuildPanel, Abort
  <2>. QED
    BY <1>7, <2>2 DEF BuildPanel, TypeOK
<1>8. CASE MergeFund
  <2>1. disk' \in Disks
    BY <1>a, <1>8 DEF MergeFund, Jobs, Disks
  <2>2. job' \in Jobs
    <3>1. CASE job' = [job EXCEPT !.pc = "sigma", !.alpha = NoPanel]
      <4>1. NoPanel \in Panels
        BY InitialTypes
      <4>. QED
        BY <1>a, <3>1, <4>1 DEF Jobs
    <3>. QED
      BY <1>8, <3>1 DEF MergeFund, Abort
  <2>. QED
    BY <1>8, <2>1, <2>2 DEF MergeFund, TypeOK
<1>9. CASE SigmaConsume
  <2>1. disk' \in Disks
    BY <1>a, <1>9, InvalidatedType DEF SigmaConsume
  <2>2. CASE job' = [job EXCEPT !.pc = "digest", !.report = disk.panel.id]
    <3>1. job' \in Jobs
      BY <1>a, <1>b, <2>2 DEF Jobs
    <3>. QED
      BY <1>9, <2>1, <3>1 DEF SigmaConsume, TypeOK
  <2>3. CASE Goto("publish")
    <3>1. job' \in Jobs
      BY <1>a, <2>3 DEF Goto, Jobs
    <3>. QED
      BY <1>9, <2>1, <3>1 DEF SigmaConsume, TypeOK
  <2>4. CASE SigmaEnds("skipped") \/ SigmaEnds("failed")
    <3>1. job' \in Jobs
      BY <1>a, <2>4, SigmaEndsType
    <3>. QED
      BY <1>9, <2>1, <3>1 DEF SigmaConsume, TypeOK
  <2>. QED
    BY <1>9, <2>2, <2>3, <2>4 DEF SigmaConsume
<1>10. CASE SigmaPublish
  BY <1>10 DEF SigmaPublish, Goto, TypeOK, Jobs, Disks, Panels
<1>11. CASE SigmaReverify
  <2>1. disk' \in Disks
    BY <1>a, <1>11, InvalidatedType DEF SigmaReverify
  <2>2. CASE job' = [job EXCEPT !.pc = "digest", !.report = disk.panel.id]
    <3>1. job' \in Jobs
      BY <1>a, <1>b, <2>2 DEF Jobs
    <3>. QED
      BY <1>11, <2>1, <3>1 DEF SigmaReverify, TypeOK
  <2>3. CASE SigmaEnds("failed")
    <3>1. job' \in Jobs
      BY <1>a, <2>3, SigmaEndsType
    <3>. QED
      BY <1>11, <2>1, <3>1 DEF SigmaReverify, TypeOK
  <2>. QED
    BY <1>11, <2>2, <2>3 DEF SigmaReverify
<1>12. CASE SigmaDigest
  BY <1>12 DEF SigmaDigest, TypeOK, Jobs, Disks
<1>13. CASE SigmaProvenance
  BY <1>13 DEF SigmaProvenance, Goto, TypeOK, Jobs, Disks
<1>14. CASE SigmaClear
  BY <1>a, <1>14, InvalidatedType, SigmaEndsType DEF SigmaClear, TypeOK
<1>15. CASE SigmaFails
  BY <1>a, <1>15, InvalidatedType, SigmaEndsType DEF SigmaFails, TypeOK
<1>16. CASE TrainScorer
  BY <1>16 DEF TrainScorer, Slot, Goto, Abort, TypeOK, Jobs, Pair
<1>17. CASE RefitCalibrator
  <2>1. job' \in Jobs
    BY <1>a, <1>17 DEF RefitCalibrator, Goto, Abort, Jobs
  <2>2. Slot \in {"prod", "staging"}
    BY <1>a DEF Slot, Jobs
  <2>3. Refit(pairs[Slot]) \in Pair
    <3>1. pairs[Slot] \in Pair /\ 0 \in Ids
      BY <2>2 DEF TypeOK, Ids
    <3>. QED
      BY <3>1 DEF Refit, Pair
  <2>4. pairs' \in [{"prod", "staging"} -> Pair]
    BY <1>17, <2>2, <2>3 DEF RefitCalibrator, TypeOK
  <2>. QED
    BY <1>17, <2>1, <2>4 DEF RefitCalibrator, TypeOK
<1>18. CASE StampCalibrator
  BY <1>18 DEF StampCalibrator, Slot, Abort, TypeOK, Jobs, Pair
<1>19. CASE Crash
  BY <1>19 DEF Crash, Abort, TypeOK
<1>20. CASE SealReadScorer
  BY <1>20, InitialTypes DEF SealReadScorer, Prod, TypeOK, Pair, Seals
<1>21. CASE SealReadCalibrator
  BY <1>21 DEF SealReadCalibrator, Prod, TypeOK, Pair, Seals
<1>22. CASE SealPreflight
  BY <1>22 DEF SealPreflight, SealGives, SealTo, TypeOK, Seals
<1>23. CASE SealPrepare
  BY <1>23 DEF SealPrepare, SealGives, SealTo, PairValid, TypeOK, Seals
<1>24. CASE SealActivate
  BY <1>24 DEF SealActivate, SealGives, SealTo, TypeOK, Seals
<1>25. CASE ViewsCheck
  BY <1>25 DEF ViewsCheck, SealGives, SealTo, TypeOK, Seals
<1>26. CASE ViewScorer
  BY <1>26 DEF ViewScorer, ReplaceFlat, Prod, SealTo, TypeOK, Seals, Pair
<1>27. CASE ViewCalibrator
  BY <1>27 DEF ViewCalibrator, ReplaceFlat, Prod, TypeOK, Pair
<1>28. CASE SealCrash
  BY <1>28 DEF SealCrash, TypeOK
<1>29. CASE SessionCompletes
  BY <1>29 DEF SessionCompletes, TypeOK
<1>30. CASE LiveRefresh
  BY <1>30 DEF LiveRefresh, TypeOK, Dates
<1>31. CASE EditRegistry
  BY <1>31 DEF EditRegistry, TypeOK
<1>32. CASE UNCHANGED vars
  BY <1>32 DEF vars, TypeOK
<1>. QED
  BY <1>1, <1>2, <1>3, <1>4, <1>5, <1>6, <1>7, <1>8, <1>9, <1>10, <1>11, <1>12,
     <1>13, <1>14, <1>15, <1>16, <1>17, <1>18, <1>19, <1>20, <1>21, <1>22, <1>23,
     <1>24, <1>25, <1>26, <1>27, <1>28, <1>29, <1>30, <1>31, <1>32
  DEF Next, RetrainStep, SealStep

\* TypeCorrect: the shapes of the processes and the files hold in every
\* state (TypeOK), for any universe, command lines and bounds.
THEOREM TypeCorrect == Spec => []TypeOK
<1>. QED
  BY InitTypeOK, StepTypeOK, PTL DEF Spec

-----------------------------------------------------------------------------
(* What the steps leave alone.                                             *)

LEMMA NoJobFields ==
    /\ NoJob.pc = "down" /\ DOMAIN NoJob.captured = {} /\ NoJob.sigma = "none"
    /\ DOMAIN NoBars = {} /\ ~NoPanel.by.strict /\ ~NoVerdict.strict
    /\ NoPanel.id = 0
BY DEF NoJob, NoBars, NoPanel, NoVerdict

LEMMA GotoFields ==
    ASSUME job \in Jobs, NEW pc, Goto(pc)
    PROVE  /\ job'.pc = pc /\ job'.captured = job.captured /\ job'.run = job.run
           /\ job'.report = job.report /\ job'.sha = job.sha /\ job'.sigma = job.sigma
           /\ job'.opt = job.opt /\ job'.by = job.by /\ job'.handed = job.handed
           /\ job'.alpha = job.alpha
BY DEF Goto, Jobs

LEMMA SigmaEndsFields ==
    ASSUME job \in Jobs, NEW outcome, SigmaEnds(outcome)
    PROVE  /\ job'.pc = "train" /\ job'.sigma = outcome
           /\ job'.captured = job.captured /\ job'.run = job.run
BY DEF SigmaEnds, Jobs

LEMMA InvalidatedFields ==
    ASSUME disk \in Disks
    PROVE  /\ Invalidated.panel = disk.panel /\ Invalidated.corpus = disk.corpus
           /\ Invalidated.provenance = disk.provenance /\ Invalidated.receipt
BY DEF Invalidated, Disks

\* The seal and the registry touch neither the retrain nor its files.
LEMMA QuietStep ==
    SealStep \/ EditRegistry => UNCHANGED <<session, bars, job, disk, count.runs>>
<1>1. ASSUME EditRegistry PROVE count'.runs = count.runs
  BY <1>1 DEF EditRegistry
<1>. QED
  BY <1>1 DEF SealStep, EditRegistry, SealReadScorer, SealReadCalibrator, SealPreflight, SealPrepare,
     SealActivate, ViewsCheck, ViewScorer, ViewCalibrator, SealCrash

LateStep ==
    \/ SigmaConsume \/ SigmaPublish \/ SigmaReverify \/ SigmaDigest \/ SigmaProvenance
    \/ SigmaClear \/ SigmaFails \/ TrainScorer \/ RefitCalibrator \/ StampCalibrator
    \/ Crash

LatePcs == {"publish", "reverify", "digest", "provenance", "clear", "train", "refit", "stamp"}

\* From the merge on the panel stays as it is.
LEMMA LateStepKeeps ==
    ASSUME TypeOK, LateStep
    PROVE  /\ bars' = bars /\ disk'.panel = disk.panel /\ count' = count
           /\ \/ job' = NoJob
              \/ /\ job'.pc \in LatePcs
                 /\ job'.captured = job.captured /\ job'.run = job.run
<1>a. job \in Jobs /\ disk \in Disks
  BY DEF TypeOK
<1>1. CASE SigmaConsume
  <2>1. CASE job' = [job EXCEPT !.pc = "digest", !.report = disk.panel.id]
    <3>1. job'.pc = "digest" /\ job'.captured = job.captured /\ job'.run = job.run
      BY <1>a, <2>1 DEF Jobs
    <3>. QED
      BY <1>1, <3>1, <1>a, InvalidatedFields DEF SigmaConsume, LatePcs
  <2>. QED
    BY <1>1, <1>a, <2>1, GotoFields, SigmaEndsFields, InvalidatedFields
    DEF SigmaConsume, LatePcs
<1>2. CASE SigmaPublish
  BY <1>2, <1>a DEF SigmaPublish, Goto, LatePcs, Jobs, Disks
<1>3. CASE SigmaReverify
  <2>1. CASE job' = [job EXCEPT !.pc = "digest", !.report = disk.panel.id]
    <3>1. job'.pc = "digest" /\ job'.captured = job.captured /\ job'.run = job.run
      BY <1>a, <2>1 DEF Jobs
    <3>. QED
      BY <1>3, <3>1, <1>a, InvalidatedFields DEF SigmaReverify, LatePcs
  <2>. QED
    BY <1>3, <1>a, <2>1, SigmaEndsFields, InvalidatedFields DEF SigmaReverify, LatePcs
<1>4. CASE SigmaDigest
  BY <1>4, <1>a DEF SigmaDigest, LatePcs, Jobs, Disks
<1>5. CASE SigmaProvenance
  BY <1>5, <1>a DEF SigmaProvenance, Goto, LatePcs, Jobs, Disks
<1>6. CASE SigmaClear
  BY <1>6, <1>a DEF SigmaClear, Cleared, SigmaEnds, LatePcs, Jobs, Disks
<1>7. CASE SigmaFails
  BY <1>7, <1>a DEF SigmaFails, SigmaEnds, Invalidated, LatePcs, Jobs, Disks
<1>8. CASE TrainScorer
  BY <1>8, <1>a DEF TrainScorer, Goto, Abort, LatePcs, Jobs, Disks
<1>9. CASE RefitCalibrator
  BY <1>9, <1>a DEF RefitCalibrator, Goto, Abort, LatePcs, Jobs, Disks
<1>10. CASE StampCalibrator
  BY <1>10 DEF StampCalibrator, Abort
<1>11. CASE Crash
  BY <1>11 DEF Crash, Abort
<1>. QED
  BY <1>1, <1>2, <1>3, <1>4, <1>5, <1>6, <1>7, <1>8, <1>9, <1>10, <1>11 DEF LateStep

-----------------------------------------------------------------------------
(* Freshness: from the bars to the panel.                                  *)

LEMMA InitFreshInv == Init => FreshInv
BY NoJobFields DEF Init, FreshInv, Vetted, EmptyDisk

\* No step makes the bars of a name older.
LEMMA StepFreshInv == TypeOK /\ FreshInv /\ [Next]_vars => FreshInv'
<1>. SUFFICES ASSUME TypeOK, FreshInv, [Next]_vars PROVE FreshInv'
  OBVIOUS
<1>a. job \in Jobs /\ disk \in Disks /\ bars \in [Tickers -> Dates] /\ session \in Nat
  BY DEF TypeOK
<1>b. DOMAIN job.captured \subseteq Tickers
  BY <1>a DEF Jobs, Keys
<1>c. \A t \in Tickers : bars[t] \in Nat
  BY <1>a DEF Dates
<1>d. StaleAfter \in Nat /\ job.by.expected \in Nat /\ disk.effective \in SUBSET Tickers
  BY <1>a DEF Jobs, Verdicts, Disks
<1>1. CASE Start
  BY <1>1, NoJobFields DEF Start, FreshInv, NoJob
<1>2. CASE RefreshBegins
  <2>1. \/ job' = NoJob
        \/ job'.pc \in {"guard", "fetch"} /\ job'.captured = job.captured
    BY <1>2, <1>a DEF RefreshBegins, Goto, Abort, Jobs
  <2>2. UNCHANGED <<bars, disk>>
    BY <1>2 DEF RefreshBegins
  <2>. QED
    BY <2>1, <2>2, NoJobFields DEF FreshInv
<1>3. CASE Fetch
  <2>1. PICK n \in job.todo, d \in Nat :
          /\ job' = [job EXCEPT !.todo = @ \ {n}, !.captured = Captured(n, d)]
          /\ d <= bars'[n]
          /\ \A t \in Tickers : bars[t] <= bars'[t]
    <3>1. PICK n \in job.todo :
            \/ /\ job' = [job EXCEPT !.todo = @ \ {n}, !.captured = Captured(n, 0)]
               /\ UNCHANGED bars
            \/ \E d \in {bars[n], session, session + 1} :
                 /\ d >= bars[n]
                 /\ bars' = [bars EXCEPT ![n] = d]
                 /\ job' = [job EXCEPT !.todo = @ \ {n}, !.captured = Captured(n, d)]
      BY <1>3 DEF Fetch
    <3>2. n \in Tickers
      BY <1>a DEF Jobs
    <3>3. CASE /\ job' = [job EXCEPT !.todo = @ \ {n}, !.captured = Captured(n, 0)]
               /\ UNCHANGED bars
      <4>1. 0 \in Nat /\ 0 <= bars'[n] /\ \A t \in Tickers : bars[t] <= bars'[t]
        BY <1>c, <3>2, <3>3
      <4>. QED
        BY <3>3, <4>1
    <3>4. CASE \E d \in {bars[n], session, session + 1} :
                 /\ d >= bars[n]
                 /\ bars' = [bars EXCEPT ![n] = d]
                 /\ job' = [job EXCEPT !.todo = @ \ {n}, !.captured = Captured(n, d)]
      <4>1. PICK d \in {bars[n], session, session + 1} :
                 /\ d >= bars[n]
                 /\ bars' = [bars EXCEPT ![n] = d]
                 /\ job' = [job EXCEPT !.todo = @ \ {n}, !.captured = Captured(n, d)]
        BY <3>4
      <4>2. d \in Nat /\ d <= bars'[n] /\ \A t \in Tickers : bars[t] <= bars'[t]
        BY <1>a, <1>c, <3>2, <4>1
      <4>. QED
        BY <4>1, <4>2
    <3>. QED
      BY <3>1, <3>3, <3>4
  <2>2. /\ job'.captured = Captured(n, d)
        /\ job'.pc = "fetch" /\ disk' = disk
    BY <1>3, <1>a, <2>1 DEF Fetch, Jobs
  <2>3. \A t \in DOMAIN job.captured : job.captured[t] <= bars'[t]
    <3>1. TAKE t \in DOMAIN job.captured
    <3>2. job.captured[t] \in Nat /\ bars'[t] \in Nat
      BY <1>a, <1>b, StepTypeOK DEF TypeOK, Jobs, Keys, Dates
    <3>. QED
      BY <1>b, <1>c, <2>1, <3>2 DEF FreshInv
  <2>. QED
    BY <2>1, <2>2, <2>3 DEF FreshInv, Captured
<1>4. CASE FetchDone
  BY <1>4, <1>a DEF FetchDone, Goto, FreshInv, Jobs
<1>5. CASE WriteEffectiveInventory
  <2>1. CASE job' = NoJob /\ disk' = disk
    BY <1>5, <2>1, NoJobFields DEF WriteEffectiveInventory, FreshInv
  <2>2. CASE /\ disk' = [disk EXCEPT !.effective = Universe]
             /\ job' = [job EXCEPT !.pc = "verdict", !.handed = TRUE,
                                   !.by.excluded = Tickers \ Universe]
    <3>1. /\ disk'.effective = Universe /\ disk'.panel = disk.panel
          /\ job'.pc = "verdict" /\ job'.handed /\ job'.captured = job.captured
          /\ job'.by.excluded = Tickers \ Universe
      BY <1>a, <2>2 DEF Jobs, Disks, Verdicts
    <3>2. Universe = Tickers \ (Tickers \ Universe)
      BY DEF Universe
    <3>. QED
      BY <1>5, <3>1, <3>2 DEF WriteEffectiveInventory, FreshInv
  <2>. QED
    BY <1>5, <2>1, <2>2 DEF WriteEffectiveInventory, Abort
<1>6. CASE GuardVerdict
  <2>1. CASE job' = NoJob
    BY <1>6, <2>1, NoJobFields DEF GuardVerdict, FreshInv
  <2>2. CASE /\ {t \in Guarded : BadName(t)} = {} \/ ~job.opt.fail
             /\ job' = [job EXCEPT !.pc = "build", !.captured = NoBars,
                                   !.by.expected = ExpectedSession,
                                   !.by.strict = job.opt.fail]
    <3>1. /\ job'.pc = "build" /\ job'.captured = NoBars /\ job'.handed = job.handed
          /\ job'.by.strict = job.opt.fail /\ job'.by.expected = session
          /\ job'.by.excluded = job.by.excluded
      BY <1>a, <2>2 DEF Jobs, Verdicts, ExpectedSession
    <3>2. job.handed /\ disk.effective = Guarded
      BY <1>6 DEF GuardVerdict, FreshInv, Guarded
    <3>3. ASSUME job.opt.fail, NEW t \in Guarded
          PROVE  bars[t] # 0 /\ bars[t] + StaleAfter >= session
      <4>1. ~BadName(t) /\ t \in Tickers
        BY <2>2, <3>3 DEF Guarded
      <4>2. MaxDate(t) \in Nat /\ MaxDate(t) <= bars[t]
        BY <1>a, <1>c, <4>1 DEF MaxDate, FreshInv, Jobs, Keys, Dates
      <4>. QED
        BY <1>a, <1>c, <1>d, <4>1, <4>2 DEF BadName, ExpectedSession
    <3>4. bars' = bars /\ disk' = disk
      BY <1>6 DEF GuardVerdict
    <3>. QED
      BY <3>1, <3>2, <3>3, <3>4, NoJobFields DEF FreshInv, Guarded
  <2>. QED
    BY <1>6, <2>1, <2>2 DEF GuardVerdict, Abort
<1>7. CASE BuildPanel
  <2>1. CASE job' = NoJob
    BY <1>7, <2>1, NoJobFields DEF BuildPanel, FreshInv
  <2>2. CASE job' = [job EXCEPT !.pc = "merge", !.by = NoVerdict,
                       !.alpha = [id |-> job.run, by |-> job.by,
                                  keys |-> Restrict(bars, {t \in BuildUniverse : bars[t] # 0})]]
    <3>1. /\ job'.pc = "merge" /\ job'.captured = job.captured
          /\ job'.alpha.by = job.by
          /\ job'.alpha.keys = Restrict(bars, {t \in BuildUniverse : bars[t] # 0})
      BY <1>a, <2>2 DEF Jobs
    <3>2. BuildUniverse = disk.effective /\ disk.effective = Tickers \ job.by.excluded
      BY <1>7 DEF BuildPanel, FreshInv, BuildUniverse
    <3>3. ASSUME job.by.strict
          PROVE  /\ {t \in BuildUniverse : bars[t] # 0} = disk.effective
                 /\ \A t \in disk.effective : bars[t] + StaleAfter >= job.by.expected
      BY <1>7, <3>2, <3>3 DEF BuildPanel, FreshInv
    <3>4. Vetted(job'.alpha)
      BY <3>1, <3>2, <3>3 DEF Vetted, Restrict
    <3>5. bars' = bars /\ disk' = disk
      BY <1>7 DEF BuildPanel
    <3>. QED
      BY <3>1, <3>4, <3>5 DEF FreshInv
  <2>. QED
    BY <1>7, <2>1, <2>2 DEF BuildPanel, Abort
<1>8. CASE MergeFund
  <2>1. disk'.panel \in {disk.panel, job.alpha} /\ Vetted(job.alpha) /\ bars' = bars
    BY <1>8, <1>a DEF MergeFund, FreshInv, Disks
  <2>2. \/ job' = NoJob
        \/ job'.pc = "sigma" /\ job'.captured = job.captured
    BY <1>8, <1>a DEF MergeFund, Abort, Jobs
  <2>. QED
    BY <2>1, <2>2, NoJobFields DEF FreshInv
<1>9. CASE LateStep
  BY <1>9, LateStepKeeps, NoJobFields DEF FreshInv, LatePcs
<1>10. CASE SealStep \/ EditRegistry
  BY <1>10, QuietStep DEF FreshInv, Vetted
<1>11. CASE SessionCompletes
  BY <1>11 DEF SessionCompletes, FreshInv, Vetted
<1>12. CASE LiveRefresh
  <2>1. PICK n \in Tickers : bars[n] < session /\ bars' = [bars EXCEPT ![n] = session]
    BY <1>12 DEF LiveRefresh
  <2>2. \A t \in Tickers : bars[t] <= bars'[t] /\ bars'[t] \in Nat
    BY <1>a, <1>c, <2>1
  <2>3. job' = job /\ disk' = disk
    BY <1>12 DEF LiveRefresh
  <2>4. \A t \in DOMAIN job.captured : job.captured[t] <= bars'[t]
    <3>1. TAKE t \in DOMAIN job.captured
    <3>2. job.captured[t] \in Nat
      BY <1>a, <1>b DEF Jobs, Keys, Dates
    <3>. QED
      BY <1>b, <1>c, <2>2, <3>2 DEF FreshInv
  <2>5. ASSUME job.pc = "build", job.by.strict, NEW t \in disk.effective
        PROVE  bars'[t] # 0 /\ bars'[t] + StaleAfter >= job.by.expected
    <3>1. bars[t] # 0 /\ bars[t] + StaleAfter >= job.by.expected /\ t \in Tickers
      BY <1>d, <2>5 DEF FreshInv
    <3>. QED
      BY <1>c, <1>d, <2>2, <3>1
  <2>. QED
    BY <2>3, <2>4, <2>5 DEF FreshInv, Vetted
<1>13. CASE UNCHANGED vars
  BY <1>13 DEF vars, FreshInv, Vetted
<1>. QED
  BY <1>1, <1>2, <1>3, <1>4, <1>5, <1>6, <1>7, <1>8, <1>9, <1>10, <1>11, <1>12, <1>13
  DEF Next, RetrainStep, LateStep

\* PanelVettedCorrect: PanelVetted for any universe, staleness limit and
\* schedule of refreshes, registry edits, sessions and crashes.
THEOREM PanelVettedCorrect == Spec => []PanelVetted
<1>1. FreshInv => PanelVetted
  BY DEF FreshInv, Vetted, PanelVetted
<1>. QED
  BY <1>1, InitTypeOK, StepTypeOK, InitFreshInv, StepFreshInv, PTL DEF Spec

-----------------------------------------------------------------------------
(* Lockstep: from the identities of panel and corpus to the receipt.       *)

EarlyPcs == {"refresh", "fetch", "guard", "verdict", "build", "merge"}

\* Until the merge a run writes none of the files of the sigma head.
LEMMA EarlyStepKeeps ==
    ASSUME TypeOK,
           RefreshBegins \/ Fetch \/ FetchDone \/ WriteEffectiveInventory
             \/ GuardVerdict \/ BuildPanel
    PROVE  /\ job.pc \in EarlyPcs /\ count' = count /\ lost' = lost
           /\ disk'.panel = disk.panel /\ disk'.corpus = disk.corpus
           /\ disk'.receipt = disk.receipt /\ disk'.provenance = disk.provenance
           /\ \/ job' = NoJob
              \/ /\ job'.pc \in EarlyPcs /\ job'.run = job.run /\ job'.sigma = job.sigma
                 /\ job'.pc = "merge" => job'.alpha.id = job.run
<1>a. job \in Jobs /\ disk \in Disks
  BY DEF TypeOK
<1>1. CASE RefreshBegins
  BY <1>1, <1>a DEF RefreshBegins, Goto, Abort, EarlyPcs, Jobs
<1>2. CASE Fetch
  <2>1. PICK todo, captured : job' = [job EXCEPT !.todo = todo, !.captured = captured]
    BY <1>2 DEF Fetch
  <2>2. job'.pc = job.pc /\ job'.run = job.run /\ job'.sigma = job.sigma
    BY <1>a, <2>1 DEF Jobs
  <2>. QED
    BY <1>2, <2>2 DEF Fetch, EarlyPcs
<1>3. CASE FetchDone
  BY <1>3, <1>a, GotoFields DEF FetchDone, EarlyPcs
<1>4. CASE WriteEffectiveInventory
  <2>1. \/ job' = NoJob
        \/ job'.pc = "verdict" /\ job'.run = job.run /\ job'.sigma = job.sigma
    BY <1>4, <1>a DEF WriteEffectiveInventory, Abort, Jobs
  <2>2. disk'.panel = disk.panel /\ disk'.corpus = disk.corpus
        /\ disk'.receipt = disk.receipt /\ disk'.provenance = disk.provenance
    BY <1>4, <1>a DEF WriteEffectiveInventory, Disks
  <2>. QED
    BY <1>4, <2>1, <2>2 DEF WriteEffectiveInventory, EarlyPcs
<1>5. CASE GuardVerdict
  <2>1. \/ job' = NoJob
        \/ job'.pc = "build" /\ job'.run = job.run /\ job'.sigma = job.sigma
    BY <1>5, <1>a DEF GuardVerdict, Abort, Jobs
  <2>. QED
    BY <1>5, <2>1 DEF GuardVerdict, EarlyPcs
<1>6. CASE BuildPanel
  <2>1. \/ job' = NoJob
        \/ /\ job'.pc = "merge" /\ job'.run = job.run /\ job'.sigma = job.sigma
           /\ job'.alpha.id = job.run
    <3>1. PICK keys : \/ Abort
                      \/ job' = [job EXCEPT !.pc = "merge", !.by = NoVerdict,
                                   !.alpha = [id |-> job.run, keys |-> keys, by |-> job.by]]
      BY <1>6 DEF BuildPanel
    <3>2. CASE job' = [job EXCEPT !.pc = "merge", !.by = NoVerdict,
                         !.alpha = [id |-> job.run, keys |-> keys, by |-> job.by]]
      <4>1. job'.alpha = [id |-> job.run, keys |-> keys, by |-> job.by]
        BY <1>a, <3>2 DEF Jobs
      <4>. QED
        BY <1>a, <3>2, <4>1 DEF Jobs
    <3>. QED
      BY <3>1, <3>2 DEF Abort
  <2>. QED
    BY <1>6, <2>1 DEF BuildPanel, EarlyPcs
<1>. QED
  BY <1>1, <1>2, <1>3, <1>4, <1>5, <1>6

LEMMA InitRunInv == Init => RunInv
BY NoJobFields DEF Init, RunInv, EmptyDisk

LEMMA StepRunInv == TypeOK /\ RunInv /\ [Next]_vars => RunInv'
<1>. SUFFICES ASSUME TypeOK, RunInv, [Next]_vars PROVE RunInv'
  OBVIOUS
<1>a. job \in Jobs /\ disk \in Disks /\ count.runs \in Nat /\ disk.panel.id \in Nat
  BY DEF TypeOK, Disks, Panels, Ids
<1>1. CASE Start
  <2>1. count'.runs = count.runs + 1 /\ disk' = disk
    BY <1>1 DEF Start, TypeOK
  <2>2. job'.run = count.runs + 2 /\ job'.pc = "refresh"
    BY <1>1 DEF Start, NoJob
  <2>. QED
    BY <1>a, <2>1, <2>2 DEF RunInv
<1>2. CASE RefreshBegins \/ Fetch \/ FetchDone \/ WriteEffectiveInventory
             \/ GuardVerdict \/ BuildPanel
  BY <1>2, <1>a, EarlyStepKeeps, NoJobFields DEF RunInv, EarlyPcs
<1>3. CASE MergeFund
  <2>1. disk'.panel \in {disk.panel, job.alpha} /\ count' = count
    BY <1>3, <1>a DEF MergeFund, Disks
  <2>2. job' = NoJob \/ (job'.pc = "sigma" /\ job'.run = job.run)
    BY <1>3, <1>a DEF MergeFund, Abort, Jobs
  <2>3. job.pc = "merge"
    BY <1>3 DEF MergeFund
  <2>. QED
    BY <1>a, <2>1, <2>2, <2>3, NoJobFields DEF RunInv
<1>4. CASE LateStep
  <2>1. job.pc # "down"
    BY <1>4 DEF LateStep, SigmaConsume, SigmaPublish, SigmaReverify, SigmaDigest,
       SigmaProvenance, SigmaClear, SigmaFails, TrainScorer, RefitCalibrator,
       StampCalibrator, Crash
  <2>. QED
    BY <1>4, <2>1, LateStepKeeps, NoJobFields DEF RunInv, LatePcs
<1>5. CASE SealStep \/ EditRegistry
  BY <1>5, QuietStep DEF RunInv
<1>6. CASE SessionCompletes \/ LiveRefresh \/ UNCHANGED vars
  BY <1>6 DEF SessionCompletes, LiveRefresh, vars, RunInv
<1>. QED
  BY <1>1, <1>2, <1>3, <1>4, <1>5, <1>6 DEF Next, RetrainStep, LateStep

LEMMA InitLockstepInv == Init => LockstepInv
BY NoJobFields DEF Init, LockstepInv, EmptyDisk, NoPanel, NoCorpus, NoJob

LEMMA StepLockstepInv ==
    TypeOK /\ RunInv /\ LockstepInv /\ [Next]_vars => LockstepInv'
<1>. SUFFICES ASSUME TypeOK, RunInv, LockstepInv, [Next]_vars PROVE LockstepInv'
  OBVIOUS
<1>a. job \in Jobs /\ disk \in Disks
  BY DEF TypeOK
<1>b. /\ disk.panel.id \in Nat /\ disk.corpus.id \in Nat
      /\ disk.provenance.panel \in Nat /\ disk.provenance.corpus \in Nat
  BY <1>a DEF Disks, Panels, Ids
<1>c. disk.provenance = [panel |-> disk.provenance.panel, corpus |-> disk.provenance.corpus]
  BY <1>a DEF Disks
<1>1. CASE Start
  <2>1. job'.pc = "refresh" /\ job'.sigma = "none" /\ disk' = disk
    BY <1>1 DEF Start, NoJob
  <2>. QED
    BY <2>1 DEF LockstepInv, Lockstep, DigestsMatch
<1>2. CASE RefreshBegins \/ Fetch \/ FetchDone \/ WriteEffectiveInventory
             \/ GuardVerdict \/ BuildPanel
  BY <1>2, EarlyStepKeeps, NoJobFields DEF LockstepInv, Lockstep, DigestsMatch, EarlyPcs
<1>3. CASE MergeFund
  <2>1. /\ disk'.corpus = disk.corpus /\ disk'.provenance = disk.provenance
        /\ disk'.receipt = disk.receipt
        /\ \/ disk'.panel = disk.panel
           \/ disk'.panel = job.alpha
    BY <1>3, <1>a DEF MergeFund, Disks
  <2>2. disk.panel.id < job.run /\ job.alpha.id = job.run /\ job.run \in Nat
    BY <1>3, <1>a DEF MergeFund, RunInv, Jobs, Ids
  <2>3. job' = NoJob \/ (job'.pc = "sigma" /\ job'.sigma = "none")
    BY <1>3, <1>a DEF MergeFund, Abort, Jobs, LockstepInv
  <2>4. disk'.panel = job.alpha =>
            disk.provenance.panel < disk'.panel.id
    BY <1>b, <2>2 DEF LockstepInv
  <2>. QED
    <3>1. CASE disk'.panel = disk.panel
      BY <2>1, <2>3, <3>1, NoJobFields DEF LockstepInv, Lockstep, DigestsMatch
    <3>2. CASE disk'.panel = job.alpha
      <4>1. disk'.panel.id \in Nat /\ disk'.provenance.panel # disk'.panel.id
            /\ disk'.provenance.panel <= disk'.panel.id
        BY <1>a, <1>b, <2>1, <2>2, <2>4, <3>2
      <4>. QED
        BY <2>1, <2>3, <4>1, NoJobFields DEF LockstepInv, Lockstep, DigestsMatch
    <3>. QED
      BY <2>1, <3>1, <3>2
<1>4. CASE SigmaConsume
  <2>1. \/ disk' = disk
        \/ disk' = Invalidated
    BY <1>4 DEF SigmaConsume
  <2>2. CASE SigmaEnds("skipped") /\ disk' = disk
    BY <1>a, <2>2, SigmaEndsFields DEF LockstepInv, Lockstep, DigestsMatch
  <2>3. CASE SigmaEnds("failed") /\ disk' = Invalidated
    BY <1>a, <2>3, SigmaEndsFields, InvalidatedFields DEF LockstepInv, Lockstep, DigestsMatch
  <2>4. CASE disk.corpus.id # 0 /\ Verified /\ disk' = disk
             /\ job' = [job EXCEPT !.pc = "digest", !.report = disk.panel.id]
    <3>1. job'.pc = "digest" /\ job'.report = disk.panel.id /\ job'.sigma = job.sigma
      BY <1>a, <2>4 DEF Jobs
    <3>2. job.sigma = "none"
      BY <1>4 DEF SigmaConsume, LockstepInv
    <3>. QED
      BY <2>4, <3>1, <3>2 DEF LockstepInv, Lockstep, DigestsMatch, Verified
  <2>5. CASE Goto("publish") /\ disk' = disk
    <3>1. job.sigma = "none"
      BY <1>4 DEF SigmaConsume, LockstepInv
    <3>. QED
      BY <1>a, <2>5, <3>1, GotoFields DEF LockstepInv, Lockstep, DigestsMatch
  <2>. QED
    BY <1>4, <2>2, <2>3, <2>4, <2>5 DEF SigmaConsume
<1>5. CASE SigmaPublish
  <2>1. /\ disk'.panel = disk.panel /\ disk'.provenance = disk.provenance
        /\ disk'.receipt = disk.receipt /\ disk'.corpus.id = disk.corpus.id + 1
    BY <1>5, <1>a DEF SigmaPublish, Disks
  <2>2. job'.pc = "reverify" /\ job'.sigma = "none"
    BY <1>5, <1>a, GotoFields DEF SigmaPublish, LockstepInv
  <2>3. disk.provenance.corpus < disk'.corpus.id /\ disk'.corpus.id # 0
    BY <1>b, <2>1 DEF LockstepInv
  <2>. QED
    BY <1>b, <1>c, <2>1, <2>2, <2>3 DEF LockstepInv, Lockstep, DigestsMatch
<1>6. CASE SigmaReverify
  <2>1. CASE SigmaEnds("failed") /\ disk' = Invalidated
    BY <1>a, <2>1, SigmaEndsFields, InvalidatedFields DEF LockstepInv, Lockstep, DigestsMatch
  <2>2. CASE Verified /\ disk' = disk
             /\ job' = [job EXCEPT !.pc = "digest", !.report = disk.panel.id]
    <3>1. job'.pc = "digest" /\ job'.report = disk.panel.id /\ job'.sigma = job.sigma
      BY <1>a, <2>2 DEF Jobs
    <3>2. job.sigma = "none" /\ disk.corpus.id # 0
      BY <1>6 DEF SigmaReverify, LockstepInv
    <3>. QED
      BY <2>2, <3>1, <3>2 DEF LockstepInv, Lockstep, DigestsMatch, Verified
  <2>. QED
    BY <1>6, <2>1, <2>2 DEF SigmaReverify
<1>7. CASE SigmaDigest
  <2>1. /\ job'.pc = "provenance" /\ job'.sha = disk.corpus.id
        /\ job'.report = job.report /\ job'.sigma = job.sigma
    BY <1>7, <1>a DEF SigmaDigest, Jobs
  <2>2. disk' = disk /\ job.pc = "digest"
    BY <1>7 DEF SigmaDigest
  <2>. QED
    BY <2>1, <2>2 DEF LockstepInv, Lockstep, DigestsMatch
<1>8. CASE SigmaProvenance
  <2>1. /\ disk'.panel = disk.panel /\ disk'.corpus = disk.corpus
        /\ disk'.provenance = [panel |-> job.report, corpus |-> job.sha]
        /\ disk'.receipt = disk.receipt
    BY <1>8, <1>a DEF SigmaProvenance, Disks
  <2>2. job'.pc = "clear" /\ job'.sigma = job.sigma /\ job'.report = job.report
    BY <1>8, <1>a, GotoFields DEF SigmaProvenance
  <2>3. job.pc = "provenance"
    BY <1>8 DEF SigmaProvenance
  <2>. QED
    BY <1>b, <2>1, <2>2, <2>3 DEF LockstepInv, Lockstep, DigestsMatch
<1>9. CASE SigmaClear
  <2>1. /\ disk'.panel = disk.panel /\ disk'.corpus = disk.corpus
        /\ disk'.provenance = disk.provenance /\ ~disk'.receipt
    BY <1>9, <1>a DEF SigmaClear, Cleared, Disks
  <2>2. job'.pc = "train" /\ job'.sigma = "verified"
    BY <1>9, <1>a, SigmaEndsFields DEF SigmaClear
  <2>3. job.pc = "clear"
    BY <1>9 DEF SigmaClear
  <2>. QED
    BY <2>1, <2>2, <2>3 DEF LockstepInv, Lockstep, Admissible, DigestsMatch
<1>10. CASE SigmaFails
  <2>1. SigmaEnds("failed") /\ disk' = Invalidated
    BY <1>10 DEF SigmaFails
  <2>. QED
    BY <1>a, <2>1, SigmaEndsFields, InvalidatedFields DEF LockstepInv, Lockstep, DigestsMatch
<1>11. CASE TrainScorer \/ RefitCalibrator \/ StampCalibrator \/ Crash
  <2>1. disk' = disk
    BY <1>11 DEF TrainScorer, RefitCalibrator, StampCalibrator, Crash
  <2>2. job' = NoJob \/ (job'.pc \in {"refit", "stamp"} /\ job'.sigma = job.sigma)
    BY <1>11, <1>a, GotoFields DEF TrainScorer, RefitCalibrator, StampCalibrator, Crash, Abort
  <2>. QED
    BY <2>1, <2>2, NoJobFields DEF LockstepInv, Lockstep, Admissible, DigestsMatch
<1>12. CASE SealStep \/ EditRegistry
  BY <1>12, QuietStep DEF LockstepInv, Lockstep, Admissible, DigestsMatch
<1>13. CASE SessionCompletes \/ LiveRefresh \/ UNCHANGED vars
  BY <1>13 DEF SessionCompletes, LiveRefresh, vars, LockstepInv, Lockstep, Admissible, DigestsMatch
<1>. QED
  BY <1>1, <1>2, <1>3, <1>4, <1>5, <1>6, <1>7, <1>8, <1>9, <1>10, <1>11, <1>12, <1>13
  DEF Next, RetrainStep

\* The invariant of the identities, once.
LEMMA LockstepInvariant == Spec => [](RunInv /\ LockstepInv)
BY InitTypeOK, StepTypeOK, InitRunInv, StepRunInv, InitLockstepInv, StepLockstepInv,
   PTL DEF Spec

\* ProvenanceCorrect: ProvenanceIsLockstep for any command lines, number of
\* runs and crashes between any two writes.
THEOREM ProvenanceCorrect == Spec => []ProvenanceIsLockstep
<1>1. LockstepInv => ProvenanceIsLockstep
  BY DEF LockstepInv, ProvenanceIsLockstep, Lockstep
<1>. QED
  BY <1>1, LockstepInvariant, PTL

\* SigmaVerdictCorrect: SigmaVerdictHolds for any command lines, number of
\* runs and crashes.
THEOREM SigmaVerdictCorrect == Spec => []SigmaVerdictHolds
<1>1. LockstepInv => SigmaVerdictHolds
  BY DEF LockstepInv, SigmaVerdictHolds, Admissible
<1>. QED
  BY <1>1, LockstepInvariant, PTL

-----------------------------------------------------------------------------
(* The pair: from the fit to the stamp, and from the prod directory to the *)
(* active bundle.                                                          *)

LEMMA InitPairInv == Init => PairInv
BY NoJobFields DEF Init, PairInv, FitInv, EarlierPair, NoPair

\* While nothing was lost, the views have written what was there already.
LEMMA ReplaceKeeps ==
    ASSUME TypeOK, NEW pair, ReplaceFlat(pair), ~lost'
    PROVE  pairs' = pairs /\ ~lost
BY DEF ReplaceFlat, Prod, TypeOK

LEMMA StepPairInv == TypeOK /\ RunInv /\ PairInv /\ [Next]_vars => PairInv'
<1>. SUFFICES ASSUME TypeOK, RunInv, PairInv, [Next]_vars, ~lost'
              PROVE  /\ \A s \in {"prod", "staging"} : FitInv(pairs'[s])
                     /\ job'.pc = "stamp" => pairs'[Slot'].fit = pairs'[Slot'].scorer
  BY DEF PairInv, FitInv
<1>a. job \in Jobs /\ Slot \in {"prod", "staging"} /\ pairs \in [{"prod", "staging"} -> Pair]
  BY DEF TypeOK, Slot, Jobs
<1>1. CASE TrainScorer
  <2>1. job' = NoJob \/ job'.pc = "refit"
    BY <1>1, <1>a, GotoFields DEF TrainScorer, Abort
  <2>2. job.run # 0
    BY <1>1 DEF TrainScorer, RunInv, TypeOK
  <2>3. ~lost
    BY <1>1 DEF TrainScorer
  <2>4. \A s \in {"prod", "staging"} : FitInv(pairs'[s])
    <3>1. CASE pairs' = pairs
      BY <2>3, <3>1 DEF PairInv
    <3>2. CASE pairs' = [pairs EXCEPT ![Slot].scorer = job.run]
      BY <1>a, <2>2, <2>3, <3>2 DEF PairInv, FitInv, Pair
    <3>. QED
      BY <1>1, <3>1, <3>2 DEF TrainScorer
  <2>. QED
    BY <2>1, <2>4, NoJobFields
<1>2. CASE RefitCalibrator
  <2>1. job' = NoJob \/ (job'.pc = "stamp" /\ job'.opt = job.opt)
    BY <1>2, <1>a, GotoFields DEF RefitCalibrator, Abort
  <2>2. ~lost
    BY <1>2 DEF RefitCalibrator
  <2>3. CASE Abort /\ UNCHANGED pairs
    BY <2>2, <2>3, NoJobFields DEF Abort, PairInv
  <2>4. CASE pairs' = [pairs EXCEPT ![Slot] = Refit(pairs[Slot])]
    <3>1. /\ Refit(pairs[Slot]).fit = pairs[Slot].scorer
          /\ Refit(pairs[Slot]).scorer = pairs[Slot].scorer
          /\ Refit(pairs[Slot]).stamp = 0
      BY <1>a DEF Refit, Pair
    <3>2. \A s \in {"prod", "staging"} : FitInv(pairs'[s])
      BY <1>a, <2>2, <2>4, <3>1 DEF PairInv, FitInv
    <3>3. pairs'[Slot].fit = pairs'[Slot].scorer
      BY <1>a, <2>4, <3>1
    <3>. QED
      BY <2>1, <3>2, <3>3, NoJobFields DEF Slot
  <2>. QED
    BY <1>2, <2>3, <2>4 DEF RefitCalibrator
<1>3. CASE StampCalibrator
  <2>1. job' = NoJob /\ ~lost /\ job.pc = "stamp"
    BY <1>3 DEF StampCalibrator, Abort
  <2>2. CASE UNCHANGED pairs
    BY <2>1, <2>2, NoJobFields DEF PairInv
  <2>3. CASE pairs' = [pairs EXCEPT ![Slot].stamp = pairs[Slot].scorer]
    BY <1>a, <2>1, <2>3, NoJobFields DEF PairInv, FitInv, Pair
  <2>. QED
    BY <1>3, <2>2, <2>3 DEF StampCalibrator
<1>4. CASE ViewScorer
  BY <1>4, ReplaceKeeps DEF ViewScorer, PairInv, Slot
<1>5. CASE ViewCalibrator
  BY <1>5, ReplaceKeeps DEF ViewCalibrator, PairInv, Slot
<1>6. CASE \/ SealReadScorer \/ SealReadCalibrator \/ SealPreflight \/ SealPrepare
           \/ SealActivate \/ ViewsCheck \/ SealCrash \/ SessionCompletes \/ LiveRefresh
           \/ EditRegistry \/ UNCHANGED vars
  <2>1. UNCHANGED <<job, pairs, lost>>
    BY <1>6 DEF SealReadScorer, SealReadCalibrator, SealPreflight, SealPrepare,
       SealActivate, ViewsCheck, SealCrash, SessionCompletes, LiveRefresh,
       EditRegistry, vars
  <2>. QED
    BY <2>1 DEF PairInv, Slot
<1>7. CASE \/ Start \/ RefreshBegins \/ Fetch \/ FetchDone \/ WriteEffectiveInventory
           \/ GuardVerdict \/ BuildPanel \/ MergeFund \/ SigmaConsume \/ SigmaPublish
           \/ SigmaReverify \/ SigmaDigest \/ SigmaProvenance \/ SigmaClear \/ SigmaFails
           \/ Crash
  <2>1. UNCHANGED <<pairs, lost>>
    BY <1>7 DEF Start, RefreshBegins, Fetch, FetchDone, WriteEffectiveInventory,
       GuardVerdict, BuildPanel, MergeFund, SigmaConsume, SigmaPublish, SigmaReverify,
       SigmaDigest, SigmaProvenance, SigmaClear, SigmaFails, Crash
  <2>2. job'.pc # "stamp"
    <3>1. CASE Start
      BY <3>1 DEF Start, NoJob
    <3>2. CASE RefreshBegins \/ Fetch \/ FetchDone \/ WriteEffectiveInventory
                 \/ GuardVerdict \/ BuildPanel
      BY <3>2, EarlyStepKeeps, NoJobFields DEF EarlyPcs
    <3>3. CASE MergeFund
      BY <1>a, <3>3, NoJobFields DEF MergeFund, Abort, Jobs
    <3>4. CASE SigmaConsume
      <4>1. CASE job' = [job EXCEPT !.pc = "digest", !.report = disk.panel.id]
        BY <1>a, <4>1 DEF Jobs
      <4>. QED
        BY <1>a, <3>4, <4>1, GotoFields, SigmaEndsFields DEF SigmaConsume
    <3>5. CASE SigmaReverify
      <4>1. CASE job' = [job EXCEPT !.pc = "digest", !.report = disk.panel.id]
        BY <1>a, <4>1 DEF Jobs
      <4>. QED
        BY <1>a, <3>5, <4>1, SigmaEndsFields DEF SigmaReverify
    <3>6. CASE SigmaDigest
      BY <1>a, <3>6 DEF SigmaDigest, Jobs
    <3>7. CASE SigmaPublish \/ SigmaProvenance
      BY <1>a, <3>7, GotoFields DEF SigmaPublish, SigmaProvenance
    <3>8. CASE SigmaClear \/ SigmaFails
      BY <1>a, <3>8, SigmaEndsFields DEF SigmaClear, SigmaFails
    <3>9. CASE Crash
      BY <3>9, NoJobFields DEF Crash, Abort
    <3>. QED
      BY <1>7, <3>1, <3>2, <3>3, <3>4, <3>5, <3>6, <3>7, <3>8, <3>9
  <2>. QED
    BY <2>1, <2>2 DEF PairInv
<1>. QED
  BY <1>1, <1>2, <1>3, <1>4, <1>5, <1>6, <1>7 DEF Next, RetrainStep, SealStep

\* ServedPairCorrect: ServedPairFit for any slots, number of runs, crashes
\* and seals.
THEOREM ServedPairCorrect == Spec => []ServedPairFit
<1>1. TypeOK /\ PairInv => ServedPairFit
  BY DEF TypeOK, PairInv, FitInv, ServedPairFit
<1>. QED
  BY <1>1, InitTypeOK, StepTypeOK, InitRunInv, StepRunInv, InitPairInv, StepPairInv,
     PTL DEF Spec

LEMMA InitSealInv == Init => SealInv
BY DEF Init, SealInv, NoSeal

LEMMA StepSealInv == TypeOK /\ PairInv /\ SealInv /\ [Next]_vars => SealInv'
<1>. SUFFICES ASSUME TypeOK, PairInv, SealInv, [Next]_vars PROVE SealInv'
  OBVIOUS
<1>a. seal \in Seals /\ store \in [prepared : BOOLEAN, active : Pair]
  BY DEF TypeOK
<1>b. Prod \in Pair /\ seal.pair \in Pair /\ NoSeal.pc = "idle"
  BY <1>a DEF TypeOK, Prod, Seals, NoSeal
<1>1. CASE SealReadScorer
  <2>1. seal'.pc = "calibrator" /\ UNCHANGED <<store, lost>> /\ ~store.prepared
    BY <1>1 DEF SealReadScorer
  <2>. QED
    BY <2>1 DEF SealInv
<1>2. CASE SealReadCalibrator
  <2>1. UNCHANGED <<store, lost>> /\ ~store.prepared /\ ~lost
    BY <1>2 DEF SealReadCalibrator, SealInv
  <2>2. seal'.pc \in {"flat1", "prepare"} /\ seal'.pair = [Prod EXCEPT !.scorer = seal.pair.scorer]
    BY <1>2, <1>a DEF SealReadCalibrator, Seals
  <2>3. Prod.stamp # 0 => Prod.fit = Prod.stamp
    BY <2>1 DEF PairInv, FitInv, Prod
  <2>. QED
    BY <1>b, <2>1, <2>2, <2>3 DEF SealInv, Pair
<1>3. CASE SealPreflight
  <2>1. UNCHANGED <<store, lost>> /\ seal.pc \in {"flat1", "flat2"}
    BY <1>3 DEF SealPreflight
  <2>2. seal' = NoSeal \/ (seal'.pc \in {"flat2", "prepare"} /\ seal'.pair = seal.pair)
    BY <1>3, <1>a DEF SealPreflight, SealGives, SealTo, Seals
  <2>. QED
    BY <1>b, <2>1, <2>2 DEF SealInv
<1>4. CASE SealPrepare
  <2>1. /\ lost' = lost /\ store'.active = store.active
        /\ store'.prepared = PairValid(seal.pair) /\ seal.pc = "prepare"
    BY <1>4, <1>a DEF SealPrepare
  <2>2. \/ seal' = NoSeal /\ ~PairValid(seal.pair)
        \/ seal'.pc = "activate" /\ seal'.pair = seal.pair /\ PairValid(seal.pair)
    BY <1>4, <1>a DEF SealPrepare, SealGives, SealTo, Seals
  <2>3. PairValid(seal.pair) => Together(seal.pair)
    BY <2>1 DEF PairValid, Together, SealInv
  <2>. QED
    BY <1>b, <2>1, <2>2, <2>3 DEF SealInv, Together
<1>5. CASE SealActivate
  <2>1. /\ lost' = lost /\ store'.active = seal.pair
        /\ store'.prepared = store.prepared /\ seal.pc = "activate"
    BY <1>5, <1>a DEF SealActivate
  <2>2. seal' = NoSeal \/ (seal'.pc = "check1" /\ seal'.pair = seal.pair)
    BY <1>5, <1>a DEF SealActivate, SealGives, SealTo, Seals
  <2>. QED
    BY <1>b, <2>1, <2>2 DEF SealInv, Together
<1>6. CASE ViewsCheck
  <2>1. UNCHANGED <<store, lost>> /\ seal.pc \in {"check1", "check2"}
    BY <1>6 DEF ViewsCheck
  <2>2. seal' = NoSeal \/ seal'.pc \in {"check2", "view1"}
    BY <1>6, <1>a DEF ViewsCheck, SealGives, SealTo, Seals
  <2>. QED
    BY <1>b, <2>1, <2>2 DEF SealInv
<1>7. CASE ViewScorer \/ ViewCalibrator
  <2>1. store' = store /\ store.prepared
    BY <1>7 DEF ViewScorer, ViewCalibrator, SealInv
  <2>2. seal' = NoSeal \/ seal'.pc = "view2"
    BY <1>7, <1>a DEF ViewScorer, ViewCalibrator, SealTo, Seals
  <2>. QED
    BY <1>b, <2>1, <2>2 DEF SealInv
<1>8. CASE SealCrash
  BY <1>8, <1>b DEF SealCrash, SealInv
<1>9. CASE RetrainStep \/ SessionCompletes \/ LiveRefresh \/ EditRegistry \/ UNCHANGED vars
  <2>1. UNCHANGED <<seal, store, lost>>
    BY <1>9 DEF RetrainStep, Start, RefreshBegins, Fetch, FetchDone, WriteEffectiveInventory,
       GuardVerdict, BuildPanel, MergeFund, SigmaConsume, SigmaPublish, SigmaReverify,
       SigmaDigest, SigmaProvenance, SigmaClear, SigmaFails, TrainScorer, RefitCalibrator,
       StampCalibrator, Crash, SessionCompletes, LiveRefresh, EditRegistry, vars
  <2>. QED
    BY <2>1 DEF SealInv, Together
<1>. QED
  BY <1>1, <1>2, <1>3, <1>4, <1>5, <1>6, <1>7, <1>8, <1>9 DEF Next, SealStep

\* SealedPairCorrect: SealedPairFit for any interleaving of seals and
\* retrains, with crashes of both.
THEOREM SealedPairCorrect == Spec => []SealedPairFit
<1>1. SealInv => SealedPairFit
  BY DEF SealInv, Together, SealedPairFit
<1>. QED
  BY <1>1, InitTypeOK, StepTypeOK, InitRunInv, StepRunInv, InitPairInv, StepPairInv,
     InitSealInv, StepSealInv, PTL DEF Spec
=============================================================================
