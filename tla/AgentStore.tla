----------------------------- MODULE AgentStore -----------------------------
(***************************************************************************)
(* The agent control plane of agent_automation_poller.py: poller processes *)
(* that share one SQLite store.  The store holds a ledger of events (the   *)
(* durable inbox, table processed_events) and work items (table            *)
(* work_items), one per (repo, pr, head, review), each with a lease and a  *)
(* fencing number.  A process runs startup_recover, then deliveries        *)
(* (ingest) and recovery passes (tick) one after the other; the processes  *)
(* interleave between any two transactions of the store.                   *)
(*                                                                         *)
(* Simplifications.  Time is not counted: a lease is live or expired, and  *)
(* the actions LeaseExpires and ClaimExpires end it.  heartbeat only moves *)
(* an expiry that is not a number here.  Bodies of events, the recorded    *)
(* results and the time stamps are dropped.  The in-memory cancellation    *)
(* token is dropped: a process runs its executor synchronously, so it is   *)
(* never superseding while a run of its own is in flight.  Deliveries that *)
(* claim_event refuses change nothing and are stuttering steps.            *)
(***************************************************************************)
EXTENDS Naturals, Sequences, FiniteSets

CONSTANTS
    Pollers,      \* processes, each with an owner id of its own
    Events,       \* delivery ids
    Keys,         \* work-item keys
    KeyOf,        \* the row_key of an event
    PrOf,         \* (repo, pr) of a key
    HeadOf,       \* head of a key, numbered in the order the heads were pushed
    KindOf,       \* "approved", "changes" (or comment), "other"
    Tracked,      \* events of pull requests on the allowlist
    Legacy,       \* events claimed by a revision that kept no payload
    MaxRounds,    \* max_rounds_per_pr
    DryRun,       \* pollers configured with dry_run
    Outcomes,     \* what run_fix_in_sandbox may do
    Abortable,    \* rows the operator may ask to cancel
    MayBeGone,    \* whether a ground-truth callback may call a row resolved
    MaxCrashes,   \* bound on crashes and on exceptions of the executor
    MaxOverruns,  \* bound on leases that expire under a running holder
    None

ASSUME ShapeAssumption ==
    /\ KeyOf \in [Events -> Keys]
    /\ PrOf \in [Keys -> Nat] /\ HeadOf \in [Keys -> Nat]
    /\ KindOf \in [Events -> {"approved", "changes", "other"}]
    /\ Tracked \subseteq Events /\ Legacy \subseteq Events /\ IsFiniteSet(Legacy)
    /\ DryRun \subseteq Pollers /\ Abortable \subseteq Keys
    /\ Outcomes \subseteq {"stub", "cancelled", "quits", "patch", "raises"}
    /\ MayBeGone \in BOOLEAN
ASSUME BoundAssumption ==
    MaxRounds \in Nat \ {0} /\ MaxCrashes \in Nat /\ MaxOverruns \in Nat
ASSUME NoneAssumption ==
    None \notin Pollers /\ None \notin Events /\ None \notin Pollers \X {"ingest", "recovery"}

VARIABLES
    items,     \* work_items: key -> row
    ledger,    \* processed_events: event -> status and claim
    arrived,   \* the ledger's rows in the order of processed_at
    pc,        \* where each process is
    job,       \* the event it drives: claim role, target, fence, exception
    todo,      \* what is left of its recovery pass, to be taken in order of arrival
    sweep,     \* what is left of its reconcile_expired_leases
    aborted,   \* rows an operator asked to cancel
    effects,   \* history: final transitions committed for an event
    robbed,    \* history: rows whose live lease a sweep took away
    crashes, overruns

vars == <<items, ledger, arrived, pc, job, todo, sweep, aborted, effects, robbed,
          crashes, overruns>>

-----------------------------------------------------------------------------
(* The state machine of a work item: terminal states and poller edges.     *)

Terminal == {"MERGED", "HELD", "DROPPED", "ADVISORY_ONLY", "ESCALATED"}

PollerEdges ==
    {<<"ALERT_RECEIVED", "TRIAGING">>, <<"ALERT_RECEIVED", "DROPPED">>,
     <<"TRIAGING", "PR_OPEN">>, <<"TRIAGING", "ADVISORY_ONLY">>,
     <<"TRIAGING", "DROPPED">>, <<"TRIAGING", "PAUSED">>,
     <<"PR_OPEN", "AWAIT_REVIEW">>, <<"PR_OPEN", "PAUSED">>,
     <<"AWAIT_REVIEW", "FIXING">>, <<"AWAIT_REVIEW", "MERGE_ELIGIBLE">>,
     <<"AWAIT_REVIEW", "ESCALATED">>, <<"AWAIT_REVIEW", "PAUSED">>,
     <<"FIXING", "AWAIT_REVIEW">>, <<"FIXING", "ESCALATED">>,
     <<"FIXING", "PAUSED">>,
     <<"PAUSED", "AWAIT_REVIEW">>, <<"PAUSED", "TRIAGING">>}

CanMove(from, to) == from \notin Terminal /\ <<from, to>> \in PollerEdges

NoRow == [state |-> "NONE", sup |-> FALSE, cancel |-> FALSE, rerun |-> FALSE,
          owner |-> None, live |-> FALSE, fence |-> 0, attempt |-> 0]

Ensured(r) == IF r.state = "NONE" THEN [r EXCEPT !.state = "AWAIT_REVIEW"] ELSE r

Active(r) == r.state # "NONE" /\ ~r.sup /\ r.state \notin Terminal

LiveLease(r) == r.owner # None /\ r.live

ExpiredLease(r) == r.owner # None /\ ~r.live

Unleased(r) == [r EXCEPT !.owner = None, !.live = FALSE]

(* Another active row of the same pull request holds a live lease.         *)
Busy_SameHeadOnly(k) ==
    \E j \in Keys \ {k} : /\ PrOf[j] = PrOf[k] /\ HeadOf[j] # HeadOf[k]
                          /\ Active(items[j]) /\ LiveLease(items[j])

Busy(k) ==
    \E j \in Keys \ {k} : /\ PrOf[j] = PrOf[k]
                          /\ Active(items[j]) /\ LiveLease(items[j])

Unclaimed == [st |-> "absent", owner |-> None, live |-> FALSE]

Applied(e) == [ledger EXCEPT ![e] = [st |-> "applied", owner |-> None, live |-> FALSE]]

Inbox == {e \in Events : ledger[e].st = "processing"}

(* e is not later than f in the order of processed_at.                     *)
NotAfter(e, f) ==
    \E i, j \in DOMAIN arrived : i <= j /\ arrived[i] = e /\ arrived[j] = f

NoJob == [ev |-> None, role |-> "ingest", goal |-> "none", fence |-> 0, err |-> FALSE]

Key(p) == KeyOf[job[p].ev]

Row(p) == items[Key(p)]

(* The process is still the leaseholder of the generation it acquired.     *)
HoldsLease(p) ==
    Row(p).owner = p /\ Row(p).live /\ Row(p).fence = job[p].fence

-----------------------------------------------------------------------------
Init ==
    /\ items = [k \in Keys |-> NoRow]
    /\ ledger = [e \in Events |->
                    IF e \in Legacy THEN [Unclaimed EXCEPT !.st = "processing"]
                                    ELSE Unclaimed]
    /\ arrived \in {s \in [1..Cardinality(Legacy) -> Legacy] :
                        \A i, j \in DOMAIN s : s[i] = s[j] => i = j}
    /\ pc = [p \in Pollers |-> "down"]
    /\ job = [p \in Pollers |-> NoJob]
    /\ todo = [p \in Pollers |-> {}]
    /\ sweep = [p \in Pollers |-> {}]
    /\ aborted = {}
    /\ effects = [e \in Events |-> 0]
    /\ robbed = {}
    /\ crashes = 0 /\ overruns = 0

-----------------------------------------------------------------------------
(* Start of a process: startup_recover.                                    *)

(* The uncooperative runs go to the termination hook, which keeps a list;  *)
(* then sweep (a) of reconcile_expired_leases.                             *)
Restart(p) ==
    /\ pc[p] = "down"
    /\ pc' = [pc EXCEPT ![p] = "listing"]
    /\ items' = [k \in Keys |->
                    IF items[k].sup /\ ExpiredLease(items[k])
                    THEN [Unleased(items[k]) EXCEPT !.cancel = FALSE]
                    ELSE items[k]]
    /\ UNCHANGED <<ledger, arrived, job, todo, sweep, aborted, effects, robbed,
                   crashes, overruns>>

(* Sweep (b), the SELECT.                                                  *)
ListExpired(p) ==
    /\ pc[p] = "listing"
    /\ sweep' = [sweep EXCEPT ![p] =
                    {k \in Keys : Active(items[k]) /\ ExpiredLease(items[k])}]
    /\ pc' = [pc EXCEPT ![p] = "sweeping"]
    /\ UNCHANGED <<items, ledger, arrived, job, todo, aborted, effects, robbed,
                   crashes, overruns>>

(* Sweep (b), one UPDATE: it names the key and nothing else, so it also    *)
(* clears a lease taken since the SELECT.                                  *)
ReconcileOne(p) ==
    /\ pc[p] = "sweeping"
    /\ \E k \in sweep[p] :
        /\ sweep' = [sweep EXCEPT ![p] = @ \ {k}]
        /\ robbed' = IF LiveLease(items[k]) THEN robbed \cup {k} ELSE robbed
        /\ \/ items' = [items EXCEPT ![k] = Unleased(@)]
           \/ /\ MayBeGone
              /\ items' = [items EXCEPT ![k] =
                            [Unleased(@) EXCEPT !.state = "DROPPED", !.sup = TRUE]]
    /\ UNCHANGED <<ledger, arrived, pc, job, todo, aborted, effects, crashes, overruns>>

ReconcileDone(p) ==
    /\ pc[p] = "sweeping" /\ sweep[p] = {}
    /\ todo' = [todo EXCEPT ![p] = Inbox]
    /\ pc' = [pc EXCEPT ![p] = "ready"]
    /\ UNCHANGED <<items, ledger, arrived, job, sweep, aborted, effects, robbed,
                   crashes, overruns>>

-----------------------------------------------------------------------------
(* Claims.                                                                 *)

(* claim_event lets the claimant proceed: a new id, an expired claim, or   *)
(* its own.                                                                *)
Claimable_OwnerOnly(e, owner) ==
    \/ ledger[e].st = "absent"
    \/ ledger[e].st = "processing" /\ ledger[e].owner = owner

Claimable_FromTheLiving(e, owner) ==
    ledger[e].st \in {"absent", "processing"}

Claimable(e, owner) ==
    \/ ledger[e].st = "absent"
    \/ ledger[e].st = "processing" /\ (~ledger[e].live \/ ledger[e].owner = owner)

Claim(p, e, role) ==
    /\ Claimable(e, <<p, role>>)
    /\ ledger' = [ledger EXCEPT ![e] =
                    [st |-> "processing", owner |-> <<p, role>>, live |-> TRUE]]
    /\ arrived' = IF ledger[e].st = "absent" THEN Append(arrived, e) ELSE arrived
    /\ job' = [job EXCEPT ![p] = [NoJob EXCEPT !.ev = e, !.role = role]]
    /\ pc' = [pc EXCEPT ![p] = "claimed"]

(* ingest: a delivery, first or repeated, of a tracked event.              *)
Ingest(p, e) ==
    /\ pc[p] = "ready" /\ todo[p] = {}
    /\ e \in Tracked
    /\ Claim(p, e, "ingest")
    /\ UNCHANGED <<items, todo, sweep, aborted, effects, robbed, crashes, overruns>>

(* tick: list_processing_events.                                           *)
Tick(p) ==
    /\ pc[p] = "ready" /\ todo[p] = {} /\ Inbox # {}
    /\ todo' = [todo EXCEPT ![p] = Inbox]
    /\ UNCHANGED <<items, ledger, arrived, pc, job, sweep, aborted, effects,
                   robbed, crashes, overruns>>

FlagLegacy(e) ==
    ledger' = IF ledger[e].st = "processing"
              THEN [ledger EXCEPT ![e] = [Unclaimed EXCEPT !.st = "legacy"]]
              ELSE ledger

(* recover_pending: the next row of the list.                              *)
RecoverNext(p) ==
    /\ pc[p] = "ready"
    /\ \E e \in todo[p] :
        /\ \A f \in todo[p] : NotAfter(e, f)
        /\ todo' = [todo EXCEPT ![p] = @ \ {e}]
        /\ \/ /\ e \notin Tracked
              /\ UNCHANGED <<ledger, arrived, pc, job>>
           \/ /\ e \in Tracked \cap Legacy
              /\ FlagLegacy(e)
              /\ UNCHANGED <<arrived, pc, job>>
           \/ /\ e \in Tracked \ Legacy
              /\ Claim(p, e, "recovery")
           \/ /\ e \in Tracked \ Legacy /\ ~Claimable(e, <<p, "recovery">>)
              /\ UNCHANGED <<ledger, arrived, pc, job>>
    /\ UNCHANGED <<items, sweep, aborted, effects, robbed, crashes, overruns>>

-----------------------------------------------------------------------------
(* _process_claimed.                                                       *)

(* supersede_stale: every active row of another head is cancelled; the     *)
(* lease is retained.                                                      *)
SupersedeStale(p) ==
    /\ pc[p] = "claimed"
    /\ items' = [k \in Keys |->
                    IF /\ PrOf[k] = PrOf[Key(p)] /\ HeadOf[k] # HeadOf[Key(p)]
                       /\ Active(items[k])
                    THEN [items[k] EXCEPT !.sup = TRUE, !.cancel = TRUE]
                    ELSE items[k]]
    /\ pc' = [pc EXCEPT ![p] = "routing"]
    /\ UNCHANGED <<ledger, arrived, job, todo, sweep, aborted, effects, robbed,
                   crashes, overruns>>

Goal_AutoMerges(state, kind) ==
    CASE state \in Terminal -> "none"
      [] state = "FIXING" -> "resume"
      [] state \notin Terminal \cup {"FIXING"} /\ kind = "approved" -> "MERGED"
      [] state \notin Terminal \cup {"FIXING"} /\ kind = "changes" -> "FIXING"
      [] OTHER -> "none"

(* What the event asks for in the state its row is in.                     *)
Goal(state, kind) ==
    CASE state \in Terminal \cup {"MERGE_ELIGIBLE"} -> "none"
      [] state = "FIXING" -> "resume"
      [] state # "FIXING" /\ kind = "approved" -> "MERGE_ELIGIBLE"
      [] state # "FIXING" /\ kind = "changes" -> "FIXING"
      [] OTHER -> "none"

(* ensure_row, then the dispatch on get_state.                             *)
Route(p) ==
    /\ pc[p] = "routing"
    /\ items' = [items EXCEPT ![Key(p)] = Ensured(@)]
    /\ LET goal == Goal(Ensured(Row(p)).state, KindOf[job[p].ev]) IN
        /\ job' = [job EXCEPT ![p].goal = goal]
        /\ pc' = [pc EXCEPT ![p] = IF goal = "none" THEN "applying" ELSE "acquiring"]
    /\ UNCHANGED <<ledger, arrived, todo, sweep, aborted, effects, robbed,
                   crashes, overruns>>

AfterAcquire(p) ==
    CASE job[p].goal = "MERGE_ELIGIBLE" -> "committing"
      [] job[p].goal = "FIXING" /\ p \in DryRun -> "applying"
      [] job[p].goal = "FIXING" /\ p \notin DryRun -> "beginning"
      [] OTHER -> "executing"

Won_ReclaimKeepsFence(r, p) ==
    [r EXCEPT !.owner = p, !.live = TRUE,
              !.fence = IF r.owner = None THEN @ + 1 ELSE @,
              !.cancel = FALSE, !.rerun = FALSE]

(* The row once its lease is taken: a new generation.                      *)
Won(r, p) ==
    [r EXCEPT !.owner = p, !.live = TRUE, !.fence = @ + 1,
              !.cancel = FALSE, !.rerun = FALSE]

Contended_Applied(r) == "applying"

(* _handle_lease_contention: only a superseded row settles its event.      *)
Contended(r) == IF r.sup THEN "applying" ELSE "expiring"

(* acquire, and the branch on its answer.                                  *)
Acquire(p) ==
    /\ pc[p] = "acquiring"
    /\ LET k == Key(p) IN
        \/ /\ Row(p).sup
           /\ pc' = [pc EXCEPT ![p] = Contended(Row(p))]
           /\ UNCHANGED <<items, job>>
        \/ /\ ~Row(p).sup /\ Busy(k)
           /\ items' = [items EXCEPT ![k].rerun = TRUE]
           /\ pc' = [pc EXCEPT ![p] = Contended(Row(p))]
           /\ UNCHANGED job
        \/ /\ ~Row(p).sup /\ ~Busy(k) /\ LiveLease(Row(p))
           /\ pc' = [pc EXCEPT ![p] = Contended(Row(p))]
           /\ UNCHANGED <<items, job>>
        \/ /\ ~Row(p).sup /\ ~Busy(k) /\ ~LiveLease(Row(p))
           /\ items' = [items EXCEPT ![k] = Won(@, p)]
           /\ job' = [job EXCEPT ![p].fence = Won(Row(p), p).fence]
           /\ pc' = [pc EXCEPT ![p] = AfterAcquire(p)]
    /\ UNCHANGED <<ledger, arrived, todo, sweep, aborted, effects, robbed,
                   crashes, overruns>>

(* expire_processing_claim of a coalesced event.                           *)
ExpireClaim(p) ==
    /\ pc[p] = "expiring"
    /\ ledger' = IF ledger[job[p].ev].st = "processing"
                 THEN [ledger EXCEPT ![job[p].ev].live = FALSE] ELSE ledger
    /\ job' = [job EXCEPT ![p] = NoJob]
    /\ pc' = [pc EXCEPT ![p] = "ready"]
    /\ UNCHANGED <<items, arrived, todo, sweep, aborted, effects, robbed,
                   crashes, overruns>>

(* An IllegalTransition: the lease is released and the exception leaves    *)
(* the process.                                                            *)
Raise(p) ==
    /\ job' = [job EXCEPT ![p].err = TRUE]
    /\ pc' = [pc EXCEPT ![p] = "releasing"]

RoundDecision(attempt) == IF attempt >= MaxRounds THEN "ESCALATED" ELSE "FIXING"

(* begin_fix_round: count the attempt and move, in one transaction.        *)
BeginFixRound(p) ==
    /\ pc[p] = "beginning"
    /\ LET attempt == Row(p).attempt + 1
           to == RoundDecision(attempt)
           ok == ~Row(p).sup /\ Row(p).state = "AWAIT_REVIEW" /\ HoldsLease(p) IN
        \/ /\ ok
           /\ items' = [items EXCEPT ![Key(p)].attempt = attempt,
                                     ![Key(p)].state = to]
           /\ pc' = [pc EXCEPT ![p] =
                        IF to = "ESCALATED" THEN "applying" ELSE "executing"]
           /\ effects' = [effects EXCEPT ![job[p].ev] =
                        IF to = "ESCALATED" THEN @ + 1 ELSE @]
           /\ UNCHANGED job
        \/ /\ ~ok
           /\ Raise(p)
           /\ UNCHANGED <<items, effects>>
    /\ UNCHANGED <<ledger, arrived, todo, sweep, aborted, robbed, crashes,
                   overruns>>

(* fence_ok of an exported patch.                                          *)
FenceOk(p) == ~Row(p).sup /\ Row(p).fence = job[p].fence

ExecutorStubbed(p) ==
    /\ pc[p] = "executing" /\ "stub" \in Outcomes
    /\ job' = [job EXCEPT ![p].goal = "ESCALATED"]
    /\ pc' = [pc EXCEPT ![p] = "committing"]
    /\ UNCHANGED <<items, ledger, arrived, todo, sweep, aborted, effects,
                   robbed, crashes, overruns>>

(* ExecutorCancelled, which the poller takes at its word: "quits" is an    *)
(* executor that raises it of its own accord, "cancelled" one that raises  *)
(* it only when the row's durable flag asks it to stop.                    *)
(* acknowledge_cancellation names the key only.                            *)
ExecutorCancelled(p) ==
    /\ pc[p] = "executing"
    /\ \/ "quits" \in Outcomes
       \/ "cancelled" \in Outcomes /\ (Row(p).cancel \/ Row(p).sup)
    /\ items' = [items EXCEPT ![Key(p)] = [Unleased(@) EXCEPT !.cancel = FALSE]]
    /\ pc' = [pc EXCEPT ![p] = "applying"]
    /\ UNCHANGED <<ledger, arrived, job, todo, sweep, aborted, effects, robbed,
                   crashes, overruns>>

(* A patch is exported; fence_ok lets it through or discards it.           *)
ExecutorPatched(p) ==
    /\ pc[p] = "executing" /\ "patch" \in Outcomes
    /\ IF FenceOk(p)
       THEN /\ job' = [job EXCEPT ![p].goal = "AWAIT_REVIEW"]
            /\ pc' = [pc EXCEPT ![p] = "committing"]
       ELSE /\ pc' = [pc EXCEPT ![p] = "applying"]
            /\ UNCHANGED job
    /\ UNCHANGED <<items, ledger, arrived, todo, sweep, aborted, effects,
                   robbed, crashes, overruns>>

ExecutorRaises(p) ==
    /\ pc[p] = "executing" /\ "raises" \in Outcomes /\ crashes < MaxCrashes
    /\ crashes' = crashes + 1
    /\ Raise(p)
    /\ UNCHANGED <<items, ledger, arrived, todo, sweep, aborted, effects,
                   robbed, overruns>>

Folded_Unapplied(e) == ledger

(* The applied marker that transition_and_apply writes with the state.     *)
Folded(e) == Applied(e)

(* transition_and_apply, fenced by owner, expiry and generation.           *)
TransitionAndApply(p) ==
    /\ pc[p] = "committing"
    /\ LET ok == /\ ~Row(p).sup /\ CanMove(Row(p).state, job[p].goal)
                 /\ HoldsLease(p) IN
        \/ /\ ok
           /\ items' = [items EXCEPT ![Key(p)].state = job[p].goal]
           /\ ledger' = Folded(job[p].ev)
           /\ effects' = [effects EXCEPT ![job[p].ev] = @ + 1]
           /\ pc' = [pc EXCEPT ![p] = "releasing"]
           /\ UNCHANGED job
        \/ /\ ~ok
           /\ Raise(p)
           /\ UNCHANGED <<items, ledger, effects>>
    /\ UNCHANGED <<arrived, todo, sweep, aborted, robbed, crashes, overruns>>

(* mark_event_applied, for the paths that fold nothing.                    *)
Apply(p) ==
    /\ pc[p] = "applying"
    /\ ledger' = Applied(job[p].ev)
    /\ IF job[p].fence = 0
       THEN /\ pc' = [pc EXCEPT ![p] = "ready"]
            /\ job' = [job EXCEPT ![p] = NoJob]
       ELSE /\ pc' = [pc EXCEPT ![p] = "releasing"]
            /\ UNCHANGED job
    /\ UNCHANGED <<items, arrived, todo, sweep, aborted, effects, robbed,
                   crashes, overruns>>

(* release, fenced by owner and generation.                                *)
Release(p) ==
    /\ pc[p] = "releasing"
    /\ items' = IF Row(p).owner = p /\ Row(p).fence = job[p].fence
                THEN [items EXCEPT ![Key(p)] = Unleased(@)] ELSE items
    /\ pc' = [pc EXCEPT ![p] = IF job[p].err THEN "down" ELSE "ready"]
    /\ todo' = [todo EXCEPT ![p] = IF job[p].err THEN {} ELSE @]
    /\ job' = [job EXCEPT ![p] = NoJob]
    /\ UNCHANGED <<ledger, arrived, sweep, aborted, effects, robbed, crashes,
                   overruns>>

-----------------------------------------------------------------------------
(* The environment: crashes, time and the operator.                        *)

Crash(p) ==
    /\ pc[p] # "down" /\ crashes < MaxCrashes
    /\ crashes' = crashes + 1
    /\ pc' = [pc EXCEPT ![p] = "down"]
    /\ job' = [job EXCEPT ![p] = NoJob]
    /\ todo' = [todo EXCEPT ![p] = {}]
    /\ sweep' = [sweep EXCEPT ![p] = {}]
    /\ UNCHANGED <<items, ledger, arrived, aborted, effects, robbed, overruns>>

(* p drives the event its claim is on.                                     *)
Driving(p, e) ==
    /\ job[p].ev = e
    /\ pc[p] \in {"claimed", "routing", "acquiring", "expiring", "beginning",
                  "executing", "committing", "applying"}

(* p is between acquire and release on the row.                            *)
Holding(p, k) ==
    /\ job[p].ev # None /\ Key(p) = k /\ job[p].fence # 0
    /\ pc[p] \in {"beginning", "executing", "committing", "applying", "releasing"}

LeaseAbandoned(k) ==
    ~\E p \in Pollers : Holding(p, k) /\ HoldsLease(p)

ClaimAbandoned(e) ==
    ~\E p \in Pollers : Driving(p, e) /\ ledger[e].owner = <<p, job[p].role>>

(* A lease runs out; under a holder that still runs, at most MaxOverruns   *)
(* times.                                                                  *)
LeaseExpires(k) ==
    /\ LiveLease(items[k])
    /\ \/ LeaseAbandoned(k) /\ UNCHANGED overruns
       \/ /\ ~LeaseAbandoned(k) /\ overruns < MaxOverruns
          /\ overruns' = overruns + 1
    /\ items' = [items EXCEPT ![k].live = FALSE]
    /\ UNCHANGED <<ledger, arrived, pc, job, todo, sweep, aborted, effects,
                   robbed, crashes>>

ClaimExpires(e) ==
    /\ ledger[e].live
    /\ \/ ClaimAbandoned(e) /\ UNCHANGED overruns
       \/ /\ ~ClaimAbandoned(e) /\ overruns < MaxOverruns
          /\ overruns' = overruns + 1
    /\ ledger' = [ledger EXCEPT ![e].live = FALSE]
    /\ UNCHANGED <<items, arrived, pc, job, todo, sweep, aborted, effects,
                   robbed, crashes>>

(* request_cancellation, once per row.                                     *)
RequestCancellation(k) ==
    /\ k \in Abortable \ aborted
    /\ items[k].state \notin Terminal \cup {"NONE"}
    /\ aborted' = aborted \cup {k}
    /\ items' = [items EXCEPT ![k].cancel = TRUE]
    /\ UNCHANGED <<ledger, arrived, pc, job, todo, sweep, effects, robbed,
                   crashes, overruns>>

-----------------------------------------------------------------------------
Step(p) ==
    \/ Restart(p) \/ ListExpired(p) \/ ReconcileOne(p) \/ ReconcileDone(p)
    \/ Tick(p) \/ RecoverNext(p)
    \/ SupersedeStale(p) \/ Route(p) \/ Acquire(p) \/ ExpireClaim(p)
    \/ BeginFixRound(p)
    \/ ExecutorStubbed(p) \/ ExecutorCancelled(p) \/ ExecutorPatched(p)
    \/ ExecutorRaises(p)
    \/ TransitionAndApply(p) \/ Apply(p) \/ Release(p)

Next ==
    \/ \E p \in Pollers : Step(p) \/ Crash(p)
    \/ \E p \in Pollers, e \in Events : Ingest(p, e)
    \/ \E k \in Keys : LeaseExpires(k) \/ RequestCancellation(k)
    \/ \E e \in Events : ClaimExpires(e)

Spec == Init /\ [][Next]_vars

(* run_poll_loop keeps ticking, a crashed process is started again by the  *)
(* deployment, and time passes.                                            *)
Fairness ==
    /\ \A p \in Pollers : WF_vars(Step(p))
    /\ \A k \in Keys : WF_vars(LeaseExpires(k) /\ LeaseAbandoned(k))
    /\ \A e \in Events : WF_vars(ClaimExpires(e) /\ ClaimAbandoned(e))

FairSpec == Spec /\ Fairness

-----------------------------------------------------------------------------
(* Properties.                                                             *)

States == {"NONE", "AWAIT_REVIEW", "FIXING", "MERGE_ELIGIBLE", "ESCALATED", "DROPPED"}

Rows == [state : States, sup : BOOLEAN, cancel : BOOLEAN, rerun : BOOLEAN,
         owner : Pollers \cup {None}, live : BOOLEAN, fence : Nat, attempt : Nat]

Roles == {"ingest", "recovery"}

Claims == [st : {"absent", "processing", "applied", "legacy"},
           owner : (Pollers \X Roles) \cup {None}, live : BOOLEAN]

Jobs == [ev : Events \cup {None}, role : Roles, fence : Nat, err : BOOLEAN,
         goal : {"none", "resume", "MERGE_ELIGIBLE", "FIXING", "ESCALATED",
                 "AWAIT_REVIEW"}]

(* Shape of the state; the human-gate wall is part of it: the poller never *)
(* takes a row to HUMAN_GATE, MERGED or HELD (_TRANSITIONS).               *)
TypeOK ==
    /\ items \in [Keys -> Rows] /\ ledger \in [Events -> Claims]
    /\ arrived \in Seq(Events)
    /\ pc \in [Pollers -> {"down", "listing", "sweeping", "ready", "claimed",
                           "routing", "acquiring", "expiring", "beginning",
                           "executing", "committing", "applying", "releasing"}]
    /\ job \in [Pollers -> Jobs]
    /\ todo \in [Pollers -> SUBSET Events] /\ sweep \in [Pollers -> SUBSET Keys]
    /\ aborted \subseteq Keys /\ robbed \subseteq Keys /\ effects \in [Events -> Nat]
    /\ crashes \in Nat /\ overruns \in Nat

(* The process is between acquire and the end of its fix or approval.      *)
InFlight(p) ==
    job[p].ev # None /\ pc[p] \in {"beginning", "executing", "committing"}

(* At most one process drives the active rows of a pull request, whatever  *)
(* crashes, redeliveries, cancellations and restarts do (the CAS of        *)
(* acquire, the fenced release), as long as no lease runs out under a      *)
(* running holder and no sweep has cleared a live lease of that pull       *)
(* request.  Without the second condition it is false: see ReconcileOne.   *)
OneFixPerPR ==
    overruns = 0 =>
    \A p, q \in Pollers :
        /\ InFlight(p) /\ Active(Row(p))
        /\ InFlight(q) /\ Active(Row(q))
        /\ PrOf[Key(p)] = PrOf[Key(q)]
        /\ \A k \in robbed : PrOf[k] # PrOf[Key(p)]
        => p = q

(* Two processes that both believe they hold one row carry different       *)
(* fences, so the stale one can be told apart even when owners repeat.     *)
GenerationsDiffer ==
    \A p, q \in Pollers : \A k \in Keys :
        Holding(p, k) /\ Holding(q, k) /\ job[p].fence = job[q].fence => p = q

(* No crash and no redelivery counts a round of its own: a row has begun   *)
(* at most as many fix rounds as events arrived for it, so it escalates no *)
(* earlier than they ask for (begin_fix_round, _resume_fix, "so the        *)
(* counter is never inflated"), as long as no lease runs out under a       *)
(* running holder.  The count takes in events of every kind: after a crash *)
(* an approval of the same row resumes the fix and is applied with it, and *)
(* the change request then begins another round.                           *)
RoundsAskedFor ==
    overruns = 0 =>
    \A k \in Keys :
        items[k].attempt <=
            Cardinality({e \in Events : KeyOf[e] = k /\ ledger[e].st # "absent"})

(* An event commits at most one final transition, across crashes,          *)
(* redeliveries and recovery passes, as long as no lease runs out under a  *)
(* running holder (claim_event, transition_and_apply).                     *)
ExactlyOnce == overruns = 0 => \A e \in Events : effects[e] <= 1

(* An event that asks for work and is marked applied either committed its  *)
(* transition, or its row is settled, superseded or cancelled by the       *)
(* operator: contention and crashes lose no work                           *)
(* (_handle_lease_contention), unless the executor quits unasked.          *)
NoLostWork ==
    overruns = 0 /\ "quits" \notin Outcomes =>
    \A e \in Events :
        LET r == items[KeyOf[e]] IN
        /\ ledger[e].st = "applied"
        /\ KindOf[e] # "other"
        /\ effects[e] = 0
        => r.sup \/ r.state \in Terminal \cup {"MERGE_ELIGIBLE"}
           \/ KeyOf[e] \in aborted

(* No external redelivery is needed: every event in the durable inbox of a *)
(* tracked pull request leaves it (recover_pending, tick).                 *)
InboxDrains ==
    \A e \in Tracked : ledger[e].st = "processing" ~> ledger[e].st # "processing"

(* A row is superseded only because an event of a newer head arrived: "a   *)
(* stale-head event is a different row and never acts on the current head" *)
(* (Event).                                                                *)
StaleHeadHarmless ==
    \A k \in Keys :
        items[k].sup /\ items[k].state # "DROPPED" =>
        \E e \in Events : /\ PrOf[KeyOf[e]] = PrOf[k]
                          /\ HeadOf[KeyOf[e]] > HeadOf[k]
                          /\ ledger[e].st # "absent"
=============================================================================
