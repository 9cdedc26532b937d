-------------------------- MODULE AgentStoreProofs --------------------------
(***************************************************************************)
(* The promises of the agent store, for any processes, events, work items, *)
(* round caps and numbers of crashes and of leases that expire.  A step    *)
(* touches the rows in one of two ways: it keeps every generation and      *)
(* occupies no row, or it is the winning compare-and-swap of acquire.      *)
(* Everything about leases and fences follows from that.                   *)
(***************************************************************************)
EXTENDS AgentStore, FiniteSetTheorems, SequenceTheorems, TLAPS

USE ShapeAssumption, BoundAssumption, NoneAssumption
    DEF ShapeAssumption, BoundAssumption, NoneAssumption

\* A process that has claimed an event and not yet let go of it.
Busily == {"claimed", "routing", "acquiring", "expiring", "beginning",
           "executing", "committing", "applying", "releasing"}

\* It still has to settle the event.
Driven == Busily \ {"releasing"}

\* What the handlers read of the row and the event they work on.
WorkInv ==
    /\ \A p \in Pollers : pc[p] \in Busily => job[p].ev \in Events
    /\ \A p \in Pollers : pc[p] = "acquiring" => Row(p).state # "NONE"
    /\ \A k \in Keys : items[k].state = "NONE" => items[k].owner = None

\* A process carries a generation of its row that was handed out to it alone.
FenceInv ==
    /\ \A p \in Pollers : job[p].ev \in Events => job[p].fence <= Row(p).fence
    /\ \A p, q \in Pollers :
           /\ p # q /\ job[p].ev \in Events /\ job[q].ev \in Events
           /\ Key(p) = Key(q) /\ job[p].fence = job[q].fence
           => job[p].fence = 0

\* As long as no lease ran out under its holder, a driver has the claim on its
\* event to itself, and a committed event can commit no more.
OnceInv ==
    overruns = 0 =>
    /\ \A p \in Pollers, e \in Events :
           Driving(p, e) => \/ ledger[e].st = "legacy"
                            \/ /\ ledger[e].st = "processing" /\ ledger[e].live
                               /\ ledger[e].owner = <<p, job[p].role>>
    /\ \A p, q \in Pollers : \A e \in Events : Driving(p, e) /\ Driving(q, e) => p = q
    /\ \A e \in Events : /\ effects[e] <= 1
                         /\ effects[e] = 1 => \/ ledger[e].st = "applied"
                                              \/ items[KeyOf[e]].state \in Terminal

\* The row of an event wants no more work.
Settled(k) ==
    \/ items[k].sup
    \/ items[k].state \in Terminal \cup {"MERGE_ELIGIBLE"}
    \/ k \in aborted

\* An event that asks for work is answered before it is marked applied.
Answered(e) == KindOf[e] = "other" \/ Settled(KeyOf[e]) \/ effects[e] # 0

WorkKeptInv ==
    /\ \A k \in Keys : items[k].cancel => items[k].sup \/ k \in aborted
    /\ \A p \in Pollers : pc[p] = "applying" => Answered(job[p].ev)
    /\ \A e \in Events : ledger[e].st = "applied" => Answered(e)

-----------------------------------------------------------------------------
(* Shapes of rows, jobs and the ledger.                                    *)

\* What the store writes into a row is a row.
LEMMA RowShapes ==
    ASSUME NEW r \in Rows
    PROVE  /\ Unleased(r) \in Rows /\ Ensured(r) \in Rows
           /\ \A p \in Pollers : Won(r, p) \in Rows
           /\ [Unleased(r) EXCEPT !.cancel = FALSE] \in Rows
           /\ [Unleased(r) EXCEPT !.state = "DROPPED", !.sup = TRUE] \in Rows
           /\ [r EXCEPT !.sup = TRUE, !.cancel = TRUE] \in Rows
           /\ [r EXCEPT !.rerun = TRUE] \in Rows
           /\ [r EXCEPT !.cancel = TRUE] \in Rows
           /\ [r EXCEPT !.live = FALSE] \in Rows
           /\ \A s \in States : [r EXCEPT !.state = s] \in Rows
           /\ \A n \in Nat, s \in States : [r EXCEPT !.attempt = n, !.state = s] \in Rows
  <1>a. Unleased(r) \in Rows /\ Ensured(r) \in Rows
    BY DEF Unleased, Ensured, Rows, States
  <1>b. r.fence \in Nat
    BY DEF Rows
  <1>c. ASSUME NEW p \in Pollers PROVE Won(r, p) \in Rows
    <2> DEFINE n == r.fence + 1
    <2>1. n \in Nat
      BY <1>b
    <2> HIDE DEF n
    <2>2. [r EXCEPT !.owner = p, !.live = TRUE, !.fence = n,
                    !.cancel = FALSE, !.rerun = FALSE] \in Rows
      BY <2>1 DEF Rows
    <2>3. QED  BY <2>2, Zenon DEF Won, n
  <1>2. /\ [Unleased(r) EXCEPT !.cancel = FALSE] \in Rows
        /\ [Unleased(r) EXCEPT !.state = "DROPPED", !.sup = TRUE] \in Rows
    BY <1>a DEF Rows, States
  <1>3. /\ [r EXCEPT !.sup = TRUE, !.cancel = TRUE] \in Rows
        /\ [r EXCEPT !.rerun = TRUE] \in Rows
        /\ [r EXCEPT !.cancel = TRUE] \in Rows
        /\ [r EXCEPT !.live = FALSE] \in Rows
        /\ \A s \in States : [r EXCEPT !.state = s] \in Rows
        /\ \A n \in Nat, s \in States : [r EXCEPT !.attempt = n, !.state = s] \in Rows
    BY DEF Rows, States
  <1>4. QED  BY <1>a, <1>c, <1>2, <1>3

\* What a process writes into its job is a job.
LEMMA JobShapes ==
    ASSUME NEW j \in Jobs
    PROVE  /\ NoJob \in Jobs
           /\ \A e \in Events, r \in Roles : [NoJob EXCEPT !.ev = e, !.role = r] \in Jobs
           /\ [j EXCEPT !.err = TRUE] \in Jobs
           /\ \A n \in Nat : [j EXCEPT !.fence = n] \in Jobs
           /\ \A g \in {"none", "resume", "MERGE_ELIGIBLE", "FIXING", "ESCALATED",
                        "AWAIT_REVIEW"} : [j EXCEPT !.goal = g] \in Jobs
  BY DEF NoJob, Jobs, Roles

\* What a transaction writes into the ledger is an entry.
LEMMA ClaimShapes ==
    ASSUME NEW c \in Claims
    PROVE  /\ Unclaimed \in Claims
           /\ [Unclaimed EXCEPT !.st = "processing"] \in Claims
           /\ [Unclaimed EXCEPT !.st = "legacy"] \in Claims
           /\ [c EXCEPT !.live = FALSE] \in Claims
           /\ [st |-> "applied", owner |-> None, live |-> FALSE] \in Claims
           /\ \A p \in Pollers, r \in Roles :
                  [st |-> "processing", owner |-> <<p, r>>, live |-> TRUE] \in Claims
  BY DEF Unclaimed, Claims

\* The event asks for one of these, in whatever state its row is.
LEMMA GoalShapes ==
    ASSUME NEW s, NEW k \in {"approved", "changes", "other"}
    PROVE  Goal(s, k) \in {"none", "resume", "MERGE_ELIGIBLE", "FIXING"}
  BY DEF Goal

\* An allowed transition ends in a state the poller may write.
LEMMA MoveShapes ==
    ASSUME NEW s, NEW g \in {"none", "resume", "MERGE_ELIGIBLE", "FIXING", "ESCALATED",
                             "AWAIT_REVIEW"}, CanMove(s, g)
    PROVE  s \notin Terminal /\ g \in States /\ g # "NONE"
  BY DEF CanMove, PollerEdges, States

-----------------------------------------------------------------------------
(* Types.                                                                  *)

\* The type invariant, and what the handlers rely on.
TypeInv == TypeOK /\ WorkInv

\* The keys and rows that a process works on.
LEMMA WorkShapes ==
    ASSUME TypeInv, NEW p \in Pollers
    PROVE  /\ job[p] \in Jobs
           /\ pc[p] \in Busily => /\ job[p].ev \in Events /\ Key(p) \in Keys
                                  /\ KindOf[job[p].ev] \in {"approved", "changes", "other"}
                                  /\ Row(p) \in Rows
  BY DEF TypeInv, TypeOK, WorkInv, Key, Row

\* The types of the first state.
LEMMA InitTypes == Init => TypeInv
  <1> SUFFICES ASSUME Init PROVE TypeInv
    OBVIOUS
  <1> USE DEF Init
  <1>1. NoRow \in Rows /\ NoRow.state = "NONE" /\ NoRow.owner = None
    BY DEF NoRow, Rows, States
  <1>2. /\ Unclaimed \in Claims /\ [Unclaimed EXCEPT !.st = "processing"] \in Claims
    BY DEF Unclaimed, Claims
  <1>3. NoJob \in Jobs
    BY DEF NoJob, Jobs, Roles
  <1>4. arrived \in Seq(Events)
    <2>1. Cardinality(Legacy) \in Nat
      BY FS_CardinalityType
    <2>2. arrived \in [1..Cardinality(Legacy) -> Events]
      OBVIOUS
    <2>3. [1..Cardinality(Legacy) -> Events] \in {[1..n -> Events] : n \in Nat}
      BY <2>1
    <2>4. arrived \in UNION {[1..n -> Events] : n \in Nat}
      BY <2>2, <2>3, Zenon
    <2>5. Seq(Events) = UNION {[1..n -> Events] : n \in Nat}
      BY SeqDef, Zenon
    <2>6. QED  BY <2>4, <2>5, Zenon
  <1>5. items \in [Keys -> Rows] /\ \A k \in Keys : items[k] = NoRow
    BY <1>1
  <1>6. ledger \in [Events -> Claims]
    BY <1>2
  <1>7. job \in [Pollers -> Jobs]
    BY <1>3
  <1>8. TypeOK
    BY <1>4, <1>5, <1>6, <1>7 DEF TypeOK
  <1>9. WorkInv
    BY <1>1, <1>5 DEF WorkInv, Busily
  <1>10. QED  BY <1>8, <1>9 DEF TypeInv

-----------------------------------------------------------------------------
(* What a step may do to a row.                                            *)

\* The settled facts of a row stay settled.
Kept(r, s) ==
    /\ r.state # "NONE" => s.state # "NONE"
    /\ r.state \in Terminal => s.state \in Terminal
    /\ r.state = "MERGE_ELIGIBLE" => s.state \in Terminal \cup {"MERGE_ELIGIBLE"}
    /\ r.sup => s.sup

\* And no lease is handed out.
Tame(r, s) ==
    /\ Kept(r, s)
    /\ s.fence = r.fence
    /\ s.state = "NONE" /\ r.owner = None => s.owner = None
    /\ Active(s) /\ LiveLease(s) => Active(r) /\ LiveLease(r)

\* Every write but that of acquire is tame.
LEMMA TameWrites ==
    ASSUME NEW r \in Rows, r.state = "NONE" => r.owner = None
    PROVE  /\ Tame(r, r) /\ Tame(r, Unleased(r)) /\ Tame(r, Ensured(r))
           /\ Tame(r, [Unleased(r) EXCEPT !.cancel = FALSE])
           /\ Tame(r, [Unleased(r) EXCEPT !.state = "DROPPED", !.sup = TRUE])
           /\ Tame(r, [r EXCEPT !.sup = TRUE, !.cancel = TRUE])
           /\ Tame(r, [r EXCEPT !.rerun = TRUE])
           /\ Tame(r, [r EXCEPT !.cancel = TRUE])
           /\ Tame(r, [r EXCEPT !.live = FALSE])
  <1> USE DEF Tame, Kept, Active, LiveLease, Terminal
  <1>1. Tame(r, r)
    OBVIOUS
  <1>2. Tame(r, Unleased(r)) /\ Tame(r, [Unleased(r) EXCEPT !.cancel = FALSE])
    BY DEF Unleased, Rows
  <1>3. Tame(r, Ensured(r))
    BY DEF Ensured, Rows
  <1>4. Tame(r, [Unleased(r) EXCEPT !.state = "DROPPED", !.sup = TRUE])
    BY DEF Unleased, Rows
  <1>5. /\ Tame(r, [r EXCEPT !.sup = TRUE, !.cancel = TRUE])
        /\ Tame(r, [r EXCEPT !.rerun = TRUE])
        /\ Tame(r, [r EXCEPT !.cancel = TRUE])
        /\ Tame(r, [r EXCEPT !.live = FALSE])
    BY DEF Rows
  <1>6. QED  BY <1>1, <1>2, <1>3, <1>4, <1>5

\* A transition is tame, and so is the count of a round.
LEMMA TameMoves ==
    ASSUME NEW r \in Rows
    PROVE  /\ \A s \in States \ {"NONE"} :
                  CanMove(r.state, s) => Tame(r, [r EXCEPT !.state = s])
           /\ r.state = "AWAIT_REVIEW" =>
                  Tame(r, [r EXCEPT !.attempt = r.attempt + 1,
                                    !.state = RoundDecision(r.attempt + 1)])
  <1> USE DEF Tame, Kept, Active, LiveLease, Terminal
  <1>1. ASSUME NEW s \in States \ {"NONE"}, CanMove(r.state, s)
        PROVE  Tame(r, [r EXCEPT !.state = s])
    <2>1. r.state \notin Terminal \cup {"NONE", "MERGE_ELIGIBLE"}
      BY <1>1 DEF CanMove, PollerEdges
    <2>2. QED  BY <1>1, <2>1 DEF Rows
  <1>2. ASSUME r.state = "AWAIT_REVIEW"
        PROVE  Tame(r, [r EXCEPT !.attempt = r.attempt + 1,
                                 !.state = RoundDecision(r.attempt + 1)])
    <2> DEFINE n == r.attempt + 1
    <2>1. r.attempt \in Nat /\ n \in Nat
      BY DEF Rows
    <2>2. RoundDecision(n) \in {"ESCALATED", "FIXING"}
      BY DEF RoundDecision
    <2> HIDE DEF n
    <2>3. Tame(r, [r EXCEPT !.attempt = n, !.state = RoundDecision(n)])
      BY <1>2, <2>1, <2>2 DEF Rows
    <2>4. QED  BY <2>3, Zenon DEF n
  <1>3. QED  BY <1>1, <1>2

\* A step that keeps every generation and hands out no lease.
Tamely == items' \in [Keys -> Rows] /\ \A k \in Keys : Tame(items[k], items'[k])

\* The winning branch of acquire.
Wins(p) ==
    /\ pc[p] = "acquiring"
    /\ ~Row(p).sup /\ ~Busy(Key(p)) /\ ~LiveLease(Row(p))
    /\ items' = [items EXCEPT ![Key(p)] = Won(@, p)]
    /\ job' = [job EXCEPT ![p].fence = Won(Row(p), p).fence]
    /\ pc' = [pc EXCEPT ![p] = AfterAcquire(p)]
    /\ UNCHANGED <<ledger, arrived, todo, sweep, aborted, effects, robbed, crashes,
                   overruns>>

\* The rows a lemma about one row is applied to.
LEMMA EveryRow ==
    ASSUME TypeInv, NEW k \in Keys
    PROVE  /\ items[k] \in Rows
           /\ items[k].state = "NONE" => items[k].owner = None
           /\ Tame(items[k], items[k])
  <1>1. items[k] \in Rows /\ (items[k].state = "NONE" => items[k].owner = None)
    BY DEF TypeInv, TypeOK, WorkInv
  <1>2. QED  BY <1>1, TameWrites

\* A step that leaves the rows alone, or writes one of them tamely.
LEMMA TameUpdate ==
    ASSUME TypeInv
    PROVE  /\ UNCHANGED items => Tamely
           /\ \A k \in Keys : \A s \in Rows :
                  Tame(items[k], s) /\ items' = [items EXCEPT ![k] = s] => Tamely
  <1>1. items \in [Keys -> Rows]
    BY DEF TypeInv, TypeOK
  <1>2. ASSUME UNCHANGED items PROVE Tamely
    BY <1>1, <1>2, EveryRow DEF Tamely
  <1>3. ASSUME NEW k \in Keys, NEW s \in Rows, Tame(items[k], s),
               items' = [items EXCEPT ![k] = s]
        PROVE  Tamely
    <2>1. \A j \in Keys : items'[j] = IF j = k THEN s ELSE items[j]
      BY <1>1, <1>3
    <2>2. items' \in [Keys -> Rows]
      BY <1>1, <1>3
    <2>3. \A j \in Keys : Tame(items[j], items'[j])
      BY <2>1, <1>3, EveryRow
    <2>4. QED  BY <2>2, <2>3 DEF Tamely
  <1>4. QED  BY <1>2, <1>3

\* A step that writes several rows tamely.
LEMMA TameSweep ==
    ASSUME TypeInv, items' \in [Keys -> Rows], NEW f,
           \A k \in Keys : items'[k] = f[k] \/ items'[k] = items[k],
           \A k \in Keys : Tame(items[k], f[k])
    PROVE  Tamely
  <1>1. ASSUME NEW k \in Keys PROVE Tame(items[k], items'[k])
    BY EveryRow
  <1>2. QED  BY <1>1 DEF Tamely

\* The recovery actions and the environment on the rows.
LEMMA RecoveryRows ==
    ASSUME TypeInv
    PROVE  /\ \A p \in Pollers : Restart(p) \/ ListExpired(p) \/ ReconcileOne(p)
                                 \/ ReconcileDone(p) \/ Tick(p) \/ RecoverNext(p)
                                 \/ Crash(p) => Tamely
           /\ \A p \in Pollers, e \in Events : Ingest(p, e) => Tamely
           /\ \A k \in Keys : LeaseExpires(k) \/ RequestCancellation(k) => Tamely
           /\ \A e \in Events : ClaimExpires(e) => Tamely
  <1>1. ASSUME NEW p \in Pollers, Restart(p) PROVE Tamely
    <2> DEFINE f == [k \in Keys |-> [Unleased(items[k]) EXCEPT !.cancel = FALSE]]
    <2>1. \A k \in Keys : f[k] \in Rows /\ Tame(items[k], f[k])
      BY EveryRow, RowShapes, TameWrites
    <2>2. \A k \in Keys : items'[k] = f[k] \/ items'[k] = items[k]
      BY <1>1 DEF Restart
    <2>3. items' \in [Keys -> Rows]
      BY <1>1, <2>1, EveryRow DEF Restart
    <2> HIDE DEF f
    <2>4. QED  BY <2>1, <2>2, <2>3, TameSweep
  <1>2. ASSUME NEW p \in Pollers, ReconcileOne(p) PROVE Tamely
    <2>1. PICK k \in sweep[p] :
             \/ items' = [items EXCEPT ![k] = Unleased(items[k])]
             \/ items' = [items EXCEPT ![k] =
                             [Unleased(items[k]) EXCEPT !.state = "DROPPED", !.sup = TRUE]]
      BY <1>2 DEF ReconcileOne
    <2>2. k \in Keys
      BY DEF TypeInv, TypeOK
    <2>3. /\ Unleased(items[k]) \in Rows /\ Tame(items[k], Unleased(items[k]))
          /\ [Unleased(items[k]) EXCEPT !.state = "DROPPED", !.sup = TRUE] \in Rows
          /\ Tame(items[k], [Unleased(items[k]) EXCEPT !.state = "DROPPED", !.sup = TRUE])
      BY <2>2, EveryRow, RowShapes, TameWrites
    <2>4. QED  BY <2>1, <2>2, <2>3, TameUpdate
  <1>3. ASSUME NEW k \in Keys, LeaseExpires(k) PROVE Tamely
    <2>1. [items[k] EXCEPT !.live = FALSE] \in Rows
          /\ Tame(items[k], [items[k] EXCEPT !.live = FALSE])
      BY EveryRow, RowShapes, TameWrites
    <2>2. items' = [items EXCEPT ![k] = [items[k] EXCEPT !.live = FALSE]]
      BY <1>3 DEF LeaseExpires
    <2>3. QED  BY <2>1, <2>2, TameUpdate
  <1>4. ASSUME NEW k \in Keys, RequestCancellation(k) PROVE Tamely
    <2>1. [items[k] EXCEPT !.cancel = TRUE] \in Rows
          /\ Tame(items[k], [items[k] EXCEPT !.cancel = TRUE])
      BY EveryRow, RowShapes, TameWrites
    <2>2. items' = [items EXCEPT ![k] = [items[k] EXCEPT !.cancel = TRUE]]
      BY <1>4 DEF RequestCancellation
    <2>3. QED  BY <2>1, <2>2, TameUpdate
  <1>5. ASSUME UNCHANGED items PROVE Tamely
    BY <1>5, TameUpdate
  <1>6. QED
    BY <1>1, <1>2, <1>3, <1>4, <1>5
       DEF ListExpired, ReconcileDone, Tick, RecoverNext, Crash, Ingest, ClaimExpires

\* Acquire either keeps the rows tame or wins.
LEMMA AcquireRows ==
    ASSUME TypeInv, NEW p \in Pollers, Acquire(p)
    PROVE  Wins(p) \/ (Tamely /\ UNCHANGED job /\ pc' = [pc EXCEPT ![p] = Contended(Row(p))])
  <1>0. Key(p) \in Keys
    BY WorkShapes DEF Acquire, Busily
  <1>1. CASE Row(p).sup \/ (~Busy(Key(p)) /\ LiveLease(Row(p)))
    <2>1. UNCHANGED <<items, job>> /\ pc' = [pc EXCEPT ![p] = Contended(Row(p))]
      BY <1>1 DEF Acquire
    <2>2. QED  BY <2>1, TameUpdate
  <1>2. CASE ~Row(p).sup /\ Busy(Key(p))
    <2>1. /\ [Row(p) EXCEPT !.rerun = TRUE] \in Rows
          /\ Tame(Row(p), [Row(p) EXCEPT !.rerun = TRUE])
      BY <1>0, EveryRow, RowShapes, TameWrites DEF Row
    <2>2. /\ items' = [items EXCEPT ![Key(p)] = [Row(p) EXCEPT !.rerun = TRUE]]
          /\ UNCHANGED job /\ pc' = [pc EXCEPT ![p] = Contended(Row(p))]
      BY <1>2 DEF Acquire, Row
    <2>3. QED  BY <1>0, <2>1, <2>2, TameUpdate DEF Row
  <1>3. CASE ~Row(p).sup /\ ~Busy(Key(p)) /\ ~LiveLease(Row(p))
    BY <1>3 DEF Acquire, Wins
  <1>4. QED  BY <1>1, <1>2, <1>3

\* The transitions of the work item.
LEMMA TransitionRows ==
    ASSUME TypeInv, NEW p \in Pollers, BeginFixRound(p) \/ TransitionAndApply(p)
    PROVE  Tamely
  <1>0. Key(p) \in Keys /\ Row(p) \in Rows /\ job[p] \in Jobs
    BY WorkShapes DEF BeginFixRound, TransitionAndApply, Busily
  <1>1. CASE UNCHANGED items
    BY <1>1, TameUpdate
  <1>2. ASSUME BeginFixRound(p), Row(p).state = "AWAIT_REVIEW",
               items' = [items EXCEPT ![Key(p)].attempt = Row(p).attempt + 1,
                                      ![Key(p)].state = RoundDecision(Row(p).attempt + 1)]
        PROVE  Tamely
    <2> DEFINE s == [Row(p) EXCEPT !.attempt = Row(p).attempt + 1,
                                   !.state = RoundDecision(Row(p).attempt + 1)]
    <2>1. Row(p).attempt + 1 \in Nat /\ RoundDecision(Row(p).attempt + 1) \in States
      BY <1>0 DEF Rows, RoundDecision, States
    <2>2. s \in Rows
      BY <1>0, <2>1, RowShapes
    <2>3. Tame(Row(p), s)
      BY <1>0, <1>2, TameMoves
    <2>4. items' = [items EXCEPT ![Key(p)] = s]
      BY <1>0, <1>2 DEF TypeInv, TypeOK, Row
    <2> HIDE DEF s
    <2>5. QED  BY <1>0, <2>2, <2>3, <2>4, TameUpdate DEF Row
  <1>3. ASSUME TransitionAndApply(p), CanMove(Row(p).state, job[p].goal),
               items' = [items EXCEPT ![Key(p)].state = job[p].goal]
        PROVE  Tamely
    <2> DEFINE s == [Row(p) EXCEPT !.state = job[p].goal]
    <2>1. job[p].goal \in States \ {"NONE"}
      BY <1>0, <1>3, MoveShapes DEF Jobs
    <2>2. s \in Rows /\ Tame(Row(p), s)
      BY <1>0, <1>3, <2>1, RowShapes, TameMoves
    <2>3. items' = [items EXCEPT ![Key(p)] = s]
      BY <1>3 DEF Row
    <2> HIDE DEF s
    <2>4. QED  BY <1>0, <2>2, <2>3, TameUpdate DEF Row
  <1>4. CASE BeginFixRound(p)
    BY <1>1, <1>2, <1>4 DEF BeginFixRound
  <1>5. CASE TransitionAndApply(p)
    BY <1>1, <1>3, <1>5 DEF TransitionAndApply
  <1>6. QED  BY <1>4, <1>5

\* The other handlers of an event on the rows.
LEMMA HandlerRows ==
    ASSUME TypeInv, NEW p \in Pollers
    PROVE  SupersedeStale(p) \/ Route(p) \/ ExpireClaim(p) \/ ExecutorStubbed(p)
           \/ ExecutorCancelled(p) \/ ExecutorPatched(p) \/ ExecutorRaises(p)
           \/ Apply(p) \/ Release(p) => Tamely
  <1>1. ASSUME SupersedeStale(p) PROVE Tamely
    <2> DEFINE f == [k \in Keys |-> [items[k] EXCEPT !.sup = TRUE, !.cancel = TRUE]]
    <2>1. \A k \in Keys : f[k] \in Rows /\ Tame(items[k], f[k])
      BY EveryRow, RowShapes, TameWrites
    <2>2. \A k \in Keys : items'[k] = f[k] \/ items'[k] = items[k]
      BY <1>1 DEF SupersedeStale
    <2>3. items' \in [Keys -> Rows]
      BY <1>1, <2>1, EveryRow DEF SupersedeStale
    <2> HIDE DEF f
    <2>4. QED  BY <2>1, <2>2, <2>3, TameSweep
  <1>2. ASSUME Route(p) PROVE Tamely
    <2>1. Key(p) \in Keys
      BY <1>2, WorkShapes DEF Route, Busily
    <2>2. Ensured(Row(p)) \in Rows /\ Tame(Row(p), Ensured(Row(p)))
      BY <2>1, EveryRow, RowShapes, TameWrites DEF Row
    <2>3. items' = [items EXCEPT ![Key(p)] = Ensured(Row(p))]
      BY <1>2 DEF Route, Row
    <2>4. QED  BY <2>1, <2>2, <2>3, TameUpdate DEF Row
  <1>3. ASSUME ExecutorCancelled(p) PROVE Tamely
    <2>1. Key(p) \in Keys
      BY <1>3, WorkShapes DEF ExecutorCancelled, Busily
    <2>2. /\ [Unleased(Row(p)) EXCEPT !.cancel = FALSE] \in Rows
          /\ Tame(Row(p), [Unleased(Row(p)) EXCEPT !.cancel = FALSE])
      BY <2>1, EveryRow, RowShapes, TameWrites DEF Row
    <2>3. items' = [items EXCEPT ![Key(p)] = [Unleased(Row(p)) EXCEPT !.cancel = FALSE]]
      BY <1>3 DEF ExecutorCancelled, Row
    <2>4. QED  BY <2>1, <2>2, <2>3, TameUpdate DEF Row
  <1>4. ASSUME Release(p) PROVE Tamely
    <2>1. Key(p) \in Keys
      BY <1>4, WorkShapes DEF Release, Busily
    <2>2. Unleased(Row(p)) \in Rows /\ Tame(Row(p), Unleased(Row(p)))
      BY <2>1, EveryRow, RowShapes, TameWrites DEF Row
    <2>3. UNCHANGED items \/ items' = [items EXCEPT ![Key(p)] = Unleased(Row(p))]
      BY <1>4 DEF Release, Row
    <2>4. QED  BY <2>1, <2>2, <2>3, TameUpdate DEF Row
  <1>5. ASSUME UNCHANGED items PROVE Tamely
    BY <1>5, TameUpdate
  <1>6. QED
    BY <1>1, <1>2, <1>3, <1>4, <1>5
       DEF ExpireClaim, ExecutorStubbed, ExecutorPatched, ExecutorRaises, Apply

\* Every step is tame or a win.
LEMMA RowStep ==
    ASSUME TypeInv, [Next]_vars
    PROVE  Tamely \/ \E p \in Pollers : Wins(p)
  <1>1. ASSUME NEW p \in Pollers, Step(p) \/ Crash(p)
        PROVE  Tamely \/ Wins(p)
    BY <1>1, RecoveryRows, AcquireRows, TransitionRows, HandlerRows DEF Step
  <1>2. CASE UNCHANGED vars
    BY <1>2, TameUpdate DEF vars
  <1>3. QED  BY <1>1, <1>2, RecoveryRows DEF Next

-----------------------------------------------------------------------------
(* What a step may do to the processes.                                    *)

Places == {"down", "listing", "sweeping", "ready", "claimed", "routing", "acquiring",
           "expiring", "beginning", "executing", "committing", "applying", "releasing"}

\* The step is one of p's: it starts on another event with no generation, or
\* goes on with the one it drives.
Proceeds(p) ==
    /\ pc' \in [Pollers -> Places] /\ job' \in [Pollers -> Jobs]
    /\ \A q \in Pollers \ {p} : pc'[q] = pc[q] /\ job'[q] = job[q]
    /\ pc'[p] \in Busily \ {"claimed"} =>
           /\ pc[p] \in Driven
           /\ job'[p].ev = job[p].ev /\ job'[p].role = job[p].role
    /\ pc'[p] = "claimed" => /\ job'[p].ev \in Events
                             /\ \E r \in Roles : Claim(p, job'[p].ev, r)
    /\ pc'[p] = "acquiring" => Route(p)
    /\ \/ job'[p].fence = 0
       \/ job'[p].ev = job[p].ev /\ job'[p].fence = job[p].fence
       \/ Wins(p) /\ job'[p].ev = job[p].ev /\ job'[p].fence = Row(p).fence + 1

\* How the proofs below apply Proceeds to one action.
LEMMA ProceedsAt ==
    ASSUME TypeInv, NEW p \in Pollers, NEW x \in Places, NEW j \in Jobs,
           pc' = [pc EXCEPT ![p] = x], job' = [job EXCEPT ![p] = j],
           x \in Busily \ {"claimed"} =>
               pc[p] \in Driven /\ j.ev = job[p].ev /\ j.role = job[p].role,
           x = "claimed" => j.ev \in Events /\ \E r \in Roles : Claim(p, j.ev, r),
           x = "acquiring" => Route(p),
           \/ j.fence = 0
           \/ j.ev = job[p].ev /\ j.fence = job[p].fence
           \/ Wins(p) /\ j.ev = job[p].ev /\ j.fence = Row(p).fence + 1
    PROVE  Proceeds(p)
  BY DEF Proceeds, TypeInv, TypeOK, Places

\* A step on which no process moves.
LEMMA NoneMoves ==
    ASSUME TypeInv, NEW p \in Pollers, UNCHANGED <<pc, job>>, pc[p] \notin Busily
    PROVE  Proceeds(p)
  <1>1. pc \in [Pollers -> Places] /\ job \in [Pollers -> Jobs]
    BY DEF TypeInv, TypeOK, Places
  <1>2. QED  BY <1>1 DEF Proceeds, Busily

\* The start of a process, its recovery pass and its end.
LEMMA RecoveryMoves ==
    ASSUME TypeInv, NEW p \in Pollers,
           \/ Restart(p) \/ ListExpired(p) \/ ReconcileOne(p) \/ ReconcileDone(p)
           \/ Tick(p) \/ Crash(p)
    PROVE  Proceeds(p)
  <1> USE DEF Busily, Places
  <1>0. job[p] \in Jobs /\ NoJob \in Jobs /\ NoJob.fence = 0 /\ job = [job EXCEPT ![p] = job[p]]
    BY WorkShapes, JobShapes DEF NoJob, TypeInv, TypeOK
  <1>1. CASE Restart(p)
    <2>1. pc' = [pc EXCEPT ![p] = "listing"] /\ job' = [job EXCEPT ![p] = job[p]]
      BY <1>0, <1>1 DEF Restart
    <2>2. QED  BY <1>0, <2>1, ProceedsAt
  <1>2. CASE ListExpired(p)
    <2>1. pc' = [pc EXCEPT ![p] = "sweeping"] /\ job' = [job EXCEPT ![p] = job[p]]
      BY <1>0, <1>2 DEF ListExpired
    <2>2. QED  BY <1>0, <2>1, ProceedsAt
  <1>3. CASE ReconcileOne(p)
    BY <1>3, NoneMoves DEF ReconcileOne
  <1>4. CASE ReconcileDone(p)
    <2>1. pc' = [pc EXCEPT ![p] = "ready"] /\ job' = [job EXCEPT ![p] = job[p]]
      BY <1>0, <1>4 DEF ReconcileDone
    <2>2. QED  BY <1>0, <2>1, ProceedsAt
  <1>5. CASE Tick(p)
    BY <1>5, NoneMoves DEF Tick
  <1>6. CASE Crash(p)
    <2>1. pc' = [pc EXCEPT ![p] = "down"] /\ job' = [job EXCEPT ![p] = NoJob]
      BY <1>6 DEF Crash
    <2>2. QED  BY <1>0, <2>1, ProceedsAt
  <1>7. QED  BY <1>1, <1>2, <1>3, <1>4, <1>5, <1>6

\* The claim of an event, delivered or recovered.
LEMMA ClaimMoves ==
    ASSUME TypeInv, NEW p \in Pollers,
           RecoverNext(p) \/ \E e \in Events : Ingest(p, e)
    PROVE  Proceeds(p)
  <1>1. ASSUME NEW e \in Events, NEW r \in Roles, Claim(p, e, r) PROVE Proceeds(p)
    <2> DEFINE j == [NoJob EXCEPT !.ev = e, !.role = r]
    <2>1. j \in Jobs /\ j.ev = e /\ j.fence = 0
      BY DEF NoJob, Jobs, Roles
    <2>2. pc' = [pc EXCEPT ![p] = "claimed"] /\ job' = [job EXCEPT ![p] = j]
      BY <1>1 DEF Claim
    <2> HIDE DEF j
    <2>3. QED  BY <1>1, <2>1, <2>2, ProceedsAt DEF Places
  <1>2. ASSUME NEW e \in Events, Ingest(p, e) PROVE Proceeds(p)
    BY <1>1, <1>2 DEF Ingest, Roles
  <1>3. ASSUME RecoverNext(p) PROVE Proceeds(p)
    <2>1. PICK e \in todo[p] : Claim(p, e, "recovery") \/ UNCHANGED <<pc, job>>
      BY <1>3 DEF RecoverNext
    <2>2. e \in Events
      BY DEF TypeInv, TypeOK
    <2>3. pc[p] \notin Busily
      BY <1>3 DEF RecoverNext, Busily
    <2>4. QED  BY <1>1, <2>1, <2>2, <2>3, NoneMoves DEF Roles
  <1>4. QED  BY <1>2, <1>3

\* The branches of acquire.
LEMMA AcquireMoves ==
    ASSUME TypeInv, NEW p \in Pollers, Acquire(p)
    PROVE  Proceeds(p)
  <1> USE DEF Busily, Driven, Places
  <1>0. /\ job[p] \in Jobs /\ job = [job EXCEPT ![p] = job[p]] /\ pc[p] \in Driven
        /\ Row(p) \in Rows
    BY WorkShapes DEF Acquire, TypeInv, TypeOK
  <1>1. ASSUME Tamely, UNCHANGED job, pc' = [pc EXCEPT ![p] = Contended(Row(p))]
        PROVE  Proceeds(p)
    <2>1. Contended(Row(p)) \in {"applying", "expiring"}
      BY DEF Contended
    <2>2. job' = [job EXCEPT ![p] = job[p]]
      BY <1>0, <1>1
    <2>3. QED  BY <1>0, <1>1, <2>1, <2>2, ProceedsAt
  <1>2. ASSUME Wins(p) PROVE Proceeds(p)
    <2> DEFINE n == Row(p).fence + 1
               j == [job[p] EXCEPT !.fence = n]
    <2>1. n \in Nat
      BY <1>0 DEF Rows
    <2>2. Won(Row(p), p).fence = n
      BY <1>0 DEF Won, Rows
    <2> HIDE DEF n
    <2>3. j \in Jobs /\ j.ev = job[p].ev /\ j.role = job[p].role /\ j.fence = n
      BY <1>0, <2>1 DEF Jobs
    <2>4. job' = [job EXCEPT ![p] = j]
      BY <1>2, <2>2 DEF Wins
    <2>5. AfterAcquire(p) \in {"committing", "applying", "beginning", "executing"}
      BY DEF AfterAcquire
    <2>6. pc' = [pc EXCEPT ![p] = AfterAcquire(p)]
      BY <1>2 DEF Wins
    <2> HIDE DEF j
    <2>7. QED  BY <1>0, <1>2, <2>3, <2>4, <2>5, <2>6, ProceedsAt DEF n
  <1>3. QED  BY <1>1, <1>2, AcquireRows

\* The other handlers.
LEMMA HandlerMoves ==
    ASSUME TypeInv, NEW p \in Pollers,
           \/ SupersedeStale(p) \/ Route(p) \/ ExpireClaim(p) \/ BeginFixRound(p)
           \/ ExecutorStubbed(p) \/ ExecutorCancelled(p) \/ ExecutorPatched(p)
           \/ ExecutorRaises(p) \/ TransitionAndApply(p) \/ Apply(p) \/ Release(p)
    PROVE  Proceeds(p)
  <1> DEFINE Goals == {"none", "resume", "MERGE_ELIGIBLE", "FIXING", "ESCALATED",
                       "AWAIT_REVIEW"}
  <1>a. pc[p] \in Busily
    BY DEF SupersedeStale, Route, ExpireClaim, BeginFixRound, ExecutorStubbed,
           ExecutorCancelled, ExecutorPatched, ExecutorRaises, TransitionAndApply,
           Apply, Release, Busily
  <1>b. job[p] \in Jobs /\ job = [job EXCEPT ![p] = job[p]]
    BY WorkShapes DEF TypeInv, TypeOK
  <1>c. ASSUME NEW x \in {"routing", "expiring", "executing", "committing", "applying",
                          "releasing"},
               pc[p] \in Driven, pc' = [pc EXCEPT ![p] = x], UNCHANGED job
        PROVE  Proceeds(p)
    <2>1. job' = [job EXCEPT ![p] = job[p]]
      BY <1>b, <1>c
    <2>2. QED  BY <1>b, <1>c, <2>1, ProceedsAt DEF Places, Busily
  <1>d. ASSUME NEW x \in {"acquiring", "committing", "applying"}, NEW g \in Goals,
               pc[p] \in Driven, pc' = [pc EXCEPT ![p] = x],
               job' = [job EXCEPT ![p].goal = g],
               x = "acquiring" => Route(p)
        PROVE  Proceeds(p)
    <2> DEFINE j == [job[p] EXCEPT !.goal = g]
    <2>1. /\ j \in Jobs /\ j.ev = job[p].ev /\ j.role = job[p].role
          /\ j.fence = job[p].fence
      BY <1>b DEF Jobs
    <2>2. job' = [job EXCEPT ![p] = j]
      BY <1>d
    <2> HIDE DEF j
    <2>3. QED  BY <1>d, <2>1, <2>2, ProceedsAt DEF Places
  <1>e. ASSUME pc[p] \in Driven, Raise(p) PROVE Proceeds(p)
    <2> DEFINE j == [job[p] EXCEPT !.err = TRUE]
    <2>1. /\ j \in Jobs /\ j.ev = job[p].ev /\ j.role = job[p].role
          /\ j.fence = job[p].fence
      BY <1>b DEF Jobs
    <2>2. job' = [job EXCEPT ![p] = j] /\ pc' = [pc EXCEPT ![p] = "releasing"]
      BY <1>e DEF Raise
    <2> HIDE DEF j
    <2>3. QED  BY <1>e, <2>1, <2>2, ProceedsAt DEF Places
  <1>f. ASSUME NEW x \in {"ready", "down"}, pc' = [pc EXCEPT ![p] = x],
               job' = [job EXCEPT ![p] = NoJob]
        PROVE  Proceeds(p)
    <2>1. NoJob \in Jobs /\ NoJob.fence = 0
      BY DEF NoJob, Jobs, Roles
    <2>2. QED  BY <1>f, <2>1, ProceedsAt DEF Places, Busily
  <1>1. CASE SupersedeStale(p)
    BY <1>1, <1>c DEF SupersedeStale, Driven, Busily
  <1>2. CASE Route(p)
    <2>1. KindOf[job[p].ev] \in {"approved", "changes", "other"}
      BY <1>a, WorkShapes
    <2>2. PICK g \in Goals, x \in {"acquiring", "applying"} :
             pc' = [pc EXCEPT ![p] = x] /\ job' = [job EXCEPT ![p].goal = g]
      <3> DEFINE g == Goal(Ensured(Row(p)).state, KindOf[job[p].ev])
      <3>1. g \in Goals
        BY <2>1, GoalShapes
      <3>2. /\ job' = [job EXCEPT ![p].goal = g]
            /\ pc' = [pc EXCEPT ![p] = IF g = "none" THEN "applying" ELSE "acquiring"]
        BY <1>2 DEF Route
      <3> HIDE DEF g
      <3>3. QED  BY <3>1, <3>2
    <2>3. QED  BY <1>2, <1>d, <2>2 DEF Route, Driven, Busily
  <1>3. CASE ExpireClaim(p)
    BY <1>3, <1>f DEF ExpireClaim
  <1>4. CASE BeginFixRound(p)
    <2>1. \/ Raise(p)
          \/ /\ UNCHANGED job
             /\ \/ pc' = [pc EXCEPT ![p] = "applying"]
                \/ pc' = [pc EXCEPT ![p] = "executing"]
      BY <1>4 DEF BeginFixRound
    <2>2. QED  BY <2>1, <1>4, <1>c, <1>e DEF BeginFixRound, Driven, Busily
  <1>5. CASE ExecutorStubbed(p)
    BY <1>5, <1>d DEF ExecutorStubbed, Driven, Busily
  <1>6. CASE ExecutorCancelled(p)
    BY <1>6, <1>c DEF ExecutorCancelled, Driven, Busily
  <1>7. CASE ExecutorPatched(p)
    <2>1. \/ UNCHANGED job /\ pc' = [pc EXCEPT ![p] = "applying"]
          \/ /\ job' = [job EXCEPT ![p].goal = "AWAIT_REVIEW"]
             /\ pc' = [pc EXCEPT ![p] = "committing"]
      BY <1>7 DEF ExecutorPatched
    <2>2. QED  BY <2>1, <1>7, <1>c, <1>d DEF ExecutorPatched, Driven, Busily
  <1>8. CASE ExecutorRaises(p)
    BY <1>8, <1>e DEF ExecutorRaises, Driven, Busily
  <1>9. CASE TransitionAndApply(p)
    <2>1. Raise(p) \/ (UNCHANGED job /\ pc' = [pc EXCEPT ![p] = "releasing"])
      BY <1>9 DEF TransitionAndApply
    <2>2. QED  BY <2>1, <1>9, <1>c, <1>e DEF TransitionAndApply, Driven, Busily
  <1>10. CASE Apply(p)
    <2>1. \/ pc' = [pc EXCEPT ![p] = "ready"] /\ job' = [job EXCEPT ![p] = NoJob]
          \/ UNCHANGED job /\ pc' = [pc EXCEPT ![p] = "releasing"]
      BY <1>10 DEF Apply
    <2>2. QED  BY <2>1, <1>10, <1>c, <1>f DEF Apply, Driven, Busily
  <1>11. CASE Release(p)
    <2>1. /\ job' = [job EXCEPT ![p] = NoJob]
          /\ \/ pc' = [pc EXCEPT ![p] = "down"]
             \/ pc' = [pc EXCEPT ![p] = "ready"]
      BY <1>11 DEF Release
    <2>2. QED  BY <2>1, <1>f
  <1>12. QED
    BY <1>1, <1>2, <1>3, <1>4, <1>5, <1>6, <1>7, <1>8, <1>9, <1>10, <1>11

\* Every step moves one process at most.
LEMMA MoveStep ==
    ASSUME TypeInv, [Next]_vars
    PROVE  UNCHANGED <<pc, job>> \/ \E p \in Pollers : Proceeds(p)
  <1>1. ASSUME NEW p \in Pollers, Step(p) \/ Crash(p) PROVE Proceeds(p)
    BY <1>1, RecoveryMoves, ClaimMoves, AcquireMoves, HandlerMoves DEF Step
  <1>2. ASSUME NEW p \in Pollers, NEW e \in Events, Ingest(p, e) PROVE Proceeds(p)
    BY <1>2, ClaimMoves
  <1>3. ASSUME NEW k \in Keys, LeaseExpires(k) \/ RequestCancellation(k)
        PROVE  UNCHANGED <<pc, job>>
    BY <1>3 DEF LeaseExpires, RequestCancellation
  <1>4. ASSUME NEW e \in Events, ClaimExpires(e) PROVE UNCHANGED <<pc, job>>
    BY <1>4 DEF ClaimExpires
  <1>5. CASE UNCHANGED vars
    BY <1>5 DEF vars
  <1>6. QED  BY <1>1, <1>2, <1>3, <1>4, <1>5 DEF Next

-----------------------------------------------------------------------------
(* Type correctness.                                                       *)

\* The rows after a win.
LEMMA WinRows ==
    ASSUME TypeInv, NEW p \in Pollers, Wins(p)
    PROVE  /\ Key(p) \in Keys /\ Row(p) \in Rows /\ job[p].ev \in Events
           /\ Row(p).state # "NONE"
           /\ items' \in [Keys -> Rows]
           /\ items'[Key(p)] = Won(Row(p), p) /\ Kept(Row(p), Won(Row(p), p))
           /\ \A k \in Keys \ {Key(p)} : items'[k] = items[k]
  <1>1. /\ Key(p) \in Keys /\ Row(p) \in Rows /\ job[p].ev \in Events
        /\ Row(p).state # "NONE"
    BY WorkShapes DEF Wins, Busily, TypeInv, WorkInv
  <1>2. Won(Row(p), p) \in Rows
    BY <1>1, RowShapes
  <1>3. Kept(Row(p), Won(Row(p), p))
    <2>1. Won(Row(p), p).state = Row(p).state /\ Won(Row(p), p).sup = Row(p).sup
      BY <1>1 DEF Won, Rows
    <2>2. QED  BY <2>1 DEF Kept
  <1>4. items \in [Keys -> Rows] /\ items' = [items EXCEPT ![Key(p)] = Won(Row(p), p)]
    BY DEF TypeInv, TypeOK, Wins, Row
  <1>5. QED  BY <1>1, <1>2, <1>3, <1>4

\* No step takes back what a row has settled.
LEMMA RowsKept ==
    ASSUME TypeInv, [Next]_vars
    PROVE  /\ items' \in [Keys -> Rows]
           /\ \A k \in Keys : /\ Kept(items[k], items'[k])
                              /\ items'[k].state = "NONE" => items'[k].owner = None
  <1>1. CASE Tamely
    BY <1>1, EveryRow DEF Tamely, Tame, Kept
  <1>2. ASSUME NEW p \in Pollers, Wins(p)
        PROVE  /\ items' \in [Keys -> Rows]
               /\ \A k \in Keys : /\ Kept(items[k], items'[k])
                                  /\ items'[k].state = "NONE" => items'[k].owner = None
    <2>1. \A k \in Keys \ {Key(p)} : /\ Kept(items[k], items'[k])
                                     /\ items'[k].state = "NONE" => items'[k].owner = None
      BY <1>2, WinRows, EveryRow DEF Tame
    <2>2. /\ Kept(items[Key(p)], items'[Key(p)])
          /\ items'[Key(p)].state # "NONE"
      BY <1>2, WinRows DEF Kept, Row
    <2>3. QED  BY <1>2, <2>1, <2>2, WinRows
  <1>3. QED  BY <1>1, <1>2, RowStep

\* The ledger, the lists, the history and the counters.
OtherTypes ==
    /\ ledger \in [Events -> Claims] /\ arrived \in Seq(Events)
    /\ todo \in [Pollers -> SUBSET Events] /\ sweep \in [Pollers -> SUBSET Keys]
    /\ aborted \subseteq Keys /\ robbed \subseteq Keys /\ effects \in [Events -> Nat]
    /\ crashes \in Nat /\ overruns \in Nat

\* The types of the claims.
LEMMA ClaimTypes ==
    ASSUME TypeInv, NEW p \in Pollers, NEW e \in Events, NEW r \in Roles,
           Claim(p, e, r)
    PROVE  ledger' \in [Events -> Claims] /\ arrived' \in Seq(Events)
  <1>1. [st |-> "processing", owner |-> <<p, r>>, live |-> TRUE] \in Claims
    BY DEF Claims
  <1>2. Append(arrived, e) \in Seq(Events)
    BY DEF TypeInv, TypeOK
  <1>3. QED  BY <1>1, <1>2 DEF Claim, TypeInv, TypeOK

\* The rest of the state keeps its types.
LEMMA OtherStep ==
    ASSUME TypeInv, [Next]_vars
    PROVE  OtherTypes'
  <1> USE DEF OtherTypes
  <1>0. OtherTypes
    BY DEF TypeInv, TypeOK
  <1>a. Inbox \subseteq Events
    BY DEF Inbox
  <1>b. [st |-> "applied", owner |-> None, live |-> FALSE] \in Claims
        /\ [Unclaimed EXCEPT !.st = "legacy"] \in Claims
    BY DEF Claims, Unclaimed
  <1>c. \A e \in Events : Applied(e) \in [Events -> Claims]
    BY <1>0, <1>b DEF Applied
  <1>d. ASSUME NEW e \in Events
        PROVE  [ledger EXCEPT ![e].live = FALSE] \in [Events -> Claims]
    <2>1. [ledger[e] EXCEPT !.live = FALSE] \in Claims
      BY <1>0, ClaimShapes
    <2>2. QED  BY <1>0, <2>1
  <1>e. \A e \in Events : [effects EXCEPT ![e] = @ + 1] \in [Events -> Nat]
    BY <1>0
  <1>1. ASSUME NEW p \in Pollers, Step(p) PROVE OtherTypes'
    <2>1. CASE Restart(p)
      BY <1>0, <2>1 DEF Restart
    <2>2. CASE ListExpired(p)
      BY <1>0, <2>2 DEF ListExpired
    <2>3. CASE ReconcileOne(p)
      BY <1>0, <2>3 DEF ReconcileOne
    <2>4. CASE ReconcileDone(p)
      BY <1>0, <1>a, <2>4 DEF ReconcileDone
    <2>5. CASE Tick(p)
      BY <1>0, <1>a, <2>5 DEF Tick
    <2>6. CASE RecoverNext(p)
      <3>1. PICK e \in todo[p] :
               /\ todo' = [todo EXCEPT ![p] = @ \ {e}]
               /\ \/ UNCHANGED <<ledger, arrived>>
                  \/ FlagLegacy(e) /\ UNCHANGED arrived
                  \/ Claim(p, e, "recovery")
        BY <2>6 DEF RecoverNext
      <3>2. e \in Events
        BY <1>0
      <3>3. ledger' \in [Events -> Claims] /\ arrived' \in Seq(Events)
        <4>1. CASE UNCHANGED <<ledger, arrived>>
          BY <1>0, <4>1
        <4>2. CASE FlagLegacy(e) /\ UNCHANGED arrived
          BY <1>0, <1>b, <3>2, <4>2 DEF FlagLegacy
        <4>3. CASE Claim(p, e, "recovery")
          BY <3>2, <4>3, ClaimTypes DEF Roles
        <4>4. QED  BY <3>1, <4>1, <4>2, <4>3
      <3>4. UNCHANGED <<sweep, aborted, effects, robbed, crashes, overruns>>
        BY <2>6 DEF RecoverNext
      <3>5. QED  BY <1>0, <3>1, <3>3, <3>4
    <2>7. CASE SupersedeStale(p) \/ Route(p) \/ Acquire(p)
      BY <1>0, <2>7 DEF SupersedeStale, Route, Acquire
    <2>8. CASE ExpireClaim(p)
      <3>1. job[p].ev \in Events
        BY <2>8, WorkShapes DEF ExpireClaim, Busily
      <3>2. QED  BY <1>0, <1>d, <2>8, <3>1 DEF ExpireClaim
    <2>9. CASE BeginFixRound(p)
      <3>1. job[p].ev \in Events
        BY <2>9, WorkShapes DEF BeginFixRound, Busily
      <3>2. UNCHANGED effects \/ effects' = [effects EXCEPT ![job[p].ev] = @ + 1]
            \/ effects' = [effects EXCEPT ![job[p].ev] = @]
        BY <2>9 DEF BeginFixRound
      <3>3. effects' \in [Events -> Nat]
        BY <1>0, <1>e, <3>1, <3>2
      <3>4. QED  BY <1>0, <2>9, <3>3 DEF BeginFixRound
    <2>10. CASE ExecutorStubbed(p) \/ ExecutorCancelled(p) \/ ExecutorPatched(p)
      BY <1>0, <2>10 DEF ExecutorStubbed, ExecutorCancelled, ExecutorPatched
    <2>11. CASE ExecutorRaises(p)
      BY <1>0, <2>11 DEF ExecutorRaises
    <2>12. CASE TransitionAndApply(p)
      <3>1. job[p].ev \in Events
        BY <2>12, WorkShapes DEF TransitionAndApply, Busily
      <3>2. \/ UNCHANGED <<ledger, effects>>
            \/ /\ ledger' = Applied(job[p].ev)
               /\ effects' = [effects EXCEPT ![job[p].ev] = @ + 1]
        BY <2>12 DEF TransitionAndApply, Folded
      <3>3. ledger' \in [Events -> Claims] /\ effects' \in [Events -> Nat]
        <4>1. CASE UNCHANGED <<ledger, effects>>
          BY <1>0, <4>1
        <4>2. CASE /\ ledger' = Applied(job[p].ev)
                   /\ effects' = [effects EXCEPT ![job[p].ev] = @ + 1]
          BY <1>c, <1>e, <3>1, <4>2
        <4>3. QED  BY <3>2, <4>1, <4>2
      <3>4. UNCHANGED <<arrived, todo, sweep, aborted, robbed, crashes, overruns>>
        BY <2>12 DEF TransitionAndApply
      <3>5. QED  BY <1>0, <3>3, <3>4
    <2>13. CASE Apply(p)
      <3>1. job[p].ev \in Events
        BY <2>13, WorkShapes DEF Apply, Busily
      <3>2. QED  BY <1>0, <1>c, <2>13, <3>1 DEF Apply
    <2>14. CASE Release(p)
      BY <1>0, <2>14 DEF Release
    <2>15. QED
      BY <1>1, <2>1, <2>2, <2>3, <2>4, <2>5, <2>6, <2>7, <2>8, <2>9, <2>10, <2>11,
         <2>12, <2>13, <2>14 DEF Step
  <1>2. ASSUME NEW p \in Pollers, Crash(p) PROVE OtherTypes'
    BY <1>0, <1>2 DEF Crash
  <1>3. ASSUME NEW p \in Pollers, NEW e \in Events, Ingest(p, e) PROVE OtherTypes'
    BY <1>0, <1>3, ClaimTypes DEF Ingest, Roles
  <1>4. ASSUME NEW k \in Keys, LeaseExpires(k) PROVE OtherTypes'
    BY <1>0, <1>4 DEF LeaseExpires
  <1>5. ASSUME NEW k \in Keys, RequestCancellation(k) PROVE OtherTypes'
    BY <1>0, <1>5 DEF RequestCancellation
  <1>6. ASSUME NEW e \in Events, ClaimExpires(e) PROVE OtherTypes'
    BY <1>0, <1>d, <1>6 DEF ClaimExpires
  <1>7. CASE UNCHANGED vars
    BY <1>0, <1>7 DEF vars
  <1>8. QED  BY <1>1, <1>2, <1>3, <1>4, <1>5, <1>6, <1>7 DEF Next

\* A process that is about to acquire has made sure of its row.
LEMMA RoutedRow ==
    ASSUME TypeInv, NEW p \in Pollers, Route(p)
    PROVE  Row(p)'.state # "NONE"
  <1>1. Key(p) \in Keys /\ job[p].ev \in Events /\ Row(p) \in Rows
    BY WorkShapes DEF Route, Busily
  <1>2. items'[Key(p)] = Ensured(Row(p))
    BY <1>1 DEF Route, TypeInv, TypeOK, Row
  <1>3. job'[p].ev = job[p].ev
    <2>1. \A g : [job[p] EXCEPT !.goal = g].ev = job[p].ev
      BY WorkShapes DEF Jobs
    <2>2. PICK g : job' = [job EXCEPT ![p].goal = g]
      BY DEF Route
    <2>3. job'[p] = [job[p] EXCEPT !.goal = g]
      BY <2>2 DEF TypeInv, TypeOK
    <2>4. QED  BY <2>1, <2>3
  <1>4. Ensured(Row(p)).state # "NONE"
    BY <1>1 DEF Ensured, Rows
  <1>5. QED  BY <1>2, <1>3, <1>4 DEF Row, Key

\* One step of the types and of what the handlers rely on.
LEMMA TypeStep == TypeInv /\ [Next]_vars => TypeInv'
  <1> SUFFICES ASSUME TypeInv, [Next]_vars PROVE TypeInv'
    OBVIOUS
  <1>1. /\ pc' \in [Pollers -> Places] /\ job' \in [Pollers -> Jobs]
    BY MoveStep DEF Proceeds, TypeInv, TypeOK, Places
  <1>2. TypeOK'
    BY <1>1, RowsKept, OtherStep DEF TypeOK, OtherTypes, Places
  <1>3. \A p \in Pollers : pc'[p] \in Busily => job'[p].ev \in Events
    BY MoveStep DEF Proceeds, TypeInv, WorkInv, Driven
  <1>4. ASSUME NEW p \in Pollers, pc'[p] = "acquiring"
        PROVE  Row(p)'.state # "NONE"
    <2>1. CASE pc'[p] = pc[p] /\ job'[p] = job[p]
      <3>1. Row(p).state # "NONE" /\ Key(p) \in Keys
        BY <1>4, <2>1, WorkShapes DEF TypeInv, WorkInv, Busily
      <3>2. QED  BY <2>1, <3>1, RowsKept DEF Kept, Row, Key
    <2>2. CASE Proceeds(p)
      BY <1>4, <2>2, RoutedRow DEF Proceeds
    <2>3. QED  BY <2>1, <2>2, MoveStep DEF Proceeds
  <1>5. WorkInv'
    BY <1>3, <1>4, RowsKept DEF WorkInv
  <1>6. QED  BY <1>2, <1>5 DEF TypeInv

\* The invariant that the proofs below start from.
LEMMA TypeInvariant == Spec => []TypeInv
  <1>1. QED  BY InitTypes, TypeStep, PTL DEF Spec

\* The state always has its shape; in particular the poller never takes a row
\* to HUMAN_GATE, MERGED or HELD (_TRANSITIONS).
THEOREM TypeCorrect == Spec => []TypeOK
  <1>1. TypeInv => TypeOK
    BY DEF TypeInv
  <1>2. QED  BY <1>1, TypeInvariant, PTL

-----------------------------------------------------------------------------
(* Leases and generations.                                                 *)

\* Two active rows of one pull request never both hold a live lease.
OneLive ==
    \A j, k \in Keys :
        /\ PrOf[j] = PrOf[k]
        /\ Active(items[j]) /\ LiveLease(items[j])
        /\ Active(items[k]) /\ LiveLease(items[k])
        => j = k

\* The compare-and-swap of acquire leaves one live lease per pull request.
LEMMA OneLiveInvariant == Spec => []OneLive
  <1> DEFINE Occupied(k) == Active(items[k]) /\ LiveLease(items[k])
  <1>1. Init => OneLive
    BY DEF Init, OneLive, NoRow, Active
  <1>2. ASSUME TypeInv, OneLive, [Next]_vars PROVE OneLive'
    <2>1. CASE Tamely
      <3>1. \A k \in Keys : Occupied(k)' => Occupied(k)
        BY <2>1 DEF Tamely, Tame
      <3>2. QED  BY <1>2, <3>1 DEF OneLive
    <2>2. ASSUME NEW p \in Pollers, Wins(p) PROVE OneLive'
      <3>1. \A k \in Keys \ {Key(p)} : PrOf[k] = PrOf[Key(p)] => ~Occupied(k)
        BY <2>2 DEF Wins, Busy
      <3>2. \A k \in Keys \ {Key(p)} : Occupied(k)' => Occupied(k)
        BY <1>2, <2>2, WinRows
      <3>3. QED  BY <1>2, <3>1, <3>2 DEF OneLive
    <2>3. QED  BY <1>2, <2>1, <2>2, RowStep
  <1>3. QED  BY <1>1, <1>2, TypeInvariant, PTL DEF Spec

\* What a job may carry of a generation when no row is won.
LEMMA FenceKept ==
    ASSUME TypeInv, [Next]_vars, NEW p \in Pollers, ~\E q \in Pollers : Wins(q)
    PROVE  \/ job'[p].fence = 0
           \/ job'[p].ev = job[p].ev /\ job'[p].fence = job[p].fence
  BY MoveStep DEF Proceeds

\* What the jobs carry once p has won its row.
LEMMA FenceWon ==
    ASSUME TypeInv, NEW p \in Pollers, Wins(p)
    PROVE  /\ job'[p].ev = job[p].ev /\ job'[p].fence = Row(p).fence + 1
           /\ items'[Key(p)].fence = Row(p).fence + 1
           /\ \A q \in Pollers \ {p} : job'[q] = job[q]
  <1>1. Row(p) \in Rows /\ job[p] \in Jobs /\ items'[Key(p)] = Won(Row(p), p)
    BY WinRows, WorkShapes
  <1>2. Won(Row(p), p).fence = Row(p).fence + 1
    BY <1>1 DEF Won, Rows
  <1>3. job' = [job EXCEPT ![p].fence = Won(Row(p), p).fence] /\ job \in [Pollers -> Jobs]
    BY DEF Wins, TypeInv, TypeOK
  <1>4. job'[p] = [job[p] EXCEPT !.fence = Won(Row(p), p).fence]
    BY <1>3
  <1>5. job'[p].ev = job[p].ev /\ job'[p].fence = Won(Row(p), p).fence
    BY <1>1, <1>4 DEF Jobs
  <1>6. QED  BY <1>1, <1>2, <1>3, <1>5

\* One step of the generations.
LEMMA FenceStep == TypeInv /\ FenceInv /\ [Next]_vars => FenceInv'
  <1> SUFFICES ASSUME TypeInv, FenceInv, [Next]_vars PROVE FenceInv'
    OBVIOUS
  <1>0. /\ \A k \in Keys : items[k].fence \in Nat
        /\ \A p \in Pollers : job[p].fence \in Nat
                              /\ (job[p].ev \in Events => Key(p) \in Keys)
    BY DEF TypeInv, TypeOK, Rows, Jobs, Key
  <1>1. CASE ~\E q \in Pollers : Wins(q)
    <2>1. \A k \in Keys : items'[k].fence = items[k].fence
      BY <1>1, RowStep DEF Tamely, Tame
    <2>2. \A p \in Pollers : \/ job'[p].fence = 0
                             \/ job'[p].ev = job[p].ev /\ job'[p].fence = job[p].fence
      BY <1>1, FenceKept
    <2>3. ASSUME NEW p \in Pollers, job'[p].ev \in Events
          PROVE  job'[p].fence <= Row(p)'.fence
      <3>1. Key(p)' \in Keys /\ Row(p)'.fence = items[KeyOf[job'[p].ev]].fence
        BY <2>1, <2>3 DEF Key, Row
      <3>2. QED  BY <1>0, <2>2, <2>3, <3>1 DEF FenceInv, Key, Row
    <2>4. ASSUME NEW p \in Pollers, NEW q \in Pollers, p # q, job'[p].ev \in Events,
                 job'[q].ev \in Events, Key(p)' = Key(q)', job'[p].fence = job'[q].fence
          PROVE  job'[p].fence = 0
      BY <2>2, <2>4 DEF FenceInv, Key
    <2>5. QED  BY <2>3, <2>4 DEF FenceInv
  <1>2. ASSUME NEW p \in Pollers, Wins(p) PROVE FenceInv'
    <2> DEFINE n == Row(p).fence + 1
    <2>1. /\ job'[p].ev = job[p].ev /\ job'[p].fence = n /\ items'[Key(p)].fence = n
          /\ \A q \in Pollers \ {p} : job'[q] = job[q]
          /\ \A k \in Keys \ {Key(p)} : items'[k] = items[k]
          /\ Key(p) \in Keys /\ job[p].ev \in Events
      BY <1>2, FenceWon, WinRows
    <2>2. \A q \in Pollers \ {p} :
              job[q].ev \in Events /\ Key(q) = Key(p) => job[q].fence < n
      BY <1>0, <2>1 DEF FenceInv, Row
    <2>3. \A q \in Pollers : Key(q)' = Key(q)
      BY <2>1 DEF Key
    <2>4. ASSUME NEW q \in Pollers, job'[q].ev \in Events
          PROVE  job'[q].fence <= Row(q)'.fence
      <3>1. Row(q)' = items'[Key(q)] /\ n \in Nat
        BY <1>0, <2>1, <2>3 DEF Row
      <3>2. CASE q = p
        BY <2>1, <3>1, <3>2
      <3>3. CASE q # p /\ Key(q) = Key(p)
        BY <1>0, <2>1, <2>2, <2>4, <3>1, <3>3
      <3>4. CASE q # p /\ Key(q) # Key(p)
        BY <1>0, <2>1, <2>4, <3>1, <3>4 DEF FenceInv, Row
      <3>5. QED  BY <3>2, <3>3, <3>4
    <2>5. ASSUME NEW q \in Pollers, NEW r \in Pollers, q # r, job'[q].ev \in Events,
                 job'[r].ev \in Events, Key(q)' = Key(r)', job'[q].fence = job'[r].fence
          PROVE  job'[q].fence = 0
      <3>1. Key(q) = Key(r) /\ n \in Nat
        BY <1>0, <2>1, <2>3, <2>5 DEF Row
      <3>2. q # p /\ r # p
        BY <1>0, <2>1, <2>2, <2>5, <3>1
      <3>3. QED  BY <2>1, <2>5, <3>1, <3>2 DEF FenceInv
    <2>6. QED  BY <2>4, <2>5 DEF FenceInv
  <1>3. QED  BY <1>1, <1>2

\* Two processes that both believe they hold one row carry different fences,
\* so the stale one can be told apart (acquire, fence_ok).
THEOREM GenerationsCorrect == Spec => []GenerationsDiffer
  <1>1. Init => FenceInv
    <2>1. ASSUME Init PROVE \A p \in Pollers : job[p].fence = 0
      BY <2>1 DEF Init, NoJob
    <2>2. ASSUME Init PROVE \A k \in Keys : items[k].fence = 0
      BY <2>2 DEF Init, NoRow
    <2>3. QED  BY <2>1, <2>2 DEF FenceInv, Row, Key
  <1>2. TypeInv /\ FenceInv => GenerationsDiffer
    <2> SUFFICES ASSUME TypeInv, FenceInv, NEW p \in Pollers, NEW q \in Pollers,
                        NEW k \in Keys, Holding(p, k), Holding(q, k),
                        job[p].fence = job[q].fence
                 PROVE  p = q
      BY DEF GenerationsDiffer
    <2>1. job[p].ev \in Events /\ job[q].ev \in Events /\ Key(p) = k /\ Key(q) = k
          /\ job[p].fence # 0
      BY WorkShapes DEF Holding, Busily
    <2>2. QED  BY <2>1 DEF FenceInv
  <1>3. QED  BY <1>1, <1>2, FenceStep, TypeInvariant, PTL DEF Spec

-----------------------------------------------------------------------------
(* A fix keeps its lease.                                                  *)

\* The row can still be worked on, whether it is stored yet or not.
Open(r) == ~r.sup /\ r.state \notin Terminal

\* As long as no lease ran out under its holder and no sweep took it away, a
\* process in the middle of a fix holds the lease of the row it fixes.
StillHolds ==
    /\ \A p \in Pollers : InFlight(p) => job[p].fence # 0
    /\ overruns = 0 =>
       \A p \in Pollers :
           InFlight(p) /\ Open(Row(p)) /\ Key(p) \notin robbed => HoldsLease(p)

\* The bound on overruns and the operator's requests only grow.
LEMMA GrowthStep ==
    ASSUME TypeInv, [Next]_vars
    PROVE  /\ overruns' = overruns \/ overruns' = overruns + 1
           /\ aborted \subseteq aborted'
  <1>1. ASSUME NEW p \in Pollers,
               \/ Restart(p) \/ ListExpired(p) \/ ReconcileOne(p) \/ ReconcileDone(p)
               \/ Tick(p) \/ RecoverNext(p) \/ SupersedeStale(p) \/ Route(p)
        PROVE  UNCHANGED <<overruns, aborted>>
    BY <1>1 DEF Restart, ListExpired, ReconcileOne, ReconcileDone, Tick, RecoverNext,
                SupersedeStale, Route
  <1>2. ASSUME NEW p \in Pollers,
               \/ Acquire(p) \/ ExpireClaim(p) \/ BeginFixRound(p)
               \/ ExecutorStubbed(p) \/ ExecutorCancelled(p) \/ ExecutorPatched(p)
        PROVE  UNCHANGED <<overruns, aborted>>
    BY <1>2 DEF Acquire, ExpireClaim, BeginFixRound, ExecutorStubbed, ExecutorCancelled,
                ExecutorPatched
  <1>3. ASSUME NEW p \in Pollers,
               \/ ExecutorRaises(p) \/ TransitionAndApply(p) \/ Apply(p) \/ Release(p)
               \/ Crash(p) \/ \E e \in Events : Ingest(p, e)
        PROVE  UNCHANGED <<overruns, aborted>>
    BY <1>3 DEF ExecutorRaises, TransitionAndApply, Apply, Release, Crash, Ingest
  <1>4. ASSUME NEW k \in Keys, LeaseExpires(k) \/ RequestCancellation(k)
        PROVE  /\ overruns' = overruns \/ overruns' = overruns + 1
               /\ aborted \subseteq aborted'
    BY <1>4 DEF LeaseExpires, RequestCancellation
  <1>5. ASSUME NEW e \in Events, ClaimExpires(e)
        PROVE  /\ overruns' = overruns \/ overruns' = overruns + 1
               /\ UNCHANGED aborted
    BY <1>5 DEF ClaimExpires
  <1>6. CASE UNCHANGED vars
    BY <1>6 DEF vars
  <1>7. QED  BY <1>1, <1>2, <1>3, <1>4, <1>5, <1>6 DEF Next, Step

\* Which writes keep the cancellation flag of a row, and which clear it.
LEMMA CancelWrites ==
    ASSUME NEW r \in Rows
    PROVE  /\ Unleased(r).cancel = r.cancel /\ Ensured(r).cancel = r.cancel
           /\ [Unleased(r) EXCEPT !.cancel = FALSE].cancel = FALSE
           /\ [Unleased(r) EXCEPT !.state = "DROPPED", !.sup = TRUE].cancel = r.cancel
           /\ [r EXCEPT !.sup = TRUE, !.cancel = TRUE].sup = TRUE
           /\ [r EXCEPT !.rerun = TRUE].cancel = r.cancel
           /\ [r EXCEPT !.live = FALSE].cancel = r.cancel
           /\ \A s : [r EXCEPT !.state = s].cancel = r.cancel
           /\ \A n, s : [r EXCEPT !.attempt = n, !.state = s].cancel = r.cancel
           /\ \A p \in Pollers : Won(r, p).cancel = FALSE
  BY DEF Unleased, Ensured, Won, Rows

\* The process lets go of the row by itself.
Quits(q, k) ==
    /\ pc[q] \in Busily /\ Key(q) = k
    /\ \/ pc[q] = "executing" /\ pc'[q] = "applying"
       \/ items[k].owner = q /\ pc[q] = "releasing"

\* What a step may do to the lease of a row.
LeaseMove(k) ==
    \/ /\ items'[k].owner = items[k].owner /\ items'[k].live = items[k].live
       /\ items'[k].fence = items[k].fence
    \/ ~Open(items'[k])
    \/ ~LiveLease(items[k])
    \/ k \in robbed'
    \/ LeaseAbandoned(k) \/ overruns' = overruns + 1
    \/ \E q \in Pollers : Quits(q, k)

\* The writes that leave the lease of a row alone.
LEMMA LeaseWrites ==
    ASSUME NEW r \in Rows
    PROVE  /\ \A s : LET t == [r EXCEPT !.state = s]
                     IN  t.owner = r.owner /\ t.live = r.live /\ t.fence = r.fence
           /\ \A n, s : LET t == [r EXCEPT !.attempt = n, !.state = s]
                        IN  t.owner = r.owner /\ t.live = r.live /\ t.fence = r.fence
           /\ \A b : LET t == [r EXCEPT !.rerun = b]
                     IN  t.owner = r.owner /\ t.live = r.live /\ t.fence = r.fence
           /\ \A b : LET t == [r EXCEPT !.cancel = b]
                     IN  t.owner = r.owner /\ t.live = r.live /\ t.fence = r.fence
           /\ Ensured(r).owner = r.owner /\ Ensured(r).live = r.live
           /\ Ensured(r).fence = r.fence
  BY DEF Rows, Ensured

\* Every step, on the lease of one row.
LEMMA LeaseStep ==
    ASSUME TypeInv, [Next]_vars, NEW k \in Keys
    PROVE  LeaseMove(k)
  <1> USE DEF LeaseMove
  <1>0. items[k] \in Rows /\ items \in [Keys -> Rows] /\ pc \in [Pollers -> Places]
    BY EveryRow DEF TypeInv, TypeOK, Places
  <1>a. ASSUME NEW j \in Keys, NEW s, items' = [items EXCEPT ![j] = s],
               j = k => /\ s.owner = items[k].owner /\ s.live = items[k].live
                        /\ s.fence = items[k].fence
        PROVE  LeaseMove(k)
    BY <1>0, <1>a
  <1>b. ASSUME NEW j \in Keys, NEW s, items' = [items EXCEPT ![j] = s], j # k
        PROVE  LeaseMove(k)
    BY <1>0, <1>b
  <1>c. ASSUME NEW p \in Pollers, pc[p] \in Busily
        PROVE  Key(p) \in Keys /\ items[Key(p)] \in Rows
    BY <1>0, <1>c, WorkShapes
  <1>1. ASSUME NEW p \in Pollers, Restart(p) PROVE LeaseMove(k)
    <2>1. CASE items'[k] = items[k]
      BY <2>1
    <2>2. CASE items[k].sup
      BY <2>2, RowsKept DEF Kept, Open
    <2>3. QED  BY <1>1, <2>1, <2>2 DEF Restart
  <1>2. ASSUME NEW p \in Pollers, ReconcileOne(p) PROVE LeaseMove(k)
    <2>1. PICK j \in sweep[p] :
             /\ robbed' = IF LiveLease(items[j]) THEN robbed \cup {j} ELSE robbed
             /\ \E s : items' = [items EXCEPT ![j] = s]
      BY <1>2 DEF ReconcileOne
    <2>2. j \in Keys
      BY DEF TypeInv, TypeOK
    <2>3. CASE j = k
      BY <2>1, <2>3
    <2>4. CASE j # k
      BY <1>b, <2>1, <2>2, <2>4
    <2>5. QED  BY <2>3, <2>4
  <1>3. ASSUME NEW p \in Pollers, SupersedeStale(p) PROVE LeaseMove(k)
    <2>1. CASE items'[k] = items[k]
      BY <2>1
    <2>2. CASE items'[k] = [items[k] EXCEPT !.sup = TRUE, !.cancel = TRUE]
      BY <1>0, <2>2, CancelWrites DEF Open
    <2>3. QED  BY <1>3, <2>1, <2>2 DEF SupersedeStale
  <1>4. ASSUME NEW p \in Pollers, Route(p) PROVE LeaseMove(k)
    <2>1. Key(p) \in Keys /\ items' = [items EXCEPT ![Key(p)] = Ensured(items[Key(p)])]
      BY <1>4, <1>c DEF Route, Busily
    <2>2. QED  BY <1>0, <1>a, <2>1, LeaseWrites
  <1>5. ASSUME NEW p \in Pollers, Acquire(p) PROVE LeaseMove(k)
    <2>1. Key(p) \in Keys /\ items[Key(p)] \in Rows
      BY <1>5, <1>c DEF Acquire, Busily
    <2>2. CASE UNCHANGED items
      BY <2>2
    <2>3. CASE items' = [items EXCEPT ![Key(p)] = [items[Key(p)] EXCEPT !.rerun = TRUE]]
      BY <1>a, <2>1, <2>3, LeaseWrites
    <2>4. CASE /\ ~LiveLease(items[Key(p)])
               /\ items' = [items EXCEPT ![Key(p)] = Won(items[Key(p)], p)]
      BY <1>b, <2>1, <2>4
    <2>5. QED  BY <1>5, <2>2, <2>3, <2>4 DEF Acquire, Row
  <1>6. ASSUME NEW p \in Pollers, BeginFixRound(p) PROVE LeaseMove(k)
    <2> DEFINE n == Row(p).attempt + 1
               to == RoundDecision(n)
               s == [Row(p) EXCEPT !.attempt = n, !.state = to]
    <2>1. Key(p) \in Keys /\ Row(p) \in Rows /\ items[Key(p)] = Row(p)
      BY <1>6, <1>c DEF BeginFixRound, Busily, Row
    <2>2. \/ UNCHANGED items
          \/ items' = [items EXCEPT ![Key(p)].attempt = n, ![Key(p)].state = to]
      BY <1>6 DEF BeginFixRound
    <2>3. UNCHANGED items \/ items' = [items EXCEPT ![Key(p)] = s]
      <3> HIDE DEF n, to
      <3>1. QED  BY <1>0, <2>1, <2>2
    <2>4. s.owner = Row(p).owner /\ s.live = Row(p).live /\ s.fence = Row(p).fence
      BY <2>1, LeaseWrites
    <2> HIDE DEF s
    <2>5. QED  BY <1>a, <2>1, <2>3, <2>4
  <1>7. ASSUME NEW p \in Pollers, ExecutorCancelled(p) PROVE LeaseMove(k)
    <2>1. /\ Key(p) \in Keys
          /\ items' = [items EXCEPT ![Key(p)] =
                          [Unleased(items[Key(p)]) EXCEPT !.cancel = FALSE]]
      BY <1>7, <1>c DEF ExecutorCancelled, Busily
    <2>2. CASE Key(p) = k
      BY <1>0, <1>7, <2>2 DEF ExecutorCancelled, Quits, Busily
    <2>3. QED  BY <1>b, <2>1, <2>2
  <1>8. ASSUME NEW p \in Pollers, TransitionAndApply(p) PROVE LeaseMove(k)
    <2>1. Key(p) \in Keys /\ items[Key(p)] \in Rows
      BY <1>8, <1>c DEF TransitionAndApply, Busily
    <2>2. \/ UNCHANGED items
          \/ items' = [items EXCEPT ![Key(p)] = [items[Key(p)] EXCEPT !.state = job[p].goal]]
      BY <1>8 DEF TransitionAndApply
    <2>3. CASE items' = [items EXCEPT ![Key(p)] = [items[Key(p)] EXCEPT !.state = job[p].goal]]
      BY <1>a, <2>1, <2>3, LeaseWrites
    <2>4. QED  BY <2>2, <2>3
  <1>9. ASSUME NEW p \in Pollers, Release(p) PROVE LeaseMove(k)
    <2>1. Key(p) \in Keys
      BY <1>9, <1>c DEF Release, Busily
    <2>2. CASE UNCHANGED items
      BY <2>2
    <2>3. CASE Row(p).owner = p /\ items' = [items EXCEPT ![Key(p)] = Unleased(Row(p))]
      <3>1. CASE Key(p) = k
        BY <1>9, <2>3, <3>1 DEF Release, Quits, Busily, Row
      <3>2. QED  BY <1>b, <2>1, <2>3, <3>1
    <2>4. QED  BY <1>9, <2>2, <2>3 DEF Release, Row
  <1>10. ASSUME NEW p \in Pollers, Step(p) PROVE LeaseMove(k)
    BY <1>1, <1>2, <1>3, <1>4, <1>5, <1>6, <1>7, <1>8, <1>9, <1>10
       DEF Step, ListExpired, ReconcileDone, Tick, RecoverNext, ExpireClaim,
           ExecutorStubbed, ExecutorPatched, ExecutorRaises, Apply
  <1>11. ASSUME NEW j \in Keys, LeaseExpires(j) PROVE LeaseMove(k)
    <2>1. /\ items' = [items EXCEPT ![j] = [items[j] EXCEPT !.live = FALSE]]
          /\ LeaseAbandoned(j) \/ overruns' = overruns + 1
      BY <1>11 DEF LeaseExpires
    <2>2. QED  BY <1>b, <2>1
  <1>12. ASSUME NEW j \in Keys, RequestCancellation(j) PROVE LeaseMove(k)
    <2>1. items' = [items EXCEPT ![j] = [items[j] EXCEPT !.cancel = TRUE]]
      BY <1>12 DEF RequestCancellation
    <2>2. QED  BY <1>0, <1>a, <2>1, LeaseWrites
  <1>13. QED
    BY <1>10, <1>11, <1>12 DEF Next, Crash, Ingest, ClaimExpires, vars

\* A process is in the middle of a fix because it was, or because it has just
\* won its row.
LEMMA FlightStep ==
    ASSUME TypeInv, [Next]_vars, NEW p \in Pollers, InFlight(p)'
    PROVE  \/ /\ InFlight(p) /\ job'[p].ev = job[p].ev /\ job'[p].fence = job[p].fence
              /\ ~\E k \in Keys : Quits(p, k)
           \/ Wins(p)
  <1> USE DEF InFlight
  <1>0. pc \in [Pollers -> Places] /\ job \in [Pollers -> Jobs] /\ job[p] \in Jobs
    BY WorkShapes DEF TypeInv, TypeOK, Places
  <1>a. ASSUME pc'[p] = pc[p], job'[p] = job[p]
        PROVE  /\ InFlight(p) /\ job'[p].ev = job[p].ev /\ job'[p].fence = job[p].fence
               /\ ~\E k \in Keys : Quits(p, k)
    BY <1>a DEF Quits
  <1>1. ASSUME NEW q \in Pollers, Step(q) \/ Crash(q) \/ \E e \in Events : Ingest(q, e),
               q # p
        PROVE  pc'[p] = pc[p] /\ job'[p] = job[p]
    BY <1>1, RecoveryMoves, ClaimMoves, AcquireMoves, HandlerMoves DEF Step, Proceeds
  <1>2. ASSUME Acquire(p) PROVE Wins(p)
    BY <1>0, <1>2, AcquireRows DEF Contended
  <1>3. ASSUME BeginFixRound(p) \/ ExecutorStubbed(p) \/ ExecutorPatched(p)
        PROVE  /\ InFlight(p) /\ job'[p].ev = job[p].ev /\ job'[p].fence = job[p].fence
               /\ ~\E k \in Keys : Quits(p, k)
    <2>1. pc[p] \in {"beginning", "executing"} /\ job[p].ev \in Events
      BY <1>3, WorkShapes DEF BeginFixRound, ExecutorStubbed, ExecutorPatched, Busily
    <2>2. \A g : /\ [job[p] EXCEPT !.goal = g].ev = job[p].ev
                 /\ [job[p] EXCEPT !.goal = g].fence = job[p].fence
      BY <1>0 DEF Jobs
    <2>3. job' = job \/ \E g : job' = [job EXCEPT ![p].goal = g]
      BY <1>0, <1>3 DEF BeginFixRound, ExecutorStubbed, ExecutorPatched, Raise
    <2>4. job'[p] = job[p] \/ \E g : job'[p] = [job[p] EXCEPT !.goal = g]
      BY <1>0, <2>3
    <2>5. job'[p].ev = job[p].ev /\ job'[p].fence = job[p].fence
      BY <2>2, <2>4
    <2>6. QED  BY <2>1, <2>5 DEF Quits
  <1>4. ASSUME Step(p) \/ Crash(p) \/ \E e \in Events : Ingest(p, e)
        PROVE  Acquire(p) \/ BeginFixRound(p) \/ ExecutorStubbed(p) \/ ExecutorPatched(p)
    BY <1>0, <1>4
       DEF Step, Restart, ListExpired, ReconcileOne, ReconcileDone, Tick, RecoverNext,
           Claim, SupersedeStale, Route, ExpireClaim, ExecutorCancelled, ExecutorRaises,
           Raise, TransitionAndApply, Apply, Release, Crash, Ingest
  <1>5. QED
    BY <1>a, <1>1, <1>2, <1>3, <1>4
       DEF Next, LeaseExpires, RequestCancellation, ClaimExpires, vars

\* The rows that sweeps took away only grow in number.
LEMMA RobbedGrows ==
    ASSUME [Next]_vars
    PROVE  robbed \subseteq robbed'
  <1>1. ASSUME NEW p \in Pollers, ReconcileOne(p) PROVE robbed \subseteq robbed'
    BY <1>1 DEF ReconcileOne
  <1>2. ASSUME NEW p \in Pollers, Step(p) PROVE robbed \subseteq robbed'
    BY <1>1, <1>2
       DEF Step, Restart, ListExpired, ReconcileDone, Tick, RecoverNext, SupersedeStale,
           Route, Acquire, ExpireClaim, BeginFixRound, ExecutorStubbed,
           ExecutorCancelled, ExecutorPatched, ExecutorRaises, TransitionAndApply,
           Apply, Release
  <1>3. QED
    BY <1>2 DEF Next, Crash, Ingest, LeaseExpires, RequestCancellation, ClaimExpires, vars

\* One step of the leases that fixes hold.
LEMMA HoldStep == TypeInv /\ StillHolds /\ [Next]_vars => StillHolds'
  <1> SUFFICES ASSUME TypeInv, StillHolds, [Next]_vars, NEW p \in Pollers, InFlight(p)'
               PROVE  /\ job'[p].fence # 0
                      /\ overruns' = 0 /\ Open(Row(p)') /\ Key(p)' \notin robbed'
                         => HoldsLease(p)'
    BY DEF StillHolds
  <1>1. CASE Wins(p)
    <2>1. /\ Row(p) \in Rows /\ Key(p)' = Key(p) /\ items'[Key(p)] = Won(Row(p), p)
          /\ job'[p].fence = Row(p).fence + 1 /\ items'[Key(p)].fence = Row(p).fence + 1
      BY <1>1, WinRows, FenceWon DEF Key
    <2>2. Won(Row(p), p).owner = p /\ Won(Row(p), p).live /\ Row(p).fence \in Nat
      BY <2>1 DEF Won, Rows
    <2>3. HoldsLease(p)'
      BY <2>1, <2>2 DEF HoldsLease, Row
    <2>4. QED  BY <2>1, <2>2, <2>3
  <1>2. ASSUME InFlight(p), job'[p].ev = job[p].ev, job'[p].fence = job[p].fence,
               ~\E k \in Keys : Quits(p, k)
        PROVE  /\ job'[p].fence # 0
               /\ overruns' = 0 /\ Open(Row(p)') /\ Key(p)' \notin robbed'
                  => HoldsLease(p)'
    <2>1. job'[p].fence # 0
      BY <1>2 DEF StillHolds
    <2>2. Key(p) \in Keys /\ Key(p)' = Key(p) /\ Row(p)' = items'[Key(p)]
      BY <1>2, WorkShapes DEF InFlight, Busily, Key, Row
    <2>3. ASSUME overruns' = 0, Open(Row(p)'), Key(p)' \notin robbed'
          PROVE  HoldsLease(p)'
      <3>1. overruns = 0 /\ overruns' # overruns + 1
        BY <2>3, GrowthStep DEF TypeInv, TypeOK
      <3>2. Open(Row(p)) /\ Key(p) \notin robbed
        BY <2>2, <2>3, RowsKept, RobbedGrows DEF Open, Kept, Row
      <3>3. HoldsLease(p) /\ LiveLease(items[Key(p)])
        BY <1>2, <3>1, <3>2 DEF StillHolds, HoldsLease, LiveLease, Row
      <3>4. ~LeaseAbandoned(Key(p))
        BY <1>2, <2>1, <3>3 DEF LeaseAbandoned, Holding, InFlight
      <3>5. ASSUME NEW q \in Pollers, Quits(q, Key(p)) PROVE FALSE
        <4>1. q # p
          BY <1>2, <2>2, <3>5
        <4>2. CASE pc[q] = "executing"
          <5>1. InFlight(q) /\ Key(q) = Key(p)
            BY <3>5, <4>2, WorkShapes DEF Quits, InFlight, Busily
          <5>2. HoldsLease(q)
            BY <3>1, <3>2, <5>1 DEF StillHolds, Row
          <5>3. QED  BY <3>3, <4>1, <5>1, <5>2 DEF HoldsLease, Row
        <4>3. CASE items[Key(p)].owner = q
          BY <3>3, <4>1, <4>3 DEF HoldsLease, Row
        <4>4. QED  BY <3>5, <4>2, <4>3 DEF Quits
      <3>6. /\ items'[Key(p)].owner = items[Key(p)].owner
            /\ items'[Key(p)].live = items[Key(p)].live
            /\ items'[Key(p)].fence = items[Key(p)].fence
        BY <2>2, <2>3, <3>1, <3>3, <3>4, <3>5, LeaseStep DEF LeaseMove
      <3>7. QED  BY <1>2, <2>2, <3>3, <3>6 DEF HoldsLease, Row
    <2>4. QED  BY <2>1, <2>3
  <1>3. QED  BY <1>1, <1>2, FlightStep

\* One fix is in flight per pull request: at most one process drives its
\* active rows, whatever crashes, redeliveries, cancellations and restarts do
\* (acquire, release, acknowledge_cancellation), as long as no lease runs out
\* under a running holder and no sweep of reconcile_expired_leases has cleared
\* a live lease of the pull request.
THEOREM OneFixCorrect == Spec => []OneFixPerPR
  <1>1. Init => StillHolds
    BY DEF Init, StillHolds, InFlight
  <1>2. TypeInv /\ OneLive /\ StillHolds => OneFixPerPR
    <2> SUFFICES ASSUME TypeInv, OneLive, StillHolds, overruns = 0,
                        NEW p \in Pollers, NEW q \in Pollers,
                        InFlight(p), Active(Row(p)), InFlight(q), Active(Row(q)),
                        PrOf[Key(p)] = PrOf[Key(q)],
                        \A k \in robbed : PrOf[k] # PrOf[Key(p)]
                 PROVE  p = q
      BY DEF OneFixPerPR
    <2>1. Key(p) \in Keys /\ Key(q) \in Keys
      BY WorkShapes DEF InFlight, Busily
    <2>2. HoldsLease(p) /\ HoldsLease(q)
      BY DEF StillHolds, Open, Active
    <2>3. Key(p) = Key(q)
      BY <2>1, <2>2 DEF OneLive, HoldsLease, LiveLease, Row
    <2>4. QED  BY <2>2, <2>3 DEF HoldsLease, Row
  <1>3. QED
    BY <1>1, <1>2, HoldStep, OneLiveInvariant, TypeInvariant, PTL DEF Spec

-----------------------------------------------------------------------------
(* Claims and commits.                                                     *)

\* A process drives an event after a step because it did before, or because it
\* has just claimed it.
LEMMA DrivingStep ==
    ASSUME TypeInv, [Next]_vars, NEW p \in Pollers, NEW e \in Events, Driving(p, e)'
    PROVE  \/ Driving(p, e) /\ job'[p].role = job[p].role
           \/ \E r \in Roles : Claim(p, e, r) /\ job'[p].role = r
  <1> USE DEF Driving, Driven, Busily
  <1>1. CASE pc'[p] = pc[p] /\ job'[p] = job[p]
    BY <1>1
  <1>2. CASE Proceeds(p) /\ pc'[p] # "claimed"
    BY <1>2 DEF Proceeds
  <1>3. CASE Proceeds(p) /\ pc'[p] = "claimed"
    <2>1. PICK r \in Roles : Claim(p, e, r)
      BY <1>3 DEF Proceeds
    <2>2. job'[p] = [NoJob EXCEPT !.ev = e, !.role = r]
      BY <2>1 DEF Claim, TypeInv, TypeOK
    <2>3. job'[p].role = r
      BY <2>2 DEF NoJob
    <2>4. QED  BY <2>1, <2>3
  <1>4. QED  BY <1>1, <1>2, <1>3, MoveStep DEF Proceeds

\* p is done with the event: it lets its claim lapse or marks it applied.
Settles(p, e) ==
    /\ Driving(p, e) /\ pc'[p] \notin Driven
    /\ \/ /\ ledger'[e].st = "applied"
          /\ pc[p] = "applying" \/ effects'[e] = effects[e] + 1
       \/ ledger'[e].st = ledger[e].st

\* The claim on the event runs out.
Lapses(e) ==
    /\ ledger'[e].st = ledger[e].st /\ ledger'[e].owner = ledger[e].owner
    /\ \/ ClaimAbandoned(e)
       \/ overruns' = overruns + 1

\* What a step may do to the entry of an event.
LedgerMove(e) ==
    \/ ledger'[e] = ledger[e]
    \/ \E p \in Pollers, r \in Roles : Claim(p, e, r)
    \/ ledger[e].st = "processing" /\ ledger'[e].st = "legacy"
    \/ \E p \in Pollers : Settles(p, e)
    \/ Lapses(e)

\* The actions that touch the ledger.
LEMMA SettleStep ==
    ASSUME TypeInv, NEW p \in Pollers, NEW e \in Events,
           ExpireClaim(p) \/ TransitionAndApply(p) \/ Apply(p)
    PROVE  ledger'[e] = ledger[e] \/ Settles(p, e)
  <1>0. /\ job[p].ev \in Events /\ ledger \in [Events -> Claims]
        /\ pc \in [Pollers -> Places] /\ effects \in [Events -> Nat]
    BY WorkShapes DEF ExpireClaim, TransitionAndApply, Apply, Busily, TypeInv, TypeOK, Places
  <1>1. CASE e # job[p].ev
    BY <1>0, <1>1 DEF ExpireClaim, TransitionAndApply, Apply, Folded, Applied
  <1>2. CASE e = job[p].ev
    <2>1. Driving(p, e)
      BY <1>2 DEF Driving, ExpireClaim, TransitionAndApply, Apply
    <2>2. CASE ExpireClaim(p)
      <3>1. ledger'[e].st = ledger[e].st
        BY <1>0, <1>2, <2>2 DEF ExpireClaim, Claims
      <3>2. pc'[p] = "ready"
        BY <1>0, <2>2 DEF ExpireClaim
      <3>3. QED  BY <2>1, <3>1, <3>2 DEF Settles, Driven, Busily
    <2>3. CASE TransitionAndApply(p)
      <3>1. \/ ledger' = ledger
            \/ ledger' = Applied(e) /\ effects' = [effects EXCEPT ![e] = @ + 1]
        BY <1>2, <2>3 DEF TransitionAndApply, Folded
      <3>2. \/ ledger'[e] = ledger[e]
            \/ ledger'[e].st = "applied" /\ effects'[e] = effects[e] + 1
        BY <1>0, <1>2, <3>1 DEF Applied
      <3>3. pc'[p] = "releasing"
        BY <1>0, <2>3 DEF TransitionAndApply, Raise
      <3>4. QED  BY <2>1, <3>2, <3>3 DEF Settles, Driven, Busily
    <2>4. CASE Apply(p)
      <3>1. ledger'[e].st = "applied"
        BY <1>0, <1>2, <2>4 DEF Apply, Applied
      <3>2. pc'[p] \in {"ready", "releasing"}
        BY <1>0, <2>4 DEF Apply
      <3>3. QED  BY <2>1, <2>4, <3>1, <3>2 DEF Settles, Driven, Busily, Apply
    <2>5. QED  BY <2>2, <2>3, <2>4
  <1>3. QED  BY <1>1, <1>2

\* Every step, on the entry of one event.
LEMMA LedgerStep ==
    ASSUME TypeInv, [Next]_vars, NEW e \in Events
    PROVE  LedgerMove(e)
  <1> USE DEF LedgerMove
  <1>0. ledger \in [Events -> Claims]
    BY DEF TypeInv, TypeOK
  <1>1. ASSUME NEW p \in Pollers, NEW f \in Events, NEW r \in Roles, Claim(p, f, r)
        PROVE  LedgerMove(e)
    BY <1>0, <1>1 DEF Claim
  <1>2. ASSUME NEW p \in Pollers, RecoverNext(p) PROVE LedgerMove(e)
    <2>1. PICK f \in todo[p] : \/ UNCHANGED ledger
                               \/ FlagLegacy(f)
                               \/ Claim(p, f, "recovery")
      BY <1>2 DEF RecoverNext
    <2>2. f \in Events
      BY DEF TypeInv, TypeOK
    <2>3. CASE FlagLegacy(f)
      <3>1. \/ ledger'[e] = ledger[e]
            \/ ledger[e].st = "processing" /\ ledger'[e] = [Unclaimed EXCEPT !.st = "legacy"]
        BY <1>0, <2>2, <2>3 DEF FlagLegacy
      <3>2. QED  BY <3>1 DEF Unclaimed
    <2>4. QED  BY <1>1, <2>1, <2>2, <2>3 DEF Roles
  <1>3. ASSUME NEW p \in Pollers, Step(p) \/ Crash(p) PROVE LedgerMove(e)
    <2>1. CASE UNCHANGED ledger
      BY <2>1
    <2>2. CASE ExpireClaim(p) \/ TransitionAndApply(p) \/ Apply(p)
      BY <2>2, SettleStep
    <2>3. QED
      BY <1>2, <1>3, <2>1, <2>2
         DEF Step, Restart, ListExpired, ReconcileOne, ReconcileDone, Tick, SupersedeStale,
             Route, Acquire, BeginFixRound, ExecutorStubbed, ExecutorCancelled,
             ExecutorPatched, ExecutorRaises, Release, Crash
  <1>4. ASSUME NEW f \in Events, ClaimExpires(f) PROVE LedgerMove(e)
    <2>1. CASE e # f
      BY <1>0, <1>4, <2>1 DEF ClaimExpires
    <2>2. CASE e = f
      <3>1. ledger'[e] = [ledger[e] EXCEPT !.live = FALSE]
        BY <1>0, <1>4, <2>2 DEF ClaimExpires
      <3>2. ledger'[e].st = ledger[e].st /\ ledger'[e].owner = ledger[e].owner
        BY <1>0, <3>1 DEF Claims
      <3>3. QED  BY <1>4, <2>2, <3>2 DEF ClaimExpires, Lapses
    <2>3. QED  BY <2>1, <2>2
  <1>5. QED
    BY <1>1, <1>3, <1>4 DEF Next, Ingest, LeaseExpires, RequestCancellation, vars, Roles

\* p commits the final transition of the event: the row was open, and the row
\* is closed or the event applied in the same transaction.
Commits(p, e) ==
    /\ Driving(p, e)
    /\ items[KeyOf[e]].state \notin Terminal
    /\ effects'[e] = effects[e] + 1
    /\ ledger'[e].st = "applied" \/ items'[KeyOf[e]].state \in Terminal

\* Every step, on the commits of one event.
LEMMA EffectStep ==
    ASSUME TypeInv, [Next]_vars, NEW e \in Events
    PROVE  effects'[e] = effects[e] \/ \E p \in Pollers : Commits(p, e)
  <1>0. effects \in [Events -> Nat]
    BY DEF TypeInv, TypeOK
  <1>1. ASSUME NEW p \in Pollers, BeginFixRound(p)
        PROVE  effects'[e] = effects[e] \/ Commits(p, e)
    <2>0. job[p].ev \in Events /\ Key(p) \in Keys /\ Row(p) \in Rows
      BY <1>1, WorkShapes DEF BeginFixRound, Busily
    <2> DEFINE to == RoundDecision(Row(p).attempt + 1)
    <2>1. CASE UNCHANGED effects
      BY <2>1
    <2>2. CASE /\ Row(p).state = "AWAIT_REVIEW"
               /\ items' = [items EXCEPT ![Key(p)].attempt = Row(p).attempt + 1,
                                         ![Key(p)].state = to]
               /\ effects' = [effects EXCEPT ![job[p].ev] =
                                 IF to = "ESCALATED" THEN @ + 1 ELSE @]
      <3>1. CASE e # job[p].ev \/ to # "ESCALATED"
        BY <1>0, <2>0, <2>2, <3>1
      <3>2. CASE e = job[p].ev /\ to = "ESCALATED"
        <4>1. Driving(p, e)
          BY <1>1, <3>2 DEF BeginFixRound, Driving
        <4>2. effects'[e] = effects[e] + 1
          BY <1>0, <2>0, <2>2, <3>2
        <4>3. KeyOf[e] = Key(p) /\ items[KeyOf[e]] = Row(p)
          BY <3>2 DEF Key, Row
        <4>4. items'[Key(p)] = [Row(p) EXCEPT !.attempt = Row(p).attempt + 1, !.state = to]
          BY <2>0, <2>2 DEF TypeInv, TypeOK, Row
        <4>5. items'[Key(p)].state = "ESCALATED"
          <5> HIDE DEF to
          <5>1. QED  BY <2>0, <3>2, <4>4 DEF Rows
        <4>6. QED  BY <2>2, <4>1, <4>2, <4>3, <4>5 DEF Commits, Terminal
      <3>3. QED  BY <3>1, <3>2
    <2>3. QED  BY <1>1, <2>1, <2>2 DEF BeginFixRound
  <1>2. ASSUME NEW p \in Pollers, TransitionAndApply(p)
        PROVE  effects'[e] = effects[e] \/ Commits(p, e)
    <2>0. job[p].ev \in Events
      BY <1>2, WorkShapes DEF TransitionAndApply, Busily
    <2>1. CASE UNCHANGED effects
      BY <2>1
    <2>2. CASE /\ CanMove(Row(p).state, job[p].goal)
               /\ ledger' = Applied(job[p].ev)
               /\ effects' = [effects EXCEPT ![job[p].ev] = @ + 1]
      <3>1. CASE e # job[p].ev
        BY <1>0, <2>2, <3>1
      <3>2. CASE e = job[p].ev
        <4>1. Driving(p, e)
          BY <1>2, <3>2 DEF TransitionAndApply, Driving
        <4>2. effects'[e] = effects[e] + 1
          BY <1>0, <2>0, <2>2, <3>2
        <4>3. ledger'[e].st = "applied"
          BY <2>0, <2>2, <3>2 DEF Applied, TypeInv, TypeOK
        <4>4. items[KeyOf[e]].state \notin Terminal
          BY <2>2, <3>2 DEF CanMove, Key, Row
        <4>5. QED  BY <4>1, <4>2, <4>3, <4>4 DEF Commits
      <3>3. QED  BY <3>1, <3>2
    <2>3. QED  BY <1>2, <2>1, <2>2 DEF TransitionAndApply, Folded
  <1>3. ASSUME NEW p \in Pollers, Step(p)
        PROVE  effects'[e] = effects[e] \/ Commits(p, e)
    BY <1>1, <1>2, <1>3
       DEF Step, Restart, ListExpired, ReconcileOne, ReconcileDone, Tick, RecoverNext,
           SupersedeStale, Route, Acquire, ExpireClaim, ExecutorStubbed,
           ExecutorCancelled, ExecutorPatched, ExecutorRaises, Apply, Release
  <1>4. QED
    BY <1>3 DEF Next, Crash, Ingest, LeaseExpires, RequestCancellation, ClaimExpires, vars

\* What OnceInv says of one driver, and of one event.
Exclusive(p, e) ==
    \/ ledger[e].st = "legacy"
    \/ /\ ledger[e].st = "processing" /\ ledger[e].live
       /\ ledger[e].owner = <<p, job[p].role>>

Closed(e) == ledger[e].st = "applied" \/ items[KeyOf[e]].state \in Terminal

\* A claim shuts out the other processes.
LEMMA ClaimStep ==
    ASSUME TypeInv, NEW p \in Pollers, NEW e \in Events, NEW r \in Roles, Claim(p, e, r)
    PROVE  /\ ledger'[e].st = "processing" /\ ledger'[e].live
           /\ ledger'[e].owner = <<p, r>>
           /\ ledger[e].st \in {"absent", "processing"}
           /\ ledger[e].st = "processing" => ~ledger[e].live \/ ledger[e].owner = <<p, r>>
  <1>1. ledger'[e] = [st |-> "processing", owner |-> <<p, r>>, live |-> TRUE]
    BY DEF Claim, TypeInv, TypeOK
  <1>2. QED  BY <1>1 DEF Claim, Claimable

\* An applied event stays applied.
LEMMA AppliedStays ==
    ASSUME TypeInv, [Next]_vars, NEW e \in Events, ledger[e].st = "applied"
    PROVE  ledger'[e].st = "applied"
  BY LedgerStep, ClaimStep DEF LedgerMove, Settles, Lapses

\* One step of the exclusive claims.
LEMMA ExclusiveStep ==
    ASSUME TypeInv, OnceInv, [Next]_vars, overruns' = 0,
           NEW p \in Pollers, NEW e \in Events, Driving(p, e)'
    PROVE  Exclusive(p, e)'
  <1> USE DEF Exclusive
  <1>1. overruns = 0 /\ overruns' # overruns + 1
    BY GrowthStep DEF TypeInv, TypeOK
  <1>2. ASSUME NEW r \in Roles, Claim(p, e, r), job'[p].role = r PROVE Exclusive(p, e)'
    BY <1>2, ClaimStep
  <1>3. ASSUME Driving(p, e), job'[p].role = job[p].role PROVE Exclusive(p, e)'
    <2>1. Exclusive(p, e) /\ \A q \in Pollers : Driving(q, e) => q = p
      BY <1>1, <1>3 DEF OnceInv
    <2>2. CASE ledger'[e] = ledger[e]
      BY <1>3, <2>1, <2>2
    <2>3. ASSUME NEW q \in Pollers, NEW r \in Roles, Claim(q, e, r)
          PROVE  Exclusive(p, e)'
      <3>1. <<p, job[p].role>> = <<q, r>>
        BY <2>1, <2>3, ClaimStep
      <3>2. QED  BY <1>3, <2>3, <3>1, ClaimStep
    <2>4. CASE ledger'[e].st = "legacy"
      BY <2>4
    <2>5. ASSUME NEW q \in Pollers, Settles(q, e) PROVE Exclusive(p, e)'
      BY <2>1, <2>5 DEF Settles, Driving, Driven, Busily
    <2>6. CASE Lapses(e)
      <3>1. ~ClaimAbandoned(e) \/ ledger[e].st = "legacy"
        BY <1>3, <2>1 DEF ClaimAbandoned
      <3>2. QED  BY <1>1, <2>6, <3>1 DEF Lapses
    <2>7. QED  BY <2>2, <2>3, <2>4, <2>5, <2>6, LedgerStep DEF LedgerMove
  <1>4. QED  BY <1>2, <1>3, DrivingStep

\* One step of the claims and commits.
LEMMA OnceStep == TypeInv /\ OnceInv /\ [Next]_vars => OnceInv'
  <1> SUFFICES ASSUME TypeInv, OnceInv, [Next]_vars, overruns' = 0
               PROVE  /\ \A p \in Pollers, e \in Events : Driving(p, e)' => Exclusive(p, e)'
                      /\ \A p, q \in Pollers : \A e \in Events :
                             Driving(p, e)' /\ Driving(q, e)' => p = q
                      /\ \A e \in Events : effects'[e] <= 1 /\ (effects'[e] = 1 => Closed(e)')
    BY DEF OnceInv, Exclusive, Closed
  <1>1. ASSUME NEW p \in Pollers, NEW e \in Events, Driving(p, e)' PROVE Exclusive(p, e)'
    BY <1>1, ExclusiveStep
  <1>2. overruns = 0
    BY GrowthStep DEF TypeInv, TypeOK
  <1>3. ASSUME NEW p \in Pollers, NEW q \in Pollers, NEW e \in Events,
               Driving(p, e)', Driving(q, e)'
        PROVE  p = q
    <2>1. ASSUME NEW x \in Pollers, NEW y \in Pollers, NEW r \in Roles,
                 Claim(x, e, r), Driving(y, e)'
          PROVE  x = y
      <3>1. Exclusive(y, e)'
        BY <2>1, <1>1
      <3>2. ledger'[e].st = "processing" /\ ledger'[e].owner = <<x, r>>
        BY <2>1, ClaimStep
      <3>3. QED  BY <3>1, <3>2 DEF Exclusive
    <2>2. CASE Driving(p, e) /\ Driving(q, e)
      BY <1>2, <2>2 DEF OnceInv
    <2>3. QED  BY <1>3, <2>1, <2>2, DrivingStep
  <1>4. ASSUME NEW e \in Events
        PROVE  effects'[e] <= 1 /\ (effects'[e] = 1 => Closed(e)')
    <2>0. effects[e] \in Nat /\ effects[e] <= 1 /\ (effects[e] = 1 => Closed(e))
      BY <1>2 DEF OnceInv, Closed, TypeInv, TypeOK
    <2>1. CASE effects'[e] = effects[e]
      <3>1. Closed(e) => Closed(e)'
        BY AppliedStays, RowsKept DEF Closed, Kept
      <3>2. QED  BY <2>0, <2>1, <3>1
    <2>2. ASSUME NEW p \in Pollers, Commits(p, e)
          PROVE  effects'[e] <= 1 /\ (effects'[e] = 1 => Closed(e)')
      <3>1. Exclusive(p, e)
        BY <1>2, <2>2 DEF OnceInv, Exclusive, Commits
      <3>2. ~Closed(e)
        BY <2>2, <3>1 DEF Closed, Exclusive, Commits
      <3>3. QED  BY <2>0, <2>2, <3>2 DEF Commits, Closed
    <2>3. QED  BY <2>1, <2>2, EffectStep
  <1>5. QED  BY <1>1, <1>3, <1>4

\* Claims are exclusive and commits final in every reachable state.
LEMMA OnceInvariant == Spec => []OnceInv
  <1>1. Init => OnceInv
    BY DEF Init, OnceInv, Driving
  <1>2. QED  BY <1>1, OnceStep, TypeInvariant, PTL DEF Spec

\* An event commits at most one final transition, across crashes, redeliveries
\* and recovery passes, as long as no lease runs out under a running holder
\* (claim_event, transition_and_apply).
THEOREM OnceCorrect == Spec => []ExactlyOnce
  <1>1. OnceInv => ExactlyOnce
    BY DEF OnceInv, ExactlyOnce
  <1>2. QED  BY <1>1, OnceInvariant, PTL

-----------------------------------------------------------------------------
(* Rounds are charged to events.                                           *)

\* The events of a row that have committed their final transition.
Spent(k) == {e \in Events : KeyOf[e] = k /\ effects[e] # 0}

\* An event that arrived for the row and has not.
Unspent(k) == \E e \in Events : KeyOf[e] = k /\ effects[e] = 0 /\ ledger[e].st # "absent"

\* As long as no lease ran out under its holder, every round of a row but the
\* one in flight is paid for by a committed event, and that one by another.
RoundInv ==
    overruns = 0 =>
    /\ \A e \in Events : effects[e] # 0 => ledger[e].st # "absent"
    /\ \A k \in Keys :
           \/ items[k].attempt <= Cardinality(Spent(k))
           \/ /\ items[k].attempt = Cardinality(Spent(k)) + 1
              /\ items[k].state \in Terminal \cup {"FIXING"}
              /\ Unspent(k)

\* A write that begins no round and ends none but for good.
SameRound(r, s) ==
    /\ s.attempt = r.attempt
    /\ r.state \in Terminal \cup {"FIXING"} => s.state \in Terminal \cup {"FIXING"}

\* The writes of every action but the transitions.
LEMMA SameRoundWrites ==
    ASSUME NEW r \in Rows
    PROVE  /\ SameRound(r, r) /\ SameRound(r, Unleased(r)) /\ SameRound(r, Ensured(r))
           /\ SameRound(r, [Unleased(r) EXCEPT !.cancel = FALSE])
           /\ SameRound(r, [Unleased(r) EXCEPT !.state = "DROPPED", !.sup = TRUE])
           /\ SameRound(r, [r EXCEPT !.sup = TRUE, !.cancel = TRUE])
           /\ SameRound(r, [r EXCEPT !.rerun = TRUE])
           /\ SameRound(r, [r EXCEPT !.cancel = TRUE])
           /\ SameRound(r, [r EXCEPT !.live = FALSE])
           /\ \A p \in Pollers : SameRound(r, Won(r, p))
  <1> USE DEF SameRound, Terminal
  <1>1. /\ SameRound(r, r) /\ SameRound(r, Unleased(r)) /\ SameRound(r, Ensured(r))
        /\ SameRound(r, [Unleased(r) EXCEPT !.cancel = FALSE])
        /\ SameRound(r, [Unleased(r) EXCEPT !.state = "DROPPED", !.sup = TRUE])
    BY DEF Rows, Unleased, Ensured
  <1>2. /\ SameRound(r, [r EXCEPT !.sup = TRUE, !.cancel = TRUE])
        /\ SameRound(r, [r EXCEPT !.rerun = TRUE])
        /\ SameRound(r, [r EXCEPT !.cancel = TRUE])
        /\ SameRound(r, [r EXCEPT !.live = FALSE])
        /\ \A p \in Pollers : SameRound(r, Won(r, p))
    BY DEF Rows, Won
  <1>3. QED  BY <1>1, <1>2

\* The step commits an event of the row, or begins a round on behalf of one.
Commit(k, e) ==
    /\ effects' = [effects EXCEPT ![e] = @ + 1]
    /\ items'[k].attempt = items[k].attempt

Begin(k, e) ==
    /\ items[k].state = "AWAIT_REVIEW"
    /\ items'[k].attempt = items[k].attempt + 1
    /\ \/ effects' = effects /\ items'[k].state = "FIXING"
       \/ effects' = [effects EXCEPT ![e] = @ + 1]

\* What a step may do to the rounds of a row.
RoundMove(k) ==
    \/ /\ SameRound(items[k], items'[k])
       /\ \A e \in Events : KeyOf[e] = k => effects'[e] = effects[e]
    \/ \E p \in Pollers, e \in Events :
           /\ Driving(p, e) /\ KeyOf[e] = k /\ items[k].state \notin Terminal
           /\ Commit(k, e) \/ Begin(k, e)

\* The transitions, on the rounds of one row.
LEMMA TransitionRounds ==
    ASSUME TypeInv, NEW p \in Pollers, NEW k \in Keys,
           BeginFixRound(p) \/ TransitionAndApply(p)
    PROVE  RoundMove(k)
  <1> USE DEF RoundMove
  <1>0. /\ job[p].ev \in Events /\ Key(p) \in Keys /\ Row(p) \in Rows /\ items[k] \in Rows
        /\ items \in [Keys -> Rows] /\ effects \in [Events -> Nat]
        /\ Driving(p, job[p].ev) /\ KeyOf[job[p].ev] = Key(p)
    BY WorkShapes
       DEF BeginFixRound, TransitionAndApply, Busily, TypeInv, TypeOK, Driving, Key
  <1>1. CASE UNCHANGED <<items, effects>>
    BY <1>0, <1>1, SameRoundWrites
  <1>2. ASSUME Key(p) # k, \E s : items' = [items EXCEPT ![Key(p)] = s],
               effects' = effects \/ \E x : effects' = [effects EXCEPT ![job[p].ev] = x]
        PROVE  RoundMove(k)
    <2>1. items'[k] = items[k]
      BY <1>0, <1>2
    <2>2. \A e \in Events : KeyOf[e] = k => effects'[e] = effects[e]
      BY <1>0, <1>2
    <2>3. QED  BY <1>0, <2>1, <2>2, SameRoundWrites
  <1>3. CASE BeginFixRound(p)
    <2> DEFINE n == Row(p).attempt + 1
               to == RoundDecision(n)
               s == [Row(p) EXCEPT !.attempt = n, !.state = to]
    <2>1. \/ UNCHANGED <<items, effects>>
          \/ /\ Row(p).state = "AWAIT_REVIEW"
             /\ items' = [items EXCEPT ![Key(p)].attempt = n, ![Key(p)].state = to]
             /\ effects' = [effects EXCEPT ![job[p].ev] =
                               IF to = "ESCALATED" THEN @ + 1 ELSE @]
      BY <1>3 DEF BeginFixRound
    <2>2. ASSUME Row(p).state = "AWAIT_REVIEW",
                 items' = [items EXCEPT ![Key(p)].attempt = n, ![Key(p)].state = to],
                 effects' = [effects EXCEPT ![job[p].ev] =
                                IF to = "ESCALATED" THEN @ + 1 ELSE @]
          PROVE  RoundMove(k)
      <3>1. to \in {"ESCALATED", "FIXING"} /\ n = Row(p).attempt + 1
        BY DEF RoundDecision
      <3> HIDE DEF n, to
      <3>2. items' = [items EXCEPT ![Key(p)] = s]
        BY <1>0, <2>2 DEF Row
      <3>3. s.attempt = n /\ s.state = to
        BY <1>0 DEF Rows
      <3> HIDE DEF s
      <3>4. CASE Key(p) = k
        <4>1. items'[k] = s /\ items[k] = Row(p)
          BY <1>0, <3>2, <3>4 DEF Row
        <4>2. \/ effects' = [effects EXCEPT ![job[p].ev] = @ + 1]
              \/ effects' = effects /\ to = "FIXING"
          BY <1>0, <2>2, <3>1
        <4>3. Begin(k, job[p].ev) /\ items[k].state \notin Terminal
          BY <2>2, <3>1, <3>3, <4>1, <4>2 DEF Begin, Terminal
        <4>4. QED  BY <1>0, <3>4, <4>3
      <3>5. CASE Key(p) # k
        BY <1>2, <2>2, <3>2, <3>5
      <3>6. QED  BY <3>4, <3>5
    <2>3. QED  BY <1>1, <2>1, <2>2
  <1>4. CASE TransitionAndApply(p)
    <2> DEFINE s == [Row(p) EXCEPT !.state = job[p].goal]
    <2>1. ASSUME CanMove(Row(p).state, job[p].goal),
                 items' = [items EXCEPT ![Key(p)].state = job[p].goal],
                 effects' = [effects EXCEPT ![job[p].ev] = @ + 1]
          PROVE  RoundMove(k)
      <3>1. items' = [items EXCEPT ![Key(p)] = s]
        BY <2>1 DEF Row
      <3>2. s.attempt = Row(p).attempt
        BY <1>0 DEF Rows
      <3> HIDE DEF s
      <3>3. CASE Key(p) = k
        <4>1. items'[k] = s /\ items[k] = Row(p)
          BY <1>0, <3>1, <3>3 DEF Row
        <4>2. Commit(k, job[p].ev) /\ items[k].state \notin Terminal
          BY <2>1, <3>2, <4>1 DEF Commit, CanMove
        <4>3. QED  BY <1>0, <3>3, <4>2
      <3>4. CASE Key(p) # k
        BY <1>2, <2>1, <3>1, <3>4
      <3>5. QED  BY <3>3, <3>4
    <2>2. QED  BY <1>1, <1>4, <2>1 DEF TransitionAndApply
  <1>5. QED  BY <1>3, <1>4

\* Every step, on the rounds of one row.
LEMMA RoundStep ==
    ASSUME TypeInv, [Next]_vars, NEW k \in Keys
    PROVE  RoundMove(k)
  <1>0. items[k] \in Rows /\ items \in [Keys -> Rows]
    BY EveryRow DEF TypeInv, TypeOK
  <1>a. ASSUME UNCHANGED effects, SameRound(items[k], items'[k]) PROVE RoundMove(k)
    BY <1>a DEF RoundMove
  <1>b. ASSUME UNCHANGED effects, NEW j \in Keys, NEW s, SameRound(items[j], s),
               items' = [items EXCEPT ![j] = s]
        PROVE  RoundMove(k)
    BY <1>0, <1>a, <1>b, SameRoundWrites
  <1>c. ASSUME NEW p \in Pollers, pc[p] \in Busily
        PROVE  Key(p) \in Keys /\ items[Key(p)] \in Rows
    BY <1>0, <1>c, WorkShapes
  <1>d. ASSUME UNCHANGED <<items, effects>> PROVE RoundMove(k)
    BY <1>0, <1>a, <1>d, SameRoundWrites
  <1>1. ASSUME NEW p \in Pollers, Restart(p) \/ SupersedeStale(p) PROVE RoundMove(k)
    <2>1. \/ items'[k] = items[k]
          \/ items'[k] = [Unleased(items[k]) EXCEPT !.cancel = FALSE]
          \/ items'[k] = [items[k] EXCEPT !.sup = TRUE, !.cancel = TRUE]
      BY <1>1 DEF Restart, SupersedeStale
    <2>2. UNCHANGED effects
      BY <1>1 DEF Restart, SupersedeStale
    <2>3. SameRound(items[k], items'[k])
      BY <1>0, <2>1, SameRoundWrites
    <2>4. QED  BY <1>a, <2>2, <2>3
  <1>2. ASSUME NEW p \in Pollers, ReconcileOne(p) PROVE RoundMove(k)
    <2>1. PICK j \in sweep[p] :
             \/ items' = [items EXCEPT ![j] = Unleased(items[j])]
             \/ items' = [items EXCEPT ![j] =
                             [Unleased(items[j]) EXCEPT !.state = "DROPPED", !.sup = TRUE]]
      BY <1>2 DEF ReconcileOne
    <2>2. j \in Keys /\ items[j] \in Rows /\ UNCHANGED effects
      BY <1>0, <1>2 DEF TypeInv, TypeOK, ReconcileOne
    <2>3. PICK s : items' = [items EXCEPT ![j] = s] /\ SameRound(items[j], s)
      BY <2>1, <2>2, SameRoundWrites
    <2>4. QED  BY <1>b, <2>2, <2>3
  <1>3. ASSUME NEW p \in Pollers, Route(p) \/ ExecutorCancelled(p) \/ Release(p)
        PROVE  RoundMove(k)
    <2>1. Key(p) \in Keys /\ items[Key(p)] \in Rows
      BY <1>3, <1>c DEF Route, ExecutorCancelled, Release, Busily
    <2>2. UNCHANGED effects
      BY <1>3 DEF Route, ExecutorCancelled, Release
    <2>3. \/ UNCHANGED items
          \/ items' = [items EXCEPT ![Key(p)] = Ensured(items[Key(p)])]
          \/ items' = [items EXCEPT ![Key(p)] =
                          [Unleased(items[Key(p)]) EXCEPT !.cancel = FALSE]]
          \/ items' = [items EXCEPT ![Key(p)] = Unleased(items[Key(p)])]
      BY <1>3 DEF Route, ExecutorCancelled, Release
    <2>4. UNCHANGED items \/ \E s : /\ items' = [items EXCEPT ![Key(p)] = s]
                                    /\ SameRound(items[Key(p)], s)
      BY <2>1, <2>3, SameRoundWrites
    <2>5. QED  BY <1>b, <1>d, <2>1, <2>2, <2>4
  <1>4. ASSUME NEW p \in Pollers, Acquire(p) PROVE RoundMove(k)
    <2>1. Key(p) \in Keys /\ items[Key(p)] \in Rows
      BY <1>4, <1>c DEF Acquire, Busily
    <2>2. UNCHANGED effects
      BY <1>4 DEF Acquire
    <2>3. \/ UNCHANGED items
          \/ items' = [items EXCEPT ![Key(p)] = [items[Key(p)] EXCEPT !.rerun = TRUE]]
          \/ items' = [items EXCEPT ![Key(p)] = Won(items[Key(p)], p)]
      BY <1>4 DEF Acquire
    <2>4. UNCHANGED items \/ \E s : /\ items' = [items EXCEPT ![Key(p)] = s]
                                    /\ SameRound(items[Key(p)], s)
      BY <2>1, <2>3, SameRoundWrites
    <2>5. QED  BY <1>b, <1>d, <2>1, <2>2, <2>4
  <1>5. ASSUME NEW p \in Pollers, Step(p) PROVE RoundMove(k)
    BY <1>d, <1>1, <1>2, <1>3, <1>4, <1>5, TransitionRounds
       DEF Step, ListExpired, ReconcileDone, Tick, RecoverNext, ExpireClaim,
           ExecutorStubbed, ExecutorPatched, ExecutorRaises, Apply
  <1>6. ASSUME NEW j \in Keys, LeaseExpires(j) \/ RequestCancellation(j)
        PROVE  RoundMove(k)
    <2>1. items[j] \in Rows /\ UNCHANGED effects
      BY <1>0, <1>6 DEF LeaseExpires, RequestCancellation
    <2>2. \/ items' = [items EXCEPT ![j] = [items[j] EXCEPT !.live = FALSE]]
          \/ items' = [items EXCEPT ![j] = [items[j] EXCEPT !.cancel = TRUE]]
      BY <1>6 DEF LeaseExpires, RequestCancellation
    <2>3. QED  BY <1>b, <2>1, <2>2, SameRoundWrites
  <1>7. QED
    BY <1>d, <1>5, <1>6 DEF Next, Crash, Ingest, ClaimExpires, vars

\* An event that arrived stays in the ledger.
LEMMA ArrivedStays ==
    ASSUME TypeInv, [Next]_vars, NEW e \in Events, ledger[e].st # "absent"
    PROVE  ledger'[e].st # "absent"
  BY LedgerStep, ClaimStep DEF LedgerMove, Settles, Lapses

\* A driver's event has arrived and, on an open row, has committed nothing yet.
LEMMA DrivenEvent ==
    ASSUME TypeInv, OnceInv, overruns = 0, NEW p \in Pollers, NEW e \in Events,
           Driving(p, e)
    PROVE  /\ ledger[e].st # "absent"
           /\ items[KeyOf[e]].state \notin Terminal => effects[e] = 0
  <1>1. Exclusive(p, e)
    BY DEF OnceInv, Exclusive
  <1>2. effects[e] \in Nat /\ effects[e] <= 1 /\ (effects[e] = 1 => Closed(e))
    BY DEF OnceInv, Closed, TypeInv, TypeOK
  <1>3. QED  BY <1>1, <1>2 DEF Exclusive, Closed

\* One step of the charged rounds.
LEMMA RoundInvStep ==
    ASSUME IsFiniteSet(Events)
    PROVE  TypeInv /\ OnceInv /\ RoundInv /\ [Next]_vars => RoundInv'
  <1> SUFFICES ASSUME TypeInv, OnceInv, RoundInv, [Next]_vars, overruns' = 0
               PROVE  /\ \A e \in Events : effects'[e] # 0 => ledger'[e].st # "absent"
                      /\ \A k \in Keys :
                             \/ items'[k].attempt <= Cardinality(Spent(k)')
                             \/ /\ items'[k].attempt = Cardinality(Spent(k)') + 1
                                /\ items'[k].state \in Terminal \cup {"FIXING"}
                                /\ Unspent(k)'
    BY DEF RoundInv
  <1>0. overruns = 0 /\ effects \in [Events -> Nat]
    BY GrowthStep DEF TypeInv, TypeOK
  <1>1. ASSUME NEW e \in Events, effects'[e] # 0 PROVE ledger'[e].st # "absent"
    <2>1. ledger[e].st # "absent"
      BY <1>0, <1>1, EffectStep, DrivenEvent DEF RoundInv, Commits
    <2>2. QED  BY <2>1, ArrivedStays
  <1>2. ASSUME NEW k \in Keys
        PROVE  \/ items'[k].attempt <= Cardinality(Spent(k)')
               \/ /\ items'[k].attempt = Cardinality(Spent(k)') + 1
                  /\ items'[k].state \in Terminal \cup {"FIXING"}
                  /\ Unspent(k)'
    <2>0. /\ IsFiniteSet(Spent(k)) /\ Cardinality(Spent(k)) \in Nat
          /\ items[k].attempt \in Nat
      <3>1. IsFiniteSet(Spent(k))
        BY FS_Subset DEF Spent
      <3>2. QED  BY <3>1, FS_CardinalityType, EveryRow DEF Rows
    <2>a. \/ items[k].attempt <= Cardinality(Spent(k))
          \/ /\ items[k].attempt = Cardinality(Spent(k)) + 1
             /\ items[k].state \in Terminal \cup {"FIXING"}
             /\ Unspent(k)
      BY <1>0 DEF RoundInv
    <2>1. CASE /\ SameRound(items[k], items'[k])
               /\ \A e \in Events : KeyOf[e] = k => effects'[e] = effects[e]
      <3>1. Spent(k)' = Spent(k)
        BY <2>1 DEF Spent
      <3>2. Unspent(k) => Unspent(k)'
        BY <2>1, ArrivedStays DEF Unspent
      <3>3. QED  BY <2>1, <2>a, <3>1, <3>2 DEF SameRound
    <2>2. ASSUME NEW p \in Pollers, NEW e \in Events, Driving(p, e), KeyOf[e] = k,
                 items[k].state \notin Terminal, Commit(k, e) \/ Begin(k, e)
          PROVE  \/ items'[k].attempt <= Cardinality(Spent(k)')
                 \/ /\ items'[k].attempt = Cardinality(Spent(k)') + 1
                    /\ items'[k].state \in Terminal \cup {"FIXING"}
                    /\ Unspent(k)'
      <3>1. effects[e] = 0 /\ ledger'[e].st # "absent"
        BY <1>0, <2>2, DrivenEvent, ArrivedStays
      <3>2. ASSUME effects' = [effects EXCEPT ![e] = @ + 1]
            PROVE  Cardinality(Spent(k)') = Cardinality(Spent(k)) + 1
        <4>1. Spent(k)' = Spent(k) \cup {e} /\ e \notin Spent(k)
          BY <1>0, <2>2, <3>1, <3>2 DEF Spent
        <4>2. QED  BY <2>0, <4>1, FS_AddElement
      <3>3. CASE Commit(k, e)
        BY <2>0, <2>a, <3>2, <3>3 DEF Commit
      <3>4. CASE Begin(k, e)
        <4>1. items[k].attempt <= Cardinality(Spent(k))
          BY <2>a, <3>4 DEF Begin, Terminal
        <4>2. CASE effects' = effects /\ items'[k].state = "FIXING"
          <5>1. Spent(k)' = Spent(k) /\ Unspent(k)'
            BY <2>2, <3>1, <4>2 DEF Spent, Unspent
          <5>2. QED  BY <2>0, <3>4, <4>1, <4>2, <5>1 DEF Begin
        <4>3. CASE effects' = [effects EXCEPT ![e] = @ + 1]
          BY <2>0, <3>2, <3>4, <4>1, <4>3 DEF Begin
        <4>4. QED  BY <3>4, <4>2, <4>3 DEF Begin
      <3>5. QED  BY <2>2, <3>3, <3>4
    <2>3. QED  BY <2>1, <2>2, RoundStep DEF RoundMove
  <1>3. QED  BY <1>1, <1>2

\* No crash and no redelivery counts a round of its own: a row has begun at
\* most as many fix rounds as events arrived for it (begin_fix_round,
\* _resume_fix), as long as no lease runs out under a running holder.
THEOREM RoundsCorrect ==
    ASSUME IsFiniteSet(Events)
    PROVE  Spec => []RoundsAskedFor
  <1>1. Init => RoundInv
    <2> SUFFICES ASSUME Init PROVE RoundInv
      OBVIOUS
    <2>1. \A k \in Keys : Spent(k) = {} /\ items[k].attempt = 0
      BY DEF Init, Spent, NoRow
    <2>2. ASSUME NEW k \in Keys PROVE items[k].attempt <= Cardinality(Spent(k))
      <3>1. Cardinality(Spent(k)) = 0 /\ items[k].attempt = 0
        BY <2>1, FS_EmptySet, Zenon
      <3>2. QED  BY <3>1
    <2>3. \A e \in Events : effects[e] = 0
      BY DEF Init
    <2>4. QED  BY <2>2, <2>3 DEF RoundInv
  <1>2. TypeInv /\ RoundInv => RoundsAskedFor
    <2> SUFFICES ASSUME TypeInv, RoundInv, overruns = 0, NEW k \in Keys
                 PROVE  items[k].attempt <=
                            Cardinality({e \in Events : KeyOf[e] = k
                                                        /\ ledger[e].st # "absent"})
      BY DEF RoundsAskedFor
    <2> DEFINE Here == {e \in Events : KeyOf[e] = k /\ ledger[e].st # "absent"}
    <2>1. IsFiniteSet(Here) /\ IsFiniteSet(Spent(k)) /\ Spent(k) \subseteq Here
      BY FS_Subset DEF RoundInv, Spent
    <2>2. /\ Cardinality(Here) \in Nat /\ Cardinality(Spent(k)) \in Nat
          /\ Cardinality(Spent(k)) <= Cardinality(Here) /\ items[k].attempt \in Nat
      BY <2>1, FS_CardinalityType, FS_Subset, EveryRow DEF Rows
    <2>3. CASE items[k].attempt <= Cardinality(Spent(k))
      BY <2>2, <2>3
    <2>4. CASE items[k].attempt = Cardinality(Spent(k)) + 1 /\ Unspent(k)
      <3>1. PICK e \in Here : e \notin Spent(k)
        BY <2>4 DEF Unspent, Spent
      <3>2. Spent(k) \cup {e} \subseteq Here
        BY <2>1, <3>1
      <3>3. Cardinality(Spent(k) \cup {e}) = Cardinality(Spent(k)) + 1
        BY <2>1, <3>1, FS_AddElement
      <3>4. Cardinality(Spent(k) \cup {e}) <= Cardinality(Here)
        BY <2>1, <3>2, FS_Subset
      <3>5. QED  BY <2>2, <2>4, <3>3, <3>4
    <2>5. QED  BY <2>3, <2>4 DEF RoundInv
  <1>3. TypeInv /\ OnceInv /\ RoundInv /\ [Next]_vars => RoundInv'
    BY RoundInvStep
  <1>4. QED  BY <1>1, <1>2, <1>3, OnceInvariant, TypeInvariant, PTL DEF Spec

-----------------------------------------------------------------------------
(* Work is answered before it is marked applied.                           *)

\* A cancellation is asked for by a newer head or by the operator.
CancelKept(k) ==
    items'[k].cancel => items[k].cancel \/ items'[k].sup \/ k \in aborted'

\* Every step, on the cancellation flag of one row.
LEMMA CancelStep ==
    ASSUME TypeInv, [Next]_vars, NEW k \in Keys
    PROVE  CancelKept(k)
  <1> USE DEF CancelKept
  <1>0. items[k] \in Rows /\ items \in [Keys -> Rows]
    BY EveryRow DEF TypeInv, TypeOK
  <1>a. ASSUME UNCHANGED items PROVE CancelKept(k)
    BY <1>a
  <1>b. ASSUME NEW j \in Keys, NEW s, items' = [items EXCEPT ![j] = s],
               j = k => ~s.cancel \/ s.cancel = items[k].cancel \/ s.sup
        PROVE  CancelKept(k)
    BY <1>0, <1>b
  <1>c. ASSUME NEW p \in Pollers, pc[p] \in Busily
        PROVE  Key(p) \in Keys /\ Row(p) \in Rows /\ items[Key(p)] = Row(p)
    BY <1>c, WorkShapes DEF Row
  <1>1. ASSUME NEW p \in Pollers, Restart(p) PROVE CancelKept(k)
    BY <1>0, <1>1, CancelWrites DEF Restart
  <1>2. ASSUME NEW p \in Pollers, ReconcileOne(p) PROVE CancelKept(k)
    <2>1. PICK j \in sweep[p] :
             \/ items' = [items EXCEPT ![j] = Unleased(items[j])]
             \/ items' = [items EXCEPT ![j] =
                             [Unleased(items[j]) EXCEPT !.state = "DROPPED", !.sup = TRUE]]
      BY <1>2 DEF ReconcileOne
    <2>2. j \in Keys
      BY DEF TypeInv, TypeOK
    <2>3. items[j] \in Rows
      BY <1>0, <2>2
    <2>4. CASE items' = [items EXCEPT ![j] = Unleased(items[j])]
      BY <1>b, <2>2, <2>3, <2>4, CancelWrites
    <2>5. CASE items' = [items EXCEPT ![j] =
                            [Unleased(items[j]) EXCEPT !.state = "DROPPED", !.sup = TRUE]]
      BY <1>b, <2>2, <2>3, <2>5, CancelWrites
    <2>6. QED  BY <2>1, <2>4, <2>5
  <1>3. ASSUME NEW p \in Pollers, SupersedeStale(p) PROVE CancelKept(k)
    <2>1. \/ items'[k] = items[k]
          \/ items'[k] = [items[k] EXCEPT !.sup = TRUE, !.cancel = TRUE]
      BY <1>3 DEF SupersedeStale
    <2>2. [items[k] EXCEPT !.sup = TRUE, !.cancel = TRUE].sup
      BY <1>0, CancelWrites
    <2>3. QED  BY <2>1, <2>2
  <1>4. ASSUME NEW p \in Pollers, Route(p) PROVE CancelKept(k)
    <2>1. Key(p) \in Keys /\ items' = [items EXCEPT ![Key(p)] = Ensured(items[Key(p)])]
      BY <1>4, <1>c DEF Route, Busily
    <2>2. Ensured(items[Key(p)]).cancel = items[Key(p)].cancel
      BY <1>0, <2>1, CancelWrites
    <2>3. QED  BY <1>b, <2>1, <2>2
  <1>5. ASSUME NEW p \in Pollers, Acquire(p) PROVE CancelKept(k)
    <2>1. Key(p) \in Keys
      BY <1>5, <1>c DEF Acquire, Busily
    <2>2. \/ UNCHANGED items
          \/ items' = [items EXCEPT ![Key(p)] = [items[Key(p)] EXCEPT !.rerun = TRUE]]
          \/ items' = [items EXCEPT ![Key(p)] = Won(items[Key(p)], p)]
      BY <1>5 DEF Acquire
    <2>3. items[Key(p)] \in Rows
      BY <1>0, <2>1
    <2>4. CASE items' = [items EXCEPT ![Key(p)] = [items[Key(p)] EXCEPT !.rerun = TRUE]]
      BY <1>b, <2>1, <2>3, <2>4, CancelWrites
    <2>5. CASE items' = [items EXCEPT ![Key(p)] = Won(items[Key(p)], p)]
      BY <1>b, <2>1, <2>3, <2>5, CancelWrites
    <2>6. QED  BY <1>a, <2>2, <2>4, <2>5
  <1>6. ASSUME NEW p \in Pollers, BeginFixRound(p) PROVE CancelKept(k)
    <2> DEFINE n == Row(p).attempt + 1
               to == RoundDecision(n)
               s == [Row(p) EXCEPT !.attempt = n, !.state = to]
    <2>1. Key(p) \in Keys /\ Row(p) \in Rows /\ items[Key(p)] = Row(p)
      BY <1>6, <1>c DEF BeginFixRound, Busily
    <2>2. \/ UNCHANGED items
          \/ items' = [items EXCEPT ![Key(p)].attempt = n, ![Key(p)].state = to]
      BY <1>6 DEF BeginFixRound
    <2>3. UNCHANGED items \/ items' = [items EXCEPT ![Key(p)] = s]
      <3> HIDE DEF n, to
      <3>1. QED  BY <1>0, <2>1, <2>2
    <2>4. s.cancel = Row(p).cancel
      BY <2>1, CancelWrites
    <2> HIDE DEF s
    <2>5. QED  BY <1>a, <1>b, <2>1, <2>3, <2>4
  <1>7. ASSUME NEW p \in Pollers, ExecutorCancelled(p) PROVE CancelKept(k)
    <2>1. /\ Key(p) \in Keys
          /\ items' = [items EXCEPT ![Key(p)] =
                          [Unleased(items[Key(p)]) EXCEPT !.cancel = FALSE]]
      BY <1>7, <1>c DEF ExecutorCancelled, Busily
    <2>2. QED  BY <1>0, <1>b, <2>1, CancelWrites
  <1>8. ASSUME NEW p \in Pollers, TransitionAndApply(p) PROVE CancelKept(k)
    <2>1. Key(p) \in Keys
      BY <1>8, <1>c DEF TransitionAndApply, Busily
    <2>2. \/ UNCHANGED items
          \/ items' = [items EXCEPT ![Key(p)] = [items[Key(p)] EXCEPT !.state = job[p].goal]]
      BY <1>8 DEF TransitionAndApply
    <2>3. items[Key(p)] \in Rows
      BY <1>0, <2>1
    <2>4. CASE items' = [items EXCEPT ![Key(p)] = [items[Key(p)] EXCEPT !.state = job[p].goal]]
      BY <1>b, <2>1, <2>3, <2>4, CancelWrites
    <2>5. QED  BY <1>a, <2>2, <2>4
  <1>9. ASSUME NEW p \in Pollers, Release(p) PROVE CancelKept(k)
    <2>1. Key(p) \in Keys
      BY <1>9, <1>c DEF Release, Busily
    <2>2. \/ UNCHANGED items
          \/ items' = [items EXCEPT ![Key(p)] = Unleased(items[Key(p)])]
      BY <1>9 DEF Release
    <2>3. items[Key(p)] \in Rows
      BY <1>0, <2>1
    <2>4. CASE items' = [items EXCEPT ![Key(p)] = Unleased(items[Key(p)])]
      BY <1>b, <2>1, <2>3, <2>4, CancelWrites
    <2>5. QED  BY <1>a, <2>2, <2>4
  <1>10. ASSUME NEW p \in Pollers, Step(p) PROVE CancelKept(k)
    BY <1>a, <1>1, <1>2, <1>3, <1>4, <1>5, <1>6, <1>7, <1>8, <1>9, <1>10
       DEF Step, ListExpired, ReconcileDone, Tick, RecoverNext, ExpireClaim,
           ExecutorStubbed, ExecutorPatched, ExecutorRaises, Apply
  <1>11. ASSUME NEW j \in Keys, LeaseExpires(j) PROVE CancelKept(k)
    <2>1. items' = [items EXCEPT ![j] = [items[j] EXCEPT !.live = FALSE]]
      BY <1>11 DEF LeaseExpires
    <2>2. QED  BY <1>0, <1>b, <2>1, CancelWrites
  <1>12. ASSUME NEW j \in Keys, RequestCancellation(j) PROVE CancelKept(k)
    <2>1. j \in aborted' /\ (j # k => items'[k] = items[k])
      BY <1>0, <1>12 DEF RequestCancellation
    <2>2. QED  BY <2>1
  <1>13. QED
    BY <1>a, <1>10, <1>11, <1>12 DEF Next, Crash, Ingest, ClaimExpires, vars

\* What is settled stays settled.
LEMMA AnsweredStays ==
    ASSUME TypeInv, [Next]_vars, NEW e \in Events, Answered(e)
    PROVE  Answered(e)'
  <1>1. KeyOf[e] \in Keys /\ effects[e] \in Nat
    BY DEF TypeInv, TypeOK
  <1>2. aborted \subseteq aborted'
    BY GrowthStep
  <1>3. Settled(KeyOf[e]) => Settled(KeyOf[e])'
    BY <1>1, <1>2, RowsKept DEF Settled, Kept
  <1>4. effects[e] # 0 => effects'[e] # 0
    BY <1>1, EffectStep DEF Commits
  <1>5. QED  BY <1>3, <1>4 DEF Answered

\* The ways for a process to come to mark its event applied.
LEMMA ApplyingStep ==
    ASSUME TypeInv, [Next]_vars, NEW p \in Pollers, pc'[p] = "applying"
    PROVE  \/ pc[p] = "applying" /\ job'[p].ev = job[p].ev
           \/ Route(p) \/ Acquire(p) \/ BeginFixRound(p) \/ ExecutorCancelled(p)
           \/ ExecutorPatched(p)
  <1>0. pc \in [Pollers -> Places]
    BY DEF TypeInv, TypeOK, Places
  <1>1. ASSUME NEW q \in Pollers, Step(q) \/ Crash(q) \/ \E e \in Events : Ingest(q, e),
               q # p
        PROVE  pc'[p] = pc[p] /\ job'[p] = job[p]
    BY <1>1, RecoveryMoves, ClaimMoves, AcquireMoves, HandlerMoves DEF Step, Proceeds
  <1>2. ASSUME Step(p) \/ Crash(p) \/ \E e \in Events : Ingest(p, e)
        PROVE  \/ pc[p] = "applying" /\ job'[p].ev = job[p].ev
               \/ Route(p) \/ Acquire(p) \/ BeginFixRound(p) \/ ExecutorCancelled(p)
               \/ ExecutorPatched(p)
    BY <1>0, <1>2
       DEF Step, Restart, ListExpired, ReconcileOne, ReconcileDone, Tick, RecoverNext,
           Claim, SupersedeStale, ExpireClaim, ExecutorStubbed, ExecutorRaises, Raise,
           TransitionAndApply, Apply, Release, Crash, Ingest
  <1>3. ASSUME UNCHANGED <<pc, job>>
        PROVE  pc[p] = "applying" /\ job'[p].ev = job[p].ev
    BY <1>3
  <1>4. QED
    BY <1>1, <1>2, <1>3 DEF Next, LeaseExpires, RequestCancellation, ClaimExpires, vars

\* Without dry runs, discarded patches and executors that quit unasked, a
\* process marks its event applied only when there is nothing left to do.
LEMMA ApplyingAnswered ==
    ASSUME TypeInv, WorkKeptInv, [Next]_vars, DryRun = {},
           "patch" \notin Outcomes, "quits" \notin Outcomes,
           NEW p \in Pollers, pc'[p] = "applying"
    PROVE  Answered(job[p].ev)'
  <1>e. PICK e : e = job[p].ev
    OBVIOUS
  <1>0. pc \in [Pollers -> Places] /\ pc' \in [Pollers -> Places] /\ TypeInv'
    BY TypeStep DEF TypeInv, TypeOK, Places
  <1>1. CASE pc[p] = "applying" /\ job'[p].ev = job[p].ev
    <2>1. Answered(e) /\ e \in Events
      BY <1>1, <1>e, WorkShapes DEF WorkKeptInv, Busily
    <2>2. Answered(e)'
      BY <2>1, AnsweredStays
    <2>3. job'[p].ev = e
      BY <1>1, <1>e
    <2>4. QED  BY <2>2, <2>3
  <1>2. ASSUME Route(p) \/ Acquire(p) \/ BeginFixRound(p) \/ ExecutorCancelled(p)
        PROVE  /\ e \in Events /\ Key(p) \in Keys /\ Row(p) \in Rows /\ job'[p].ev = e
               /\ KeyOf[e] = Key(p) /\ items[KeyOf[e]] = Row(p)
    <2>1. e \in Events /\ Key(p) \in Keys /\ Row(p) \in Rows
      BY <1>2, <1>e, WorkShapes
         DEF Route, Acquire, BeginFixRound, ExecutorCancelled, Busily
    <2>2. Proceeds(p)
      BY <1>2, AcquireMoves, HandlerMoves
    <2>3. QED  BY <1>e, <2>1, <2>2 DEF Proceeds, Key, Row, Busily
  <1>3. ASSUME Route(p) \/ Acquire(p) \/ BeginFixRound(p) \/ ExecutorCancelled(p),
               Answered(e)
        PROVE  Answered(job[p].ev)'
    <2>1. Answered(e)' /\ job'[p].ev = e
      BY <1>2, <1>3, AnsweredStays
    <2>2. QED  BY <2>1
  <1>4. CASE Route(p)
    <2>1. Goal(Ensured(Row(p)).state, KindOf[e]) = "none"
      BY <1>0, <1>4, <1>e DEF Route
    <2>2. KindOf[e] \in {"approved", "changes", "other"}
      BY <1>2, <1>4
    <2>3. \/ KindOf[e] = "other"
          \/ Ensured(Row(p)).state \in Terminal \cup {"MERGE_ELIGIBLE"}
      BY <2>1, <2>2 DEF Goal
    <2>4. KindOf[e] = "other" \/ Row(p).state \in Terminal \cup {"MERGE_ELIGIBLE"}
      BY <1>2, <1>4, <2>3 DEF Ensured, Terminal, Rows
    <2>5. Answered(e)
      BY <1>2, <1>4, <2>4 DEF Answered, Settled
    <2>6. QED  BY <1>3, <1>4, <2>5
  <1>5. CASE Acquire(p)
    <2>1. AfterAcquire(p) # "applying"
      BY DEF AfterAcquire
    <2>2. ~Wins(p)
      BY <1>0, <2>1 DEF Wins
    <2>3. pc' = [pc EXCEPT ![p] = Contended(Row(p))]
      BY <1>5, <2>2, AcquireRows
    <2>4. Row(p).sup
      BY <1>0, <2>3 DEF Contended
    <2>5. Answered(e)
      BY <1>2, <1>5, <2>4 DEF Answered, Settled
    <2>6. QED  BY <1>3, <1>5, <2>5
  <1>6. CASE BeginFixRound(p)
    <2>1. effects' = [effects EXCEPT ![e] = @ + 1]
      BY <1>0, <1>6, <1>e DEF BeginFixRound, Raise
    <2>2. effects \in [Events -> Nat]
      BY DEF TypeInv, TypeOK
    <2>3. effects'[e] # 0
      BY <1>2, <1>6, <2>1, <2>2
    <2>4. Answered(e)' /\ job'[p].ev = e
      BY <1>2, <1>6, <2>3 DEF Answered
    <2>5. QED  BY <2>4
  <1>7. CASE ExecutorCancelled(p)
    <2>1. Row(p).sup \/ Key(p) \in aborted
      BY <1>2, <1>7 DEF ExecutorCancelled, WorkKeptInv
    <2>2. Answered(e)
      BY <1>2, <1>7, <2>1 DEF Answered, Settled
    <2>3. QED  BY <1>3, <1>7, <2>2
  <1>8. ~ExecutorPatched(p)
    BY DEF ExecutorPatched
  <1>9. QED  BY <1>1, <1>4, <1>5, <1>6, <1>7, <1>8, ApplyingStep

\* One step of the answered work.
LEMMA WorkKeptStep ==
    ASSUME DryRun = {}, "patch" \notin Outcomes, "quits" \notin Outcomes
    PROVE  TypeInv /\ WorkKeptInv /\ [Next]_vars => WorkKeptInv'
  <1> SUFFICES ASSUME TypeInv, WorkKeptInv, [Next]_vars PROVE WorkKeptInv'
    OBVIOUS
  <1>1. ASSUME NEW k \in Keys, items'[k].cancel PROVE items'[k].sup \/ k \in aborted'
    <2>1. items[k].sup => items'[k].sup
      BY RowsKept DEF Kept
    <2>2. aborted \subseteq aborted'
      BY GrowthStep
    <2>3. QED  BY <1>1, <2>1, <2>2, CancelStep DEF CancelKept, WorkKeptInv
  <1>2. \A p \in Pollers : pc'[p] = "applying" => Answered(job[p].ev)'
    BY ApplyingAnswered
  <1>3. ASSUME NEW e \in Events, ledger'[e].st = "applied" PROVE Answered(e)'
    <2>0. effects[e] \in Nat
      BY DEF TypeInv, TypeOK
    <2>1. CASE ledger[e].st = "applied"
      BY <2>1, AnsweredStays DEF WorkKeptInv
    <2>2. CASE ledger[e].st # "applied"
      <3>1. PICK p \in Pollers : Settles(p, e)
        BY <1>3, <2>2, LedgerStep, ClaimStep DEF LedgerMove, Lapses
      <3>2. CASE pc[p] = "applying"
        <4>1. Answered(e)
          BY <3>1, <3>2 DEF Settles, Driving, WorkKeptInv
        <4>2. QED  BY <4>1, AnsweredStays
      <3>3. CASE effects'[e] = effects[e] + 1
        BY <2>0, <3>3 DEF Answered
      <3>4. QED  BY <1>3, <2>2, <3>1, <3>2, <3>3 DEF Settles
    <2>3. QED  BY <2>1, <2>2
  <1>4. QED  BY <1>1, <1>2, <1>3 DEF WorkKeptInv

\* Contention, crashes and redeliveries lose no work
\* (_handle_lease_contention, recover_pending).  A dry run marks its events
\* applied by design, a stale generation discards its patch, and an executor
\* that quits unasked is taken at its word; without them an event that asks
\* for work is applied only once its row is settled, superseded or cancelled
\* by the operator, even when leases run out under their holders.
THEOREM NoLostCorrect ==
    ASSUME DryRun = {}, "patch" \notin Outcomes, "quits" \notin Outcomes
    PROVE  Spec => []NoLostWork
  <1>1. Init => WorkKeptInv
    BY DEF Init, WorkKeptInv, NoRow, Unclaimed
  <1>2. TypeInv /\ WorkKeptInv => NoLostWork
    BY DEF WorkKeptInv, NoLostWork, Answered, Settled
  <1>3. TypeInv /\ WorkKeptInv /\ [Next]_vars => WorkKeptInv'
    BY WorkKeptStep
  <1>4. QED  BY <1>1, <1>2, <1>3, TypeInvariant, PTL DEF Spec

=============================================================================
