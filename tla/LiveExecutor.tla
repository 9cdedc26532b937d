---------------------------- MODULE LiveExecutor ----------------------------
(***************************************************************************)
(* The Stage-2 live tick executor (intraday_live_executor.py,              *)
(* LiveTickExecutor) with everything its safety argument is about: the     *)
(* in-memory order-state book and its on-disk snapshot, the persisted      *)
(* canary envelope, the write-ahead action journal, the dead-man switch,   *)
(* and the broker behind the BrokerPort, over several trading days.        *)
(*                                                                         *)
(* The executor is one sequential process, but every broker call is a      *)
(* place where the process may die, where the answer may be lost and where *)
(* the market moves on.  A tick is therefore a chain of small steps (pc),  *)
(* a mutating broker call is three of them (journal and book, broker,      *)
(* answer), and Crash may cut the chain anywhere.  What survives a crash   *)
(* is the snapshot, the envelope, the journal and the broker.              *)
(*                                                                         *)
(* Every open order is DAY time-in-force: the broker and the journal are   *)
(* those of the current trading day.                                       *)
(***************************************************************************)
EXTENDS OrderBook, FiniteSets

CONSTANTS
    Allowed,       \* parents whose symbol is on the canary allowlist
    Batches,       \* the sets of order intents a tick may be handed
    Threshold,     \* DEAD_MAN_CONSECUTIVE_FAILURES
    MaxSessions,   \* max_live_sessions of the authorization
    MaxDay,        \* bound: trading days
    MaxCrashes,    \* bound: process deaths per trading day
    MaxLost        \* bound: broker answers lost after the broker acted, per day

Intent == [parent : Parents, qty : Nat, price : Nat]

ASSUME AllowedAssumption == Allowed \subseteq Parents
ASSUME BatchesAssumption == Batches \subseteq SUBSET Intent
ASSUME BoundsAssumption ==
    /\ Threshold \in Nat \ {0} /\ MaxSessions \in Nat
    /\ MaxDay \in Nat \ {0} /\ MaxCrashes \in Nat /\ MaxLost \in Nat

VARIABLES
    day,       \* the trading day
    pc,        \* where the process is
    book,      \* LiveTickExecutor.book, in memory
    todo,      \* order intents of this tick still to be handled
    work,      \* children still to be cancelled or polled in this phase
    seen,      \* "attempted": SELL parents already submitted in this tick
    call,      \* the broker call under way
    dm,        \* DeadManSwitch, in memory
    disk,      \* order_state_book.json
    canary,    \* stage2_canary_state.json (written through at every change)
    journal,   \* write-ahead lines of intraday_live_actions.jsonl
    broker,    \* the broker's orders of the day
    pushed,    \* gross BUY notional the broker accepted today
    faults     \* crashes and lost answers so far today

vars == <<day, pc, book, todo, work, seen, call, dm, disk, canary, journal,
          broker, pushed, faults>>

process == <<pc, book, todo, work, seen, call, dm>>
storage == <<disk, canary, journal>>

Days == 1 .. MaxDay

Phases == {"down", "begun", "open", "stale", "sync", "exits", "chase",
           "budget", "entries", "closing", "closesync"}

\* "canceled" also stands for expired and done_for_day: each closes the child.
OrderStates == {"none", "live", "filled", "canceled", "rejected"}

Order == [st : OrderStates, qty : Nat, filled : Nat]

NoOrder == [st |-> "none", qty |-> 0, filled |-> 0]

NoCall == [op |-> "none"]

Calls ==
    {NoCall}
    \cup [op : {"submit", "cancel"}, kid : Kids, stage : {"journaled"},
          price : Nat]
    \cup [op : {"submit", "cancel"}, kid : Kids, stage : {"answered"},
          resp : {"ok", "rejected", "error"}, filled : Nat]

DeadMan == [n : 0 .. Threshold, tripped : BOOLEAN]

Journal == {"submit", "cancel"} \X Kids

Canary == [sessions : SUBSET Days, tripped : BOOLEAN, counted : [Kids -> Nat]]

FreshDeadMan == [n |-> 0, tripped |-> FALSE]

NothingCounted == [k \in Kids |-> 0]

TypeOK ==
    /\ day \in Days
    /\ pc \in Phases
    /\ book \in Book
    /\ todo \in SUBSET Intent
    /\ work \in SUBSET Kids
    /\ seen \in SUBSET Parents
    /\ call \in Calls
    /\ dm \in DeadMan
    /\ disk \in [day : {0} \cup Days, book : Book]
    /\ canary \in Canary
    /\ journal \in SUBSET Journal
    /\ broker \in [Kids -> Order]
    /\ pushed \in Nat
    /\ faults \in [crashes : 0 .. MaxCrashes, lost : 0 .. MaxLost]

Init ==
    /\ day = 1
    /\ pc = "down"
    /\ book = FreshBook
    /\ todo = {} /\ work = {} /\ seen = {}
    /\ call = NoCall
    /\ dm = FreshDeadMan
    /\ disk = [day |-> 0, book |-> FreshBook]
    /\ canary = [sessions |-> {}, tripped |-> FALSE, counted |-> NothingCounted]
    /\ journal = {}
    /\ broker = [k \in Kids |-> NoOrder]
    /\ pushed = 0
    /\ faults = [crashes |-> 0, lost |-> 0]

-----------------------------------------------------------------------------
(* Session start: begin_session.                                           *)

BrokerOpen == {k \in Kids : broker[k].st = "live"}

Terminal(k) == broker[k].st \in {"filled", "canceled", "rejected"}

\* The snapshot is restored only for the same trading day and account.
RestoredBook == IF disk.day = day THEN disk.book ELSE FreshBook

\* reconcile_on_restart (external): a child the broker has finished may be
\* settled into the book there and then; the rest is left to the next poll.
Settle(b, absorbed) ==
    [b EXCEPT !.parent = [p \in Parents |->
        LET r == b.parent[p]
            f == broker[<<p, r.att>>].filled
        IN  IF r.open /\ <<p, r.att>> \in absorbed
              THEN [r EXCEPT !.cum = IF f > r.filled THEN @ + (f - r.filled) ELSE @,
                             !.open = FALSE, !.qty = 0, !.filled = 0]
              ELSE r]]

\* A broker order the book does not hold open, or an open child the broker
\* neither holds open nor has finished, is a mismatch; so may be a quantity.
Mismatch(b) ==
    \/ BrokerOpen \ OpenKids(b) # {}
    \/ \E k \in OpenKids(b) : broker[k].st = "none"

QuantityDiffers(b) ==
    \E k \in OpenKids(b) : broker[k].filled # b.parent[k[1]].filled

\* The ceiling is compared with <= instead of <.
SessionAvailable_OffByOne ==
    day \in canary.sessions \/ Cardinality(canary.sessions) <= MaxSessions

\* begin_live_session: idempotent per date; raises (no session) at the
\* ceiling.
SessionAvailable ==
    day \in canary.sessions \/ Cardinality(canary.sessions) < MaxSessions

BeginReconcile ==
    /\ pc = "down"
    /\ SessionAvailable
    /\ \E absorbed \in SUBSET {k \in OpenKids(RestoredBook) : Terminal(k)},
          halt \in BOOLEAN :
         /\ Mismatch(RestoredBook) => halt
         /\ halt => Mismatch(RestoredBook) \/ QuantityDiffers(RestoredBook)
         /\ book' = LET b == Settle(RestoredBook, absorbed)
                    IN  IF halt THEN HaltEntries(b) ELSE b
    /\ canary' = [canary EXCEPT !.sessions = @ \cup {day}]
    /\ pc' = "begun"
    /\ UNCHANGED <<day, todo, work, seen, call, dm, disk, journal, broker,
                   pushed, faults>>

\* The sticky trip is not looked at again when a session begins.
HaltIfTripped_Forgotten(b) == b

\* A sticky loss-budget trip halts entries, fresh book or not.
HaltIfTripped(b) == IF canary.tripped THEN HaltEntries(b) ELSE b

\* Second half of begin_session: halt, stamp, open, persist.
BeginOpen ==
    /\ pc = "begun"
    /\ book' = HaltIfTripped(book)
    /\ disk' = [day |-> day, book |-> book']
    /\ pc' = "open"
    /\ UNCHANGED <<day, todo, work, seen, call, dm, canary, journal, broker,
                   pushed, faults>>

-----------------------------------------------------------------------------
(* Broker calls.  "Prepare" writes the book and the journal line, "Call"   *)
(* is the broker's side, "Apply" is what the executor does with the answer.*)

\* DeadManSwitch.record_failure, the counter saturating at the threshold.
Failed(d) ==
    LET n == IF d.n < Threshold THEN d.n + 1 ELSE d.n
    IN  [n |-> n, tripped |-> d.tripped \/ n >= Threshold]

Succeeded(d) == [d EXCEPT !.n = 0]

\* _record_broker_failure: the tripped switch halts the book's entries.
HaltOnFailure(b) == IF Failed(dm).tripped THEN HaltEntries(b) ELSE b

\* record_fill persists the fill of delta units in the envelope at once.
Counted(k, delta) == [canary EXCEPT !.counted[k] = @ + delta]

Current(p) == <<p, book.parent[p].att>>

\* The write-ahead line is written with the outcome, after the broker call.
SubmitPrepare_Unjournaled(b, p, price) ==
    /\ book' = SubmitChild(b, p, price)
    /\ call' = [op |-> "submit", kid |-> <<p, b.parent[p].att + 1>>,
                stage |-> "journaled", price |-> price]
    /\ journal' = journal

\* First half of _submit_parent_remainder: submit_child, then the journal.
SubmitPrepare(b, p, price) ==
    /\ book' = SubmitChild(b, p, price)
    /\ call' = [op |-> "submit", kid |-> <<p, b.parent[p].att + 1>>,
                stage |-> "journaled", price |-> price]
    /\ journal' = journal \cup {<<"submit", <<p, b.parent[p].att + 1>>>>}

Answer(resp, filled) ==
    call' = [op |-> call.op, kid |-> call.kid, stage |-> "answered",
             resp |-> resp, filled |-> filled]

\* The broker takes the order, filling f of it at once.
Accept(k, f) ==
    LET q == book.parent[k[1]].qty
    IN  /\ broker' = [broker EXCEPT ![k] =
                        [st |-> IF f = q THEN "filled" ELSE "live",
                         qty |-> q, filled |-> f]]
        /\ pushed' = IF k[1] \in Buys THEN pushed + q * call.price ELSE pushed

SubmitCall ==
    /\ call.op = "submit" /\ call.stage = "journaled"
    /\ \/ /\ broker[call.kid].st = "none"
          /\ \E f \in 0 .. book.parent[call.kid[1]].qty :
               Accept(call.kid, f) /\ Answer("ok", f)
          /\ UNCHANGED faults
       \/ /\ broker[call.kid].st = "none"      \* taken, but the answer is lost
          /\ faults.lost < MaxLost
          /\ faults' = [faults EXCEPT !.lost = @ + 1]
          /\ Accept(call.kid, 0) /\ Answer("error", 0)
       \/ /\ broker[call.kid].st = "none"
          /\ Answer("rejected", 0)
          /\ UNCHANGED <<broker, pushed, faults>>
       \/ /\ Answer("error", 0)    \* not taken: refused, or a duplicate id
          /\ UNCHANGED <<broker, pushed, faults>>
    /\ UNCHANGED <<day, pc, book, todo, work, seen, dm, disk, canary, journal>>

\* Second half of _submit_parent_remainder.
SubmitApply ==
    /\ call.op = "submit" /\ call.stage = "answered"
    /\ LET p == call.kid[1]
       IN  IF call.resp = "ok"
             THEN /\ dm' = Succeeded(dm)
                  /\ book' = IF call.filled > 0 THEN OnFill(book, p, call.filled)
                                                ELSE book
                  /\ canary' = Counted(call.kid, call.filled)
             ELSE /\ dm' = Failed(dm)
                  /\ book' = HaltOnFailure(CloseChild(book, p))
                  /\ UNCHANGED canary
    /\ call' = NoCall
    /\ UNCHANGED <<day, pc, todo, work, seen, disk, journal, broker, pushed,
                   faults>>

\* _cancel_child up to the broker call.
CancelPrepare ==
    /\ pc \in {"stale", "closing"} /\ call = NoCall
    /\ \E k \in work :
         /\ work' = work \ {k}
         /\ journal' = journal \cup {<<"cancel", k>>}
         /\ call' = [op |-> "cancel", kid |-> k, stage |-> "journaled",
                     price |-> 0]
    /\ UNCHANGED <<day, pc, book, todo, seen, dm, disk, canary, broker, pushed,
                   faults>>

\* The broker cancels a live order; a finished one keeps its state.
CancelAt(k) ==
    broker' = [broker EXCEPT ![k].st = IF @ = "live" THEN "canceled" ELSE @]

CancelCall ==
    /\ call.op = "cancel" /\ call.stage = "journaled"
    /\ \/ /\ CancelAt(call.kid) /\ Answer("ok", broker[call.kid].filled)
          /\ UNCHANGED faults
       \/ /\ faults.lost < MaxLost             \* done, but the answer is lost
          /\ faults' = [faults EXCEPT !.lost = @ + 1]
          /\ CancelAt(call.kid) /\ Answer("error", 0)
       \/ /\ Answer("error", 0)
          /\ UNCHANGED <<broker, faults>>
    /\ UNCHANGED <<day, pc, book, todo, work, seen, dm, disk, canary, journal,
                   pushed>>

\* An errored cancel closes the child although the broker may still hold it.
CancelErrorBook_Closed(b, p) == CloseChild(b, p)

\* A cancel that errored leaves the child open.
CancelErrorBook(b, p) == b

\* A child that is done is closed before its last fills are booked.
BookRow_CloseFirst(b, p, f, done) ==
    LET known == b.parent[p].filled
        c == IF done THEN CloseChild(b, p) ELSE b
    IN  IF c.parent[p].open /\ f > known THEN OnFill(c, p, f - known) ELSE c

\* What a broker row with cumulative fill f says of the current child of p:
\* the fill delta is booked and counted, then the child is closed if done.
BookRow(b, p, f, done) ==
    LET known == b.parent[p].filled
        c == IF f > known THEN OnFill(b, p, f - known) ELSE b
    IN  IF done /\ c.parent[p].open THEN CloseChild(c, p) ELSE c

\* The poll counts the cumulative fill, not the delta.
CountRow_Cumulative(k, f) ==
    LET known == book.parent[k[1]].filled
    IN  IF f > known THEN Counted(k, f) ELSE canary

\* The operands of the fill delta are swapped.
CountRow_Swapped(k, f) ==
    LET known == book.parent[k[1]].filled
    IN  IF f > known THEN Counted(k, known - f) ELSE canary

\* _sync_open_children and _cancel_child count the delta alone.
CountRow(k, f) ==
    LET known == book.parent[k[1]].filled
    IN  IF f > known THEN Counted(k, f - known) ELSE canary

\* _cancel_child after the broker call: an error leaves the child open.
CancelApply ==
    /\ call.op = "cancel" /\ call.stage = "answered"
    /\ IF call.resp = "ok"
         THEN /\ dm' = Succeeded(dm)
              /\ book' = BookRow(book, call.kid[1], call.filled, TRUE)
              /\ canary' = CountRow(call.kid, call.filled)
         ELSE /\ dm' = Failed(dm)
              /\ book' = HaltOnFailure(CancelErrorBook(book, call.kid[1]))
              /\ UNCHANGED canary
    /\ call' = NoCall
    /\ UNCHANGED <<day, pc, todo, work, seen, disk, journal, broker, pushed,
                   faults>>

-----------------------------------------------------------------------------
(* The tick: process_tick.                                                 *)

Idle == call = NoCall

\* _cancel_stale: any of the open children may be over age.
TickStart ==
    /\ pc = "open" /\ Idle
    /\ todo' \in Batches
    /\ work' \in SUBSET OpenKids(book)
    /\ seen' = {}
    /\ pc' = "stale"
    /\ UNCHANGED <<day, book, call, dm, storage, broker, pushed, faults>>

StaleDone ==
    /\ pc = "stale" /\ Idle /\ work = {}
    /\ work' = OpenKids(book)
    /\ pc' = "sync"
    /\ UNCHANGED <<day, book, todo, seen, call, dm, storage, broker, pushed,
                   faults>>

\* One iteration of _sync_open_children.  A failing read leaves it open.
Poll ==
    /\ pc \in {"sync", "closesync"} /\ Idle
    /\ \E k \in work :
         /\ work' = work \ {k}
         /\ \/ /\ broker[k].st # "none"
               /\ canary' = CountRow(k, broker[k].filled)
               /\ LET b == BookRow(book, k[1], broker[k].filled, Terminal(k))
                  IN  IF broker[k].st = "rejected"
                        THEN dm' = Failed(dm) /\ book' = HaltOnFailure(b)
                        ELSE dm' = dm /\ book' = b
            \/ UNCHANGED <<book, canary, dm>>
    /\ UNCHANGED <<day, pc, todo, seen, call, disk, journal, broker, pushed,
                   faults>>

SyncDone ==
    /\ pc = "sync" /\ Idle /\ work = {}
    /\ pc' = "exits"
    /\ UNCHANGED <<day, book, todo, work, seen, call, dm, storage, broker,
                   pushed, faults>>

\* An exit: registered and submitted; no halt, cap or allowlist is asked.
ExitIntent ==
    /\ pc = "exits" /\ Idle
    /\ \E i \in todo :
         LET p == i.parent
             b == RegisterIntent(book, p, i.qty)
         IN  /\ p \in Sells
             /\ todo' = todo \ {i}
             /\ IF CanEmit(b, p)
                  THEN SubmitPrepare(b, p, i.price) /\ seen' = seen \cup {p}
                  ELSE book' = b /\ UNCHANGED <<call, journal, seen>>
    /\ UNCHANGED <<day, pc, work, dm, disk, canary, broker, pushed, faults>>

ExitsDone ==
    /\ pc = "exits" /\ Idle
    /\ \A i \in todo : i.parent \in Buys
    /\ pc' = "chase"
    /\ UNCHANGED <<day, book, todo, work, seen, call, dm, storage, broker,
                   pushed, faults>>

\* The chase honours the entry halt.
Chaseable_UnlessHalted == {p \in Sells \ seen : CanEmit(book, p) /\ ~book.halted}

Chaseable == {p \in Sells \ seen : CanEmit(book, p)}

\* The protective-exit remainder chase: every SELL parent once per tick.
Chase ==
    /\ pc = "chase" /\ Idle
    /\ \E p \in Chaseable :
         SubmitPrepare(book, p, 1) /\ seen' = seen \cup {p}
    /\ UNCHANGED <<day, pc, todo, work, dm, disk, canary, broker, pushed,
                   faults>>

ChaseDone ==
    /\ pc = "chase" /\ Idle /\ Chaseable = {}
    /\ pc' = "budget"
    /\ UNCHANGED <<day, book, todo, work, seen, call, dm, storage, broker,
                   pushed, faults>>

TripHalt(b) == HaltEntries(b)

\* The trip follows the current profit and loss instead of being sticky.
EvaluateLossBudget_Recovers ==
    /\ pc = "budget" /\ Idle
    /\ \E tripped \in BOOLEAN :
         /\ canary' = [canary EXCEPT !.tripped = tripped]
         /\ book' = IF tripped THEN TripHalt(book) ELSE book
    /\ pc' = "entries"
    /\ UNCHANGED <<day, todo, work, seen, call, dm, disk, journal, broker,
                   pushed, faults>>

\* _evaluate_loss_budget.  Profit and loss follow the market, so any
\* evaluation may find the budget breached.
EvaluateLossBudget ==
    /\ pc = "budget" /\ Idle
    /\ \/ /\ ~canary.tripped
          /\ canary' = [canary EXCEPT !.tripped = TRUE]
          /\ book' = TripHalt(book)
       \/ UNCHANGED <<canary, book>>
    /\ pc' = "entries"
    /\ UNCHANGED <<day, todo, work, seen, call, dm, disk, journal, broker,
                   pushed, faults>>

\* The allowlist is not consulted.
Admissible_AnyName(i) ==
    /\ ~book.halted
    /\ i.qty > 0 /\ i.price > 0
    /\ WithinCap(book, i.qty * i.price)

\* The pre-checks of one entry intent.
Admissible(i) ==
    /\ ~book.halted
    /\ i.parent \in Allowed
    /\ i.qty > 0 /\ i.price > 0
    /\ WithinCap(book, i.qty * i.price)

SkipEntry ==
    /\ pc = "entries" /\ Idle
    /\ \E i \in todo :
         /\ todo' = todo \ {i}
         /\ \/ /\ ~Admissible(i)
               /\ UNCHANGED book
            \/ /\ Admissible(i)
               /\ ~CanEmit(RegisterIntent(book, i.parent, i.qty), i.parent)
               /\ book' = RegisterIntent(book, i.parent, i.qty)
    /\ UNCHANGED <<day, pc, work, seen, call, dm, storage, broker, pushed,
                   faults>>

\* The hard assertion is dropped: the pre-check alone guards the submit.
CapAsserted_Dropped(b, p, price) == TRUE

\* assert_entry_cap before the submit: on what will really be submitted, the
\* parent's remainder, which the intent of this tick need not equal.
CapAsserted(b, p, price) == WithinCap(b, Remaining(b.parent[p]) * price)

EntryIntent ==
    /\ pc = "entries" /\ Idle
    /\ \E i \in todo :
         LET b == RegisterIntent(book, i.parent, i.qty)
         IN  /\ Admissible(i)
             /\ CanEmit(b, i.parent)
             /\ CapAsserted(b, i.parent, i.price)
             /\ todo' = todo \ {i}
             /\ SubmitPrepare(b, i.parent, i.price)
    /\ UNCHANGED <<day, pc, work, seen, dm, disk, canary, broker, pushed,
                   faults>>

\* The process is gone: everything in memory is lost.
ProcessEnds ==
    /\ pc' = "down"
    /\ book' = FreshBook
    /\ todo' = {} /\ work' = {} /\ seen' = {}
    /\ call' = NoCall
    /\ dm' = FreshDeadMan

\* EntryCapExceededError: the finally clause persists the book, then the
\* exception leaves process_tick and ends the session without close_session.
EntryCapRaises ==
    /\ pc = "entries" /\ Idle
    /\ \E i \in todo :
         LET b == RegisterIntent(book, i.parent, i.qty)
         IN  /\ Admissible(i)
             /\ CanEmit(b, i.parent)
             /\ ~CapAsserted(b, i.parent, i.price)
             /\ disk' = [day |-> day, book |-> b]
    /\ ProcessEnds
    /\ UNCHANGED <<day, canary, journal, broker, pushed, faults>>

\* process_tick returns without the persist of its finally clause.
TickEnd_Unpersisted ==
    /\ pc = "entries" /\ Idle /\ todo = {}
    /\ pc' = "open"
    /\ work' = {} /\ seen' = {}
    /\ UNCHANGED <<day, book, todo, call, dm, storage, broker, pushed, faults>>

\* The end of process_tick: _persist.
TickEnd ==
    /\ pc = "entries" /\ Idle /\ todo = {}
    /\ disk' = [day |-> day, book |-> book]
    /\ pc' = "open"
    /\ work' = {} /\ seen' = {}
    /\ UNCHANGED <<day, book, todo, call, dm, canary, journal, broker, pushed,
                   faults>>

-----------------------------------------------------------------------------
(* Session end: close_session.                                             *)

CloseSession ==
    /\ pc = "open" /\ Idle
    /\ work' = OpenKids(book)
    /\ pc' = "closing"
    /\ UNCHANGED <<day, book, todo, seen, call, dm, storage, broker, pushed,
                   faults>>

CloseCancelsDone ==
    /\ pc = "closing" /\ Idle /\ work = {}
    /\ work' = OpenKids(book)
    /\ pc' = "closesync"
    /\ UNCHANGED <<day, book, todo, seen, call, dm, storage, broker, pushed,
                   faults>>

CloseEnd ==
    /\ pc = "closesync" /\ Idle /\ work = {}
    /\ disk' = [day |-> day, book |-> book]
    /\ ProcessEnds
    /\ UNCHANGED <<day, canary, journal, broker, pushed, faults>>

-----------------------------------------------------------------------------
(* The environment.                                                        *)

\* The process dies (killed, host lost, an error of a provider escapes).
Crash ==
    /\ pc # "down"
    /\ faults.crashes < MaxCrashes
    /\ faults' = [faults EXCEPT !.crashes = @ + 1]
    /\ ProcessEnds
    /\ UNCHANGED <<day, storage, broker, pushed>>

\* The market fills one more unit of a live order.
BrokerFill ==
    /\ \E k \in BrokerOpen :
         broker' = [broker EXCEPT ![k] =
                      [broker[k] EXCEPT
                         !.filled = @ + 1,
                         !.st = IF broker[k].filled + 1 = broker[k].qty
                                  THEN "filled" ELSE "live"]]
    /\ UNCHANGED <<day, process, storage, pushed, faults>>

\* The venue ends a live order by itself.
BrokerEnds ==
    /\ \E k \in BrokerOpen, s \in {"canceled", "rejected"} :
         broker' = [broker EXCEPT ![k].st = s]
    /\ UNCHANGED <<day, process, storage, pushed, faults>>

\* The next trading day: DAY orders are gone, the state files remain.
NextDay ==
    /\ pc = "down" /\ day < MaxDay
    /\ day' = day + 1
    /\ broker' = [k \in Kids |-> NoOrder]
    /\ journal' = {}
    /\ canary' = [canary EXCEPT !.counted = NothingCounted]
    /\ pushed' = 0
    /\ faults' = [crashes |-> 0, lost |-> 0]
    /\ UNCHANGED <<process, disk>>

\* Everything the running executor does by itself, its broker calls included.
ProcessStep ==
    \/ BeginOpen
    \/ SubmitCall \/ SubmitApply
    \/ CancelPrepare \/ CancelCall \/ CancelApply
    \/ TickStart \/ StaleDone \/ Poll \/ SyncDone
    \/ ExitIntent \/ ExitsDone \/ Chase \/ ChaseDone
    \/ EvaluateLossBudget
    \/ SkipEntry \/ EntryIntent \/ EntryCapRaises \/ TickEnd
    \/ CloseSession \/ CloseCancelsDone \/ CloseEnd

Next ==
    \/ BeginReconcile \/ ProcessStep
    \/ Crash \/ BrokerFill \/ BrokerEnds \/ NextDay

Spec == Init /\ [][Next]_vars

\* The loop of a live process is sequential and its broker calls return or
\* raise: it keeps stepping.  Nothing makes anybody start a process, and
\* nothing is assumed of the market.
FairSpec == Spec /\ WF_vars(ProcessStep)

-----------------------------------------------------------------------------
(* What the executor promises.                                             *)

\* JournaledFirst: the broker never knows an order the write-ahead journal
\* does not, wherever the process dies (LiveActionLog.write_ahead is flushed
\* before the port is called in _submit_parent_remainder).
JournaledFirst ==
    \A k \in Kids : broker[k].st # "none" => <<"submit", k>> \in journal

InSession == pc \notin {"down", "begun"}

\* HaltsHold: in an open session a tripped loss budget and a tripped dead-man
\* switch have halted the book's entries, also when the trip was recorded
\* just before a crash, in an earlier session or under a book that was lost
\* (begin_session, _evaluate_loss_budget, _record_broker_failure).
HaltsHold ==
    InSession => /\ canary.tripped => book.halted
                 /\ dm.tripped => book.halted

NewOrder(k) == broker[k].st = "none" /\ broker'[k].st # "none"

\* EntriesRespectHalts: the broker is never handed a BUY while the envelope is
\* tripped, while entries are halted, on a day that was not counted as a live
\* session, or for a name off the allowlist (process_tick, section 9.3a).
EntriesRespectHalts ==
    [][\A k \in Kids : NewOrder(k) /\ k[1] \in Buys =>
           /\ ~canary.tripped /\ ~book.halted
           /\ day \in canary.sessions
           /\ k[1] \in Allowed]_vars

\* SessionCeiling: no more trading days are counted than the authorization
\* allows, and the broker holds orders on counted days only
\* (CanaryEnvelopeTracker.begin_live_session).
SessionCeiling ==
    /\ Cardinality(canary.sessions) <= MaxSessions
    /\ (\E k \in Kids : broker[k].st # "none") => day \in canary.sessions

Env == INSTANCE Envelope WITH
         Ceiling <- MaxSessions, sessions <- canary.sessions,
         tripped <- canary.tripped

\* ImplementsEnvelope: across ticks, crashes, restarts and days the persisted
\* envelope takes no step but those of its abstract specification: a day is
\* counted once, within the ceiling, and the trip is never taken back
\* (begin_live_session, evaluate_budget, record_fill).
ImplementsEnvelope == Env!Spec

\* CapPerIncarnation: the BUY notional the broker accepted in a day stays
\* within the cap, once for every process that ran without a crash behind it:
\* a crash can forget at most what one book held (entry_notional_submitted is
\* recomputed from a snapshot that is written only at the end of a tick).
CapPerIncarnation == pushed <= (1 + faults.crashes) * Cap

\* NoOvercount: without a crash the envelope counts no more of an order than
\* the broker filled (_sync_open_children and _cancel_child book deltas).
NoOvercount ==
    faults.crashes = 0 => \A k \in Kids : canary.counted[k] <= broker[k].filled

\* The book that this process has, or the next one starts from.
Held == IF pc = "down" THEN RestoredBook ELSE book

\* NoOrphans: as long as nothing crashed and no answer was lost, every order
\* the broker works is the open child the book holds for it, also between an
\* orderly end and the next start: no cancel that failed, no partial fill and
\* no restart leaves an order behind that nobody will poll or cancel
\* (_cancel_child, _sync_open_children, _submit_parent_remainder).
NoOrphans ==
    faults = [crashes |-> 0, lost |-> 0] => BrokerOpen \subseteq OpenKids(Held)

\* The units of an order that the broker has filled or may still fill.
Taken(k) == IF k \in BrokerOpen THEN broker[k].qty ELSE broker[k].filled

\* The units of a parent that the broker has filled or may still fill, over
\* all of its children.
Units(p) == UNION {{n} \X (1 .. Taken(<<p, n>>)) : n \in Attempts}

\* EconomicInvariant: without a crash or a lost answer the broker never has
\* two live orders of one parent, and never more filled and live than the
\* parent's target (the section 7 economic invariant, at the broker rather
\* than in the book; _submit_parent_remainder, _cancel_child, _sync_open_
\* children).
EconomicInvariant ==
    faults = [crashes |-> 0, lost |-> 0] =>
      \A p \in Parents :
        /\ Cardinality({k \in BrokerOpen : k[1] = p}) <= 1
        /\ Registered(Held, p) => Cardinality(Units(p)) <= Held.parent[p].target

Outstanding(p, n) == InSession /\ CanEmit(book, p) /\ book.parent[p].att = n

\* ExitsChased: a protective exit with an unsubmitted remainder and no open
\* child is sent to the broker again, whatever was halted, tripped or capped
\* in between, unless the process goes down first (the remainder chase of
\* process_tick).
ExitsChased ==
    \A p \in Sells, n \in 0 .. MaxAttempts - 1 :
        Outstanding(p, n) ~> (<<"submit", <<p, n + 1>>>> \in journal \/ pc = "down")

SnapshotHas(k) == disk.day = day /\ disk.book.parent[k[1]].att >= k[2]

\* ChildrenReachSnapshot: every child the running process ever created gets
\* into the on-disk snapshot of its day, unless the process goes down first
\* (the finally clause of process_tick).
ChildrenReachSnapshot ==
    \A k \in Kids :
        book.parent[k[1]].att >= k[2] ~> (SnapshotHas(k) \/ pc = "down")

-----------------------------------------------------------------------------
(* The inductive strengthening the proofs use.                             *)

\* A submission is journaled and about to be handed to the broker.
Sending == call.op = "submit" /\ call.stage = "journaled"

ProcessInv ==
    /\ ~InSession => call = NoCall /\ dm = FreshDeadMan
    /\ pc # "down" => day \in canary.sessions

SendingInv ==
    Sending => /\ <<"submit", call.kid>> \in journal
               /\ call.kid[1] \in Buys => ~book.halted /\ call.kid[1] \in Allowed

\* BUY notional in the book that the broker has not been handed yet.
Owed ==
    IF Sending THEN IF call.kid[1] \in Buys
                      THEN book.parent[call.kid[1]].qty * call.price ELSE 0
               ELSE 0

\* Notional of the day the next process will know of.
Recorded == IF disk.day = day THEN disk.book.gross ELSE 0

CapInv ==
    /\ book.gross <= Cap /\ disk.book.gross <= Cap
    /\ pc # "down" => pushed + Owed <= faults.crashes * Cap + book.gross
    /\ pc = "down" => pushed <= faults.crashes * Cap + Recorded

IInv ==
    /\ TypeOK /\ ProcessInv /\ SendingInv /\ CapInv
    /\ JournaledFirst /\ HaltsHold /\ SessionCeiling
=============================================================================
