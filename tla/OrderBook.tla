----------------------------- MODULE OrderBook -----------------------------
(***************************************************************************)
(* The order-state book that the Stage-2 live executor drives              *)
(* (renquant_execution.order_state_machine.OrderStateBook, a library       *)
(* outside this repository: it is modelled from the calls                  *)
(* intraday_live_executor.py makes and from the section 7 lifecycle the    *)
(* design document fixes), and the entry-notional cap the executor         *)
(* computes from it.                                                       *)
(*                                                                         *)
(* A parent has at most one open child at a time, so a parent's record     *)
(* keeps the quantities of its CURRENT child only; of the finished ones    *)
(* the code reads nothing but their share of cum_filled and of the gross   *)
(* notional.  A child's requested_qty and price never change after         *)
(* submit_child, so the sum entry_notional_submitted recomputes over every *)
(* BUY child is kept here as the running total "gross".                    *)
(***************************************************************************)
EXTENDS Integers

CONSTANTS
    Parents,       \* parent intents of one trading day
    Buys,          \* the BUY parents; the others are SELL
    MaxAttempts,   \* bound: children per parent and day
    Cap            \* daily_entry_notional_cap of the authorization

ASSUME ParentsAssumption == Buys \subseteq Parents
ASSUME AttemptsAssumption == MaxAttempts \in Nat \ {0}
ASSUME CapAssumption == Cap \in Nat

Sells == Parents \ Buys

Attempts == 1 .. MaxAttempts

Kids == Parents \X Attempts          \* child_order_id = parent ":" attempt_n

Unregistered == -1

\* One parent intent: target_qty, cum_filled, attempts so far, whether its
\* last child is open, and that child's requested and filled quantity.
ParentRec == [target : Nat \cup {Unregistered}, cum : Nat,
              att : 0 .. MaxAttempts, open : BOOLEAN, qty : Nat, filled : Nat]

Book == [halted : BOOLEAN, gross : Nat, parent : [Parents -> ParentRec]]

NoParent == [target |-> Unregistered, cum |-> 0, att |-> 0, open |-> FALSE,
             qty |-> 0, filled |-> 0]

FreshBook == [halted |-> FALSE, gross |-> 0,
              parent |-> [p \in Parents |-> NoParent]]

IsOpen(b, k) == b.parent[k[1]].open /\ b.parent[k[1]].att = k[2]

OpenKids(b) == {k \in Kids : IsOpen(b, k)}

Registered(b, p) == b.parent[p].target # Unregistered

\* remaining_unsubmitted = target_qty - cum_filled - open_qty
Remaining(r) == r.target - r.cum - (r.qty - r.filled)

\* can_emit_remainder: no open child and something left to submit (and, in
\* the model, an attempt left under the bound).
CanEmit(b, p) ==
    /\ Registered(b, p)
    /\ ~b.parent[p].open
    /\ Remaining(b.parent[p]) > 0
    /\ b.parent[p].att < MaxAttempts

\* register_intent is create-or-get: a second registration keeps the first
\* target_qty.
RegisterIntent(b, p, qty) ==
    IF Registered(b, p) THEN b
                        ELSE [b EXCEPT !.parent[p].target = qty]

\* submit_child: a fresh child sized to the remainder.
SubmitChild(b, p, price) ==
    LET r == b.parent[p]
        q == Remaining(r)
    IN  [b EXCEPT
           !.parent[p] = [r EXCEPT !.att = @ + 1, !.open = TRUE,
                                   !.qty = q, !.filled = 0],
           !.gross = IF p \in Buys THEN @ + q * price ELSE @]

\* The child leaves the open set without filling further: on_reject,
\* on_cancel and on_expire differ only in the audit bucket they feed.
CloseChild(b, p) ==
    [b EXCEPT !.parent[p] = [@ EXCEPT !.open = FALSE, !.qty = 0, !.filled = 0]]

\* on_fill of d more units; a child that is completely filled is FILLED, no
\* longer open.
OnFill(b, p, d) ==
    LET r == b.parent[p]
    IN  [b EXCEPT !.parent[p] =
           IF r.filled + d >= r.qty
             THEN [r EXCEPT !.cum = @ + d, !.open = FALSE, !.qty = 0, !.filled = 0]
             ELSE [r EXCEPT !.cum = @ + d, !.filled = @ + d]]

HaltEntries(b) == [b EXCEPT !.halted = TRUE]

\* entry_notional_submitted: gross BUY notional, canceled and rejected
\* attempts included.
EntryNotionalSubmitted(b) == b.gross

\* The pre-check of process_tick and the test inside assert_entry_cap.
WithinCap(b, additional) == EntryNotionalSubmitted(b) + additional <= Cap
=============================================================================
