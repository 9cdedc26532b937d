--------------------------- MODULE BrokerBookProofs --------------------------
(***************************************************************************)
(* The book, the envelope and the broker about the same order, for every   *)
(* set of parents, every batch and every bound.  As long as nothing        *)
(* crashed, the envelope never counts more of an order than the broker     *)
(* filled: the three delta bookings of the executor (_sync_open_children,  *)
(* _cancel_child, _submit_parent_remainder) are right because the child    *)
(* they book against is the one the book holds open.  If no answer was     *)
(* lost either, the broker works no order that the book does not hold open.*)
(***************************************************************************)
EXTENDS LiveExecutorProofs

\* The children of this phase, and the child of the call under way, are open
\* in the book; the answer says no more than the broker knows.
PendingInv ==
    /\ work \subseteq OpenKids(book)
    /\ pc \notin {"stale", "sync", "closing", "closesync"} => work = {}
    /\ call.op = "cancel" => IsOpen(book, call.kid) /\ call.kid \notin work
    /\ call.op = "submit" => /\ work = {} /\ IsOpen(book, call.kid)
                             /\ book.parent[call.kid[1]].filled = 0
    /\ call.op # "none" /\ call.stage = "answered" =>
           call.filled <= broker[call.kid].filled

\* The broker of o knows no child that b has not created, and works a child
\* only while b holds it open with the same quantity.
Fits(b, o) ==
    \A k \in Kids :
        LET r == b.parent[k[1]] IN
        /\ k[2] > r.att => o[k].st = "none"
        /\ o[k].st = "live" => /\ IsOpen(b, k)
                              /\ o[k].qty = r.qty
                              /\ o[k].filled < r.qty

\* An order not handed over yet is unknown to the broker; an answer on which
\* the executor will close the child means that the broker no longer works it.
CallFits ==
    /\ Sending => broker[call.kid].st = "none"
    /\ call.op = "cancel" /\ call.stage = "answered" /\ call.resp = "ok" =>
          broker[call.kid].st # "live"
    /\ call.op = "submit" /\ call.stage = "answered" /\ call.resp # "ok" =>
          broker[call.kid].st # "live"

WorkingInv ==
    faults = [crashes |-> 0, lost |-> 0] => Fits(Held, broker) /\ CallFits

\* Nothing is counted of a child before it is created, nor more than the book
\* knows to be filled while it is open.
CountInv ==
    faults.crashes = 0 =>
    \A k \in Kids :
        LET r == Held.parent[k[1]] IN
        /\ k[2] > r.att => canary.counted[k] = 0
        /\ IsOpen(Held, k) => canary.counted[k] <= r.filled
        /\ canary.counted[k] <= broker[k].filled

-----------------------------------------------------------------------------
(* What the operations of the book do to its children.                     *)

\* The same children, open or not, with the same quantities.
SameKids(b, c) ==
    \A q \in Parents : /\ c.parent[q].att = b.parent[q].att
                       /\ c.parent[q].open = b.parent[q].open
                       /\ c.parent[q].qty = b.parent[q].qty
                       /\ c.parent[q].filled = b.parent[q].filled

\* The same children, some of which may have been closed.
Shrinks(b, c) ==
    \A q \in Parents : /\ c.parent[q].att = b.parent[q].att
                       /\ c.parent[q].open =>
                              /\ b.parent[q].open
                              /\ c.parent[q].filled = b.parent[q].filled

\* The current child of p is booked at f units, or closed.
Books(b, c, p, f) ==
    /\ \A q \in Parents : c.parent[q].att = b.parent[q].att
    /\ \A q \in Parents \ {p} : /\ c.parent[q].open = b.parent[q].open
                                /\ c.parent[q].filled = b.parent[q].filled
    /\ c.parent[p].open =>
           /\ b.parent[p].open
           /\ c.parent[p].filled = IF f > b.parent[p].filled
                                     THEN f ELSE b.parent[p].filled

\* register_intent, the halts and an unchanged book keep the children.
LEMMA KeepsKids ==
    ASSUME NEW b \in Book
    PROVE  /\ SameKids(b, b) /\ SameKids(b, HaltEntries(b))
           /\ SameKids(b, HaltOnFailure(b)) /\ SameKids(b, HaltIfTripped(b))
           /\ \A p \in Parents, q \in Nat : SameKids(b, RegisterIntent(b, p, q))
<1>1. SameKids(b, b) /\ SameKids(b, HaltEntries(b))
  BY HaltType DEF SameKids
<1>2. SameKids(b, HaltOnFailure(b)) /\ SameKids(b, HaltIfTripped(b))
  BY <1>1 DEF HaltOnFailure, HaltIfTripped
<1>3. ASSUME NEW p \in Parents, NEW q \in Nat
      PROVE  SameKids(b, RegisterIntent(b, p, q))
  BY DEF SameKids, RegisterIntent, Book, ParentRec
<1>. QED
  BY <1>1, <1>2, <1>3

\* submit_child opens one unfilled child with the next number.
LEMMA SubmitKids ==
    ASSUME NEW b \in Book, NEW p \in Parents, NEW price \in Nat, CanEmit(b, p)
    PROVE  LET c == SubmitChild(b, p, price) IN
           /\ c.parent[p].att = b.parent[p].att + 1
           /\ c.parent[p].open /\ c.parent[p].filled = 0
           /\ \A q \in Parents \ {p} : c.parent[q] = b.parent[q]
<1> DEFINE r == b.parent[p]
           r2 == [r EXCEPT !.att = @ + 1, !.open = TRUE, !.qty = Remaining(r),
                           !.filled = 0]
           f == [b.parent EXCEPT ![p] = r2]
           g == IF p \in Buys THEN b.gross + Remaining(r) * price ELSE b.gross
<1>1. r \in ParentRec
  BY DEF Book
<1>2. r2.att = r.att + 1 /\ r2.open = TRUE /\ r2.filled = 0
  BY <1>1 DEF ParentRec
<1>3. SubmitChild(b, p, price) = [b EXCEPT !.parent = f, !.gross = g]
  BY DEF SubmitChild, Book
<1>. HIDE DEF r2, g
<1>4. [b EXCEPT !.parent = f, !.gross = g].parent = f
  BY DEF Book
<1>5. f[p] = r2 /\ \A q \in Parents \ {p} : f[q] = b.parent[q]
  BY DEF Book
<1>. QED
  BY <1>2, <1>3, <1>4, <1>5

\* Closing a child closes that child.
LEMMA CloseKids ==
    ASSUME NEW b \in Book, NEW p \in Parents
    PROVE  /\ ~CloseChild(b, p).parent[p].open
           /\ CloseChild(b, p).parent[p].att = b.parent[p].att
           /\ \A q \in Parents \ {p} : CloseChild(b, p).parent[q] = b.parent[q]
BY DEF CloseChild, Book, ParentRec

\* A fill is booked on the current child, which it may complete.
LEMMA FillKids ==
    ASSUME NEW b \in Book, NEW p \in Parents, NEW d \in Nat
    PROVE  LET c == OnFill(b, p, d) IN
           /\ c.parent[p].att = b.parent[p].att
           /\ c.parent[p].open => /\ b.parent[p].open
                                  /\ c.parent[p].filled = b.parent[p].filled + d
           /\ \A q \in Parents \ {p} : c.parent[q] = b.parent[q]
<1> DEFINE r == b.parent[p]
           done == [r EXCEPT !.cum = @ + d, !.open = FALSE, !.qty = 0, !.filled = 0]
           more == [r EXCEPT !.cum = @ + d, !.filled = @ + d]
           s == IF r.filled + d >= r.qty THEN done ELSE more
<1>1. r \in ParentRec
  BY DEF Book
<1>2. done.att = r.att /\ done.open = FALSE
  BY <1>1 DEF ParentRec
<1>3. more.att = r.att /\ more.open = r.open /\ more.filled = r.filled + d
  BY <1>1 DEF ParentRec
<1>4. s.att = r.att /\ (s.open => r.open /\ s.filled = r.filled + d)
  BY <1>2, <1>3
<1>5. OnFill(b, p, d) = [b EXCEPT !.parent[p] = s]
  BY DEF OnFill
<1>. HIDE DEF s
<1>6. /\ [b EXCEPT !.parent[p] = s].parent[p] = s
      /\ \A q \in Parents \ {p} : [b EXCEPT !.parent[p] = s].parent[q] = b.parent[q]
  BY DEF Book
<1>. QED
  BY <1>4, <1>5, <1>6

\* A broker row is booked at what it says, unless the book knows more.
LEMMA RowKids ==
    ASSUME NEW b \in Book, NEW p \in Parents, NEW f \in Nat, NEW done \in BOOLEAN
    PROVE  Books(b, BookRow(b, p, f, done), p, f)
<1> DEFINE known == b.parent[p].filled
           c == IF f > known THEN OnFill(b, p, f - known) ELSE b
           e == CloseChild(c, p)
<1>1. known \in Nat /\ (f > known => f - known \in Nat /\ known + (f - known) = f)
  BY DEF Book, ParentRec
<1>2. c \in Book
  BY <1>1, OnFillType
<1>3. Books(b, c, p, f)
  BY <1>1, FillKids DEF Books
<1>4. BookRow(b, p, f, done) = IF done /\ c.parent[p].open THEN e ELSE c
  BY DEF BookRow
<1>. HIDE DEF c
<1>5. Books(b, e, p, f)
  BY <1>2, <1>3, CloseKids DEF Books
<1>. QED
  BY <1>3, <1>4, <1>5

\* Settling finished children at a restart only closes them.
LEMMA SettleKids ==
    ASSUME NEW b \in Book, NEW S
    PROVE  Shrinks(b, Settle(b, S)) /\ Shrinks(b, HaltEntries(Settle(b, S)))
<1> DEFINE F(p) == LET r == b.parent[p]
                       f == broker[<<p, r.att>>].filled
                   IN  IF r.open /\ <<p, r.att>> \in S
                         THEN [r EXCEPT !.cum = IF f > r.filled
                                                  THEN @ + (f - r.filled) ELSE @,
                                        !.open = FALSE, !.qty = 0, !.filled = 0]
                         ELSE r
<1>1. ASSUME NEW p \in Parents
      PROVE  /\ F(p).att = b.parent[p].att
             /\ F(p).open => b.parent[p].open /\ F(p).filled = b.parent[p].filled
  <2> DEFINE r == b.parent[p]
             f == broker[<<p, r.att>>].filled
             c == IF f > r.filled THEN r.cum + (f - r.filled) ELSE r.cum
             s == [r EXCEPT !.cum = c, !.open = FALSE, !.qty = 0, !.filled = 0]
  <2>1. r \in ParentRec
    BY DEF Book
  <2>2. F(p) = s \/ F(p) = r
    OBVIOUS
  <2>. HIDE DEF c
  <2>3. s.att = r.att /\ s.open = FALSE
    BY <2>1 DEF ParentRec
  <2>. QED
    BY <2>2, <2>3
<1>2. /\ Settle(b, S).parent = [p \in Parents |-> F(p)]
      /\ HaltEntries(Settle(b, S)).parent = [p \in Parents |-> F(p)]
  BY DEF Settle, HaltEntries, Book
<1>. HIDE DEF F
<1>3. \A p \in Parents : /\ Settle(b, S).parent[p] = F(p)
                         /\ HaltEntries(Settle(b, S)).parent[p] = F(p)
  BY <1>2
<1>. QED
  BY <1>1, <1>3 DEF Shrinks

-----------------------------------------------------------------------------
(* The children of a phase and of the call under way.                      *)

\* Two open children belong to different parents.
LEMMA OpenApart ==
    ASSUME NEW b, NEW j \in Kids, NEW k \in Kids, IsOpen(b, j), IsOpen(b, k),
           j # k
    PROVE  j[1] # k[1]
BY DEF IsOpen, Kids

\* A halt or a registration leaves the same children open.
LEMMA SameOpen ==
    ASSUME NEW b, NEW c, SameKids(b, c)
    PROVE  /\ OpenKids(c) = OpenKids(b)
           /\ \A k \in Kids : IsOpen(c, k) <=> IsOpen(b, k)
BY DEF SameKids, OpenKids, IsOpen, Kids

\* Booking one child leaves the others open.
LEMMA BooksOpen ==
    ASSUME NEW b, NEW c, NEW j \in Kids, NEW k \in Kids, NEW f,
           Books(b, c, k[1], f), IsOpen(b, j), IsOpen(b, k), j # k
    PROVE  IsOpen(c, j)
<1>1. j[1] \in Parents \ {k[1]}
  BY OpenApart DEF Kids
<1>. QED
  BY <1>1 DEF Books, IsOpen

\* A submission opens the child it calls the broker about.
LEMMA PrepareKids ==
    ASSUME NEW b \in Book, NEW p \in Parents, NEW price \in Nat,
           journal \in SUBSET Journal, CanEmit(b, p), SubmitPrepare(b, p, price)
    PROVE  /\ call'.op = "submit" /\ call'.stage = "journaled"
           /\ call'.kid \in Kids /\ call'.kid[1] = p
           /\ IsOpen(book', call'.kid) /\ book'.parent[p].filled = 0
           /\ book'.parent[p].att = b.parent[p].att + 1
           /\ \A q \in Parents \ {p} : book'.parent[q] = b.parent[q]
<1>1. /\ book' = SubmitChild(b, p, price)
      /\ call' = [op |-> "submit", kid |-> <<p, b.parent[p].att + 1>>,
                  stage |-> "journaled", price |-> price]
  BY DEF SubmitPrepare
<1>2. b.parent[p].att + 1 \in Attempts
  BY SubmitChildType
<1>3. call'.op = "submit" /\ call'.stage = "journaled"
      /\ call'.kid = <<p, b.parent[p].att + 1>>
  BY <1>1
<1>. QED
  BY <1>1, <1>2, <1>3, SubmitKids DEF IsOpen, Kids

\* A book that a booking of the child of p produces, halted or not.
LEMMA BooksHalted ==
    ASSUME NEW b \in Book, NEW p \in Parents, NEW f \in Nat, NEW done \in BOOLEAN
    PROVE  /\ Books(b, BookRow(b, p, f, done), p, f)
           /\ Books(b, HaltOnFailure(BookRow(b, p, f, done)), p, f)
<1> DEFINE c == BookRow(b, p, f, done)
<1>1. c \in Book /\ Books(b, c, p, f)
  BY BookRowType, RowKids
<1>. HIDE DEF c
<1>2. SameKids(c, HaltOnFailure(c))
  BY <1>1, KeepsKids
<1>3. Books(b, HaltOnFailure(c), p, f)
  BY <1>1, <1>2 DEF Books, SameKids
<1>. QED
  BY <1>1, <1>3 DEF c

\* The market fills live orders, or ends them: no fill is ever taken back.
LEMMA MarketFills ==
    ASSUME broker \in [Kids -> Order], BrokerFill \/ BrokerEnds
    PROVE  \A k \in Kids : broker[k].filled <= broker'[k].filled
<1>0. \A k \in Kids : broker[k].filled \in Nat
  BY DEF Order
<1>1. PICK j \in BrokerOpen :
        /\ \A k \in Kids \ {j} : broker'[k] = broker[k]
        /\ broker'[j].filled \in {broker[j].filled, broker[j].filled + 1}
  <2>1. CASE BrokerFill
    <3>1. PICK j \in BrokerOpen :
            broker' = [broker EXCEPT ![j] =
                         [broker[j] EXCEPT
                            !.filled = @ + 1,
                            !.st = IF broker[j].filled + 1 = broker[j].qty
                                     THEN "filled" ELSE "live"]]
      BY <2>1 DEF BrokerFill
    <3> DEFINE r == [broker[j] EXCEPT
                       !.filled = @ + 1,
                       !.st = IF broker[j].filled + 1 = broker[j].qty
                                THEN "filled" ELSE "live"]
    <3>2. r.filled = broker[j].filled + 1
      BY DEF BrokerOpen, Order
    <3>3. broker'[j] = r /\ \A k \in Kids \ {j} : broker'[k] = broker[k]
      BY <3>1 DEF BrokerOpen
    <3>. QED
      BY <3>2, <3>3
  <2>2. CASE BrokerEnds
    <3>1. PICK j \in BrokerOpen, s \in {"canceled", "rejected"} :
            broker' = [broker EXCEPT ![j].st = s]
      BY <2>2 DEF BrokerEnds
    <3> DEFINE r == [broker[j] EXCEPT !.st = s]
    <3>2. r.filled = broker[j].filled
      BY DEF BrokerOpen, Order
    <3>3. broker'[j] = r /\ \A k \in Kids \ {j} : broker'[k] = broker[k]
      BY <3>1 DEF BrokerOpen
    <3>. QED
      BY <3>2, <3>3
  <2>. QED
    BY <2>1, <2>2
<1>. QED
  BY <1>0, <1>1 DEF BrokerOpen

\* The initial state has no child of a phase and no call.
LEMMA PendingInit == Init => PendingInv
BY DEF Init, PendingInv, NoCall

\* Every step keeps the children of the phase and of the call open in the book.
LEMMA PendingStep ==
    TypeOK /\ ProcessInv /\ PendingInv /\ [Next]_vars => PendingInv'
<1> SUFFICES ASSUME TypeOK, ProcessInv, PendingInv, [Next]_vars
             PROVE  PendingInv'
  OBVIOUS
<1>0. /\ book \in Book /\ call \in Calls /\ work \in SUBSET Kids
      /\ broker \in [Kids -> Order] /\ todo \in SUBSET Intent
      /\ journal \in SUBSET Journal /\ NoCall.op = "none"
  BY DEF TypeOK, NoCall
<1>01. \A k \in Kids : broker[k].filled \in Nat /\ k[1] \in Parents
  BY <1>0 DEF Order, Kids
<1>02. work \subseteq OpenKids(book) /\ \A k \in work : k \in Kids /\ IsOpen(book, k)
  BY DEF PendingInv, OpenKids
<1>1. CASE SubmitCall
  <2>1. /\ call.op = "submit" /\ call.kid \in Kids
        /\ call'.op = "submit" /\ call'.kid = call.kid
        /\ UNCHANGED <<pc, book, work>>
    BY <1>0, <1>1, CallTypes DEF SubmitCall, Answer
  <2>2. call'.filled <= broker'[call.kid].filled
    <3>1. ASSUME NEW f \in Nat, Accept(call.kid, f)
          PROVE  broker'[call.kid].filled = f
      BY <1>0, <2>1, <3>1 DEF Accept
    <3>2. CASE \E f \in 0 .. book.parent[call.kid[1]].qty :
                 Accept(call.kid, f) /\ Answer("ok", f)
      <4>1. PICK f \in 0 .. book.parent[call.kid[1]].qty :
                   Accept(call.kid, f) /\ Answer("ok", f)
        BY <3>2
      <4>2. f \in Nat /\ call'.filled = f
        BY <1>0, <1>01, <2>1, <4>1 DEF Answer, Book, ParentRec
      <4>. QED
        BY <3>1, <4>1, <4>2
    <3>3. CASE Accept(call.kid, 0) /\ Answer("error", 0)
      <4>1. broker'[call.kid].filled = 0
        BY <3>1, <3>3
      <4>2. call'.filled = 0
        BY <3>3 DEF Answer
      <4>. QED
        BY <4>1, <4>2
    <3>4. CASE (Answer("rejected", 0) \/ Answer("error", 0)) /\ UNCHANGED broker
      BY <1>01, <2>1, <3>4 DEF Answer
    <3>. QED
      BY <1>1, <3>2, <3>3, <3>4 DEF SubmitCall
  <2>. QED
    BY <2>1, <2>2 DEF PendingInv
<1>2. CASE SubmitApply
  <2>1. work = {} /\ UNCHANGED <<pc, work>> /\ call' = NoCall
    BY <1>2 DEF SubmitApply, PendingInv
  <2>. QED
    BY <1>0, <2>1 DEF PendingInv
<1>3. CASE CancelPrepare
  <2>1. PICK k \in work : /\ work' = work \ {k}
                          /\ call' = [op |-> "cancel", kid |-> k,
                                      stage |-> "journaled", price |-> 0]
    BY <1>3 DEF CancelPrepare
  <2>2. UNCHANGED <<pc, book>>
    BY <1>3 DEF CancelPrepare
  <2>. QED
    BY <1>02, <2>1, <2>2 DEF PendingInv
<1>4. CASE CancelCall
  <2>1. /\ call.op = "cancel" /\ call.kid \in Kids
        /\ call'.op = "cancel" /\ call'.kid = call.kid
        /\ UNCHANGED <<pc, book, work>>
    BY <1>0, <1>4, CallTypes DEF CancelCall, Answer
  <2>2. broker'[call.kid].filled = broker[call.kid].filled
    BY <1>0, <1>4, <2>1 DEF CancelCall, CancelAt, Order
  <2>3. call'.filled \in {0, broker[call.kid].filled}
    BY <1>4 DEF CancelCall, Answer
  <2>4. call'.filled <= broker'[call.kid].filled
    BY <1>01, <2>1, <2>2, <2>3
  <2>. QED
    BY <2>1, <2>4 DEF PendingInv
<1>5. CASE CancelApply
  <2>1. /\ call.kid \in Kids /\ call.kid[1] \in Parents /\ call.filled \in Nat
        /\ IsOpen(book, call.kid) /\ call.kid \notin work
        /\ UNCHANGED <<pc, work>> /\ call' = NoCall
    BY <1>0, <1>5, CallTypes DEF CancelApply, PendingInv
  <2>2. \A j \in work : IsOpen(book', j)
    <3>1. CASE call.resp = "ok"
      <4>1. Books(book, book', call.kid[1], call.filled)
        BY <1>0, <1>5, <2>1, <3>1, BooksHalted DEF CancelApply
      <4>. QED
        BY <1>02, <2>1, <4>1, BooksOpen
    <3>2. CASE call.resp # "ok"
      <4>1. SameKids(book, book')
        BY <1>0, <1>5, <3>2, KeepsKids DEF CancelApply, CancelErrorBook
      <4>. QED
        BY <1>02, <4>1, SameOpen
    <3>. QED
      BY <3>1, <3>2
  <2>. QED
    BY <1>0, <1>02, <2>1, <2>2 DEF PendingInv, OpenKids
<1>6. CASE TickStart \/ StaleDone \/ CloseSession \/ CloseCancelsDone
  <2>1. /\ work' \subseteq OpenKids(book) /\ call' = NoCall /\ book' = book
        /\ pc' \in {"stale", "sync", "closing", "closesync"}
    BY <1>6 DEF TickStart, StaleDone, CloseSession, CloseCancelsDone, Idle
  <2>. QED
    BY <1>0, <2>1 DEF PendingInv
<1>7. CASE Poll
  <2>1. PICK k \in work :
          /\ work' = work \ {k}
          /\ \/ LET b == BookRow(book, k[1], broker[k].filled, Terminal(k))
                IN  book' = HaltOnFailure(b) \/ book' = b
             \/ book' = book
    BY <1>7 DEF Poll
  <2>2. /\ k \in Kids /\ k[1] \in Parents /\ broker[k].filled \in Nat
        /\ Terminal(k) \in BOOLEAN /\ IsOpen(book, k)
    BY <1>0, <1>01, <1>02 DEF Terminal
  <2>3. UNCHANGED pc /\ call' = NoCall
    BY <1>7 DEF Poll, Idle
  <2>4. \A j \in work' : IsOpen(book', j)
    <3>1. Books(book, book', k[1], broker[k].filled) \/ book' = book
      BY <1>0, <2>1, <2>2, BooksHalted
    <3>. QED
      BY <1>02, <2>1, <2>2, <3>1, BooksOpen
  <2>5. work' \subseteq Kids
    BY <1>0, <2>1
  <2>6. pc' \in {"sync", "closesync"}
    BY <1>7 DEF Poll
  <2>. QED
    BY <1>0, <2>3, <2>4, <2>5, <2>6 DEF PendingInv, OpenKids
<1>8. CASE \/ SyncDone \/ ExitsDone \/ ChaseDone \/ EvaluateLossBudget
           \/ SkipEntry \/ TickEnd
  <2>1. work' = {} /\ call' = NoCall
    BY <1>8 DEF SyncDone, ExitsDone, ChaseDone, EvaluateLossBudget, SkipEntry,
                TickEnd, Idle, PendingInv
  <2>. QED
    BY <1>0, <2>1 DEF PendingInv
<1>9. CASE ExitIntent \/ Chase \/ EntryIntent
  <2>1. work = {} /\ work' = {} /\ call = NoCall
    BY <1>9 DEF ExitIntent, Chase, EntryIntent, Idle, PendingInv
  <2>2. CASE UNCHANGED call
    BY <1>0, <2>1, <2>2 DEF PendingInv
  <2>3. CASE ~UNCHANGED call
    <3>1. PICK b \in Book, p \in Parents, x \in Nat :
            CanEmit(b, p) /\ SubmitPrepare(b, p, x)
      <4>1. CASE ExitIntent \/ EntryIntent
        <5>1. PICK i \in todo :
                LET b == RegisterIntent(book, i.parent, i.qty)
                IN  CanEmit(b, i.parent) /\ SubmitPrepare(b, i.parent, i.price)
          BY <2>3, <4>1 DEF ExitIntent, EntryIntent
        <5>2. i.parent \in Parents /\ i.qty \in Nat /\ i.price \in Nat
          BY <1>0 DEF Intent
        <5>. QED
          BY <1>0, <5>1, <5>2, RegisterType
      <4>2. CASE Chase
        BY <1>0, <4>2 DEF Chase, Chaseable, Sells
      <4>. QED
        BY <1>9, <4>1, <4>2
    <3>. QED
      BY <1>0, <2>1, <3>1, PrepareKids DEF PendingInv
  <2>. QED
    BY <2>2, <2>3
<1>10. CASE EntryCapRaises \/ CloseEnd \/ Crash
  <2>1. work' = {} /\ call' = NoCall
    BY <1>10 DEF EntryCapRaises, CloseEnd, Crash, ProcessEnds
  <2>. QED
    BY <1>0, <2>1 DEF PendingInv
<1>11. CASE BeginReconcile \/ BeginOpen \/ NextDay
  <2>1. work' = {} /\ call' = NoCall
    BY <1>11 DEF BeginReconcile, BeginOpen, NextDay, process, PendingInv,
                 ProcessInv, InSession
  <2>. QED
    BY <1>0, <2>1 DEF PendingInv
<1>12. CASE BrokerFill \/ BrokerEnds
  <2>1. \A k \in Kids : broker[k].filled <= broker'[k].filled
    BY <1>0, <1>12, MarketFills
  <2>2. UNCHANGED process
    BY <1>12 DEF BrokerFill, BrokerEnds
  <2>3. call.op # "none" /\ call.stage = "answered" =>
          call.filled <= broker'[call.kid].filled
    <3>1. CASE call.op # "none" /\ call.stage = "answered"
      <4>1. call.kid \in Kids /\ call.filled \in Nat
        BY <1>0, <3>1, CallTypes
      <4>2. broker[call.kid].filled \in Nat /\ broker'[call.kid].filled \in Nat
        BY <1>01, <4>1, TypeStep DEF TypeOK, Order
      <4>3. call.filled <= broker[call.kid].filled
        BY <3>1 DEF PendingInv
      <4>. QED
        BY <2>1, <4>1, <4>2, <4>3
    <3>. QED
      BY <3>1
  <2>. QED
    BY <2>2, <2>3 DEF PendingInv, process
<1>13. CASE UNCHANGED vars
  BY <1>13 DEF PendingInv, vars
<1>. QED
  BY <1>1, <1>2, <1>3, <1>4, <1>5, <1>6, <1>7, <1>8, <1>9, <1>10, <1>11,
     <1>12, <1>13 DEF Next, ProcessStep

-----------------------------------------------------------------------------
(* What the envelope has counted.                                          *)

\* The book held, or restored next, is a book.
LEMMA HeldType ==
    ASSUME TypeOK
    PROVE  /\ Held \in Book
           /\ \A p \in Parents : /\ Held.parent[p].att \in Nat
                                 /\ Held.parent[p].filled \in Nat
           /\ \A k \in Kids : /\ k[1] \in Parents /\ k[2] \in Nat \ {0}
                              /\ canary.counted[k] \in Nat
                              /\ broker[k].filled \in Nat
<1>1. Held \in Book
  BY RestoredType DEF Held, TypeOK
<1>2. ASSUME NEW r \in ParentRec
      PROVE  r.att \in Nat /\ r.filled \in Nat
  BY AttemptsAssumption DEF ParentRec
<1>3. \A p \in Parents : /\ Held.parent[p].att \in Nat
                         /\ Held.parent[p].filled \in Nat
  BY <1>1, <1>2 DEF Book
<1>4. \A k \in Kids : k[1] \in Parents /\ k[2] \in Nat \ {0}
  BY AttemptsAssumption DEF Kids, Attempts
<1>5. \A k \in Kids : canary.counted[k] \in Nat /\ broker[k].filled \in Nat
  BY DEF TypeOK, Canary, Order
<1>. QED
  BY <1>1, <1>3, <1>4, <1>5

\* Nothing more is counted of a child that the book does not hold open yet.
LEMMA CountKept ==
    ASSUME TypeOK, CountInv, faults'.crashes = faults.crashes,
           Shrinks(Held, Held'), canary'.counted = canary.counted,
           faults.crashes = 0 =>
               \A k \in Kids : canary.counted[k] <= broker'[k].filled
    PROVE  CountInv'
<1> SUFFICES ASSUME faults'.crashes = 0, NEW k \in Kids
             PROVE  LET r == Held'.parent[k[1]] IN
                    /\ k[2] > r.att => canary'.counted[k] = 0
                    /\ IsOpen(Held', k) => canary'.counted[k] <= r.filled
                    /\ canary'.counted[k] <= broker'[k].filled
  BY DEF CountInv, IsOpen
<1> DEFINE r == Held.parent[k[1]]
<1>1. k[1] \in Parents
  BY DEF Kids
<1>2. /\ k[2] > r.att => canary.counted[k] = 0
      /\ IsOpen(Held, k) => canary.counted[k] <= r.filled
  BY DEF CountInv
<1>3. /\ Held'.parent[k[1]].att = r.att
      /\ Held'.parent[k[1]].open => r.open /\ Held'.parent[k[1]].filled = r.filled
  BY <1>1 DEF Shrinks
<1>4. canary'.counted[k] <= broker'[k].filled
  OBVIOUS
<1>. QED
  BY <1>2, <1>3, <1>4 DEF IsOpen

\* The delta by which a booked fill exceeds what the book knew is counted.
LEMMA CountBooked ==
    ASSUME TypeOK, CountInv, UNCHANGED <<faults, broker>>,
           NEW k \in Kids, NEW f \in Nat, IsOpen(Held, k), f <= broker[k].filled,
           Books(Held, Held', k[1], f),
           canary' = IF f > Held.parent[k[1]].filled
                       THEN Counted(k, f - Held.parent[k[1]].filled) ELSE canary
    PROVE  CountInv'
<1> SUFFICES ASSUME faults'.crashes = 0, NEW j \in Kids
             PROVE  LET r == Held'.parent[j[1]] IN
                    /\ j[2] > r.att => canary'.counted[j] = 0
                    /\ IsOpen(Held', j) => canary'.counted[j] <= r.filled
                    /\ canary'.counted[j] <= broker'[j].filled
  BY DEF CountInv, IsOpen
<1> DEFINE known == Held.parent[k[1]].filled
<1>1. /\ j[1] \in Parents /\ k[1] \in Parents /\ known \in Nat
      /\ canary.counted[j] \in Nat /\ canary.counted[k] \in Nat
      /\ broker[j].filled \in Nat /\ j[2] \in Nat /\ k[2] \in Nat
      /\ Held.parent[k[1]].att = k[2] /\ Held.parent[j[1]].att \in Nat
  BY HeldType DEF IsOpen
<1>2. /\ j[2] > Held.parent[j[1]].att => canary.counted[j] = 0
      /\ IsOpen(Held, j) => canary.counted[j] <= Held.parent[j[1]].filled
      /\ canary.counted[j] <= broker[j].filled
      /\ canary.counted[k] <= known
  BY DEF CountInv
<1>3. /\ \A i \in Kids : i # k => canary'.counted[i] = canary.counted[i]
      /\ canary'.counted[k] = IF f > known THEN canary.counted[k] + (f - known)
                                           ELSE canary.counted[k]
  BY DEF TypeOK, Canary, Counted
<1>4. broker' = broker /\ Held'.parent[j[1]].att = Held.parent[j[1]].att
  BY <1>1 DEF Books
<1>. HIDE DEF known
<1>5. CASE j = k
  <2>1. Held'.parent[k[1]].open =>
          Held'.parent[k[1]].filled = IF f > known THEN f ELSE known
    BY DEF Books, known
  <2>2. canary'.counted[k] <= (IF f > known THEN f ELSE known)
        /\ canary'.counted[k] <= broker[k].filled
    BY <1>1, <1>2, <1>3, <1>5
  <2>. QED
    BY <1>1, <1>4, <1>5, <2>1, <2>2 DEF IsOpen
<1>6. CASE j # k /\ j[1] # k[1]
  BY <1>1, <1>2, <1>3, <1>4, <1>6 DEF Books, IsOpen
<1>7. CASE j # k /\ j[1] = k[1]
  <2>1. j[2] # k[2]
    BY <1>7 DEF Kids
  <2>. QED
    BY <1>1, <1>2, <1>3, <1>4, <1>7, <2>1 DEF IsOpen
<1>. QED
  BY <1>5, <1>6, <1>7

\* Nothing has been counted of the child that a submission opens.
LEMMA CountOpened ==
    ASSUME TypeOK, CountInv, UNCHANGED <<faults, broker, canary>>,
           NEW b \in Book, SameKids(Held, b), NEW p \in Parents,
           Held'.parent[p].att = b.parent[p].att + 1,
           Held'.parent[p].filled = 0,
           \A q \in Parents \ {p} : Held'.parent[q] = b.parent[q]
    PROVE  CountInv'
<1> SUFFICES ASSUME faults'.crashes = 0, NEW j \in Kids
             PROVE  LET r == Held'.parent[j[1]] IN
                    /\ j[2] > r.att => canary'.counted[j] = 0
                    /\ IsOpen(Held', j) => canary'.counted[j] <= r.filled
                    /\ canary'.counted[j] <= broker'[j].filled
  BY DEF CountInv, IsOpen
<1>1. /\ j[1] \in Parents /\ j[2] \in Nat /\ canary.counted[j] \in Nat
      /\ Held.parent[j[1]].att \in Nat /\ Held.parent[p].att \in Nat
  BY HeldType
<1>2. /\ j[2] > Held.parent[j[1]].att => canary.counted[j] = 0
      /\ IsOpen(Held, j) => canary.counted[j] <= Held.parent[j[1]].filled
      /\ canary.counted[j] <= broker[j].filled
  BY DEF CountInv
<1>3. CASE j[1] = p
  <2>1. Held'.parent[p].att = Held.parent[p].att + 1
    BY DEF SameKids
  <2>. QED
    BY <1>1, <1>2, <1>3, <2>1 DEF IsOpen
<1>4. CASE j[1] # p
  BY <1>1, <1>2, <1>4 DEF SameKids, IsOpen
<1>. QED
  BY <1>3, <1>4

\* The initial book holds no child, and nothing is counted.
LEMMA CountInit == Init => CountInv
<1> SUFFICES ASSUME Init
             PROVE  CountInv
  OBVIOUS
<1>1. Held = FreshBook /\ \A p \in Parents : FreshBook.parent[p].filled = 0
  BY DEF Init, Held, RestoredBook, FreshBook, NoParent
<1>2. \A k \in Kids : /\ k[1] \in Parents /\ canary.counted[k] = 0
                      /\ broker[k].filled = 0
  BY DEF Init, NothingCounted, NoOrder, Kids
<1>. QED
  BY <1>1, <1>2 DEF CountInv

\* Every step without a crash keeps the count within what the book knows and
\* what the broker filled.
LEMMA CountStep ==
    TypeOK /\ ProcessInv /\ PendingInv /\ CountInv /\ [Next]_vars => CountInv'
<1> SUFFICES ASSUME TypeOK, ProcessInv, PendingInv, CountInv, [Next]_vars
             PROVE  CountInv'
  OBVIOUS
<1>0. /\ book \in Book /\ call \in Calls /\ work \in SUBSET Kids
      /\ broker \in [Kids -> Order] /\ todo \in SUBSET Intent
      /\ canary \in Canary /\ journal \in SUBSET Journal
      /\ disk \in [day : {0} \cup Days, book : Book] /\ NoCall.op = "none"
  BY DEF TypeOK, NoCall
<1>01. \A k \in Kids : /\ k[1] \in Parents /\ canary.counted[k] \in Nat
                       /\ broker[k].filled \in Nat
  BY HeldType
<1>02. ASSUME NEW b, NEW c, SameKids(b, c)
       PROVE  Shrinks(b, c)
  BY <1>02 DEF SameKids, Shrinks
<1>03. faults.crashes = 0 =>
           \A k \in Kids : canary.counted[k] <= broker[k].filled
  BY DEF CountInv
<1>04. pc # "down" => Held = book
  BY DEF Held
<1>05. pc' # "down" => Held' = book'
  BY DEF Held
<1>06. call # NoCall => pc # "down"
  BY DEF ProcessInv, InSession
<1>1. CASE BeginReconcile
  <2>1. PICK S \in SUBSET Kids, halt \in BOOLEAN :
          book' = IF halt THEN HaltEntries(Settle(RestoredBook, S))
                          ELSE Settle(RestoredBook, S)
    BY <1>1 DEF BeginReconcile, OpenKids
  <2>2. RestoredBook \in Book
    BY <1>0, RestoredType
  <2>3. Shrinks(RestoredBook, book')
    BY <2>1, <2>2, SettleKids
  <2>4. /\ Held = RestoredBook /\ Held' = book' /\ UNCHANGED <<broker, faults>>
        /\ canary'.counted = canary.counted
    BY <1>0, <1>1 DEF BeginReconcile, Held, Canary
  <2>. QED
    BY <1>03, <2>3, <2>4, CountKept
<1>2. CASE \/ BeginOpen \/ TickStart \/ StaleDone \/ SyncDone \/ ExitsDone
           \/ ChaseDone \/ CloseSession \/ CloseCancelsDone
           \/ EvaluateLossBudget \/ SkipEntry \/ TickEnd \/ CancelPrepare
  <2>1. /\ pc # "down" /\ pc' # "down" /\ UNCHANGED <<broker, faults>>
        /\ canary'.counted = canary.counted
    BY <1>0, <1>2 DEF BeginOpen, TickStart, StaleDone, SyncDone, ExitsDone,
       ChaseDone, CloseSession, CloseCancelsDone, EvaluateLossBudget, SkipEntry,
       TickEnd, CancelPrepare, storage, Canary
  <2>2. \/ book' \in {book, HaltEntries(book), HaltIfTripped(book)}
        \/ \E i \in todo : book' = RegisterIntent(book, i.parent, i.qty)
    BY <1>2 DEF BeginOpen, TickStart, StaleDone, SyncDone, ExitsDone,
       ChaseDone, CloseSession, CloseCancelsDone, EvaluateLossBudget, SkipEntry,
       TickEnd, CancelPrepare, TripHalt
  <2>3. \A i \in todo : i.parent \in Parents /\ i.qty \in Nat
    BY <1>0 DEF Intent
  <2>4. SameKids(book, book')
    BY <1>0, <2>2, <2>3, KeepsKids
  <2>. QED
    BY <1>02, <1>03, <1>04, <1>05, <2>1, <2>4, CountKept
<1>3. CASE SubmitCall
  <2>1. /\ call.op = "submit" /\ call.stage = "journaled" /\ call.kid \in Kids
        /\ UNCHANGED <<pc, book, canary>> /\ pc # "down"
        /\ faults'.crashes = faults.crashes
    BY <1>0, <1>06, <1>3, CallTypes DEF SubmitCall, TypeOK
  <2>2. faults.crashes = 0 => canary.counted[call.kid] = 0
    <3>1. IsOpen(Held, call.kid) /\ Held.parent[call.kid[1]].filled = 0
      BY <1>04, <2>1 DEF PendingInv
    <3>. QED
      BY <1>01, <2>1, <3>1 DEF CountInv
  <2>3. /\ \A k \in Kids \ {call.kid} : broker'[k] = broker[k]
        /\ broker'[call.kid].filled \in Nat
    BY <1>0, <1>01, <1>3, <2>1, TypeStep DEF SubmitCall, Accept, TypeOK, Order
  <2>4. faults.crashes = 0 =>
            \A k \in Kids : canary.counted[k] <= broker'[k].filled
    BY <1>03, <2>2, <2>3
  <2>. QED
    BY <1>0, <1>02, <1>04, <1>05, <2>1, <2>4, KeepsKids, CountKept
<1>4. CASE SubmitApply
  <2>1. /\ call.op = "submit" /\ call.stage = "answered" /\ call.kid \in Kids
        /\ call.kid[1] \in Parents /\ call.filled \in Nat
        /\ pc # "down" /\ UNCHANGED <<pc, broker, faults>>
    BY <1>0, <1>06, <1>4, CallTypes DEF SubmitApply
  <2>2. /\ IsOpen(Held, call.kid) /\ Held.parent[call.kid[1]].filled = 0
        /\ Held = book /\ Held' = book'
        /\ call.filled <= broker[call.kid].filled
    BY <1>04, <1>05, <2>1 DEF PendingInv
  <2>3. CASE call.resp = "ok"
    <3>1. Books(book, book', call.kid[1], call.filled)
      <4>1. book' = IF call.filled > 0 THEN OnFill(book, call.kid[1], call.filled)
                                       ELSE book
        BY <1>4, <2>3 DEF SubmitApply
      <4>. QED
        BY <1>0, <2>1, <2>2, <4>1, FillKids DEF Books
    <3>2. canary' = IF call.filled > 0 THEN Counted(call.kid, call.filled)
                                       ELSE canary
      <4>1. canary' = Counted(call.kid, call.filled)
        BY <1>4, <2>3 DEF SubmitApply
      <4>2. Counted(call.kid, 0) = canary
        BY <1>0, <1>01, <2>1 DEF Counted, Canary
      <4>. QED
        BY <2>1, <4>1, <4>2
    <3>3. call.filled - 0 = call.filled
      BY <2>1
    <3>. QED
      BY <2>1, <2>2, <3>1, <3>2, <3>3, CountBooked
  <2>4. CASE call.resp # "ok"
    <3> DEFINE c == CloseChild(book, call.kid[1])
    <3>1. book' = HaltOnFailure(c) /\ canary' = canary
      BY <1>4, <2>4 DEF SubmitApply
    <3>2. c \in Book /\ Shrinks(book, c)
      BY <1>0, <2>1, CloseKids, CloseChildType DEF Shrinks
    <3>. HIDE DEF c
    <3>3. Shrinks(book, book')
      BY <3>1, <3>2, KeepsKids DEF Shrinks, SameKids
    <3>. QED
      BY <1>03, <2>1, <2>2, <3>1, <3>3, CountKept
  <2>. QED
    BY <2>3, <2>4
<1>5. CASE CancelCall
  <2>1. /\ call.op = "cancel" /\ call.kid \in Kids
        /\ UNCHANGED <<pc, book, canary>> /\ pc # "down"
        /\ faults'.crashes = faults.crashes
    BY <1>0, <1>06, <1>5, CallTypes DEF CancelCall, TypeOK
  <2>2. \A k \in Kids : broker'[k].filled = broker[k].filled
    BY <1>0, <1>5, <2>1 DEF CancelCall, CancelAt, Order
  <2>. QED
    BY <1>0, <1>02, <1>03, <1>04, <1>05, <2>1, <2>2, KeepsKids, CountKept
<1>6. CASE CancelApply
  <2>1. /\ call.op = "cancel" /\ call.stage = "answered" /\ call.kid \in Kids
        /\ call.kid[1] \in Parents /\ call.filled \in Nat
        /\ pc # "down" /\ UNCHANGED <<pc, broker, faults>>
    BY <1>0, <1>06, <1>6, CallTypes DEF CancelApply
  <2>2. /\ IsOpen(Held, call.kid) /\ Held = book /\ Held' = book'
        /\ call.filled <= broker[call.kid].filled
    BY <1>04, <1>05, <2>1 DEF PendingInv
  <2>3. CASE call.resp = "ok"
    <3>1. Books(book, book', call.kid[1], call.filled)
      BY <1>0, <1>6, <2>1, <2>3, BooksHalted DEF CancelApply
    <3>2. canary' = CountRow(call.kid, call.filled)
      BY <1>6, <2>3 DEF CancelApply
    <3>. QED
      BY <2>1, <2>2, <3>1, <3>2, CountBooked DEF CountRow
  <2>4. CASE call.resp # "ok"
    <3>1. SameKids(book, book') /\ canary' = canary
      BY <1>0, <1>6, <2>4, KeepsKids DEF CancelApply, CancelErrorBook
    <3>. QED
      BY <1>02, <1>03, <2>1, <2>2, <3>1, CountKept
  <2>. QED
    BY <2>3, <2>4
<1>7. CASE Poll
  <2>1. PICK k \in work :
          \/ /\ canary' = CountRow(k, broker[k].filled)
             /\ LET b == BookRow(book, k[1], broker[k].filled, Terminal(k))
                IN  book' = HaltOnFailure(b) \/ book' = b
          \/ UNCHANGED <<book, canary>>
    BY <1>7 DEF Poll
  <2>2. /\ k \in Kids /\ k[1] \in Parents /\ broker[k].filled \in Nat
        /\ Terminal(k) \in BOOLEAN /\ IsOpen(book, k)
    BY <1>0, <1>01 DEF Terminal, PendingInv, OpenKids
  <2>3. UNCHANGED <<pc, broker, faults>> /\ pc # "down"
    BY <1>7 DEF Poll
  <2>4. Held = book /\ Held' = book'
    BY <1>04, <1>05, <2>3
  <2>5. CASE UNCHANGED <<book, canary>>
    BY <1>0, <1>02, <1>03, <2>3, <2>4, <2>5, KeepsKids, CountKept
  <2>6. CASE ~UNCHANGED <<book, canary>>
    <3>1. Books(book, book', k[1], broker[k].filled)
      BY <1>0, <2>1, <2>2, <2>6, BooksHalted
    <3>2. canary' = CountRow(k, broker[k].filled)
      BY <2>1, <2>6
    <3>3. broker[k].filled <= broker[k].filled
      BY <2>2
    <3>. QED
      BY <2>2, <2>3, <2>4, <3>1, <3>2, <3>3, CountBooked DEF CountRow
  <2>. QED
    BY <2>5, <2>6
<1>8. CASE ExitIntent \/ Chase \/ EntryIntent
  <2>1. /\ pc # "down" /\ pc' # "down" /\ UNCHANGED <<broker, faults, canary>>
    BY <1>8 DEF ExitIntent, Chase, EntryIntent
  <2>2. Held = book /\ Held' = book'
    BY <1>04, <1>05, <2>1
  <2>3. PICK b \in Book, p \in Parents, x \in Nat :
          /\ SameKids(book, b)
          /\ \/ CanEmit(b, p) /\ SubmitPrepare(b, p, x)
             \/ book' = b
    <3>1. CASE ExitIntent \/ EntryIntent
      <4>1. PICK i \in todo :
              LET b == RegisterIntent(book, i.parent, i.qty)
              IN  \/ CanEmit(b, i.parent) /\ SubmitPrepare(b, i.parent, i.price)
                  \/ book' = b
        BY <3>1 DEF ExitIntent, EntryIntent
      <4>2. i.parent \in Parents /\ i.qty \in Nat /\ i.price \in Nat
        BY <1>0 DEF Intent
      <4>. QED
        BY <1>0, <4>1, <4>2, RegisterType, KeepsKids
    <3>2. CASE Chase
      BY <1>0, <3>2, KeepsKids DEF Chase, Chaseable, Sells
    <3>. QED
      BY <1>8, <3>1, <3>2
  <2>4. CASE CanEmit(b, p) /\ SubmitPrepare(b, p, x)
    BY <1>0, <2>1, <2>2, <2>3, <2>4, PrepareKids, CountOpened
  <2>5. CASE book' = b
    BY <1>02, <1>03, <2>1, <2>2, <2>3, <2>5, CountKept
  <2>. QED
    BY <2>3, <2>4, <2>5
<1>9. CASE EntryCapRaises \/ CloseEnd
  <2>1. /\ pc # "down" /\ pc' = "down" /\ UNCHANGED <<day, broker, faults, canary>>
        /\ disk'.day = day
        /\ \/ disk'.book = book
           \/ \E i \in todo : disk'.book = RegisterIntent(book, i.parent, i.qty)
    BY <1>9 DEF EntryCapRaises, CloseEnd, ProcessEnds
  <2>2. \A i \in todo : i.parent \in Parents /\ i.qty \in Nat
    BY <1>0 DEF Intent
  <2>3. SameKids(book, disk'.book)
    BY <1>0, <2>1, <2>2, KeepsKids
  <2>4. Held = book /\ Held' = disk'.book
    BY <2>1 DEF Held, RestoredBook
  <2>. QED
    BY <1>02, <1>03, <2>1, <2>3, <2>4, CountKept
<1>10. CASE Crash
  <2>1. faults'.crashes = faults.crashes + 1 /\ faults.crashes \in Nat
    BY <1>10, BoundsAssumption DEF Crash, TypeOK
  <2>. QED
    BY <2>1 DEF CountInv
<1>11. CASE BrokerFill \/ BrokerEnds
  <2>1. UNCHANGED <<day, process, storage, faults>>
    BY <1>11 DEF BrokerFill, BrokerEnds
  <2>2. Held' = Held
    BY <2>1 DEF Held, RestoredBook, process, storage
  <2>3. Held \in Book /\ Shrinks(Held, Held)
    BY <1>02, HeldType, KeepsKids
  <2>4. ASSUME faults.crashes = 0, NEW k \in Kids
        PROVE  canary.counted[k] <= broker'[k].filled
    <3>1. broker'[k].filled \in Nat
      BY TypeStep DEF TypeOK, Order
    <3>. QED
      BY <1>0, <1>01, <1>03, <1>11, <2>4, <3>1, MarketFills
  <2>. QED
    BY <2>1, <2>2, <2>3, <2>4, CountKept DEF storage
<1>12. CASE NextDay
  <2>1. \A k \in Kids : canary'.counted[k] = 0 /\ broker'[k].filled = 0
    BY <1>0, <1>12 DEF NextDay, Canary, NothingCounted, NoOrder
  <2>2. Held' = IF disk.day = day' THEN disk.book ELSE FreshBook
    BY <1>12 DEF NextDay, process, Held, RestoredBook
  <2>3. Held' \in Book
    BY <1>0, <2>2, FreshBookType
  <2>4. \A k \in Kids : Held'.parent[k[1]].filled \in Nat
    BY <1>01, <2>3 DEF Book, ParentRec
  <2>. QED
    BY <2>1, <2>4 DEF CountInv
<1>13. CASE UNCHANGED vars
  BY <1>13 DEF CountInv, Held, RestoredBook, vars
<1>. QED
  BY <1>1, <1>2, <1>3, <1>4, <1>5, <1>6, <1>7, <1>8, <1>9, <1>10, <1>11,
     <1>12, <1>13 DEF Next, ProcessStep

-----------------------------------------------------------------------------
(* What the broker works.                                                  *)

\* A book with the same children fits the same broker.
LEMMA SameFits ==
    ASSUME NEW b, NEW c, NEW o, SameKids(b, c), Fits(b, o)
    PROVE  Fits(c, o)
<1>1. \A k \in Kids : k[1] \in Parents
  BY DEF Kids
<1>. QED
  BY <1>1 DEF SameKids, Fits, IsOpen

\* A child that the broker does not work may be closed.
LEMMA ClosedFits ==
    ASSUME NEW b, NEW c, NEW o, Fits(b, o),
           \A p \in Parents :
               /\ c.parent[p].att = b.parent[p].att
               /\ \/ c.parent[p] = b.parent[p]
                  \/ o[<<p, b.parent[p].att>>].st # "live"
    PROVE  Fits(c, o)
<1> SUFFICES ASSUME NEW k \in Kids
             PROVE  LET r == c.parent[k[1]] IN
                    /\ k[2] > r.att => o[k].st = "none"
                    /\ o[k].st = "live" => /\ IsOpen(c, k)
                                           /\ o[k].qty = r.qty
                                           /\ o[k].filled < r.qty
  BY DEF Fits
<1>1. k[1] \in Parents /\ k = <<k[1], k[2]>>
  BY DEF Kids
<1>2. LET r == b.parent[k[1]] IN
      /\ k[2] > r.att => o[k].st = "none"
      /\ o[k].st = "live" => /\ IsOpen(b, k)
                             /\ o[k].qty = r.qty
                             /\ o[k].filled < r.qty
  BY DEF Fits
<1>3. CASE c.parent[k[1]] = b.parent[k[1]]
  BY <1>2, <1>3 DEF IsOpen
<1>4. CASE o[<<k[1], b.parent[k[1]].att>>].st # "live"
  <2>1. o[k].st # "live"
    BY <1>1, <1>2, <1>4 DEF IsOpen
  <2>. QED
    BY <1>1, <1>2, <2>1
<1>. QED
  BY <1>1, <1>3, <1>4

\* Booking no more than the broker filled closes no child it works.
LEMMA FillFits ==
    ASSUME NEW b \in Book, NEW o \in [Kids -> Order], NEW k \in Kids, NEW d \in Nat,
           Fits(b, o), IsOpen(b, k), b.parent[k[1]].filled + d <= o[k].filled
    PROVE  Fits(OnFill(b, k[1], d), o)
<1> DEFINE p == k[1]
           r == b.parent[p]
           done == [r EXCEPT !.cum = @ + d, !.open = FALSE, !.qty = 0, !.filled = 0]
           more == [r EXCEPT !.cum = @ + d, !.filled = @ + d]
           s == IF r.filled + d >= r.qty THEN done ELSE more
           c == OnFill(b, p, d)
<1>1. p \in Parents /\ k = <<p, k[2]>>
  BY DEF Kids
<1>2. r \in ParentRec /\ r.filled \in Nat /\ r.qty \in Nat /\ r.att = k[2]
  BY <1>1 DEF Book, ParentRec, IsOpen
<1>3. done.att = r.att /\ more.att = r.att /\ more.open = r.open /\ more.qty = r.qty
  BY <1>2 DEF ParentRec
<1>4. c.parent[p] = s /\ \A q \in Parents \ {p} : c.parent[q] = b.parent[q]
  <2>1. c = [b EXCEPT !.parent[p] = s]
    BY DEF OnFill
  <2>. HIDE DEF s
  <2>. QED
    BY <1>1, <2>1 DEF Book
<1>5. CASE r.filled + d >= r.qty
  <2>1. o[k].filled \in Nat
    BY DEF Order
  <2>2. o[k].st # "live"
    BY <1>2, <1>5, <2>1 DEF Fits
  <2>3. c.parent[p] = done
    BY <1>4, <1>5
  <2>. HIDE DEF done, c
  <2>4. <<p, b.parent[p].att>> = k /\ c.parent[p].att = b.parent[p].att
    BY <1>1, <1>2, <1>3, <2>3
  <2>5. ASSUME NEW q \in Parents
        PROVE  /\ c.parent[q].att = b.parent[q].att
               /\ \/ c.parent[q] = b.parent[q]
                  \/ o[<<q, b.parent[q].att>>].st # "live"
    BY <1>4, <2>2, <2>4
  <2>6. Fits(c, o)
    BY <2>5, ClosedFits
  <2>. QED
    BY <2>6 DEF c
<1>6. CASE ~(r.filled + d >= r.qty)
  <2>1. c.parent[p] = more
    BY <1>4, <1>6
  <2>. HIDE DEF more, c
  <2>2. \A q \in Parents : /\ c.parent[q].att = b.parent[q].att
                           /\ c.parent[q].open = b.parent[q].open
                           /\ c.parent[q].qty = b.parent[q].qty
    BY <1>3, <1>4, <2>1
  <2>3. Fits(c, o)
    <3>1. \A j \in Kids : j[1] \in Parents
      BY DEF Kids
    <3>. QED
      BY <2>2, <3>1 DEF Fits, IsOpen
  <2>. QED
    BY <2>3 DEF c
<1>. QED
  BY <1>5, <1>6

\* Nor does booking a broker row.
LEMMA RowFits ==
    ASSUME NEW b \in Book, NEW o \in [Kids -> Order], NEW k \in Kids, NEW f \in Nat,
           NEW done \in BOOLEAN, Fits(b, o), IsOpen(b, k), f <= o[k].filled,
           done => o[k].st # "live"
    PROVE  Fits(BookRow(b, k[1], f, done), o)
<1> DEFINE known == b.parent[k[1]].filled
           c == IF f > known THEN OnFill(b, k[1], f - known) ELSE b
           e == CloseChild(c, k[1])
<1>1. k[1] \in Parents /\ k = <<k[1], k[2]>>
  BY DEF Kids
<1>2. known \in Nat /\ (f > known => f - known \in Nat /\ known + (f - known) = f)
  BY <1>1 DEF Book, ParentRec
<1>3. c \in Book /\ c.parent[k[1]].att = k[2]
  BY <1>1, <1>2, OnFillType, FillKids DEF IsOpen
<1>4. Fits(c, o)
  BY <1>2, FillFits
<1>5. BookRow(b, k[1], f, done) = IF done /\ c.parent[k[1]].open THEN e ELSE c
  BY DEF BookRow
<1>. HIDE DEF c
<1>6. CASE done
  <2>1. \A q \in Parents : /\ e.parent[q].att = c.parent[q].att
                           /\ \/ e.parent[q] = c.parent[q]
                              \/ o[<<q, c.parent[q].att>>].st # "live"
    BY <1>1, <1>3, <1>6, CloseKids
  <2>. HIDE DEF e
  <2>2. Fits(e, o)
    BY <1>4, <2>1, ClosedFits
  <2>. QED
    BY <1>4, <1>5, <1>6, <2>2 DEF e
<1>7. CASE ~done
  BY <1>4, <1>5, <1>7
<1>. QED
  BY <1>6, <1>7

\* A child may be opened for a parent that has none open.
LEMMA OpenedFits ==
    ASSUME NEW b \in Book, NEW c, NEW o, NEW p \in Parents, Fits(b, o),
           ~b.parent[p].open, c.parent[p].att = b.parent[p].att + 1,
           \A q \in Parents \ {p} : c.parent[q] = b.parent[q]
    PROVE  /\ Fits(c, o)
           /\ \A k \in Kids : k = <<p, c.parent[p].att>> => o[k].st = "none"
<1>1. \A q \in Parents : b.parent[q].att \in Nat
  <2>1. ASSUME NEW r \in ParentRec
        PROVE  r.att \in Nat
    BY AttemptsAssumption DEF ParentRec
  <2>. QED
    BY <2>1 DEF Book
<1>2. \A k \in Kids : k[1] \in Parents /\ k[2] \in Nat
  BY AttemptsAssumption DEF Kids, Attempts
<1>3. ASSUME NEW k \in Kids, k[1] = p
      PROVE  /\ o[k].st # "live"
             /\ k[2] > b.parent[p].att => o[k].st = "none"
  BY <1>3 DEF Fits, IsOpen
<1>4. \A k \in Kids : k[1] = p /\ k[2] > c.parent[p].att => o[k].st = "none"
  BY <1>1, <1>2, <1>3
<1>5. Fits(c, o)
  BY <1>2, <1>3, <1>4 DEF Fits, IsOpen
<1>6. ASSUME NEW k \in Kids, k = <<p, c.parent[p].att>>
      PROVE  o[k].st = "none"
  <2>1. k[1] = p /\ k[2] = b.parent[p].att + 1
    BY <1>6
  <2>. QED
    BY <1>1, <1>3, <2>1
<1>. QED
  BY <1>5, <1>6

\* A restart settles only children that the broker has finished.
LEMMA SettleFits ==
    ASSUME NEW b \in Book, NEW S, S \subseteq {k \in Kids : Terminal(k)},
           Fits(b, broker)
    PROVE  Fits(Settle(b, S), broker) /\ Fits(HaltEntries(Settle(b, S)), broker)
<1> DEFINE F(p) == LET r == b.parent[p]
                       f == broker[<<p, r.att>>].filled
                   IN  IF r.open /\ <<p, r.att>> \in S
                         THEN [r EXCEPT !.cum = IF f > r.filled
                                                  THEN @ + (f - r.filled) ELSE @,
                                        !.open = FALSE, !.qty = 0, !.filled = 0]
                         ELSE r
           c == Settle(b, S)
           h == HaltEntries(c)
<1>1. ASSUME NEW p \in Parents
      PROVE  /\ F(p).att = b.parent[p].att
             /\ F(p) = b.parent[p] \/ broker[<<p, b.parent[p].att>>].st # "live"
  <2> DEFINE r == b.parent[p]
             f == broker[<<p, r.att>>].filled
             n == IF f > r.filled THEN r.cum + (f - r.filled) ELSE r.cum
             s == [r EXCEPT !.cum = n, !.open = FALSE, !.qty = 0, !.filled = 0]
  <2>1. r \in ParentRec
    BY DEF Book
  <2>2. F(p) = r \/ (F(p) = s /\ <<p, r.att>> \in S)
    OBVIOUS
  <2>. HIDE DEF n
  <2>3. s.att = r.att
    BY <2>1 DEF ParentRec
  <2>4. <<p, r.att>> \in S => broker[<<p, r.att>>].st # "live"
    BY DEF Terminal
  <2>. QED
    BY <2>2, <2>3, <2>4
<1>2. c.parent = [p \in Parents |-> F(p)] /\ h.parent = [p \in Parents |-> F(p)]
  BY DEF Settle, HaltEntries, Book
<1>. HIDE DEF F, c, h
<1>3. \A p \in Parents : c.parent[p] = F(p) /\ h.parent[p] = F(p)
  BY <1>2
<1>4. \A p \in Parents :
        /\ c.parent[p].att = b.parent[p].att /\ h.parent[p].att = b.parent[p].att
        /\ c.parent[p] = b.parent[p] \/ broker[<<p, b.parent[p].att>>].st # "live"
        /\ h.parent[p] = b.parent[p] \/ broker[<<p, b.parent[p].att>>].st # "live"
  BY <1>1, <1>3
<1>5. Fits(c, broker) /\ Fits(h, broker)
  BY <1>4, ClosedFits
<1>. QED
  BY <1>5 DEF c, h

\* A step that leaves the fault counters at zero found them there, unless a
\* new day began.
LEMMA NoFaultBefore ==
    ASSUME TypeOK, [Next]_vars, ~NextDay, faults' = [crashes |-> 0, lost |-> 0]
    PROVE  faults' = faults /\ ~Crash
<1>1. faults.crashes \in Nat /\ faults.lost \in Nat
  BY BoundsAssumption DEF TypeOK
<1>2. ~Crash
  BY <1>1 DEF Crash, TypeOK
<1>3. faults' # [faults EXCEPT !.lost = @ + 1]
  <2>1. [faults EXCEPT !.lost = @ + 1].lost = faults.lost + 1
    BY DEF TypeOK
  <2>. QED
    BY <1>1, <2>1
<1>4. CASE SubmitCall
  BY <1>2, <1>3, <1>4 DEF SubmitCall
<1>5. CASE CancelCall
  BY <1>2, <1>3, <1>5 DEF CancelCall
<1>6. CASE ~(SubmitCall \/ CancelCall)
  BY <1>2, <1>6 DEF Next, ProcessStep, BeginReconcile, BeginOpen, SubmitApply,
     CancelPrepare, CancelApply, TickStart, StaleDone, Poll, SyncDone, ExitIntent,
     ExitsDone, Chase, ChaseDone, EvaluateLossBudget, SkipEntry, EntryIntent,
     EntryCapRaises, TickEnd, CloseSession, CloseCancelsDone, CloseEnd,
     BrokerFill, BrokerEnds, vars
<1>. QED
  BY <1>2, <1>4, <1>5, <1>6

\* The broker knows no order initially.
LEMMA WorkingInit == Init => WorkingInv
BY DEF Init, WorkingInv, Fits, CallFits, Sending, NoCall, NoOrder

\* Every step without a fault keeps the broker's orders in the book.
LEMMA WorkingStep ==
    TypeOK /\ ProcessInv /\ PendingInv /\ WorkingInv /\ [Next]_vars => WorkingInv'
<1> SUFFICES ASSUME TypeOK, ProcessInv, PendingInv, WorkingInv, [Next]_vars,
                    faults' = [crashes |-> 0, lost |-> 0]
             PROVE  Fits(Held', broker') /\ CallFits'
  BY DEF WorkingInv, Fits, IsOpen
<1>0. /\ book \in Book /\ call \in Calls /\ work \in SUBSET Kids
      /\ broker \in [Kids -> Order] /\ todo \in SUBSET Intent
      /\ journal \in SUBSET Journal
      /\ disk \in [day : {0} \cup Days, book : Book] /\ NoCall.op = "none"
  BY DEF TypeOK, NoCall
<1>01. \A k \in Kids : broker[k].filled \in Nat /\ k[1] \in Parents
  BY <1>0 DEF Order, Kids
<1>02. ~NextDay => faults' = faults /\ Fits(Held, broker) /\ CallFits
  BY NoFaultBefore DEF WorkingInv
<1>03. call' = NoCall => CallFits'
  BY <1>0 DEF CallFits, Sending
<1>04. pc # "down" => Held = book
  BY DEF Held
<1>05. pc' # "down" => Held' = book'
  BY DEF Held
<1>06. call # NoCall => pc # "down"
  BY DEF ProcessInv, InSession
<1>1. CASE BeginReconcile
  <2>1. PICK S \in SUBSET {k \in Kids : Terminal(k)}, halt \in BOOLEAN :
          book' = IF halt THEN HaltEntries(Settle(RestoredBook, S))
                          ELSE Settle(RestoredBook, S)
    BY <1>1 DEF BeginReconcile, OpenKids
  <2>2. /\ Held = RestoredBook /\ Held' = book' /\ broker' = broker
        /\ call' = NoCall /\ ~NextDay
    BY <1>1 DEF BeginReconcile, Held, ProcessInv, InSession, NextDay, process
  <2>3. RestoredBook \in Book
    BY <1>0, RestoredType
  <2>. QED
    BY <1>02, <1>03, <2>1, <2>2, <2>3, SettleFits
<1>2. CASE \/ BeginOpen \/ TickStart \/ StaleDone \/ SyncDone \/ ExitsDone
           \/ ChaseDone \/ CloseSession \/ CloseCancelsDone
           \/ EvaluateLossBudget \/ SkipEntry \/ TickEnd \/ CancelPrepare
  <2>1. /\ pc # "down" /\ pc' # "down" /\ broker' = broker
        /\ \/ call' = NoCall
           \/ call'.op = "cancel" /\ call'.stage = "journaled"
    BY <1>2 DEF BeginOpen, TickStart, StaleDone, SyncDone, ExitsDone,
       ChaseDone, CloseSession, CloseCancelsDone, EvaluateLossBudget, SkipEntry,
       TickEnd, CancelPrepare, Idle, ProcessInv, InSession
  <2>2. \/ book' \in {book, HaltEntries(book), HaltIfTripped(book)}
        \/ \E i \in todo : book' = RegisterIntent(book, i.parent, i.qty)
    BY <1>2 DEF BeginOpen, TickStart, StaleDone, SyncDone, ExitsDone,
       ChaseDone, CloseSession, CloseCancelsDone, EvaluateLossBudget, SkipEntry,
       TickEnd, CancelPrepare, TripHalt
  <2>3. \A i \in todo : i.parent \in Parents /\ i.qty \in Nat
    BY <1>0 DEF Intent
  <2>4. SameKids(book, book')
    BY <1>0, <2>2, <2>3, KeepsKids
  <2>5. CallFits'
    BY <1>03, <2>1 DEF CallFits, Sending
  <2>6. ~NextDay
    BY <2>1 DEF NextDay
  <2>. QED
    BY <1>02, <1>04, <1>05, <2>1, <2>4, <2>5, <2>6, SameFits
<1>3. CASE SubmitCall
  <2>1. /\ call.op = "submit" /\ call.stage = "journaled" /\ call.kid \in Kids
        /\ UNCHANGED <<pc, book>> /\ pc # "down" /\ ~NextDay
    BY <1>0, <1>06, <1>3, CallTypes DEF SubmitCall, NextDay
  <2>2. /\ Held = book /\ Held' = book /\ IsOpen(book, call.kid)
        /\ broker[call.kid].st = "none"
        /\ Fits(book, broker) /\ faults' = faults
    BY <1>02, <1>04, <1>05, <2>1 DEF PendingInv, CallFits, Sending
  <2>3. CASE \E f \in 0 .. book.parent[call.kid[1]].qty :
               Accept(call.kid, f) /\ Answer("ok", f)
    <3>1. PICK f \in 0 .. book.parent[call.kid[1]].qty :
                 Accept(call.kid, f) /\ Answer("ok", f)
      BY <2>3
    <3> DEFINE q == book.parent[call.kid[1]].qty
    <3>2. /\ q \in Nat /\ f \in 0 .. q
          /\ book.parent[call.kid[1]].att = call.kid[2]
      BY <1>0, <1>01, <2>1, <2>2 DEF Book, ParentRec, IsOpen
    <3>3. /\ \A k \in Kids \ {call.kid} : broker'[k] = broker[k]
          /\ broker'[call.kid].st = (IF f = q THEN "filled" ELSE "live")
          /\ broker'[call.kid].qty = q /\ broker'[call.kid].filled = f
      BY <1>0, <2>1, <3>1 DEF Accept
    <3>4. CallFits'
      BY <2>1, <3>1 DEF Answer, CallFits, Sending
    <3>5. call.kid[2] \in Nat
      BY <2>1, AttemptsAssumption DEF Kids, Attempts
    <3>6. ASSUME NEW k \in Kids
          PROVE  LET r == book.parent[k[1]] IN
                 /\ k[2] > r.att => broker'[k].st = "none"
                 /\ broker'[k].st = "live" => /\ IsOpen(book, k)
                                              /\ broker'[k].qty = r.qty
                                              /\ broker'[k].filled < r.qty
      <4>1. CASE k = call.kid
        BY <2>2, <3>2, <3>3, <3>5, <4>1
      <4>2. CASE k # call.kid
        BY <2>2, <3>3, <4>2 DEF Fits
      <4>. QED
        BY <4>1, <4>2
    <3>7. Fits(book, broker')
      BY <3>6 DEF Fits
    <3>. QED
      BY <2>2, <3>4, <3>7
  <2>4. CASE (Answer("rejected", 0) \/ Answer("error", 0)) /\ UNCHANGED broker
    <3>1. call'.kid = call.kid /\ call'.op = "submit" /\ call'.stage = "answered"
      BY <2>1, <2>4 DEF Answer
    <3>. QED
      BY <2>2, <2>4, <3>1 DEF CallFits, Sending
  <2>5. ~(faults' = [faults EXCEPT !.lost = @ + 1])
    BY <2>2, BoundsAssumption DEF TypeOK
  <2>. QED
    BY <1>3, <2>3, <2>4, <2>5 DEF SubmitCall
<1>4. CASE SubmitApply
  <2>1. /\ call.op = "submit" /\ call.stage = "answered" /\ call.kid \in Kids
        /\ call.kid[1] \in Parents /\ call.filled \in Nat
        /\ pc # "down" /\ UNCHANGED <<pc, broker>> /\ call' = NoCall /\ ~NextDay
    BY <1>0, <1>06, <1>4, CallTypes DEF SubmitApply, NextDay
  <2>2. /\ IsOpen(book, call.kid) /\ book.parent[call.kid[1]].filled = 0
        /\ Held = book /\ Held' = book' /\ Fits(book, broker) /\ CallFits
        /\ call.filled <= broker[call.kid].filled
    BY <1>02, <1>04, <1>05, <2>1 DEF PendingInv
  <2>3. CASE call.resp = "ok"
    <3>1. book' = IF call.filled > 0 THEN OnFill(book, call.kid[1], call.filled)
                                     ELSE book
      BY <1>4, <2>3 DEF SubmitApply
    <3>2. 0 + call.filled = call.filled
      BY <2>1
    <3>. QED
      BY <1>0, <1>03, <2>1, <2>2, <3>1, <3>2, FillFits
  <2>4. CASE call.resp # "ok"
    <3> DEFINE c == CloseChild(book, call.kid[1])
    <3>1. book' = HaltOnFailure(c)
      BY <1>4, <2>4 DEF SubmitApply
    <3>2. broker[call.kid].st # "live"
      BY <2>1, <2>2, <2>4 DEF CallFits
    <3>3. call.kid = <<call.kid[1], book.parent[call.kid[1]].att>>
      BY <2>1, <2>2 DEF IsOpen, Kids
    <3>4. \A p \in Parents :
            /\ c.parent[p].att = book.parent[p].att
            /\ \/ c.parent[p] = book.parent[p]
               \/ broker[<<p, book.parent[p].att>>].st # "live"
      BY <1>0, <2>1, <3>2, <3>3, CloseKids
    <3>5. c \in Book
      BY <1>0, <2>1, CloseChildType
    <3>. HIDE DEF c
    <3>6. Fits(c, broker)
      BY <2>2, <3>4, ClosedFits
    <3>. QED
      BY <1>03, <2>1, <2>2, <3>1, <3>5, <3>6, KeepsKids, SameFits
  <2>. QED
    BY <2>3, <2>4
<1>5. CASE CancelCall
  <2>1. /\ call.op = "cancel" /\ call.stage = "journaled" /\ call.kid \in Kids
        /\ UNCHANGED <<pc, book>> /\ pc # "down" /\ ~NextDay
    BY <1>0, <1>06, <1>5, CallTypes DEF CancelCall, NextDay
  <2>2. Held = book /\ Held' = book /\ Fits(book, broker) /\ faults' = faults
    BY <1>02, <1>04, <1>05, <2>1
  <2>3. CASE CancelAt(call.kid) /\ Answer("ok", broker[call.kid].filled)
    <3>1. /\ \A k \in Kids \ {call.kid} : broker'[k] = broker[k]
          /\ broker'[call.kid].st = (IF broker[call.kid].st = "live"
                                       THEN "canceled" ELSE broker[call.kid].st)
      BY <1>0, <2>1, <2>3 DEF CancelAt, Order
    <3>2. call'.kid = call.kid /\ call'.op = "cancel" /\ call'.stage = "answered"
      BY <2>1, <2>3 DEF Answer
    <3>3. CallFits'
      BY <3>1, <3>2 DEF CallFits, Sending
    <3>4. Fits(book, broker')
      BY <2>2, <3>1 DEF Fits
    <3>. QED
      BY <2>2, <3>3, <3>4
  <2>4. CASE Answer("error", 0) /\ UNCHANGED broker
    <3>1. /\ call'.op = "cancel" /\ call'.stage = "answered"
          /\ call'.resp = "error"
      BY <2>1, <2>4 DEF Answer
    <3>. QED
      BY <2>2, <2>4, <3>1 DEF CallFits, Sending
  <2>5. ~(faults' = [faults EXCEPT !.lost = @ + 1])
    BY <2>2, BoundsAssumption DEF TypeOK
  <2>. QED
    BY <1>5, <2>3, <2>4, <2>5 DEF CancelCall
<1>6. CASE CancelApply
  <2>1. /\ call.op = "cancel" /\ call.stage = "answered" /\ call.kid \in Kids
        /\ call.filled \in Nat
        /\ pc # "down" /\ UNCHANGED <<pc, broker>> /\ call' = NoCall /\ ~NextDay
    BY <1>0, <1>06, <1>6, CallTypes DEF CancelApply, NextDay
  <2>2. /\ IsOpen(book, call.kid) /\ Held = book /\ Held' = book'
        /\ Fits(book, broker) /\ CallFits
        /\ call.filled <= broker[call.kid].filled
    BY <1>02, <1>04, <1>05, <2>1 DEF PendingInv
  <2>3. CASE call.resp = "ok"
    <3>1. broker[call.kid].st # "live"
      BY <2>1, <2>2, <2>3 DEF CallFits
    <3>2. book' = BookRow(book, call.kid[1], call.filled, TRUE)
      BY <1>6, <2>3 DEF CancelApply
    <3>. QED
      BY <1>0, <1>03, <2>1, <2>2, <3>1, <3>2, RowFits
  <2>4. CASE call.resp # "ok"
    <3>1. SameKids(book, book')
      BY <1>0, <1>6, <2>4, KeepsKids DEF CancelApply, CancelErrorBook
    <3>. QED
      BY <1>03, <2>1, <2>2, <3>1, SameFits
  <2>. QED
    BY <2>3, <2>4
<1>7. CASE Poll
  <2>1. PICK k \in work :
          \/ LET b == BookRow(book, k[1], broker[k].filled, Terminal(k))
             IN  book' = HaltOnFailure(b) \/ book' = b
          \/ book' = book
    BY <1>7 DEF Poll
  <2>2. /\ k \in Kids /\ k[1] \in Parents /\ broker[k].filled \in Nat
        /\ Terminal(k) \in BOOLEAN /\ IsOpen(book, k)
        /\ Terminal(k) => broker[k].st # "live"
    BY <1>0, <1>01 DEF Terminal, PendingInv, OpenKids
  <2>3. UNCHANGED <<pc, broker>> /\ pc # "down" /\ call' = NoCall /\ ~NextDay
    BY <1>7 DEF Poll, Idle, NextDay
  <2>4. Held = book /\ Held' = book' /\ Fits(book, broker)
    BY <1>02, <1>04, <1>05, <2>3
  <2> DEFINE b == BookRow(book, k[1], broker[k].filled, Terminal(k))
  <2>5. b \in Book
    BY <1>0, <2>2, BookRowType
  <2>6. Fits(b, broker)
    <3>1. broker[k].filled <= broker[k].filled
      BY <2>2
    <3>. QED
      BY <1>0, <2>2, <2>4, <3>1, RowFits
  <2>7. book' = HaltOnFailure(b) \/ book' = b \/ book' = book
    BY <2>1
  <2>. HIDE DEF b
  <2>. QED
    BY <1>03, <2>3, <2>4, <2>5, <2>6, <2>7, KeepsKids, SameFits
<1>8. CASE ExitIntent \/ Chase \/ EntryIntent
  <2>1. /\ pc # "down" /\ pc' # "down" /\ broker' = broker /\ call = NoCall
        /\ ~NextDay
    BY <1>8 DEF ExitIntent, Chase, EntryIntent, Idle, NextDay
  <2>2. Held = book /\ Held' = book' /\ Fits(book, broker)
    BY <1>02, <1>04, <1>05, <2>1
  <2>3. PICK b \in Book, p \in Parents, x \in Nat :
          /\ SameKids(book, b)
          /\ \/ CanEmit(b, p) /\ SubmitPrepare(b, p, x)
             \/ book' = b /\ call' = call
    <3>1. CASE ExitIntent \/ EntryIntent
      <4>1. PICK i \in todo :
              LET b == RegisterIntent(book, i.parent, i.qty)
              IN  \/ CanEmit(b, i.parent) /\ SubmitPrepare(b, i.parent, i.price)
                  \/ book' = b /\ call' = call
        BY <3>1 DEF ExitIntent, EntryIntent
      <4>2. i.parent \in Parents /\ i.qty \in Nat /\ i.price \in Nat
        BY <1>0 DEF Intent
      <4>. QED
        BY <1>0, <4>1, <4>2, RegisterType, KeepsKids
    <3>2. CASE Chase
      BY <1>0, <3>2, KeepsKids DEF Chase, Chaseable, Sells
    <3>. QED
      BY <1>8, <3>1, <3>2
  <2>4. Fits(b, broker)
    BY <2>2, <2>3, SameFits
  <2>5. CASE CanEmit(b, p) /\ SubmitPrepare(b, p, x)
    <3>1. /\ call'.op = "submit" /\ call'.stage = "journaled" /\ call'.kid \in Kids
          /\ call'.kid[1] = p /\ IsOpen(book', call'.kid)
          /\ book'.parent[p].att = b.parent[p].att + 1
          /\ \A q \in Parents \ {p} : book'.parent[q] = b.parent[q]
      BY <1>0, <2>3, <2>5, PrepareKids
    <3>2. ~b.parent[p].open
      BY <2>5 DEF CanEmit
    <3>3. call'.kid = <<p, book'.parent[p].att>>
      BY <3>1 DEF IsOpen, Kids
    <3>4. Fits(book', broker) /\ broker[call'.kid].st = "none"
      BY <2>3, <2>4, <3>1, <3>2, <3>3, OpenedFits
    <3>. QED
      BY <2>1, <2>2, <3>1, <3>4 DEF CallFits
  <2>6. CASE book' = b /\ call' = call
    BY <1>03, <2>1, <2>2, <2>4, <2>6
  <2>. QED
    BY <2>3, <2>5, <2>6
<1>9. CASE EntryCapRaises \/ CloseEnd
  <2>1. /\ pc # "down" /\ pc' = "down" /\ UNCHANGED <<day, broker>>
        /\ disk'.day = day /\ call' = NoCall /\ ~NextDay
        /\ \/ disk'.book = book
           \/ \E i \in todo : disk'.book = RegisterIntent(book, i.parent, i.qty)
    BY <1>9 DEF EntryCapRaises, CloseEnd, ProcessEnds, NextDay
  <2>2. \A i \in todo : i.parent \in Parents /\ i.qty \in Nat
    BY <1>0 DEF Intent
  <2>3. SameKids(book, disk'.book)
    BY <1>0, <2>1, <2>2, KeepsKids
  <2>4. Held = book /\ Held' = disk'.book
    BY <2>1 DEF Held, RestoredBook
  <2>. QED
    BY <1>02, <1>03, <2>1, <2>3, <2>4, SameFits
<1>10. CASE Crash
  BY <1>10, NoFaultBefore DEF Crash, NextDay
<1>11. CASE BrokerFill \/ BrokerEnds
  <2>1. UNCHANGED <<day, process, storage>>
    BY <1>11 DEF BrokerFill, BrokerEnds
  <2>2. Held' = Held /\ call' = call
    BY <2>1 DEF Held, RestoredBook, process, storage
  <2>3. Fits(Held, broker) /\ CallFits
    <3>1. faults' = faults
      BY <1>11 DEF BrokerFill, BrokerEnds
    <3>. QED
      BY <3>1 DEF WorkingInv
  <2>4. PICK j \in BrokerOpen :
          /\ \A k \in Kids \ {j} : broker'[k] = broker[k]
          /\ broker'[j].qty = broker[j].qty
          /\ broker'[j].st = "live" => /\ broker'[j].filled = broker[j].filled + 1
                                       /\ broker'[j].filled # broker[j].qty
    <3>1. CASE BrokerFill
      <4>1. PICK j \in BrokerOpen :
              broker' = [broker EXCEPT ![j] =
                           [broker[j] EXCEPT
                              !.filled = @ + 1,
                              !.st = IF broker[j].filled + 1 = broker[j].qty
                                       THEN "filled" ELSE "live"]]
        BY <3>1 DEF BrokerFill
      <4> DEFINE r == [broker[j] EXCEPT
                         !.filled = @ + 1,
                         !.st = IF broker[j].filled + 1 = broker[j].qty
                                  THEN "filled" ELSE "live"]
      <4>2. /\ r.filled = broker[j].filled + 1 /\ r.qty = broker[j].qty
            /\ r.st = "live" => r.filled # broker[j].qty
        BY <1>0 DEF BrokerOpen, Order
      <4>3. broker'[j] = r /\ \A k \in Kids \ {j} : broker'[k] = broker[k]
        BY <1>0, <4>1 DEF BrokerOpen
      <4>. QED
        BY <4>2, <4>3
    <3>2. CASE BrokerEnds
      <4>1. PICK j \in BrokerOpen, s \in {"canceled", "rejected"} :
              broker' = [broker EXCEPT ![j].st = s]
        BY <3>2 DEF BrokerEnds
      <4> DEFINE r == [broker[j] EXCEPT !.st = s]
      <4>2. r.qty = broker[j].qty /\ r.st = s
        BY <1>0 DEF BrokerOpen, Order
      <4>3. broker'[j] = r /\ \A k \in Kids \ {j} : broker'[k] = broker[k]
        BY <1>0, <4>1 DEF BrokerOpen
      <4>. QED
        BY <4>2, <4>3
    <3>. QED
      BY <1>11, <3>1, <3>2
  <2>5. /\ j \in Kids /\ broker[j].st = "live" /\ IsOpen(Held, j)
        /\ broker[j].qty = Held.parent[j[1]].qty
        /\ broker[j].filled < Held.parent[j[1]].qty
        /\ broker[j].filled \in Nat /\ broker[j].qty \in Nat
        /\ ~(j[2] > Held.parent[j[1]].att)
    BY <1>0, <2>3 DEF BrokerOpen, Fits, Order
  <2>6. Fits(Held, broker')
    <3>1. ASSUME NEW k \in Kids
          PROVE  LET r == Held.parent[k[1]] IN
                 /\ k[2] > r.att => broker'[k].st = "none"
                 /\ broker'[k].st = "live" => /\ IsOpen(Held, k)
                                              /\ broker'[k].qty = r.qty
                                              /\ broker'[k].filled < r.qty
      <4>1. CASE k = j
        BY <2>4, <2>5, <4>1
      <4>2. CASE k # j
        BY <2>3, <2>4, <4>2 DEF Fits
      <4>. QED
        BY <4>1, <4>2
    <3>. QED
      BY <3>1 DEF Fits
  <2>7. CallFits'
    <3>1. \A k \in Kids : broker[k].st # "live" => broker'[k] = broker[k]
      BY <2>4, <2>5
    <3>2. call.op # "none" => call.kid \in Kids
      BY <1>0, CallTypes
    <3>. QED
      BY <2>2, <2>3, <3>1, <3>2 DEF CallFits, Sending
  <2>. QED
    BY <2>2, <2>6, <2>7
<1>12. CASE NextDay
  <2>1. \A k \in Kids : broker'[k].st = "none"
    BY <1>12 DEF NextDay, NoOrder
  <2>2. call' = NoCall
    BY <1>12 DEF NextDay, process, ProcessInv, InSession
  <2>. QED
    BY <1>03, <2>1, <2>2 DEF Fits
<1>13. CASE UNCHANGED vars
  <2>1. ~NextDay => Held' = Held /\ broker' = broker /\ CallFits' = CallFits
    BY <1>13 DEF Held, RestoredBook, CallFits, Sending, vars
  <2>. QED
    BY <1>02, <1>12, <2>1
<1>. QED
  BY <1>1, <1>2, <1>3, <1>4, <1>5, <1>6, <1>7, <1>8, <1>9, <1>10, <1>11,
     <1>12, <1>13 DEF Next, ProcessStep

-----------------------------------------------------------------------------
(* The theorems.                                                           *)

\* NoOvercountCorrect: on a day without a crash the envelope counts no more of
\* an order than the broker filled, over every order of polls, cancels, lost
\* answers, restarts after an orderly end and market fills
\* (_sync_open_children, _cancel_child and _submit_parent_remainder book
\* deltas against the child the book holds open).
THEOREM NoOvercountCorrect == Spec => []NoOvercount
<1>1. Init => PendingInv /\ CountInv
  BY PendingInit, CountInit
<1>2. IInv /\ PendingInv /\ CountInv /\ [Next]_vars => (PendingInv /\ CountInv)'
  BY PendingStep, CountStep DEF IInv
<1>3. CountInv => NoOvercount
  BY DEF CountInv, NoOvercount
<1>. QED
  BY <1>1, <1>2, <1>3, InvCorrect, PTL DEF Spec

\* NoOrphansCorrect: without a crash or a lost answer the broker works no order
\* that the book does not hold open, whatever is cancelled, polled, filled in
\* part, refused or settled at a restart: nothing is left behind that no poll,
\* cancel or close would find (_cancel_child keeps a child whose cancel failed,
\* _sync_open_children closes a child only on a final state).
THEOREM NoOrphansCorrect == Spec => []NoOrphans
<1>1. Init => PendingInv /\ WorkingInv
  BY PendingInit, WorkingInit
<1>2. IInv /\ PendingInv /\ WorkingInv /\ [Next]_vars => (PendingInv /\ WorkingInv)'
  BY PendingStep, WorkingStep DEF IInv
<1>3. WorkingInv => NoOrphans
  BY DEF WorkingInv, NoOrphans, Fits, BrokerOpen, OpenKids
<1>. QED
  BY <1>1, <1>2, <1>3, InvCorrect, PTL DEF Spec
=============================================================================
