------------------------- MODULE LiveExecutorProofs -------------------------
(***************************************************************************)
(* Machine-checked proofs about LiveExecutor, for every set of parents,    *)
(* every batch of intents and every cap, ceiling, threshold and bound.     *)
(***************************************************************************)
EXTENDS LiveExecutor, FiniteSetTheorems, TLAPS

-----------------------------------------------------------------------------
(* What the operations of the order-state book preserve.                   *)

\* A fresh book is a book, and nothing is open, halted or spent in it.
LEMMA FreshBookType ==
    FreshBook \in Book /\ FreshBook.gross = 0 /\ FreshBook.halted = FALSE
BY AttemptsAssumption DEF FreshBook, Book, ParentRec, NoParent, Unregistered

\* register_intent neither halts nor spends.
LEMMA RegisterType ==
    ASSUME NEW b \in Book, NEW p \in Parents, NEW q \in Nat
    PROVE  /\ RegisterIntent(b, p, q) \in Book
           /\ RegisterIntent(b, p, q).gross = b.gross
           /\ RegisterIntent(b, p, q).halted = b.halted
BY DEF RegisterIntent, Registered, Book, ParentRec, Unregistered

\* submit_child requests the remainder and spends its notional if it buys.
LEMMA SubmitChildType ==
    ASSUME NEW b \in Book, NEW p \in Parents, NEW price \in Nat, CanEmit(b, p)
    PROVE  /\ Remaining(b.parent[p]) \in Nat
           /\ SubmitChild(b, p, price) \in Book
           /\ SubmitChild(b, p, price).halted = b.halted
           /\ SubmitChild(b, p, price).parent[p].qty = Remaining(b.parent[p])
           /\ p \in Buys => SubmitChild(b, p, price).gross
                              = b.gross + Remaining(b.parent[p]) * price
           /\ p \notin Buys => SubmitChild(b, p, price).gross = b.gross
           /\ b.parent[p].att + 1 \in Attempts
<1> DEFINE r == b.parent[p]
           q == Remaining(r)
           r2 == [r EXCEPT !.att = @ + 1, !.open = TRUE, !.qty = q, !.filled = 0]
<1>1. r \in ParentRec
  BY DEF Book
<1>2. q \in Nat
  BY <1>1, Unregistered = -1 DEF CanEmit, Remaining, ParentRec, Unregistered
<1>3. r.att + 1 \in Attempts /\ r.att + 1 \in 0 .. MaxAttempts
  BY <1>1, AttemptsAssumption DEF CanEmit, ParentRec, Attempts
<1>4. r2 \in ParentRec
  BY <1>1, <1>2, <1>3 DEF ParentRec
<1>5. q * price \in Nat
  BY <1>2
<1> DEFINE g == IF p \in Buys THEN b.gross + q * price ELSE b.gross
           f == [b.parent EXCEPT ![p] = r2]
<1>6. f \in [Parents -> ParentRec] /\ f[p] = r2
  BY <1>4 DEF Book
<1>7. g \in Nat
  BY <1>5 DEF Book
<1>8. SubmitChild(b, p, price) = [b EXCEPT !.parent = f, !.gross = g]
  BY DEF SubmitChild, Book
<1>9. r2.qty = q
  BY <1>1 DEF ParentRec
<1>. HIDE DEF q, r2, f, g
<1>10. /\ [b EXCEPT !.parent = f, !.gross = g] \in Book
      /\ [b EXCEPT !.parent = f, !.gross = g].parent = f
      /\ [b EXCEPT !.parent = f, !.gross = g].gross = g
      /\ [b EXCEPT !.parent = f, !.gross = g].halted = b.halted
  BY <1>6, <1>7 DEF Book
<1>. QED
  BY <1>2, <1>3, <1>6, <1>8, <1>9, <1>10 DEF q, g

\* Closing a child neither halts nor spends nor gives notional back.
LEMMA CloseChildType ==
    ASSUME NEW b \in Book, NEW p \in Parents
    PROVE  /\ CloseChild(b, p) \in Book
           /\ CloseChild(b, p).gross = b.gross
           /\ CloseChild(b, p).halted = b.halted
BY DEF CloseChild, Book, ParentRec

\* A fill neither halts nor spends.
LEMMA OnFillType ==
    ASSUME NEW b \in Book, NEW p \in Parents, NEW d \in Nat
    PROVE  /\ OnFill(b, p, d) \in Book
           /\ OnFill(b, p, d).gross = b.gross
           /\ OnFill(b, p, d).halted = b.halted
<1> DEFINE r == b.parent[p]
           done == [r EXCEPT !.cum = @ + d, !.open = FALSE, !.qty = 0, !.filled = 0]
           more == [r EXCEPT !.cum = @ + d, !.filled = @ + d]
<1>1. r \in ParentRec
  BY DEF Book
<1>2. r.cum + d \in Nat /\ r.filled + d \in Nat
  BY <1>1 DEF ParentRec
<1>3. done \in ParentRec
  BY <1>1, <1>2 DEF ParentRec
<1>4. more \in ParentRec
  BY <1>1, <1>2 DEF ParentRec
<1>. QED
  BY <1>3, <1>4 DEF OnFill, Book

\* Halting changes the halt flag only.
LEMMA HaltType ==
    ASSUME NEW b \in Book
    PROVE  /\ HaltEntries(b) \in Book
           /\ HaltEntries(b).gross = b.gross
           /\ HaltEntries(b).halted = TRUE
           /\ HaltEntries(b).parent = b.parent
BY DEF HaltEntries, Book

\* Booking a broker row neither halts nor spends.
LEMMA BookRowType ==
    ASSUME NEW b \in Book, NEW p \in Parents, NEW f \in Nat, NEW done \in BOOLEAN
    PROVE  /\ BookRow(b, p, f, done) \in Book
           /\ BookRow(b, p, f, done).gross = b.gross
           /\ BookRow(b, p, f, done).halted = b.halted
<1> DEFINE known == b.parent[p].filled
           c == IF f > known THEN OnFill(b, p, f - known) ELSE b
<1>1. known \in Nat
  BY DEF Book, ParentRec
<1>2. f > known => f - known \in Nat
  BY <1>1
<1>3. c \in Book /\ c.gross = b.gross /\ c.halted = b.halted
  BY <1>2, OnFillType
<1>. HIDE DEF c
<1>4. /\ CloseChild(c, p) \in Book
      /\ CloseChild(c, p).gross = c.gross
      /\ CloseChild(c, p).halted = c.halted
  BY <1>3, CloseChildType
<1>. QED
  BY <1>3, <1>4 DEF BookRow, c

\* Settling finished children at a restart neither halts nor spends.
LEMMA SettleType ==
    ASSUME NEW b \in Book, NEW S \in SUBSET Kids,
           broker \in [Kids -> Order]
    PROVE  /\ Settle(b, S) \in Book
           /\ Settle(b, S).gross = b.gross
           /\ Settle(b, S).halted = b.halted
<1> DEFINE F(p) == LET r == b.parent[p]
                       f == broker[<<p, r.att>>].filled
                   IN  IF r.open /\ <<p, r.att>> \in S
                         THEN [r EXCEPT !.cum = IF f > r.filled
                                                  THEN @ + (f - r.filled) ELSE @,
                                        !.open = FALSE, !.qty = 0, !.filled = 0]
                         ELSE r
<1>1. ASSUME NEW p \in Parents
      PROVE  F(p) \in ParentRec
  <2> DEFINE r == b.parent[p]
             f == broker[<<p, r.att>>].filled
             c == IF f > r.filled THEN r.cum + (f - r.filled) ELSE r.cum
  <2>1. r \in ParentRec
    BY DEF Book
  <2>2. CASE r.open /\ <<p, r.att>> \in S
    <3>1. c \in Nat
      BY <2>1, <2>2 DEF ParentRec, Order
    <3>2. [r EXCEPT !.cum = c, !.open = FALSE, !.qty = 0, !.filled = 0]
            \in ParentRec
      BY <2>1, <3>1 DEF ParentRec
    <3>. QED
      BY <2>2, <3>2
  <2>3. CASE ~(r.open /\ <<p, r.att>> \in S)
    BY <2>1, <2>3
  <2>. QED
    BY <2>2, <2>3
<1>2. [p \in Parents |-> F(p)] \in [Parents -> ParentRec]
  BY <1>1
<1>. QED
  BY <1>2 DEF Settle, Book

\* DeadManSwitch: a failure or a success leaves a switch, and the trip is
\* sticky.
LEMMA DeadManType ==
    ASSUME NEW d \in DeadMan
    PROVE  /\ Failed(d) \in DeadMan
           /\ Succeeded(d) \in DeadMan
           /\ d.tripped => Failed(d).tripped
           /\ Succeeded(d).tripped = d.tripped
<1>1. /\ d.n \in 0 .. Threshold /\ d.tripped \in BOOLEAN
      /\ Threshold \in Nat \ {0}
  BY BoundsAssumption DEF DeadMan
<1>2. Succeeded(d) \in DeadMan /\ Succeeded(d).tripped = d.tripped
  BY <1>1 DEF DeadMan, Succeeded
<1> DEFINE n == IF d.n < Threshold THEN d.n + 1 ELSE d.n
<1>3. n \in 0 .. Threshold
  BY <1>1
<1>4. Failed(d) = [n |-> n, tripped |-> d.tripped \/ n >= Threshold]
  BY DEF Failed
<1>. HIDE DEF n
<1>5. (d.tripped \/ n >= Threshold) \in BOOLEAN
  BY <1>1
<1>. QED
  BY <1>1, <1>2, <1>3, <1>4, <1>5 DEF DeadMan

\* A broker failure halts the book when it trips the switch; it never spends
\* and never lifts a halt.
LEMMA HaltOnFailureType ==
    ASSUME NEW b \in Book
    PROVE  /\ HaltOnFailure(b) \in Book
           /\ HaltOnFailure(b).gross = b.gross
           /\ b.halted => HaltOnFailure(b).halted
           /\ Failed(dm).tripped => HaltOnFailure(b).halted
BY HaltType DEF HaltOnFailure

\* Counting a fill touches neither the sessions nor the trip.
LEMMA CountedType ==
    ASSUME NEW k \in Kids, NEW d \in Nat, canary \in Canary
    PROVE  /\ Counted(k, d) \in Canary
           /\ Counted(k, d).sessions = canary.sessions
           /\ Counted(k, d).tripped = canary.tripped
BY DEF Counted, Canary

\* Nor does counting what a broker row adds to it.
LEMMA CountRowType ==
    ASSUME NEW k \in Kids, NEW f \in Nat, canary \in Canary, book \in Book
    PROVE  /\ CountRow(k, f) \in Canary
           /\ CountRow(k, f).sessions = canary.sessions
           /\ CountRow(k, f).tripped = canary.tripped
<1>1. k[1] \in Parents
  BY DEF Kids
<1>2. book.parent[k[1]].filled \in Nat
  BY <1>1 DEF Book, ParentRec
<1>3. f > book.parent[k[1]].filled => f - book.parent[k[1]].filled \in Nat
  BY <1>2
<1>. QED
  BY <1>3, CountedType DEF CountRow

\* _submit_parent_remainder up to the broker call: the child is in the book
\* and in the journal, and what it will cost has been added to the total.
LEMMA SubmitPrepareType ==
    ASSUME NEW b \in Book, NEW p \in Parents, NEW price \in Nat, CanEmit(b, p),
           journal \in SUBSET Journal, SubmitPrepare(b, p, price)
    PROVE  /\ book' \in Book /\ call' \in Calls /\ journal' \in SUBSET Journal
           /\ book'.halted = b.halted
           /\ Sending' /\ call'.kid[1] = p /\ call'.price = price
           /\ journal \subseteq journal'
           /\ <<"submit", call'.kid>> \in journal'
           /\ Remaining(b.parent[p]) \in Nat
           /\ book'.parent[p].qty = Remaining(b.parent[p])
           /\ p \in Buys => book'.gross = b.gross + Remaining(b.parent[p]) * price
           /\ p \notin Buys => book'.gross = b.gross
<1>1. /\ Remaining(b.parent[p]) \in Nat
      /\ book' \in Book
      /\ book'.halted = b.halted
      /\ book'.parent[p].qty = Remaining(b.parent[p])
      /\ p \in Buys => book'.gross = b.gross + Remaining(b.parent[p]) * price
      /\ p \notin Buys => book'.gross = b.gross
      /\ b.parent[p].att + 1 \in Attempts
  BY SubmitChildType DEF SubmitPrepare
<1> DEFINE k == <<p, b.parent[p].att + 1>>
<1>2. k \in Kids /\ k[1] = p
  BY <1>1 DEF Kids
<1>. HIDE DEF k
<1>3. /\ call' = [op |-> "submit", kid |-> k, stage |-> "journaled",
                  price |-> price]
      /\ journal' = journal \cup {<<"submit", k>>}
  BY DEF SubmitPrepare, k
<1>4. call' \in Calls /\ Sending' /\ call'.kid = k /\ call'.price = price
  BY <1>2, <1>3 DEF Calls, Sending
<1>5. journal' \in SUBSET Journal /\ <<"submit", k>> \in journal'
  BY <1>2, <1>3 DEF Journal
<1>. QED
  BY <1>1, <1>2, <1>3, <1>4, <1>5

\* The records a broker call goes through.
LEMMA CallTypes ==
    ASSUME call \in Calls
    PROVE  /\ call.op # "none" => call.kid \in Kids /\ call.kid[1] \in Parents
           /\ call.op # "none" => call.op \in {"submit", "cancel"}
           /\ call.op # "none" /\ call.stage = "journaled" => call.price \in Nat
           /\ call.op # "none" /\ call.stage = "answered" => call.filled \in Nat
           /\ NoCall \in Calls /\ NoCall.op = "none"
BY DEF Calls, NoCall, Kids

\* An answer of the broker is a call record again.
LEMMA AnswerType ==
    ASSUME call \in Calls, call.op # "none",
           NEW r \in {"ok", "rejected", "error"}, NEW f \in Nat, Answer(r, f)
    PROVE  call' \in Calls /\ ~Sending' /\ call'.op # "none"
BY CallTypes DEF Answer, Calls, Sending

\* The broker takes an order: a record of the right shape, and the notional
\* added is the child's.
LEMMA AcceptType ==
    ASSUME book \in Book, broker \in [Kids -> Order], pushed \in Nat,
           NEW k \in Kids, NEW f \in Nat, call.price \in Nat, Accept(k, f)
    PROVE  /\ broker' \in [Kids -> Order] /\ pushed' \in Nat
           /\ \A j \in Kids : j # k => broker'[j] = broker[j]
           /\ broker'[k].st # "none"
<1>1. k[1] \in Parents
  BY DEF Kids
<1>2. book.parent[k[1]].qty \in Nat
  BY <1>1 DEF Book, ParentRec
<1>3. book.parent[k[1]].qty * call.price \in Nat
  BY <1>2
<1>. QED
  BY <1>2, <1>3 DEF Accept, Order, OrderStates

\* A cancel at the broker changes no quantity and creates no order.
LEMMA CancelAtType ==
    ASSUME broker \in [Kids -> Order], NEW k \in Kids, CancelAt(k)
    PROVE  /\ broker' \in [Kids -> Order]
           /\ \A j \in Kids : broker'[j].st = "none" <=> broker[j].st = "none"
BY DEF CancelAt, Order, OrderStates

\* The restored book is a book.
LEMMA RestoredType ==
    ASSUME disk \in [day : {0} \cup Days, book : Book]
    PROVE  /\ RestoredBook \in Book
           /\ RestoredBook.gross = IF disk.day = day THEN disk.book.gross ELSE 0
BY FreshBookType DEF RestoredBook

-----------------------------------------------------------------------------
(* Type correctness.                                                       *)

\* The initial state is well typed.
LEMMA TypeInit == Init => TypeOK
BY FreshBookType, BoundsAssumption
   DEF Init, TypeOK, Days, Phases, Calls, NoCall, DeadMan, FreshDeadMan, Canary,
       NothingCounted, Journal, Order, NoOrder, OrderStates

\* Every step keeps the state well typed.
LEMMA TypeStep == TypeOK /\ [Next]_vars => TypeOK'
<1> SUFFICES ASSUME TypeOK, [Next]_vars
             PROVE  TypeOK'
  OBVIOUS
<1> USE DEF TypeOK
<1>1. CASE BeginReconcile
  <2>1. RestoredBook \in Book
    BY RestoredType
  <2>2. PICK S \in SUBSET {k \in OpenKids(RestoredBook) : Terminal(k)},
             halt \in BOOLEAN :
               book' = IF halt THEN HaltEntries(Settle(RestoredBook, S))
                               ELSE Settle(RestoredBook, S)
    BY <1>1 DEF BeginReconcile
  <2>3. S \in SUBSET Kids
    BY DEF OpenKids
  <2>4. Settle(RestoredBook, S) \in Book
    BY <2>1, <2>3, SettleType
  <2>5. book' \in Book
    BY <2>2, <2>4, HaltType
  <2>6. canary' \in Canary
    BY <1>1 DEF BeginReconcile, Canary
  <2>. QED
    BY <1>1, <2>5, <2>6 DEF BeginReconcile, Phases
<1>2. CASE BeginOpen
  <2>1. book' \in Book
    BY <1>2, HaltType DEF BeginOpen, HaltIfTripped
  <2>. QED
    BY <1>2, <2>1 DEF BeginOpen, Phases
<1>3. CASE SubmitCall
  <2>1. call.op # "none" /\ call.kid \in Kids /\ call.price \in Nat
    BY <1>3, CallTypes DEF SubmitCall
  <2>2. ASSUME NEW f \in 0 .. book.parent[call.kid[1]].qty
        PROVE  f \in Nat
    BY <2>1, CallTypes DEF Book, ParentRec
  <2>3. call' \in Calls
    BY <1>3, <2>1, <2>2, AnswerType DEF SubmitCall
  <2>4. broker' \in [Kids -> Order] /\ pushed' \in Nat
    BY <1>3, <2>1, <2>2, AcceptType DEF SubmitCall
  <2>5. faults' \in [crashes : 0 .. MaxCrashes, lost : 0 .. MaxLost]
    BY <1>3, BoundsAssumption DEF SubmitCall
  <2>. QED
    BY <1>3, <2>3, <2>4, <2>5 DEF SubmitCall
<1>4. CASE SubmitApply
  <2>1. call.kid \in Kids /\ call.kid[1] \in Parents /\ call.filled \in Nat
    BY <1>4, CallTypes DEF SubmitApply
  <2>2. book' \in Book
    <3>1. OnFill(book, call.kid[1], call.filled) \in Book
      BY <2>1, OnFillType
    <3>2. HaltOnFailure(CloseChild(book, call.kid[1])) \in Book
      BY <2>1, CloseChildType, HaltOnFailureType
    <3>. QED
      BY <1>4, <3>1, <3>2 DEF SubmitApply
  <2>3. canary' \in Canary
    BY <1>4, <2>1, CountedType DEF SubmitApply
  <2>4. dm' \in DeadMan
    BY <1>4, DeadManType DEF SubmitApply
  <2>. QED
    BY <1>4, <2>2, <2>3, <2>4, CallTypes DEF SubmitApply
<1>5. CASE CancelPrepare
  <2>1. PICK k \in work : call' = [op |-> "cancel", kid |-> k,
                                   stage |-> "journaled", price |-> 0]
                          /\ journal' = journal \cup {<<"cancel", k>>}
                          /\ work' = work \ {k}
    BY <1>5 DEF CancelPrepare
  <2>2. call' \in Calls /\ journal' \in SUBSET Journal
    BY <2>1 DEF Calls, Journal
  <2>. QED
    BY <1>5, <2>1, <2>2 DEF CancelPrepare
<1>6. CASE CancelCall
  <2>1. call.op # "none" /\ call.kid \in Kids
    BY <1>6, CallTypes DEF CancelCall
  <2>2. broker[call.kid].filled \in Nat
    BY <2>1 DEF Order
  <2>3. call' \in Calls
    BY <1>6, <2>1, <2>2, AnswerType DEF CancelCall
  <2>4. broker' \in [Kids -> Order]
    BY <1>6, <2>1, CancelAtType DEF CancelCall
  <2>5. faults' \in [crashes : 0 .. MaxCrashes, lost : 0 .. MaxLost]
    BY <1>6, BoundsAssumption DEF CancelCall
  <2>. QED
    BY <1>6, <2>3, <2>4, <2>5 DEF CancelCall
<1>7. CASE CancelApply
  <2>1. call.kid \in Kids /\ call.kid[1] \in Parents /\ call.filled \in Nat
    BY <1>7, CallTypes DEF CancelApply
  <2>2. book' \in Book
    <3>1. BookRow(book, call.kid[1], call.filled, TRUE) \in Book
      BY <2>1, BookRowType
    <3>2. HaltOnFailure(CancelErrorBook(book, call.kid[1])) \in Book
      BY HaltOnFailureType DEF CancelErrorBook
    <3>. QED
      BY <1>7, <3>1, <3>2 DEF CancelApply
  <2>3. canary' \in Canary
    <3>1. canary' \in {canary, CountRow(call.kid, call.filled)}
      BY <1>7 DEF CancelApply
    <3>2. CountRow(call.kid, call.filled) \in Canary
      BY <2>1, CountRowType
    <3>. QED
      BY <3>1, <3>2
  <2>4. dm' \in DeadMan
    BY <1>7, DeadManType DEF CancelApply
  <2>. QED
    BY <1>7, <2>2, <2>3, <2>4, CallTypes DEF CancelApply
<1>8. CASE TickStart
  BY <1>8, BatchesAssumption DEF TickStart, OpenKids, Phases, storage
<1>9. CASE StaleDone
  BY <1>9 DEF StaleDone, OpenKids, Phases, storage
<1>10. CASE Poll
  <2>1. PICK k \in work :
          /\ work' = work \ {k}
          /\ \/ /\ broker[k].st # "none"
                /\ canary' = CountRow(k, broker[k].filled)
                /\ LET b == BookRow(book, k[1], broker[k].filled, Terminal(k))
                   IN  IF broker[k].st = "rejected"
                         THEN dm' = Failed(dm) /\ book' = HaltOnFailure(b)
                         ELSE dm' = dm /\ book' = b
             \/ UNCHANGED <<book, canary, dm>>
    BY <1>10 DEF Poll
  <2>2. k \in Kids /\ k[1] \in Parents /\ broker[k].filled \in Nat
    BY DEF Kids, Order
  <2>3. Terminal(k) \in BOOLEAN
    BY DEF Terminal
  <2>4. BookRow(book, k[1], broker[k].filled, Terminal(k)) \in Book
    BY <2>2, <2>3, BookRowType
  <2>5. book' \in Book
    BY <2>1, <2>4, HaltOnFailureType
  <2>6. dm' \in DeadMan
    BY <2>1, DeadManType
  <2>7. canary' \in Canary
    BY <2>1, <2>2, CountRowType
  <2>. QED
    BY <1>10, <2>1, <2>5, <2>6, <2>7 DEF Poll
<1>11. CASE SyncDone
  BY <1>11 DEF SyncDone, Phases, storage
<1>12. CASE ExitIntent
  <2>1. PICK i \in todo :
          LET p == i.parent
              b == RegisterIntent(book, p, i.qty)
          IN  /\ p \in Sells
              /\ todo' = todo \ {i}
              /\ IF CanEmit(b, p)
                   THEN SubmitPrepare(b, p, i.price) /\ seen' = seen \cup {p}
                   ELSE book' = b /\ UNCHANGED <<call, journal, seen>>
    BY <1>12 DEF ExitIntent
  <2>2. i.parent \in Parents /\ i.qty \in Nat /\ i.price \in Nat
    BY DEF Intent
  <2>3. RegisterIntent(book, i.parent, i.qty) \in Book
    BY <2>2, RegisterType
  <2>4. /\ book' \in Book /\ call' \in Calls /\ journal' \in SUBSET Journal
        /\ seen' \in SUBSET Parents
    BY <2>1, <2>2, <2>3, SubmitPrepareType
  <2>. QED
    BY <1>12, <2>1, <2>4 DEF ExitIntent
<1>13. CASE ExitsDone
  BY <1>13 DEF ExitsDone, Phases, storage
<1>14. CASE Chase
  <2>1. PICK p \in Chaseable : SubmitPrepare(book, p, 1) /\ seen' = seen \cup {p}
    BY <1>14 DEF Chase
  <2>2. p \in Parents /\ CanEmit(book, p)
    BY DEF Chaseable, Sells
  <2>3. book' \in Book /\ call' \in Calls /\ journal' \in SUBSET Journal
    BY <2>1, <2>2, SubmitPrepareType
  <2>. QED
    BY <1>14, <2>1, <2>2, <2>3 DEF Chase
<1>15. CASE ChaseDone
  BY <1>15 DEF ChaseDone, Phases, storage
<1>16. CASE EvaluateLossBudget
  <2>1. canary' \in Canary
    <3>1. canary' \in {canary, [canary EXCEPT !.tripped = TRUE]}
      BY <1>16 DEF EvaluateLossBudget
    <3>. QED
      BY <3>1 DEF Canary
  <2>2. book' \in Book
    <3>1. book' \in {book, HaltEntries(book)}
      BY <1>16 DEF EvaluateLossBudget, TripHalt
    <3>. QED
      BY <3>1, HaltType
  <2>. QED
    BY <1>16, <2>1, <2>2 DEF EvaluateLossBudget, Phases
<1>17. CASE SkipEntry
  <2>1. \A i \in todo : RegisterIntent(book, i.parent, i.qty) \in Book
    BY RegisterType DEF Intent
  <2>. QED
    BY <1>17, <2>1 DEF SkipEntry, storage
<1>18. CASE EntryIntent
  <2>1. PICK i \in todo :
          /\ CanEmit(RegisterIntent(book, i.parent, i.qty), i.parent)
          /\ todo' = todo \ {i}
          /\ SubmitPrepare(RegisterIntent(book, i.parent, i.qty), i.parent, i.price)
    BY <1>18 DEF EntryIntent
  <2>2. i.parent \in Parents /\ i.qty \in Nat /\ i.price \in Nat
    BY DEF Intent
  <2>3. RegisterIntent(book, i.parent, i.qty) \in Book
    BY <2>2, RegisterType
  <2>4. book' \in Book /\ call' \in Calls /\ journal' \in SUBSET Journal
    BY <2>1, <2>2, <2>3, SubmitPrepareType
  <2>. QED
    BY <1>18, <2>1, <2>4 DEF EntryIntent
<1>19. CASE EntryCapRaises
  <2>1. \A i \in todo : RegisterIntent(book, i.parent, i.qty) \in Book
    BY RegisterType DEF Intent
  <2>2. disk' \in [day : {0} \cup Days, book : Book]
    BY <1>19, <2>1 DEF EntryCapRaises
  <2>. QED
    BY <1>19, <2>2, FreshBookType, CallTypes, BoundsAssumption
       DEF EntryCapRaises, ProcessEnds, Phases, FreshDeadMan, DeadMan
<1>20. CASE TickEnd
  BY <1>20 DEF TickEnd, Phases
<1>21. CASE CloseSession
  BY <1>21 DEF CloseSession, OpenKids, Phases, storage
<1>22. CASE CloseCancelsDone
  BY <1>22 DEF CloseCancelsDone, OpenKids, Phases, storage
<1>23. CASE CloseEnd
  BY <1>23, FreshBookType, CallTypes, BoundsAssumption
     DEF CloseEnd, ProcessEnds, Phases, FreshDeadMan, DeadMan
<1>24. CASE Crash
  BY <1>24, FreshBookType, CallTypes, BoundsAssumption
     DEF Crash, ProcessEnds, Phases, FreshDeadMan, DeadMan, storage
<1>25. CASE BrokerFill
  <2>1. PICK k \in BrokerOpen :
          broker' = [broker EXCEPT ![k] =
                       [broker[k] EXCEPT
                          !.filled = @ + 1,
                          !.st = IF broker[k].filled + 1 = broker[k].qty
                                   THEN "filled" ELSE "live"]]
    BY <1>25 DEF BrokerFill
  <2>2. k \in Kids /\ broker[k] \in Order
    BY DEF BrokerOpen
  <2>3. broker[k].filled + 1 \in Nat
    BY <2>2 DEF Order
  <2>4. [broker[k] EXCEPT !.filled = @ + 1,
                          !.st = IF broker[k].filled + 1 = broker[k].qty
                                   THEN "filled" ELSE "live"] \in Order
    BY <2>2, <2>3 DEF Order, OrderStates
  <2>5. broker' \in [Kids -> Order]
    BY <2>1, <2>2, <2>4
  <2>. QED
    BY <1>25, <2>5 DEF BrokerFill, process, storage
<1>26. CASE BrokerEnds
  <2>1. broker' \in [Kids -> Order]
    <3>1. PICK k \in BrokerOpen, t \in {"canceled", "rejected"} :
            broker' = [broker EXCEPT ![k].st = t]
      BY <1>26 DEF BrokerEnds
    <3>2. k \in Kids /\ t \in OrderStates
      BY DEF BrokerOpen, OrderStates
    <3>. QED
      BY <3>1, <3>2 DEF Order
  <2>. QED
    BY <1>26, <2>1 DEF BrokerEnds, process, storage
<1>27. CASE NextDay
  <2>1. day' \in Days
    BY <1>27, BoundsAssumption DEF NextDay, Days
  <2>2. canary' \in Canary
    BY <1>27 DEF NextDay, Canary, NothingCounted
  <2>3. broker' \in [Kids -> Order]
    BY <1>27 DEF NextDay, Order, NoOrder, OrderStates
  <2>. QED
    BY <1>27, <2>1, <2>2, <2>3, BoundsAssumption DEF NextDay, process
<1>28. CASE UNCHANGED vars
  BY <1>28 DEF vars
<1>. QED
  BY <1>1, <1>2, <1>3, <1>4, <1>5, <1>6, <1>7, <1>8, <1>9, <1>10, <1>11, <1>12,
     <1>13, <1>14, <1>15, <1>16, <1>17, <1>18, <1>19, <1>20, <1>21, <1>22,
     <1>23, <1>24, <1>25, <1>26, <1>27, <1>28 DEF Next, ProcessStep

\* TypeCorrect: in every reachable state of the executor, its files, the
\* broker and the counters have the shape TypeOK gives them.
THEOREM TypeCorrect == Spec => []TypeOK
<1>1. Init => TypeOK
  BY TypeInit
<1>2. TypeOK /\ [Next]_vars => TypeOK'
  BY TypeStep
<1>. QED
  BY <1>1, <1>2, PTL DEF Spec
-----------------------------------------------------------------------------
(* The safety argument.                                                    *)

\* The control part of the inductive invariant: who may be sending what, with
\* which halts in force, and which orders the journal and the session counter
\* cover.
Control ==
    /\ ProcessInv /\ SendingInv /\ JournaledFirst /\ HaltsHold
    /\ (\E k \in Kids : broker[k].st # "none") => day \in canary.sessions

\* The initial state satisfies the control part.
LEMMA ControlInit == Init => Control
BY DEF Init, Control, ProcessInv, SendingInv, JournaledFirst, HaltsHold,
       InSession, Sending, NoCall, NoOrder, FreshDeadMan

\* Every step keeps the control part.
LEMMA ControlStep == TypeOK /\ Control /\ [Next]_vars => Control'
<1> SUFFICES ASSUME TypeOK, Control, [Next]_vars
             PROVE  Control'
  OBVIOUS
<1> USE DEF Control, ProcessInv, SendingInv, JournaledFirst, HaltsHold,
            InSession, Sending
<1>0. /\ book \in Book /\ canary \in Canary /\ call \in Calls /\ dm \in DeadMan
      /\ broker \in [Kids -> Order] /\ todo \in SUBSET Intent
      /\ journal \in SUBSET Journal /\ work \in SUBSET Kids /\ pushed \in Nat
      /\ NoCall.op = "none"
  BY DEF TypeOK, NoCall
<1>1. CASE BeginReconcile
  <2>1. canary'.sessions = canary.sessions \cup {day}
    BY <1>0, <1>1 DEF BeginReconcile, Canary
  <2>2. UNCHANGED <<day, call, dm, journal, broker>> /\ pc = "down" /\ pc' = "begun"
    BY <1>1 DEF BeginReconcile
  <2>. QED
    BY <1>0, <2>1, <2>2
<1>2. CASE BeginOpen
  <2>1. canary.tripped => book'.halted
    BY <1>0, <1>2, HaltType DEF BeginOpen, HaltIfTripped
  <2>2. ~dm.tripped /\ call = NoCall
    BY <1>2 DEF BeginOpen, FreshDeadMan
  <2>3. UNCHANGED <<day, call, dm, canary, journal, broker>> /\ pc' = "open"
        /\ pc # "down"
    BY <1>2 DEF BeginOpen
  <2>. QED
    BY <1>0, <2>1, <2>2, <2>3
<1>3. CASE SubmitCall
  <2>1. call.op # "none" /\ call.kid \in Kids /\ call.price \in Nat /\ Sending
    BY <1>0, <1>3, CallTypes DEF SubmitCall
  <2>2. ASSUME NEW f \in 0 .. book.parent[call.kid[1]].qty
        PROVE  f \in Nat
    BY <1>0, <2>1, CallTypes DEF Book, ParentRec
  <2>3. ~Sending' /\ call'.op # "none"
    BY <1>0, <1>3, <2>1, <2>2, AnswerType DEF SubmitCall
  <2>4. \A j \in Kids : j # call.kid => broker'[j] = broker[j]
    BY <1>0, <1>3, <2>1, <2>2, AcceptType DEF SubmitCall
  <2>5. UNCHANGED <<day, pc, book, dm, canary, journal>>
    BY <1>3 DEF SubmitCall
  <2>6. pc # "down" /\ InSession
    BY <1>0, <2>1
  <2>. QED
    BY <2>1, <2>3, <2>4, <2>5, <2>6
<1>4. CASE SubmitApply
  <2>1. call.kid \in Kids /\ call.kid[1] \in Parents /\ call.filled \in Nat
    BY <1>0, <1>4, CallTypes DEF SubmitApply
  <2>2. canary'.sessions = canary.sessions /\ canary'.tripped = canary.tripped
    BY <1>0, <1>4, <2>1, CountedType DEF SubmitApply
  <2>3. (book.halted => book'.halted) /\ (dm'.tripped => dm.tripped \/ book'.halted)
    <3>1. OnFill(book, call.kid[1], call.filled).halted = book.halted
      BY <1>0, <2>1, OnFillType
    <3>2. LET b == HaltOnFailure(CloseChild(book, call.kid[1]))
          IN  (book.halted => b.halted) /\ (Failed(dm).tripped => b.halted)
      BY <1>0, <2>1, CloseChildType, HaltOnFailureType
    <3>3. Succeeded(dm).tripped = dm.tripped
      BY <1>0, DeadManType
    <3>. QED
      BY <1>4, <3>1, <3>2, <3>3 DEF SubmitApply
  <2>4. UNCHANGED <<day, pc, journal, broker>> /\ call' = NoCall /\ InSession
    BY <1>0, <1>4 DEF SubmitApply
  <2>. QED
    BY <1>0, <2>2, <2>3, <2>4
<1>5. CASE CancelPrepare
  <2>1. call'.op = "cancel" /\ journal \subseteq journal'
    BY <1>5 DEF CancelPrepare
  <2>2. UNCHANGED <<day, pc, book, dm, canary, broker>> /\ InSession
    BY <1>5 DEF CancelPrepare
  <2>. QED
    BY <2>1, <2>2
<1>6. CASE CancelCall
  <2>1. call.op = "cancel" /\ call'.op = "cancel"
    BY <1>6 DEF CancelCall, Answer
  <2>2. \A j \in Kids : broker'[j].st = "none" <=> broker[j].st = "none"
    BY <1>0, <1>6, CallTypes, CancelAtType DEF CancelCall
  <2>3. UNCHANGED <<day, pc, book, dm, canary, journal>> /\ InSession
    BY <1>0, <1>6, <2>1 DEF CancelCall
  <2>. QED
    BY <2>1, <2>2, <2>3
<1>7. CASE CancelApply
  <2>1. call.kid \in Kids /\ call.kid[1] \in Parents /\ call.filled \in Nat
    BY <1>0, <1>7, CallTypes DEF CancelApply
  <2>2. canary'.sessions = canary.sessions /\ canary'.tripped = canary.tripped
    <3>1. LET c == CountRow(call.kid, call.filled)
          IN  c.sessions = canary.sessions /\ c.tripped = canary.tripped
      BY <1>0, <2>1, CountRowType
    <3>. QED
      BY <1>7, <3>1 DEF CancelApply
  <2>3. (book.halted => book'.halted) /\ (dm'.tripped => dm.tripped \/ book'.halted)
    <3>1. BookRow(book, call.kid[1], call.filled, TRUE).halted = book.halted
      BY <1>0, <2>1, BookRowType
    <3>2. LET b == HaltOnFailure(CancelErrorBook(book, call.kid[1]))
          IN  (book.halted => b.halted) /\ (Failed(dm).tripped => b.halted)
      BY <1>0, HaltOnFailureType DEF CancelErrorBook
    <3>3. Succeeded(dm).tripped = dm.tripped
      BY <1>0, DeadManType
    <3>. QED
      BY <1>7, <3>1, <3>2, <3>3 DEF CancelApply
  <2>4. UNCHANGED <<day, pc, journal, broker>> /\ call' = NoCall /\ InSession
    BY <1>0, <1>7 DEF CancelApply
  <2>. QED
    BY <1>0, <2>2, <2>3, <2>4
<1>8. CASE TickStart
  BY <1>8 DEF TickStart, Idle, storage
<1>9. CASE StaleDone
  BY <1>9 DEF StaleDone, Idle, storage
<1>10. CASE Poll
  <2>1. PICK k \in work :
          \/ /\ canary' = CountRow(k, broker[k].filled)
             /\ LET b == BookRow(book, k[1], broker[k].filled, Terminal(k))
                IN  IF broker[k].st = "rejected"
                      THEN dm' = Failed(dm) /\ book' = HaltOnFailure(b)
                      ELSE dm' = dm /\ book' = b
          \/ UNCHANGED <<book, canary, dm>>
    BY <1>10 DEF Poll
  <2>2. k \in Kids /\ k[1] \in Parents /\ broker[k].filled \in Nat
        /\ Terminal(k) \in BOOLEAN
    BY <1>0 DEF Kids, Order, Terminal
  <2>3. canary'.sessions = canary.sessions /\ canary'.tripped = canary.tripped
    BY <1>0, <2>1, <2>2, CountRowType
  <2>4. (book.halted => book'.halted) /\ (dm'.tripped => dm.tripped \/ book'.halted)
    <3> DEFINE b == BookRow(book, k[1], broker[k].filled, Terminal(k))
    <3>1. b \in Book /\ b.halted = book.halted
      BY <1>0, <2>2, BookRowType
    <3>. HIDE DEF b
    <3>2. (b.halted => HaltOnFailure(b).halted)
          /\ (Failed(dm).tripped => HaltOnFailure(b).halted)
      BY <3>1, HaltOnFailureType
    <3>. QED
      BY <2>1, <3>1, <3>2 DEF b
  <2>5. UNCHANGED <<day, pc, call, journal, broker>> /\ InSession /\ call = NoCall
    BY <1>10 DEF Poll, Idle
  <2>. QED
    BY <1>0, <2>3, <2>4, <2>5
<1>11. CASE SyncDone
  BY <1>11 DEF SyncDone, Idle, storage
<1>12. CASE ExitIntent
  <2>1. PICK i \in todo :
          LET p == i.parent
              b == RegisterIntent(book, p, i.qty)
          IN  /\ p \in Sells
              /\ IF CanEmit(b, p)
                   THEN SubmitPrepare(b, p, i.price)
                   ELSE book' = b /\ UNCHANGED <<call, journal>>
    BY <1>12 DEF ExitIntent
  <2>2. i.parent \in Parents /\ i.qty \in Nat /\ i.price \in Nat
    BY <1>0 DEF Intent
  <2>3. /\ RegisterIntent(book, i.parent, i.qty) \in Book
        /\ RegisterIntent(book, i.parent, i.qty).halted = book.halted
    BY <1>0, <2>2, RegisterType
  <2>4. UNCHANGED <<day, pc, dm, canary, broker>> /\ InSession /\ call = NoCall
    BY <1>12 DEF ExitIntent, Idle
  <2>5. book'.halted = book.halted /\ journal \subseteq journal'
    BY <1>0, <2>1, <2>2, <2>3, SubmitPrepareType
  <2>6. Sending' => <<"submit", call'.kid>> \in journal' /\ call'.kid[1] \in Sells
    BY <1>0, <2>1, <2>2, <2>3, <2>4, SubmitPrepareType
  <2>. QED
    BY <2>4, <2>5, <2>6 DEF Sells
<1>13. CASE ExitsDone
  BY <1>13 DEF ExitsDone, Idle, storage
<1>14. CASE Chase
  <2>1. PICK p \in Chaseable : SubmitPrepare(book, p, 1)
    BY <1>14 DEF Chase
  <2>2. p \in Sells /\ p \in Parents /\ CanEmit(book, p)
    BY DEF Chaseable, Sells
  <2>3. UNCHANGED <<day, pc, dm, canary, broker>> /\ InSession
    BY <1>14 DEF Chase
  <2>4. /\ book'.halted = book.halted /\ journal \subseteq journal'
        /\ <<"submit", call'.kid>> \in journal' /\ call'.kid[1] \in Sells
    BY <1>0, <2>1, <2>2, SubmitPrepareType
  <2>. QED
    BY <2>3, <2>4 DEF Sells
<1>15. CASE ChaseDone
  BY <1>15 DEF ChaseDone, Idle, storage
<1>16. CASE EvaluateLossBudget
  BY <1>0, <1>16, HaltType DEF EvaluateLossBudget, Idle, TripHalt, Canary
<1>17. CASE SkipEntry
  <2>1. \A i \in todo : RegisterIntent(book, i.parent, i.qty).halted = book.halted
    BY <1>0, RegisterType DEF Intent
  <2>2. book'.halted = book.halted
    BY <1>17, <2>1 DEF SkipEntry
  <2>3. UNCHANGED <<day, pc, call, dm, canary, journal, broker>> /\ call = NoCall
    BY <1>17 DEF SkipEntry, Idle, storage
  <2>. QED
    BY <1>0, <2>2, <2>3
<1>18. CASE EntryIntent
  <2>1. PICK i \in todo :
          LET b == RegisterIntent(book, i.parent, i.qty)
          IN  /\ Admissible(i)
              /\ CanEmit(b, i.parent)
              /\ SubmitPrepare(b, i.parent, i.price)
    BY <1>18 DEF EntryIntent
  <2>2. /\ i.parent \in Parents /\ i.qty \in Nat /\ i.price \in Nat
        /\ ~book.halted /\ i.parent \in Allowed
    BY <1>0, <2>1 DEF Intent, Admissible
  <2>3. /\ RegisterIntent(book, i.parent, i.qty) \in Book
        /\ RegisterIntent(book, i.parent, i.qty).halted = book.halted
    BY <1>0, <2>2, RegisterType
  <2>4. /\ book'.halted = book.halted /\ journal \subseteq journal'
        /\ <<"submit", call'.kid>> \in journal' /\ call'.kid[1] \in Allowed
    BY <1>0, <2>1, <2>2, <2>3, SubmitPrepareType
  <2>5. UNCHANGED <<day, pc, dm, canary, broker>> /\ InSession
    BY <1>18 DEF EntryIntent
  <2>. QED
    BY <2>2, <2>4, <2>5
<1>19. CASE EntryCapRaises
  BY <1>0, <1>19 DEF EntryCapRaises, ProcessEnds
<1>20. CASE TickEnd
  BY <1>20 DEF TickEnd, Idle
<1>21. CASE CloseSession
  BY <1>21 DEF CloseSession, Idle, storage
<1>22. CASE CloseCancelsDone
  BY <1>22 DEF CloseCancelsDone, Idle, storage
<1>23. CASE CloseEnd
  BY <1>0, <1>23 DEF CloseEnd, ProcessEnds
<1>24. CASE Crash
  BY <1>0, <1>24 DEF Crash, ProcessEnds, storage
<1>25. CASE BrokerFill
  <2>1. \A j \in Kids : broker[j].st = "none" => broker'[j].st = "none"
    BY <1>0, <1>25 DEF BrokerFill, BrokerOpen
  <2>2. \A j \in Kids : broker'[j].st # "none" => broker[j].st # "none"
    BY <2>1
  <2>. QED
    BY <1>25, <2>2 DEF BrokerFill, process, storage
<1>26. CASE BrokerEnds
  <2>1. \A j \in Kids : broker[j].st = "none" => broker'[j].st = "none"
    BY <1>0, <1>26 DEF BrokerEnds, BrokerOpen
  <2>2. \A j \in Kids : broker'[j].st # "none" => broker[j].st # "none"
    BY <2>1
  <2>. QED
    BY <1>26, <2>2 DEF BrokerEnds, process, storage
<1>27. CASE NextDay
  BY <1>0, <1>27 DEF NextDay, process, NoOrder
<1>28. CASE UNCHANGED vars
  BY <1>28 DEF vars
<1>. QED
  BY <1>1, <1>2, <1>3, <1>4, <1>5, <1>6, <1>7, <1>8, <1>9, <1>10, <1>11, <1>12,
     <1>13, <1>14, <1>15, <1>16, <1>17, <1>18, <1>19, <1>20, <1>21, <1>22,
     <1>23, <1>24, <1>25, <1>26, <1>27, <1>28 DEF Next, ProcessStep

\* The ceiling on counted sessions holds initially.
Ceiling == Cardinality(canary.sessions) <= MaxSessions

\* No session is counted at the start.
LEMMA CeilingInit == Init => Ceiling
BY FS_EmptySet, BoundsAssumption DEF Init, Ceiling

\* Only begin_live_session adds a session, and only below the ceiling.
LEMMA CeilingStep == TypeOK /\ Ceiling /\ [Next]_vars => Ceiling'
<1> SUFFICES ASSUME TypeOK, Ceiling, [Next]_vars
             PROVE  Ceiling'
  OBVIOUS
<1>0. /\ book \in Book /\ canary \in Canary /\ call \in Calls
      /\ broker \in [Kids -> Order] /\ work \in SUBSET Kids
  BY DEF TypeOK
<1>1. CASE BeginReconcile
  <2>1. canary'.sessions = canary.sessions \cup {day}
    BY <1>0, <1>1 DEF BeginReconcile, Canary
  <2>2. IsFiniteSet(canary.sessions)
    <3>1. IsFiniteSet(Days)
      BY BoundsAssumption, FS_Interval DEF Days
    <3>2. canary.sessions \in SUBSET Days
      BY <1>0 DEF Canary
    <3>. QED
      BY <3>1, <3>2, FS_Subset
  <2>3. CASE day \in canary.sessions
    BY <2>1, <2>3, canary.sessions \cup {day} = canary.sessions DEF Ceiling
  <2>4. CASE day \notin canary.sessions
    <3>1. Cardinality(canary.sessions) < MaxSessions
      BY <1>1, <2>4 DEF BeginReconcile, SessionAvailable
    <3>2. Cardinality(canary.sessions \cup {day}) = Cardinality(canary.sessions) + 1
      BY <2>2, <2>4, FS_AddElement
    <3>3. Cardinality(canary.sessions) \in Nat
      BY <2>2, FS_CardinalityType
    <3>. QED
      BY <2>1, <3>1, <3>2, <3>3, BoundsAssumption DEF Ceiling
  <2>. QED
    BY <2>3, <2>4
<1>2. CASE \/ SubmitApply \/ CancelApply \/ Poll \/ EvaluateLossBudget
           \/ NextDay
  <2>1. call.op # "none" /\ call.stage = "answered" =>
          call.kid \in Kids /\ call.filled \in Nat
    BY <1>0, CallTypes
  <2>2. \A k \in Kids : broker[k].filled \in Nat
    BY <1>0 DEF Order
  <2>3. \A k \in Kids, d \in Nat :
          /\ Counted(k, d).sessions = canary.sessions
          /\ CountRow(k, d).sessions = canary.sessions
    BY <1>0, CountedType, CountRowType
  <2>4. CASE SubmitApply
    <3>1. /\ call.kid \in Kids /\ call.filled \in Nat
          /\ canary' \in {canary, Counted(call.kid, call.filled)}
      BY <2>1, <2>4 DEF SubmitApply
    <3>. QED
      BY <2>3, <3>1 DEF Ceiling
  <2>5. CASE CancelApply
    <3>1. /\ call.kid \in Kids /\ call.filled \in Nat
          /\ canary' \in {canary, CountRow(call.kid, call.filled)}
      BY <2>1, <2>5 DEF CancelApply
    <3>. QED
      BY <2>3, <3>1 DEF Ceiling
  <2>6. CASE Poll
    <3>1. PICK k \in work : canary' = CountRow(k, broker[k].filled)
                            \/ canary' = canary
      BY <2>6 DEF Poll
    <3>. QED
      BY <1>0, <2>2, <2>3, <3>1 DEF Ceiling
  <2>7. CASE EvaluateLossBudget
    BY <1>0, <2>7 DEF EvaluateLossBudget, Canary, Ceiling
  <2>8. CASE NextDay
    BY <1>0, <2>8 DEF NextDay, Canary, Ceiling
  <2>. QED
    BY <1>2, <2>4, <2>5, <2>6, <2>7, <2>8
<1>3. CASE ~(BeginReconcile \/ SubmitApply \/ CancelApply \/ Poll
              \/ EvaluateLossBudget \/ NextDay)
  <2>1. canary' = canary
    BY <1>3 DEF Next, ProcessStep, BeginOpen, SubmitCall, CancelPrepare,
       CancelCall, TickStart, StaleDone, SyncDone, ExitIntent, ExitsDone, Chase,
       ChaseDone, SkipEntry, EntryIntent, EntryCapRaises, TickEnd, CloseSession,
       CloseCancelsDone, CloseEnd, Crash, BrokerFill, BrokerEnds, storage, vars
  <2>. QED
    BY <2>1 DEF Ceiling
<1>. QED
  BY <1>1, <1>2, <1>3

\* The cap part holds initially.
LEMMA CapInit == Init => CapInv
BY FreshBookType, CapAssumption
   DEF Init, CapInv, Owed, Recorded, Sending, NoCall

\* Every step keeps the cap part: a BUY is in the book before the broker sees
\* it, and the book is within the cap; a crash adds at most one cap.
LEMMA CapStep == TypeOK /\ ProcessInv /\ CapInv /\ [Next]_vars => CapInv'
<1> SUFFICES ASSUME TypeOK, ProcessInv, CapInv, [Next]_vars
             PROVE  CapInv'
  OBVIOUS
<1> DEFINE C == faults.crashes * Cap
<1>0. /\ book \in Book /\ canary \in Canary /\ call \in Calls /\ dm \in DeadMan
      /\ broker \in [Kids -> Order] /\ todo \in SUBSET Intent
      /\ journal \in SUBSET Journal /\ work \in SUBSET Kids /\ pushed \in Nat
      /\ disk \in [day : {0} \cup Days, book : Book]
      /\ book.gross \in Nat /\ disk.book.gross \in Nat
      /\ NoCall.op = "none" /\ Cap \in Nat
  BY CapAssumption DEF TypeOK, NoCall, Book
<1>01. faults.crashes \in Nat /\ C \in Nat
  BY CapAssumption, BoundsAssumption DEF TypeOK
<1>. HIDE DEF C
<1>02. /\ book.gross <= Cap /\ disk.book.gross <= Cap
       /\ pc # "down" => pushed + Owed <= C + book.gross
       /\ pc = "down" => pushed <= C + Recorded
  BY DEF CapInv, C
<1>03. Owed \in Nat
  <2>1. CASE Sending /\ call.kid[1] \in Buys
    <3>1. call.kid[1] \in Parents /\ call.price \in Nat
      BY <1>0, <2>1, CallTypes DEF Sending
    <3>2. book.parent[call.kid[1]].qty \in Nat
      BY <1>0, <3>1 DEF Book, ParentRec
    <3>3. book.parent[call.kid[1]].qty * call.price \in Nat
      BY <3>1, <3>2
    <3>. QED
      BY <2>1, <3>3 DEF Owed
  <2>2. CASE ~(Sending /\ call.kid[1] \in Buys)
    BY <2>2 DEF Owed
  <2>. QED
    BY <2>1, <2>2
<1>04. call = NoCall => Owed = 0
  BY <1>0 DEF Owed, Sending
<1>05. call' = NoCall => Owed' = 0
  BY <1>0 DEF Owed, Sending
<1>06. Recorded \in Nat
  BY <1>0 DEF Recorded
<1>1. CASE BeginReconcile
  <2>1. book'.gross = Recorded /\ book' \in Book
    <3>1. RestoredBook \in Book /\ RestoredBook.gross = Recorded
      BY <1>0, RestoredType DEF Recorded
    <3>2. PICK S \in SUBSET {k \in OpenKids(RestoredBook) : Terminal(k)},
               halt \in BOOLEAN :
                 book' = IF halt THEN HaltEntries(Settle(RestoredBook, S))
                                 ELSE Settle(RestoredBook, S)
      BY <1>1 DEF BeginReconcile
    <3>3. S \in SUBSET Kids
      BY DEF OpenKids
    <3>4. /\ Settle(RestoredBook, S) \in Book
          /\ Settle(RestoredBook, S).gross = Recorded
      BY <1>0, <3>1, <3>3, SettleType
    <3>. QED
      BY <3>2, <3>4, HaltType
  <2>2. call' = NoCall
    BY <1>1 DEF BeginReconcile, ProcessInv, InSession
  <2>3. UNCHANGED <<day, disk, pushed, faults>> /\ pc = "down" /\ pc' = "begun"
    BY <1>1 DEF BeginReconcile
  <2>4. book'.gross <= Cap
    BY <1>0, <1>02, <2>1 DEF Recorded
  <2>. QED
    BY <1>0, <1>01, <1>02, <1>05, <1>06, <2>1, <2>2, <2>3, <2>4 DEF CapInv, C
<1>2. CASE BeginOpen
  <2>1. book' \in Book /\ book'.gross = book.gross
    BY <1>0, <1>2, HaltType DEF BeginOpen, HaltIfTripped
  <2>2. call' = NoCall /\ call = NoCall
    BY <1>2 DEF BeginOpen, ProcessInv, InSession
  <2>3. UNCHANGED <<day, pushed, faults>> /\ pc = "begun" /\ pc' = "open"
        /\ disk' = [day |-> day, book |-> book']
    BY <1>2 DEF BeginOpen
  <2>. QED
    BY <1>0, <1>01, <1>02, <1>04, <1>05, <2>1, <2>2, <2>3 DEF CapInv, C
<1>3. CASE SubmitCall
  <2>1. /\ call.op # "none" /\ call.kid \in Kids /\ call.kid[1] \in Parents
        /\ call.price \in Nat /\ Sending
    BY <1>0, <1>3, CallTypes DEF SubmitCall, Sending
  <2>2. book.parent[call.kid[1]].qty \in Nat
    BY <1>0, <2>1 DEF Book, ParentRec
  <2>3. ~Sending'
    BY <1>0, <1>3, <2>1, <2>2, AnswerType DEF SubmitCall
  <2>4. Owed' = 0
    BY <2>3 DEF Owed
  <2>5. pushed' \in Nat /\ pushed' <= pushed + Owed
    <3>1. ASSUME NEW f, Accept(call.kid, f)
          PROVE  pushed' = pushed + Owed
      BY <1>0, <2>1, <3>1 DEF Accept, Owed
    <3>. QED
      BY <1>0, <1>03, <1>3, <3>1 DEF SubmitCall
  <2>6. faults'.crashes = faults.crashes
    BY <1>3 DEF SubmitCall, TypeOK
  <2>7. pc # "down"
    BY <1>0, <2>1 DEF ProcessInv, InSession
  <2>8. UNCHANGED <<pc, book, disk, day>>
    BY <1>3 DEF SubmitCall
  <2>. QED
    BY <1>0, <1>01, <1>02, <1>03, <2>4, <2>5, <2>6, <2>7, <2>8 DEF CapInv, C
<1>4. CASE SubmitApply
  <2>1. call.kid \in Kids /\ call.kid[1] \in Parents /\ call.filled \in Nat
    BY <1>0, <1>4, CallTypes DEF SubmitApply
  <2>2. book'.gross = book.gross
    <3>1. OnFill(book, call.kid[1], call.filled).gross = book.gross
      BY <1>0, <2>1, OnFillType
    <3>2. HaltOnFailure(CloseChild(book, call.kid[1])).gross = book.gross
      BY <1>0, <2>1, CloseChildType, HaltOnFailureType
    <3>. QED
      BY <1>4, <3>1, <3>2 DEF SubmitApply
  <2>3. call' = NoCall /\ UNCHANGED <<day, pc, disk, pushed, faults>> /\ pc # "down"
    BY <1>0, <1>4 DEF SubmitApply, ProcessInv, InSession
  <2>. QED
    BY <1>0, <1>01, <1>02, <1>03, <1>05, <2>2, <2>3 DEF CapInv, C
<1>5. CASE CancelPrepare \/ CancelCall
  <2>1. ~Sending' /\ pc # "down"
    BY <1>0, <1>5 DEF CancelPrepare, CancelCall, Answer, Sending, ProcessInv,
                      InSession
  <2>2. UNCHANGED <<day, pc, book, disk, pushed>>
    BY <1>5 DEF CancelPrepare, CancelCall
  <2>3. faults'.crashes = faults.crashes
    BY <1>5 DEF CancelPrepare, CancelCall, TypeOK
  <2>4. Owed' = 0
    BY <2>1 DEF Owed
  <2>. QED
    BY <1>0, <1>01, <1>02, <1>03, <2>1, <2>2, <2>3, <2>4 DEF CapInv, C
<1>7. CASE CancelApply
  <2>1. call.kid \in Kids /\ call.kid[1] \in Parents /\ call.filled \in Nat
    BY <1>0, <1>7, CallTypes DEF CancelApply
  <2>2. book'.gross = book.gross
    <3>1. BookRow(book, call.kid[1], call.filled, TRUE).gross = book.gross
      BY <1>0, <2>1, BookRowType
    <3>2. HaltOnFailure(CancelErrorBook(book, call.kid[1])).gross = book.gross
      BY <1>0, HaltOnFailureType DEF CancelErrorBook
    <3>. QED
      BY <1>7, <3>1, <3>2 DEF CancelApply
  <2>3. call' = NoCall /\ UNCHANGED <<day, pc, disk, pushed, faults>> /\ pc # "down"
    BY <1>0, <1>7 DEF CancelApply, ProcessInv, InSession
  <2>. QED
    BY <1>0, <1>01, <1>02, <1>03, <1>05, <2>2, <2>3 DEF CapInv, C
<1>8. CASE TickStart \/ StaleDone \/ SyncDone \/ ExitsDone \/ ChaseDone
           \/ CloseSession \/ CloseCancelsDone
  <2>1. /\ call = NoCall /\ call' = NoCall /\ pc # "down" /\ pc' # "down"
        /\ UNCHANGED <<day, book, disk, pushed, faults>>
    BY <1>8 DEF TickStart, StaleDone, SyncDone, ExitsDone, ChaseDone,
                CloseSession, CloseCancelsDone, Idle, storage
  <2>. QED
    BY <1>0, <1>01, <1>02, <1>04, <1>05, <2>1 DEF CapInv, C
<1>10. CASE Poll
  <2>1. PICK k \in work :
          \/ LET b == BookRow(book, k[1], broker[k].filled, Terminal(k))
             IN  book' = HaltOnFailure(b) \/ book' = b
          \/ book' = book
    BY <1>10 DEF Poll
  <2>2. k[1] \in Parents /\ broker[k].filled \in Nat /\ Terminal(k) \in BOOLEAN
    BY <1>0 DEF Kids, Order, Terminal
  <2>3. book'.gross = book.gross
    <3> DEFINE b == BookRow(book, k[1], broker[k].filled, Terminal(k))
    <3>1. b \in Book /\ b.gross = book.gross
      BY <1>0, <2>2, BookRowType
    <3>. HIDE DEF b
    <3>2. HaltOnFailure(b).gross = b.gross
      BY <3>1, HaltOnFailureType
    <3>. QED
      BY <2>1, <3>1, <3>2 DEF b
  <2>4. /\ call = NoCall /\ call' = NoCall /\ pc # "down"
        /\ UNCHANGED <<day, pc, disk, pushed, faults>>
    BY <1>10 DEF Poll, Idle
  <2>. QED
    BY <1>0, <1>01, <1>02, <1>04, <1>05, <2>3, <2>4 DEF CapInv, C
<1>12. CASE ExitIntent \/ Chase
  <2>1. PICK b \in Book, p \in Sells, x \in Nat :
          /\ b.gross = book.gross
          /\ IF CanEmit(b, p) THEN SubmitPrepare(b, p, x)
                              ELSE book' = b /\ UNCHANGED call
    <3>1. CASE ExitIntent
      <4>1. PICK i \in todo :
              LET b == RegisterIntent(book, i.parent, i.qty)
              IN  /\ i.parent \in Sells
                  /\ IF CanEmit(b, i.parent)
                       THEN SubmitPrepare(b, i.parent, i.price)
                       ELSE book' = b /\ UNCHANGED call
        BY <3>1 DEF ExitIntent
      <4>2. i.parent \in Parents /\ i.qty \in Nat /\ i.price \in Nat
        BY <1>0 DEF Intent
      <4>3. /\ RegisterIntent(book, i.parent, i.qty) \in Book
            /\ RegisterIntent(book, i.parent, i.qty).gross = book.gross
        BY <1>0, <4>2, RegisterType
      <4>. QED
        BY <4>1, <4>2, <4>3
    <3>2. CASE Chase
      <4>1. PICK p \in Chaseable : SubmitPrepare(book, p, 1)
        BY <3>2 DEF Chase
      <4>2. p \in Sells /\ CanEmit(book, p)
        BY DEF Chaseable
      <4>. QED
        BY <1>0, <4>1, <4>2
    <3>. QED
      BY <1>12, <3>1, <3>2
  <2>2. p \in Parents /\ p \notin Buys
    BY DEF Sells
  <2>3. /\ call = NoCall /\ pc # "down"
        /\ UNCHANGED <<day, pc, disk, pushed, faults>>
    BY <1>12 DEF ExitIntent, Chase, Idle
  <2>4. book'.gross = book.gross /\ Owed' = 0
    <3>1. CASE CanEmit(b, p)
      <4>1. book'.gross = book.gross /\ Sending' /\ call'.kid[1] = p
        BY <1>0, <2>1, <2>2, <3>1, SubmitPrepareType
      <4>. QED
        BY <2>2, <4>1 DEF Owed
    <3>2. CASE ~CanEmit(b, p)
      BY <1>05, <2>1, <2>3, <3>2
    <3>. QED
      BY <3>1, <3>2
  <2>. QED
    BY <1>0, <1>01, <1>02, <1>04, <2>3, <2>4 DEF CapInv, C
<1>16. CASE EvaluateLossBudget \/ SkipEntry
  <2>1. \A i \in todo : RegisterIntent(book, i.parent, i.qty).gross = book.gross
    BY <1>0, RegisterType DEF Intent
  <2>2. book'.gross = book.gross
    BY <1>0, <1>16, <2>1, HaltType DEF EvaluateLossBudget, SkipEntry, TripHalt
  <2>3. /\ call = NoCall /\ call' = NoCall /\ pc # "down" /\ pc' # "down"
        /\ UNCHANGED <<day, disk, pushed, faults>>
    BY <1>16 DEF EvaluateLossBudget, SkipEntry, Idle, storage
  <2>. QED
    BY <1>0, <1>01, <1>02, <1>04, <1>05, <2>2, <2>3 DEF CapInv, C
<1>18. CASE EntryIntent
  <2>1. PICK i \in todo :
          LET b == RegisterIntent(book, i.parent, i.qty)
          IN  /\ CanEmit(b, i.parent)
              /\ CapAsserted(b, i.parent, i.price)
              /\ SubmitPrepare(b, i.parent, i.price)
    BY <1>18 DEF EntryIntent
  <2>2. i.parent \in Parents /\ i.qty \in Nat /\ i.price \in Nat
    BY <1>0 DEF Intent
  <2> DEFINE b == RegisterIntent(book, i.parent, i.qty)
             p == i.parent
             n == Remaining(b.parent[p]) * i.price
  <2>3. b \in Book /\ b.gross = book.gross
    BY <1>0, <2>2, RegisterType
  <2>4. CanEmit(b, p) /\ CapAsserted(b, p, i.price) /\ SubmitPrepare(b, p, i.price)
    BY <2>1
  <2>. HIDE DEF b
  <2>5. /\ Remaining(b.parent[p]) \in Nat
        /\ Sending' /\ call'.kid[1] = p /\ call'.price = i.price
        /\ book'.parent[p].qty = Remaining(b.parent[p])
        /\ p \in Buys => book'.gross = b.gross + n
        /\ p \notin Buys => book'.gross = b.gross
    BY <1>0, <2>2, <2>3, <2>4, SubmitPrepareType
  <2>6. n \in Nat
    BY <2>2, <2>5
  <2>7. b.gross + n <= Cap
    BY <2>4 DEF CapAsserted, WithinCap, EntryNotionalSubmitted
  <2>8. Owed' = IF p \in Buys THEN n ELSE 0
    BY <2>5 DEF Owed
  <2>9. /\ call = NoCall /\ pc # "down"
        /\ UNCHANGED <<day, pc, disk, pushed, faults>>
    BY <1>18 DEF EntryIntent, Idle
  <2>. HIDE DEF n
  <2>10. book'.gross <= Cap /\ pushed + Owed' <= C + book'.gross
    BY <1>0, <1>01, <1>02, <1>04, <2>3, <2>5, <2>6, <2>7, <2>8, <2>9
  <2>. QED
    BY <1>02, <2>9, <2>10 DEF CapInv, C
<1>19. CASE EntryCapRaises \/ CloseEnd
  <2>1. \A i \in todo : RegisterIntent(book, i.parent, i.qty).gross = book.gross
    BY <1>0, RegisterType DEF Intent
  <2>2. disk'.day = day /\ disk'.book.gross = book.gross
    BY <1>19, <2>1 DEF EntryCapRaises, CloseEnd
  <2>3. /\ call = NoCall /\ call' = NoCall /\ pc # "down" /\ pc' = "down"
        /\ book' = FreshBook /\ UNCHANGED <<day, pushed, faults>>
    BY <1>19 DEF EntryCapRaises, CloseEnd, ProcessEnds, Idle
  <2>. QED
    BY <1>0, <1>01, <1>02, <1>04, <2>2, <2>3, FreshBookType
       DEF CapInv, C, Recorded
<1>20. CASE TickEnd
  <2>1. /\ call = NoCall /\ call' = NoCall /\ pc # "down" /\ pc' # "down"
        /\ disk'.book = book /\ UNCHANGED <<day, book, pushed, faults>>
    BY <1>20 DEF TickEnd, Idle
  <2>. QED
    BY <1>0, <1>01, <1>02, <1>04, <1>05, <2>1 DEF CapInv, C
<1>24. CASE Crash
  <2>1. /\ pc # "down" /\ pc' = "down" /\ book' = FreshBook
        /\ UNCHANGED <<day, disk, pushed>>
        /\ faults'.crashes = faults.crashes + 1
    BY <1>24 DEF Crash, ProcessEnds, storage, TypeOK
  <2>2. faults'.crashes * Cap = C + Cap
    BY <1>0, <1>01, <2>1 DEF C
  <2>3. Recorded' = Recorded
    BY <2>1 DEF Recorded
  <2>. QED
    BY <1>0, <1>01, <1>02, <1>03, <1>06, <2>1, <2>2, <2>3, FreshBookType
       DEF CapInv
<1>25. CASE BrokerFill \/ BrokerEnds \/ UNCHANGED vars
  <2>1. UNCHANGED <<day, process, disk, pushed, faults>>
    BY <1>25 DEF BrokerFill, BrokerEnds, storage, vars, process
  <2>. QED
    BY <1>02, <2>1 DEF CapInv, C, Owed, Sending, Recorded, process
<1>27. CASE NextDay
  <2>1. /\ pc = "down" /\ pc' = "down" /\ UNCHANGED <<book, disk>>
        /\ pushed' = 0 /\ faults'.crashes = 0
    BY <1>27 DEF NextDay, process
  <2>2. Recorded' \in Nat
    BY <1>0, <2>1 DEF Recorded
  <2>3. faults'.crashes * Cap = 0
    BY <1>0, <2>1
  <2>4. book'.gross <= Cap /\ disk'.book.gross <= Cap
    BY <1>02, <2>1 DEF CapInv
  <2>5. pushed' <= faults'.crashes * Cap + Recorded'
    <3> DEFINE r == Recorded'
               c == faults'.crashes * Cap
    <3>1. r \in Nat /\ c = 0 /\ pushed' = 0
      BY <2>1, <2>2, <2>3
    <3>. HIDE DEF r, c
    <3>2. pushed' <= c + r
      BY <3>1
    <3>. QED
      BY <3>2 DEF r, c
  <2>. QED
    BY <2>1, <2>4, <2>5 DEF CapInv
<1>. QED
  BY <1>1, <1>2, <1>3, <1>4, <1>5, <1>7, <1>8, <1>10, <1>12, <1>16, <1>18,
     <1>19, <1>20, <1>24, <1>25, <1>27 DEF Next, ProcessStep

-----------------------------------------------------------------------------
(* The theorems.                                                           *)

\* The conjuncts of IInv, as the lemmas group them.
LEMMA InvParts == IInv <=> TypeOK /\ Control /\ Ceiling /\ CapInv
BY DEF IInv, Control, Ceiling, SessionCeiling

\* InvCorrect: IInv is an inductive invariant of the executor.
THEOREM InvCorrect == Spec => []IInv
<1>1. Init => TypeOK /\ Control /\ Ceiling /\ CapInv
  BY TypeInit, ControlInit, CeilingInit, CapInit
<1>2. TypeOK /\ Control /\ Ceiling /\ CapInv /\ [Next]_vars
        => (TypeOK /\ Control /\ Ceiling /\ CapInv)'
  <2>1. Control => ProcessInv
    BY DEF Control
  <2>. QED
    BY <2>1, TypeStep, ControlStep, CeilingStep, CapStep
<1>. QED
  BY <1>1, <1>2, InvParts, PTL DEF Spec

\* JournaledFirstCorrect: wherever the process dies, the broker knows no order
\* that the write-ahead journal does not.
THEOREM JournaledFirstCorrect == Spec => []JournaledFirst
<1>1. IInv => JournaledFirst
  BY DEF IInv
<1>. QED
  BY <1>1, InvCorrect, PTL

\* HaltsHoldCorrect: a loss-budget trip or a dead-man trip has halted entries
\* in every open session, across crashes, restarts and days.
THEOREM HaltsHoldCorrect == Spec => []HaltsHold
<1>1. IInv => HaltsHold
  BY DEF IInv
<1>. QED
  BY <1>1, InvCorrect, PTL

\* SessionCeilingCorrect: the session ceiling of the authorization is never
\* passed, and the broker holds orders on counted days only.
THEOREM SessionCeilingCorrect == Spec => []SessionCeiling
<1>1. IInv => SessionCeiling
  BY DEF IInv
<1>. QED
  BY <1>1, InvCorrect, PTL

\* CapCorrect: the BUY notional the broker accepts in a day is at most the cap
\* times one plus the number of crashes of that day, so at most the cap on a
\* day without a crash, however often the process was restarted in order.
THEOREM CapCorrect == Spec => []CapPerIncarnation
<1>1. IInv => CapPerIncarnation
  <2> SUFFICES ASSUME IInv
               PROVE  CapPerIncarnation
    OBVIOUS
  <2>1. /\ TypeOK /\ CapInv /\ Cap \in Nat /\ faults.crashes \in Nat
        /\ pushed \in Nat /\ book.gross \in Nat /\ disk.book.gross \in Nat
    BY CapAssumption, BoundsAssumption DEF IInv, TypeOK, Book
  <2> DEFINE C == faults.crashes * Cap
  <2>2. C \in Nat /\ (1 + faults.crashes) * Cap = C + Cap
    BY <2>1
  <2>. HIDE DEF C
  <2>3. Owed \in Nat
    <3>1. CASE Sending /\ call.kid[1] \in Buys
      <4>1. call \in Calls /\ book \in Book
        BY <2>1 DEF TypeOK
      <4>2. call.kid[1] \in Parents /\ call.price \in Nat
        BY <3>1, <4>1, CallTypes DEF Sending
      <4>3. book.parent[call.kid[1]].qty \in Nat
        BY <4>1, <4>2 DEF Book, ParentRec
      <4>4. book.parent[call.kid[1]].qty * call.price \in Nat
        BY <4>2, <4>3
      <4>. QED
        BY <3>1, <4>4 DEF Owed
    <3>2. CASE ~(Sending /\ call.kid[1] \in Buys)
      BY <3>2 DEF Owed
    <3>. QED
      BY <3>1, <3>2
  <2>4. pushed <= C + Cap
    BY <2>1, <2>2, <2>3 DEF CapInv, Recorded, C
  <2>. QED
    BY <2>2, <2>4 DEF CapPerIncarnation
<1>. QED
  BY <1>1, InvCorrect, PTL

\* EntriesCorrect: no BUY reaches the broker while the envelope is tripped,
\* while entries are halted, on an uncounted day or off the allowlist.
THEOREM EntriesCorrect == Spec => EntriesRespectHalts
<1> DEFINE A == \A k \in Kids : NewOrder(k) /\ k[1] \in Buys =>
                   /\ ~canary.tripped /\ ~book.halted
                   /\ day \in canary.sessions
                   /\ k[1] \in Allowed
<1>1. IInv /\ [Next]_vars => [A]_vars
  <2> SUFFICES ASSUME IInv, Next, NEW k \in Kids, NewOrder(k), k[1] \in Buys
               PROVE  /\ ~canary.tripped /\ ~book.halted
                      /\ day \in canary.sessions
                      /\ k[1] \in Allowed
    OBVIOUS
  <2>1. /\ TypeOK /\ broker \in [Kids -> Order] /\ call \in Calls
        /\ ProcessInv /\ SendingInv /\ HaltsHold
    BY DEF IInv, TypeOK
  <2>2. broker' # broker
    BY DEF NewOrder
  <2>3. SubmitCall \/ CancelCall \/ BrokerFill \/ BrokerEnds \/ NextDay
    BY <2>2 DEF Next, ProcessStep, BeginReconcile, BeginOpen, SubmitApply,
       CancelPrepare, CancelApply, TickStart, StaleDone, Poll, SyncDone,
       ExitIntent, ExitsDone, Chase, ChaseDone, EvaluateLossBudget, SkipEntry,
       EntryIntent, EntryCapRaises, TickEnd, CloseSession, CloseCancelsDone,
       CloseEnd, Crash
  <2>4. ~CancelCall
    BY <2>1, CallTypes, CancelAtType DEF CancelCall, NewOrder
  <2>5. ~BrokerFill /\ ~BrokerEnds
    BY <2>1 DEF BrokerFill, BrokerEnds, BrokerOpen, NewOrder
  <2>6. ~NextDay
    BY DEF NextDay, NewOrder, NoOrder
  <2>7. SubmitCall
    BY <2>3, <2>4, <2>5, <2>6
  <2>8. Sending /\ call.kid \in Kids
    BY <2>1, <2>7, CallTypes DEF SubmitCall, Sending
  <2>9. k = call.kid
    BY <2>1, <2>7, <2>8 DEF SubmitCall, Accept, NewOrder
  <2>10. InSession
    BY <2>1, <2>8 DEF ProcessInv, Sending, NoCall
  <2>. QED
    BY <2>1, <2>8, <2>9, <2>10 DEF ProcessInv, SendingInv, HaltsHold, InSession
<1>. QED
  BY <1>1, InvCorrect, PTL DEF Spec, EntriesRespectHalts

\* EnvelopeImplemented: the executor's persisted envelope implements the
\* abstract one: days are counted once and within the ceiling, and the trip is
\* final, whatever crashes and restarts.
THEOREM EnvelopeImplemented == Spec => ImplementsEnvelope
<1> DEFINE e == <<canary.sessions, canary.tripped>>
<1>1. Init => Env!Init
  BY DEF Init, Env!Init
<1>2. IInv /\ [Next]_vars => [Env!Next]_e
  <2> SUFFICES ASSUME IInv, [Next]_vars
               PROVE  Env!Next \/ UNCHANGED e
    BY DEF Env!Next
  <2>1. canary \in Canary /\ day \in Days /\ ProcessInv
    BY DEF IInv, TypeOK
  <2>2. CASE BeginReconcile
    <3>1. /\ canary'.sessions = canary.sessions \cup {day}
          /\ canary'.tripped = canary.tripped
          /\ SessionAvailable
      BY <2>1, <2>2 DEF BeginReconcile, Canary
    <3>2. CASE day \in canary.sessions
      BY <3>1, <3>2
    <3>3. CASE day \notin canary.sessions
      <4>1. Cardinality(canary.sessions) < MaxSessions
        BY <3>1, <3>3 DEF SessionAvailable
      <4>2. Env!Cardinality(canary.sessions) = Cardinality(canary.sessions)
        BY DEF Env!Cardinality, Env!IsFiniteSet, Cardinality, IsFiniteSet
      <4>3. day \in Days \ canary.sessions
        BY <2>1, <3>3
      <4>. QED
        BY <3>1, <4>1, <4>2, <4>3 DEF Env!Next, Env!Use
    <3>. QED
      BY <3>2, <3>3
  <2>3. CASE EvaluateLossBudget
    <3>1. CASE UNCHANGED canary
      BY <3>1
    <3>2. CASE /\ ~canary.tripped
               /\ canary' = [canary EXCEPT !.tripped = TRUE]
      <4>1. day \in canary.sessions
        BY <2>1, <2>3 DEF EvaluateLossBudget, ProcessInv
      <4>2. canary'.sessions = canary.sessions /\ canary'.tripped = TRUE
        BY <2>1, <3>2 DEF Canary
      <4>. QED
        BY <3>2, <4>1, <4>2 DEF Env!Next, Env!Trip
    <3>. QED
      BY <2>3, <3>1, <3>2 DEF EvaluateLossBudget
  <2>4. CASE SubmitApply \/ CancelApply \/ Poll
    <3>1. \A k, d : /\ Counted(k, d).sessions = canary.sessions
                    /\ Counted(k, d).tripped = canary.tripped
      BY <2>1 DEF Counted, Canary
    <3>2. \A k, f : /\ CountRow(k, f).sessions = canary.sessions
                    /\ CountRow(k, f).tripped = canary.tripped
      BY <3>1 DEF CountRow
    <3>3. CASE SubmitApply
      <4>1. canary' \in {canary, Counted(call.kid, call.filled)}
        BY <3>3 DEF SubmitApply
      <4>. QED
        BY <3>1, <4>1
    <3>4. CASE CancelApply
      <4>1. canary' \in {canary, CountRow(call.kid, call.filled)}
        BY <3>4 DEF CancelApply
      <4>. QED
        BY <3>2, <4>1
    <3>5. CASE Poll
      <4>1. PICK k \in work : \/ canary' = CountRow(k, broker[k].filled)
                              \/ UNCHANGED canary
        BY <3>5 DEF Poll
      <4>. QED
        BY <3>2, <4>1
    <3>. QED
      BY <2>4, <3>3, <3>4, <3>5
  <2>5. CASE NextDay
    <3>1. canary' = [canary EXCEPT !.counted = NothingCounted]
      BY <2>5 DEF NextDay
    <3>. QED
      BY <2>1, <3>1 DEF Canary
  <2>6. CASE ~(\/ BeginReconcile \/ EvaluateLossBudget \/ SubmitApply
               \/ CancelApply \/ Poll \/ NextDay)
    <3>1. UNCHANGED canary
      BY <2>6 DEF Next, ProcessStep, BeginOpen, SubmitCall, CancelPrepare,
         CancelCall, TickStart, StaleDone, SyncDone, ExitIntent, ExitsDone,
         Chase, ChaseDone, SkipEntry, EntryIntent, EntryCapRaises, TickEnd,
         CloseSession, CloseCancelsDone, CloseEnd, Crash, BrokerFill,
         BrokerEnds, storage, vars
    <3>. QED
      BY <3>1
  <2>. QED
    BY <2>2, <2>3, <2>4, <2>5, <2>6
<1>. QED
  BY <1>1, <1>2, InvCorrect, PTL DEF Spec, ImplementsEnvelope, Env!Spec
=============================================================================
