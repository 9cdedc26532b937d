---------------------------- MODULE EconomyProofs ----------------------------
(***************************************************************************)
(* The economic invariant of section 7, at the broker, for every set of    *)
(* parents and every target: on a day without a crash or a lost answer the *)
(* children of a parent never fill, nor may still fill, more than the      *)
(* parent's target between them.  The argument is a balance kept for every *)
(* parent: the units the broker filled over all of the parent's children   *)
(* are those the book has booked (cum_filled), and the fills of the open   *)
(* child that no poll, cancel or submission has reported yet.              *)
(***************************************************************************)
EXTENDS BrokerBookProofs

\* The filled units of a parent, attempt by attempt, and their number.
Slots(f) == UNION {{n} \X (1 .. f[n]) : n \in Attempts}

Total(f) == Cardinality(Slots(f))

Fills(p, o) == [n \in Attempts |-> o[<<p, n>>].filled]

\* The record of a parent agrees with the fills of its children.
Balanced(r, f) ==
    /\ r.open => /\ r.att \in Attempts
                 /\ r.filled <= f[r.att] /\ f[r.att] <= r.qty
    /\ ~r.open => r.qty = 0 /\ r.filled = 0
    /\ r.target = Unregistered => ~r.open /\ r.cum = 0
    /\ r.target # Unregistered => r.cum + (r.qty - r.filled) <= r.target
    /\ Total(f) + r.filled = r.cum + (IF r.open THEN f[r.att] ELSE 0)

Balances(b, o) == \A p \in Parents : Balanced(b.parent[p], Fills(p, o))

\* An order that the broker has not taken is unfilled, a refused submission
\* was not taken, and the answer to a cancel is the order's last fill.
AnswerFits ==
    /\ \A k \in Kids : broker[k].st = "none" => broker[k].filled = 0
    /\ call.op = "cancel" /\ call.stage = "answered" /\ call.resp = "ok" =>
          call.filled = broker[call.kid].filled
    /\ call.op = "submit" /\ call.stage = "answered" /\ call.resp # "ok" =>
          broker[call.kid].st = "none"

EconInv ==
    /\ disk.day <= day
    /\ faults = [crashes |-> 0, lost |-> 0] => Balances(Held, broker) /\ AnswerFits

-----------------------------------------------------------------------------
(* Counting the filled units.                                              *)

\* The units of one attempt.
LEMMA RowCount ==
    ASSUME NEW n, NEW v \in Nat
    PROVE  IsFiniteSet({n} \X (1 .. v)) /\ Cardinality({n} \X (1 .. v)) = v
<1>1. IsFiniteSet(1 .. v) /\ Cardinality(1 .. v) = v
  BY FS_Interval
<1>2. IsFiniteSet({n}) /\ Cardinality({n}) = 1
  BY FS_Singleton
<1>. QED
  BY <1>1, <1>2, FS_Product

\* Finitely many units are filled.
LEMMA SlotsFinite ==
    ASSUME NEW f \in [Attempts -> Nat]
    PROVE  IsFiniteSet(Slots(f)) /\ Total(f) \in Nat
<1> DEFINE row == [n \in Attempts |-> {n} \X (1 .. f[n])]
           rows == {{n} \X (1 .. f[n]) : n \in Attempts}
<1>1. IsFiniteSet(Attempts)
  BY AttemptsAssumption, FS_Interval DEF Attempts
<1>2. row \in Surjection(Attempts, rows)
  BY DEF Surjection
<1>3. IsFiniteSet(rows)
  BY <1>1, <1>2, FS_Surjection
<1>4. ASSUME NEW S \in rows
      PROVE  IsFiniteSet(S)
  <2>1. PICK n \in Attempts : S = {n} \X (1 .. f[n])
    OBVIOUS
  <2>2. f[n] \in Nat
    OBVIOUS
  <2>. QED
    BY <2>1, <2>2, RowCount
<1>5. IsFiniteSet(UNION rows)
  BY <1>3, <1>4, FS_UNION
<1>. QED
  BY <1>5, FS_CardinalityType DEF Slots, Total

\* Without a fill the total is zero.
LEMMA TotalZero ==
    ASSUME NEW f \in [Attempts -> Nat], \A n \in Attempts : f[n] = 0
    PROVE  Total(f) = 0
<1>1. \A n \in Attempts : 1 .. f[n] = {}
  OBVIOUS
<1>2. Slots(f) = {}
  BY <1>1 DEF Slots
<1>. QED
  BY <1>2, FS_EmptySet DEF Total

\* Changing the fill of one attempt changes the total by the difference.
LEMMA TotalBump ==
    ASSUME NEW f \in [Attempts -> Nat], NEW g \in [Attempts -> Nat],
           NEW n \in Attempts, \A m \in Attempts \ {n} : g[m] = f[m]
    PROVE  Total(g) + f[n] = Total(f) + g[n]
<1> DEFINE rest == UNION {{m} \X (1 .. f[m]) : m \in Attempts \ {n}}
<1>1. ASSUME NEW h \in [Attempts -> Nat], \A m \in Attempts \ {n} : h[m] = f[m]
      PROVE  Total(h) = Cardinality(rest) + h[n] /\ Cardinality(rest) \in Nat
  <2> DEFINE row == {n} \X (1 .. h[n])
  <2>1. Slots(h) = rest \cup row
    <3>1. rest = UNION {{m} \X (1 .. h[m]) : m \in Attempts \ {n}}
      BY <1>1
    <3>. QED
      BY <3>1 DEF Slots
  <2>2. rest \cap row = {}
    OBVIOUS
  <2>3. IsFiniteSet(row) /\ Cardinality(row) = h[n]
    BY RowCount
  <2>4. IsFiniteSet(rest) /\ Cardinality(rest) \in Nat
    BY <2>1, SlotsFinite, FS_Subset, FS_CardinalityType
  <2>. HIDE DEF rest, row
  <2>5. Cardinality(rest \cup row) = Cardinality(rest) + Cardinality(row)
    <3>1. Cardinality(rest \cap row) = 0
      BY <2>2, FS_EmptySet
    <3>2. Cardinality(rest \cup row)
            = Cardinality(rest) + Cardinality(row) - Cardinality(rest \cap row)
      BY <2>3, <2>4, FS_Union
    <3>. QED
      BY <2>3, <2>4, <3>1, <3>2
  <2>. QED
    BY <2>1, <2>3, <2>4, <2>5 DEF Total
<1>2. Total(f) = Cardinality(rest) + f[n] /\ Cardinality(rest) \in Nat
  BY <1>1
<1>3. Total(g) = Cardinality(rest) + g[n]
  BY <1>1
<1>. QED
  BY <1>2, <1>3

-----------------------------------------------------------------------------
(* What the operations of the book do to the balance.                      *)

\* The fields of a parent's record, and the fills of its children, are numbers.
LEMMA RecordTypes ==
    ASSUME NEW b \in Book, NEW o \in [Kids -> Order], NEW p \in Parents
    PROVE  /\ b.parent[p] \in ParentRec
           /\ Fills(p, o) \in [Attempts -> Nat]
           /\ \A n \in Attempts : Fills(p, o)[n] = o[<<p, n>>].filled
<1>1. \A n \in Attempts : o[<<p, n>>] \in Order
  BY DEF Kids
<1>. QED
  BY <1>1 DEF Book, Fills, Order

LEMMA ParentTypes ==
    ASSUME NEW r \in ParentRec
    PROVE  /\ r.target \in Int /\ r.cum \in Nat /\ r.att \in Int
           /\ r.open \in BOOLEAN /\ r.qty \in Nat /\ r.filled \in Nat
BY AttemptsAssumption DEF ParentRec, Unregistered

\* The open child of a parent is current.
LEMMA OpenCurrent ==
    ASSUME NEW b \in Book, NEW o \in [Kids -> Order], NEW k \in Kids, IsOpen(b, k)
    PROVE  /\ k[1] \in Parents /\ k[2] \in Attempts /\ k = <<k[1], k[2]>>
           /\ b.parent[k[1]].open /\ b.parent[k[1]].att = k[2]
           /\ Fills(k[1], o)[k[2]] = o[k].filled
           /\ o[k].filled \in Nat
<1>1. k[1] \in Parents /\ k[2] \in Attempts /\ k = <<k[1], k[2]>>
  BY DEF Kids
<1>2. o[k].filled \in Nat
  BY DEF Order
<1>. QED
  BY <1>1, <1>2, RecordTypes DEF IsOpen

\* A child that is closed must have been booked in full.
LEMMA ClosedBalanced ==
    ASSUME NEW r \in ParentRec, NEW s \in ParentRec, NEW f \in [Attempts -> Nat],
           Balanced(r, f), r.open, ~s.open, s.target = r.target, s.qty = 0,
           s.filled = 0, s.cum = r.cum + (f[r.att] - r.filled)
    PROVE  Balanced(s, f)
<1>1. /\ r.target \in Int /\ r.cum \in Nat /\ r.qty \in Nat /\ r.filled \in Nat
      /\ f[r.att] \in Nat /\ Total(f) \in Nat
  BY ParentTypes, SlotsFinite DEF Balanced
<1>2. /\ f[r.att] <= r.qty /\ r.target # Unregistered
      /\ r.cum + (r.qty - r.filled) <= r.target
      /\ Total(f) + r.filled = r.cum + f[r.att]
  BY DEF Balanced
<1>3. Total(f) + s.filled = s.cum /\ s.cum + (s.qty - s.filled) <= s.target
  BY <1>1, <1>2
<1>4. Total(f) + s.filled = s.cum + 0
  BY <1>1, <1>3, ParentTypes
<1>. QED
  BY <1>2, <1>3, <1>4 DEF Balanced

\* An open child may be booked up to what the broker filled.
LEMMA BookedBalanced ==
    ASSUME NEW r \in ParentRec, NEW s \in ParentRec, NEW f \in [Attempts -> Nat],
           NEW d \in Nat, Balanced(r, f), r.open, s.open, s.target = r.target,
           s.att = r.att, s.qty = r.qty, s.filled = r.filled + d,
           s.cum = r.cum + d, r.filled + d <= f[r.att]
    PROVE  Balanced(s, f)
<1>1. /\ r.target \in Int /\ r.cum \in Nat /\ r.qty \in Nat /\ r.filled \in Nat
      /\ f[r.att] \in Nat /\ Total(f) \in Nat
  BY ParentTypes, SlotsFinite DEF Balanced
<1>2. /\ r.att \in Attempts /\ f[r.att] <= r.qty /\ r.target # Unregistered
      /\ r.cum + (r.qty - r.filled) <= r.target
      /\ Total(f) + r.filled = r.cum + f[r.att]
  BY DEF Balanced
<1>3. /\ Total(f) + s.filled = s.cum + f[s.att]
      /\ s.cum + (s.qty - s.filled) <= s.target
  BY <1>1, <1>2
<1>. QED
  BY <1>2, <1>3 DEF Balanced

\* The balance of one parent is changed, that of the others is not.
LEMMA OneBalanced ==
    ASSUME NEW b, NEW c, NEW o, NEW p \in Parents, Balances(b, o),
           \A q \in Parents \ {p} : c.parent[q] = b.parent[q],
           Balanced(c.parent[p], Fills(p, o))
    PROVE  Balances(c, o)
BY DEF Balances

\* A booked fill keeps the balance.
LEMMA FillBalances ==
    ASSUME NEW b \in Book, NEW o \in [Kids -> Order], NEW k \in Kids, NEW d \in Nat,
           Balances(b, o), IsOpen(b, k), b.parent[k[1]].filled + d <= o[k].filled
    PROVE  Balances(OnFill(b, k[1], d), o)
<1> DEFINE p == k[1]
           r == b.parent[p]
           f == Fills(p, o)
           done == [r EXCEPT !.cum = @ + d, !.open = FALSE, !.qty = 0, !.filled = 0]
           more == [r EXCEPT !.cum = @ + d, !.filled = @ + d]
           s == IF r.filled + d >= r.qty THEN done ELSE more
           c == OnFill(b, p, d)
<1>1. /\ p \in Parents /\ r \in ParentRec /\ r.open /\ f[r.att] = o[k].filled
      /\ f \in [Attempts -> Nat] /\ Balanced(r, f)
  BY OpenCurrent, RecordTypes DEF Balances
<1>2. /\ r.cum \in Nat /\ r.qty \in Nat /\ r.filled \in Nat /\ o[k].filled \in Nat
  BY <1>1, ParentTypes, OpenCurrent
<1>3. /\ done.target = r.target /\ done.cum = r.cum + d /\ done.open = FALSE
      /\ done.qty = 0 /\ done.filled = 0
      /\ more.target = r.target /\ more.cum = r.cum + d /\ more.open = r.open
      /\ more.att = r.att /\ more.qty = r.qty /\ more.filled = r.filled + d
  BY <1>1 DEF ParentRec
<1>4. c \in Book /\ c.parent[p] = s /\ \A q \in Parents \ {p} : c.parent[q] = b.parent[q]
  <2>1. c = [b EXCEPT !.parent[p] = s]
    BY DEF OnFill
  <2>2. c \in Book
    BY <1>1, OnFillType
  <2>. HIDE DEF s
  <2>. QED
    BY <1>1, <2>1, <2>2 DEF Book
<1>5. s \in ParentRec
  BY <1>1, <1>4, RecordTypes
<1>6. Balanced(s, f)
  <2>1. CASE r.filled + d >= r.qty
    <3>1. f[r.att] <= r.qty
      BY <1>1 DEF Balanced
    <3>2. r.cum + d = r.cum + (f[r.att] - r.filled)
      BY <1>1, <1>2, <2>1, <3>1
    <3>3. s = done
      BY <2>1
    <3>. HIDE DEF done, s, f, r
    <3>. QED
      BY <1>1, <1>3, <1>5, <3>2, <3>3, ClosedBalanced
  <2>2. CASE ~(r.filled + d >= r.qty)
    <3>1. s = more
      BY <2>2
    <3>2. r.filled + d <= f[r.att]
      BY <1>1
    <3>. HIDE DEF more, s, f, r
    <3>. QED
      BY <1>1, <1>3, <1>5, <3>1, <3>2, BookedBalanced
  <2>. QED
    BY <2>1, <2>2
<1>. QED
  BY <1>1, <1>4, <1>6, OneBalanced

\* Closing a child that is booked in full keeps the balance.
LEMMA CloseBalances ==
    ASSUME NEW b \in Book, NEW o \in [Kids -> Order], NEW k \in Kids,
           Balances(b, o), IsOpen(b, k), b.parent[k[1]].filled = o[k].filled
    PROVE  Balances(CloseChild(b, k[1]), o)
<1> DEFINE p == k[1]
           r == b.parent[p]
           f == Fills(p, o)
           s == [r EXCEPT !.open = FALSE, !.qty = 0, !.filled = 0]
           c == CloseChild(b, p)
<1>1. /\ p \in Parents /\ r \in ParentRec /\ r.open /\ f[r.att] = o[k].filled
      /\ f \in [Attempts -> Nat] /\ Balanced(r, f)
  BY OpenCurrent, RecordTypes DEF Balances
<1>2. /\ s.target = r.target /\ s.cum = r.cum /\ s.open = FALSE
      /\ s.qty = 0 /\ s.filled = 0
  BY <1>1 DEF ParentRec
<1>3. c \in Book /\ c.parent[p] = s /\ \A q \in Parents \ {p} : c.parent[q] = b.parent[q]
  <2>1. c = [b EXCEPT !.parent[p] = s]
    BY <1>1 DEF CloseChild, Book
  <2>2. c \in Book
    BY <1>1, CloseChildType
  <2>. HIDE DEF s
  <2>. QED
    BY <1>1, <2>1, <2>2 DEF Book
<1>4. s \in ParentRec
  BY <1>1, <1>3, RecordTypes
<1>5. r.cum = r.cum + (f[r.att] - r.filled)
  BY <1>1, ParentTypes
<1>6. Balanced(s, f)
  <2>. HIDE DEF s, f, r
  <2>. QED
    BY <1>1, <1>2, <1>4, <1>5, ClosedBalanced
<1>. QED
  BY <1>1, <1>3, <1>6, OneBalanced

\* Booking what the broker says of an order keeps the balance.
LEMMA RowBalances ==
    ASSUME NEW b \in Book, NEW o \in [Kids -> Order], NEW k \in Kids,
           NEW done \in BOOLEAN, Balances(b, o), IsOpen(b, k)
    PROVE  Balances(BookRow(b, k[1], o[k].filled, done), o)
<1> DEFINE p == k[1]
           r == b.parent[p]
           x == o[k].filled
           c == IF x > r.filled THEN OnFill(b, p, x - r.filled) ELSE b
<1>1. /\ p \in Parents /\ r.filled \in Nat /\ x \in Nat /\ r.open /\ r.att = k[2]
      /\ r.filled <= x
  <2>1. /\ p \in Parents /\ r \in ParentRec /\ Balanced(r, Fills(p, o))
        /\ r.open /\ r.att = k[2] /\ Fills(p, o)[r.att] = x /\ x \in Nat
    BY OpenCurrent, RecordTypes DEF Balances
  <2>. QED
    BY <2>1, ParentTypes DEF Balanced
<1>2. x > r.filled => x - r.filled \in Nat /\ r.filled + (x - r.filled) = x
  BY <1>1
<1>3. Balances(c, o)
  <2>1. CASE x > r.filled
    <3> DEFINE d == x - r.filled
    <3>1. d \in Nat /\ r.filled + d <= x
      BY <1>1, <1>2, <2>1
    <3>. QED
      BY <2>1, <3>1, FillBalances
  <2>2. CASE ~(x > r.filled)
    BY <2>2
  <2>. QED
    BY <2>1, <2>2
<1>4. /\ c \in Book /\ c.parent[p].att = r.att
      /\ c.parent[p].open => c.parent[p].filled = x
  <2>1. CASE x > r.filled
    <3> DEFINE d == x - r.filled
    <3>1. d \in Nat /\ r.filled + d = x /\ c = OnFill(b, p, d)
      BY <1>1, <1>2, <2>1
    <3>. HIDE DEF d, c
    <3>. QED
      BY <1>1, <3>1, OnFillType, FillKids
  <2>2. CASE ~(x > r.filled)
    BY <1>1, <2>2
  <2>. QED
    BY <2>1, <2>2
<1>5. BookRow(b, p, x, done) = IF done /\ c.parent[p].open THEN CloseChild(c, p) ELSE c
  BY DEF BookRow
<1>. HIDE DEF c, x
<1>6. c.parent[p].open => IsOpen(c, k)
  BY <1>1, <1>4 DEF IsOpen
<1>7. CASE done /\ c.parent[p].open
  BY <1>3, <1>4, <1>5, <1>6, <1>7, CloseBalances DEF x
<1>8. CASE ~(done /\ c.parent[p].open)
  BY <1>3, <1>5, <1>8 DEF x
<1>. QED
  BY <1>7, <1>8

\* So does a halt of the entries, or a change of nothing but the halt.
LEMMA HaltBalances ==
    ASSUME NEW b \in Book, NEW o, Balances(b, o)
    PROVE  /\ Balances(HaltEntries(b), o) /\ Balances(HaltOnFailure(b), o)
           /\ Balances(HaltIfTripped(b), o)
<1>1. HaltEntries(b).parent = b.parent
  BY DEF HaltEntries, Book
<1>. QED
  BY <1>1 DEF Balances, HaltOnFailure, HaltIfTripped

\* A first registration gives an empty record its target.
LEMMA RegisterBalances ==
    ASSUME NEW b \in Book, NEW o \in [Kids -> Order], NEW p \in Parents,
           NEW q \in Nat, Balances(b, o)
    PROVE  Balances(RegisterIntent(b, p, q), o)
<1> DEFINE r == b.parent[p]
           f == Fills(p, o)
           s == [r EXCEPT !.target = q]
           c == RegisterIntent(b, p, q)
<1>1. r \in ParentRec /\ f \in [Attempts -> Nat] /\ Balanced(r, f)
  BY RecordTypes DEF Balances
<1>2. CASE Registered(b, p)
  BY <1>2 DEF RegisterIntent
<1>3. CASE ~Registered(b, p)
  <2>1. c = [b EXCEPT !.parent[p] = s]
    BY <1>3 DEF RegisterIntent, Book
  <2>2. /\ s.target = q /\ s.cum = r.cum /\ s.open = r.open /\ s.att = r.att
        /\ s.qty = r.qty /\ s.filled = r.filled
    BY <1>1 DEF ParentRec
  <2>. HIDE DEF s
  <2>3. c.parent[p] = s /\ \A z \in Parents \ {p} : c.parent[z] = b.parent[z]
    BY <2>1 DEF Book
  <2>. HIDE DEF c
  <2>4. ~r.open /\ r.cum = 0 /\ r.qty = 0 /\ r.filled = 0
    BY <1>1, <1>3 DEF Registered, Balanced
  <2>5. q # Unregistered
    BY DEF Unregistered
  <2>6. s.cum + (s.qty - s.filled) <= s.target
    BY <2>2, <2>4
  <2>7. Balanced(s, f)
    BY <1>1, <2>2, <2>4, <2>5, <2>6 DEF Balanced
  <2>8. Balances(c, o)
    BY <2>3, <2>7, OneBalanced
  <2>. QED
    BY <2>8 DEF c
<1>. QED
  BY <1>2, <1>3

\* A new child asks for the remainder; the broker has filled nothing of it.
LEMMA OpenBalances ==
    ASSUME NEW b \in Book, NEW o \in [Kids -> Order], NEW p \in Parents,
           NEW price \in Nat, Balances(b, o), CanEmit(b, p),
           \A k \in Kids : k = <<p, b.parent[p].att + 1>> => o[k].filled = 0
    PROVE  Balances(SubmitChild(b, p, price), o)
<1> DEFINE r == b.parent[p]
           f == Fills(p, o)
           c == SubmitChild(b, p, price)
           s == c.parent[p]
<1>1. r \in ParentRec /\ f \in [Attempts -> Nat] /\ Balanced(r, f)
  BY RecordTypes DEF Balances
<1>2. /\ c \in Book /\ s.qty = Remaining(r) /\ r.att + 1 \in Attempts
      /\ s.att = r.att + 1 /\ s.open /\ s.filled = 0
      /\ \A q \in Parents \ {p} : c.parent[q] = b.parent[q]
  BY SubmitChildType, SubmitKids
<1>3. s.target = r.target /\ s.cum = r.cum
  <2> DEFINE t == [r EXCEPT !.att = @ + 1, !.open = TRUE, !.qty = Remaining(r),
                            !.filled = 0]
             h == [b.parent EXCEPT ![p] = t]
             g == IF p \in Buys THEN b.gross + Remaining(r) * price ELSE b.gross
  <2>1. c = [b EXCEPT !.parent = h, !.gross = g]
    BY DEF SubmitChild, Book
  <2>2. t.target = r.target /\ t.cum = r.cum
    BY <1>1 DEF ParentRec
  <2>. HIDE DEF g, t
  <2>3. [b EXCEPT !.parent = h, !.gross = g].parent = h
    BY DEF Book
  <2>4. h[p] = t
    BY DEF Book
  <2>. QED
    BY <2>1, <2>2, <2>3, <2>4
<1>4. /\ r.target \in Int /\ r.cum \in Nat /\ Total(f) \in Nat
  BY <1>1, ParentTypes, SlotsFinite
<1>5. /\ ~r.open /\ r.qty = 0 /\ r.filled = 0 /\ r.target # Unregistered
      /\ Total(f) + r.filled = r.cum + 0 /\ Remaining(r) > 0
  BY <1>1 DEF CanEmit, Registered, Balanced
<1>6. f[s.att] = 0
  <2>1. <<p, r.att + 1>> \in Kids
    BY <1>2 DEF Kids
  <2>. QED
    BY <1>2, <2>1, RecordTypes
<1>7. s.qty = r.target - r.cum
  BY <1>2, <1>4, <1>5 DEF Remaining
<1>. HIDE DEF s, c, f, r
<1>8. /\ s.cum + (s.qty - s.filled) <= s.target
      /\ Total(f) + s.filled = s.cum + f[s.att]
      /\ f[s.att] <= s.qty /\ s.filled <= f[s.att] /\ s.att \in Attempts
  <2>1. s.qty > 0 /\ s.qty \in Int
    BY <1>2, <1>4, <1>5, <1>7
  <2>. QED
    BY <1>2, <1>3, <1>4, <1>5, <1>6, <1>7, <2>1
<1>9. Balanced(s, f)
  BY <1>2, <1>3, <1>5, <1>8 DEF Balanced
<1>. QED
  BY <1>2, <1>9, OneBalanced DEF s, f, c

\* Settling finished children books their fills before it closes them.
LEMMA SettleBalances ==
    ASSUME NEW b \in Book, NEW S, broker \in [Kids -> Order], Balances(b, broker)
    PROVE  Balances(Settle(b, S), broker)
<1> DEFINE F(p) == LET r == b.parent[p]
                       f == broker[<<p, r.att>>].filled
                   IN  IF r.open /\ <<p, r.att>> \in S
                         THEN [r EXCEPT !.cum = IF f > r.filled
                                                  THEN @ + (f - r.filled) ELSE @,
                                        !.open = FALSE, !.qty = 0, !.filled = 0]
                         ELSE r
           c == Settle(b, S)
<1>1. ASSUME NEW p \in Parents
      PROVE  Balanced(F(p), Fills(p, broker))
  <2> DEFINE r == b.parent[p]
             f == Fills(p, broker)
             x == broker[<<p, r.att>>].filled
             n == IF x > r.filled THEN r.cum + (x - r.filled) ELSE r.cum
             s == [r EXCEPT !.cum = n, !.open = FALSE, !.qty = 0, !.filled = 0]
  <2>1. r \in ParentRec /\ f \in [Attempts -> Nat] /\ Balanced(r, f)
    BY RecordTypes DEF Balances
  <2>2. F(p) = r \/ (F(p) = s /\ r.open)
    OBVIOUS
  <2>3. ASSUME r.open
        PROVE  n \in Nat /\ n = r.cum + (f[r.att] - r.filled)
    <3>1. r.att \in Attempts /\ r.filled <= f[r.att]
      BY <2>1, <2>3 DEF Balanced
    <3>2. f[r.att] = x /\ x \in Nat
      BY <2>1, <3>1, RecordTypes
    <3>. QED
      BY <2>1, <3>1, <3>2, ParentTypes
  <2>. HIDE DEF n, f, F
  <2>4. ASSUME r.open
        PROVE  Balanced(s, f)
    <3>1. /\ s \in ParentRec /\ s.open = FALSE /\ s.target = r.target
          /\ s.qty = 0 /\ s.filled = 0 /\ s.cum = n
      BY <2>1, <2>3, <2>4 DEF ParentRec
    <3>. HIDE DEF s, r
    <3>. QED
      BY <2>1, <2>3, <2>4, <3>1, ClosedBalanced
  <2>. QED
    BY <2>1, <2>2, <2>4 DEF f
<1>2. c.parent = [p \in Parents |-> F(p)]
  BY DEF Settle, Book
<1>. HIDE DEF F, c
<1>3. Balances(c, broker)
  BY <1>1, <1>2 DEF Balances
<1>. QED
  BY <1>3 DEF c

-----------------------------------------------------------------------------
(* What the broker does to the balance.                                    *)

\* Orders with the same fills have the same balance.
LEMMA SameFillsBalance ==
    ASSUME NEW b, NEW o, NEW u, Balances(b, o),
           \A k \in Kids : u[k].filled = o[k].filled
    PROVE  Balances(b, u)
<1>1. ASSUME NEW p \in Parents
      PROVE  Fills(p, u) = Fills(p, o)
  <2>1. \A n \in Attempts : u[<<p, n>>].filled = o[<<p, n>>].filled
    BY DEF Kids
  <2>. QED
    BY <2>1 DEF Fills
<1>. QED
  BY <1>1 DEF Balances

\* The broker may fill an open child up to its quantity.
LEMMA FilledBalance ==
    ASSUME NEW b \in Book, NEW o \in [Kids -> Order], NEW u \in [Kids -> Order],
           NEW k \in Kids, Balances(b, o), IsOpen(b, k),
           \A j \in Kids \ {k} : u[j].filled = o[j].filled,
           o[k].filled <= u[k].filled, u[k].filled <= b.parent[k[1]].qty
    PROVE  Balances(b, u)
<1> DEFINE p == k[1]
           r == b.parent[p]
           f == Fills(p, o)
           g == Fills(p, u)
<1>1. /\ p \in Parents /\ r \in ParentRec /\ r.open /\ r.att = k[2]
      /\ k[2] \in Attempts /\ Balanced(r, f)
      /\ f \in [Attempts -> Nat] /\ g \in [Attempts -> Nat]
      /\ f[k[2]] = o[k].filled /\ g[k[2]] = u[k].filled
  BY OpenCurrent, RecordTypes DEF Balances
<1>2. \A n \in Attempts \ {k[2]} : g[n] = f[n]
  <2>1. ASSUME NEW n \in Attempts \ {k[2]}
        PROVE  g[n] = f[n]
    <3>1. <<p, n>> \in Kids \ {k}
      BY <1>1 DEF Kids
    <3>. QED
      BY <1>1, <3>1, RecordTypes
  <2>. QED
    BY <2>1
<1>3. ASSUME NEW q \in Parents \ {p}
      PROVE  Fills(q, u) = Fills(q, o)
  <2>1. \A n \in Attempts : <<q, n>> \in Kids \ {k}
    BY <1>1, <1>3 DEF Kids
  <2>. QED
    BY <2>1 DEF Fills
<1>4. Balanced(r, g)
  <2>1. Total(g) + f[k[2]] = Total(f) + g[k[2]]
    BY <1>1, <1>2, TotalBump
  <2>2. /\ Total(f) \in Nat /\ Total(g) \in Nat /\ r.cum \in Nat
        /\ r.filled \in Nat /\ f[k[2]] \in Nat /\ g[k[2]] \in Nat /\ r.qty \in Nat
    BY <1>1, SlotsFinite, ParentTypes
  <2>3. Total(f) + r.filled = r.cum + f[k[2]] /\ r.filled <= f[k[2]]
    BY <1>1 DEF Balanced
  <2>4. Total(g) + r.filled = r.cum + g[k[2]]
    BY <2>1, <2>2, <2>3
  <2>5. f[k[2]] <= g[k[2]] /\ g[k[2]] <= r.qty
    BY <1>1
  <2>6. r.filled <= g[k[2]]
    BY <2>2, <2>3, <2>5
  <2>. HIDE DEF f, g, r
  <2>. QED
    BY <1>1, <2>4, <2>5, <2>6 DEF Balanced
<1>. QED
  BY <1>3, <1>4 DEF Balances

\* A fresh book balances with a broker that has filled nothing.
LEMMA FreshBalances ==
    ASSUME NEW o \in [Kids -> Order], \A k \in Kids : o[k].filled = 0
    PROVE  Balances(FreshBook, o)
<1> SUFFICES ASSUME NEW p \in Parents
             PROVE  Balanced(FreshBook.parent[p], Fills(p, o))
  BY DEF Balances
<1>1. FreshBook.parent[p] = NoParent
  BY DEF FreshBook
<1>2. Total(Fills(p, o)) = 0
  <2>1. FreshBook \in Book
    BY FreshBookType
  <2>2. \A n \in Attempts : <<p, n>> \in Kids
    BY DEF Kids
  <2>3. /\ Fills(p, o) \in [Attempts -> Nat]
        /\ \A n \in Attempts : Fills(p, o)[n] = o[<<p, n>>].filled
    BY <2>1, RecordTypes
  <2>4. \A n \in Attempts : Fills(p, o)[n] = 0
    BY <2>2, <2>3
  <2>. QED
    BY <2>3, <2>4, TotalZero
<1>. QED
  BY <1>1, <1>2 DEF Balanced, NoParent, Unregistered

-----------------------------------------------------------------------------
(* The balance over the steps.                                             *)

\* The book and the broker are empty initially.
LEMMA EconInit == Init => EconInv
<1> SUFFICES ASSUME Init
             PROVE  EconInv
  OBVIOUS
<1>1. /\ Held = FreshBook /\ \A k \in Kids : broker[k].filled = 0
      /\ broker \in [Kids -> Order] /\ call.op = "none" /\ disk.day <= day
  BY DEF Init, Held, RestoredBook, NoOrder, Order, OrderStates, NoCall
<1>. QED
  BY <1>1, FreshBalances DEF EconInv, AnswerFits

\* No step writes a snapshot of a later day.
LEMMA DiskDayStep == TypeOK /\ disk.day <= day /\ [Next]_vars => (disk.day <= day)'
<1> SUFFICES ASSUME TypeOK, disk.day <= day, [Next]_vars
             PROVE  disk'.day <= day'
  OBVIOUS
<1>1. disk.day \in Int /\ day \in Int
  BY BoundsAssumption DEF TypeOK, Days
<1>2. CASE BeginOpen \/ EntryCapRaises \/ TickEnd \/ CloseEnd
  <2>1. disk'.day = day /\ day' = day
    BY <1>2 DEF BeginOpen, EntryCapRaises, TickEnd, CloseEnd
  <2>. QED
    BY <1>1, <2>1
<1>3. CASE NextDay
  BY <1>1, <1>3 DEF NextDay
<1>4. CASE ~(BeginOpen \/ EntryCapRaises \/ TickEnd \/ CloseEnd \/ NextDay)
  <2>1. disk' = disk /\ day' = day
    BY <1>4 DEF Next, ProcessStep, BeginReconcile, SubmitCall, SubmitApply,
       CancelPrepare, CancelCall, CancelApply, TickStart, StaleDone, Poll, SyncDone,
       ExitIntent, ExitsDone, Chase, ChaseDone, EvaluateLossBudget, SkipEntry,
       EntryIntent, CloseSession, CloseCancelsDone, Crash, BrokerFill, BrokerEnds,
       storage, vars
  <2>. QED
    BY <2>1
<1>. QED
  BY <1>2, <1>3, <1>4

\* Every step without a fault keeps the balance of every parent.
LEMMA EconStep ==
    TypeOK /\ ProcessInv /\ PendingInv /\ WorkingInv /\ EconInv /\ [Next]_vars
      => EconInv'
<1> SUFFICES ASSUME TypeOK, ProcessInv, PendingInv, WorkingInv, EconInv, [Next]_vars,
                    faults' = [crashes |-> 0, lost |-> 0]
             PROVE  Balances(Held', broker') /\ AnswerFits'
  BY DiskDayStep DEF EconInv, Balances, Fills
<1>0. /\ book \in Book /\ call \in Calls /\ work \in SUBSET Kids
      /\ broker \in [Kids -> Order] /\ todo \in SUBSET Intent
      /\ journal \in SUBSET Journal
      /\ disk \in [day : {0} \cup Days, book : Book] /\ NoCall.op = "none"
  BY DEF TypeOK, NoCall
<1>01. \A k \in Kids : broker[k].filled \in Nat /\ k[1] \in Parents
  BY <1>0 DEF Order, Kids
<1>02. ~NextDay => /\ faults' = faults /\ Fits(Held, broker) /\ CallFits
                   /\ Balances(Held, broker) /\ AnswerFits
  BY NoFaultBefore DEF WorkingInv, EconInv
<1>03. broker' = broker /\ AnswerFits /\ (call' = NoCall \/ call'.stage = "journaled")
         => AnswerFits'
  BY <1>0 DEF AnswerFits
<1>04. pc # "down" => Held = book
  BY DEF Held
<1>05. pc' # "down" => Held' = book'
  BY DEF Held
<1>06. call # NoCall => pc # "down"
  BY DEF ProcessInv, InSession
<1>07. broker' \in [Kids -> Order]
  BY TypeStep DEF TypeOK
<1>1. CASE BeginReconcile
  <2>1. PICK S \in SUBSET Kids, halt \in BOOLEAN :
          book' = IF halt THEN HaltEntries(Settle(RestoredBook, S))
                          ELSE Settle(RestoredBook, S)
    BY <1>1 DEF BeginReconcile, OpenKids
  <2>2. /\ Held = RestoredBook /\ Held' = book' /\ broker' = broker
        /\ call' = NoCall /\ ~NextDay
    BY <1>1 DEF BeginReconcile, Held, ProcessInv, InSession, NextDay, process
  <2>3. RestoredBook \in Book /\ Settle(RestoredBook, S) \in Book
    BY <1>0, <2>1, RestoredType, SettleType
  <2>4. Balances(Settle(RestoredBook, S), broker)
    BY <1>0, <1>02, <2>2, <2>3, SettleBalances
  <2>5. Balances(book', broker)
    BY <2>1, <2>3, <2>4, HaltBalances
  <2>. QED
    BY <1>02, <1>03, <2>2, <2>5
<1>2. CASE \/ BeginOpen \/ TickStart \/ StaleDone \/ SyncDone \/ ExitsDone
           \/ ChaseDone \/ CloseSession \/ CloseCancelsDone
           \/ EvaluateLossBudget \/ SkipEntry \/ TickEnd \/ CancelPrepare
  <2>1. /\ pc # "down" /\ pc' # "down" /\ broker' = broker
        /\ call' = NoCall \/ call'.stage = "journaled"
    BY <1>2 DEF BeginOpen, TickStart, StaleDone, SyncDone, ExitsDone,
       ChaseDone, CloseSession, CloseCancelsDone, EvaluateLossBudget, SkipEntry,
       TickEnd, CancelPrepare, Idle, ProcessInv, InSession
  <2>2. \/ book' \in {book, HaltEntries(book), HaltIfTripped(book)}
        \/ \E i \in todo : book' = RegisterIntent(book, i.parent, i.qty)
    BY <1>2 DEF BeginOpen, TickStart, StaleDone, SyncDone, ExitsDone,
       ChaseDone, CloseSession, CloseCancelsDone, EvaluateLossBudget, SkipEntry,
       TickEnd, CancelPrepare, TripHalt
  <2>3. \A i \in todo : i.parent \in Parents /\ i.qty \in Nat
    BY <1>0 DEF Intent
  <2>4. ~NextDay
    BY <2>1 DEF NextDay
  <2>5. Balances(book', broker)
    BY <1>0, <1>02, <1>04, <2>1, <2>2, <2>3, <2>4, HaltBalances, RegisterBalances
  <2>. QED
    BY <1>02, <1>03, <1>05, <2>1, <2>4, <2>5
<1>3. CASE SubmitCall
  <2>1. /\ call.op = "submit" /\ call.stage = "journaled" /\ call.kid \in Kids
        /\ call.kid[1] \in Parents
        /\ UNCHANGED <<pc, book>> /\ pc # "down" /\ ~NextDay
    BY <1>0, <1>06, <1>3, CallTypes DEF SubmitCall, NextDay
  <2>2. /\ Held = book /\ Held' = book /\ IsOpen(book, call.kid)
        /\ broker[call.kid].st = "none" /\ broker[call.kid].filled = 0
        /\ Balances(book, broker) /\ AnswerFits /\ faults' = faults
    BY <1>02, <1>04, <1>05, <2>1 DEF PendingInv, CallFits, Sending, AnswerFits
  <2>3. CASE \E f \in 0 .. book.parent[call.kid[1]].qty :
               Accept(call.kid, f) /\ Answer("ok", f)
    <3>1. PICK f \in 0 .. book.parent[call.kid[1]].qty :
                 Accept(call.kid, f) /\ Answer("ok", f)
      BY <2>3
    <3>2. book.parent[call.kid[1]].qty \in Nat
      BY <1>0, <2>1 DEF Book, ParentRec
    <3>3. /\ \A k \in Kids \ {call.kid} : broker'[k] = broker[k]
          /\ broker'[call.kid].st # "none" /\ broker'[call.kid].filled = f
      BY <1>0, <2>1, <3>1 DEF Accept
    <3>4. call'.op = "submit" /\ call'.resp = "ok"
      BY <2>1, <3>1 DEF Answer
    <3>5. AnswerFits'
      BY <2>2, <3>3, <3>4 DEF AnswerFits
    <3>6. 0 <= f /\ f <= book.parent[call.kid[1]].qty
      BY <3>2
    <3>7. Balances(book, broker')
      BY <1>0, <1>07, <2>1, <2>2, <3>3, <3>6, FilledBalance
    <3>. QED
      BY <2>2, <3>5, <3>7
  <2>4. CASE (Answer("rejected", 0) \/ Answer("error", 0)) /\ UNCHANGED broker
    <3>1. call'.kid = call.kid /\ call'.op = "submit"
      BY <2>1, <2>4 DEF Answer
    <3>. QED
      BY <2>2, <2>4, <3>1 DEF AnswerFits
  <2>5. ~(faults' = [faults EXCEPT !.lost = @ + 1])
    BY <2>2, BoundsAssumption DEF TypeOK
  <2>. QED
    BY <1>3, <2>3, <2>4, <2>5 DEF SubmitCall
<1>4. CASE SubmitApply
  <2>1. /\ call.op = "submit" /\ call.stage = "answered" /\ call.kid \in Kids
        /\ call.kid[1] \in Parents /\ call.filled \in Nat
        /\ pc # "down" /\ UNCHANGED <<pc, broker>> /\ call' = NoCall /\ ~NextDay
    BY <1>0, <1>06, <1>4, CallTypes DEF SubmitApply, NextDay
  <2>2. /\ IsOpen(book, call.kid) /\ book.parent[call.kid[1]].filled = 0
        /\ Held = book /\ Held' = book' /\ Balances(book, broker) /\ AnswerFits
        /\ call.filled <= broker[call.kid].filled
    BY <1>02, <1>04, <1>05, <2>1 DEF PendingInv
  <2>3. CASE call.resp = "ok"
    <3>1. book' = IF call.filled > 0 THEN OnFill(book, call.kid[1], call.filled)
                                     ELSE book
      BY <1>4, <2>3 DEF SubmitApply
    <3>2. 0 + call.filled = call.filled
      BY <2>1
    <3>3. Balances(OnFill(book, call.kid[1], call.filled), broker)
      BY <1>0, <2>1, <2>2, <3>2, FillBalances
    <3>. QED
      BY <1>03, <2>1, <2>2, <3>1, <3>3
  <2>4. CASE call.resp # "ok"
    <3> DEFINE c == CloseChild(book, call.kid[1])
    <3>1. book' = HaltOnFailure(c)
      BY <1>4, <2>4 DEF SubmitApply
    <3>2. broker[call.kid].filled = 0
      BY <2>1, <2>2, <2>4 DEF AnswerFits
    <3>3. c \in Book /\ Balances(c, broker)
      BY <1>0, <2>1, <2>2, <3>2, CloseChildType, CloseBalances
    <3>. HIDE DEF c
    <3>. QED
      BY <1>03, <2>1, <2>2, <3>1, <3>3, HaltBalances
  <2>. QED
    BY <2>3, <2>4
<1>5. CASE CancelCall
  <2>1. /\ call.op = "cancel" /\ call.stage = "journaled" /\ call.kid \in Kids
        /\ UNCHANGED <<pc, book>> /\ pc # "down" /\ ~NextDay
    BY <1>0, <1>06, <1>5, CallTypes DEF CancelCall, NextDay
  <2>2. /\ Held = book /\ Held' = book /\ Balances(book, broker) /\ AnswerFits
        /\ faults' = faults
    BY <1>02, <1>04, <1>05, <2>1
  <2>3. CASE CancelAt(call.kid) /\ Answer("ok", broker[call.kid].filled)
    <3>1. \A k \in Kids : /\ broker'[k].filled = broker[k].filled
                          /\ broker'[k].st = "none" => broker[k].st = "none"
      BY <1>0, <2>1, <2>3 DEF CancelAt, Order
    <3>2. /\ call'.kid = call.kid /\ call'.op = "cancel"
          /\ call'.filled = broker[call.kid].filled
      BY <2>1, <2>3 DEF Answer
    <3>3. AnswerFits'
      BY <2>1, <2>2, <3>1, <3>2 DEF AnswerFits
    <3>. QED
      BY <2>2, <3>1, <3>3, SameFillsBalance
  <2>4. CASE Answer("error", 0) /\ UNCHANGED broker
    <3>1. /\ call'.op = "cancel" /\ call'.stage = "answered"
          /\ call'.resp = "error"
      BY <2>1, <2>4 DEF Answer
    <3>. QED
      BY <2>2, <2>4, <3>1 DEF AnswerFits
  <2>5. ~(faults' = [faults EXCEPT !.lost = @ + 1])
    BY <2>2, BoundsAssumption DEF TypeOK
  <2>. QED
    BY <1>5, <2>3, <2>4, <2>5 DEF CancelCall
<1>6. CASE CancelApply
  <2>1. /\ call.op = "cancel" /\ call.stage = "answered" /\ call.kid \in Kids
        /\ pc # "down" /\ UNCHANGED <<pc, broker>> /\ call' = NoCall /\ ~NextDay
    BY <1>0, <1>06, <1>6, CallTypes DEF CancelApply, NextDay
  <2>2. /\ IsOpen(book, call.kid) /\ Held = book /\ Held' = book'
        /\ Balances(book, broker) /\ AnswerFits
    BY <1>02, <1>04, <1>05, <2>1 DEF PendingInv
  <2>3. CASE call.resp = "ok"
    <3>1. call.filled = broker[call.kid].filled
      BY <2>1, <2>2, <2>3 DEF AnswerFits
    <3>2. book' = BookRow(book, call.kid[1], broker[call.kid].filled, TRUE)
      BY <1>6, <2>3, <3>1 DEF CancelApply
    <3>. QED
      BY <1>0, <1>03, <2>1, <2>2, <3>2, RowBalances
  <2>4. CASE call.resp # "ok"
    <3>1. book' = HaltOnFailure(book)
      BY <1>6, <2>4 DEF CancelApply, CancelErrorBook
    <3>. QED
      BY <1>0, <1>03, <2>1, <2>2, <3>1, HaltBalances
  <2>. QED
    BY <2>3, <2>4
<1>7. CASE Poll
  <2>1. PICK k \in work :
          \/ LET b == BookRow(book, k[1], broker[k].filled, Terminal(k))
             IN  book' = HaltOnFailure(b) \/ book' = b
          \/ book' = book
    BY <1>7 DEF Poll
  <2>2. /\ k \in Kids /\ k[1] \in Parents /\ broker[k].filled \in Nat
        /\ Terminal(k) \in BOOLEAN /\ IsOpen(book, k)
    BY <1>0, <1>01 DEF Terminal, PendingInv, OpenKids
  <2>3. UNCHANGED <<pc, broker>> /\ pc # "down" /\ call' = NoCall /\ ~NextDay
    BY <1>7 DEF Poll, Idle, NextDay
  <2>4. /\ Held = book /\ Held' = book' /\ Balances(book, broker) /\ AnswerFits
    BY <1>02, <1>04, <1>05, <2>3
  <2> DEFINE b == BookRow(book, k[1], broker[k].filled, Terminal(k))
  <2>5. b \in Book /\ Balances(b, broker)
    BY <1>0, <2>2, <2>4, BookRowType, RowBalances
  <2>6. book' = HaltOnFailure(b) \/ book' = b \/ book' = book
    BY <2>1
  <2>. HIDE DEF b
  <2>. QED
    BY <1>03, <2>3, <2>4, <2>5, <2>6, HaltBalances
<1>8. CASE ExitIntent \/ Chase \/ EntryIntent
  <2>1. /\ pc # "down" /\ pc' # "down" /\ broker' = broker /\ call = NoCall
        /\ ~NextDay
    BY <1>8 DEF ExitIntent, Chase, EntryIntent, Idle, NextDay
  <2>2. /\ Held = book /\ Held' = book' /\ Balances(book, broker)
        /\ Fits(book, broker) /\ AnswerFits
    BY <1>02, <1>04, <1>05, <2>1
  <2>3. PICK b \in Book, p \in Parents, x \in Nat :
          /\ SameKids(book, b) /\ Balances(b, broker)
          /\ \/ CanEmit(b, p) /\ SubmitPrepare(b, p, x)
             \/ book' = b /\ call' = call
    <3>1. CASE ExitIntent \/ EntryIntent
      <4>1. PICK i \in todo :
              LET b == RegisterIntent(book, i.parent, i.qty)
              IN  \/ CanEmit(b, i.parent) /\ SubmitPrepare(b, i.parent, i.price)
                  \/ book' = b /\ call' = call
        BY <3>1 DEF ExitIntent, EntryIntent
      <4>2. i.parent \in Parents /\ i.qty \in Nat /\ i.price \in Nat
        BY <1>0 DEF Intent
      <4> DEFINE b == RegisterIntent(book, i.parent, i.qty)
      <4>3. b \in Book /\ SameKids(book, b) /\ Balances(b, broker)
        BY <1>0, <2>2, <4>2, RegisterType, KeepsKids, RegisterBalances
      <4>. QED
        BY <4>1, <4>2, <4>3
    <3>2. CASE Chase
      <4>1. PICK p \in Parents : CanEmit(book, p) /\ SubmitPrepare(book, p, 1)
        BY <3>2 DEF Chase, Chaseable, Sells
      <4>2. SameKids(book, book) /\ 1 \in Nat
        BY <1>0, KeepsKids
      <4>. QED
        BY <1>0, <2>2, <4>1, <4>2
    <3>. QED
      BY <1>8, <3>1, <3>2
  <2>4. CASE CanEmit(b, p) /\ SubmitPrepare(b, p, x)
    <3>1. call'.stage = "journaled" /\ book' = SubmitChild(b, p, x)
      BY <2>4 DEF SubmitPrepare
    <3>2. Fits(b, broker)
      BY <2>2, <2>3, SameFits
    <3>3. ASSUME NEW k \in Kids, k = <<p, b.parent[p].att + 1>>
          PROVE  broker[k].filled = 0
      <4>1. b.parent[p].att \in Int
        BY ParentTypes DEF Book
      <4>2. k[1] = p /\ k[2] = b.parent[p].att + 1
        BY <3>3
      <4>3. broker[k].st = "none"
        BY <3>2, <4>1, <4>2 DEF Fits
      <4>. QED
        BY <2>2, <4>3 DEF AnswerFits
    <3>4. Balances(SubmitChild(b, p, x), broker)
      BY <1>0, <2>3, <2>4, <3>3, OpenBalances
    <3>. QED
      BY <1>03, <2>1, <2>2, <3>1, <3>4
  <2>5. CASE book' = b /\ call' = call
    BY <1>03, <2>1, <2>2, <2>3, <2>5
  <2>. QED
    BY <2>3, <2>4, <2>5
<1>9. CASE EntryCapRaises \/ CloseEnd
  <2>1. /\ pc # "down" /\ pc' = "down" /\ UNCHANGED <<day, broker>>
        /\ disk'.day = day /\ call' = NoCall /\ ~NextDay
        /\ \/ disk'.book = book
           \/ \E i \in todo : disk'.book = RegisterIntent(book, i.parent, i.qty)
    BY <1>9 DEF EntryCapRaises, CloseEnd, ProcessEnds, NextDay
  <2>2. \A i \in todo : i.parent \in Parents /\ i.qty \in Nat
    BY <1>0 DEF Intent
  <2>3. Held = book /\ Held' = disk'.book
    BY <2>1 DEF Held, RestoredBook
  <2>4. Balances(disk'.book, broker)
    BY <1>0, <1>02, <2>1, <2>2, <2>3, RegisterBalances
  <2>. QED
    BY <1>02, <1>03, <2>1, <2>3, <2>4
<1>10. CASE Crash
  BY <1>10, NoFaultBefore DEF Crash, NextDay
<1>11. CASE BrokerFill \/ BrokerEnds
  <2>1. UNCHANGED <<day, process, storage, faults>>
    BY <1>11 DEF BrokerFill, BrokerEnds
  <2>2. Held' = Held /\ call' = call
    BY <2>1 DEF Held, RestoredBook, process, storage
  <2>3. /\ Fits(Held, broker) /\ CallFits /\ Balances(Held, broker) /\ AnswerFits
        /\ Held \in Book
    BY <2>1, HeldType DEF WorkingInv, EconInv
  <2>4. PICK j \in BrokerOpen :
          /\ \A k \in Kids \ {j} : broker'[k] = broker[k]
          /\ broker'[j].st # "none"
          /\ broker'[j].filled \in {broker[j].filled, broker[j].filled + 1}
    <3>1. CASE BrokerFill
      <4>1. PICK j \in BrokerOpen :
              broker' = [broker EXCEPT ![j] =
                           [broker[j] EXCEPT
                              !.filled = @ + 1,
                              !.st = IF broker[j].filled + 1 = broker[j].qty
                                       THEN "filled" ELSE "live"]]
        BY <3>1 DEF BrokerFill
      <4> DEFINE r == [broker[j] EXCEPT
                         !.filled = @ + 1,
                         !.st = IF broker[j].filled + 1 = broker[j].qty
                                  THEN "filled" ELSE "live"]
      <4>2. r.filled = broker[j].filled + 1 /\ r.st # "none"
        BY <1>0 DEF BrokerOpen, Order
      <4>3. broker'[j] = r /\ \A k \in Kids \ {j} : broker'[k] = broker[k]
        BY <1>0, <4>1 DEF BrokerOpen
      <4>. QED
        BY <4>2, <4>3
    <3>2. CASE BrokerEnds
      <4>1. PICK j \in BrokerOpen, s \in {"canceled", "rejected"} :
              broker' = [broker EXCEPT ![j].st = s]
        BY <3>2 DEF BrokerEnds
      <4> DEFINE r == [broker[j] EXCEPT !.st = s]
      <4>2. r.filled = broker[j].filled /\ r.st = s
        BY <1>0 DEF BrokerOpen, Order
      <4>3. broker'[j] = r /\ \A k \in Kids \ {j} : broker'[k] = broker[k]
        BY <1>0, <4>1 DEF BrokerOpen
      <4>. QED
        BY <4>2, <4>3
    <3>. QED
      BY <1>11, <3>1, <3>2
  <2>5. /\ j \in Kids /\ broker[j].st = "live" /\ IsOpen(Held, j)
        /\ broker[j].filled < Held.parent[j[1]].qty
        /\ broker[j].filled \in Nat /\ Held.parent[j[1]].qty \in Nat
    BY <1>0, <1>01, <2>3, ParentTypes DEF BrokerOpen, Fits, Book
  <2>6. /\ broker[j].filled <= broker'[j].filled
        /\ broker'[j].filled <= Held.parent[j[1]].qty
    BY <2>4, <2>5
  <2>7. Balances(Held, broker')
    BY <1>0, <1>07, <2>3, <2>4, <2>5, <2>6, FilledBalance
  <2>8. AnswerFits'
    <3>1. \A k \in Kids : broker[k].st # "live" => broker'[k] = broker[k]
      BY <2>4, <2>5
    <3>2. call.op # "none" => call.kid \in Kids
      BY <1>0, CallTypes
    <3>. QED
      BY <2>2, <2>3, <2>4, <3>1, <3>2 DEF AnswerFits, CallFits
  <2>. QED
    BY <2>2, <2>7, <2>8
<1>12. CASE NextDay
  <2>1. \A k \in Kids : broker'[k].filled = 0
    BY <1>12 DEF NextDay, NoOrder
  <2>2. call' = NoCall
    BY <1>12 DEF NextDay, process, ProcessInv, InSession
  <2>3. Held' = FreshBook
    <3>1. disk.day # day'
      BY <1>12, BoundsAssumption DEF NextDay, EconInv, TypeOK, Days
    <3>. QED
      BY <1>12, <3>1 DEF NextDay, process, Held, RestoredBook
  <2>4. Balances(FreshBook, broker')
    BY <1>07, <2>1, FreshBalances
  <2>. QED
    BY <1>0, <2>1, <2>2, <2>3, <2>4 DEF AnswerFits
<1>13. CASE UNCHANGED vars
  <2>1. ~NextDay => Held' = Held /\ broker' = broker /\ call' = call
    BY <1>13 DEF Held, RestoredBook, vars
  <2>. QED
    BY <1>02, <1>12, <2>1 DEF AnswerFits
<1>. QED
  BY <1>1, <1>2, <1>3, <1>4, <1>5, <1>6, <1>7, <1>8, <1>9, <1>10, <1>11,
     <1>12, <1>13 DEF Next, ProcessStep

-----------------------------------------------------------------------------
(* The theorem.                                                            *)

\* What the broker has filled or may still fill of a parent: only the open
\* child can be live, so the units taken differ from the units filled in the
\* quantity of that child alone.
LEMMA TakenWithinTarget ==
    ASSUME NEW b \in Book, NEW p \in Parents, broker \in [Kids -> Order],
           Fits(b, broker), Balances(b, broker), Registered(b, p)
    PROVE  Cardinality(Units(p)) <= b.parent[p].target
<1> DEFINE r == b.parent[p]
           f == Fills(p, broker)
           g == [n \in Attempts |-> Taken(<<p, n>>)]
<1>1. /\ r \in ParentRec /\ f \in [Attempts -> Nat] /\ Balanced(r, f)
      /\ \A n \in Attempts : f[n] = broker[<<p, n>>].filled
  BY RecordTypes DEF Balances
<1>2. /\ r.target \in Int /\ r.cum \in Nat /\ r.qty \in Nat /\ r.filled \in Nat
      /\ Total(f) \in Nat
  BY <1>1, ParentTypes, SlotsFinite
<1>3. \A n \in Attempts : <<p, n>> \in Kids
  BY DEF Kids
<1>4. g \in [Attempts -> Nat]
  BY <1>3 DEF Taken, Order
<1>5. Cardinality(Units(p)) = Total(g)
  <2>1. \A n \in Attempts : g[n] = Taken(<<p, n>>)
    OBVIOUS
  <2>2. Slots(g) = Units(p)
    <3>. HIDE DEF g
    <3>. QED
      BY <2>1 DEF Slots, Units
  <2>. QED
    BY <2>2 DEF Total
<1>6. ASSUME NEW n \in Attempts
      PROVE  /\ ~(r.open /\ r.att = n) => g[n] = f[n]
             /\ r.open /\ r.att = n => g[n] \in {f[n], r.qty}
  <2>1. <<p, n>> \in Kids /\ <<p, n>>[1] = p /\ <<p, n>>[2] = n
    BY <1>3
  <2>2. broker[<<p, n>>].st = "live" =>
          r.open /\ r.att = n /\ broker[<<p, n>>].qty = r.qty
    BY <2>1 DEF Fits, IsOpen
  <2>3. g[n] = IF broker[<<p, n>>].st = "live" THEN broker[<<p, n>>].qty
                                               ELSE broker[<<p, n>>].filled
    BY <2>1 DEF Taken, BrokerOpen
  <2>. QED
    BY <1>1, <2>2, <2>3
<1>7. r.cum + (r.qty - r.filled) <= r.target
  BY <1>1 DEF Registered, Balanced
<1>. HIDE DEF f, g
<1>8. CASE r.open
  <2>1. /\ r.att \in Attempts /\ f[r.att] <= r.qty
        /\ Total(f) + r.filled = r.cum + f[r.att]
    BY <1>1, <1>8 DEF Balanced
  <2>2. Total(g) + f[r.att] = Total(f) + g[r.att]
    BY <1>1, <1>4, <1>6, <2>1, TotalBump
  <2>3. f[r.att] \in Nat /\ g[r.att] \in Nat /\ Total(g) \in Nat /\ g[r.att] <= r.qty
    BY <1>1, <1>2, <1>4, <1>6, <1>8, <2>1, SlotsFinite
  <2>4. Total(g) <= r.target
    BY <1>2, <1>7, <2>1, <2>2, <2>3
  <2>. QED
    BY <1>5, <2>4
<1>9. CASE ~r.open
  <2>1. g = f
    BY <1>1, <1>4, <1>6, <1>9
  <2>2. Total(f) = r.cum /\ r.qty = 0 /\ r.filled = 0
    BY <1>1, <1>2, <1>9 DEF Balanced
  <2>. QED
    BY <1>2, <1>5, <1>7, <2>1, <2>2
<1>. QED
  BY <1>8, <1>9

\* A broker that works only the open child of the book works at most one child
\* of a parent.
LEMMA OneLiveChild ==
    ASSUME NEW b, NEW p \in Parents, Fits(b, broker)
    PROVE  Cardinality({k \in BrokerOpen : k[1] = p}) <= 1
<1> DEFINE L == {k \in BrokerOpen : k[1] = p}
           S == {<<p, b.parent[p].att>>}
<1>1. ASSUME NEW k \in L
      PROVE  k \in S
  <2>1. k \in Kids /\ k[1] = p /\ k = <<k[1], k[2]>> /\ IsOpen(b, k)
    BY DEF BrokerOpen, Kids, Fits
  <2>. QED
    BY <2>1 DEF IsOpen
<1>2. L \in SUBSET S
  BY <1>1
<1>3. IsFiniteSet(S) /\ Cardinality(S) = 1
  BY FS_Singleton
<1>. HIDE DEF L, S
<1>4. Cardinality(L) <= 1
  BY <1>2, <1>3, FS_Subset
<1>. QED
  BY <1>4 DEF L

\* EconomicInvariantCorrect: without a crash or a lost answer the broker never
\* has two live orders of one parent, and never more filled and live than the
\* parent's target, whatever the market fills between a poll and a cancel,
\* however often the remainder is chased, and over an orderly end and the next
\* start (the section 7 economic invariant: _submit_parent_remainder sizes a
\* child to the remainder, _sync_open_children and _cancel_child book the fill
\* before they close the child).
THEOREM EconomicInvariantCorrect == Spec => []EconomicInvariant
<1>1. Init => PendingInv /\ WorkingInv /\ EconInv
  BY PendingInit, WorkingInit, EconInit
<1>2. IInv /\ PendingInv /\ WorkingInv /\ EconInv /\ [Next]_vars
        => (PendingInv /\ WorkingInv /\ EconInv)'
  BY PendingStep, WorkingStep, EconStep DEF IInv
<1>3. IInv /\ WorkingInv /\ EconInv => EconomicInvariant
  <2> SUFFICES ASSUME IInv, WorkingInv, EconInv,
                      faults = [crashes |-> 0, lost |-> 0], NEW p \in Parents
               PROVE  /\ Cardinality({k \in BrokerOpen : k[1] = p}) <= 1
                      /\ Registered(Held, p) =>
                           Cardinality(Units(p)) <= Held.parent[p].target
    BY DEF EconomicInvariant
  <2>1. /\ Held \in Book /\ broker \in [Kids -> Order]
        /\ Fits(Held, broker) /\ Balances(Held, broker)
    BY HeldType DEF IInv, TypeOK, WorkingInv, EconInv
  <2>. QED
    BY <2>1, OneLiveChild, TakenWithinTarget
<1>. QED
  BY <1>1, <1>2, <1>3, InvCorrect, PTL DEF Spec
=============================================================================
