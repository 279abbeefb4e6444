-------------------------- MODULE TradeLedgerProofs --------------------------
(***************************************************************************)
(* Proofs about TradeLedger, for any processes, operations, SKUs, orders   *)
(* and catalogues: what clients were told stays true, nothing is sold at a *)
(* stale quote, the committed tables implement AtomicLedger, and units of  *)
(* stock are neither lost nor made.                                        *)
(*                                                                         *)
(* LInv leaves the units of stock untyped: their first value is a sum over *)
(* the old orders, and only the last part needs that it is a number.       *)
(***************************************************************************)
EXTENDS TradeLedger, CollectionLemmas

\* t has the five tables and nothing else.
Fields(t) ==
  t \in [stock: {t.stock}, quote: {t.quote}, conf: {t.conf}, order: {t.order},
         operation: {t.operation}]

\* The tables' types, stock apart.
Shape(t) ==
  /\ Fields(t)
  /\ t.stock = [s \in Sku |-> t.stock[s]]
  /\ t.quote \in [Sku -> Price \cup {None}]
  /\ t.conf \in [Op -> Conf \cup {None}]
  /\ t.order \in [OrderId -> Order \cup {None}]
  /\ t.operation \in [Op -> {None, "approved", "rejected"}]

Is(t, op, st) == t.conf[op] # None /\ t.conf[op].status = st
\* Op has no confirmation in t, or one nobody resolved yet.
Undecided(t, op) == t.conf[op] = None \/ t.conf[op].status = "pending"

\* The operation table agrees with the confirmations, and a cancellation was asked of
\* an order that was confirmed.
Coherent(t) ==
  \A op \in Op :
    /\ t.operation[op] = IF Undecided(t, op) THEN None ELSE t.conf[op].status
    /\ t.conf[op] # None /\ t.conf[op].ask.action = "cancel" =>
         t.conf[op].snap \in Order /\ t.conf[op].snap.status = "CONFIRMED"

\* What one transaction may make of the tables t it began with.
Opened(t, u) ==
  /\ u.conf = t.conf /\ u.order = t.order /\ u.operation = t.operation
  /\ \A s \in Sku : \/ u.stock[s] = t.stock[s]
                    \/ /\ t.stock[s] = None /\ Occupied(t, s) <= Seed[s]
                       /\ u.stock[s] = Seed[s] - Occupied(t, s)

Proposed(t, u) ==
  \E op \in Op :
    /\ t.conf[op] = None /\ Is(u, op, "pending")
    /\ u.conf = [t.conf EXCEPT ![op] = u.conf[op]]
    /\ u.stock = t.stock /\ u.order = t.order /\ u.operation = t.operation

DecidedAs(t, u, op, decision) ==
  /\ Is(t, op, "pending") /\ Is(u, op, decision)
  /\ u.conf = [t.conf EXCEPT ![op] = u.conf[op]]

Rejected(t, u) ==
  \E op \in Op :
    /\ DecidedAs(t, u, op, "rejected")
    /\ u.stock = t.stock /\ u.order = t.order

\* What a decided confirmation did: the action it asked for, and its order.
Traded(u, op, a, o) == u.conf[op].ask.action = a /\ u.conf[op].result = o

Sold(t, u) ==
  \E op \in Op, o \in OrderId :
    /\ DecidedAs(t, u, op, "approved") /\ Traded(u, op, "create", o)
    /\ t.order[o] = None /\ u.order[o] \in Order /\ u.order[o].status = "CONFIRMED"
    /\ u.order = [t.order EXCEPT ![o] = u.order[o]]
    /\ \A s \in Lines(u.order[o].items) :
         Quoted(t, u.order[o].price, s) /\ t.stock[s] >= u.order[o].items[s]
    /\ u.stock = [s \in Sku |-> IF u.order[o].items[s] = 0 THEN t.stock[s]
                                ELSE t.stock[s] - u.order[o].items[s]]

Refunded(t, u) ==
  \E op \in Op, o \in OrderId :
    /\ DecidedAs(t, u, op, "approved") /\ Traded(u, op, "cancel", o)
    /\ t.order[o] \in Order /\ t.order[o].status = "CONFIRMED"
    /\ u.order = [t.order EXCEPT ![o].status = "CANCELLED"]
    /\ \A s \in Lines(t.order[o].items) : t.stock[s] # None
    /\ u.stock = [s \in Sku |-> IF t.order[o].items[s] = 0 THEN t.stock[s]
                                ELSE t.stock[s] + t.order[o].items[s]]

Published(t, u) ==
  Opened(t, u) \/ Proposed(t, u) \/ Rejected(t, u) \/ Sold(t, u) \/ Refunded(t, u)

\* A purchase whose stock loop has still to take the units of todo.
Taking(t, c, u, left) ==
  /\ c.ask.action = "create" /\ left \subseteq Lines(c.ask.items)
  /\ u.order = t.order
  /\ \A s \in Lines(c.ask.items) \ left :
       Quoted(t, c.ask.price, s) /\ t.stock[s] >= c.ask.items[s]
  /\ u.stock = [s \in Sku |-> IF s \in left \/ c.ask.items[s] = 0 THEN t.stock[s]
                              ELSE t.stock[s] - c.ask.items[s]]

\* A cancellation whose stock loop has still to return the units of todo.
Returning(t, c, u, left) ==
  /\ c.ask.action = "cancel" /\ left \subseteq Lines(c.snap.items)
  /\ t.order[c.ask.order] = c.snap
  /\ u.order = [t.order EXCEPT ![c.ask.order].status = "CANCELLED"]
  /\ \A s \in Lines(c.snap.items) \ left : t.stock[s] # None
  /\ u.stock = [s \in Sku |-> IF s \in left \/ c.snap.items[s] = 0 THEN t.stock[s]
                              ELSE t.stock[s] + c.snap.items[s]]

InTransaction(p) == pc[p] \in {"body", "items", "commit"}

\* A transaction holds the lock, and its copy is as far from the tables as its
\* statements have gone.
Transaction(p) ==
  /\ InTransaction(p) => lock = p /\ Shape(work[p])
  /\ pc[p] = "body" => work[p] = db
  /\ pc[p] = "items" =>
       /\ req[p].kind = "resolve" /\ req[p].decision = "approved"
       /\ Is(db, req[p].op, "pending")
       /\ work[p].conf = db.conf /\ work[p].quote = db.quote
       /\ work[p].operation = db.operation
       /\ \/ Taking(db, db.conf[req[p].op], work[p], todo[p])
          \/ Returning(db, db.conf[req[p].op], work[p], todo[p])
  /\ pc[p] = "commit" =>
       /\ Coherent(work[p]) /\ Published(db, work[p])
       /\ req[p].kind = "resolve" => ~Undecided(work[p], req[p].op)

Typed(p) ==
  /\ pc[p] \in {"down", "idle", "begin", "body", "items", "commit"}
  /\ pc[p] \notin {"down", "idle"} => req[p] \in Request
  /\ pc[p] # "down" => catalog[p] \in Quotes

\* Clients were told decisions that are still stored.
Told ==
  \A op \in Op : \A a \in replied[op] :
    ~Undecided(db, op) /\ a = <<db.conf[op].status, db.conf[op].result>>

Arrays ==
  /\ pc = [p \in Proc |-> pc[p]] /\ req = [p \in Proc |-> req[p]]
  /\ work = [p \in Proc |-> work[p]] /\ todo = [p \in Proc |-> todo[p]]
  /\ catalog = [p \in Proc |-> catalog[p]] /\ replied = [op \in Op |-> replied[op]]

LInv ==
  /\ Shape(db) /\ Coherent(db)
  /\ Told
  /\ Arrays
  /\ \A p \in Proc : Typed(p) /\ Transaction(p)
-----------------------------------------------------------------------------
\* Steps of one process that leave the tables alone leave the others' work alone.
LEMMA LocalStep ==
  ASSUME LInv, NEW p \in Proc, UNCHANGED <<db, replied>>, Arrays',
         lock' = lock \/ lock = p \/ lock = None,
         \A q \in Proc \ {p} : /\ pc'[q] = pc[q] /\ req'[q] = req[q] /\ work'[q] = work[q]
                               /\ todo'[q] = todo[q] /\ catalog'[q] = catalog[q],
         Typed(p)', Transaction(p)'
  PROVE  LInv'
<1>1. ASSUME NEW q \in Proc PROVE Typed(q)' /\ Transaction(q)'
  <2>1. CASE q = p
    BY <2>1
  <2>2. CASE q # p
    <3>1. Typed(q) /\ Transaction(q)
      BY DEF LInv
    <3>2. lock' = lock \/ ~InTransaction(q)
      BY <2>2, <3>1, LedgerAssumption DEF Transaction
    <3>3. Typed(q)'
      BY <2>2, <3>1 DEF Typed
    <3>4. QED BY <2>2, <3>1, <3>2, <3>3 DEF Transaction, InTransaction
  <2>3. QED BY <2>1, <2>2
<1>2. QED BY <1>1 DEF LInv, Told

\* The statement that ends a transaction's body.
LEMMA LastStatement ==
  ASSUME LInv, NEW p \in Proc, NEW t, InTransaction(p), Write(p, t, "commit", {}),
         Shape(t), Coherent(t), Published(db, t),
         req[p].kind = "resolve" => ~Undecided(t, req[p].op)
  PROVE  LInv'
<1>1. /\ UNCHANGED <<db, replied, lock>> /\ pc'[p] = "commit" /\ work'[p] = t
      /\ req' = req /\ catalog' = catalog
  BY DEF Write, LInv, Arrays
<1>2. Arrays' /\ \A q \in Proc \ {p} : /\ pc'[q] = pc[q] /\ work'[q] = work[q] /\ todo'[q] = todo[q]
  BY DEF Write, LInv, Arrays
<1>3. Typed(p)' /\ Transaction(p)'
  BY <1>1 DEF LInv, Typed, Transaction, InTransaction
<1>4. QED BY <1>1, <1>2, <1>3, LocalStep

\* A statement after which the stock loop goes on.
LEMMA LoopStatement ==
  ASSUME LInv, NEW p \in Proc, NEW t, NEW left, InTransaction(p), Write(p, t, "items", left),
         req[p].kind = "resolve", req[p].decision = "approved", Is(db, req[p].op, "pending"),
         Shape(t), t.conf = db.conf, t.quote = db.quote, t.operation = db.operation,
         \/ Taking(db, db.conf[req[p].op], t, left)
         \/ Returning(db, db.conf[req[p].op], t, left)
  PROVE  LInv'
<1>1. /\ UNCHANGED <<db, replied, lock>> /\ pc'[p] = "items" /\ work'[p] = t /\ todo'[p] = left
      /\ req' = req /\ catalog' = catalog
  BY DEF Write, LInv, Arrays
<1>2. Arrays' /\ \A q \in Proc \ {p} : /\ pc'[q] = pc[q] /\ work'[q] = work[q] /\ todo'[q] = todo[q]
  BY DEF Write, LInv, Arrays
<1>3. Typed(p)' /\ Transaction(p)'
  BY <1>1 DEF LInv, Typed, Transaction, InTransaction
<1>4. QED BY <1>1, <1>2, <1>3, LocalStep

\* Replacing the orders leaves the other tables.
LEMMA SetOrder ==
  ASSUME NEW t, Fields(t), NEW x,
         NEW u, u = [t EXCEPT !.order = x]
  PROVE  /\ Fields(u) /\ u.stock = t.stock /\ u.quote = t.quote
         /\ u.conf = t.conf /\ u.order = x /\ u.operation = t.operation
  BY DEF Fields

\* Deciding a pending row changes that row and its operation row, and both agree again.
LEMMA DecidedRow ==
  ASSUME NEW t, Shape(t), Coherent(t), NEW op \in Op, Is(t, op, "pending"),
         NEW decision \in {"approved", "rejected"}, NEW result \in OrderId \cup {None},
         NEW u, u = Decided(t, op, decision, result)
  PROVE  /\ Shape(u) /\ Coherent(u) /\ DecidedAs(t, u, op, decision)
         /\ u.stock = t.stock /\ u.quote = t.quote /\ u.order = t.order
         /\ u.conf[op].ask = t.conf[op].ask /\ u.conf[op].result = result
<1>1. t.conf[op] \in Conf /\ t.conf[op] # None
  BY DEF Shape, Is
<1>2. [t.conf[op] EXCEPT !.status = decision, !.result = result] \in Conf
  BY <1>1 DEF Conf
<1>3. /\ u.stock = t.stock /\ u.quote = t.quote /\ u.order = t.order
      /\ u.conf = [t.conf EXCEPT ![op] = [t.conf[op] EXCEPT !.status = decision, !.result = result]]
      /\ u.operation = [t.operation EXCEPT ![op] = decision]
      /\ Fields(u)
  BY <1>1 DEF Decided, Shape, Conf, Fields
<1>4. u.conf[op] = [t.conf[op] EXCEPT !.status = decision, !.result = result]
  BY <1>3 DEF Shape
<1>5. u.conf[op] # None
  BY <1>2, <1>4, LedgerAssumption
<1>6. Shape(u) /\ DecidedAs(t, u, op, decision)
  BY <1>1, <1>2, <1>3, <1>4, <1>5 DEF Shape, Is, Conf, DecidedAs
<1>7. u.conf[op].ask = t.conf[op].ask /\ u.conf[op].snap = t.conf[op].snap
  BY <1>1, <1>4 DEF Conf
<1>8. ASSUME NEW x \in Op
      PROVE  /\ u.operation[x] = IF Undecided(u, x) THEN None ELSE u.conf[x].status
             /\ u.conf[x] # None /\ u.conf[x].ask.action = "cancel" =>
                  u.conf[x].snap \in Order /\ u.conf[x].snap.status = "CONFIRMED"
  <2>1. CASE x = op
    BY <1>1, <1>3, <1>6, <1>7, <2>1 DEF Shape, Coherent, Is, Undecided, DecidedAs
  <2>2. CASE x # op
    BY <1>3, <2>2 DEF Shape, Coherent, Undecided
  <2>3. QED BY <2>1, <2>2
<1>9. Coherent(u)
  BY <1>8 DEF Coherent
<1>10. u.conf[op].result = result
  BY <1>1, <1>4 DEF Conf
<1>11. QED BY <1>3, <1>6, <1>7, <1>9, <1>10
-----------------------------------------------------------------------------
\* initialize_inventory creates missing rows and touches neither orders nor decisions.
LEMMA InitStep == ASSUME LInv, NEW p \in Proc, InitBody(p) PROVE LInv'
<1> DEFINE left == [s \in Sku |-> IF db.stock[s] = None
                                  THEN Seed[s] - Occupied(db, s) ELSE db.stock[s]]
           u == [db EXCEPT !.stock = left, !.quote = catalog[p]]
<1>1. work[p] = db /\ InTransaction(p) /\ Shape(db) /\ Coherent(db) /\ catalog[p] \in Quotes
  BY DEF InitBody, LInv, Transaction, InTransaction, Typed
<1>2. Write(p, u, "commit", {}) /\ req[p].kind # "resolve"
  BY <1>1 DEF InitBody
<1>3. /\ left = [s \in Sku |-> left[s]]
      /\ \A s \in Sku : \/ left[s] = db.stock[s]
                        \/ /\ db.stock[s] = None /\ Occupied(db, s) <= Seed[s]
                           /\ left[s] = Seed[s] - Occupied(db, s)
  BY <1>1 DEF InitBody
<1> HIDE DEF left
<1>4. /\ u.conf = db.conf /\ u.order = db.order /\ u.operation = db.operation
      /\ u.quote = catalog[p] /\ u.stock = left /\ Fields(u)
  <2>1. Fields(db)
    BY <1>1 DEF Shape
  <2>2. QED BY <2>1 DEF Fields
<1> HIDE DEF u
<1>5. Shape(u) /\ Opened(db, u)
  BY <1>1, <1>3, <1>4 DEF Shape, Quotes, Opened
<1>6. Coherent(u)
  BY <1>1, <1>4 DEF Coherent, Undecided
<1>7. QED BY <1>1, <1>2, <1>5, <1>6, LastStatement DEF Published

\* A new confirmation is pending, and a cancellation's snapshot is a confirmed order.
LEMMA PrepareStep == ASSUME LInv, NEW p \in Proc, PrepareBody(p) PROVE LInv'
<1> DEFINE r == req[p]
           c == [owner |-> r.owner, ask |-> r.ask, status |-> "pending", result |-> None,
                 snap |-> IF r.ask.action = "cancel" THEN work[p].order[r.ask.order] ELSE None]
           u == [work[p] EXCEPT !.conf[r.op] = c]
<1>1. work[p] = db /\ InTransaction(p) /\ Shape(db) /\ Coherent(db) /\ r \in Request
  BY DEF PrepareBody, LInv, Transaction, InTransaction, Typed
<1>2. /\ Write(p, u, "commit", {}) /\ r.kind = "prepare" /\ db.conf[r.op] = None
      /\ r.ask.action = "cancel" =>
           Owns(db, r.ask.order, r.owner[1]) /\ db.order[r.ask.order].status = "CONFIRMED"
  BY <1>1 DEF PrepareBody
<1>3. r.op \in Op /\ r.owner \in Owner /\ r.ask \in Ask
  BY <1>1, <1>2 DEF Request
<1>4. /\ c \in Conf /\ c # None
      /\ r.ask.action = "cancel" => c.snap \in Order /\ c.snap.status = "CONFIRMED"
  <2>1. r.ask.action = "cancel" => r.ask.order \in OrderId
    BY <1>3 DEF Ask
  <2>2. r.ask.action = "cancel" => db.order[r.ask.order] \in Order
    BY <1>1, <1>2, <2>1 DEF Shape, Owns
  <2>3. c \in Conf
    BY <1>1, <1>3, <2>2 DEF Conf
  <2>4. QED BY <1>1, <1>2, <2>2, <2>3, LedgerAssumption
<1>5. c.status = "pending" /\ c.ask = r.ask
  OBVIOUS
<1> HIDE DEF c
<1>6. /\ u.conf = [db.conf EXCEPT ![r.op] = c] /\ u.order = db.order
      /\ u.operation = db.operation /\ u.stock = db.stock /\ u.quote = db.quote
      /\ Fields(u)
  BY <1>1 DEF Shape, Fields
<1> HIDE DEF u, r
<1>7. u.conf[r.op] = c /\ Shape(u)
  BY <1>1, <1>3, <1>4, <1>6 DEF Shape
<1>8. Proposed(db, u)
  BY <1>2, <1>3, <1>4, <1>5, <1>6, <1>7 DEF Proposed, Is
<1>9. ASSUME NEW x \in Op
      PROVE  /\ u.operation[x] = IF Undecided(u, x) THEN None ELSE u.conf[x].status
             /\ u.conf[x] # None /\ u.conf[x].ask.action = "cancel" =>
                  u.conf[x].snap \in Order /\ u.conf[x].snap.status = "CONFIRMED"
  <2>1. CASE x = r.op
    BY <1>1, <1>2, <1>4, <1>5, <1>6, <1>7, <2>1 DEF Coherent, Undecided
  <2>2. CASE x # r.op
    BY <1>1, <1>6, <2>2 DEF Coherent, Undecided, Shape
  <2>3. QED BY <2>1, <2>2
<1>10. Coherent(u)
  BY <1>9 DEF Coherent
<1>11. QED BY <1>1, <1>2, <1>7, <1>8, <1>10, LastStatement DEF Published, r

\* Answering a repeated request writes nothing.
LEMMA AgainStep == ASSUME LInv, NEW p \in Proc, PrepareAgain(p) \/ ResolveAgain(p) PROVE LInv'
<1>1. /\ pc[p] = "body" /\ Write(p, work[p], "commit", {})
      /\ work[p] = db /\ InTransaction(p) /\ Shape(db) /\ Coherent(db) /\ req[p] \in Request
  BY DEF PrepareAgain, ResolveAgain, Presented, LInv, Transaction, InTransaction, Typed
<1>2. Opened(db, db)
  BY DEF Opened
<1>3. req[p].kind = "resolve" => ~Undecided(db, req[p].op)
  BY <1>1 DEF PrepareAgain, ResolveAgain, Presented, Undecided, Request
<1>4. QED BY <1>1, <1>2, <1>3, LastStatement DEF Published

\* What resolve_confirmation has established once it found its row pending.
LEMMA PendingRow ==
  ASSUME LInv, NEW p \in Proc, Pending(p)
  PROVE  /\ work[p] = db /\ InTransaction(p) /\ Shape(db) /\ Coherent(db)
         /\ req[p].kind = "resolve" /\ req[p].op \in Op
         /\ req[p].decision \in {"approved", "rejected"}
         /\ Is(db, req[p].op, "pending") /\ db.conf[req[p].op] \in Conf
<1>1. work[p] = db /\ InTransaction(p) /\ Shape(db) /\ Coherent(db) /\ req[p] \in Request
  BY DEF Pending, Presented, LInv, Transaction, InTransaction, Typed
<1>2. req[p].kind = "resolve" /\ Is(db, req[p].op, "pending")
  BY <1>1 DEF Pending, Presented, Is
<1>3. req[p].op \in Op /\ req[p].decision \in {"approved", "rejected"}
  BY <1>1, <1>2 DEF Request
<1>4. QED BY <1>1, <1>2, <1>3 DEF Is, Shape

\* A rejection decides one row and moves no stock.
LEMMA RejectStep == ASSUME LInv, NEW p \in Proc, ResolveReject(p) PROVE LInv'
<1> DEFINE op == req[p].op
           u == Decided(db, op, "rejected", None)
<1>1. Pending(p)
  BY DEF ResolveReject
<1>2. /\ work[p] = db /\ InTransaction(p) /\ Shape(db) /\ Coherent(db) /\ op \in Op
      /\ Is(db, op, "pending") /\ db.conf[op] # None
  BY <1>1, PendingRow DEF Is
<1>3. Write(p, u, "commit", {}) /\ u = Decided(db, op, "rejected", None)
  BY <1>2 DEF ResolveReject
<1> HIDE DEF u
<1>4. /\ Shape(u) /\ Coherent(u) /\ DecidedAs(db, u, op, "rejected")
      /\ u.stock = db.stock /\ u.order = db.order
  <2>1. "rejected" \in {"approved", "rejected"} /\ None \in OrderId \cup {None}
    OBVIOUS
  <2>2. QED BY <1>2, <1>3, <2>1, DecidedRow
<1>5. Rejected(db, u) /\ ~Undecided(u, op)
  BY <1>2, <1>4 DEF Rejected, DecidedAs, Is, Undecided
<1>6. QED BY <1>2, <1>3, <1>4, <1>5, LastStatement DEF Published

\* An approval enters its stock loop, a cancellation with the order already closed.
LEMMA ApproveStep == ASSUME LInv, NEW p \in Proc, ResolveApprove(p) PROVE LInv'
<1> DEFINE op == req[p].op
           c == db.conf[op]
           orders == [db.order EXCEPT ![c.ask.order].status = "CANCELLED"]
           u == [db EXCEPT !.order = orders]
<1>1. Pending(p) /\ req[p].decision = "approved"
  BY DEF ResolveApprove
<1>2. /\ work[p] = db /\ InTransaction(p) /\ Shape(db) /\ Coherent(db) /\ op \in Op
      /\ req[p].kind = "resolve" /\ Is(db, op, "pending") /\ c \in Conf /\ c # None
  BY <1>1, PendingRow DEF Is
<1>3. CASE c.ask.action = "create" /\ Write(p, db, "items", Lines(c.ask.items))
  <2>1. \A s \in Sku : s \in Lines(c.ask.items) \/ c.ask.items[s] = 0
    BY DEF Lines
  <2>2. Taking(db, c, db, Lines(c.ask.items))
    BY <1>2, <1>3, <2>1 DEF Taking, Shape
  <2>3. QED BY <1>1, <1>2, <1>3, <2>2, LoopStatement
<1>4. CASE /\ c.ask.action = "cancel" /\ db.order[c.ask.order] = c.snap
           /\ Write(p, u, "items", Lines(c.snap.items))
  <2>1. c.ask.order \in OrderId /\ c.snap \in Order
    BY <1>2, <1>4 DEF Conf, Ask, Coherent
  <2>2. orders \in [OrderId -> Order \cup {None}]
    <3>1. [db.order[c.ask.order] EXCEPT !.status = "CANCELLED"] \in Order
      BY <1>4, <2>1 DEF Order
    <3>2. QED BY <1>2, <3>1 DEF Shape
  <2> HIDE DEF orders
  <2>3. /\ u.order = orders
        /\ u.stock = db.stock /\ u.conf = db.conf /\ u.quote = db.quote
        /\ u.operation = db.operation
        /\ Fields(u)
    BY <1>2, SetOrder DEF Shape
  <2> HIDE DEF u
  <2>4. Shape(u)
    BY <1>2, <2>2, <2>3 DEF Shape
  <2>5. \A s \in Sku : s \in Lines(c.snap.items) \/ c.snap.items[s] = 0
    BY DEF Lines
  <2>6. Returning(db, c, u, Lines(c.snap.items))
    <3>1. u.order = [db.order EXCEPT ![c.ask.order].status = "CANCELLED"]
      BY <2>3 DEF orders
    <3>2. u.stock = [s \in Sku |-> IF s \in Lines(c.snap.items) \/ c.snap.items[s] = 0 THEN db.stock[s]
                                   ELSE db.stock[s] + c.snap.items[s]]
      <4>1. db.stock = [s \in Sku |-> db.stock[s]]
        BY <1>2 DEF Shape
      <4>2. QED BY <2>3, <2>5, <4>1
    <3>3. QED BY <1>4, <3>1, <3>2 DEF Returning
  <2>7. QED BY <1>1, <1>2, <1>4, <2>3, <2>4, <2>6, LoopStatement
<1>5. QED BY <1>1, <1>2, <1>3, <1>4 DEF ResolveApprove

\* What holds between two updates of a stock loop.
LEMMA LoopState ==
  ASSUME LInv, NEW p \in Proc, pc[p] = "items"
  PROVE  /\ InTransaction(p) /\ Shape(db) /\ Coherent(db) /\ Shape(work[p])
         /\ req[p] \in Request /\ req[p].op \in Op /\ req[p].owner \in Owner
         /\ req[p].kind = "resolve" /\ req[p].decision = "approved"
         /\ Is(db, req[p].op, "pending") /\ db.conf[req[p].op] \in Conf
         /\ work[p].conf = db.conf /\ work[p].quote = db.quote
         /\ work[p].operation = db.operation
         /\ \/ Taking(db, db.conf[req[p].op], work[p], todo[p])
            \/ Returning(db, db.conf[req[p].op], work[p], todo[p])
<1>1. /\ InTransaction(p) /\ Shape(db) /\ Coherent(db) /\ Shape(work[p])
      /\ req[p] \in Request /\ req[p].kind = "resolve" /\ req[p].decision = "approved"
      /\ Is(db, req[p].op, "pending")
      /\ work[p].conf = db.conf /\ work[p].quote = db.quote
      /\ work[p].operation = db.operation
      /\ \/ Taking(db, db.conf[req[p].op], work[p], todo[p])
         \/ Returning(db, db.conf[req[p].op], work[p], todo[p])
  BY DEF LInv, Transaction, InTransaction, Typed
<1>2. req[p].op \in Op /\ req[p].owner \in Owner
  BY <1>1 DEF Request
<1>3. QED BY <1>1, <1>2 DEF Is, Shape

\* One more line of a purchase is taken at its quote.
LEMMA TakeStep == ASSUME LInv, NEW p \in Proc, NEW s \in Sku, TakeItem(p, s) PROVE LInv'
<1> DEFINE t == work[p]
           c == db.conf[req[p].op]
           left == todo[p]
           stock == [t.stock EXCEPT ![s] = @ - c.ask.items[s]]
           u == [t EXCEPT !.stock = stock]
<1>1. pc[p] = "items"
  BY DEF TakeItem
<1>2. /\ InTransaction(p) /\ Shape(db) /\ Shape(t)
      /\ req[p].kind = "resolve" /\ req[p].decision = "approved" /\ Is(db, req[p].op, "pending")
      /\ t.conf = db.conf /\ t.quote = db.quote /\ t.operation = db.operation
      /\ Taking(db, c, t, left) \/ Returning(db, c, t, left)
  BY <1>1, LoopState
<1>3. /\ s \in left /\ c.ask.action = "create" /\ Quoted(t, c.ask.price, s)
      /\ t.stock[s] >= c.ask.items[s] /\ Write(p, u, "items", left \ {s})
  BY <1>2 DEF TakeItem
<1>4. Taking(db, c, t, left)
  BY <1>2, <1>3 DEF Returning
<1>5. /\ u.stock = stock /\ u.conf = t.conf /\ u.order = t.order /\ u.quote = t.quote
      /\ u.operation = t.operation /\ Fields(u)
  <2>1. Fields(t)
    BY <1>2 DEF Shape
  <2>2. QED BY <2>1 DEF Fields
<1> HIDE DEF u
<1>6. Shape(u)
  BY <1>2, <1>5 DEF Shape
<1>7. t.stock[s] = db.stock[s] /\ Quoted(db, c.ask.price, s)
  BY <1>2, <1>3, <1>4 DEF Taking, Quoted
<1>8. Taking(db, c, u, left \ {s})
  <2> HIDE DEF c, left
  <2>1. left \subseteq Lines(c.ask.items) /\ s \in Lines(c.ask.items) /\ c.ask.items[s] # 0
    BY <1>3, <1>4 DEF Taking, Lines
  <2>2. t.stock = [x \in Sku |-> IF x \in left \/ c.ask.items[x] = 0 THEN db.stock[x]
                                 ELSE db.stock[x] - c.ask.items[x]]
    BY <1>4 DEF Taking
  <2>3. u.stock = [x \in Sku |-> IF x \in left \ {s} \/ c.ask.items[x] = 0 THEN db.stock[x]
                                 ELSE db.stock[x] - c.ask.items[x]]
    BY <1>5, <1>7, <2>1, <2>2
  <2>4. \A x \in Lines(c.ask.items) \ (left \ {s}) :
          Quoted(db, c.ask.price, x) /\ db.stock[x] >= c.ask.items[x]
    BY <1>3, <1>4, <1>7 DEF Taking
  <2>5. u.order = db.order
    BY <1>4, <1>5 DEF Taking
  <2>6. QED BY <1>3, <2>1, <2>3, <2>4, <2>5 DEF Taking
<1>9. QED BY <1>2, <1>3, <1>5, <1>6, <1>8, LoopStatement

\* One more line of a cancelled order is returned.
LEMMA ReturnStep == ASSUME LInv, NEW p \in Proc, NEW s \in Sku, ReturnItem(p, s) PROVE LInv'
<1> DEFINE t == work[p]
           c == db.conf[req[p].op]
           left == todo[p]
           stock == [t.stock EXCEPT ![s] = @ + c.snap.items[s]]
           u == [t EXCEPT !.stock = stock]
<1>1. pc[p] = "items"
  BY DEF ReturnItem
<1>2. /\ InTransaction(p) /\ Shape(db) /\ Shape(t)
      /\ req[p].kind = "resolve" /\ req[p].decision = "approved" /\ Is(db, req[p].op, "pending")
      /\ t.conf = db.conf /\ t.quote = db.quote /\ t.operation = db.operation
      /\ Taking(db, c, t, left) \/ Returning(db, c, t, left)
  BY <1>1, LoopState
<1>3. /\ s \in left /\ c.ask.action = "cancel" /\ t.stock[s] # None
      /\ Write(p, u, "items", left \ {s})
  BY <1>2 DEF ReturnItem
<1>4. Returning(db, c, t, left)
  BY <1>2, <1>3 DEF Taking
<1>5. /\ u.stock = stock /\ u.conf = t.conf /\ u.order = t.order /\ u.quote = t.quote
      /\ u.operation = t.operation /\ Fields(u)
  <2>1. Fields(t)
    BY <1>2 DEF Shape
  <2>2. QED BY <2>1 DEF Fields
<1> HIDE DEF u
<1>6. Shape(u)
  BY <1>2, <1>5 DEF Shape
<1>7. t.stock[s] = db.stock[s]
  BY <1>4, <1>3 DEF Returning
<1>8. Returning(db, c, u, left \ {s})
  <2> HIDE DEF c, left
  <2>1. left \subseteq Lines(c.snap.items) /\ s \in Lines(c.snap.items) /\ c.snap.items[s] # 0
    BY <1>3, <1>4 DEF Returning, Lines
  <2>2. t.stock = [x \in Sku |-> IF x \in left \/ c.snap.items[x] = 0 THEN db.stock[x]
                                 ELSE db.stock[x] + c.snap.items[x]]
    BY <1>4 DEF Returning
  <2>3. u.stock = [x \in Sku |-> IF x \in left \ {s} \/ c.snap.items[x] = 0 THEN db.stock[x]
                                 ELSE db.stock[x] + c.snap.items[x]]
    BY <1>5, <1>7, <2>1, <2>2
  <2>4. \A x \in Lines(c.snap.items) \ (left \ {s}) : db.stock[x] # None
    BY <1>3, <1>4, <1>7 DEF Returning
  <2>5. /\ db.order[c.ask.order] = c.snap
        /\ u.order = [db.order EXCEPT ![c.ask.order].status = "CANCELLED"]
    BY <1>4, <1>5 DEF Returning
  <2>6. QED BY <1>3, <2>1, <2>3, <2>4, <2>5 DEF Returning
<1>9. QED BY <1>2, <1>3, <1>5, <1>6, <1>8, LoopStatement

\* After the last line a purchase writes its order and decides its row: a sale.
LEMMA CreateStep == ASSUME LInv, NEW p \in Proc, NEW o \in OrderId, FinishCreate(p, o) PROVE LInv'
<1> DEFINE t == work[p]
           op == req[p].op
           c == db.conf[op]
           row == [buyer |-> req[p].owner[1], items |-> c.ask.items,
                   price |-> c.ask.price, status |-> "CONFIRMED"]
           d == Decided(t, op, "approved", o)
           u == [d EXCEPT !.order[o] = row]
<1>1. pc[p] = "items"
  BY DEF FinishCreate
<1>2. /\ InTransaction(p) /\ Shape(db) /\ Coherent(db) /\ Shape(t) /\ op \in Op
      /\ req[p].owner \in Owner /\ Is(db, op, "pending") /\ c \in Conf
      /\ t.conf = db.conf /\ t.quote = db.quote /\ t.operation = db.operation
      /\ Taking(db, c, t, todo[p]) \/ Returning(db, c, t, todo[p])
  BY <1>1, LoopState
<1>3. /\ todo[p] = {} /\ c.ask.action = "create" /\ t.order[o] = None
      /\ Write(p, u, "commit", {})
  BY <1>2 DEF FinishCreate
<1>4. Taking(db, c, t, {})
  BY <1>2, <1>3 DEF Returning
<1>5. row \in Order /\ row # None
  <2>1. c.ask.items \in Items /\ c.ask.price \in Quotes
    BY <1>2, <1>3 DEF Conf, Ask
  <2>2. row \in Order
    BY <1>2, <2>1 DEF Order, Owner
  <2>3. QED BY <2>2, LedgerAssumption
<1>6. Coherent(t) /\ Is(t, op, "pending")
  BY <1>2 DEF Coherent, Is, Undecided
<1>7. d = Decided(t, op, "approved", o) /\ "approved" \in {"approved", "rejected"}
  OBVIOUS
<1> HIDE DEF d
<1>8. /\ Shape(d) /\ Coherent(d) /\ DecidedAs(t, d, op, "approved")
      /\ d.stock = t.stock /\ d.order = t.order
      /\ d.conf[op].ask = t.conf[op].ask /\ d.conf[op].result = o
  BY <1>2, <1>6, <1>7, DecidedRow
<1>9. /\ u.order = [d.order EXCEPT ![o] = row] /\ u.stock = d.stock /\ u.conf = d.conf
      /\ u.quote = d.quote /\ u.operation = d.operation /\ Fields(u)
  <2> HIDE DEF row
  <2>1. Fields(d)
    BY <1>8 DEF Shape
  <2>2. QED BY <2>1 DEF Fields
<1> HIDE DEF u
<1>10. Shape(u) /\ Coherent(u) /\ u.order[o] = row
  <2> HIDE DEF row
  <2>1. Shape(u) /\ u.order[o] = row
    BY <1>5, <1>8, <1>9 DEF Shape
  <2>2. QED BY <1>8, <1>9, <2>1 DEF Coherent, Undecided
<1>11. Sold(db, u)
  <2>1. DecidedAs(db, u, op, "approved") /\ Traded(u, op, "create", o)
    BY <1>2, <1>3, <1>8, <1>9 DEF DecidedAs, Is, Traded
  <2>2. db.order[o] = None /\ u.order = [db.order EXCEPT ![o] = row] /\ u.stock = t.stock
    BY <1>3, <1>4, <1>8, <1>9 DEF Taking
  <2>3. row.items = c.ask.items /\ row.price = c.ask.price /\ row.status = "CONFIRMED"
    OBVIOUS
  <2> HIDE DEF row
  <2>4. \A s \in Lines(row.items) : Quoted(db, row.price, s) /\ db.stock[s] >= row.items[s]
    BY <1>4, <2>3 DEF Taking
  <2>5. u.stock = [s \in Sku |-> IF row.items[s] = 0 THEN db.stock[s]
                                 ELSE db.stock[s] - row.items[s]]
    BY <1>4, <2>2, <2>3 DEF Taking
  <2>6. /\ u.order[o] \in Order /\ u.order[o].status = "CONFIRMED"
        /\ u.order = [db.order EXCEPT ![o] = u.order[o]]
    BY <1>5, <1>10, <2>2, <2>3
  <2>7. /\ \A s \in Lines(u.order[o].items) :
             Quoted(db, u.order[o].price, s) /\ db.stock[s] >= u.order[o].items[s]
        /\ u.stock = [s \in Sku |-> IF u.order[o].items[s] = 0 THEN db.stock[s]
                                    ELSE db.stock[s] - u.order[o].items[s]]
    <3>1. u.order[o] = row
      BY <1>10
    <3>2. QED BY ONLY <2>4, <2>5, <3>1
  <2> HIDE DEF op
  <2>8. QED BY <1>2, <2>1, <2>2, <2>6, <2>7 DEF Sold
<1>12. ~Undecided(u, op)
  BY <1>8, <1>9 DEF DecidedAs, Is, Undecided
<1>13. QED BY <1>2, <1>3, <1>10, <1>11, <1>12, LastStatement DEF Published

\* After the last line a cancellation decides its row: a refund.
LEMMA CancelStep == ASSUME LInv, NEW p \in Proc, FinishCancel(p) PROVE LInv'
<1> DEFINE t == work[p]
           op == req[p].op
           c == db.conf[op]
           o == c.ask.order
           u == Decided(t, op, "approved", o)
<1>1. pc[p] = "items"
  BY DEF FinishCancel
<1>2. /\ InTransaction(p) /\ Shape(db) /\ Coherent(db) /\ Shape(t) /\ op \in Op
      /\ Is(db, op, "pending") /\ c \in Conf
      /\ t.conf = db.conf /\ t.quote = db.quote /\ t.operation = db.operation
      /\ Taking(db, c, t, todo[p]) \/ Returning(db, c, t, todo[p])
  BY <1>1, LoopState
<1>3. todo[p] = {} /\ c.ask.action = "cancel" /\ Write(p, u, "commit", {})
  BY <1>2 DEF FinishCancel
<1>4. Returning(db, c, t, {})
  BY <1>2, <1>3 DEF Taking
<1>5. o \in OrderId /\ c.snap \in Order /\ c.snap.status = "CONFIRMED"
  BY <1>2, <1>3 DEF Conf, Ask, Coherent, Is
<1>6. Coherent(t) /\ Is(t, op, "pending")
  BY <1>2 DEF Coherent, Is, Undecided
<1>7. u = Decided(t, op, "approved", o) /\ "approved" \in {"approved", "rejected"}
  OBVIOUS
<1> HIDE DEF u
<1>8. /\ Shape(u) /\ Coherent(u) /\ DecidedAs(t, u, op, "approved")
      /\ u.stock = t.stock /\ u.order = t.order
      /\ u.conf[op].ask = t.conf[op].ask /\ u.conf[op].result = o
  <2> HIDE DEF o
  <2>1. o \in OrderId \cup {None}
    BY <1>5
  <2>2. QED BY <1>2, <1>6, <1>7, <2>1, DecidedRow
<1>9. DecidedAs(db, u, op, "approved") /\ ~Undecided(u, op) /\ Traded(u, op, "cancel", o)
  BY <1>2, <1>3, <1>8 DEF DecidedAs, Is, Undecided, Traded
<1>10. Refunded(db, u)
  <2>1. /\ db.order[o] = c.snap /\ u.order = [db.order EXCEPT ![o].status = "CANCELLED"]
        /\ \A s \in Lines(c.snap.items) : db.stock[s] # None
        /\ u.stock = [s \in Sku |-> IF c.snap.items[s] = 0 THEN db.stock[s]
                                    ELSE db.stock[s] + c.snap.items[s]]
    BY <1>4, <1>8 DEF Returning
  <2> HIDE DEF op, c, o
  <2>2. /\ db.order[o] \in Order /\ db.order[o].status = "CONFIRMED"
        /\ \A s \in Lines(db.order[o].items) : db.stock[s] # None
        /\ u.stock = [s \in Sku |-> IF db.order[o].items[s] = 0 THEN db.stock[s]
                                    ELSE db.stock[s] + db.order[o].items[s]]
    BY <1>5, <2>1
  <2>3. QED BY <1>2, <1>5, <1>9, <2>1, <2>2 DEF Refunded
<1>11. QED BY <1>2, <1>3, <1>8, <1>9, <1>10, LastStatement DEF Published

\* Every statement of a transaction keeps the invariant.
LEMMA StatementStep == ASSUME LInv, NEW p \in Proc, Statement(p) PROVE LInv'
  BY InitStep, PrepareStep, AgainStep, RejectStep, ApproveStep, TakeStep, ReturnStep,
     CreateStep, CancelStep DEF Statement
-----------------------------------------------------------------------------
\* A process takes up a request: nothing but its own control state changes.
LEMMA AcceptStep ==
  ASSUME LInv, NEW p \in Proc, NEW r \in Request, pc[p] \in {"down", "idle"}, Accept(p, r),
         catalog' = [catalog EXCEPT ![p] = catalog'[p]], catalog'[p] \in Quotes
  PROVE  LInv'
<1>1. /\ UNCHANGED <<db, replied, lock>> /\ Arrays' /\ pc'[p] = "begin" /\ req'[p] = r
      /\ \A q \in Proc \ {p} : /\ pc'[q] = pc[q] /\ req'[q] = req[q] /\ work'[q] = work[q]
                               /\ todo'[q] = todo[q] /\ catalog'[q] = catalog[q]
  BY DEF Accept, LInv, Arrays
<1>2. Typed(p)' /\ Transaction(p)'
  BY <1>1 DEF Typed, Transaction, InTransaction
<1>3. QED BY <1>1, <1>2, LocalStep

\* Starting a process and asking for something keep the invariant.
LEMMA ClientStep == ASSUME LInv, NEW p \in Proc, Client(p) PROVE LInv'
<1>1. ASSUME NEW prices \in Catalogs, Start(p, prices) PROVE LInv'
  <2>1. [kind |-> "init"] \in Request /\ prices \in Quotes
    BY LedgerAssumption DEF Request
  <2>2. catalog'[p] = prices
    BY <1>1 DEF Start, LInv, Arrays
  <2>3. /\ pc[p] \in {"down", "idle"} /\ Accept(p, [kind |-> "init"])
        /\ catalog' = [catalog EXCEPT ![p] = catalog'[p]]
    BY <1>1, <2>2 DEF Start
  <2>4. QED BY <2>1, <2>2, <2>3, AcceptStep
<1> SUFFICES ASSUME NEW op \in Op, NEW owner \in Owner,
                    \/ \E items \in Baskets : PrepareOrder(p, op, owner, items)
                    \/ \E o \in OrderId : PrepareCancel(p, op, owner, o)
                    \/ \E decision \in {"approved", "rejected"} : Resolve(p, op, owner, decision)
             PROVE  LInv'
  BY <1>1 DEF Client
<1>2. pc[p] = "idle" /\ catalog' = catalog
  BY DEF PrepareOrder, PrepareCancel, Resolve
<1>3. catalog[p] \in Quotes /\ catalog' = [catalog EXCEPT ![p] = catalog'[p]]
  BY <1>2 DEF LInv, Typed, Arrays
<1>4. \E r \in Request : Accept(p, r)
  <2>1. ASSUME NEW items \in Baskets, PrepareOrder(p, op, owner, items)
        PROVE  \E r \in Request : Accept(p, r)
    <3>1. [action |-> "create", items |-> items, price |-> catalog[p]] \in Ask
      BY <1>3, LedgerAssumption DEF Ask
    <3>2. QED BY <2>1, <3>1 DEF PrepareOrder, Request
  <2>2. ASSUME NEW o \in OrderId, PrepareCancel(p, op, owner, o)
        PROVE  \E r \in Request : Accept(p, r)
    <3>1. [action |-> "cancel", order |-> o] \in Ask
      BY DEF Ask
    <3>2. QED BY <2>2, <3>1 DEF PrepareCancel, Request
  <2>3. ASSUME NEW decision \in {"approved", "rejected"}, Resolve(p, op, owner, decision)
        PROVE  \E r \in Request : Accept(p, r)
    BY <2>3 DEF Resolve, Request
  <2>4. QED BY <2>1, <2>2, <2>3
<1>5. QED BY <1>2, <1>3, <1>4, AcceptStep

\* BEGIN IMMEDIATE copies the committed tables for the only holder of the lock.
LEMMA BeginStep == ASSUME LInv, NEW p \in Proc, Begin(p) PROVE LInv'
<1>1. /\ UNCHANGED <<db, replied, req, catalog>> /\ Arrays' /\ pc'[p] = "body"
      /\ work'[p] = db /\ lock' = p /\ lock = None /\ pc[p] = "begin" /\ Shape(db)
      /\ \A q \in Proc \ {p} : /\ pc'[q] = pc[q] /\ req'[q] = req[q] /\ work'[q] = work[q]
                               /\ todo'[q] = todo[q] /\ catalog'[q] = catalog[q]
  BY DEF Begin, LInv, Arrays
<1>2. Typed(p)' /\ Transaction(p)'
  BY <1>1 DEF LInv, Typed, Transaction, InTransaction
<1>3. QED BY <1>1, <1>2, LocalStep

\* A roll-back or a crash forgets a private copy and nothing else.
LEMMA LeaveStep == ASSUME LInv, NEW p \in Proc, Rollback(p) \/ Crash(p) PROVE LInv'
<1>1. /\ UNCHANGED <<db, replied>> /\ Arrays' /\ pc'[p] \in {"down", "idle"}
      /\ lock' = lock \/ lock = p
      /\ pc'[p] = "idle" => pc[p] # "down" /\ catalog'[p] = catalog[p]
      /\ \A q \in Proc \ {p} : /\ pc'[q] = pc[q] /\ req'[q] = req[q] /\ work'[q] = work[q]
                               /\ todo'[q] = todo[q] /\ catalog'[q] = catalog[q]
  BY DEF Rollback, Crash, Forget, Unlock, LInv, Arrays
<1>2. Typed(p)' /\ Transaction(p)'
  BY <1>1 DEF LInv, Typed, Transaction, InTransaction
<1>3. QED BY <1>1, <1>2, LocalStep

\* Published tables keep every decision and its result.
LEMMA DecisionsKept ==
  ASSUME NEW t, NEW u, Shape(t), Published(t, u), NEW op \in Op, ~Undecided(t, op)
  PROVE  u.conf[op] = t.conf[op]
<1>1. CASE Opened(t, u)
  BY <1>1 DEF Opened
<1>2. CASE \E x \in Op : t.conf[x] = None /\ u.conf = [t.conf EXCEPT ![x] = u.conf[x]]
  BY <1>2 DEF Undecided, Shape
<1>3. CASE \E x \in Op, decision \in {"approved", "rejected"} : DecidedAs(t, u, x, decision)
  BY <1>3 DEF DecidedAs, Is, Undecided, Shape
<1>4. QED BY <1>1, <1>2, <1>3 DEF Published, Proposed, Rejected, Sold, Refunded

\* A commit publishes one transaction's work on the tables it began with.
LEMMA CommitFacts ==
  ASSUME LInv, NEW p \in Proc, Commit(p)
  PROVE  /\ lock = p /\ Shape(db) /\ Shape(db') /\ Coherent(db') /\ Published(db, db')
         /\ req[p].kind = "resolve" => ~Undecided(db', req[p].op)
<1>1. pc[p] = "commit" /\ db' = work[p]
  BY DEF Commit
<1>2. QED BY <1>1 DEF LInv, Transaction, InTransaction

\* A commit keeps the invariant: nobody else was inside a transaction.
LEMMA CommitStep == ASSUME LInv, NEW p \in Proc, Commit(p) PROVE LInv'
<1>1. /\ lock = p /\ Shape(db) /\ Shape(db)' /\ Coherent(db)' /\ Published(db, db')
      /\ req[p].kind = "resolve" => ~Undecided(db', req[p].op)
  BY CommitFacts DEF Shape, Fields, Coherent, Undecided
<1>2. /\ Arrays' /\ pc'[p] = "idle" /\ catalog' = catalog /\ pc[p] = "commit"
      /\ db' = work[p] /\ lock' = None
      /\ \A q \in Proc \ {p} : /\ pc'[q] = pc[q] /\ req'[q] = req[q] /\ work'[q] = work[q]
                               /\ todo'[q] = todo[q] /\ catalog'[q] = catalog[q]
  BY DEF Commit, Forget, LInv, Arrays
<1>3. ASSUME NEW op \in Op, NEW a \in replied'[op]
      PROVE  ~Undecided(db', op) /\ a = <<db'.conf[op].status, db'.conf[op].result>>
  <2>1. CASE a \in replied[op]
    <3>1. ~Undecided(db, op) /\ a = <<db.conf[op].status, db.conf[op].result>>
      BY <2>1 DEF LInv, Told
    <3>2. db'.conf[op] = db.conf[op]
      BY <1>1, <3>1, DecisionsKept
    <3>3. QED BY <3>1, <3>2 DEF Undecided
  <2>2. CASE a \notin replied[op]
    <3>1. /\ req[p].kind = "resolve" /\ op = req[p].op
          /\ a = <<work[p].conf[op].status, work[p].conf[op].result>>
      BY <1>3, <2>2 DEF Commit, LInv, Arrays
    <3>2. QED BY <1>1, <1>2, <3>1
  <2>3. QED BY <2>1, <2>2
<1>4. Told'
  BY <1>3 DEF Told, Undecided
<1>5. ASSUME NEW q \in Proc PROVE Typed(q)' /\ Transaction(q)'
  <2>1. CASE q = p
    BY <1>2, <2>1 DEF LInv, Typed, Transaction, InTransaction
  <2>2. CASE q # p
    <3>1. ~InTransaction(q)
      BY <1>1, <2>2 DEF LInv, Transaction
    <3>2. QED BY <1>2, <2>2, <3>1 DEF LInv, Typed, Transaction, InTransaction
  <2>3. QED BY <2>1, <2>2
<1>6. QED BY <1>1, <1>2, <1>4, <1>5 DEF LInv
-----------------------------------------------------------------------------
\* The tables only ever move by one transaction's work, and that keeps the invariant.
LEMMA TablesMove ==
  ASSUME LInv, [Next]_vars
  PROVE  /\ LInv'
         /\ db' = db \/ (Shape(db) /\ Shape(db') /\ Published(db, db'))
<1>1. CASE UNCHANGED vars \/ \E op \in Op : Expire(op)
  <2>1. UNCHANGED <<db, lock, pc, req, work, todo, catalog, replied>>
    BY <1>1 DEF vars, Expire
  <2>2. /\ (\A p \in Proc : Typed(p) /\ Transaction(p))' /\ Arrays' /\ Told'
        /\ Shape(db)' /\ Coherent(db)'
    BY <2>1 DEF LInv, Typed, Transaction, InTransaction, Arrays, Told, Undecided
  <2>3. QED BY <2>1, <2>2 DEF LInv
<1>2. ASSUME NEW p \in Proc, Commit(p)
      PROVE  LInv' /\ Shape(db) /\ Shape(db') /\ Published(db, db')
  BY <1>2, CommitStep, CommitFacts
<1>3. ASSUME NEW p \in Proc, Client(p) \/ Begin(p) \/ Statement(p) \/ Rollback(p) \/ Crash(p)
      PROVE  LInv' /\ db' = db
  <2>1. LInv'
    BY <1>3, ClientStep, BeginStep, StatementStep, LeaveStep
  <2> SUFFICES db' = db
    BY <2>1
  <2>2. CASE Begin(p) \/ Rollback(p) \/ Crash(p)
    BY <2>2 DEF Begin, Rollback, Crash
  <2>3. CASE Client(p)
    <3>1. ASSUME NEW r, Accept(p, r) PROVE db' = db
      BY <3>1 DEF Accept
    <3>2. QED BY <2>3, <3>1, Zenon DEF Client, Start, PrepareOrder, PrepareCancel, Resolve
  <2>4. CASE Statement(p)
    <3>1. ASSUME NEW t, NEW next, NEW left, Write(p, t, next, left) PROVE db' = db
      BY <3>1 DEF Write
    <3>2. CASE InitBody(p) \/ PrepareAgain(p) \/ PrepareBody(p) \/ ResolveAgain(p)
      BY <3>1, <3>2, Zenon DEF InitBody, PrepareAgain, PrepareBody, ResolveAgain
    <3>3. CASE ResolveReject(p) \/ ResolveApprove(p) \/ FinishCancel(p)
      BY <3>1, <3>3, Zenon DEF ResolveReject, ResolveApprove, FinishCancel
    <3>4. ASSUME NEW s \in Sku, TakeItem(p, s) \/ ReturnItem(p, s) PROVE db' = db
      BY <3>1, <3>4, Zenon DEF TakeItem, ReturnItem
    <3>5. ASSUME NEW o \in OrderId, FinishCreate(p, o) PROVE db' = db
      BY <3>1, <3>5, Zenon DEF FinishCreate
    <3>6. QED BY <2>4, <3>2, <3>3, <3>4, <3>5 DEF Statement
  <2>5. QED BY <1>3, <2>2, <2>3, <2>4
<1>4. QED BY <1>1, <1>2, <1>3 DEF Next, Serve

\* The empty ledger, with any old orders, satisfies the invariant.
LEMMA InitInvariant == Init => LInv
<1> SUFFICES ASSUME Init PROVE LInv
  OBVIOUS
<1>1. Shape(db)
  <2>1. Legacy \in [OrderId -> Order \cup {None}]
    BY LedgerAssumption
  <2>2. QED BY <2>1 DEF Init, Shape, Fields
<1>2. Coherent(db)
  BY DEF Init, Coherent, Undecided
<1>3. Told /\ Arrays
  BY DEF Init, Told, Arrays
<1>4. ASSUME NEW p \in Proc PROVE Typed(p) /\ Transaction(p)
  BY DEF Init, Typed, Transaction, InTransaction
<1>5. QED BY <1>1, <1>2, <1>3, <1>4 DEF LInv

\* The ledger's inductive invariant: a transaction holds the lock, its copy is as far
\* from the committed tables as the statements it has run, and told decisions stand.
THEOREM Invariance == Spec => []LInv
<1>1. LInv /\ [Next]_vars => LInv'
  BY TablesMove
<1>2. QED BY <1>1, InitInvariant, PTL DEF Spec

\* What resolve_confirmation told a client is what the database still says, through
\* retries, conflicting decisions, expiry, failed statements and crashes.
THEOREM ToldIsStored == Spec => []RepliesDurable
<1>1. LInv => RepliesDurable
  BY DEF LInv, Told, Undecided, RepliesDurable
<1>2. QED BY <1>1, Invariance, PTL

\* No committed state has a decided confirmation without its operation row, or the
\* other way round.
THEOREM RowsAgree == Spec => []OperationsAgree
<1>1. LInv => OperationsAgree
  BY DEF LInv, Coherent, Undecided, OperationsAgree
<1>2. QED BY <1>1, Invariance, PTL

\* The conditional updates of _create_order sell at the database's quotes, however old
\* the quotes were that the confirmation was prepared with.
THEOREM FreshQuotes == Spec => NoStalePrice
<1>1. LInv /\ [Next]_vars => [SoldAtQuote]_vars
  <2> SUFFICES ASSUME LInv, [Next]_vars,
                      NEW o \in OrderId, db.order[o] = None, db'.order[o] # None,
                      NEW s \in Lines(db'.order[o].items)
               PROVE  db.quote[s] = db'.order[o].price[s]
    BY DEF SoldAtQuote
  <2>1. Shape(db) /\ Shape(db') /\ Published(db, db')
    BY TablesMove
  <2>2. PICK x \in OrderId :
          /\ db'.order = [db.order EXCEPT ![x] = db'.order[x]]
          /\ \A y \in Lines(db'.order[x].items) : Quoted(db, db'.order[x].price, y)
    <3>1. ~Opened(db, db') /\ ~Proposed(db, db') /\ ~Rejected(db, db')
      BY DEF Opened, Proposed, Rejected
    <3>2. ~Refunded(db, db')
      BY <2>1, LedgerAssumption DEF Refunded, Shape
    <3>3. QED BY <2>1, <3>1, <3>2 DEF Published, Sold
  <2>3. x = o
    BY <2>1, <2>2 DEF Shape
  <2>4. QED BY <2>2, <2>3 DEF Quoted
<1>2. QED BY <1>1, Invariance, PTL DEF Spec, NoStalePrice
-----------------------------------------------------------------------------
\* Every new order has the one confirmation that bought it, every cancelled order the
\* one that cancelled it, and no other order has any.
Once(t) ==
  \A o \in OrderId :
    /\ Legacy[o] # None => t.order[o] # None
    /\ IF t.order[o] # None /\ Legacy[o] = None
       THEN \E op \in Op : ApprovedFor(t, "create", o) = {op}
       ELSE ApprovedFor(t, "create", o) = {}
    /\ IF t.order[o] # None /\ t.order[o].status = "CANCELLED"
       THEN \E op \in Op : ApprovedFor(t, "cancel", o) = {op}
       ELSE ApprovedFor(t, "cancel", o) = {}

\* A row that does not become approved belongs to no order.
LEMMA NoneApproved ==
  ASSUME NEW t, NEW u, Shape(t), NEW op \in Op,
         Undecided(t, op), ~Is(u, op, "approved"), u.conf = [t.conf EXCEPT ![op] = u.conf[op]],
         NEW a, NEW o
  PROVE  ApprovedFor(u, a, o) = ApprovedFor(t, a, o)
<1>1. \A x \in Op \ {op} : u.conf[x] = t.conf[x]
  BY DEF Shape
<1>2. \A x \in Op : x \in ApprovedFor(u, a, o) <=> x \in ApprovedFor(t, a, o)
  <2>1. op \notin ApprovedFor(u, a, o) /\ op \notin ApprovedFor(t, a, o)
    BY DEF ApprovedFor, Is, Undecided
  <2>2. QED BY <1>1, <2>1 DEF ApprovedFor
<1>3. QED BY <1>2 DEF ApprovedFor

\* An approval joins the confirmations of its own action and order, and no others.
LEMMA OneApproved ==
  ASSUME NEW t, NEW u, Shape(t), NEW op \in Op, DecidedAs(t, u, op, "approved"),
         NEW b, NEW x, Traded(u, op, b, x), NEW a, NEW o
  PROVE  ApprovedFor(u, a, o) = IF a = b /\ o = x THEN ApprovedFor(t, a, o) \cup {op}
                                ELSE ApprovedFor(t, a, o)
<1>1. \A y \in Op \ {op} : u.conf[y] = t.conf[y]
  BY DEF Shape, DecidedAs
<1>2. op \notin ApprovedFor(t, a, o) /\ (op \in ApprovedFor(u, a, o) <=> a = b /\ o = x)
  BY DEF ApprovedFor, DecidedAs, Is, Traded
<1>3. \A y \in Op \ {op} : y \in ApprovedFor(u, a, o) <=> y \in ApprovedFor(t, a, o)
  BY <1>1 DEF ApprovedFor
<1>4. ApprovedFor(u, a, o) \subseteq Op /\ ApprovedFor(t, a, o) \subseteq Op
  BY DEF ApprovedFor
<1>5. QED BY <1>2, <1>3, <1>4

LEMMA OnceKept ==
  ASSUME NEW t, NEW u, Shape(t), Shape(u), Published(t, u), Once(t) PROVE Once(u)
<1>1. CASE Opened(t, u)
  BY <1>1 DEF Opened, Once, ApprovedFor
<1>2. CASE Proposed(t, u) \/ Rejected(t, u)
  <2>1. u.order = t.order
    BY <1>2 DEF Proposed, Rejected
  <2>2. PICK op \in Op : Undecided(t, op) /\ ~Is(u, op, "approved") /\ u.conf = [t.conf EXCEPT ![op] = u.conf[op]]
    BY <1>2 DEF Proposed, Rejected, DecidedAs, Undecided, Is
  <2>3. \A a, o : ApprovedFor(u, a, o) = ApprovedFor(t, a, o)
    BY <2>2, NoneApproved
  <2>4. QED BY <2>1, <2>3 DEF Once
<1>3. CASE Sold(t, u)
  <2>1. PICK op \in Op, x \in OrderId :
          /\ DecidedAs(t, u, op, "approved") /\ Traded(u, op, "create", x)
          /\ t.order[x] = None /\ u.order[x] \in Order /\ u.order[x].status = "CONFIRMED"
          /\ u.order = [t.order EXCEPT ![x] = u.order[x]]
    BY <1>3 DEF Sold
  <2>2. \A o : ApprovedFor(u, "cancel", o) = ApprovedFor(t, "cancel", o)
    BY <2>1, OneApproved
  <2>3. \A o \in OrderId \ {x} : u.order[o] = t.order[o] /\ ApprovedFor(u, "create", o) = ApprovedFor(t, "create", o)
    <3>1. \A o \in OrderId \ {x} : u.order[o] = t.order[o]
      BY <2>1 DEF Shape
    <3>2. ASSUME NEW o \in OrderId \ {x} PROVE ApprovedFor(u, "create", o) = ApprovedFor(t, "create", o)
      BY <2>1, OneApproved
    <3>3. QED BY <3>1, <3>2
  <2>4. ApprovedFor(u, "create", x) = ApprovedFor(t, "create", x) \cup {op}
    BY <2>1, OneApproved
  <2>5. Legacy[x] = None /\ u.order[x] # None /\ ApprovedFor(t, "create", x) = {} /\ ApprovedFor(t, "cancel", x) = {}
    BY <2>1, LedgerAssumption DEF Once
  <2>6. ASSUME NEW o \in OrderId
        PROVE  /\ Legacy[o] # None => u.order[o] # None
               /\ IF u.order[o] # None /\ Legacy[o] = None
                  THEN \E y \in Op : ApprovedFor(u, "create", o) = {y}
                  ELSE ApprovedFor(u, "create", o) = {}
               /\ IF u.order[o] # None /\ u.order[o].status = "CANCELLED"
                  THEN \E y \in Op : ApprovedFor(u, "cancel", o) = {y}
                  ELSE ApprovedFor(u, "cancel", o) = {}
    <3>1. CASE o = x
      BY <2>1, <2>2, <2>4, <2>5, <3>1
    <3>2. CASE o # x
      BY <2>2, <2>3, <3>2 DEF Once
    <3>3. QED BY <3>1, <3>2
  <2>7. QED BY <2>6 DEF Once
<1>4. CASE Refunded(t, u)
  <2>1. PICK op \in Op, x \in OrderId :
          /\ DecidedAs(t, u, op, "approved") /\ Traded(u, op, "cancel", x)
          /\ t.order[x] \in Order /\ t.order[x].status = "CONFIRMED"
          /\ u.order = [t.order EXCEPT ![x].status = "CANCELLED"]
    BY <1>4 DEF Refunded
  <2>2. \A o : ApprovedFor(u, "create", o) = ApprovedFor(t, "create", o)
    BY <2>1, OneApproved
  <2>3. \A o \in OrderId \ {x} : u.order[o] = t.order[o] /\ ApprovedFor(u, "cancel", o) = ApprovedFor(t, "cancel", o)
    <3>1. \A o \in OrderId \ {x} : u.order[o] = t.order[o]
      BY <2>1 DEF Shape
    <3>2. ASSUME NEW o \in OrderId \ {x} PROVE ApprovedFor(u, "cancel", o) = ApprovedFor(t, "cancel", o)
      BY <2>1, OneApproved
    <3>3. QED BY <3>1, <3>2
  <2>4. ApprovedFor(u, "cancel", x) = ApprovedFor(t, "cancel", x) \cup {op}
    BY <2>1, OneApproved
  <2>5. t.order[x] # None /\ ApprovedFor(t, "cancel", x) = {}
    BY <2>1, LedgerAssumption DEF Once
  <2>6. u.order[x] # None /\ u.order[x].status = "CANCELLED"
    <3>1. u.order[x] = [t.order[x] EXCEPT !.status = "CANCELLED"]
      BY <2>1 DEF Shape
    <3>2. u.order[x] \in Order /\ u.order[x].status = "CANCELLED"
      BY <2>1, <3>1 DEF Order
    <3>3. QED BY <3>2, LedgerAssumption
  <2>7. ASSUME NEW o \in OrderId
        PROVE  /\ Legacy[o] # None => u.order[o] # None
               /\ IF u.order[o] # None /\ Legacy[o] = None
                  THEN \E y \in Op : ApprovedFor(u, "create", o) = {y}
                  ELSE ApprovedFor(u, "create", o) = {}
               /\ IF u.order[o] # None /\ u.order[o].status = "CANCELLED"
                  THEN \E y \in Op : ApprovedFor(u, "cancel", o) = {y}
                  ELSE ApprovedFor(u, "cancel", o) = {}
    <3>1. CASE o = x
      BY <2>2, <2>4, <2>5, <2>6, <3>1 DEF Once
    <3>2. CASE o # x
      BY <2>2, <2>3, <3>2 DEF Once
    <3>3. QED BY <3>1, <3>2
  <2>8. QED BY <2>7 DEF Once
<1>5. QED BY <1>1, <1>2, <1>3, <1>4 DEF Published

\* Repeated, concurrent and retried resolutions never trade twice: each new order has
\* exactly one approved purchase, each cancelled one exactly one approved cancellation.
THEOREM NothingTradedTwice == Spec => []TradedOnce
<1>1. Init => Once(db)
  <2> SUFFICES ASSUME Init PROVE Once(db)
    OBVIOUS
  <2>1. \A a, o : ApprovedFor(db, a, o) = {}
    BY DEF Init, ApprovedFor
  <2>2. \A o \in OrderId : Legacy[o] = None \/ Legacy[o].status = "CONFIRMED"
    BY LedgerAssumption
  <2>3. db.order = Legacy
    BY DEF Init
  <2>4. QED BY <2>1, <2>2, <2>3 DEF Once
<1>2. Once(db) /\ LInv /\ [Next]_vars => Once(db)'
  <2> SUFFICES ASSUME Once(db), LInv, [Next]_vars PROVE Once(db)'
    OBVIOUS
  <2>1. Once(db')
    BY TablesMove, OnceKept
  <2>2. QED BY <2>1 DEF Once, ApprovedFor
<1>3. Once(db) => TradedOnce
  BY FS_Singleton, FS_EmptySet DEF Once, TradedOnce
<1>4. QED BY <1>1, <1>2, <1>3, Invariance, PTL DEF Spec
-----------------------------------------------------------------------------
\* The atomic ledger's view of tables t.
StatusOf(t) == [op \in Op |-> IF t.conf[op] = None THEN None ELSE t.conf[op].status]
BookOf(t) == [o \in OrderId |-> IF t.order[o] = None THEN None
                ELSE [items |-> t.order[o].items, status |-> t.order[o].status]]

\* A row that changes its status changes one entry of the atomic view.
LEMMA StatusMove ==
  ASSUME NEW t, NEW u, Shape(t), Shape(u), NEW op \in Op, NEW st, Is(u, op, st),
         u.conf = [t.conf EXCEPT ![op] = u.conf[op]]
  PROVE  StatusOf(u) = [StatusOf(t) EXCEPT ![op] = st]
  BY DEF StatusOf, Is, Shape

\* A published sale is one Sell of the atomic ledger.
LEMMA AtomicSell ==
  ASSUME Shape(db), Shape(db'), Sold(db, db')
  PROVE  \E op \in Op, o \in OrderId : Atomic!Sell(op, o)
<1>1. PICK op \in Op, o \in OrderId :
        /\ DecidedAs(db, db', op, "approved")
        /\ db.order[o] = None /\ db'.order[o] \in Order /\ db'.order[o].status = "CONFIRMED"
        /\ db'.order = [db.order EXCEPT ![o] = db'.order[o]]
        /\ \A s \in Lines(db'.order[o].items) :
             Quoted(db, db'.order[o].price, s) /\ db.stock[s] >= db'.order[o].items[s]
        /\ db'.stock = [s \in Sku |-> IF db'.order[o].items[s] = 0 THEN db.stock[s]
                                      ELSE db.stock[s] - db'.order[o].items[s]]
  BY DEF Sold
<1>2. StatusOf(db') = [StatusOf(db) EXCEPT ![op] = "approved"]
  BY <1>1, StatusMove DEF DecidedAs
<1>3. StatusOf(db)[op] = "pending"
  BY <1>1 DEF DecidedAs, Is, StatusOf
<1>4. /\ BookOf(db)[o] = None
      /\ BookOf(db')[o] = [items |-> db'.order[o].items, status |-> "CONFIRMED"]
  BY <1>1, LedgerAssumption DEF BookOf
<1>5. BookOf(db')[o] # None
  BY <1>1, <1>4, LedgerAssumption DEF Order
<1>6. BookOf(db') = [BookOf(db) EXCEPT ![o] = BookOf(db')[o]]
  BY <1>1 DEF BookOf, Shape
<1>7. \A s \in Sku : db'.order[o].items[s] # 0 =>
        db.stock[s] # None /\ db.stock[s] >= db'.order[o].items[s]
  BY <1>1 DEF Lines, Quoted
<1>8. Atomic!Sell(op, o)
  BY <1>1, <1>2, <1>3, <1>4, <1>5, <1>6, <1>7 DEF Atomic!Sell, Atomic!Approve, StatusOf, BookOf
<1>9. QED BY <1>8

\* A published refund is one Refund of the atomic ledger.
LEMMA AtomicRefund ==
  ASSUME Shape(db), Shape(db'), Refunded(db, db')
  PROVE  \E op \in Op, o \in OrderId : Atomic!Refund(op, o)
<1>1. PICK op \in Op, o \in OrderId :
        /\ DecidedAs(db, db', op, "approved")
        /\ db.order[o] \in Order /\ db.order[o].status = "CONFIRMED"
        /\ db'.order = [db.order EXCEPT ![o].status = "CANCELLED"]
        /\ \A s \in Lines(db.order[o].items) : db.stock[s] # None
        /\ db'.stock = [s \in Sku |-> IF db.order[o].items[s] = 0 THEN db.stock[s]
                                      ELSE db.stock[s] + db.order[o].items[s]]
  BY DEF Refunded
<1>2. StatusOf(db') = [StatusOf(db) EXCEPT ![op] = "approved"]
  BY <1>1, StatusMove DEF DecidedAs
<1>3. StatusOf(db)[op] = "pending"
  BY <1>1 DEF DecidedAs, Is, StatusOf
<1>4. BookOf(db)[o] = [items |-> db.order[o].items, status |-> "CONFIRMED"]
  BY <1>1, LedgerAssumption DEF BookOf
<1>5. BookOf(db)[o] # None
  BY <1>1, <1>4, LedgerAssumption DEF Order
<1>6. BookOf(db') = [BookOf(db) EXCEPT ![o].status = "CANCELLED"]
  <2>1. db'.order[o] = [db.order[o] EXCEPT !.status = "CANCELLED"] /\ db'.order[o] \in Order
    BY <1>1 DEF Shape, Order
  <2>2. BookOf(db')[o] = [BookOf(db)[o] EXCEPT !.status = "CANCELLED"]
    BY <1>1, <1>4, <2>1, LedgerAssumption DEF BookOf, Order
  <2>3. \A x \in OrderId \ {o} : BookOf(db')[x] = BookOf(db)[x]
    BY <1>1 DEF BookOf, Shape
  <2>4. QED BY <2>2, <2>3 DEF BookOf
<1>7. \A s \in Sku : db.order[o].items[s] # 0 => db.stock[s] # None
  BY <1>1 DEF Lines
<1>8. Atomic!Refund(op, o)
  BY <1>1, <1>2, <1>3, <1>4, <1>5, <1>6, <1>7 DEF Atomic!Refund, Atomic!Approve, StatusOf, BookOf
<1>9. QED BY <1>8

\* Whatever is published is one step of the atomic ledger.
LEMMA AtomicStep ==
  ASSUME Shape(db), Shape(db'), Published(db, db')
  PROVE  Atomic!Next
<1>1. CASE Opened(db, db')
  BY <1>1 DEF Opened, Atomic!Next, Atomic!Open
<1>2. CASE Proposed(db, db')
  <2>1. PICK op \in Op :
          /\ db.conf[op] = None /\ Is(db', op, "pending")
          /\ db'.conf = [db.conf EXCEPT ![op] = db'.conf[op]]
          /\ db'.stock = db.stock /\ db'.order = db.order
    BY <1>2 DEF Proposed
  <2>2. StatusOf(db') = [StatusOf(db) EXCEPT ![op] = "pending"] /\ StatusOf(db)[op] = None
    <3>1. StatusOf(db') = [StatusOf(db) EXCEPT ![op] = "pending"]
      BY <2>1, StatusMove
    <3>2. QED BY <2>1, <3>1 DEF StatusOf
  <2>3. Atomic!Propose(op)
    BY <2>1, <2>2 DEF Atomic!Propose, StatusOf
  <2>4. QED BY <2>3 DEF Atomic!Next
<1>3. CASE Rejected(db, db')
  <2>1. PICK op \in Op :
          /\ DecidedAs(db, db', op, "rejected")
          /\ db'.stock = db.stock /\ db'.order = db.order
    BY <1>3 DEF Rejected
  <2>2. StatusOf(db') = [StatusOf(db) EXCEPT ![op] = "rejected"]
    BY <2>1, StatusMove DEF DecidedAs
  <2>3. StatusOf(db)[op] = "pending"
    BY <2>1 DEF DecidedAs, Is, StatusOf
  <2>4. Atomic!Reject(op)
    BY <2>1, <2>2, <2>3 DEF Atomic!Reject, StatusOf
  <2>5. QED BY <2>4 DEF Atomic!Next
<1>4. CASE Sold(db, db')
  BY <1>4, AtomicSell DEF Atomic!Next
<1>5. CASE Refunded(db, db')
  BY <1>5, AtomicRefund DEF Atomic!Next
<1>6. QED BY <1>1, <1>2, <1>3, <1>4, <1>5 DEF Published

\* The committed tables implement the atomic ledger: a decision, its stock and its
\* order change together or not at all, whatever processes and failures interleave.
THEOREM LedgerIsAtomic == Spec => RefinesAtomicLedger
<1>1. Init => Atomic!Init
  <2> SUFFICES ASSUME Init PROVE Atomic!Init
    OBVIOUS
  <2>1. \A o \in OrderId : Legacy[o] = None \/ Legacy[o].status = "CONFIRMED"
    BY LedgerAssumption
  <2>2. QED BY <2>1 DEF Init, Atomic!Init
<1>2. LInv /\ [Next]_vars => [Atomic!Next]_(Atomic!vars)
  <2> SUFFICES ASSUME LInv, [Next]_vars PROVE [Atomic!Next]_(Atomic!vars)
    OBVIOUS
  <2>1. CASE db' = db
    BY <2>1 DEF Atomic!vars
  <2>2. CASE Shape(db) /\ Shape(db') /\ Published(db, db')
    BY <2>2, AtomicStep
  <2>3. QED BY <2>1, <2>2, TablesMove
<1>3. QED BY <1>1, <1>2, Invariance, PTL DEF Spec, RefinesAtomicLedger, Atomic!Spec
-----------------------------------------------------------------------------
\* Stock is a number of units, and with what confirmed orders hold it makes the seed.
Conserved(t) ==
  \A s \in Sku : t.stock[s] # None =>
    t.stock[s] \in Int /\ t.stock[s] >= 0 /\ t.stock[s] + Occupied(t, s) = Seed[s]

\* What orders hold is a number of units for each of finitely many orders.
LEMMA HeldUnits ==
  ASSUME NEW t, Shape(t), NEW s \in Sku
  PROVE  /\ Held(t, s) \in [OrderId -> Nat] /\ Held(t, s) \in [OrderId -> Int]
         /\ IsFiniteSet(OrderId) /\ Occupied(t, s) \in Nat
<1>1. ASSUME NEW o \in OrderId PROVE Held(t, s)[o] \in Nat
  <2>1. CASE t.order[o] = None
    BY <2>1 DEF Held
  <2>2. CASE t.order[o] # None
    <3>1. t.order[o] \in Order
      BY <2>2 DEF Shape
    <3>2. t.order[o].items[s] \in Nat
      BY <3>1, LedgerAssumption DEF Order, Items
    <3>3. QED BY <3>2 DEF Held
  <2>3. QED BY <2>1, <2>2
<1>2. Held(t, s) \in [OrderId -> Nat] /\ IsFiniteSet(OrderId)
  BY <1>1, LedgerAssumption DEF Held
<1>3. SumFunction(Held(t, s)) \in Nat
  BY <1>2, SumNat
<1>4. QED BY <1>2, <1>3 DEF Occupied

\* Orders that do not change hold what they held.
LEMMA SameHeld ==
  ASSUME NEW t, NEW u, u.order = t.order, NEW s
  PROVE  Occupied(u, s) = Occupied(t, s)
BY DEF Occupied, Held

\* One order that changes changes the occupied units by its own.
LEMMA OneHeld ==
  ASSUME NEW t, NEW u, Shape(t), Shape(u), NEW x \in OrderId,
         \A o \in OrderId \ {x} : u.order[o] = t.order[o], NEW s \in Sku
  PROVE  Occupied(u, s) = Occupied(t, s) - Held(t, s)[x] + Held(u, s)[x]
<1>1. \A o \in OrderId \ {x} : Held(u, s)[o] = Held(t, s)[o]
  BY DEF Held
<1>2. SumFunction(Held(u, s)) = SumFunction(Held(t, s)) - Held(t, s)[x] + Held(u, s)[x]
  BY <1>1, HeldUnits, SumChange
<1>3. QED BY <1>2 DEF Occupied

\* Every transaction's work keeps stock and orders in balance.
LEMMA ConservedKept ==
  ASSUME NEW t, NEW u, Shape(t), Shape(u), Published(t, u), Conserved(t)
  PROVE  Conserved(u)
<1> SUFFICES ASSUME NEW s \in Sku, u.stock[s] # None
             PROVE  u.stock[s] \in Int /\ u.stock[s] >= 0 /\ u.stock[s] + Occupied(u, s) = Seed[s]
  BY DEF Conserved
<1>1. Occupied(t, s) \in Nat /\ Occupied(u, s) \in Nat /\ Seed[s] \in Nat
  BY HeldUnits, LedgerAssumption
<1>2. t.stock[s] # None =>
        t.stock[s] \in Int /\ t.stock[s] >= 0 /\ t.stock[s] + Occupied(t, s) = Seed[s]
  BY DEF Conserved
<1>3. CASE Opened(t, u)
  <2>1. Occupied(u, s) = Occupied(t, s)
    BY <1>3, SameHeld DEF Opened
  <2>2. CASE u.stock[s] = t.stock[s]
    BY <1>2, <2>1, <2>2
  <2>3. CASE Occupied(t, s) <= Seed[s] /\ u.stock[s] = Seed[s] - Occupied(t, s)
    BY <1>1, <2>1, <2>3
  <2>4. QED BY <1>3, <2>2, <2>3 DEF Opened
<1>4. CASE Proposed(t, u) \/ Rejected(t, u)
  <2>1. u.order = t.order /\ u.stock = t.stock
    BY <1>4 DEF Proposed, Rejected
  <2>2. QED BY <1>2, <2>1, SameHeld
<1>5. CASE Sold(t, u)
  <2>1. PICK x \in OrderId :
          /\ t.order[x] = None /\ u.order[x] \in Order /\ u.order[x].status = "CONFIRMED"
          /\ u.order = [t.order EXCEPT ![x] = u.order[x]]
          /\ \A y \in Lines(u.order[x].items) :
               Quoted(t, u.order[x].price, y) /\ t.stock[y] >= u.order[x].items[y]
          /\ u.stock = [y \in Sku |-> IF u.order[x].items[y] = 0 THEN t.stock[y]
                                      ELSE t.stock[y] - u.order[x].items[y]]
    BY <1>5 DEF Sold
  <2> DEFINE n == u.order[x].items[s]
  <2>2. n \in Nat /\ u.order[x] # None
    BY <2>1, LedgerAssumption DEF Order, Items
  <2>3. Held(t, s)[x] = 0 /\ Held(u, s)[x] = n
    BY <2>1, <2>2 DEF Held
  <2>4. \A o \in OrderId \ {x} : u.order[o] = t.order[o]
    BY <2>1 DEF Shape
  <2>5. Occupied(u, s) = Occupied(t, s) + n
    <3>1. Occupied(u, s) = Occupied(t, s) - Held(t, s)[x] + Held(u, s)[x]
      BY <2>4, OneHeld
    <3> HIDE DEF n
    <3>2. QED BY <1>1, <2>2, <2>3, <3>1
  <2>6. u.stock[s] = IF n = 0 THEN t.stock[s] ELSE t.stock[s] - n
    BY <2>1
  <2>7. n # 0 => t.stock[s] # None /\ t.stock[s] >= n
    BY <2>1 DEF Lines, Quoted
  <2> HIDE DEF n
  <2>8. QED BY <1>1, <1>2, <2>2, <2>5, <2>6, <2>7
<1>6. CASE Refunded(t, u)
  <2>1. PICK x \in OrderId :
          /\ t.order[x] \in Order /\ t.order[x].status = "CONFIRMED"
          /\ u.order = [t.order EXCEPT ![x].status = "CANCELLED"]
          /\ \A y \in Lines(t.order[x].items) : t.stock[y] # None
          /\ u.stock = [y \in Sku |-> IF t.order[x].items[y] = 0 THEN t.stock[y]
                                      ELSE t.stock[y] + t.order[x].items[y]]
    BY <1>6 DEF Refunded
  <2> DEFINE n == t.order[x].items[s]
  <2>2. n \in Nat /\ t.order[x] # None
    BY <2>1, LedgerAssumption DEF Order, Items
  <2>3. Held(t, s)[x] = n /\ Held(u, s)[x] = 0
    <3>1. u.order[x] = [t.order[x] EXCEPT !.status = "CANCELLED"]
      BY <2>1 DEF Shape
    <3>2. u.order[x].status = "CANCELLED"
      BY <2>1, <3>1 DEF Order
    <3>3. QED BY <2>1, <2>2, <3>2 DEF Held
  <2>4. \A o \in OrderId \ {x} : u.order[o] = t.order[o]
    BY <2>1 DEF Shape
  <2>5. Occupied(u, s) = Occupied(t, s) - n
    <3>1. Occupied(u, s) = Occupied(t, s) - Held(t, s)[x] + Held(u, s)[x]
      BY <2>4, OneHeld
    <3> HIDE DEF n
    <3>2. QED BY <1>1, <2>2, <2>3, <3>1
  <2>6. u.stock[s] = IF n = 0 THEN t.stock[s] ELSE t.stock[s] + n
    BY <2>1
  <2>7. n # 0 => t.stock[s] # None
    BY <2>1 DEF Lines
  <2> HIDE DEF n
  <2>8. QED BY <1>1, <1>2, <2>2, <2>5, <2>6, <2>7
<1>7. QED BY <1>3, <1>4, <1>5, <1>6 DEF Published

\* Stock and orders stay in balance with the invariant, step by step.
LEMMA Balance == Spec => []Conserved(db)
<1>1. Init => Conserved(db)
  BY DEF Init, Conserved
<1>2. Conserved(db) /\ LInv /\ [Next]_vars => Conserved(db)'
  <2> SUFFICES ASSUME Conserved(db), LInv, [Next]_vars PROVE Conserved(db)'
    OBVIOUS
  <2>1. Conserved(db')
    BY TablesMove, ConservedKept
  <2>2. QED BY <2>1 DEF Conserved, Occupied, Held
<1>3. QED BY <1>1, <1>2, Invariance, PTL DEF Spec

\* Units are neither lost nor made by sales, cancellations, failed stock loops, crashes
\* and restarts with a new catalogue, however many orders there are.
THEOREM UnitsConserved == Spec => []StockConserved
<1>1. Conserved(db) => StockConserved
  BY DEF Conserved, StockConserved
<1>2. QED BY <1>1, Balance, PTL
-----------------------------------------------------------------------------
\* What the processes hold outside the tables: a request only while it is served, a
\* copy of the tables only inside a transaction.
Carries(p) ==
  /\ req[p] \in Request \cup {None}
  /\ todo[p] \in SUBSET Sku
  /\ catalog[p] \in Quotes \cup {None}
  /\ InTransaction(p) \/ work[p] = None

Rest ==
  /\ lock \in Proc \cup {None}
  /\ expired \in SUBSET Op
  /\ \A p \in Proc : Carries(p)

LEMMA RestStep == ASSUME LInv, Rest, [Next]_vars PROVE Rest'
<1>1. CASE UNCHANGED vars
  BY <1>1 DEF vars, Rest, Carries, InTransaction
<1>2. ASSUME NEW op \in Op, Expire(op) PROVE Rest'
  BY <1>2 DEF Expire, Rest, Carries, InTransaction
<1>3. ASSUME NEW p \in Proc, Client(p) \/ Serve(p) \/ Rollback(p) \/ Crash(p) PROVE Rest'
  <2>1. /\ pc[p] \in {"down", "idle", "begin", "body", "items", "commit"} /\ Arrays
        /\ pc[p] # "down" => catalog[p] \in Quotes
    BY DEF LInv, Typed
  <2>2. ASSUME Carries(p)', lock' \in Proc \cup {None}, expired' = expired,
               \A q \in Proc \ {p} : /\ pc'[q] = pc[q] /\ req'[q] = req[q] /\ work'[q] = work[q]
                                     /\ todo'[q] = todo[q] /\ catalog'[q] = catalog[q]
        PROVE  Rest'
    <3>1. ASSUME NEW q \in Proc PROVE Carries(q)'
      BY <2>2 DEF Rest, Carries, InTransaction
    <3>2. QED BY <2>2, <3>1 DEF Rest
  <2>3. ASSUME NEW r \in Request, Accept(p, r),
               catalog' = catalog \/ \E c \in Catalogs : catalog' = [catalog EXCEPT ![p] = c],
               ~InTransaction(p)
        PROVE  Rest'
    <3>1. Carries(p)'
      BY <2>1, <2>3, LedgerAssumption DEF Accept, Arrays, Rest, Carries, InTransaction
    <3>2. lock' \in Proc \cup {None} /\ expired' = expired
      BY <2>3 DEF Accept, Rest
    <3>3. \A q \in Proc \ {p} : /\ pc'[q] = pc[q] /\ req'[q] = req[q] /\ work'[q] = work[q]
                                /\ todo'[q] = todo[q] /\ catalog'[q] = catalog[q]
      BY <2>1, <2>3 DEF Accept, Arrays
    <3>4. QED BY <2>2, <3>1, <3>2, <3>3
  <2>4. CASE Client(p)
    <3>1. ~InTransaction(p)
      BY <2>4 DEF Client, Start, PrepareOrder, PrepareCancel, Resolve, InTransaction
    <3>2. ASSUME NEW c \in Catalogs, Start(p, c) PROVE Rest'
      BY <2>3, <3>1, <3>2 DEF Start, Request
    <3>3. ASSUME NEW op \in Op, NEW owner \in Owner, NEW items \in Baskets,
                 PrepareOrder(p, op, owner, items)
          PROVE  Rest'
      <4>1. [action |-> "create", items |-> items, price |-> catalog[p]] \in Ask
        BY <2>1, <3>3, LedgerAssumption DEF PrepareOrder, Ask
      <4>2. QED BY <2>3, <3>1, <3>3, <4>1 DEF PrepareOrder, Request
    <3>4. ASSUME NEW op \in Op, NEW owner \in Owner, NEW o \in OrderId,
                 PrepareCancel(p, op, owner, o)
          PROVE  Rest'
      <4>1. [action |-> "cancel", order |-> o] \in Ask
        BY DEF Ask
      <4>2. QED BY <2>3, <3>1, <3>4, <4>1 DEF PrepareCancel, Request
    <3>5. ASSUME NEW op \in Op, NEW owner \in Owner, NEW decision \in {"approved", "rejected"},
                 Resolve(p, op, owner, decision)
          PROVE  Rest'
      BY <2>3, <3>1, <3>5 DEF Resolve, Request
    <3>6. QED BY <2>4, <3>2, <3>3, <3>4, <3>5 DEF Client
  <2>5. CASE Begin(p)
    <3>1. Carries(p)' /\ lock' \in Proc \cup {None} /\ expired' = expired
      BY <2>1, <2>5 DEF Begin, Arrays, Rest, Carries, InTransaction
    <3>2. \A q \in Proc \ {p} : /\ pc'[q] = pc[q] /\ req'[q] = req[q] /\ work'[q] = work[q]
                                /\ todo'[q] = todo[q] /\ catalog'[q] = catalog[q]
      BY <2>1, <2>5 DEF Begin, Arrays
    <3>3. QED BY <2>2, <3>1, <3>2
  <2>6. CASE Statement(p)
    <3>1. PICK t, next, left : Write(p, t, next, left) /\ next \in {"items", "commit"} /\ left \subseteq Sku
      <4>1. \A items : Lines(items) \subseteq Sku
        BY DEF Lines
      <4>2. todo[p] \subseteq Sku
        BY DEF Rest, Carries
      <4>3. CASE InitBody(p) \/ PrepareAgain(p) \/ PrepareBody(p) \/ ResolveAgain(p) \/ ResolveReject(p)
        <5>1. \E t : Write(p, t, "commit", {})
          BY <4>3 DEF InitBody, PrepareAgain, PrepareBody, ResolveAgain, ResolveReject
        <5>2. QED BY <5>1
      <4>4. CASE ResolveApprove(p)
        <5>1. \E t, items : Write(p, t, "items", Lines(items))
          BY <4>4 DEF ResolveApprove
        <5>2. QED BY <4>1, <5>1
      <4>5. CASE \E s \in Sku : TakeItem(p, s) \/ ReturnItem(p, s)
        <5>1. \E t, s : Write(p, t, "items", todo[p] \ {s})
          BY <4>5 DEF TakeItem, ReturnItem
        <5>2. QED BY <4>2, <5>1
      <4>6. CASE FinishCancel(p) \/ \E o \in OrderId : FinishCreate(p, o)
        <5>1. \E t : Write(p, t, "commit", {})
          BY <4>6 DEF FinishCancel, FinishCreate
        <5>2. QED BY <5>1
      <4>7. QED BY <2>6, <4>3, <4>4, <4>5, <4>6 DEF Statement
    <3>2. Carries(p)' /\ lock' \in Proc \cup {None} /\ expired' = expired
      BY <2>1, <3>1 DEF Write, Arrays, Rest, Carries, InTransaction
    <3>3. \A q \in Proc \ {p} : /\ pc'[q] = pc[q] /\ req'[q] = req[q] /\ work'[q] = work[q]
                                /\ todo'[q] = todo[q] /\ catalog'[q] = catalog[q]
      BY <2>1, <3>1 DEF Write, Arrays
    <3>4. QED BY <2>2, <3>2, <3>3
  <2>7. CASE Commit(p) \/ Rollback(p) \/ Crash(p)
    <3>1. Carries(p)' /\ lock' \in Proc \cup {None} /\ expired' = expired
      BY <2>1, <2>7 DEF Commit, Rollback, Crash, Forget, Unlock, Arrays, Rest, Carries, InTransaction
    <3>2. \A q \in Proc \ {p} : /\ pc'[q] = pc[q] /\ req'[q] = req[q] /\ work'[q] = work[q]
                                /\ todo'[q] = todo[q] /\ catalog'[q] = catalog[q]
      BY <2>1, <2>7 DEF Commit, Rollback, Crash, Forget, Arrays
    <3>3. QED BY <2>2, <3>1, <3>2
  <2>8. QED BY <1>3, <2>4, <2>5, <2>6, <2>7 DEF Serve
<1>4. QED BY <1>1, <1>2, <1>3 DEF Next

\* Tables with the right shape and stock in balance are well typed.
LEMMA TypedTables ==
  ASSUME NEW t, Shape(t), \A s \in Sku : t.stock[s] \in Int \cup {None}
  PROVE  t \in Tables
<1>1. t.stock \in [Sku -> Int \cup {None}]
  BY DEF Shape
<1>2. QED BY <1>1 DEF Shape, Fields, Tables

\* A transaction's copy is well typed at every statement, half-done stock loops included.
LEMMA TypedWork ==
  ASSUME LInv, Conserved(db), NEW p \in Proc, InTransaction(p)
  PROVE  work[p] \in Tables
<1>1. Shape(work[p]) /\ Shape(db)
  BY DEF LInv, Transaction
<1>2. \A s \in Sku : db.stock[s] \in Int \cup {None}
  BY DEF Conserved
<1>3. \A s \in Sku : work[p].stock[s] \in Int \cup {None}
  <2>1. CASE pc[p] = "body"
    BY <1>2, <2>1 DEF LInv, Transaction
  <2>2. CASE pc[p] = "items"
    <3> DEFINE c == db.conf[req[p].op]
    <3>1. /\ Is(db, req[p].op, "pending") /\ req[p].kind = "resolve"
          /\ Taking(db, c, work[p], todo[p]) \/ Returning(db, c, work[p], todo[p])
      BY <2>2 DEF LInv, Transaction
    <3>2. req[p] \in Request
      BY <2>2 DEF LInv, Typed
    <3>3. c \in Conf
      BY <1>1, <3>1, <3>2 DEF Shape, Is, Request
    <3> HIDE DEF c
    <3>4. CASE Taking(db, c, work[p], todo[p])
      <4>1. c.ask.items \in Items
        BY <3>3, <3>4 DEF Taking, Conf, Ask
      <4>2. \A s \in Sku : c.ask.items[s] \in Int
        BY <4>1, LedgerAssumption DEF Items
      <4>3. \A s \in Sku : c.ask.items[s] # 0 /\ s \notin todo[p] => db.stock[s] # None
        BY <3>4 DEF Taking, Lines, Quoted
      <4>4. QED BY <1>2, <3>4, <4>2, <4>3 DEF Taking
    <3>5. CASE Returning(db, c, work[p], todo[p])
      <4>1. c.snap \in Order
        <5>1. Coherent(db) /\ req[p].op \in Op /\ c.ask.action = "cancel" /\ c # None
          BY <3>1, <3>2, <3>3, <3>5, LedgerAssumption DEF LInv, Returning, Request
        <5>2. QED BY <5>1 DEF Coherent, c
      <4>2. \A s \in Sku : c.snap.items[s] \in Int
        BY <4>1, LedgerAssumption DEF Items, Order
      <4>3. \A s \in Sku : c.snap.items[s] # 0 /\ s \notin todo[p] => db.stock[s] # None
        BY <3>5 DEF Returning, Lines
      <4>4. QED BY <1>2, <3>5, <4>2, <4>3 DEF Returning
    <3>6. QED BY <3>1, <3>4, <3>5
  <2>3. CASE pc[p] = "commit"
    <3>1. Published(db, work[p])
      BY <2>3 DEF LInv, Transaction
    <3>2. QED BY <1>1, <3>1, ConservedKept DEF Conserved
  <2>4. QED BY <2>1, <2>2, <2>3 DEF InTransaction
<1>4. QED BY <1>1, <1>3, TypedTables

\* Every variable keeps its type, with any number of processes inside transactions.
THEOREM LedgerTyped == Spec => []TypeOK
<1>1. Init => Rest
  BY DEF Init, Rest, Carries
<1>2. LInv /\ Rest /\ Conserved(db) => TypeOK
  <2> SUFFICES ASSUME LInv, Rest, Conserved(db) PROVE TypeOK
    OBVIOUS
  <2>1. db \in Tables
    BY TypedTables DEF LInv, Conserved
  <2>2. \A p \in Proc : work[p] \in Tables \cup {None}
    BY TypedWork DEF Rest, Carries
  <2>3. \A p \in Proc : /\ pc[p] \in {"down", "idle", "begin", "body", "items", "commit"}
                        /\ req[p] \in Request \cup {None} /\ todo[p] \in SUBSET Sku
                        /\ catalog[p] \in Quotes \cup {None}
    BY DEF LInv, Typed, Rest, Carries
  <2>4. ASSUME NEW op \in Op, NEW a \in replied[op]
        PROVE  a \in {"approved", "rejected"} \X (OrderId \cup {None})
    <3>1. ~Undecided(db, op) /\ a = <<db.conf[op].status, db.conf[op].result>>
      BY DEF LInv, Told
    <3>2. db.conf[op] \in Conf
      BY <3>1 DEF LInv, Shape, Undecided
    <3>3. QED BY <3>1, <3>2 DEF Conf, Undecided
  <2>5. replied \in [Op -> SUBSET ({"approved", "rejected"} \X (OrderId \cup {None}))]
    BY <2>4 DEF LInv, Arrays
  <2>6. QED BY <2>1, <2>2, <2>3, <2>5 DEF TypeOK, LInv, Arrays, Rest
<1>3. LInv /\ Rest /\ [Next]_vars => Rest'
  BY RestStep
<1>4. QED BY <1>1, <1>2, <1>3, Invariance, Balance, PTL DEF Spec
=============================================================================
