----------------------------- MODULE TradeLedger -----------------------------
(***************************************************************************)
(* The SQLite trade ledger (trade_store.py) driven by several API          *)
(* processes through ConfirmationService.  A buyer's purchase or           *)
(* cancellation is first prepared as a pending confirmation that carries a *)
(* snapshot, and later resolved by the buyer; stock, orders, confirmations *)
(* and operation rows live in one database.                                *)
(*                                                                         *)
(* Every request runs in one transaction: BEGIN IMMEDIATE takes the write  *)
(* lock, statements change a private copy of the tables, COMMIT publishes  *)
(* the copy.  An exception or a cancelled coroutine rolls back at any      *)
(* await; a process may die at any point and the client may ask again, of  *)
(* any process, with any decision.                                         *)
(*                                                                         *)
(* Abstracted: addresses, titles, currencies and reasons (part of the      *)
(* quote or of the immutable snapshot); the request hash (equality of what *)
(* it digests) and the snapshot hash (a row's snapshot never changes, so a *)
(* wrong one only refuses the request); the clock (the set of operations   *)
(* whose deadline has passed).                                             *)
(***************************************************************************)
EXTENDS Integers, FiniteSetsExt

CONSTANTS Proc,     \* API processes sharing the database file
          Sku, Op,  \* SKUs; operation ids, one confirmation each
          OrderId, Buyer, Session,
          Price,    \* quotes of a SKU (price and currency)
          Catalogs, \* the catalogue versions that get deployed
          MaxQty,   \* bound: units of one line
          Baskets,  \* bound: the purchases that get asked for
          Seed,     \* [Sku -> Nat]: catalogue stock used when a row is created
          MaxInt,   \* _MAX_SQLITE_INT
          Legacy,   \* orders already in the database before the ledger existed
          None

VARIABLES db,       \* the committed tables
          lock,     \* the process holding the write lock, or None
          pc,       \* where each process is in its request
          req,      \* the request it is serving
          work,     \* its transaction's private copy of the tables
          todo,     \* SKUs its stock loop has still to change
          catalog,  \* the quotes its product repository loaded at start-up
          expired,  \* operations whose expires_at has passed
          replied   \* history: resolved confirmations returned to a client

vars == <<db, lock, pc, req, work, todo, catalog, expired, replied>>
-----------------------------------------------------------------------------
Owner == Buyer \X Session
Items == [Sku -> 0..MaxQty]
Quotes == [Sku -> Price]
Order == [buyer: Buyer, items: Items, price: Quotes,
          status: {"CONFIRMED", "CANCELLED"}]
Ask == [action: {"create"}, items: Items, price: Quotes]
         \cup [action: {"cancel"}, order: OrderId]
Conf == [owner: Owner, ask: Ask, snap: Order \cup {None},
         status: {"pending", "approved", "rejected"},
         result: OrderId \cup {None}]
Tables == [stock: [Sku -> Int \cup {None}], quote: [Sku -> Price \cup {None}],
           conf: [Op -> Conf \cup {None}], order: [OrderId -> Order \cup {None}],
           operation: [Op -> {None, "approved", "rejected"}]]
Request == [kind: {"prepare"}, op: Op, owner: Owner, ask: Ask]
             \cup [kind: {"resolve"}, op: Op, owner: Owner,
                   decision: {"approved", "rejected"}]
             \cup [kind: {"init"}]

\* Identifiers of orders are strings of one length, so there are finitely many.
ASSUME LedgerAssumption ==
  /\ IsFiniteSet(OrderId)
  /\ None \notin Proc \cup Int \cup Price \cup OrderId \cup Tables \cup Request
  /\ None \notin Conf \cup Order \cup {"approved", "rejected"}
  /\ None \notin [items: Items, status: {"CONFIRMED", "CANCELLED"}]
  /\ Catalogs \subseteq Quotes /\ Baskets \subseteq Items
  /\ MaxQty \in Nat \ {0} /\ MaxInt \in Nat
  /\ Seed \in [Sku -> 0..MaxInt]
  /\ Legacy \in [OrderId -> {o \in Order : o.status = "CONFIRMED"} \cup {None}]
-----------------------------------------------------------------------------
Lines(items) == {s \in Sku : items[s] # 0}

\* Units of s that each order of table t holds: confirmed and not cancelled.
Held(t, s) == [o \in OrderId |->
                IF t.order[o] # None /\ t.order[o].status = "CONFIRMED"
                THEN t.order[o].items[s] ELSE 0]
Occupied(t, s) == SumFunction(Held(t, s))

\* _quoted_inventory: the row exists and still has the quoted price.
Quoted(t, price, s) == t.stock[s] # None /\ t.quote[s] = price[s]

\* _owned_order
Owns(t, o, buyer) == t.order[o] # None /\ t.order[o].buyer = buyer
-----------------------------------------------------------------------------
Init ==
  /\ db = [stock |-> [s \in Sku |-> None], quote |-> [s \in Sku |-> None],
           conf |-> [op \in Op |-> None], order |-> Legacy,
           operation |-> [op \in Op |-> None]]
  /\ lock = None
  /\ pc = [p \in Proc |-> "down"]
  /\ req = [p \in Proc |-> None]
  /\ work = [p \in Proc |-> None]
  /\ todo = [p \in Proc |-> {}]
  /\ catalog = [p \in Proc |-> None]
  /\ expired = {}
  /\ replied = [op \in Op |-> {}]

Accept(p, r) ==
  /\ pc' = [pc EXCEPT ![p] = "begin"]
  /\ req' = [req EXCEPT ![p] = r]
  /\ UNCHANGED <<db, lock, work, todo, expired, replied>>

\* A process starts, perhaps with a newer catalogue, and runs initialize_inventory.
Start(p, prices) ==
  /\ pc[p] = "down"
  /\ catalog' = [catalog EXCEPT ![p] = prices]
  /\ Accept(p, [kind |-> "init"])

\* prepare_order: quotes come from the process's own catalogue and the stock test
\* reads committed data outside the transaction.  The service draws a new operation
\* id for each call; the store's interface also lets a caller repeat one.
PrepareOrder(p, op, owner, items) ==
  /\ pc[p] = "idle"
  /\ Lines(items) # {}
  /\ \A s \in Lines(items) : db.stock[s] # None /\ db.stock[s] >= items[s]
  /\ Accept(p, [kind |-> "prepare", op |-> op, owner |-> owner,
                ask |-> [action |-> "create", items |-> items, price |-> catalog[p]]])
  /\ UNCHANGED catalog

PrepareCancel(p, op, owner, o) ==
  /\ pc[p] = "idle"
  /\ Owns(db, o, owner[1])
  /\ Accept(p, [kind |-> "prepare", op |-> op, owner |-> owner,
                ask |-> [action |-> "cancel", order |-> o]])
  /\ UNCHANGED catalog

\* The confirmation's id comes from a committed answer, so its row exists.
Resolve(p, op, owner, decision) ==
  /\ pc[p] = "idle"
  /\ db.conf[op] # None
  /\ Accept(p, [kind |-> "resolve", op |-> op, owner |-> owner, decision |-> decision])
  /\ UNCHANGED catalog
-----------------------------------------------------------------------------
\* Faulty variant of Begin: a deferred transaction reads before it has the write lock.
BeginDeferred(p) ==
  /\ pc[p] = "begin"
  /\ lock' = p
  /\ work' = [work EXCEPT ![p] = db]
  /\ pc' = [pc EXCEPT ![p] = "body"]
  /\ UNCHANGED <<db, req, todo, catalog, expired, replied>>

Begin(p) ==
  /\ pc[p] = "begin"
  /\ lock = None
  /\ lock' = p
  /\ work' = [work EXCEPT ![p] = db]
  /\ pc' = [pc EXCEPT ![p] = "body"]
  /\ UNCHANGED <<db, req, todo, catalog, expired, replied>>

\* Statements of a transaction leave process p at "next" with tables t.
Write(p, t, next, left) ==
  /\ work' = [work EXCEPT ![p] = t]
  /\ pc' = [pc EXCEPT ![p] = next]
  /\ todo' = [todo EXCEPT ![p] = left]
  /\ UNCHANGED <<db, lock, req, catalog, expired, replied>>

\* Faulty variant of InitBody: a restart seeds every row again.
InitReseed(p) ==
  LET t == work[p] IN
  /\ pc[p] = "body" /\ req[p].kind = "init"
  /\ \A s \in Sku : Occupied(t, s) <= Seed[s]
  /\ Write(p, [t EXCEPT !.stock = Seed, !.quote = catalog[p]], "commit", {})

\* Existing rows keep their stock and take the new quote; missing ones start at the
\* seed less what confirmed orders already hold.
InitBody(p) ==
  LET t == work[p] IN
  /\ pc[p] = "body" /\ req[p].kind = "init"
  /\ \A s \in Sku : t.stock[s] = None => Occupied(t, s) <= Seed[s]
  /\ Write(p, [t EXCEPT !.stock = [s \in Sku |-> IF t.stock[s] = None
                                     THEN Seed[s] - Occupied(t, s) ELSE t.stock[s]],
                        !.quote = catalog[p]],
           "commit", {})

\* The operation id is already stored for this owner and request: answer with it.
PrepareAgain(p) ==
  LET t == work[p]  r == req[p] IN
  /\ pc[p] = "body" /\ r.kind = "prepare"
  /\ t.conf[r.op] # None
  /\ t.conf[r.op].owner = r.owner /\ t.conf[r.op].ask = r.ask
  /\ Write(p, t, "commit", {})

PrepareBody(p) ==
  LET t == work[p]  r == req[p] IN
  /\ pc[p] = "body" /\ r.kind = "prepare"
  /\ t.conf[r.op] = None
  /\ r.op \notin expired
  /\ r.ask.action = "create" =>
       \A s \in Lines(r.ask.items) :
         Quoted(t, r.ask.price, s) /\ t.stock[s] >= r.ask.items[s]
  /\ r.ask.action = "cancel" =>
       Owns(t, r.ask.order, r.owner[1]) /\ t.order[r.ask.order].status = "CONFIRMED"
  /\ Write(p, [t EXCEPT !.conf[r.op] =
                 [owner |-> r.owner, ask |-> r.ask, status |-> "pending", result |-> None,
                  snap |-> IF r.ask.action = "cancel" THEN t.order[r.ask.order] ELSE None]],
           "commit", {})

\* What resolve_confirmation checks of the stored row before it looks at its status.
Presented(p) ==
  LET c == work[p].conf[req[p].op] IN
  /\ pc[p] = "body" /\ req[p].kind = "resolve"
  /\ c # None
  /\ c.owner = req[p].owner

\* Already resolved the same way: the stored result is the answer, expired or not.
ResolveAgain(p) ==
  /\ Presented(p)
  /\ work[p].conf[req[p].op].status = req[p].decision
  /\ Write(p, work[p], "commit", {})

\* Faulty variant of Decided: the operation row is forgotten.
DecidedNoRow(t, op, decision, result) ==
  [t EXCEPT !.conf[op].status = decision, !.conf[op].result = result]

\* Record the decision, its result and the operation row.
Decided(t, op, decision, result) ==
  [t EXCEPT !.conf[op].status = decision, !.conf[op].result = result,
            !.operation[op] = decision]

\* Faulty variant of Pending: an earlier decision can be replaced.
PendingOrDecided(p) ==
  /\ Presented(p)
  /\ work[p].conf[req[p].op].status # req[p].decision
  /\ req[p].op \notin expired

Pending(p) ==
  /\ Presented(p)
  /\ work[p].conf[req[p].op].status = "pending"
  /\ req[p].op \notin expired

ResolveReject(p) ==
  /\ Pending(p)
  /\ req[p].decision = "rejected"
  /\ Write(p, Decided(work[p], req[p].op, "rejected", None), "commit", {})

\* Faulty variant of ResolveApprove: the order's state is not compared with the snapshot.
ApproveUncompared(p) ==
  LET t == work[p]  c == t.conf[req[p].op] IN
  /\ Pending(p)
  /\ req[p].decision = "approved"
  /\ \/ /\ c.ask.action = "create"
        /\ Write(p, t, "items", Lines(c.ask.items))
     \/ /\ c.ask.action = "cancel"
        /\ Write(p, [t EXCEPT !.order[c.ask.order].status = "CANCELLED"],
                 "items", Lines(c.snap.items))

ResolveApprove(p) ==
  LET t == work[p]  c == t.conf[req[p].op] IN
  /\ Pending(p)
  /\ req[p].decision = "approved"
  /\ \/ /\ c.ask.action = "create"
        /\ Write(p, t, "items", Lines(c.ask.items))
     \/ /\ c.ask.action = "cancel"
        /\ t.order[c.ask.order] = c.snap
        /\ Write(p, [t EXCEPT !.order[c.ask.order].status = "CANCELLED"],
                 "items", Lines(c.snap.items))

\* Faulty variant of TakeItem: the quote is not compared again.
TakeUnquoted(p, s) ==
  LET t == work[p]  a == t.conf[req[p].op].ask IN
  /\ pc[p] = "items" /\ s \in todo[p] /\ a.action = "create"
  /\ t.stock[s] >= a.items[s]
  /\ Write(p, [t EXCEPT !.stock[s] = @ - a.items[s]], "items", todo[p] \ {s})

\* One conditional UPDATE of _create_order's loop.
TakeItem(p, s) ==
  LET t == work[p]  a == t.conf[req[p].op].ask IN
  /\ pc[p] = "items" /\ s \in todo[p] /\ a.action = "create"
  /\ Quoted(t, a.price, s)
  /\ t.stock[s] >= a.items[s]
  /\ Write(p, [t EXCEPT !.stock[s] = @ - a.items[s]], "items", todo[p] \ {s})

\* One conditional UPDATE of _cancel_order's loop.
ReturnItem(p, s) ==
  LET t == work[p]  c == t.conf[req[p].op] IN
  /\ pc[p] = "items" /\ s \in todo[p] /\ c.ask.action = "cancel"
  /\ t.stock[s] # None
  /\ t.stock[s] <= MaxInt - c.snap.items[s]
  /\ Write(p, [t EXCEPT !.stock[s] = @ + c.snap.items[s]], "items", todo[p] \ {s})

FinishCreate(p, o) ==
  LET t == work[p]  r == req[p]  c == t.conf[r.op] IN
  /\ pc[p] = "items" /\ todo[p] = {} /\ c.ask.action = "create"
  /\ t.order[o] = None
  /\ t.operation[r.op] = None
  /\ Write(p, [Decided(t, r.op, "approved", o) EXCEPT !.order[o] =
                 [buyer |-> r.owner[1], items |-> c.ask.items,
                  price |-> c.ask.price, status |-> "CONFIRMED"]], "commit", {})

\* Faulty variant of FinishCancel: the result is the order's snapshot, not its id.
FinishWithSnapshot(p) ==
  LET t == work[p]  r == req[p]  c == t.conf[r.op] IN
  /\ pc[p] = "items" /\ todo[p] = {} /\ c.ask.action = "cancel"
  /\ Write(p, Decided(t, r.op, "approved", c.snap), "commit", {})

FinishCancel(p) ==
  LET t == work[p]  r == req[p]  c == t.conf[r.op] IN
  /\ pc[p] = "items" /\ todo[p] = {} /\ c.ask.action = "cancel"
  /\ t.operation[r.op] = None
  /\ Write(p, Decided(t, r.op, "approved", c.ask.order), "commit", {})

Forget(p, next) ==
  /\ pc' = [pc EXCEPT ![p] = next]
  /\ req' = [req EXCEPT ![p] = None]
  /\ work' = [work EXCEPT ![p] = None]
  /\ todo' = [todo EXCEPT ![p] = {}]

\* COMMIT publishes the copy.  The answer was read inside the transaction; it may
\* still be lost on the way to the client, and a failed event publish changes nothing.
Commit(p) ==
  LET c == work[p].conf[req[p].op] IN
  /\ pc[p] = "commit"
  /\ db' = work[p]
  /\ lock' = None
  /\ \/ UNCHANGED replied
     \/ /\ req[p].kind = "resolve"
        /\ replied' = [replied EXCEPT ![req[p].op] = @ \cup {<<c.status, c.result>>}]
  /\ Forget(p, "idle")
  /\ UNCHANGED <<catalog, expired>>

Unlock(p) == lock' = IF lock = p THEN None ELSE lock

\* A failed check, a database error, a busy timeout or a cancelled coroutine.
\* A failure of initialize_inventory aborts the start-up.
Rollback(p) ==
  /\ pc[p] \in {"begin", "body", "items", "commit"}
  /\ Unlock(p)
  /\ Forget(p, IF req[p].kind = "init" THEN "down" ELSE "idle")
  /\ UNCHANGED <<db, catalog, expired, replied>>

Crash(p) ==
  /\ pc[p] # "down"
  /\ Unlock(p)
  /\ Forget(p, "down")
  /\ catalog' = [catalog EXCEPT ![p] = None]
  /\ UNCHANGED <<db, expired, replied>>

\* The deadline exists from the moment the confirmation is asked for.
Expire(op) ==
  /\ op \notin expired
  /\ \/ db.conf[op] # None
     \/ \E p \in Proc : pc[p] = "begin" /\ req[p].kind = "prepare" /\ req[p].op = op
  /\ expired' = expired \cup {op}
  /\ UNCHANGED <<db, lock, pc, req, work, todo, catalog, replied>>
-----------------------------------------------------------------------------
Statement(p) ==
  \/ InitBody(p) \/ PrepareAgain(p) \/ PrepareBody(p)
  \/ ResolveAgain(p) \/ ResolveReject(p) \/ ResolveApprove(p)
  \/ \E s \in Sku : TakeItem(p, s) \/ ReturnItem(p, s)
  \/ FinishCancel(p) \/ \E o \in OrderId : FinishCreate(p, o)

Serve(p) == Begin(p) \/ Statement(p) \/ Commit(p)

Client(p) ==
  \/ \E prices \in Catalogs : Start(p, prices)
  \/ \E op \in Op, owner \in Owner :
       \/ \E items \in Baskets : PrepareOrder(p, op, owner, items)
       \/ \E o \in OrderId : PrepareCancel(p, op, owner, o)
       \/ \E decision \in {"approved", "rejected"} : Resolve(p, op, owner, decision)

Next ==
  \/ \E p \in Proc : Client(p) \/ Serve(p) \/ Rollback(p) \/ Crash(p)
  \/ \E op \in Op : Expire(op)

Spec == Init /\ [][Next]_vars
-----------------------------------------------------------------------------
\* Every variable keeps its type; committed stock and confirmation rows are well formed.
TypeOK ==
  /\ db \in Tables
  /\ lock \in Proc \cup {None}
  /\ pc \in [Proc -> {"down", "idle", "begin", "body", "items", "commit"}]
  /\ req \in [Proc -> Request \cup {None}]
  /\ work \in [Proc -> Tables \cup {None}]
  /\ todo \in [Proc -> SUBSET Sku]
  /\ catalog \in [Proc -> Quotes \cup {None}]
  /\ expired \in SUBSET Op
  /\ replied \in [Op -> SUBSET ({"approved", "rejected"} \X (OrderId \cup {None}))]

\* Units are neither lost nor made: what is left of a SKU and what its confirmed
\* orders hold add up to the catalogue seed, over sales, cancellations, failed
\* loops, crashes, restarts with a new catalogue and orders older than the ledger.
StockConserved ==
  \A s \in Sku : db.stock[s] # None =>
    db.stock[s] >= 0 /\ db.stock[s] + Occupied(db, s) = Seed[s]

\* The confirmations of t that were approved for action a with order o as result.
ApprovedFor(t, a, o) ==
  {op \in Op : /\ t.conf[op] # None
               /\ t.conf[op].status = "approved"
               /\ t.conf[op].ask.action = a
               /\ t.conf[op].result = o}

\* Every order outside the legacy ones was bought by exactly one approved
\* confirmation, and a cancelled one was cancelled by exactly one: repeated,
\* concurrent and retried resolutions never trade twice.
TradedOnce ==
  \A o \in OrderId :
    /\ Cardinality(ApprovedFor(db, "create", o)) =
         IF db.order[o] # None /\ Legacy[o] = None THEN 1 ELSE 0
    /\ Cardinality(ApprovedFor(db, "cancel", o)) =
         IF db.order[o] # None /\ db.order[o].status = "CANCELLED" THEN 1 ELSE 0

\* An answer a client got about a resolved confirmation stays the stored truth:
\* no later retry, conflicting decision, expiry or crash may contradict it.
RepliesDurable ==
  \A op \in Op : \A a \in replied[op] :
    db.conf[op] # None /\ a = <<db.conf[op].status, db.conf[op].result>>

\* The operation table and the confirmation table tell the same story.
OperationsAgree ==
  \A op \in Op :
    db.operation[op] = IF db.conf[op] = None \/ db.conf[op].status = "pending"
                       THEN None ELSE db.conf[op].status

\* An order is committed only at quotes that are the database's quotes at that very
\* step, though they were read long before, outside the transaction.
SoldAtQuote ==
  \A o \in OrderId : db.order[o] = None /\ db'.order[o] # None =>
    \A s \in Lines(db'.order[o].items) : db.quote[s] = db'.order[o].price[s]
NoStalePrice == [][SoldAtQuote]_vars

\* The committed tables behave as the atomic ledger.
Atomic == INSTANCE AtomicLedger WITH
  stock <- db.stock,
  status <- [op \in Op |-> IF db.conf[op] = None THEN None ELSE db.conf[op].status],
  book <- [o \in OrderId |-> IF db.order[o] = None THEN None
             ELSE [items |-> db.order[o].items, status |-> db.order[o].status]]

\* Whatever processes, transactions and failures do, the committed tables move only by
\* the atomic ledger's steps: decision, stock and order together, or not at all.
RefinesAtomicLedger == Atomic!Spec
=============================================================================
