---------------------------- MODULE AtomicLedger ----------------------------
(***************************************************************************)
(* What the trade ledger promises its callers: every confirmation is       *)
(* decided at most once, and a decision, the stock it moves and the order  *)
(* it writes change together or not at all.  There are no processes, locks *)
(* or transactions here; TradeLedger is shown to implement this module.    *)
(***************************************************************************)
EXTENDS Integers

CONSTANTS Sku, Op, OrderId, None

VARIABLES stock,   \* [Sku -> Nat or None]: units left, None before the row exists
          status,  \* [Op -> None, "pending", "approved" or "rejected"]
          book     \* [OrderId -> None or [items, status]]

vars == <<stock, status, book>>

Propose(op) ==
  /\ status[op] = None
  /\ status' = [status EXCEPT ![op] = "pending"]
  /\ UNCHANGED <<stock, book>>

Reject(op) ==
  /\ status[op] = "pending"
  /\ status' = [status EXCEPT ![op] = "rejected"]
  /\ UNCHANGED <<stock, book>>

Approve(op) ==
  /\ status[op] = "pending"
  /\ status' = [status EXCEPT ![op] = "approved"]

\* One approval of a purchase: one new order, and exactly its units leave the stock.
Sell(op, o) ==
  /\ Approve(op)
  /\ book[o] = None
  /\ book'[o] # None
  /\ book'[o].status = "CONFIRMED"
  /\ book' = [book EXCEPT ![o] = book'[o]]
  /\ \A s \in Sku : book'[o].items[s] # 0 =>
       stock[s] # None /\ stock[s] >= book'[o].items[s]
  /\ stock' = [s \in Sku |-> IF book'[o].items[s] = 0 THEN stock[s]
                             ELSE stock[s] - book'[o].items[s]]

\* One approval of a cancellation: the order closes and exactly its units return.
Refund(op, o) ==
  /\ Approve(op)
  /\ book[o] # None
  /\ book[o].status = "CONFIRMED"
  /\ book' = [book EXCEPT ![o].status = "CANCELLED"]
  /\ \A s \in Sku : book[o].items[s] # 0 => stock[s] # None
  /\ stock' = [s \in Sku |-> IF book[o].items[s] = 0 THEN stock[s]
                             ELSE stock[s] + book[o].items[s]]

\* Start-up creates the rows that do not exist yet and leaves the others alone.
Open ==
  /\ \A s \in Sku : stock[s] # None => stock'[s] = stock[s]
  /\ UNCHANGED <<status, book>>

Init ==
  /\ stock = [s \in Sku |-> None]
  /\ status = [op \in Op |-> None]
  /\ \A o \in OrderId : book[o] = None \/ book[o].status = "CONFIRMED"

Next ==
  \/ \E op \in Op : Propose(op) \/ Reject(op)
  \/ \E op \in Op, o \in OrderId : Sell(op, o) \/ Refund(op, o)
  \/ Open

Spec == Init /\ [][Next]_vars
=============================================================================
