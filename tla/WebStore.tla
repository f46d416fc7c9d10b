------------------------------ MODULE WebStore ------------------------------
(***************************************************************************)
(* The SQLite tables behind the web application's in-process backend       *)
(* (apps/web/src/lib/serverDb.ts) and the statements that write them.      *)
(*                                                                         *)
(* A table is a set of rows.  Every writer is an INSERT OR REPLACE: a row  *)
(* that agrees with the new one on the primary key or on any UNIQUE column *)
(* of lib/catalogSchema.ts is deleted before the new row goes in.          *)
(***************************************************************************)
EXTENDS Naturals, FiniteSets

\* INSERT OR REPLACE INTO table: keys are the PRIMARY KEY and UNIQUE columns.
Replace(table, row, keys) ==
  {r \in table : \A k \in keys : r[k] # row[k]} \cup {row}

OrderKeys == {"id", "number", "checkout", "payment"}
PaymentKeys == {"id"}
CheckoutKeys == {"id"}
AuthKeys == {"id", "checkout"}

SaveOrder(table, row) == Replace(table, row, OrderKeys)
SavePayment(table, row) == Replace(table, row, PaymentKeys)
SaveCheckout(table, row) == Replace(table, row, CheckoutKeys)
SaveAuthorization(table, row) == Replace(table, row, AuthKeys)

Row(table, id) == CHOOSE r \in table : r.id = id
Has(table, id) == \E r \in table : r.id = id

\* approveAuthorization and rejectAuthorization: the UPDATE names the row by
\* its id alone.
SetStatus(table, id, s) ==
  {IF r.id = id THEN [r EXCEPT !.status = s] ELSE r : r \in table}

\* getOrderById and getPaymentById answer the row or null; listOrders gives
\* the rows newest first, limit of them after offset.  Rows of one instant
\* come in any order the engine likes; the model breaks the tie by number.
Newer(a, b) ==
  \/ a.at > b.at
  \/ a.at = b.at /\ a.seq > b.seq

ListOrders(table, limit, offset) ==
  {r \in table :
     LET before == Cardinality({b \in table : Newer(b, r)})
     IN  before >= offset /\ before < offset + limit}

=============================================================================
