----------------------------- MODULE Inventory -----------------------------
(***************************************************************************)
(* The stock of items, the loans of returnable items to members, and the   *)
(* ledger that records every movement.                                     *)
(*                                                                         *)
(* Every operation runs in runSerializableTransaction: it reads, computes  *)
(* what to write from what it read, and commits; when the database reports *)
(* that the rows have changed meanwhile, the whole callback runs again, at *)
(* most MaxAttempts times, on the same request object.  All operations on  *)
(* an item write its row, so any two of them that overlap conflict.        *)
(***************************************************************************)
EXTENDS Integers, Sequences, FiniteSets, Functions

CONSTANTS
  Item, NoItem,
  Loan, NoLoan,    \* the assignments that can be made (bound: their number)
  Caller,          \* the requests of managers that may be under way at once
  MaxAttempts,     \* MAX_TRANSACTION_RETRIES
  MaxQuantity,     \* the largest value of the integer columns
  MaxRows          \* bound: no new movement of an item once it has these

ASSUME NothingAssumption == NoItem \notin Item /\ NoLoan \notin Loan
ASSUME LoansAssumption == IsFiniteSet(Loan)
ASSUME QuantityAssumption == MaxQuantity \in Nat \ {0}
ASSUME AttemptsAssumption == MaxAttempts \in Nat \ {0}
ASSUME RowsAssumption == MaxRows \in Nat

VARIABLES
  item,     \* the inventory items
  loan,     \* the inventory assignments
  ledger,   \* the inventory transactions of each item, oldest first
  call      \* the requests under way, and what their transaction has read

vars == <<item, loan, ledger, call>>

Amount == 1..MaxQuantity
Quantity == 0..MaxQuantity

NoStock == [created |-> FALSE, quantity |-> 0, returnable |-> FALSE, active |-> FALSE]
Unlent == [item |-> NoItem, quantity |-> 0, returned |-> 0, closed |-> FALSE]

(* A request: `member` says whom it names, `returnable` and `active` are   *)
(* the flags an update asks for.                                           *)
Increase == {"STOCK_IN", "ADJUSTMENT_IN", "RETURN"}
Decrease == {"STOCK_OUT", "ADJUSTMENT_OUT", "ASSIGN"}
Naming == {"none", "eligible", "ineligible", "internalId"}

NoRequest == [op |-> "UPDATE", item |-> NoItem, loan |-> NoLoan, quantity |-> 0,
              member |-> "none", returnable |-> FALSE, active |-> FALSE]
Idle == [phase |-> "idle", request |-> NoRequest, attempt |-> 0, fresh |-> FALSE,
         seen |-> NoStock, lent |-> Unlent]

Init ==
  /\ item = [i \in Item |-> NoStock]
  /\ loan = [l \in Loan |-> Unlent]
  /\ ledger = [i \in Item |-> <<>>]
  /\ call = [c \in Caller |-> Idle]

Row(type, q, previous, resulting, l) ==
  [type |-> type, quantity |-> q, previous |-> previous, resulting |-> resulting, loan |-> l]

LoansOf(i) == {l \in Loan : loan[l].item = i}

(* Mistakes: each is a definition below with one plausible error, put in   *)
(* its place to see the property that catches it.                          *)
NeverConflicts(c) == FALSE
InStockByOne(q, stock) == q <= stock + 1
LastReturnOnly(returned, q) == q
AllIsReturned(returned, quantity) == returned > 0
-----------------------------------------------------------------------------
(* createItem: the opening balance is the first movement.                  *)
CreateItem(i, q, returnable) ==
  /\ ~item[i].created
  /\ item' = [item EXCEPT ![i] = [created |-> TRUE, quantity |-> q,
                                  returnable |-> returnable, active |-> TRUE]]
  /\ ledger' = IF q > 0
               THEN [ledger EXCEPT ![i] = Append(@, Row("STOCK_IN", q, 0, q, NoLoan))]
               ELSE ledger
  /\ UNCHANGED <<loan, call>>

(* What managers may ask for                                               *)
Movements(ops, loans, members) ==
  [op : ops, item : Item, loan : loans, quantity : Amount, member : members,
   returnable : {FALSE}, active : {FALSE}]

Updates ==
  [op : {"UPDATE"}, item : Item, loan : {NoLoan}, quantity : {0}, member : {"none"},
   returnable : BOOLEAN, active : BOOLEAN]

Requests ==
  Updates
  \cup Movements({"STOCK_IN", "ADJUSTMENT_IN", "ADJUSTMENT_OUT"}, {NoLoan}, {"none"})
  \cup Movements({"STOCK_OUT"}, {NoLoan}, {"none", "eligible", "ineligible"})
  \cup Movements({"ASSIGN"}, {NoLoan}, {"eligible", "ineligible"})
  \cup {r \in Movements({"RETURN"}, Loan, {"none"}) : loan[r.loan].item = r.item}

-----------------------------------------------------------------------------
(* A transaction reads, and may refuse                                     *)

InStock(q, stock) == q <= stock

Outstanding(i) == \E l \in LoansOf(i) : loan[l].returned < loan[l].quantity

(* The member is looked up by public id, so only "eligible" is found well. *)
(* An update that changes nothing writes nothing; one of an item's name,   *)
(* category or threshold alone would only make others run again.           *)
Refused(r) ==
  LET i == item[r.item] IN
  CASE r.op \in {"STOCK_IN", "ADJUSTMENT_IN"} -> ~i.active
    [] r.op = "ADJUSTMENT_OUT" -> ~i.active \/ ~InStock(r.quantity, i.quantity)
    [] r.op = "STOCK_OUT" -> \/ ~i.active \/ i.returnable \/ ~InStock(r.quantity, i.quantity)
                             \/ r.member = "ineligible"
    [] r.op = "ASSIGN" -> \/ ~i.active \/ ~i.returnable \/ ~InStock(r.quantity, i.quantity)
                          \/ r.member = "ineligible"
                          \/ LoansOf(NoItem) = {}   \* bound
    [] r.op = "RETURN" -> r.quantity > loan[r.loan].quantity - loan[r.loan].returned
    [] OTHER -> \/ i.returnable /\ ~r.returnable /\ Outstanding(r.item)
                \/ i.returnable = r.returnable /\ i.active = r.active

(* stockOut writes the member's internal id over the public one it was     *)
(* given, in the request itself; assign keeps it apart.                    *)
Resolved(r) ==
  IF r.op = "STOCK_OUT" /\ r.member = "eligible"
  THEN [r EXCEPT !.member = "internalId"] ELSE r

(* The callback, as far as its first write                                 *)
Read(c, r, attempt) ==
  /\ call' = [call EXCEPT ![c] =
       IF Refused(r) THEN Idle
       ELSE IF r.member = "internalId" THEN [Idle EXCEPT !.phase = "memberNotFound"]
       ELSE [phase |-> "writing", request |-> Resolved(r), attempt |-> attempt,
             fresh |-> TRUE, seen |-> item[r.item],
             lent |-> IF r.op = "RETURN" THEN loan[r.loan] ELSE Unlent]]
  /\ UNCHANGED <<item, loan, ledger>>

Ask(c, r) ==
  /\ call[c].phase \in {"idle", "memberNotFound"}
  /\ item[r.item].created
  /\ r.op = "UPDATE" \/ Len(ledger[r.item]) < MaxRows
  /\ Read(c, r, 1)

AskAgain(c) ==
  /\ call[c].phase = "retrying"
  /\ Read(c, call[c].request, call[c].attempt)

-----------------------------------------------------------------------------
(* ... and writes what follows from what it read, or runs again            *)

(* The database: a row read has been changed by a commit since.            *)
Conflicts(c) == ~call[c].fresh

Retry(c) ==
  /\ call[c].phase = "writing"
  /\ Conflicts(c)
  /\ call' = [call EXCEPT ![c] =
       IF call[c].attempt = MaxAttempts THEN Idle
       ELSE [Idle EXCEPT !.phase = "retrying", !.request = call[c].request,
                         !.attempt = call[c].attempt + 1]]
  /\ UNCHANGED <<item, loan, ledger>>

(* What the commit of c does to the other transactions, and to c           *)
Committed(c) ==
  [d \in Caller |->
     IF d = c THEN Idle
     ELSE IF call[d].request.item = call[c].request.item
          THEN [call[d] EXCEPT !.fresh = FALSE] ELSE call[d]]

CommitUpdate(c) ==
  LET r == call[c].request IN
  /\ call[c].phase = "writing" /\ ~Conflicts(c)
  /\ r.op = "UPDATE"
  /\ item' = [item EXCEPT ![r.item].returnable = r.returnable, ![r.item].active = r.active]
  /\ call' = Committed(c)
  /\ UNCHANGED <<loan, ledger>>

Resulting(op, previous, q) == IF op \in Increase THEN previous + q ELSE previous - q

ReturnedTotal(returned, q) == returned + q
FullyReturned(returned, quantity) == returned = quantity

Lent(i, q) == [item |-> i, quantity |-> q, returned |-> 0, closed |-> FALSE]

Moves(c, resulting, l) ==
  LET r == call[c].request IN
  /\ item' = [item EXCEPT ![r.item].quantity = resulting]
  /\ ledger' = [ledger EXCEPT ![r.item] =
                  Append(@, Row(r.op, r.quantity, call[c].seen.quantity, resulting, l))]
  /\ call' = Committed(c)

(* stockIn, stockOut, adjust; a number too large for its column is an      *)
(* error of the database, and nothing is written.                          *)
CommitStock(c) ==
  LET r == call[c].request
      resulting == Resulting(r.op, call[c].seen.quantity, r.quantity)
  IN
  /\ call[c].phase = "writing" /\ ~Conflicts(c)
  /\ r.op \in {"STOCK_IN", "STOCK_OUT", "ADJUSTMENT_IN", "ADJUSTMENT_OUT"}
  /\ resulting <= MaxQuantity
  /\ Moves(c, resulting, NoLoan)
  /\ UNCHANGED loan

CommitAssign(c) ==
  LET r == call[c].request
      resulting == Resulting(r.op, call[c].seen.quantity, r.quantity)
  IN
  /\ call[c].phase = "writing" /\ ~Conflicts(c)
  /\ r.op = "ASSIGN"
  /\ \E l \in LoansOf(NoItem) :
       /\ loan' = [loan EXCEPT ![l] = Lent(r.item, r.quantity)]
       /\ Moves(c, resulting, l)

CommitReturn(c) ==
  LET r == call[c].request
      resulting == Resulting(r.op, call[c].seen.quantity, r.quantity)
      returned == ReturnedTotal(call[c].lent.returned, r.quantity)
  IN
  /\ call[c].phase = "writing" /\ ~Conflicts(c)
  /\ r.op = "RETURN"
  /\ resulting <= MaxQuantity
  /\ loan' = [loan EXCEPT ![r.loan].returned = returned,
                          ![r.loan].closed = FullyReturned(returned, call[c].lent.quantity)]
  /\ Moves(c, resulting, r.loan)

Overflow(c) ==
  LET r == call[c].request IN
  /\ call[c].phase = "writing" /\ ~Conflicts(c)
  /\ r.op \in Increase
  /\ Resulting(r.op, call[c].seen.quantity, r.quantity) > MaxQuantity
  /\ call' = [call EXCEPT ![c] = Idle]
  /\ UNCHANGED <<item, loan, ledger>>

Next ==
  \/ \E i \in Item, q \in Quantity, ret \in BOOLEAN : CreateItem(i, q, ret)
  \/ \E c \in Caller, r \in Requests : Ask(c, r)
  \/ \E c \in Caller :
       AskAgain(c) \/ Retry(c) \/ CommitUpdate(c) \/ CommitStock(c) \/ CommitAssign(c)
       \/ CommitReturn(c) \/ Overflow(c)

Spec == Init /\ [][Next]_vars

-----------------------------------------------------------------------------
(* Properties *)

ItemType == [created : BOOLEAN, quantity : Quantity, returnable : BOOLEAN, active : BOOLEAN]
LoanType == [item : Item \cup {NoItem}, quantity : Quantity, returned : Quantity,
             closed : BOOLEAN]
RowType == [type : Increase \cup Decrease, quantity : Amount, previous : Quantity,
            resulting : Quantity, loan : Loan \cup {NoLoan}]
RequestType == [op : Increase \cup Decrease \cup {"UPDATE"}, item : Item \cup {NoItem},
                loan : Loan \cup {NoLoan}, quantity : Quantity, member : Naming,
                returnable : BOOLEAN, active : BOOLEAN]
CallType == [phase : {"idle", "writing", "retrying", "memberNotFound"}, request : RequestType,
             attempt : 0..MaxAttempts, fresh : BOOLEAN, seen : ItemType, lent : LoanType]

TypeOK ==
  /\ item \in [Item -> ItemType]
  /\ loan \in [Loan -> LoanType]
  /\ ledger \in [Item -> Seq(RowType)]
  /\ call \in [Caller -> CallType]

(* The ledger accounts for the stock: each row starts from the quantity    *)
(* the row before it ended with, the first from nothing, and the last ends *)
(* with what the item holds.  No two requests, however they overlap and    *)
(* are retried, record a movement of the same stock twice or lose one.     *)
Balance(i, n) == IF n = 0 THEN 0 ELSE ledger[i][n].resulting

LedgerIsTheStock ==
  \A i \in Item :
    /\ \A n \in 1..Len(ledger[i]) :
         LET row == ledger[i][n] IN
         /\ row.previous = Balance(i, n - 1)
         /\ row.resulting = Resulting(row.type, row.previous, row.quantity)
    /\ item[i].quantity = Balance(i, Len(ledger[i]))

(* What was ever stocked, less what left for good, is on the shelf or out  *)
(* on loan: assigning and returning move stock but neither make nor lose   *)
(* any, and what a loan says was returned is what came back.               *)
Moved(rows, types) ==
  SumFunctionOnSet([n \in 1..Len(rows) |-> rows[n].quantity],
                   {n \in 1..Len(rows) : rows[n].type \in types})

OnLoan(i) ==
  SumFunctionOnSet([l \in Loan |-> loan[l].quantity - loan[l].returned], LoansOf(i))

StockIsConserved ==
  \A i \in Item :
    item[i].quantity + OnLoan(i)
      = Moved(ledger[i], {"STOCK_IN", "ADJUSTMENT_IN"})
        - Moved(ledger[i], {"STOCK_OUT", "ADJUSTMENT_OUT"})

(* No more comes back from a loan than went out, and it is dated returned  *)
(* exactly when all of it is back: the three return states by which the    *)
(* assignments are listed do not overlap.                                  *)
LoansAddUp ==
  \A l \in Loan :
    /\ loan[l].returned <= loan[l].quantity
    /\ loan[l].item # NoItem => (loan[l].closed <=> loan[l].returned = loan[l].quantity)

(* While anything is out on loan its item stays returnable, even when it   *)
(* is assigned while an update turns returnability off.                    *)
OutstandingIsReturnable ==
  \A i \in Item : Outstanding(i) => item[i].returnable
=============================================================================
