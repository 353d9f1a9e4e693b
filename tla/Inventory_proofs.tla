-------------------------- MODULE Inventory_proofs --------------------------
(***************************************************************************)
(* Inventory, for any items, loans, callers and bounds: what a transaction *)
(* has read is still so when it may commit (Snapshot), and from that the   *)
(* stock, the loans and the ledger agree and no stock is made or lost.     *)
(***************************************************************************)
EXTENDS Inventory, FiniteSetTheorems, WellFoundedInduction, TLAPS

USE NothingAssumption, QuantityAssumption, AttemptsAssumption

(* What is asked is well formed, and stays so while loans are made.        *)
WellFormed(r) ==
  /\ r.item \in Item /\ item[r.item].created
  /\ r.op # "UPDATE" => r.quantity \in Amount
  /\ r.op = "RETURN" => r.loan \in Loan /\ loan[r.loan].item = r.item

RequestInv == \A c \in Caller : call[c].phase \in {"writing", "retrying"} => WellFormed(call[c].request)

(* What a request that may still commit has read and found to be so.       *)
Granted(c) ==
  LET r == call[c].request IN
  /\ call[c].seen = item[r.item]
  /\ r.op \in Decrease => r.quantity <= item[r.item].quantity
  /\ r.op = "ASSIGN" => item[r.item].returnable
  /\ r.op = "RETURN" => /\ call[c].lent = loan[r.loan]
                        /\ r.quantity <= loan[r.loan].quantity - loan[r.loan].returned
  /\ r.op = "UPDATE" => (item[r.item].returnable /\ ~r.returnable => ~Outstanding(r.item))

Snapshot == \A c \in Caller : call[c].phase = "writing" /\ call[c].fresh => Granted(c)

(* Only items that exist are lent.                                         *)
LoansExist == \A l \in Loan : loan[l].item # NoItem => item[loan[l].item].created

Inv == TypeOK /\ RequestInv /\ Snapshot /\ LoansExist /\ LoansAddUp /\ OutstandingIsReturnable

-----------------------------------------------------------------------------
(* A request that is enumerated has the type of its operation.             *)
LEMMA RequestsWellFormed ==
  ASSUME NEW r \in Requests, item[r.item].created
  PROVE  r \in RequestType /\ WellFormed(r)
<1>1. CASE r \in Updates
  <2>1. r.item \in Item /\ r.op = "UPDATE"
    BY <1>1 DEF Updates
  <2>2. r \in RequestType
    BY <1>1 DEF Updates, RequestType, Naming, Quantity
  <2> QED
    BY <2>1, <2>2 DEF WellFormed
<1>2. ASSUME NEW ops \in SUBSET ((Increase \cup Decrease) \ {"UPDATE"}),
             NEW loans \in SUBSET (Loan \cup {NoLoan}), NEW members \in SUBSET Naming,
             r \in Movements(ops, loans, members),
             r.op = "RETURN" => r.loan \in Loan /\ loan[r.loan].item = r.item
      PROVE  r \in RequestType /\ WellFormed(r)
  <2>1. r.item \in Item /\ r.quantity \in Amount
    BY <1>2 DEF Movements
  <2>2. r.op \in Increase \cup Decrease /\ r.loan \in Loan \cup {NoLoan} /\ r.member \in Naming
    BY <1>2 DEF Movements
  <2>3. r.returnable \in BOOLEAN /\ r.active \in BOOLEAN
    BY <1>2 DEF Movements
  <2>4. r.quantity \in Quantity
    BY <2>1 DEF Amount, Quantity
  <2>5. r \in RequestType
    BY <1>2, <2>1, <2>2, <2>3, <2>4 DEF RequestType, Movements
  <2> QED
    BY <1>2, <2>1, <2>5 DEF WellFormed
<1>3. CASE r \in Movements({"STOCK_IN", "ADJUSTMENT_IN", "ADJUSTMENT_OUT"}, {NoLoan}, {"none"})
  <2>1. r.op # "RETURN"
    BY <1>3 DEF Movements
  <2> QED
    BY <1>2, <1>3, <2>1 DEF Increase, Decrease, Naming
<1>4. CASE r \in Movements({"STOCK_OUT"}, {NoLoan}, {"none", "eligible", "ineligible"})
  <2>1. r.op # "RETURN"
    BY <1>4 DEF Movements
  <2> QED
    BY <1>2, <1>4, <2>1 DEF Increase, Decrease, Naming
<1>5. CASE r \in Movements({"ASSIGN"}, {NoLoan}, {"eligible", "ineligible"})
  <2>1. r.op # "RETURN"
    BY <1>5 DEF Movements
  <2> QED
    BY <1>2, <1>5, <2>1 DEF Increase, Decrease, Naming
<1>6. CASE r \in Movements({"RETURN"}, Loan, {"none"}) /\ loan[r.loan].item = r.item
  <2>1. r.loan \in Loan
    BY <1>6 DEF Movements
  <2> QED
    BY <1>2, <1>6, <2>1 DEF Increase, Decrease, Naming
<1> QED
  BY <1>1, <1>3, <1>4, <1>5, <1>6 DEF Requests

(* A caller without a request has the type of a call.                      *)
LEMMA IdleType == Idle \in CallType /\ Idle.phase = "idle"
BY DEF Idle, NoRequest, NoStock, Unlent, CallType, RequestType, ItemType, LoanType,
       Naming, Quantity

(* What an attempt leaves of its request: only a stock-out changes.        *)
LEMMA ResolvedIs ==
  ASSUME NEW r \in RequestType
  PROVE  /\ Resolved(r) \in RequestType
         /\ Resolved(r).op = r.op /\ Resolved(r).item = r.item /\ Resolved(r).loan = r.loan
         /\ Resolved(r).quantity = r.quantity /\ Resolved(r).returnable = r.returnable
         /\ Resolved(r).active = r.active
BY DEF Resolved, RequestType, Naming

-----------------------------------------------------------------------------
(* A reading keeps the types, and grants only what it found to be so.      *)
LEMMA ReadType ==
  ASSUME TypeOK, NEW c \in Caller, NEW r \in RequestType, WellFormed(r),
         NEW attempt \in 0..MaxAttempts, Read(c, r, attempt)
  PROVE  /\ TypeOK'
         /\ UNCHANGED <<item, loan, ledger>>
         /\ \A d \in Caller \ {c} : call'[d] = call[d]
         /\ call'[c].phase \in {"writing", "retrying"} =>
              /\ ~Refused(r)
              /\ call'[c].request = Resolved(r)
              /\ call'[c].seen = item[r.item]
              /\ r.op = "RETURN" => call'[c].lent = loan[r.loan]
<1> DEFINE new == call'[c]
<1>1. UNCHANGED <<item, loan, ledger>>
  BY DEF Read
<1>2. \A d \in Caller \ {c} : call'[d] = call[d]
  BY DEF Read, TypeOK
<1>3. new \in CallType => TypeOK'
  <2>1. call' = [call EXCEPT ![c] = new]
    BY DEF Read, TypeOK
  <2> QED
    BY <1>1, <2>1 DEF TypeOK
<1>4. CASE Refused(r)
  <2>1. new = Idle
    BY <1>4 DEF Read, TypeOK
  <2> QED
    BY <1>1, <1>2, <1>3, <2>1, IdleType
<1>5. CASE ~Refused(r) /\ r.member = "internalId"
  <2>1. new = [Idle EXCEPT !.phase = "memberNotFound"]
    BY <1>5 DEF Read, TypeOK
  <2>2. new \in CallType /\ new.phase = "memberNotFound"
    BY <2>1, IdleType DEF CallType
  <2> QED
    BY <1>1, <1>2, <1>3, <2>2
<1>6. CASE ~Refused(r) /\ r.member # "internalId"
  <2>1. new = [phase |-> "writing", request |-> Resolved(r), attempt |-> attempt,
               fresh |-> TRUE, seen |-> item[r.item],
               lent |-> IF r.op = "RETURN" THEN loan[r.loan] ELSE Unlent]
    BY <1>6 DEF Read, TypeOK
  <2>2. item[r.item] \in ItemType /\ (r.op = "RETURN" => loan[r.loan] \in LoanType)
    BY DEF TypeOK, WellFormed
  <2>3. Unlent \in LoanType
    BY DEF Unlent, LoanType, Quantity
  <2>4. attempt \in 0..MaxAttempts
    OBVIOUS
  <2>5. new \in CallType
    BY <2>1, <2>2, <2>3, <2>4, ResolvedIs DEF CallType
  <2>6. new.request = Resolved(r) /\ new.seen = item[r.item]
        /\ (r.op = "RETURN" => new.lent = loan[r.loan])
    BY <2>1
  <2> QED
    BY <1>1, <1>2, <1>3, <1>6, <2>5, <2>6
<1> QED
  BY <1>4, <1>5, <1>6

-----------------------------------------------------------------------------
(* A commit of c leaves nothing another request may still rely on changed: *)
(* those on the same item have lost their freshness.                       *)
LEMMA OthersKeepTheirSnapshot ==
  ASSUME Inv, NEW c \in Caller, call' = Committed(c),
         \A i \in Item : item[i].created => item'[i].created,
         \A i \in Item \ {call[c].request.item} : item'[i] = item[i],
         \A l \in Loan :
           \/ loan'[l] = loan[l]
           \/ loan'[l].item = call[c].request.item /\ loan[l].item \in {call[c].request.item, NoItem}
  PROVE  call' \in [Caller -> CallType] /\ RequestInv' /\ Snapshot'
<1> DEFINE i0 == call[c].request.item
<1>1. call' \in [Caller -> CallType]
  <2>1. ASSUME NEW d \in Caller PROVE [call[d] EXCEPT !.fresh = FALSE] \in CallType
    <3>1. call[d] \in CallType
      BY DEF Inv, TypeOK
    <3> QED
      BY <3>1 DEF CallType
  <2> QED
    BY <2>1, IdleType DEF Committed, Inv, TypeOK
<1>2. ASSUME NEW d \in Caller, call'[d].phase \in {"writing", "retrying"}
      PROVE  /\ d # c
             /\ call'[d].request = call[d].request /\ call'[d].phase = call[d].phase
             /\ call'[d].seen = call[d].seen /\ call'[d].lent = call[d].lent
             /\ call'[d].fresh => call[d].fresh /\ call[d].request.item # i0
  <2>1. d # c
    BY <1>2, IdleType DEF Committed
  <2> QED
    BY <2>1 DEF Committed, Inv, TypeOK, CallType
<1>3. ASSUME NEW d \in Caller, call'[d].phase \in {"writing", "retrying"}
      PROVE  WellFormed(call[d].request)'
  <2>1. WellFormed(call[d].request)
    BY <1>2, <1>3 DEF Inv, RequestInv
  <2> QED
    BY <1>2, <1>3, <2>1 DEF WellFormed
<1>4. ASSUME NEW d \in Caller, call'[d].phase = "writing", call'[d].fresh
      PROVE  Granted(d)'
  <2> DEFINE r == call[d].request
  <2>1. WellFormed(r) /\ Granted(d) /\ r.item # i0
    BY <1>2, <1>4 DEF Inv, RequestInv, Snapshot
  <2>2. item'[r.item] = item[r.item]
    BY <2>1 DEF WellFormed
  <2>3. r.op = "RETURN" => loan'[r.loan] = loan[r.loan]
    BY <2>1 DEF WellFormed
  <2>4. Outstanding(r.item)' => Outstanding(r.item)
    BY <1>2, <1>4, <2>1 DEF Outstanding, LoansOf, WellFormed
  <2> QED
    BY <1>2, <1>4, <2>1, <2>2, <2>3, <2>4 DEF Granted
<1> QED
  BY <1>1, <1>3, <1>4 DEF RequestInv, Snapshot

-----------------------------------------------------------------------------
(* What every action keeps                                                 *)

(* The empty inventory satisfies the invariant.                            *)
LEMMA InvInit == Init => Inv
<1> SUFFICES ASSUME Init PROVE Inv
  OBVIOUS
<1>1. TypeOK
  BY IdleType DEF Init, TypeOK, NoStock, Unlent, ItemType, LoanType, Quantity
<1>2. RequestInv /\ Snapshot
  BY IdleType DEF Init, RequestInv, Snapshot
<1>3. LoansExist /\ LoansAddUp /\ OutstandingIsReturnable
  BY DEF Init, LoansExist, LoansAddUp, OutstandingIsReturnable, Outstanding, LoansOf, Unlent
<1> QED
  BY <1>1, <1>2, <1>3 DEF Inv

(* Creating an item touches no row that a request has read.                *)
LEMMA CreateItemKeeps ==
  ASSUME Inv, NEW i \in Item, NEW q \in Quantity, NEW ret \in BOOLEAN, CreateItem(i, q, ret)
  PROVE  Inv'
<1> USE DEF Inv
<1>1. /\ ~item[i].created /\ UNCHANGED <<loan, call>>
      /\ item' = [item EXCEPT ![i] = [created |-> TRUE, quantity |-> q,
                                      returnable |-> ret, active |-> TRUE]]
  BY DEF CreateItem
<1>2. ledger' \in [Item -> Seq(RowType)]
  <2>1. q > 0 => Row("STOCK_IN", q, 0, q, NoLoan) \in RowType
    BY DEF Row, RowType, Increase, Amount, Quantity
  <2> QED
    BY <2>1 DEF CreateItem, TypeOK
<1>3. TypeOK'
  BY <1>1, <1>2 DEF TypeOK, ItemType
<1>4. \A k \in Item : item[k].created => item'[k] = item[k]
  BY <1>1 DEF TypeOK
<1>5. ASSUME NEW c \in Caller, WellFormed(call[c].request) PROVE WellFormed(call[c].request)'
  BY <1>1, <1>4, <1>5 DEF WellFormed
<1>6. RequestInv'
  BY <1>1, <1>5 DEF RequestInv
<1>7. Snapshot'
  <2> SUFFICES ASSUME NEW c \in Caller, call[c].phase = "writing", call[c].fresh
               PROVE  Granted(c)'
    BY <1>1 DEF Snapshot
  <2>1. Granted(c) /\ WellFormed(call[c].request)
    BY DEF Snapshot, RequestInv
  <2>2. item'[call[c].request.item] = item[call[c].request.item]
    BY <1>4, <2>1 DEF WellFormed
  <2>3. Outstanding(call[c].request.item)' <=> Outstanding(call[c].request.item)
    BY <1>1 DEF Outstanding, LoansOf
  <2> QED
    BY <1>1, <2>1, <2>2, <2>3 DEF Granted
<1>8. LoansExist' /\ LoansAddUp'
  BY <1>1, <1>4 DEF LoansExist, LoansAddUp, TypeOK, LoanType
<1>9. OutstandingIsReturnable'
  <2> SUFFICES ASSUME NEW k \in Item, Outstanding(k)' PROVE item'[k].returnable
    BY DEF OutstandingIsReturnable
  <2>1. Outstanding(k)
    BY <1>1 DEF Outstanding, LoansOf
  <2>2. item[k].created
    BY <2>1 DEF Outstanding, LoansOf, LoansExist
  <2> QED
    BY <1>4, <2>1, <2>2 DEF OutstandingIsReturnable
<1> QED
  BY <1>3, <1>6, <1>7, <1>8, <1>9

(* A transaction that reads gets a snapshot of the present rows.           *)
LEMMA ReadKeeps ==
  ASSUME Inv, NEW c \in Caller, NEW r \in RequestType, WellFormed(r),
         NEW attempt \in 0..MaxAttempts, Read(c, r, attempt)
  PROVE  Inv'
<1> USE DEF Inv
<1>1. /\ TypeOK'
      /\ UNCHANGED <<item, loan, ledger>>
      /\ \A d \in Caller \ {c} : call'[d] = call[d]
      /\ call'[c].phase \in {"writing", "retrying"} =>
           /\ ~Refused(r)
           /\ call'[c].request = Resolved(r)
           /\ call'[c].seen = item[r.item]
           /\ r.op = "RETURN" => call'[c].lent = loan[r.loan]
  BY ReadType
<1>2. LoansExist' /\ LoansAddUp' /\ OutstandingIsReturnable'
  BY <1>1 DEF LoansExist, LoansAddUp, OutstandingIsReturnable, Outstanding, LoansOf
<1>3. WellFormed(Resolved(r))
  BY ResolvedIs DEF WellFormed
<1>4. ASSUME NEW d \in Caller, call'[d].phase \in {"writing", "retrying"}
      PROVE  WellFormed(call[d].request)'
  <2>1. CASE d = c
    BY <1>1, <1>3, <1>4, <2>1 DEF WellFormed
  <2>2. CASE d # c
    <3>1. WellFormed(call[d].request) /\ call'[d].request = call[d].request
      BY <1>1, <1>4, <2>2 DEF RequestInv
    <3> QED
      BY <1>1, <3>1 DEF WellFormed
  <2> QED
    BY <2>1, <2>2
<1>5. ASSUME NEW d \in Caller, call'[d].phase = "writing", call'[d].fresh
      PROVE  Granted(d)'
  <2>1. \A i \in Item : Outstanding(i)' <=> Outstanding(i)
    BY <1>1 DEF Outstanding, LoansOf
  <2>2. CASE d = c
    <3>1. /\ ~Refused(r)
          /\ call'[c].request = Resolved(r) /\ call'[c].seen = item[r.item]
          /\ r.op = "RETURN" => call'[c].lent = loan[r.loan]
      BY <1>1, <1>5, <2>2
    <3>2. r.item \in Item /\ item[r.item] \in ItemType /\ r.quantity \in Int
      BY DEF WellFormed, TypeOK, RequestType, Quantity
    <3>3. /\ r.op \in Decrease => r.quantity <= item[r.item].quantity
          /\ r.op = "ASSIGN" => item[r.item].returnable
      BY <3>1 DEF Refused, Decrease, InStock
    <3>4. r.op = "RETURN" => r.quantity <= loan[r.loan].quantity - loan[r.loan].returned
      <4>1. r.op = "RETURN" => loan[r.loan] \in LoanType
        BY DEF TypeOK, WellFormed
      <4> QED
        BY <3>1, <3>2, <4>1 DEF Refused, LoanType, Quantity
    <3>5. r.op = "UPDATE" => (item[r.item].returnable /\ ~r.returnable => ~Outstanding(r.item))
      BY <3>1 DEF Refused
    <3> QED
      BY <1>1, <2>1, <2>2, <3>1, <3>2, <3>3, <3>4, <3>5, ResolvedIs DEF Granted
  <2>3. CASE d # c
    <3>1. Granted(d) /\ WellFormed(call[d].request) /\ call'[d] = call[d]
      BY <1>1, <1>5, <2>3 DEF Snapshot, RequestInv
    <3> QED
      BY <1>1, <2>1, <3>1 DEF Granted, WellFormed
  <2> QED
    BY <2>2, <2>3
<1>6. RequestInv' /\ Snapshot'
  BY <1>4, <1>5 DEF RequestInv, Snapshot
<1> QED
  BY <1>1, <1>2, <1>6

(* A transaction that gives up or will run again has changed nothing.      *)
LEMMA NothingWritten ==
  ASSUME Inv, NEW c \in Caller, Retry(c) \/ Overflow(c)
  PROVE  Inv'
<1> USE DEF Inv
<1> DEFINE new == call'[c]
<1>1. UNCHANGED <<item, loan, ledger>>
  BY DEF Retry, Overflow
<1>2. /\ call' = [call EXCEPT ![c] = new]
      /\ new \in CallType
      /\ new.phase # "writing"
      /\ new.phase = "retrying" => WellFormed(new.request)
  <2>1. WellFormed(call[c].request) /\ call[c] \in CallType
    BY DEF Retry, Overflow, RequestInv, TypeOK
  <2>2. CASE new = Idle
    BY <2>2, IdleType DEF Retry, Overflow, TypeOK
  <2>3. CASE new # Idle
    <3>1. /\ new = [Idle EXCEPT !.phase = "retrying", !.request = call[c].request,
                               !.attempt = call[c].attempt + 1]
          /\ call[c].attempt # MaxAttempts
          /\ call' = [call EXCEPT ![c] = new]
      BY <2>3 DEF Retry, Overflow, TypeOK
    <3>2. call[c].attempt + 1 \in 0..MaxAttempts /\ call[c].request \in RequestType
      BY <2>1, <3>1 DEF CallType
    <3>3. new \in CallType /\ new.phase = "retrying" /\ new.request = call[c].request
      BY <3>1, <3>2, IdleType DEF CallType
    <3> QED
      BY <2>1, <3>1, <3>3
  <2> QED
    BY <2>2, <2>3
<1> HIDE DEF new
<1>3. TypeOK'
  BY <1>1, <1>2 DEF TypeOK
<1>4. RequestInv'
  <2> SUFFICES ASSUME NEW d \in Caller, call'[d].phase \in {"writing", "retrying"}
               PROVE  WellFormed(call[d].request)'
    BY DEF RequestInv
  <2>1. WellFormed(call'[d].request)
    BY <1>2 DEF RequestInv, TypeOK
  <2> QED
    BY <1>1, <2>1 DEF WellFormed
<1>5. Snapshot'
  <2> SUFFICES ASSUME NEW d \in Caller, call'[d].phase = "writing", call'[d].fresh
               PROVE  Granted(d)'
    BY DEF Snapshot
  <2>1. Granted(d) /\ call'[d] = call[d]
    BY <1>2 DEF Snapshot, TypeOK
  <2> QED
    BY <1>1, <2>1 DEF Granted, Outstanding, LoansOf
<1>6. LoansExist' /\ LoansAddUp' /\ OutstandingIsReturnable'
  BY <1>1 DEF LoansExist, LoansAddUp, OutstandingIsReturnable, Outstanding, LoansOf
<1> QED
  BY <1>3, <1>4, <1>5, <1>6

(* What a request knows when it commits                                    *)
LEMMA AtCommit ==
  ASSUME Inv, NEW c \in Caller, call[c].phase = "writing", ~Conflicts(c)
  PROVE  /\ WellFormed(call[c].request) /\ Granted(c)
         /\ call[c] \in CallType /\ item[call[c].request.item] \in ItemType
BY DEF Inv, Conflicts, Snapshot, RequestInv, WellFormed, TypeOK, CallType

(* Switching returnability or activity keeps the invariant.                *)
LEMMA CommitUpdateKeeps ==
  ASSUME Inv, NEW c \in Caller, CommitUpdate(c)
  PROVE  Inv'
<1> USE DEF Inv
<1> DEFINE r == call[c].request
<1>1. /\ WellFormed(r) /\ Granted(c) /\ r \in RequestType /\ r.op = "UPDATE"
      /\ item' = [item EXCEPT ![r.item].returnable = r.returnable, ![r.item].active = r.active]
      /\ call' = Committed(c) /\ UNCHANGED <<loan, ledger>>
  BY AtCommit DEF CommitUpdate, CallType
<1>2. /\ item' \in [Item -> ItemType]
      /\ \A i \in Item : item'[i].created = item[i].created
      /\ \A i \in Item \ {r.item} : item'[i] = item[i]
      /\ item'[r.item].returnable = r.returnable
  <2> DEFINE new == [item[r.item] EXCEPT !.returnable = r.returnable, !.active = r.active]
  <2>1. item \in [Item -> ItemType] /\ r.item \in Item
    BY <1>1 DEF TypeOK, WellFormed
  <2>2. r.returnable \in BOOLEAN /\ r.active \in BOOLEAN
    BY <1>1 DEF RequestType
  <2>3. new \in ItemType /\ new.created = item[r.item].created /\ new.returnable = r.returnable
    BY <2>1, <2>2 DEF ItemType
  <2>4. item' = [item EXCEPT ![r.item] = new]
    BY <1>1, <2>1
  <2> QED
    BY <2>1, <2>3, <2>4
<1>3. call' \in [Caller -> CallType] /\ RequestInv' /\ Snapshot'
  BY <1>1, <1>2, OthersKeepTheirSnapshot
<1>4. TypeOK' /\ LoansExist' /\ LoansAddUp'
  <2>1. TypeOK'
    BY <1>1, <1>2, <1>3 DEF TypeOK
  <2>2. LoansExist'
    <3> SUFFICES ASSUME NEW l \in Loan, loan[l].item # NoItem
                 PROVE  item'[loan[l].item].created
      BY <1>1 DEF LoansExist
    <3>1. loan[l].item \in Item
      <4>1. loan[l] \in LoanType
        BY DEF TypeOK
      <4> QED
        BY <4>1 DEF LoanType
    <3>2. item[loan[l].item].created
      BY DEF LoansExist
    <3> QED
      BY <1>2, <3>1, <3>2
  <2>3. LoansAddUp'
    BY <1>1 DEF LoansAddUp
  <2> QED
    BY <2>1, <2>2, <2>3
<1>5. OutstandingIsReturnable'
  <2> SUFFICES ASSUME NEW k \in Item, Outstanding(k)' PROVE item'[k].returnable
    BY DEF OutstandingIsReturnable
  <2>1. Outstanding(k) /\ item[k].returnable
    BY <1>1 DEF Outstanding, LoansOf, OutstandingIsReturnable
  <2> QED
    BY <1>1, <1>2, <2>1 DEF Granted
<1> QED
  BY <1>3, <1>4, <1>5

(* The movement that every other commit makes                              *)
LEMMA MovesType ==
  ASSUME Inv, NEW c \in Caller, NEW l \in Loan \cup {NoLoan}, NEW resulting \in Quantity,
         call[c].phase = "writing", ~Conflicts(c), call[c].request.op # "UPDATE",
         Moves(c, resulting, l)
  PROVE  /\ item' \in [Item -> ItemType] /\ ledger' \in [Item -> Seq(RowType)]
         /\ item'[call[c].request.item].quantity = resulting
         /\ \A i \in Item : /\ item'[i].created = item[i].created
                            /\ item'[i].returnable = item[i].returnable
         /\ \A i \in Item \ {call[c].request.item} : item'[i] = item[i]
         /\ call' = Committed(c)
<1> DEFINE r == call[c].request
<1>1. /\ r.item \in Item /\ r.op \in Increase \cup Decrease /\ r.quantity \in Amount
      /\ call[c].seen \in ItemType
  BY AtCommit DEF WellFormed, CallType, RequestType
<1>2. Row(r.op, r.quantity, call[c].seen.quantity, resulting, l) \in RowType
  BY <1>1 DEF Row, RowType, ItemType
<1>3. ledger' \in [Item -> Seq(RowType)]
  BY <1>1, <1>2 DEF Moves, Inv, TypeOK
<1>4. item' = [item EXCEPT ![r.item].quantity = resulting] /\ call' = Committed(c)
  BY DEF Moves
<1> QED
  BY <1>1, <1>3, <1>4 DEF Inv, TypeOK, ItemType

(* A movement that passed its guards ends within the column.               *)
LEMMA MovedIsQuantity ==
  ASSUME Inv, NEW c \in Caller, call[c].phase = "writing", ~Conflicts(c),
         call[c].request.op # "UPDATE",
         call[c].request.op \in Increase =>
           Resulting(call[c].request.op, call[c].seen.quantity, call[c].request.quantity)
             <= MaxQuantity
  PROVE  Resulting(call[c].request.op, call[c].seen.quantity, call[c].request.quantity) \in Quantity
<1> DEFINE r == call[c].request
<1>1. /\ r.quantity \in Amount /\ call[c].seen.quantity \in Quantity
      /\ r.op \in Increase \cup Decrease
      /\ r.op \in Decrease => r.quantity <= call[c].seen.quantity
  BY AtCommit DEF WellFormed, Granted, ItemType, CallType, RequestType
<1> QED
  BY <1>1 DEF Resulting, Increase, Decrease, Amount, Quantity

(* A stock-in, stock-out or adjustment keeps the invariant.                *)
LEMMA CommitStockKeeps ==
  ASSUME Inv, NEW c \in Caller, CommitStock(c)
  PROVE  Inv'
<1> USE DEF Inv
<1> DEFINE r == call[c].request
           resulting == Resulting(r.op, call[c].seen.quantity, r.quantity)
<1>1. resulting \in Quantity
  BY MovedIsQuantity DEF CommitStock
<1> HIDE DEF resulting
<1>2. /\ item' \in [Item -> ItemType] /\ ledger' \in [Item -> Seq(RowType)]
      /\ \A i \in Item : /\ item'[i].created = item[i].created
                         /\ item'[i].returnable = item[i].returnable
      /\ \A i \in Item \ {r.item} : item'[i] = item[i]
      /\ call' = Committed(c) /\ loan' = loan
  BY <1>1, MovesType DEF CommitStock, resulting
<1>3. call' \in [Caller -> CallType] /\ RequestInv' /\ Snapshot'
  BY <1>2, OthersKeepTheirSnapshot
<1>4. TypeOK' /\ LoansExist' /\ LoansAddUp' /\ OutstandingIsReturnable'
  BY <1>2, <1>3 DEF TypeOK, LoansExist, LoansAddUp, LoanType, OutstandingIsReturnable,
                    Outstanding, LoansOf
<1> QED
  BY <1>3, <1>4

(* Lending keeps the invariant: the new loan is counted once.              *)
LEMMA CommitAssignKeeps ==
  ASSUME Inv, NEW c \in Caller, CommitAssign(c)
  PROVE  Inv'
<1> USE DEF Inv
<1> DEFINE r == call[c].request
           resulting == Resulting(r.op, call[c].seen.quantity, r.quantity)
<1>1. PICK l \in LoansOf(NoItem) :
        loan' = [loan EXCEPT ![l] = Lent(r.item, r.quantity)] /\ Moves(c, resulting, l)
  BY DEF CommitAssign
<1>2. /\ WellFormed(r) /\ Granted(c) /\ item[r.item] \in ItemType
      /\ call[c].phase = "writing" /\ ~Conflicts(c) /\ r.op = "ASSIGN"
  BY AtCommit DEF CommitAssign
<1>3. /\ r.quantity \in Amount /\ r.item \in Item /\ item[r.item].created
      /\ item[r.item].returnable /\ l \in Loan /\ loan[l].item = NoItem
  BY <1>2 DEF WellFormed, Granted, LoansOf
<1>4. resulting \in Quantity
  BY <1>2, MovedIsQuantity DEF Increase
<1> HIDE DEF resulting
<1>5. /\ item' \in [Item -> ItemType] /\ ledger' \in [Item -> Seq(RowType)]
      /\ \A i \in Item : /\ item'[i].created = item[i].created
                         /\ item'[i].returnable = item[i].returnable
      /\ \A i \in Item \ {r.item} : item'[i] = item[i]
      /\ call' = Committed(c)
  BY <1>1, <1>2, <1>3, <1>4, MovesType
<1>6. /\ Lent(r.item, r.quantity) \in LoanType
      /\ loan'[l] = Lent(r.item, r.quantity)
      /\ \A k \in Loan \ {l} : loan'[k] = loan[k]
  BY <1>1, <1>3 DEF Lent, LoanType, Amount, Quantity, TypeOK
<1>7. call' \in [Caller -> CallType] /\ RequestInv' /\ Snapshot'
  <2>1. \A k \in Loan :
          \/ loan'[k] = loan[k]
          \/ loan'[k].item = r.item /\ loan[k].item \in {r.item, NoItem}
    BY <1>3, <1>6 DEF Lent
  <2> QED
    BY <1>5, <2>1, OthersKeepTheirSnapshot
<1>8. TypeOK'
  <2>1. loan' \in [Loan -> LoanType]
    BY <1>1, <1>6 DEF TypeOK
  <2> QED
    BY <1>5, <1>7, <2>1 DEF TypeOK
<1>9. LoansExist'
  <2> SUFFICES ASSUME NEW k \in Loan, loan'[k].item # NoItem PROVE item'[loan'[k].item].created
    BY DEF LoansExist
  <2>1. CASE k = l
    BY <1>3, <1>5, <1>6, <2>1 DEF Lent
  <2>2. CASE k # l
    <3>1. loan'[k] = loan[k] /\ loan[k].item \in Item /\ item[loan[k].item].created
      BY <1>6, <2>2 DEF LoansExist, TypeOK, LoanType
    <3> QED
      BY <1>5, <3>1
  <2> QED
    BY <2>1, <2>2
<1>10. LoansAddUp'
  <2>1. /\ loan'[l].returned <= loan'[l].quantity
        /\ loan'[l].closed <=> loan'[l].returned = loan'[l].quantity
    BY <1>3, <1>6 DEF Lent, Amount
  <2> QED
    BY <1>6, <2>1 DEF LoansAddUp
<1>11. OutstandingIsReturnable'
  <2> SUFFICES ASSUME NEW k \in Item, Outstanding(k)', k # r.item PROVE item[k].returnable
    BY <1>3, <1>5 DEF OutstandingIsReturnable
  <2>1. Outstanding(k)
    BY <1>6 DEF Outstanding, LoansOf, Lent
  <2> QED
    BY <2>1 DEF OutstandingIsReturnable
<1> QED
  BY <1>7, <1>8, <1>9, <1>10, <1>11

(* A return, in part or in full, keeps the invariant.                      *)
LEMMA CommitReturnKeeps ==
  ASSUME Inv, NEW c \in Caller, CommitReturn(c)
  PROVE  Inv'
<1> USE DEF Inv
<1> DEFINE r == call[c].request
           k == r.loan
           resulting == Resulting(r.op, call[c].seen.quantity, r.quantity)
           returned == loan[k].returned + r.quantity
<1>1. /\ WellFormed(r) /\ Granted(c) /\ item[r.item] \in ItemType
      /\ call[c].phase = "writing" /\ ~Conflicts(c) /\ r.op = "RETURN"
      /\ resulting <= MaxQuantity /\ Moves(c, resulting, k)
  BY AtCommit DEF CommitReturn
<1>2. /\ r.quantity \in Amount /\ r.item \in Item /\ k \in Loan /\ loan[k].item = r.item
      /\ call[c].lent = loan[k] /\ loan[k] \in LoanType
      /\ r.quantity <= loan[k].quantity - loan[k].returned
  BY <1>1 DEF WellFormed, Granted, TypeOK
<1>3. loan' = [loan EXCEPT ![k].returned = returned,
                           ![k].closed = (returned = loan[k].quantity)]
  BY <1>2 DEF CommitReturn, ReturnedTotal, FullyReturned
<1>4. returned \in Quantity /\ returned <= loan[k].quantity
  BY <1>2 DEF Amount, Quantity, LoanType
<1>5. resulting \in Quantity
  BY <1>1, MovedIsQuantity
<1> HIDE DEF resulting, returned
<1>6. /\ item' \in [Item -> ItemType] /\ ledger' \in [Item -> Seq(RowType)]
      /\ \A i \in Item : /\ item'[i].created = item[i].created
                         /\ item'[i].returnable = item[i].returnable
      /\ \A i \in Item \ {r.item} : item'[i] = item[i]
      /\ call' = Committed(c)
  BY <1>1, <1>2, <1>5, MovesType
<1>7. /\ loan' \in [Loan -> LoanType]
      /\ loan'[k].item = r.item /\ loan'[k].quantity = loan[k].quantity
      /\ loan'[k].returned = returned /\ (loan'[k].closed <=> returned = loan[k].quantity)
      /\ \A j \in Loan \ {k} : loan'[j] = loan[j]
  BY <1>2, <1>3, <1>4 DEF TypeOK, LoanType
<1>8. call' \in [Caller -> CallType] /\ RequestInv' /\ Snapshot'
  <2>1. \A j \in Loan :
          \/ loan'[j] = loan[j]
          \/ loan'[j].item = r.item /\ loan[j].item \in {r.item, NoItem}
    BY <1>2, <1>7
  <2> QED
    BY <1>6, <2>1, OthersKeepTheirSnapshot
<1>9. TypeOK' /\ LoansExist'
  <2>1. TypeOK'
    BY <1>6, <1>7, <1>8 DEF TypeOK
  <2>2. item[r.item].created
    BY <1>1 DEF WellFormed
  <2>3. ASSUME NEW j \in Loan, loan'[j].item # NoItem PROVE item'[loan'[j].item].created
    <3>1. loan'[j].item = loan[j].item /\ loan[j].item \in Item /\ item[loan[j].item].created
      BY <1>2, <1>7, <2>2, <2>3 DEF LoansExist, TypeOK, LoanType
    <3> QED
      BY <1>6, <3>1
  <2> QED
    BY <2>1, <2>3 DEF LoansExist
<1>10. LoansAddUp'
  BY <1>2, <1>4, <1>7 DEF LoansAddUp
<1>11. OutstandingIsReturnable'
  <2> SUFFICES ASSUME NEW i \in Item, Outstanding(i)' PROVE item[i].returnable
    BY <1>6 DEF OutstandingIsReturnable
  <2>1. Outstanding(i)
    <3>1. loan'[k].returned < loan'[k].quantity => loan[k].returned < loan[k].quantity
      BY <1>2, <1>7 DEF returned, Amount, LoanType, Quantity
    <3> QED
      BY <1>2, <1>7, <3>1 DEF Outstanding, LoansOf
  <2> QED
    BY <2>1 DEF OutstandingIsReturnable
<1> QED
  BY <1>8, <1>9, <1>10, <1>11

-----------------------------------------------------------------------------
(* Every step keeps the invariant.                                         *)
LEMMA InvStep == Inv /\ [Next]_vars => Inv'
<1> SUFFICES ASSUME Inv, [Next]_vars PROVE Inv'
  OBVIOUS
<1>1. CASE \E i \in Item, q \in Quantity, ret \in BOOLEAN : CreateItem(i, q, ret)
  BY <1>1, CreateItemKeeps
<1>2. ASSUME NEW c \in Caller, NEW r \in Requests, Ask(c, r) PROVE Inv'
  <2>1. r \in RequestType /\ WellFormed(r)
    BY <1>2, RequestsWellFormed DEF Ask
  <2> QED
    BY <1>2, <2>1, ReadKeeps DEF Ask
<1>3. ASSUME NEW c \in Caller, AskAgain(c) PROVE Inv'
  <2>1. WellFormed(call[c].request) /\ call[c].request \in RequestType
    BY <1>3 DEF AskAgain, Inv, RequestInv, TypeOK, CallType
  <2>2. call[c].attempt \in 0..MaxAttempts
    BY DEF Inv, TypeOK, CallType
  <2> QED
    BY <1>3, <2>1, <2>2, ReadKeeps DEF AskAgain
<1>4. ASSUME NEW c \in Caller, Retry(c) \/ Overflow(c) PROVE Inv'
  BY <1>4, NothingWritten
<1>5. ASSUME NEW c \in Caller,
             CommitUpdate(c) \/ CommitStock(c) \/ CommitAssign(c) \/ CommitReturn(c)
      PROVE  Inv'
  BY <1>5, CommitUpdateKeeps, CommitStockKeeps, CommitAssignKeeps, CommitReturnKeeps
<1>6. CASE UNCHANGED vars
  BY <1>6 DEF vars, Inv, TypeOK, RequestInv, WellFormed, Snapshot, Granted, LoansExist, LoansAddUp,
              OutstandingIsReturnable, Outstanding, LoansOf
<1> QED
  BY <1>1, <1>2, <1>3, <1>4, <1>5, <1>6 DEF Next

-----------------------------------------------------------------------------
(* The ledger                                                              *)

LedgerInv == LedgerIsTheStock /\ \A i \in Item : ~item[i].created => ledger[i] = <<>>

(* One row more that starts where the last one ended                       *)
LEMMA OneRowMore ==
  ASSUME TypeOK, LedgerInv, NEW i \in Item, NEW row \in RowType,
         row.previous = item[i].quantity,
         row.resulting = Resulting(row.type, row.previous, row.quantity),
         ledger' = [ledger EXCEPT ![i] = Append(@, row)],
         item'[i].quantity = row.resulting,
         \A j \in Item \ {i} : item'[j] = item[j]
  PROVE  LedgerIsTheStock'
<1> DEFINE old == ledger[i]
           new == ledger'[i]
<1>1. /\ old \in Seq(RowType) /\ new = Append(old, row) /\ Len(old) \in Nat
      /\ Len(new) = Len(old) + 1 /\ new[Len(new)] = row
      /\ \A n \in 1..Len(old) : new[n] = old[n]
  BY DEF TypeOK
<1>2. \A n \in 0..Len(old) : Balance(i, n)' = Balance(i, n)
  BY <1>1 DEF Balance
<1>3. Balance(i, Len(ledger[i]))' = row.resulting
  BY <1>1 DEF Balance
<1>4. ASSUME NEW n \in 1..Len(new)
      PROVE  /\ new[n].previous = Balance(i, n - 1)'
             /\ new[n].resulting = Resulting(new[n].type, new[n].previous, new[n].quantity)
  <2>1. CASE n \in 1..Len(old)
    <3>1. /\ old[n].previous = Balance(i, n - 1)
          /\ old[n].resulting = Resulting(old[n].type, old[n].previous, old[n].quantity)
      BY <2>1 DEF LedgerInv, LedgerIsTheStock
    <3> QED
      BY <1>1, <1>2, <2>1, <3>1
  <2>2. CASE n = Len(new)
    <3>1. item[i].quantity = Balance(i, Len(old))
      BY DEF LedgerInv, LedgerIsTheStock
    <3> QED
      BY <1>1, <1>2, <2>2, <3>1
  <2> QED
    BY <1>1, <2>1, <2>2
<1>5. ASSUME NEW j \in Item \ {i}
      PROVE  /\ \A n \in 1..Len(ledger'[j]) :
                   /\ ledger'[j][n].previous = Balance(j, n - 1)'
                   /\ ledger'[j][n].resulting =
                        Resulting(ledger'[j][n].type, ledger'[j][n].previous, ledger'[j][n].quantity)
             /\ item'[j].quantity = Balance(j, Len(ledger[j]))'
  <2>1. ledger'[j] = ledger[j] /\ item'[j] = item[j]
    BY DEF TypeOK
  <2> QED
    BY <2>1 DEF LedgerInv, LedgerIsTheStock, Balance
<1> QED
  BY <1>3, <1>4, <1>5 DEF LedgerIsTheStock

(* Every commit starts its row from the quantity the item still has.       *)
LEMMA MovesKeepsLedger ==
  ASSUME Inv, LedgerInv, NEW c \in Caller, NEW l \in Loan \cup {NoLoan},
         NEW resulting \in Quantity,
         resulting = Resulting(call[c].request.op, call[c].seen.quantity, call[c].request.quantity),
         call[c].phase = "writing", ~Conflicts(c), call[c].request.op # "UPDATE",
         Moves(c, resulting, l)
  PROVE  LedgerInv'
<1> DEFINE r == call[c].request
           row == Row(r.op, r.quantity, call[c].seen.quantity, resulting, l)
<1>1. /\ r.item \in Item /\ r.op \in Increase \cup Decrease /\ r.quantity \in Amount
      /\ item[r.item].created
      /\ call[c].seen \in ItemType /\ call[c].seen = item[r.item]
  BY AtCommit DEF WellFormed, CallType, RequestType, Granted
<1>2. row \in RowType
  BY <1>1 DEF Row, RowType, ItemType
<1>3. /\ row.previous = item[r.item].quantity /\ row.resulting = resulting
      /\ row.resulting = Resulting(row.type, row.previous, row.quantity)
  BY <1>1 DEF Row
<1>4. /\ ledger' = [ledger EXCEPT ![r.item] = Append(@, row)]
      /\ \A j \in Item : item'[j].created = item[j].created
      /\ item'[r.item].quantity = row.resulting
      /\ \A j \in Item \ {r.item} : item'[j] = item[j]
  <2>1. ledger' = [ledger EXCEPT ![r.item] = Append(@, row)]
    BY DEF Moves
  <2>2. /\ \A j \in Item : item'[j].created = item[j].created
        /\ item'[r.item].quantity = resulting
        /\ \A j \in Item \ {r.item} : item'[j] = item[j]
    BY MovesType
  <2> QED
    BY <1>3, <2>1, <2>2
<1> HIDE DEF row
<1>5. LedgerIsTheStock'
  BY <1>1, <1>2, <1>3, <1>4, OneRowMore DEF Inv
<1>6. \A j \in Item : ~item'[j].created => ledger'[j] = <<>>
  BY <1>1, <1>4 DEF LedgerInv, Inv, TypeOK
<1> QED
  BY <1>5, <1>6 DEF LedgerInv

(* Every step keeps the ledger a chain that ends with the stock.           *)
LEMMA LedgerStep == Inv /\ LedgerInv /\ [Next]_vars => LedgerInv'
<1> SUFFICES ASSUME Inv, LedgerInv, [Next]_vars PROVE LedgerInv'
  OBVIOUS
<1>1. ASSUME NEW i \in Item, NEW q \in Quantity, NEW ret \in BOOLEAN, CreateItem(i, q, ret)
      PROVE  LedgerInv'
  <2>1. /\ ~item[i].created /\ ledger[i] = <<>>
        /\ item' = [item EXCEPT ![i] = [created |-> TRUE, quantity |-> q,
                                        returnable |-> ret, active |-> TRUE]]
    BY <1>1 DEF CreateItem, LedgerInv
  <2>2. \A j \in Item : ~item'[j].created => j # i /\ ledger'[j] = ledger[j] /\ item'[j] = item[j]
    BY <1>1, <2>1 DEF CreateItem, Inv, TypeOK
  <2>3. \A j \in Item : ~item'[j].created => ledger'[j] = <<>>
    BY <2>2 DEF LedgerInv
  <2>4. CASE q > 0
    <3> DEFINE row == Row("STOCK_IN", q, 0, q, NoLoan)
    <3>1. row \in RowType /\ row.previous = 0 /\ row.resulting = q
          /\ row.resulting = Resulting(row.type, row.previous, row.quantity)
      BY <2>4 DEF Row, RowType, Increase, Amount, Quantity, Resulting
    <3>2. item[i].quantity = 0
      BY <2>1 DEF LedgerInv, LedgerIsTheStock, Balance
    <3>3. /\ ledger' = [ledger EXCEPT ![i] = Append(@, row)]
          /\ item'[i].quantity = q
          /\ \A j \in Item \ {i} : item'[j] = item[j]
      BY <1>1, <2>1, <2>4 DEF CreateItem, Inv, TypeOK
    <3> HIDE DEF row
    <3>4. LedgerIsTheStock'
      BY <3>1, <3>2, <3>3, OneRowMore DEF Inv
    <3> QED
      BY <2>3, <3>4 DEF LedgerInv
  <2>5. CASE q = 0
    <3>1. ledger' = ledger /\ \A j \in Item : item'[j].quantity = item[j].quantity
      BY <1>1, <2>1, <2>5 DEF CreateItem, Inv, TypeOK, LedgerInv, LedgerIsTheStock, Balance
    <3> QED
      BY <2>3, <3>1 DEF LedgerInv, LedgerIsTheStock, Balance
  <2> QED
    BY <2>4, <2>5 DEF Quantity
<1>2. ASSUME NEW c \in Caller, CommitStock(c) PROVE LedgerInv'
  <2>1. /\ call[c].phase = "writing" /\ ~Conflicts(c)
        /\ call[c].request.op \in {"STOCK_IN", "STOCK_OUT", "ADJUSTMENT_IN", "ADJUSTMENT_OUT"}
        /\ Moves(c, Resulting(call[c].request.op, call[c].seen.quantity, call[c].request.quantity),
                 NoLoan)
    BY <1>2 DEF CommitStock
  <2>2. Resulting(call[c].request.op, call[c].seen.quantity, call[c].request.quantity) \in Quantity
    BY <1>2, <2>1, MovedIsQuantity DEF CommitStock
  <2> QED
    BY <2>1, <2>2, MovesKeepsLedger
<1>3. ASSUME NEW c \in Caller, CommitAssign(c) PROVE LedgerInv'
  <2>1. PICK l \in Loan :
          Moves(c, Resulting(call[c].request.op, call[c].seen.quantity, call[c].request.quantity), l)
    BY <1>3 DEF CommitAssign, LoansOf
  <2>2. call[c].phase = "writing" /\ ~Conflicts(c) /\ call[c].request.op = "ASSIGN"
    BY <1>3 DEF CommitAssign
  <2>3. Resulting(call[c].request.op, call[c].seen.quantity, call[c].request.quantity) \in Quantity
    BY <2>2, MovedIsQuantity DEF Increase
  <2> QED
    BY <2>1, <2>2, <2>3, MovesKeepsLedger
<1>4. ASSUME NEW c \in Caller, CommitReturn(c) PROVE LedgerInv'
  <2>1. /\ call[c].phase = "writing" /\ ~Conflicts(c) /\ call[c].request.op = "RETURN"
        /\ Moves(c, Resulting(call[c].request.op, call[c].seen.quantity, call[c].request.quantity),
                 call[c].request.loan)
    BY <1>4 DEF CommitReturn
  <2>2. call[c].request.loan \in Loan
    BY <2>1, AtCommit DEF WellFormed
  <2>3. Resulting(call[c].request.op, call[c].seen.quantity, call[c].request.quantity) \in Quantity
    BY <1>4, <2>1, MovedIsQuantity DEF CommitReturn
  <2> QED
    BY <2>1, <2>2, <2>3, MovesKeepsLedger
<1>5. ASSUME NEW c \in Caller, CommitUpdate(c) PROVE LedgerInv'
  <2>1. /\ ledger' = ledger
        /\ \A j \in Item : item'[j].quantity = item[j].quantity /\ item'[j].created = item[j].created
    BY <1>5 DEF CommitUpdate, Inv, TypeOK, ItemType
  <2> QED
    BY <2>1 DEF LedgerInv, LedgerIsTheStock, Balance
<1>6. CASE UNCHANGED <<item, ledger>>
  BY <1>6 DEF LedgerInv, LedgerIsTheStock, Balance
<1>7. ASSUME NEW c \in Caller,
             (\E r \in Requests : Ask(c, r)) \/ AskAgain(c) \/ Retry(c) \/ Overflow(c)
      PROVE  UNCHANGED <<item, ledger>>
  BY <1>7 DEF Ask, AskAgain, Read, Retry, Overflow
<1> QED
  BY <1>1, <1>2, <1>3, <1>4, <1>5, <1>6, <1>7 DEF Next, vars

-----------------------------------------------------------------------------
(* No operation ever writes a value outside the domain of its column: no   *)
(* interleaving of stockOut, adjust and assign takes stock below zero.     *)
THEOREM TypeCorrect == Spec => []TypeOK
<1>1. Inv => TypeOK
  BY DEF Inv
<1> QED
  BY <1>1, InvInit, InvStep, PTL DEF Spec

(* returnInventory: no more comes back than went out, and a loan is dated  *)
(* returned exactly when all of it is back.                                *)
THEOREM LoansAddUpHolds == Spec => []LoansAddUp
<1>1. Inv => LoansAddUp
  BY DEF Inv
<1> QED
  BY <1>1, InvInit, InvStep, PTL DEF Spec

(* assign against updateItem: what is out on loan stays returnable.        *)
THEOREM OutstandingIsReturnableHolds == Spec => []OutstandingIsReturnable
<1>1. Inv => OutstandingIsReturnable
  BY DEF Inv
<1> QED
  BY <1>1, InvInit, InvStep, PTL DEF Spec

(* The ledger accounts for the stock, however the requests interleave.     *)
THEOREM LedgerIsTheStockHolds == Spec => []LedgerIsTheStock
<1>1. Init => LedgerInv
  BY DEF Init, LedgerInv, LedgerIsTheStock, Balance, NoStock
<1>2. LedgerInv => LedgerIsTheStock
  BY DEF LedgerInv
<1> QED
  BY <1>1, <1>2, InvInit, InvStep, LedgerStep, PTL DEF Spec

-----------------------------------------------------------------------------
(* Sums over finite sets.  What holds of a sum is shown by a smallest      *)
(* subset for which it fails: there is one, because the strict subsets of  *)
(* a finite set are well founded.                                          *)

(* A set of subsets of a finite set has a smallest one.                    *)
LEMMA SmallestSubset ==
  ASSUME NEW S, IsFiniteSet(S), NEW B \in SUBSET (SUBSET S), B # {}
  PROVE  \E T \in B : \A U \in B : U \subseteq T => U = T
<1> DEFINE R == StrictSubsetOrdering(S)
<1>1. IsWellFoundedOn(R, SUBSET S)
  <2>1. IsWellFoundedOn(R, FiniteSubsetsOf(S))
    BY FS_StrictSubsetOrderingWellFounded
  <2>2. FiniteSubsetsOf(S) = SUBSET S
    BY FS_FiniteSubsetsOfFinite
  <2> HIDE DEF R
  <2> QED
    BY <2>1, <2>2
<1>2. PICK T \in B : \A U \in B : ~ (<<U, T>> \in R)
  <2> HIDE DEF R
  <2> QED
    BY <1>1, WFMin
<1>3. \A U \in B : U \subseteq T /\ U # T => <<U, T>> \in R
  BY DEF StrictSubsetOrdering
<1> HIDE DEF R
<1>4. \A U \in B : U \subseteq T => U = T
  BY <1>2, <1>3
<1> QED
  BY <1>4

One(s) == CHOOSE x \in s : TRUE

(* What is chosen of a set is in it.                                       *)
LEMMA OneIsIn == ASSUME NEW s, s # {} PROVE One(s) \in s
BY DEF One

(* g sums f over the subsets of S.                                         *)
Adds(g, f, S) ==
  g = [s \in SUBSET S |-> IF s = {} THEN 0 ELSE f[One(s)] + g[s \ {One(s)}]]

(* A sum, as the folds of the library define it.                          *)
LEMMA SumIsChosen ==
  ASSUME NEW S, NEW f
  PROVE  SumFunctionOnSet(f, S) = (CHOOSE g : Adds(g, f, S))[S]
BY DEF SumFunctionOnSet, FoldFunctionOnSet, MapThenFoldSet, Adds, One

(* Sums do not depend on the set within which they are taken.              *)
LEMMA AddsAlike ==
  ASSUME NEW S, IsFiniteSet(S), NEW T, NEW f, NEW g, NEW h,
         Adds(g, f, S), Adds(h, f, T), NEW U \in SUBSET S, U \subseteq T
  PROVE  g[U] = h[U]
<1> DEFINE B == {V \in SUBSET S : V \subseteq T /\ g[V] # h[V]}
<1> SUFFICES ASSUME B # {} PROVE FALSE
  OBVIOUS
<1>1. PICK V \in B : \A W \in B : W \subseteq V => W = V
  <2>1. B \in SUBSET (SUBSET S)
    OBVIOUS
  <2> HIDE DEF B
  <2> QED
    BY <2>1, SmallestSubset
<1>2. /\ g[V] = IF V = {} THEN 0 ELSE f[One(V)] + g[V \ {One(V)}]
      /\ h[V] = IF V = {} THEN 0 ELSE f[One(V)] + h[V \ {One(V)}]
  BY DEF Adds
<1>3. V # {}
  BY <1>2
<1>4. One(V) \in V
  BY <1>3, OneIsIn
<1>5. V \ {One(V)} \notin B
  BY <1>1, <1>4
<1>6. g[V \ {One(V)}] = h[V \ {One(V)}]
  BY <1>5
<1> QED
  BY <1>2, <1>3, <1>6

(* There are sums over every finite set.                                   *)
LEMMA AddsExists ==
  ASSUME NEW S, IsFiniteSet(S), NEW f
  PROVE  \E g : Adds(g, f, S)
<1> DEFINE B == {V \in SUBSET S : ~ \E g : Adds(g, f, V)}
<1> SUFFICES ASSUME B # {} PROVE FALSE
  OBVIOUS
<1>1. PICK V \in B : \A W \in B : W \subseteq V => W = V
  <2>1. B \in SUBSET (SUBSET S)
    OBVIOUS
  <2> HIDE DEF B
  <2> QED
    BY <2>1, SmallestSubset
<1> DEFINE sum(W) == (CHOOSE g : Adds(g, f, W))[W]
           g0 == [W \in SUBSET V |-> IF W = {} THEN 0 ELSE f[One(W)] + sum(W \ {One(W)})]
<1>2. ASSUME NEW W \in SUBSET V, W # V PROVE Adds(CHOOSE g : Adds(g, f, W), f, W)
  <2>1. \E g : Adds(g, f, W)
    BY <1>1, <1>2
  <2> QED
    BY <2>1
<1>3. ASSUME NEW W \in SUBSET V, W # V PROVE sum(W) = g0[W]
  <2> DEFINE h == CHOOSE g : Adds(g, f, W)
  <2>1. Adds(h, f, W)
    BY <1>2, <1>3
  <2>2. CASE W = {}
    BY <2>1, <2>2 DEF Adds
  <2>3. CASE W # {}
    <3> DEFINE D == W \ {One(W)}
               k == CHOOSE g : Adds(g, f, D)
    <3>1. One(W) \in W
      BY <2>3, OneIsIn
    <3>2. D \in SUBSET V /\ D # V /\ D \in SUBSET W
      BY <3>1
    <3>3. Adds(k, f, D)
      BY <3>2, <1>2
    <3>4. h[D] = k[D]
      <4>1. IsFiniteSet(W)
        BY FS_Subset
      <4> HIDE DEF h, k, D
      <4> QED
        BY <2>1, <3>2, <3>3, <4>1, AddsAlike
    <3>5. h[W] = f[One(W)] + h[D]
      <4> HIDE DEF h
      <4> QED
        BY <2>1, <2>3 DEF Adds
    <3>6. g0[W] = f[One(W)] + k[D]
      BY <2>3
    <3> QED
      BY <3>4, <3>5, <3>6
  <2> QED
    BY <2>2, <2>3
<1>4. \A W \in SUBSET V : W # {} => W \ {One(W)} \in SUBSET V /\ W \ {One(W)} # V
  BY OneIsIn
<1>5. Adds(g0, f, V)
  <2>1. \A W \in SUBSET V : W # {} => sum(W \ {One(W)}) = g0[W \ {One(W)}]
    <3> HIDE DEF sum, g0
    <3> QED
      BY <1>3, <1>4
  <2>2. g0 = [W \in SUBSET V |-> IF W = {} THEN 0 ELSE f[One(W)] + g0[W \ {One(W)}]]
    <3> DEFINE g1 == [W \in SUBSET V |-> IF W = {} THEN 0 ELSE f[One(W)] + g0[W \ {One(W)}]]
    <3>1. \A W \in SUBSET V : g0[W] = g1[W]
      <4> HIDE DEF sum
      <4> QED
        BY <2>1
    <3> QED
      BY <3>1
  <2> QED
    BY <2>2 DEF Adds
<1> QED
  BY <1>5

(* Whatever sums f over the subsets of S gives its sum.                    *)
LEMMA SumIsASum ==
  ASSUME NEW S, IsFiniteSet(S), NEW f, NEW g, Adds(g, f, S)
  PROVE  SumFunctionOnSet(f, S) = g[S]
<1> DEFINE h == CHOOSE k : Adds(k, f, S)
<1>1. Adds(h, f, S)
  OBVIOUS
<1>2. h[S] = g[S]
  <2> HIDE DEF h
  <2> QED
    BY <1>1, AddsAlike
<1> QED
  BY <1>2, SumIsChosen

(* A sum takes one element and then the others.                            *)
LEMMA SumOneFirst ==
  ASSUME NEW S, IsFiniteSet(S), NEW f
  PROVE  /\ S = {} => SumFunctionOnSet(f, S) = 0
         /\ S # {} => SumFunctionOnSet(f, S) = f[One(S)] + SumFunctionOnSet(f, S \ {One(S)})
<1>1. PICK g : Adds(g, f, S)
  BY AddsExists
<1>2. SumFunctionOnSet(f, S) = g[S]
  BY <1>1, SumIsASum
<1>3. g[S] = IF S = {} THEN 0 ELSE f[One(S)] + g[S \ {One(S)}]
  BY <1>1 DEF Adds
<1>4. ASSUME S # {} PROVE SumFunctionOnSet(f, S \ {One(S)}) = g[S \ {One(S)}]
  <2> DEFINE D == S \ {One(S)}
  <2>1. D \in SUBSET S /\ IsFiniteSet(D)
    BY FS_Subset
  <2> HIDE DEF D
  <2>2. PICK h : Adds(h, f, D)
    BY <2>1, AddsExists
  <2>3. SumFunctionOnSet(f, D) = h[D]
    BY <2>1, <2>2, SumIsASum
  <2>4. h[D] = g[D]
    BY <1>1, <2>1, <2>2, AddsAlike
  <2> QED
    BY <2>3, <2>4 DEF D
<1> QED
  BY <1>2, <1>3, <1>4

(* A sum of integers is one.                                               *)
LEMMA SumType ==
  ASSUME NEW S, IsFiniteSet(S), NEW f, \A x \in S : f[x] \in Int
  PROVE  SumFunctionOnSet(f, S) \in Int
<1> DEFINE B == {V \in SUBSET S : SumFunctionOnSet(f, V) \notin Int}
<1> SUFFICES ASSUME B # {} PROVE FALSE
  OBVIOUS
<1>1. PICK V \in B : \A W \in B : W \subseteq V => W = V
  <2>1. B \in SUBSET (SUBSET S)
    OBVIOUS
  <2> HIDE DEF B
  <2> QED
    BY <2>1, SmallestSubset
<1>2. IsFiniteSet(V)
  BY FS_Subset
<1>3. V # {} /\ SumFunctionOnSet(f, V) = f[One(V)] + SumFunctionOnSet(f, V \ {One(V)})
  <2>1. SumFunctionOnSet(f, V) # 0
    OBVIOUS
  <2> QED
    BY <1>2, <2>1, SumOneFirst
<1>4. One(V) \in V
  BY <1>3, OneIsIn
<1>5. V \ {One(V)} \notin B
  BY <1>1, <1>4
<1> QED
  BY <1>3, <1>4, <1>5

(* Any element may be taken first.                                         *)
LEMMA SumSplit ==
  ASSUME NEW S, IsFiniteSet(S), NEW f, \A x \in S : f[x] \in Int, NEW x \in S
  PROVE  SumFunctionOnSet(f, S) = f[x] + SumFunctionOnSet(f, S \ {x})
<1> DEFINE Splits(V, y) == SumFunctionOnSet(f, V) = f[y] + SumFunctionOnSet(f, V \ {y})
           B == {V \in SUBSET S : \E y \in V : ~ Splits(V, y)}
<1> SUFFICES ASSUME B # {} PROVE FALSE
  OBVIOUS
<1>1. PICK V \in B : \A W \in B : W \subseteq V => W = V
  <2>1. B \in SUBSET (SUBSET S)
    OBVIOUS
  <2> HIDE DEF B
  <2> QED
    BY <2>1, SmallestSubset
<1>2. PICK y \in V : ~ Splits(V, y)
  OBVIOUS
<1> DEFINE z == One(V)
<1>3. /\ IsFiniteSet(V) /\ IsFiniteSet(V \ {y}) /\ IsFiniteSet(V \ {z})
      /\ IsFiniteSet((V \ {z}) \ {y})
  BY FS_Subset
<1>4. z \in V /\ Splits(V, z)
  BY <1>3, SumOneFirst, OneIsIn
<1>5. z # y
  BY <1>2, <1>4
<1>6. Splits(V \ {z}, y) /\ Splits(V \ {y}, z)
  <2>1. V \ {z} \notin B /\ V \ {y} \notin B
    BY <1>1, <1>4
  <2>2. y \in V \ {z} /\ z \in V \ {y}
    BY <1>4, <1>5
  <2> HIDE DEF Splits, z
  <2> QED
    BY <2>1, <2>2
<1>7. (V \ {z}) \ {y} = (V \ {y}) \ {z}
  OBVIOUS
<1>8. SumFunctionOnSet(f, (V \ {z}) \ {y}) \in Int /\ f[y] \in Int /\ f[z] \in Int
  BY <1>3, <1>4, SumType
<1> DEFINE sum(W) == SumFunctionOnSet(f, W)
<1>9. /\ sum(V) # f[y] + sum(V \ {y}) /\ sum(V) = f[z] + sum(V \ {z})
      /\ sum(V \ {z}) = f[y] + sum((V \ {z}) \ {y})
      /\ sum(V \ {y}) = f[z] + sum((V \ {z}) \ {y})
  BY <1>2, <1>4, <1>6, <1>7
<1> HIDE DEF z, sum
<1>10. sum((V \ {z}) \ {y}) \in Int
  BY <1>8 DEF sum
<1> QED
  BY <1>8, <1>9, <1>10

(* Sums of what is the same are the same.                                  *)
LEMMA SumSame ==
  ASSUME NEW S, IsFiniteSet(S), NEW f, NEW g, \A x \in S : f[x] = g[x]
  PROVE  SumFunctionOnSet(f, S) = SumFunctionOnSet(g, S)
<1> DEFINE B == {V \in SUBSET S : SumFunctionOnSet(f, V) # SumFunctionOnSet(g, V)}
<1> SUFFICES ASSUME B # {} PROVE FALSE
  OBVIOUS
<1>1. PICK V \in B : \A W \in B : W \subseteq V => W = V
  <2>1. B \in SUBSET (SUBSET S)
    OBVIOUS
  <2> HIDE DEF B
  <2> QED
    BY <2>1, SmallestSubset
<1>2. IsFiniteSet(V)
  BY FS_Subset
<1>3. /\ V = {} => SumFunctionOnSet(f, V) = 0 /\ SumFunctionOnSet(g, V) = 0
      /\ V # {} => /\ SumFunctionOnSet(f, V) = f[One(V)] + SumFunctionOnSet(f, V \ {One(V)})
                   /\ SumFunctionOnSet(g, V) = g[One(V)] + SumFunctionOnSet(g, V \ {One(V)})
  BY <1>2, SumOneFirst
<1>4. V # {} /\ One(V) \in V
  BY <1>3, OneIsIn
<1>5. V \ {One(V)} \notin B
  BY <1>1, <1>4
<1> QED
  BY <1>3, <1>4, <1>5

-----------------------------------------------------------------------------
(* What the rows of a ledger and the loans of an item count                *)

Rows(rows, types) == {n \in 1..Len(rows) : rows[n].type \in types}
Quantities(rows) == [n \in 1..Len(rows) |-> rows[n].quantity]
Owed == [l \in Loan |-> loan[l].quantity - loan[l].returned]

(* A row more counts with the rows of its type.                            *)
LEMMA RowCounts ==
  ASSUME NEW rows \in Seq(RowType), NEW row \in RowType, NEW types
  PROVE  /\ Moved(rows, types) \in Int
         /\ Moved(Append(rows, row), types) =
              Moved(rows, types) + IF row.type \in types THEN row.quantity ELSE 0
<1> DEFINE new == Append(rows, row)
           n == Len(rows) + 1
<1>1. /\ Len(rows) \in Nat /\ new \in Seq(RowType) /\ Len(new) = n /\ new[n] = row
      /\ \A k \in 1..Len(rows) : new[k] = rows[k]
  OBVIOUS
<1>2. /\ Moved(rows, types) = SumFunctionOnSet(Quantities(rows), Rows(rows, types))
      /\ Moved(new, types) = SumFunctionOnSet(Quantities(new), Rows(new, types))
  BY DEF Moved, Quantities, Rows
<1>3. ASSUME NEW s \in Seq(RowType), NEW k \in 1..Len(s) PROVE s[k].quantity \in Int
  <2>1. s[k] \in RowType
    OBVIOUS
  <2> QED
    BY <2>1 DEF RowType, Amount
<1> HIDE DEF new
<1>4. /\ \A k \in Rows(rows, types) : Quantities(rows)[k] = Quantities(new)[k]
      /\ \A k \in Rows(rows, types) : Quantities(rows)[k] \in Int
      /\ \A k \in Rows(new, types) : Quantities(new)[k] \in Int
  BY <1>1, <1>3 DEF Rows, Quantities
<1>5. IsFiniteSet(Rows(rows, types)) /\ IsFiniteSet(Rows(new, types))
  <2>1. IsFiniteSet(1..Len(rows)) /\ IsFiniteSet(1..Len(new))
    BY <1>1, FS_Interval
  <2> QED
    BY <2>1, FS_Subset DEF Rows
<1>6. Moved(rows, types) \in Int
  BY <1>2, <1>4, <1>5, SumType
<1>7. SumFunctionOnSet(Quantities(new), Rows(rows, types)) = Moved(rows, types)
  BY <1>2, <1>4, <1>5, SumSame
<1>8. CASE row.type \in types
  <2>1. n \in Rows(new, types) /\ Rows(new, types) \ {n} = Rows(rows, types)
    BY <1>1, <1>8 DEF Rows
  <2>2. Quantities(new)[n] = row.quantity
    BY <1>1 DEF Quantities
  <2>3. SumFunctionOnSet(Quantities(new), Rows(new, types)) =
          Quantities(new)[n] + SumFunctionOnSet(Quantities(new), Rows(new, types) \ {n})
    BY <1>4, <1>5, <2>1, SumSplit
  <2>4. row.quantity \in Int
    BY DEF RowType, Amount
  <2> HIDE DEF n
  <2>5. Moved(new, types) = row.quantity + Moved(rows, types)
    BY <1>2, <1>7, <2>1, <2>2, <2>3
  <2>6. Moved(new, types) = Moved(rows, types) + row.quantity
    BY <1>6, <2>4, <2>5
  <2> QED
    BY <1>6, <1>8, <2>6 DEF new
<1>9. CASE row.type \notin types
  <2>1. Rows(new, types) = Rows(rows, types)
    BY <1>1, <1>9 DEF Rows
  <2> QED
    BY <1>2, <1>6, <1>7, <1>9, <2>1 DEF new
<1> QED
  BY <1>6, <1>8, <1>9

(* What is owed of an item's loans is a number.                            *)
LEMMA OwedIsANumber ==
  ASSUME TypeOK, NEW i \in Item
  PROVE  OnLoan(i) \in Int
<1>1. IsFiniteSet(LoansOf(i)) /\ LoansOf(i) \subseteq Loan
  BY LoansAssumption, FS_Subset DEF LoansOf
<1>2. \A l \in Loan : Owed[l] \in Int
  BY DEF TypeOK, LoanType, Quantity, Owed
<1>3. SumFunctionOnSet(Owed, LoansOf(i)) \in Int
  BY <1>1, <1>2, SumType
<1> QED
  BY <1>3 DEF OnLoan, Owed

(* It stays where the item's loans and what is owed of them stay.          *)
LEMMA OwedStays ==
  ASSUME NEW i \in Item, LoansOf(i)' = LoansOf(i), \A l \in LoansOf(i) : Owed'[l] = Owed[l]
  PROVE  OnLoan(i)' = OnLoan(i)
<1>1. IsFiniteSet(LoansOf(i))
  BY LoansAssumption, FS_Subset DEF LoansOf
<1>2. SumFunctionOnSet(Owed, LoansOf(i)) = SumFunctionOnSet(Owed', LoansOf(i))
  BY <1>1, SumSame
<1>3. /\ OnLoan(i) = SumFunctionOnSet(Owed, LoansOf(i))
      /\ OnLoan(i)' = SumFunctionOnSet(Owed', LoansOf(i)')
  BY DEF OnLoan, Owed
<1> QED
  BY <1>2, <1>3

(* When a loan of the item is made or changed, it changes with the loan.   *)
LEMMA OwedChanges ==
  ASSUME TypeOK, TypeOK', NEW i \in Item, NEW k \in Loan,
         k \in LoansOf(i)', LoansOf(i)' \ {k} = LoansOf(i) \ {k},
         \A l \in Loan \ {k} : Owed'[l] = Owed[l]
  PROVE  OnLoan(i)' = OnLoan(i) + Owed'[k] - IF k \in LoansOf(i) THEN Owed[k] ELSE 0
<1> DEFINE f == Owed
           g == Owed'
           S == LoansOf(i)
           R == LoansOf(i)'
           D == S \ {k}
<1>1. /\ IsFiniteSet(S) /\ IsFiniteSet(R) /\ S \subseteq Loan /\ R \subseteq Loan
  BY LoansAssumption, FS_Subset DEF LoansOf
<1>2. \A l \in Loan : f[l] \in Int /\ g[l] \in Int
  BY DEF TypeOK, LoanType, Quantity, Owed
<1>3. OnLoan(i) = SumFunctionOnSet(f, S) /\ OnLoan(i)' = SumFunctionOnSet(g, R)
  BY DEF OnLoan, Owed
<1>4. k \in R /\ R \ {k} = D /\ \A l \in D : f[l] = g[l] /\ f[l] \in Int
  BY <1>1, <1>2
<1>5. OnLoan(i)' = OnLoan(i) + g[k] - IF k \in S THEN f[k] ELSE 0
  <2>1. D \subseteq S /\ (k \notin S => D = S)
    OBVIOUS
  <2> HIDE DEF f, g, S, R, D
  <2>2. IsFiniteSet(D)
    BY <1>1, <2>1, FS_Subset
  <2>3. SumFunctionOnSet(g, R) = g[k] + SumFunctionOnSet(g, D)
    BY <1>1, <1>2, <1>4, SumSplit
  <2>4. k \in S => SumFunctionOnSet(f, S) = f[k] + SumFunctionOnSet(f, D)
    BY <1>1, <1>2, SumSplit DEF D
  <2>5. SumFunctionOnSet(f, D) = SumFunctionOnSet(g, D)
    BY <1>4, <2>2, SumSame
  <2>6. SumFunctionOnSet(f, D) \in Int
    BY <1>4, <2>2, SumType
  <2>7. f[k] \in Int /\ g[k] \in Int
    BY <1>2
  <2> QED
    BY <1>3, <2>1, <2>3, <2>4, <2>5, <2>6, <2>7
<1> QED
  BY <1>5

(* What a movement adds to the stock, the loans and the rows adds up.      *)
In == {"STOCK_IN", "ADJUSTMENT_IN"}
Out == {"STOCK_OUT", "ADJUSTMENT_OUT"}

AddsUp(type, s, o, a, b, q) ==
  Resulting(type, s, q) + (o + (IF type = "ASSIGN" THEN q ELSE 0)
                             - (IF type = "RETURN" THEN q ELSE 0))
    = (a + IF type \in In THEN q ELSE 0) - (b + IF type \in Out THEN q ELSE 0)

LEMMA MovementAddsUp ==
  ASSUME NEW type \in Increase \cup Decrease, NEW s \in Int, NEW o \in Int, NEW a \in Int,
         NEW b \in Int, NEW q \in Int, s + o = a - b
  PROVE  AddsUp(type, s, o, a, b, q)
<1> USE DEF AddsUp, In, Out, Resulting, Increase
<1>1. CASE type \in {"STOCK_IN", "ADJUSTMENT_IN"}
  BY <1>1
<1>2. CASE type \in {"STOCK_OUT", "ADJUSTMENT_OUT"}
  BY <1>2
<1>3. CASE type = "ASSIGN"
  BY <1>3
<1>4. CASE type = "RETURN"
  BY <1>4
<1> QED
  BY <1>1, <1>2, <1>3, <1>4 DEF Decrease

(* A movement with its row and its loan conserves the stock.               *)
LEMMA MovementConserves ==
  ASSUME TypeOK, TypeOK', StockIsConserved, NEW i \in Item, NEW row \in RowType,
         ledger' = [ledger EXCEPT ![i] = Append(@, row)],
         item'[i].quantity = Resulting(row.type, item[i].quantity, row.quantity),
         OnLoan(i)' = OnLoan(i) + (IF row.type = "ASSIGN" THEN row.quantity ELSE 0)
                                - (IF row.type = "RETURN" THEN row.quantity ELSE 0),
         \A j \in Item \ {i} : item'[j].quantity = item[j].quantity /\ OnLoan(j)' = OnLoan(j)
  PROVE  StockIsConserved'
<1>1. \A j \in Item \ {i} : ledger'[j] = ledger[j]
  BY DEF TypeOK
<1>2. ledger[i] \in Seq(RowType) /\ ledger'[i] = Append(ledger[i], row)
  BY DEF TypeOK
<1>3. /\ Moved(ledger[i], In) \in Int /\ Moved(ledger[i], Out) \in Int
      /\ Moved(ledger'[i], In) =
           Moved(ledger[i], In) + IF row.type \in In THEN row.quantity ELSE 0
      /\ Moved(ledger'[i], Out) =
           Moved(ledger[i], Out) + IF row.type \in Out THEN row.quantity ELSE 0
  BY <1>2, RowCounts
<1>4. /\ item[i].quantity \in Int /\ row.quantity \in Int /\ OnLoan(i) \in Int
      /\ row.type \in Increase \cup Decrease
  <2>1. OnLoan(i) \in Int
    BY OwedIsANumber
  <2>2. item[i] \in ItemType
    BY DEF TypeOK
  <2>3. item[i].quantity \in Int
    BY <2>2 DEF ItemType, Quantity
  <2> QED
    BY <2>1, <2>3 DEF RowType, Amount
<1>5. item[i].quantity + OnLoan(i) = Moved(ledger[i], In) - Moved(ledger[i], Out)
  BY DEF StockIsConserved, In, Out
<1>6. item'[i].quantity + OnLoan(i)' = Moved(ledger'[i], In) - Moved(ledger'[i], Out)
  <2>1. /\ row.type \in Increase \cup Decrease /\ item[i].quantity \in Int /\ OnLoan(i) \in Int
        /\ Moved(ledger[i], In) \in Int /\ Moved(ledger[i], Out) \in Int /\ row.quantity \in Int
    BY <1>3, <1>4
  <2>2. AddsUp(row.type, item[i].quantity, OnLoan(i), Moved(ledger[i], In),
               Moved(ledger[i], Out), row.quantity)
    BY <1>5, <2>1, MovementAddsUp
  <2> QED
    BY <1>3, <2>2 DEF AddsUp
<1> QED
  BY <1>1, <1>6 DEF StockIsConserved, In, Out

(* Where no quantity, row or loan changes, the stock is conserved.         *)
LEMMA NothingMoves ==
  ASSUME StockIsConserved, UNCHANGED <<loan, ledger>>,
         \A i \in Item : item'[i].quantity = item[i].quantity
  PROVE  StockIsConserved'
BY DEF StockIsConserved, OnLoan, LoansOf

(* A commit whose loans change as its operation says conserves the stock.  *)
LEMMA CommitConserves ==
  ASSUME Inv, Inv', StockIsConserved, NEW c \in Caller, NEW l \in Loan \cup {NoLoan},
         call[c].phase = "writing", ~Conflicts(c), call[c].request.op # "UPDATE",
         NEW i \in Item, i = call[c].request.item, NEW op, op = call[c].request.op,
         NEW q, q = call[c].request.quantity,
         Moves(c, Resulting(op, call[c].seen.quantity, q), l),
         Resulting(op, call[c].seen.quantity, q) \in Quantity,
         OnLoan(i)' = OnLoan(i) + (IF op = "ASSIGN" THEN q ELSE 0)
                                - (IF op = "RETURN" THEN q ELSE 0),
         \A j \in Item \ {i} : OnLoan(j)' = OnLoan(j)
  PROVE  StockIsConserved'
<1> DEFINE resulting == Resulting(op, call[c].seen.quantity, q)
           row == Row(op, q, call[c].seen.quantity, resulting, l)
<1>1. TypeOK /\ TypeOK'
  BY DEF Inv
<1>2. /\ op \in Increase \cup Decrease /\ q \in Amount
      /\ call[c].seen \in ItemType /\ call[c].seen = item[i]
  BY AtCommit DEF WellFormed, CallType, RequestType, Granted
<1>3. row \in RowType /\ row.type = op /\ row.quantity = q
  BY <1>2 DEF Row, RowType, ItemType
<1>4. ledger' = [ledger EXCEPT ![i] = Append(@, row)]
  BY DEF Moves
<1>5. /\ item'[i].quantity = resulting /\ \A j \in Item \ {i} : item'[j] = item[j]
  <2> HIDE DEF resulting
  <2> QED
    BY MovesType DEF resulting
<1>6. item'[i].quantity = Resulting(row.type, item[i].quantity, row.quantity)
  BY <1>2, <1>3, <1>5
<1> HIDE DEF row
<1>7. /\ OnLoan(i)' = OnLoan(i) + (IF row.type = "ASSIGN" THEN row.quantity ELSE 0)
                                - (IF row.type = "RETURN" THEN row.quantity ELSE 0)
      /\ \A j \in Item \ {i} : item'[j].quantity = item[j].quantity /\ OnLoan(j)' = OnLoan(j)
  BY <1>3, <1>5
<1> QED
  BY <1>1, <1>3, <1>4, <1>6, <1>7, MovementConserves

(* The opening balance is stocked.                                         *)
LEMMA CreationConserves ==
  ASSUME Inv, Inv', StockIsConserved,
         NEW i \in Item, NEW q \in Quantity, NEW ret \in BOOLEAN, CreateItem(i, q, ret),
         item[i].quantity = 0
  PROVE  StockIsConserved'
<1>1. TypeOK /\ TypeOK' /\ UNCHANGED loan
  BY DEF Inv, CreateItem
<1>2. \A j \in Item : OnLoan(j)' = OnLoan(j) /\ OnLoan(j) \in Int
  BY <1>1, OwedIsANumber DEF OnLoan, LoansOf
<1>3. item'[i].quantity = q /\ \A j \in Item \ {i} : item'[j] = item[j]
  BY <1>1 DEF CreateItem, TypeOK
<1>4. CASE q > 0
  <2> DEFINE row == Row("STOCK_IN", q, 0, q, NoLoan)
  <2>1. row \in RowType /\ row.type = "STOCK_IN" /\ row.quantity = q
    BY <1>4 DEF Row, RowType, Increase, Amount, Quantity
  <2>2. ledger' = [ledger EXCEPT ![i] = Append(@, row)]
    BY <1>4 DEF CreateItem
  <2> HIDE DEF row
  <2>3. item'[i].quantity = Resulting(row.type, item[i].quantity, row.quantity)
    BY <1>3, <2>1 DEF Resulting, Increase, Quantity
  <2>4. /\ OnLoan(i)' = OnLoan(i) + (IF row.type = "ASSIGN" THEN row.quantity ELSE 0)
                                  - (IF row.type = "RETURN" THEN row.quantity ELSE 0)
        /\ \A j \in Item \ {i} : item'[j].quantity = item[j].quantity /\ OnLoan(j)' = OnLoan(j)
    BY <1>2, <1>3, <2>1
  <2> QED
    BY <1>1, <2>1, <2>2, <2>3, <2>4, MovementConserves
<1>5. CASE q = 0
  <2>1. ledger' = ledger /\ \A j \in Item : item'[j].quantity = item[j].quantity
    BY <1>3, <1>5 DEF CreateItem
  <2> QED
    BY <1>1, <2>1, NothingMoves
<1> QED
  BY <1>4, <1>5 DEF Quantity

(* Assigning turns stock into a loan.                                      *)
LEMMA AssignConserves ==
  ASSUME Inv, Inv', StockIsConserved, NEW c \in Caller, CommitAssign(c)
  PROVE  StockIsConserved'
<1>1. TypeOK /\ TypeOK'
  BY DEF Inv
<1>2. call[c].phase = "writing" /\ ~Conflicts(c) /\ call[c].request.op = "ASSIGN"
  BY DEF CommitAssign
<1>3. call[c].request.item \in Item /\ call[c].request.quantity \in Amount
  BY <1>2, AtCommit DEF WellFormed
<1>4. PICK i \in Item : i = call[c].request.item
  BY <1>3
<1>5. PICK q \in Amount : q = call[c].request.quantity
  BY <1>3
<1> DEFINE resulting == Resulting("ASSIGN", call[c].seen.quantity, q)
<1>6. PICK k \in LoansOf(NoItem) :
        loan' = [loan EXCEPT ![k] = Lent(i, q)] /\ Moves(c, resulting, k)
  BY <1>2, <1>4, <1>5 DEF CommitAssign
<1>7. resulting \in Quantity
  BY <1>2, <1>5, MovedIsQuantity DEF Increase
<1>8. k \in Loan /\ loan[k].item = NoItem
  BY <1>6 DEF LoansOf
<1>9. loan'[k] = Lent(i, q) /\ \A l \in Loan \ {k} : loan'[l] = loan[l]
  BY <1>1, <1>6, <1>8 DEF TypeOK
<1>10. Owed'[k] = q /\ \A l \in Loan \ {k} : Owed'[l] = Owed[l]
  BY <1>8, <1>9 DEF Owed, Lent, Amount
<1>11. /\ k \in LoansOf(i)' /\ k \notin LoansOf(i) /\ LoansOf(i)' \ {k} = LoansOf(i) \ {k}
  BY <1>8, <1>9 DEF LoansOf, Lent
<1>12. ASSUME NEW j \in Item \ {i} PROVE OnLoan(j)' = OnLoan(j)
  <2>1. LoansOf(j)' = LoansOf(j) /\ LoansOf(j) \subseteq Loan \ {k}
    BY <1>8, <1>9 DEF LoansOf, Lent
  <2> QED
    BY <1>10, <2>1, OwedStays
<1>13. OnLoan(i)' = OnLoan(i) + q - 0 /\ OnLoan(i) \in Int
  BY <1>1, <1>8, <1>10, <1>11, OwedChanges, OwedIsANumber
<1> QED
  BY <1>2, <1>4, <1>5, <1>6, <1>7, <1>8, <1>12, <1>13, CommitConserves

(* Returning turns a loan back into stock.                                 *)
LEMMA ReturnConserves ==
  ASSUME Inv, Inv', StockIsConserved, NEW c \in Caller, CommitReturn(c)
  PROVE  StockIsConserved'
<1>1. TypeOK /\ TypeOK'
  BY DEF Inv
<1>2. call[c].phase = "writing" /\ ~Conflicts(c) /\ call[c].request.op = "RETURN"
  BY DEF CommitReturn
<1>3. /\ WellFormed(call[c].request) /\ call[c].request.loan \in Loan
      /\ call[c].lent = loan[call[c].request.loan]
  BY <1>2, AtCommit DEF WellFormed, Granted
<1>4. PICK i \in Item : i = call[c].request.item
  BY <1>3 DEF WellFormed
<1>5. PICK q \in Amount : q = call[c].request.quantity
  BY <1>2, <1>3 DEF WellFormed
<1>6. PICK k \in Loan : k = call[c].request.loan
  BY <1>3
<1> DEFINE resulting == Resulting("RETURN", call[c].seen.quantity, q)
           returned == loan[k].returned + q
<1>7. /\ resulting <= MaxQuantity /\ Moves(c, resulting, k)
      /\ loan' = [loan EXCEPT ![k].returned = returned,
                              ![k].closed = (returned = loan[k].quantity)]
  BY <1>2, <1>3, <1>5, <1>6 DEF CommitReturn, ReturnedTotal, FullyReturned
<1>8. resulting \in Quantity
  BY <1>2, <1>5, <1>7, MovedIsQuantity
<1>9. loan[k].item = i /\ loan[k] \in LoanType
  BY <1>1, <1>2, <1>3, <1>4, <1>6 DEF WellFormed, TypeOK
<1>10. /\ loan'[k].item = i /\ loan'[k].quantity = loan[k].quantity
       /\ loan'[k].returned = loan[k].returned + q
       /\ \A l \in Loan \ {k} : loan'[l] = loan[l]
  <2>1. loan \in [Loan -> LoanType]
    BY <1>1 DEF TypeOK
  <2> HIDE DEF returned
  <2>2. /\ loan'[k].item = i /\ loan'[k].quantity = loan[k].quantity
        /\ loan'[k].returned = returned
        /\ \A l \in Loan \ {k} : loan'[l] = loan[l]
    BY <1>7, <1>9, <2>1 DEF LoanType
  <2> QED
    BY <2>2 DEF returned
<1>11. Owed[k] \in Int /\ Owed'[k] = Owed[k] - q
  <2>1. loan[k].quantity \in Int /\ loan[k].returned \in Int /\ q \in Int
    BY <1>9 DEF LoanType, Quantity, Amount
  <2>2. Owed[k] = loan[k].quantity - loan[k].returned
    BY DEF Owed
  <2>3. Owed'[k] = loan[k].quantity - (loan[k].returned + q)
    BY <1>10 DEF Owed
  <2> QED
    BY <2>1, <2>2, <2>3
<1>12. \A l \in Loan \ {k} : Owed'[l] = Owed[l]
  BY <1>10 DEF Owed
<1>13. k \in LoansOf(i) /\ k \in LoansOf(i)' /\ LoansOf(i)' = LoansOf(i)
  BY <1>9, <1>10 DEF LoansOf
<1>14. ASSUME NEW j \in Item \ {i} PROVE OnLoan(j)' = OnLoan(j)
  <2>1. LoansOf(j)' = LoansOf(j) /\ LoansOf(j) \subseteq Loan \ {k}
    BY <1>9, <1>10 DEF LoansOf
  <2> QED
    BY <1>12, <2>1, OwedStays
<1>15. OnLoan(i) \in Int /\ OnLoan(i)' = OnLoan(i) + Owed'[k] - Owed[k]
  BY <1>1, <1>12, <1>13, OwedChanges, OwedIsANumber
<1>16. OnLoan(i)' = OnLoan(i) + 0 - q
  BY <1>11, <1>15 DEF Amount
<1> QED
  BY <1>2, <1>4, <1>5, <1>7, <1>8, <1>14, <1>16, CommitConserves

(* Creation stocks what it enters, a movement what its row says; assigning *)
(* and returning turn stock into loans and back.                           *)
LEMMA StockStep ==
  ASSUME Inv, Inv', LedgerInv, StockIsConserved, [Next]_vars
  PROVE  StockIsConserved'
<1>1. TypeOK /\ TypeOK'
  BY DEF Inv
<1>2. ASSUME NEW i \in Item, NEW q \in Quantity, NEW ret \in BOOLEAN, CreateItem(i, q, ret)
      PROVE  StockIsConserved'
  <2>1. item[i].quantity = 0
    BY <1>2 DEF CreateItem, LedgerInv, LedgerIsTheStock, Balance
  <2> QED
    BY <1>2, <2>1, CreationConserves
<1>3. ASSUME NEW c \in Caller, CommitStock(c) PROVE StockIsConserved'
  <2>1. /\ call[c].phase = "writing" /\ ~Conflicts(c) /\ UNCHANGED loan
        /\ call[c].request.op \in {"STOCK_IN", "STOCK_OUT", "ADJUSTMENT_IN", "ADJUSTMENT_OUT"}
    BY <1>3 DEF CommitStock
  <2>2. call[c].request.item \in Item
    BY <2>1, AtCommit DEF WellFormed
  <2>3. PICK i \in Item : i = call[c].request.item
    BY <2>2
  <2>4. PICK op \in {"STOCK_IN", "STOCK_OUT", "ADJUSTMENT_IN", "ADJUSTMENT_OUT"} :
          op = call[c].request.op
    BY <2>1
  <2>5. \E q : q = call[c].request.quantity
    OBVIOUS
  <2>6. PICK q : q = call[c].request.quantity
    BY <2>5
  <2>7. /\ Moves(c, Resulting(op, call[c].seen.quantity, q), NoLoan)
        /\ Resulting(op, call[c].seen.quantity, q) <= MaxQuantity
    BY <1>3, <2>4, <2>6 DEF CommitStock
  <2>8. Resulting(op, call[c].seen.quantity, q) \in Quantity
    BY <2>1, <2>4, <2>6, <2>7, MovedIsQuantity
  <2>9. \A j \in Item : OnLoan(j)' = OnLoan(j) /\ OnLoan(j) \in Int
    BY <1>1, <2>1, OwedIsANumber DEF OnLoan, LoansOf
  <2>10. OnLoan(i)' = OnLoan(i) + (IF op = "ASSIGN" THEN q ELSE 0)
                                - (IF op = "RETURN" THEN q ELSE 0)
    BY <2>4, <2>9
  <2> QED
    BY <2>1, <2>3, <2>4, <2>6, <2>7, <2>8, <2>9, <2>10, CommitConserves
<1>4. ASSUME NEW c \in Caller, CommitUpdate(c) PROVE StockIsConserved'
  <2>1. \A j \in Item : item'[j].quantity = item[j].quantity
    BY <1>1, <1>4 DEF CommitUpdate, TypeOK, ItemType
  <2> QED
    BY <1>4, <2>1, NothingMoves DEF CommitUpdate
<1>5. ASSUME UNCHANGED <<item, loan, ledger>> PROVE StockIsConserved'
  BY <1>5, NothingMoves
<1>6. ASSUME NEW c \in Caller,
             (\E r \in Requests : Ask(c, r)) \/ AskAgain(c) \/ Retry(c) \/ Overflow(c)
      PROVE  UNCHANGED <<item, loan, ledger>>
  BY <1>6 DEF Ask, AskAgain, Read, Retry, Overflow
<1> QED
  BY <1>2, <1>3, <1>4, <1>5, <1>6, AssignConserves, ReturnConserves DEF Next, vars

(* What was ever stocked, less what left for good, is on the shelf or out  *)
(* on loan: no history of overlapping and retried movements makes or loses *)
(* stock, however many loans and rows an item has.                         *)
THEOREM StockIsConservedHolds == Spec => []StockIsConserved
<1>1. Init => LedgerInv
  BY DEF Init, LedgerInv, LedgerIsTheStock, Balance, NoStock
<1>2. Init => StockIsConserved
  <2> SUFFICES ASSUME Init, NEW i \in Item
               PROVE  item[i].quantity + OnLoan(i)
                        = Moved(ledger[i], {"STOCK_IN", "ADJUSTMENT_IN"})
                          - Moved(ledger[i], {"STOCK_OUT", "ADJUSTMENT_OUT"})
    BY DEF StockIsConserved
  <2>1. item[i].quantity = 0 /\ ledger[i] = <<>> /\ LoansOf(i) = {}
    BY DEF Init, NoStock, LoansOf, Unlent
  <2>2. \A types : Rows(<<>>, types) = {}
    BY DEF Rows
  <2>3. \A types : Moved(<<>>, types) = 0
    <3>1. \A types : Moved(<<>>, types) = SumFunctionOnSet(Quantities(<<>>), Rows(<<>>, types))
      BY DEF Moved, Rows, Quantities
    <3> QED
      BY <2>2, <3>1, SumOneFirst, FS_EmptySet
  <2>4. OnLoan(i) = 0
    BY <2>1, SumOneFirst, FS_EmptySet DEF OnLoan
  <2> QED
    BY <2>1, <2>3, <2>4
<1> QED
  BY <1>1, <1>2, InvInit, InvStep, LedgerStep, StockStep, PTL DEF Spec
=============================================================================
