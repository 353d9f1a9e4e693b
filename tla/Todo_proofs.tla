---------------------------- MODULE Todo_proofs ----------------------------
(***************************************************************************)
(* Proofs about RateLimit and Todo, for any scopes, limits, users, calls   *)
(* and items, any retention and any batch size of the cleanup.             *)
(***************************************************************************)
EXTENDS Todo, TLAPS

-----------------------------------------------------------------------------
(* The limit *)

(* A row counts what its window has handled, up to the limit.              *)
RowCounts(k) ==
  /\ handled[k] <= Limit[k.scope]
  /\ count[k] > 0 => /\ handled[k] <= count[k]
                     /\ handled[k] = count[k] \/ handled[k] = Limit[k.scope]

(* A row is only missing before its first request or after its retention.  *)
RowIsKept(k) == count[k] = 0 => handled[k] = 0 \/ ExpiresAt(k) <= window

(* A request reaches its row while a cleanup cannot have taken it yet.     *)
AskedInTime(c) ==
  asked[c] # NoKey => /\ asked[c].start <= window
                      /\ window <= asked[c].start + MaxDelay

RateInv ==
  /\ RateTypeOK
  /\ \A k \in Key : RowCounts(k) /\ RowIsKept(k)
  /\ \A k \in doomed : ExpiresAt(k) <= window
  /\ \A c \in Call : AskedInTime(c)

(* What the rows say of the requests handled is the limit.                 *)
LEMMA RateInvIsExact == RateInv => LimitIsExact
BY DEF RateInv, RowCounts, LimitIsExact

(* The database without buckets satisfies the invariant.                   *)
LEMMA RateInvInit == RateInit => RateInv
<1> SUFFICES ASSUME RateInit PROVE RateInv
  OBVIOUS
<1>1. RateTypeOK
  BY BoundsAssumption DEF RateInit, RateTypeOK
<1>2. ASSUME NEW k \in Key PROVE RowCounts(k) /\ RowIsKept(k)
  <2>1. Limit[k.scope] \in Nat
    BY LimitAssumption DEF Key
  <2> QED
    BY <2>1 DEF RateInit, RowCounts, RowIsKept
<1> QED
  BY <1>1, <1>2 DEF RateInit, RateInv, AskedInTime

(* A request that reaches its row finds one that has not expired.          *)
LEMMA AskedIsKept ==
  ASSUME RateInv, NEW c \in Call, asked[c] # NoKey
  PROVE  /\ asked[c] \in Key
         /\ ~(ExpiresAt(asked[c]) <= window)
<1>1. asked[c] \in Key
  BY DEF RateInv, RateTypeOK
<1>2. asked[c].start \in Nat /\ window \in Nat
  BY <1>1, BoundsAssumption DEF Key, RateInv, RateTypeOK
<1>3. window <= asked[c].start + MaxDelay
  BY DEF RateInv, AskedInTime
<1> QED
  BY <1>1, <1>2, <1>3, DelayAssumption DEF ExpiresAt

(* Counting a request, whether it is let through or not, keeps the         *)
(* invariant: its row has not expired, so a count that begins at one       *)
(* begins with the window.                                                 *)
LEMMA CountedKeeps ==
  ASSUME RateInv, NEW c \in Call, LetThrough(c) \/ TooMany(c)
  PROVE  RateInv'
<1> DEFINE k == asked[c]
<1>1. k \in Key /\ ~(ExpiresAt(k) <= window)
  BY AskedIsKept DEF LetThrough, TooMany, Counted
<1>2. /\ count' = [count EXCEPT ![k] = @ + 1]
      /\ asked' = [asked EXCEPT ![c] = NoKey]
      /\ UNCHANGED <<window, doomed, requests>>
  BY DEF LetThrough, TooMany, Counted
<1>3. count[k] \in Nat /\ handled[k] \in Nat /\ Limit[k.scope] \in Nat
  BY <1>1, LimitAssumption DEF RateInv, RateTypeOK, Key
<1>4. handled' = IF Admitted(c) THEN [handled EXCEPT ![k] = @ + 1] ELSE handled
  BY DEF LetThrough, TooMany
<1>5. RateTypeOK'
  <2>1. count' \in [Key -> Nat]
    BY <1>1, <1>2, <1>3 DEF RateInv, RateTypeOK
  <2>2. handled' \in [Key -> Nat]
    BY <1>1, <1>3, <1>4 DEF RateInv, RateTypeOK
  <2>3. asked' \in [Call -> Key \cup {NoKey}]
    BY <1>2 DEF RateInv, RateTypeOK
  <2> QED
    BY <1>2, <2>1, <2>2, <2>3 DEF RateInv, RateTypeOK
<1>6. ASSUME NEW l \in Key PROVE (RowCounts(l) /\ RowIsKept(l))'
  <2>1. CASE l # k
    <3>1. count'[l] = count[l] /\ handled'[l] = handled[l]
      BY <1>1, <1>2, <1>4, <2>1 DEF RateInv, RateTypeOK
    <3> QED
      BY <1>2, <3>1 DEF RateInv, RowCounts, RowIsKept, ExpiresAt
  <2>2. CASE l = k
    <3>1. count'[k] = count[k] + 1
      BY <1>1, <1>2 DEF RateInv, RateTypeOK
    <3>2. RowCounts(k) /\ RowIsKept(k)
      BY <1>1 DEF RateInv
    <3>3. CASE Admitted(c)
      <4>1. handled'[k] = handled[k] + 1
        BY <1>1, <1>4, <3>3 DEF RateInv, RateTypeOK
      <4>2. count[k] + 1 <= Limit[k.scope]
        BY <3>3 DEF Admitted
      <4>3. handled[k] = count[k]
        BY <1>1, <1>3, <3>2, <4>2 DEF RowCounts, RowIsKept
      <4> QED
        BY <1>3, <2>2, <3>1, <4>1, <4>2, <4>3 DEF RowCounts, RowIsKept
    <3>4. CASE ~Admitted(c)
      <4>1. handled'[k] = handled[k]
        BY <1>4, <3>4
      <4>2. count[k] >= Limit[k.scope]
        BY <1>3, <3>4 DEF Admitted
      <4>3. handled[k] = Limit[k.scope]
        BY <1>1, <1>3, <3>2, <4>2 DEF RowCounts, RowIsKept
      <4> QED
        BY <1>3, <2>2, <3>1, <4>1, <4>2, <4>3 DEF RowCounts, RowIsKept
    <3> QED
      BY <3>3, <3>4
  <2> QED
    BY <2>1, <2>2
<1>7. \A l \in doomed' : (ExpiresAt(l) <= window)'
  BY <1>2 DEF RateInv, ExpiresAt
<1>8. ASSUME NEW d \in Call PROVE AskedInTime(d)'
  BY <1>2 DEF RateInv, RateTypeOK, AskedInTime
<1> QED
  BY <1>5, <1>6, <1>7, <1>8 DEF RateInv

(* Every other step keeps it as well.                                      *)
LEMMA RateInvStep == RateInv /\ [RateNext]_rateVars => RateInv'
<1> SUFFICES ASSUME RateInv, [RateNext]_rateVars PROVE RateInv'
  OBVIOUS
<1>1. window \in Nat /\ MaxDelay \in Nat /\ MaxRequests \in Nat /\ Horizon \in Nat
  BY BoundsAssumption, DelayAssumption DEF RateInv, RateTypeOK
<1>2. ASSUME NEW c \in Call, NEW scope \in Scope, NEW u \in User, Ask(c, scope, u)
      PROVE  RateInv'
  <2>1. [scope |-> scope, user |-> u, start |-> window] \in Key
    BY DEF Key, RateInv, RateTypeOK
  <2>2. RateTypeOK'
    BY <1>1, <1>2, <2>1 DEF Ask, RateInv, RateTypeOK
  <2>3. ASSUME NEW d \in Call PROVE AskedInTime(d)'
    BY <1>1, <1>2 DEF Ask, RateInv, RateTypeOK, AskedInTime
  <2>4. \A k \in Key : (RowCounts(k) /\ RowIsKept(k))'
    BY <1>2 DEF Ask, RateInv, RowCounts, RowIsKept, ExpiresAt
  <2> QED
    BY <1>2, <2>2, <2>3, <2>4 DEF Ask, RateInv, ExpiresAt
<1>3. ASSUME NEW c \in Call, LetThrough(c) \/ TooMany(c) PROVE RateInv'
  BY <1>3, CountedKeeps
<1>4. CASE CleanupReads
  <2>1. doomed' \subseteq Expired /\ UNCHANGED <<window, count, asked, handled, requests>>
    BY <1>4 DEF CleanupReads
  <2>2. \A k \in doomed' : k \in Key /\ ExpiresAt(k) <= window
    BY <2>1 DEF Expired, Rows
  <2>3. RateTypeOK'
    BY <2>1, <2>2 DEF RateInv, RateTypeOK
  <2> QED
    BY <2>1, <2>2, <2>3 DEF RateInv, RowCounts, RowIsKept, AskedInTime, ExpiresAt
<1>5. CASE CleanupDeletes
  <2>1. /\ count' = [k \in Key |-> IF k \in doomed THEN 0 ELSE count[k]]
        /\ doomed' = {}
        /\ UNCHANGED <<window, asked, handled, requests>>
    BY <1>5 DEF CleanupDeletes
  <2>2. RateTypeOK'
    BY <2>1 DEF RateInv, RateTypeOK
  <2>3. ASSUME NEW k \in Key PROVE (RowCounts(k) /\ RowIsKept(k))'
    BY <2>1 DEF RateInv, RateTypeOK, RowCounts, RowIsKept, ExpiresAt
  <2> QED
    BY <2>1, <2>2, <2>3 DEF RateInv, AskedInTime
<1>6. CASE NextWindow
  <2>1. /\ window' = window + 1 /\ window < Horizon
        /\ \A c \in Call : asked[c] # NoKey => window < asked[c].start + MaxDelay
        /\ UNCHANGED <<count, doomed, asked, handled, requests>>
    BY <1>6 DEF NextWindow
  <2>2. \A k \in Key : ExpiresAt(k) \in Nat
    BY <1>1, DelayAssumption DEF Key, ExpiresAt
  <2>3. RateTypeOK'
    BY <1>1, <2>1 DEF RateInv, RateTypeOK
  <2>4. ASSUME NEW k \in Key PROVE (RowCounts(k) /\ RowIsKept(k))'
    BY <1>1, <2>1, <2>2 DEF RateInv, RowCounts, RowIsKept, ExpiresAt
  <2>5. ASSUME NEW k \in doomed' PROVE (ExpiresAt(k) <= window)'
    BY <1>1, <2>1, <2>2 DEF RateInv, RateTypeOK, ExpiresAt
  <2>6. ASSUME NEW c \in Call PROVE AskedInTime(c)'
    <3>1. CASE asked[c] # NoKey
      <4>1. asked[c].start \in Nat
        BY <3>1, <1>1 DEF RateInv, RateTypeOK, Key
      <4> QED
        BY <1>1, <2>1, <3>1, <4>1 DEF RateInv, AskedInTime
    <3>2. CASE asked[c] = NoKey
      BY <2>1, <3>2 DEF AskedInTime
    <3> QED
      BY <3>1, <3>2
  <2> QED
    BY <2>3, <2>4, <2>5, <2>6 DEF RateInv
<1>7. CASE UNCHANGED rateVars
  BY <1>7 DEF rateVars, RateInv, RateTypeOK, RowCounts, RowIsKept, AskedInTime, ExpiresAt
<1> QED
  BY <1>2, <1>3, <1>4, <1>5, <1>6, <1>7 DEF RateNext

(* The rate limit alone is exact.                                          *)
THEOREM RateLimitIsExact == RateSpec => []LimitIsExact
<1>1. RateInit => RateInv
  BY RateInvInit
<1>2. RateInv /\ [RateNext]_rateVars => RateInv'
  BY RateInvStep
<1>3. RateInv => LimitIsExact
  BY RateInvIsExact
<1> QED
  BY <1>1, <1>2, <1>3, PTL DEF RateSpec

-----------------------------------------------------------------------------
(* The items *)

(* A step of the items is a step of the rate limit or leaves it alone.     *)
LEMMA TodoStepIsRateStep == [Next]_vars => [RateNext]_rateVars
<1> SUFFICES ASSUME [Next]_vars PROVE [RateNext]_rateVars
  OBVIOUS
<1>1. ASSUME NEW c \in Call, NEW op \in Limited, NEW u \in User, AskToHandle(c, op, u)
      PROVE  RateNext
  BY <1>1, LimitedAssumption DEF AskToHandle, RateNext
<1>2. ASSUME NEW c \in Call, Admit(c) \/ Reject(c) PROVE RateNext
  BY <1>2 DEF Admit, Reject, RateNext
<1>3. ASSUME NEW c \in Call,
             \/ \E op \in ReadsFirst, u \in User, i \in Item : FindOwned(c, op, u, i)
             \/ Create(c) \/ Delete(c) \/ ClearCompleted(c)
             \/ Complete(c) \/ Reopen(c) \/ Update(c)
      PROVE  UNCHANGED rateVars
  BY <1>3 DEF FindOwned, Create, Delete, ClearCompleted, Complete, Reopen, Update, Change
<1>4. CASE Elsewhere
  BY <1>4 DEF Elsewhere, RateNext
<1>5. CASE UNCHANGED vars
  BY <1>5 DEF vars
<1> QED
  BY <1>1, <1>2, <1>3, <1>4, <1>5 DEF Next

(* In no window are more requests handled than the policy allows, and none *)
(* is refused before, with the operations behind the limit running.        *)
THEOREM LimitIsExactHolds == Spec => []LimitIsExact
<1>1. Init => RateInv
  BY RateInvInit DEF Init
<1>2. RateInv /\ [Next]_vars => RateInv'
  BY RateInvStep, TodoStepIsRateStep
<1>3. RateInv => LimitIsExact
  BY RateInvIsExact
<1> QED
  BY <1>1, <1>2, <1>3, PTL DEF Spec

Entry == [owner : User, edited : BOOLEAN, completedAt : Nat \cup {None}]
Handled == [op : Limited, user : User]
             \cup [op : ReadsFirst, user : User, item : Item, seen : Entry]

TodoTypeOK ==
  /\ todos \in [Item -> Entry \cup {None}]
  /\ handling \in [Call -> Handled \cup {None}]
  /\ \A c \in Call : asked[c] # NoKey => asked[c].scope \in Limited

(* A call that has read an item and still finds it finds its own.          *)
ReadIsOwned(c) ==
  \A op \in ReadsFirst :
    Doing(c, op) /\ handling[c].item \in Stored
      => todos[handling[c].item].owner = handling[c].user

TodoInv == RateTypeOK /\ TodoTypeOK /\ \A c \in Call : ReadIsOwned(c)

(* What a call that has read an item holds.                                *)
LEMMA ReadType ==
  ASSUME TodoInv, NEW c \in Call, NEW op \in ReadsFirst, Doing(c, op)
  PROVE  /\ handling[c].item \in Item
         /\ handling[c].seen \in Entry
         /\ handling[c].item \in Stored => todos[handling[c].item].owner = handling[c].user
BY DEF TodoInv, TodoTypeOK, Handled, Limited, ReadsFirst, Doing, ReadIsOwned

(* A change writes at most the item that was read, and the call ends.      *)
LEMMA ChangeIsLocal ==
  ASSUME TodoInv, NEW c \in Call, NEW op \in ReadsFirst, NEW applies, NEW to,
         Change(c, op, applies, to)
  PROVE  /\ handling' = [handling EXCEPT ![c] = None]
         /\ UNCHANGED rateVars
         /\ \A i \in Item : todos'[i] # todos[i] => /\ i = handling[c].item
                                                    /\ i \in Stored
                                                    /\ applies
                                                    /\ todos'[i] = to
         /\ todos' \in [Item -> Entry \cup {None, to}]
         /\ todos' = todos \/ (applies /\ handling[c].item \in Stored)
<1>1. handling[c].item \in Item
  BY ReadType DEF Change
<1> QED
  BY <1>1 DEF Change, Ends, TodoInv, TodoTypeOK

(* Calls stay with their own items as long as what they have read keeps    *)
(* its owner, or goes.                                                     *)
LEMMA OwnershipKeeps ==
  ASSUME TodoInv,
         \A c \in Call : \/ handling'[c] = handling[c]
                         \/ handling'[c] = None
                         \/ handling'[c] \in [op : Limited, user : User],
         \A i \in Remembered : i \in Stored' => /\ i \in Stored
                                                /\ todos'[i].owner = todos[i].owner
  PROVE  \A c \in Call : ReadIsOwned(c)'
<1> SUFFICES ASSUME NEW c \in Call, NEW op \in ReadsFirst,
                    Doing(c, op)', handling'[c].item \in Stored'
             PROVE  todos'[handling'[c].item].owner = handling'[c].user
  BY DEF ReadIsOwned
<1>1. handling'[c] = handling[c]
  BY DEF Doing, Limited, ReadsFirst
<1>2. Doing(c, op)
  BY <1>1 DEF Doing
<1>3. handling[c].item \in Remembered
  BY <1>2 DEF Remembered
<1> QED
  BY <1>1, <1>2, <1>3, ReadType

(* Without items the invariant holds.                                      *)
LEMMA TodoInvInit == Init => TodoInv
<1> SUFFICES ASSUME Init PROVE TodoInv
  OBVIOUS
<1>1. RateTypeOK
  BY RateInvInit DEF Init, RateInv
<1> QED
  BY <1>1 DEF Init, RateInit, TodoInv, TodoTypeOK, ReadIsOwned, Doing

(* Every step keeps the invariant on items and the calls that read them.   *)
LEMMA TodoInvStep == TodoInv /\ RateTypeOK' /\ [Next]_vars => TodoInv'
<1> SUFFICES ASSUME TodoInv, RateTypeOK', [Next]_vars PROVE TodoInv'
  OBVIOUS
<1> USE DEF TodoTypeOK
<1>1. ASSUME NEW c \in Call, NEW op \in Limited, NEW u \in User, AskToHandle(c, op, u)
      PROVE  TodoInv'
  <2>1. \A d \in Call : asked'[d] # NoKey => asked'[d].scope \in Limited
    BY <1>1 DEF AskToHandle, Ask, TodoInv, RateTypeOK
  <2>2. UNCHANGED <<todos, handling>>
    BY <1>1 DEF AskToHandle, todoVars
  <2> QED
    BY <2>1, <2>2 DEF TodoInv, ReadIsOwned, Doing, Stored
<1>2. ASSUME NEW c \in Call, Admit(c) PROVE TodoInv'
  <2>1. /\ asked[c] \in Key /\ asked[c].scope \in Limited
        /\ asked' = [asked EXCEPT ![c] = NoKey]
        /\ handling' = [handling EXCEPT ![c] = [op |-> asked[c].scope, user |-> asked[c].user]]
        /\ todos' = todos
    BY <1>2 DEF Admit, LetThrough, Counted, TodoInv, RateTypeOK
  <2>2. [op |-> asked[c].scope, user |-> asked[c].user] \in [op : Limited, user : User]
    BY <2>1 DEF Key
  <2>3. TodoTypeOK'
    BY <2>1, <2>2 DEF TodoInv, RateTypeOK, Handled
  <2>4. \A d \in Call : handling'[d] = handling[d] \/ handling'[d] \in [op : Limited, user : User]
    BY <2>1, <2>2 DEF TodoInv
  <2>5. \A d \in Call : ReadIsOwned(d)'
    BY <2>1, <2>4, OwnershipKeeps DEF Stored
  <2> QED
    BY <2>3, <2>5 DEF TodoInv
<1>3. ASSUME NEW c \in Call, Reject(c) PROVE TodoInv'
  <2>1. UNCHANGED <<todos, handling>> /\ asked' = [asked EXCEPT ![c] = NoKey]
    BY <1>3 DEF Reject, TooMany, Counted, todoVars
  <2> QED
    BY <2>1 DEF TodoInv, RateTypeOK, ReadIsOwned, Doing, Stored
<1>4. ASSUME NEW c \in Call, NEW op \in ReadsFirst, NEW u \in User, NEW i \in Item,
             FindOwned(c, op, u, i)
      PROVE  TodoInv'
  <2> DEFINE found == [op |-> op, user |-> u, item |-> i, seen |-> todos[i]]
  <2>1. /\ handling' = [handling EXCEPT ![c] = found]
        /\ UNCHANGED <<rateVars, todos>>
        /\ i \in Stored /\ todos[i].owner = u
    BY <1>4 DEF FindOwned, Owned
  <2>2. todos[i] \in Entry
    BY <2>1 DEF TodoInv, Stored
  <2>3. found \in [op : ReadsFirst, user : User, item : Item, seen : Entry]
    BY <2>2
  <2>4. handling' \in [Call -> Handled \cup {None}]
    BY <2>1, <2>3 DEF TodoInv, Handled
  <2>5. ASSUME NEW d \in Call PROVE ReadIsOwned(d)'
    <3>1. CASE d = c
      <4>1. handling'[d] = found
        BY <2>1, <3>1 DEF TodoInv
      <4> QED
        BY <2>1, <4>1 DEF ReadIsOwned
    <3>2. CASE d # c
      <4>1. handling'[d] = handling[d]
        BY <2>1, <3>2 DEF TodoInv
      <4> QED
        BY <2>1, <4>1 DEF TodoInv, ReadIsOwned, Doing, Stored
    <3> QED
      BY <3>1, <3>2
  <2> QED
    BY <2>1, <2>4, <2>5 DEF TodoInv, rateVars
<1>5. ASSUME NEW c \in Call, Create(c) PROVE TodoInv'
  <2>1. PICK i \in Item \ (Stored \cup Remembered) :
          todos' = [todos EXCEPT ![i] = Fresh(handling[c].user)]
    BY <1>5 DEF Create
  <2>2. handling' = [handling EXCEPT ![c] = None] /\ UNCHANGED rateVars
    BY <1>5 DEF Create, Ends
  <2>3. handling[c].user \in User
    BY <1>5 DEF Create, Doing, TodoInv, Handled
  <2>4. TodoTypeOK'
    BY <2>1, <2>2, <2>3 DEF TodoInv, Fresh, Entry, rateVars
  <2>5. \A j \in Remembered : j \in Stored' => j \in Stored /\ todos'[j] = todos[j]
    BY <2>1 DEF TodoInv, Stored
  <2>6. \A d \in Call : handling'[d] = handling[d] \/ handling'[d] = None
    BY <2>2 DEF TodoInv
  <2> QED
    BY <2>4, <2>5, <2>6, OwnershipKeeps DEF TodoInv
<1>6. ASSUME NEW c \in Call, Delete(c) \/ ClearCompleted(c) PROVE TodoInv'
  <2>1. PICK items \in SUBSET Item : todos' = Removed(items)
    <3>1. \A i \in Item : {i} \cap Owned(handling[c].user) \in SUBSET Item
      OBVIOUS
    <3>2. {i \in Owned(handling[c].user) : todos[i].completedAt # None} \in SUBSET Item
      BY DEF Owned, Stored
    <3> QED
      BY <1>6, <3>1, <3>2 DEF Delete, ClearCompleted
  <2>2. handling' = [handling EXCEPT ![c] = None] /\ UNCHANGED rateVars
    BY <1>6 DEF Delete, ClearCompleted, Ends
  <2>3. TodoTypeOK'
    BY <2>1, <2>2 DEF TodoInv, Removed, rateVars
  <2>4. \A j \in Stored' : j \in Stored /\ todos'[j] = todos[j]
    BY <2>1 DEF Stored, Removed
  <2>5. \A d \in Call : handling'[d] = handling[d] \/ handling'[d] = None
    BY <2>2 DEF TodoInv
  <2> QED
    BY <2>3, <2>4, <2>5, OwnershipKeeps DEF TodoInv
<1>7. ASSUME NEW c \in Call, NEW op \in ReadsFirst, NEW applies, NEW to,
             Change(c, op, applies, to),
             applies /\ handling[c].item \in Stored
               => to \in Entry /\ to.owner = todos[handling[c].item].owner
      PROVE  TodoInv'
  <2>1. /\ handling' = [handling EXCEPT ![c] = None]
        /\ UNCHANGED rateVars
        /\ \A i \in Item : todos'[i] # todos[i] => /\ i = handling[c].item
                                                   /\ i \in Stored
                                                   /\ applies
                                                   /\ todos'[i] = to
        /\ todos' \in [Item -> Entry \cup {None, to}]
        /\ todos' = todos \/ (applies /\ handling[c].item \in Stored)
    BY <1>7, ChangeIsLocal
  <2>2. TodoTypeOK'
    BY <1>7, <2>1 DEF TodoInv, rateVars
  <2>3. \A i \in Item : i \in Stored' => /\ i \in Stored
                                         /\ todos'[i].owner = todos[i].owner
    BY <1>7, <2>1 DEF Stored
  <2>4. \A d \in Call : handling'[d] = handling[d] \/ handling'[d] = None
    BY <2>1 DEF TodoInv
  <2>5. \A i \in Remembered : i \in Stored' => /\ i \in Stored
                                              /\ todos'[i].owner = todos[i].owner
    BY <2>3 DEF Stored
  <2> QED
    BY <2>2, <2>4, <2>5, OwnershipKeeps DEF TodoInv
<1>8. ASSUME NEW c \in Call, Complete(c) \/ Reopen(c) \/ Update(c) PROVE TodoInv'
  <2> DEFINE i == handling[c].item
  <2>1. i \in Stored => todos[i] \in Entry
    BY DEF TodoInv, Stored
  <2>2. window \in Nat
    BY DEF TodoInv, RateTypeOK
  <2>3. CASE Complete(c)
    <3>1. i \in Stored => /\ [todos[i] EXCEPT !.completedAt = window] \in Entry
                          /\ [todos[i] EXCEPT !.completedAt = window].owner = todos[i].owner
      BY <2>1, <2>2 DEF Entry
    <3> QED
      BY <1>7, <2>3, <3>1 DEF Complete, ReadsFirst
  <2>4. CASE Reopen(c)
    <3>1. i \in Stored => /\ [todos[i] EXCEPT !.completedAt = None] \in Entry
                          /\ [todos[i] EXCEPT !.completedAt = None].owner = todos[i].owner
      BY <2>1 DEF Entry
    <3> QED
      BY <1>7, <2>4, <3>1 DEF Reopen, ReadsFirst
  <2>5. CASE Update(c)
    <3>1. i \in Stored => /\ Updated(todos[i], handling[c].seen) \in Entry
                          /\ Updated(todos[i], handling[c].seen).owner = todos[i].owner
      BY <2>1 DEF Entry, Updated
    <3> QED
      BY <1>7, <2>5, <3>1 DEF Update, ReadsFirst
  <2> QED
    BY <1>8, <2>3, <2>4, <2>5
<1>9. CASE Elsewhere
  BY <1>9 DEF Elsewhere, CleanupReads, CleanupDeletes, NextWindow, todoVars, TodoInv,
     ReadIsOwned, Doing, Stored
<1>10. CASE UNCHANGED vars
  BY <1>10 DEF vars, rateVars, todoVars, TodoInv, ReadIsOwned, Doing, Stored
<1> QED
  BY <1>1, <1>2, <1>3, <1>4, <1>5, <1>6, <1>8, <1>9, <1>10 DEF Next

(* The time of a completion changes in no other way than by the owner's    *)
(* reopening: the call that writes may have read the item long before.     *)
THEOREM CompletionIsKeptHolds == Spec => CompletionIsKept
<1> DEFINE Both == RateInv /\ TodoInv
           Reopened(c, i) == /\ Doing(c, "REOPEN") /\ handling[c].item = i
                             /\ handling[c].user = todos[i].owner
                             /\ handling'[c] = None
           Kept(i) == (todos[i] # None /\ todos'[i] # None /\ todos[i].completedAt # None)
                        => \/ todos'[i].completedAt = todos[i].completedAt
                           \/ \E c \in Call : Reopened(c, i)
<1>1. Init => Both
  BY RateInvInit, TodoInvInit DEF Init
<1>2. Both /\ [Next]_vars => Both'
  <2>1. Both /\ [Next]_vars => RateInv'
    BY RateInvStep, TodoStepIsRateStep
  <2> QED
    BY <2>1, TodoInvStep DEF RateInv
<1>3. Both /\ [Next]_vars =>
        [\A i \in Item :
           (todos[i] # None /\ todos'[i] # None /\ todos[i].completedAt # None)
             => \/ todos'[i].completedAt = todos[i].completedAt
                \/ \E c \in Call : Doing(c, "REOPEN") /\ handling[c].item = i
                                   /\ handling[c].user = todos[i].owner
                                   /\ handling'[c] = None]_vars
  <2> SUFFICES ASSUME TodoInv, Next, NEW i \in Item PROVE Kept(i)
    OBVIOUS
  <2>1. CASE UNCHANGED todos
    BY <2>1
  <2>2. ASSUME NEW c \in Call, Create(c) PROVE Kept(i)
    <3>1. PICK j \in Item \ (Stored \cup Remembered) :
            todos' = [todos EXCEPT ![j] = Fresh(handling[c].user)]
      BY <2>2 DEF Create
    <3>2. todos[i] # None => todos'[i] = todos[i]
      BY <3>1 DEF Stored, TodoInv, TodoTypeOK
    <3> QED
      BY <3>2
  <2>3. ASSUME NEW c \in Call, Delete(c) \/ ClearCompleted(c) PROVE Kept(i)
    <3>1. todos'[i] # None => todos'[i] = todos[i]
      BY <2>3 DEF Delete, ClearCompleted, Removed
    <3> QED
      BY <3>1
  <2>4. ASSUME NEW c \in Call, Complete(c) PROVE Kept(i)
    <3>1. todos'[i] # todos[i] => todos[i].completedAt = None
      BY <2>4 DEF Complete, Change, Completes, TodoInv, TodoTypeOK
    <3> QED
      BY <3>1
  <2>5. ASSUME NEW c \in Call, Reopen(c) PROVE Kept(i)
    <3>1. Doing(c, "REOPEN") /\ handling' = [handling EXCEPT ![c] = None]
      BY <2>5 DEF Reopen, Change, Ends
    <3>2. todos'[i] # todos[i] => i = handling[c].item /\ i \in Stored
      BY <2>5, ChangeIsLocal DEF Reopen, ReadsFirst
    <3>3. i = handling[c].item /\ i \in Stored => handling[c].user = todos[i].owner
      BY <3>1, ReadType DEF ReadsFirst
    <3>4. handling'[c] = None
      BY <3>1 DEF TodoInv, TodoTypeOK
    <3>5. todos'[i] # todos[i] => Reopened(c, i)
      BY <3>1, <3>2, <3>3, <3>4
    <3> QED
      BY <3>5
  <2>6. ASSUME NEW c \in Call, Update(c) PROVE Kept(i)
    <3>1. todos'[i] # todos[i]
            => i \in Stored /\ todos'[i] = Updated(todos[i], handling[c].seen)
      BY <2>6 DEF Update, Change, TodoInv, TodoTypeOK
    <3>2. i \in Stored => todos[i] \in Entry
      BY DEF TodoInv, TodoTypeOK, Stored
    <3>3. i \in Stored
            => Updated(todos[i], handling[c].seen).completedAt = todos[i].completedAt
      BY <3>2 DEF Updated, Entry
    <3> QED
      BY <3>1, <3>3
  <2>7. ASSUME NEW c \in Call, NEW op, NEW u,
               \/ AskToHandle(c, op, u) \/ Admit(c) \/ Reject(c)
               \/ \E j \in Item : FindOwned(c, op, u, j)
        PROVE  UNCHANGED todos
    BY <2>7 DEF AskToHandle, Admit, Reject, FindOwned, todoVars
  <2>8. CASE Elsewhere
    BY <2>8, <2>1 DEF Elsewhere, todoVars
  <2> QED
    BY <2>1, <2>2, <2>3, <2>4, <2>5, <2>6, <2>7, <2>8 DEF Next
<1> QED
  BY <1>1, <1>2, <1>3, PTL DEF Spec, CompletionIsKept
====
