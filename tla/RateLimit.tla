----------------------------- MODULE RateLimit -----------------------------
(***************************************************************************)
(* The distributed rate limit: requests of a user are counted per scope in *)
(* a row of the database for each fixed window, and rows are deleted a     *)
(* while after their window.  A request reads the clock before it reaches  *)
(* the row, and the cleanup reads the rows before it deletes them.         *)
(*                                                                         *)
(* Time is counted in windows.                                             *)
(***************************************************************************)
EXTENDS Naturals, FiniteSets

CONSTANTS Scope, User, Call,
          Limit,            \* the limit of the policy of each scope
          Retention,        \* windows a row is kept after its own
          BatchSize,        \* rows one cleanup takes
          NoKey,            \* what a call waits for when it waits for nothing
          MaxDelay,         \* the environment: windows a request may take
          MaxRequests,      \* bound: requests of a behaviour
          Horizon           \* bound: windows

ASSUME LimitAssumption == Limit \in [Scope -> Nat]
(* A request that outlives its row would be counted from one again; the    *)
(* code keeps rows for a day and relies on no request lasting that long.   *)
ASSUME DelayAssumption == Retention \in Nat /\ MaxDelay \in 0..Retention
ASSUME BoundsAssumption == MaxRequests \in Nat /\ Horizon \in Nat /\ BatchSize \in Nat \ {0}

(* The unique key of a row *)
Key == [scope : Scope, user : User, start : 0..Horizon]
ASSUME NoKeyAssumption == NoKey \notin Key

VARIABLES
  window,    \* the present window
  count,     \* apiRateLimitBucket: count, 0 where there is no row
  doomed,    \* the rows a cleanup has read and not yet deleted
  asked,     \* for each call the row it is about to count in
  handled,   \* for each row the requests let through; nothing in the code keeps it
  requests   \* requests so far, for the bound

rateVars == <<window, count, doomed, asked, handled, requests>>

RateInit ==
  /\ window = 0
  /\ count = [k \in Key |-> 0]
  /\ doomed = {}
  /\ asked = [c \in Call |-> NoKey]
  /\ handled = [k \in Key |-> 0]
  /\ requests = 0

(* Mistakes, each put in the place of the definition it is named for.      *)
WithoutRetention(k) == k.start + 1
-----------------------------------------------------------------------------
ExpiresAt(k) == k.start + 1 + Retention

Rows == {k \in Key : count[k] > 0}
Expired == {k \in Rows : ExpiresAt(k) <= window}

(* The guard reads the clock *)
Ask(c, scope, u) ==
  /\ asked[c] = NoKey
  /\ requests < MaxRequests
  /\ requests' = requests + 1
  /\ asked' = [asked EXCEPT ![c] = [scope |-> scope, user |-> u, start |-> window]]
  /\ UNCHANGED <<window, count, doomed, handled>>

(* and counts the request: the upsert creates the row or adds one to it.   *)
Counted(c) ==
  /\ asked[c] # NoKey
  /\ count' = [count EXCEPT ![asked[c]] = @ + 1]
  /\ asked' = [asked EXCEPT ![c] = NoKey]
  /\ UNCHANGED <<window, doomed, requests>>

Admitted(c) == count[asked[c]] + 1 <= Limit[asked[c].scope]

LetThrough(c) ==
  /\ Counted(c)
  /\ Admitted(c)
  /\ handled' = [handled EXCEPT ![asked[c]] = @ + 1]

(* 429: a refused request has been counted all the same                    *)
TooMany(c) ==
  /\ Counted(c)
  /\ ~Admitted(c)
  /\ UNCHANGED handled

CleanupReads ==
  /\ doomed = {}
  /\ \E batch \in SUBSET Expired :
       /\ batch # {}
       /\ Cardinality(batch) <= BatchSize
       /\ batch # Expired => Cardinality(batch) = BatchSize
       /\ \A k \in batch, l \in Expired \ batch : k.start <= l.start
       /\ doomed' = batch
  /\ UNCHANGED <<window, count, asked, handled, requests>>

CleanupDeletes ==
  /\ doomed # {}
  /\ count' = [k \in Key |-> IF k \in doomed THEN 0 ELSE count[k]]
  /\ doomed' = {}
  /\ UNCHANGED <<window, asked, handled, requests>>

NextWindow ==
  /\ window < Horizon
  /\ \A c \in Call : asked[c] # NoKey => window < asked[c].start + MaxDelay
  /\ window' = window + 1
  /\ UNCHANGED <<count, doomed, asked, handled, requests>>

RateNext ==
  \/ \E c \in Call, scope \in Scope, u \in User : Ask(c, scope, u)
  \/ \E c \in Call : LetThrough(c) \/ TooMany(c)
  \/ CleanupReads \/ CleanupDeletes \/ NextWindow

RateSpec == RateInit /\ [][RateNext]_rateVars
-----------------------------------------------------------------------------
(* Properties *)

RateTypeOK ==
  /\ window \in 0..Horizon
  /\ count \in [Key -> Nat]
  /\ doomed \subseteq Key
  /\ asked \in [Call -> Key \cup {NoKey}]
  /\ handled \in [Key -> Nat]
  /\ requests \in 0..MaxRequests

(* In no window are more requests handled than the policy allows, however  *)
(* calls of one user overlap and whatever the cleanup deletes meanwhile;   *)
(* and as long as the row lives, none was refused while the limit was not  *)
(* used up.  Requests that were counted and then lost with the process     *)
(* before they were handled are left out: each would use up one more.      *)
LimitIsExact ==
  \A k \in Key :
    /\ handled[k] <= Limit[k.scope]
    /\ count[k] > 0 => handled[k] = count[k] \/ handled[k] = Limit[k.scope]
=============================================================================
