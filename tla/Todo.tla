-------------------------------- MODULE Todo --------------------------------
(***************************************************************************)
(* Personal to-do items behind the rate limit.  Creating, deleting and     *)
(* clearing are counted before they are handled; completing, reopening and *)
(* editing read the item first and write it in a later statement, outside  *)
(* a transaction.                                                          *)
(***************************************************************************)
EXTENDS RateLimit

CONSTANTS Item,    \* the items that can be created
          None     \* no item; also no completion time

VARIABLES
  todos,    \* todoItem: its owner, the edits made to it, its completedAt
  handling  \* for each call the operation past its guards, None when idle

todoVars == <<todos, handling>>
vars == <<rateVars, todoVars>>

Limited == {"CREATE", "DELETE", "CLEAR_COMPLETED"}
ASSUME LimitedAssumption == Limited \subseteq Scope
ReadsFirst == {"COMPLETE", "REOPEN", "UPDATE"}

Stored == {i \in Item : todos[i] # None}
Owned(u) == {i \in Stored : todos[i].owner = u}
Fresh(u) == [owner |-> u, edited |-> FALSE, completedAt |-> None]

(* Mistakes, each put in the place of the definition it is named for.      *)
WholeItemWritten(now, seen) == [seen EXCEPT !.edited = TRUE]
-----------------------------------------------------------------------------
Init ==
  /\ RateInit
  /\ todos = [i \in Item |-> None]
  /\ handling = [c \in Call |-> None]

Idle(c) == handling[c] = None /\ asked[c] = NoKey
Ends(c) == handling' = [handling EXCEPT ![c] = None]

(* The guards of a counted route *)
AskToHandle(c, op, u) ==
  /\ Idle(c)
  /\ Ask(c, op, u)
  /\ UNCHANGED todoVars

Admit(c) ==
  /\ LetThrough(c)
  /\ handling' = [handling EXCEPT ![c] = [op |-> asked[c].scope, user |-> asked[c].user]]
  /\ UNCHANGED todos

Reject(c) == TooMany(c) /\ UNCHANGED todoVars

Doing(c, op) == handling[c] # None /\ handling[c].op = op

(* The ids a call has read.  An id is never given twice; here a place in   *)
(* Item is used again, but not while a call remembers what was there.      *)
Remembered == {handling[c].item : c \in {d \in Call : \E op \in ReadsFirst : Doing(d, op)}}

Create(c) ==
  /\ Doing(c, "CREATE")
  /\ \E i \in Item \ (Stored \cup Remembered) :
       todos' = [todos EXCEPT ![i] = Fresh(handling[c].user)]
  /\ Ends(c)
  /\ UNCHANGED rateVars

Removed(items) == [i \in Item |-> IF i \in items THEN None ELSE todos[i]]

(* deleteMany finds nothing where the item is gone or somebody else's      *)
Delete(c) ==
  /\ Doing(c, "DELETE")
  /\ \E i \in Item : todos' = Removed({i} \cap Owned(handling[c].user))
  /\ Ends(c)
  /\ UNCHANGED rateVars

ClearCompleted(c) ==
  /\ Doing(c, "CLEAR_COMPLETED")
  /\ todos' = Removed({i \in Owned(handling[c].user) : todos[i].completedAt # None})
  /\ Ends(c)
  /\ UNCHANGED rateVars

(* findOwned, where an operation that reads first begins; an item that is  *)
(* not found ends it at once.                                              *)
FindOwned(c, op, u, i) ==
  /\ Idle(c)
  /\ i \in Owned(u)
  /\ handling' = [handling EXCEPT ![c] = [op |-> op, user |-> u, item |-> i, seen |-> todos[i]]]
  /\ UNCHANGED <<rateVars, todos>>

(* complete writes only where it saw no time, and only over no time        *)
Completes(now, seen) == seen.completedAt = None /\ now.completedAt = None
Reopens(now, seen) == seen.completedAt # None /\ now.completedAt # None

(* update writes the edited columns alone                                  *)
Updated(now, seen) == [now EXCEPT !.edited = TRUE]

Change(c, op, applies, to) ==
  /\ Doing(c, op)
  /\ LET i == handling[c].item IN
       todos' = IF i \in Stored /\ applies THEN [todos EXCEPT ![i] = to] ELSE todos
  /\ Ends(c)
  /\ UNCHANGED rateVars

Complete(c) ==
  LET now == todos[handling[c].item] IN
  Change(c, "COMPLETE", Completes(now, handling[c].seen), [now EXCEPT !.completedAt = window])

Reopen(c) ==
  LET now == todos[handling[c].item] IN
  Change(c, "REOPEN", Reopens(now, handling[c].seen), [now EXCEPT !.completedAt = None])

Update(c) ==
  Change(c, "UPDATE", TRUE, Updated(todos[handling[c].item], handling[c].seen))

Elsewhere == (CleanupReads \/ CleanupDeletes \/ NextWindow) /\ UNCHANGED todoVars

Next ==
  \/ \E c \in Call, op \in Limited, u \in User : AskToHandle(c, op, u)
  \/ \E c \in Call, op \in ReadsFirst, u \in User, i \in Item : FindOwned(c, op, u, i)
  \/ \E c \in Call :
       \/ Admit(c) \/ Reject(c)
       \/ Create(c) \/ Delete(c) \/ ClearCompleted(c)
       \/ Complete(c) \/ Reopen(c) \/ Update(c)
  \/ Elsewhere

Spec == Init /\ [][Next]_vars
-----------------------------------------------------------------------------
(* Properties *)

(* Completing and reopening are idempotent, and editing leaves them alone: *)
(* the time of a completion changes in no other way than by the owner's    *)
(* reopening, however many calls read the item before it was completed.    *)
CompletionIsKept ==
  [][\A i \in Item :
       (todos[i] # None /\ todos'[i] # None /\ todos[i].completedAt # None)
         => \/ todos'[i].completedAt = todos[i].completedAt
            \/ \E c \in Call : Doing(c, "REOPEN") /\ handling[c].item = i
                               /\ handling[c].user = todos[i].owner
                               /\ handling'[c] = None]_vars
=============================================================================
