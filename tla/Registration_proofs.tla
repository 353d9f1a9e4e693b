------------------------ MODULE Registration_proofs ------------------------
(***************************************************************************)
(* Registration, for any applicants, super admins, claims and crashes.     *)
(* Types and the finality of decisions hold however slow an approval is;   *)
(* the saga keeps accounts and decisions together as long as no approval   *)
(* is still running when its claim has become stale.                       *)
(***************************************************************************)
EXTENDS Registration, TLAPS

USE NothingAssumption, OutlivesAssumption, BoundsAssumption

(* The phases of an approval under a claim of its own.  An approval that   *)
(* was committed without being acknowledged is late: what it still undoes  *)
(* has been decided.                                                       *)
Approval == {"claimed", "checked", "signedUp", "linked", "undoing", "compensating",
             "withdrawing", "unavailable"}
Late(w) == worker[w].phase \in {"compensating", "withdrawing"} /\ worker[w].request \in unacknowledged
Approving(w) == worker[w].phase \in Approval /\ ~Late(w)

(* Claims are numbered in the order they are taken, and each is taken for  *)
(* one request.                                                            *)
Numbered ==
  /\ \A r \in Request : request[r].claim <= lastClaim
  /\ \A r, o \in Request :
       request[r].claim # None /\ request[r].claim = request[o].claim => r = o
  /\ \A w \in Worker : worker[w].phase # "idle" =>
       /\ worker[w].request \in Request
       /\ worker[w].claim \in Claim /\ worker[w].claim <= lastClaim
       /\ worker[w].phase = "recovering" => worker[w].found \in Claim

(* An approval owns its claim, which is not stale, and nobody else works   *)
(* under it: what an approval that outlives its claim loses.               *)
Exclusive ==
  \A w \in Worker : Approving(w) =>
    /\ Owned(worker[w].request, worker[w].claim) /\ ~request[worker[w].request].stale
    /\ \A o \in Worker : worker[o].phase # "idle" /\ worker[o].claim = worker[w].claim => o = w

(* A late approval is alone with its claim, which is given up.             *)
LateAlone ==
  \A w \in Worker : Late(w) =>
    /\ \A o \in Worker : worker[o].phase # "idle" /\ worker[o].claim = worker[w].claim => o = w
    /\ \A r \in Request : request[r].claim # worker[w].claim

UnheardDecided ==
  \A r \in Request : r \in unacknowledged => request[r].status \in {"APPROVED", "PURGED"}

(* A request has one account at most, and while it is being approved none  *)
(* but the one of its present claim, or one that could not be deleted.     *)
OneAccount ==
  /\ \A c, d \in Claim : Live(c) /\ Live(d) /\ account[c].link # NoRequest
                         /\ account[c].link = account[d].link => c = d
  /\ \A c \in Claim : Live(c) /\ c \notin abandoned /\ account[c].link # NoRequest
                      /\ request[account[c].link].status = "APPROVING"
                      => request[account[c].link].claim = c

(* The account of an approval is as far as the approval is.                *)
SagaOf(w) ==
  LET a == account[worker[w].claim] IN
  /\ worker[w].phase \in {"claimed", "checked", "unavailable"} => a.status = "NONE"
  /\ worker[w].phase = "signedUp" =>
       a.status \in {"INACTIVE", "ACTIVE"} /\ a.link = NoRequest
  /\ worker[w].phase \in {"linked", "undoing", "compensating"} =>
       a.link \in {NoRequest, worker[w].request}
  /\ worker[w].phase = "withdrawing" =>
       ~Live(worker[w].claim) \/ a.link = NoRequest \/ worker[w].claim \in abandoned

(* What a recovery has read of a stale claim stays so while it is owned.   *)
RecoveryOf(w) ==
  LET r == worker[w].request IN
  /\ worker[w].phase = "restoring" /\ Owned(r, worker[w].claim) => Unprovisioned(r)
  /\ worker[w].phase = "recovering" /\ Owned(r, worker[w].claim) =>
       worker[w].found \in LinkedTo(r)

(* What the cleanup has read of a request stays so until it is purged.     *)
Lapsed(r) ==
  /\ request[r].status \in {"REJECTED", "APPROVED"} /\ request[r].age = 2
  /\ request[r].status = "APPROVED" => \A c \in LinkedTo(r) : ~account[c].setup

BatchExpired == \A r \in batch : Lapsed(r)

(* No account is numbered like a claim that has not been taken.            *)
FreshClaims == \A c \in Claim : account[c].status # "NONE" => c <= lastClaim

(* Types and Numbered are inductive by themselves, Saga with them.         *)
Core ==
  /\ Exclusive /\ FreshClaims
  /\ OneAccount /\ LinkMeansApproval /\ AcknowledgedHasAccount
  /\ \A w \in Worker : SagaOf(w) /\ RecoveryOf(w)
  /\ BatchExpired

Saga == Core /\ LateAlone /\ UnheardDecided

-----------------------------------------------------------------------------
(* Types and numbers                                                       *)

RequestType == [status : RequestStatus, email : Email \cup {NoEmail},
                claim : Claim \cup {None}, stale : BOOLEAN, team : BOOLEAN,
                configured : BOOLEAN, age : 0..2]
AccountType == [status : {"NONE", "INACTIVE", "ACTIVE", "DELETED"},
                email : Email \cup {NoEmail}, link : Request \cup {NoRequest},
                setup : BOOLEAN, team : BOOLEAN]
WorkerType == [phase : Phase, request : Request \cup {NoRequest},
               claim : Claim \cup {None}, found : Claim \cup {None}]

Types ==
  /\ request \in [Request -> RequestType]
  /\ account \in [Claim -> AccountType]
  /\ direct \in [Email -> {"NONE", "PROVISIONED", "RECORDED"}]
  /\ worker \in [Worker -> WorkerType]
  /\ lastClaim \in Claim \cup {None}
  /\ batch \subseteq Request
  /\ \A r \in Request : request[r].claim # None <=> request[r].status = "APPROVING"

HistoryTyped == unacknowledged \subseteq Request /\ abandoned \subseteq Claim

(* The same, row type by row type.                                         *)
LEMMA TypesAreTypeOK == Types /\ HistoryTyped <=> TypeOK
BY DEF Types, HistoryTyped, TypeOK, RequestType, AccountType, WorkerType

(* What nobody has, and what a worker without work is.                     *)
LEMMA Blank ==
  /\ NoAccount \in AccountType /\ NoAccount.link = NoRequest /\ NoAccount.status = "NONE"
  /\ Idle \in WorkerType /\ Idle.phase = "idle"
  /\ \A e \in Email \cup {NoEmail} :
       NewRequest(e) \in RequestType /\ NewRequest(e).claim = None
       /\ NewRequest(e).status = "SUBMITTING"
BY DEF NoAccount, AccountType, Idle, WorkerType, Phase, NewRequest, RequestType, RequestStatus

-----------------------------------------------------------------------------
(* What a step does                                                        *)

(* What the invariant reads of a request, an account and a worker.         *)
SameRequest(r) ==
  /\ request'[r].status = request[r].status /\ request'[r].claim = request[r].claim
  /\ request'[r].stale = request[r].stale
  /\ Lapsed(r) => request'[r].age = 2
SameAccount(c) ==
  /\ Live(c)' <=> Live(c)
  /\ account'[c].link = account[c].link
  /\ account'[c].setup => account[c].setup
  /\ account'[c].status = "NONE" <=> account[c].status = "NONE"

OnlyRequest(r) == \A o \in Request \ {r} : SameRequest(o)
OnlyAccount(c) == \A d \in Claim \ {c} : SameAccount(d)
OnlyWorker(w) == \A o \in Worker \ {w} : worker'[o] = worker[o]
NoRequestStep == \A r \in Request : SameRequest(r)
NoAccountStep == \A c \in Claim : SameAccount(c)

(* What applicants, time and the users of accounts do.                     *)
Quiet ==
  /\ NoRequestStep /\ NoAccountStep /\ worker' = worker /\ lastClaim' = lastClaim
  /\ batch' = batch \/ batch' = {r \in Request : Expired(r)}

RequestMoves(r) ==
  /\ request[r].status # "APPROVING" /\ request'[r].status # "APPROVING"
  /\ request'[r].claim = None
  /\ request'[r].status = "APPROVED" <=> request[r].status = "APPROVED"
  /\ request[r].status = "REJECTED" => request'[r].status = "REJECTED"
  /\ request'[r].status = "PURGED" <=> request[r].status = "PURGED"
  /\ Lapsed(r) => SameRequest(r)
  /\ OnlyRequest(r) /\ NoAccountStep
  /\ worker' = worker /\ lastClaim' = lastClaim /\ batch' = batch

RequestGrowsStale(r) ==
  /\ request[r].status = "APPROVING" /\ request'[r].status = "APPROVING"
  /\ request'[r].claim = request[r].claim
  /\ OutlivesClaim \/ \A w \in Worker : worker[w].claim # request[r].claim
  /\ OnlyRequest(r) /\ NoAccountStep
  /\ worker' = worker /\ lastClaim' = lastClaim /\ batch' = batch

Purged(r) ==
  /\ r \in batch /\ batch' = batch \ {r}
  /\ request'[r].status = "PURGED" /\ request'[r].claim = None
  /\ OnlyRequest(r)
  /\ \A c \in Claim : /\ Live(c)' <=> Live(c)
                      /\ account'[c].setup = account[c].setup
                      /\ account'[c].status = "NONE" <=> account[c].status = "NONE"
                      /\ account'[c].link = IF account[c].link = r THEN NoRequest
                                                                 ELSE account[c].link
  /\ worker' = worker /\ lastClaim' = lastClaim

(* What approvals and recoveries do with claims.                           *)
Takes(w, r) ==
  /\ worker[w].phase \in {"idle", "claiming"}
  /\ request[r].status = "PENDING" /\ request'[r].status = "APPROVING" /\ ~request'[r].stale
  /\ lastClaim' = lastClaim + 1 /\ lastClaim' \in Claim /\ request'[r].claim = lastClaim'
  /\ worker'[w].phase = "claimed" /\ worker'[w].request = r /\ worker'[w].claim = lastClaim'
  /\ OnlyRequest(r) /\ NoAccountStep /\ OnlyWorker(w) /\ batch' = batch

Stops(w) ==
  /\ worker'[w].phase = "idle"
  /\ NoRequestStep /\ NoAccountStep /\ OnlyWorker(w)
  /\ lastClaim' = lastClaim /\ batch' = batch

Reads(w, r) ==
  /\ worker[w].phase = "idle"
  /\ request[r].status = "APPROVING" /\ request[r].stale
  /\ worker'[w].request = r /\ worker'[w].claim = request[r].claim
  /\ \/ worker'[w].phase = "restoring" /\ Unprovisioned(r)
     \/ worker'[w].phase = "recovering" /\ worker'[w].found \in LinkedTo(r)
  /\ NoRequestStep /\ NoAccountStep /\ OnlyWorker(w)
  /\ lastClaim' = lastClaim /\ batch' = batch

Verdicts(w) ==
  IF worker[w].phase \in {"restoring", "withdrawing"} THEN {"PENDING"}
  ELSE IF worker[w].phase = "unavailable" THEN {"REJECTED"} ELSE {"APPROVED"}

Resolves(w) ==
  LET r == worker[w].request IN
  /\ worker[w].phase \in {"restoring", "recovering", "linked", "withdrawing", "unavailable"}
  /\ worker[w].phase = "linked" => Linked(worker[w].claim, r)
  /\ Owned(r, worker[w].claim)
  /\ request'[r].status \in Verdicts(w) /\ request'[r].claim = None
  /\ \/ worker'[w].phase = "idle"
     \/ worker[w].phase = "restoring" /\ worker'[w] = [worker[w] EXCEPT !.phase = "claiming"]
     \/ /\ worker[w].phase = "linked" /\ worker'[w] = [worker[w] EXCEPT !.phase = "compensating"]
        /\ worker[w].request \in unacknowledged'
  /\ OnlyRequest(r) /\ NoAccountStep /\ OnlyWorker(w)
  /\ lastClaim' = lastClaim /\ batch' = batch

(* What an approval does with its account.                                 *)
InUse == {"INACTIVE", "ACTIVE"}

Steps(w, phase) ==
  /\ worker'[w] = [worker[w] EXCEPT !.phase = phase] /\ OnlyWorker(w)
  /\ NoRequestStep /\ lastClaim' = lastClaim /\ batch' = batch

Proceeds(w, phase) ==
  /\ \/ worker[w].phase = "restoring" /\ phase = "claiming"
     \/ worker[w].phase = "claimed" /\ phase = "checked"
     \/ worker[w].phase \in {"claimed", "checked"} /\ phase \in {"unavailable", "withdrawing"}
     \/ worker[w].phase = "signedUp" /\ phase = "undoing"
     \/ worker[w].phase = "linked" /\ phase = "compensating"
     \/ worker[w].phase = "undoing" /\ phase = "withdrawing" /\ worker[w].claim \in abandoned'
  /\ Steps(w, phase) /\ NoAccountStep

SignsUp(w) ==
  LET c == worker[w].claim IN
  /\ worker[w].phase = "checked" /\ \E phase \in {"signedUp", "withdrawing"} : Steps(w, phase)
  /\ account'[c].status \in InUse /\ account'[c].link = NoRequest /\ ~account'[c].setup
  /\ OnlyAccount(c)

Links(w) ==
  LET c == worker[w].claim IN
  /\ worker[w].phase = "signedUp" /\ \E phase \in {"linked", "undoing"} : Steps(w, phase)
  /\ Unprovisioned(worker[w].request)
  /\ account'[c].status \in InUse /\ account'[c].link = worker[w].request
  /\ OnlyAccount(c)

Deletes(w) ==
  LET c == worker[w].claim IN
  /\ worker[w].phase \in {"undoing", "compensating"}
  /\ \/ Steps(w, "withdrawing")
     \/ /\ worker'[w].phase = "idle" /\ OnlyWorker(w)
        /\ NoRequestStep /\ lastClaim' = lastClaim /\ batch' = batch
  /\ account'[c].status \notin InUse
  /\ OnlyAccount(c)

(* A step, by what it does.                                                *)
Shape ==
  \/ Quiet
  \/ \E r \in Request : RequestMoves(r) \/ RequestGrowsStale(r) \/ Purged(r)
  \/ \E w \in Worker, r \in Request : Takes(w, r) \/ Reads(w, r)
  \/ \E w \in Worker : \/ Stops(w) \/ Resolves(w)
                       \/ SignsUp(w) \/ Links(w) \/ Deletes(w)
                       \/ \E phase \in Phase : Proceeds(w, phase)

(* The history grows, by an approval that was not heard of.                *)
HistoryGrows == unacknowledged \subseteq unacknowledged' /\ abandoned \subseteq abandoned'

Heard ==
  \/ unacknowledged' = unacknowledged
  \/ \E w \in Worker : /\ Resolves(w) /\ worker[w].phase = "linked"
                       /\ unacknowledged' = unacknowledged \cup {worker[w].request}

(* Requests, accounts or workers that are not assigned stay as they are.   *)
LEMMA Unassigned ==
  /\ request' = request => NoRequestStep
  /\ account' = account => NoAccountStep
BY DEF NoRequestStep, NoAccountStep, SameRequest, SameAccount, Live, Lapsed

(* Replacing one value of a function.                                      *)
LEMMA OneRequest ==
  ASSUME Types, NEW r \in Request, NEW x, request' = [request EXCEPT ![r] = x]
  PROVE  OnlyRequest(r) /\ request'[r] = x
<1>1. request'[r] = x /\ \A o \in Request \ {r} : request'[o] = request[o]
  BY DEF Types
<1>2. \A o \in Request : Lapsed(o) => request[o].age = 2
  BY DEF Lapsed
<1> QED
  BY <1>1, <1>2 DEF OnlyRequest, SameRequest

(* Replacing one account.                                                  *)
LEMMA OneAccountOnly ==
  ASSUME Types, NEW c \in Claim, NEW x, account' = [account EXCEPT ![c] = x]
  PROVE  OnlyAccount(c) /\ account'[c] = x
BY DEF Types, OnlyAccount, SameAccount, Live

(* Replacing one worker.                                                   *)
LEMMA OneWorker ==
  ASSUME Types, NEW w \in Worker, NEW x, worker' = [worker EXCEPT ![w] = x]
  PROVE  OnlyWorker(w) /\ worker'[w] = x
BY DEF Types, OnlyWorker

(* Applicants, super admins and time.                                      *)
LEMMA RequestShapes ==
  ASSUME Types, NEW r \in Request,
         (\E e \in Email : Submit(r, e)) \/ CreateRequest(r) \/ Reject(r)
  PROVE  RequestMoves(r)
<1>1. UNCHANGED <<account, worker, lastClaim, batch>>
  BY DEF Submit, CreateRequest, Reject
<1>2. request[r] \in RequestType /\ (request[r].claim # None <=> request[r].status = "APPROVING")
  BY DEF Types
<1>3. ASSUME NEW e \in Email, Submit(r, e) PROVE RequestMoves(r)
  <2>1. OnlyRequest(r) /\ request'[r] = NewRequest(e) /\ request[r].status = "NONE"
    BY <1>3, OneRequest DEF Submit
  <2> QED
    BY <1>1, <2>1, Blank, Unassigned DEF RequestMoves, Lapsed
<1>4. CASE CreateRequest(r)
  <2> DEFINE x == [request[r] EXCEPT !.status = IF ActiveEmail(request[r].email) THEN "NONE"
                                                                              ELSE "PENDING"]
  <2>1. OnlyRequest(r) /\ request'[r] = x /\ request[r].status = "SUBMITTING"
    BY <1>4, OneRequest DEF CreateRequest
  <2> QED
    BY <1>1, <1>2, <2>1, Unassigned DEF RequestMoves, RequestType, Lapsed
<1>5. CASE Reject(r)
  <2>1. /\ request[r].status = "PENDING"
        /\ request' = [request EXCEPT ![r] = [request[r] EXCEPT !.status = "REJECTED", !.age = 0]]
    BY <1>5 DEF Reject, Types
  <2>2. OnlyRequest(r) /\ request'[r] = [request[r] EXCEPT !.status = "REJECTED", !.age = 0]
    BY <2>1, OneRequest
  <2> QED
    BY <1>1, <1>2, <2>1, <2>2, Unassigned DEF RequestMoves, RequestType, Lapsed
<1> QED
  BY <1>3, <1>4, <1>5

(* Five minutes after a claim.                                             *)
LEMMA StaleShape ==
  ASSUME Types, NEW r \in Request, GrowStale(r)
  PROVE  RequestGrowsStale(r)
<1>1. OnlyRequest(r) /\ request'[r] = [request[r] EXCEPT !.stale = TRUE]
  BY OneRequest DEF GrowStale
<1>2. request[r] \in RequestType
  BY DEF Types
<1> QED
  BY <1>1, <1>2, Unassigned DEF GrowStale, RequestGrowsStale, RequestType

(* The purge of one request cuts its accounts off it.                      *)
LEMMA PurgeShape ==
  ASSUME Types, NEW r \in Request, Purge(r)
  PROVE  Purged(r)
<1>1. request[r] \in RequestType
  BY DEF Types
<1>2. OnlyRequest(r) /\ request'[r] = [NewRequest(request[r].email) EXCEPT !.status = "PURGED"]
  BY OneRequest DEF Purge
<1>3. request'[r].status = "PURGED" /\ request'[r].claim = None
  BY <1>1, <1>2, Blank DEF RequestType
<1>4. \A c \in Claim : account'[c] = IF account[c].link = r
                                     THEN [account[c] EXCEPT !.link = NoRequest] ELSE account[c]
  BY DEF Purge
<1>5. ASSUME NEW c \in Claim
      PROVE  /\ account'[c].status = account[c].status /\ account'[c].setup = account[c].setup
             /\ account'[c].link = IF account[c].link = r THEN NoRequest ELSE account[c].link
  <2>1. account[c] \in AccountType
    BY DEF Types
  <2> QED
    BY <1>4, <2>1 DEF AccountType
<1> QED
  BY <1>2, <1>3, <1>5 DEF Purge, Purged, Live

(* The users of accounts, and what does not concern requests at all.       *)
LEMMA QuietShapes ==
  ASSUME Types,
         \/ \E c \in Claim : ConfigurePassword(c) \/ ChangeStatus(c)
         \/ \E e \in Email : CreateDirectly(e)
         \/ \E r \in Request : GrowOlder(r)
         \/ StartCleanup \/ UNCHANGED vars
  PROVE  Quiet
<1>1. ASSUME NEW c \in Claim, ConfigurePassword(c) PROVE Quiet
  <2> DEFINE r == account[c].link
  <2>1. account[c] \in AccountType /\ r \in Request /\ request[r] \in RequestType
    BY <1>1 DEF Types, AccountType, ConfigurePassword
  <2>2. /\ OnlyAccount(c)
        /\ account'[c] = [account[c] EXCEPT !.status = "ACTIVE", !.setup = FALSE]
    <3>1. account' = [account EXCEPT ![c] = [account[c] EXCEPT !.status = "ACTIVE", !.setup = FALSE]]
      BY <1>1 DEF ConfigurePassword, Types
    <3> QED
      BY <3>1, OneAccountOnly
  <2>3. PICK age \in {0, request[r].age} :
          /\ Rejected(r) => age = request[r].age
          /\ OnlyRequest(r) /\ request'[r] = [request[r] EXCEPT !.configured = TRUE, !.age = age]
    <3> DEFINE x(age) == [request[r] EXCEPT !.configured = TRUE, !.age = age]
    <3>1. PICK age \in {0, request[r].age} : /\ Rejected(r) => age = request[r].age
                                             /\ request' = [request EXCEPT ![r] = x(age)]
      BY <1>1, <2>1 DEF ConfigurePassword, Types
    <3> QED
      BY <2>1, <3>1, OneRequest
  <2>4. SameAccount(c)
    <3>1. account'[c].status = "ACTIVE" /\ ~account'[c].setup /\ account'[c].link = account[c].link
      BY <2>1, <2>2 DEF AccountType
    <3>2. account[c].status = "INACTIVE"
      BY <1>1 DEF ConfigurePassword
    <3> QED
      BY <3>1, <3>2 DEF SameAccount, Live
  <2>5. SameRequest(r)
    <3>1. ~Rejected(r) => ~Lapsed(r)
      BY <1>1 DEF ConfigurePassword, Lapsed, Rejected, LinkedTo, Live
    <3>2. Lapsed(r) => request'[r].age = 2
      BY <2>1, <2>3, <3>1 DEF Lapsed, RequestType
    <3> QED
      BY <2>1, <2>3, <3>2 DEF SameRequest, RequestType
  <2> QED
    BY <1>1, <2>2, <2>3, <2>4, <2>5
       DEF Quiet, ConfigurePassword, OnlyRequest, OnlyAccount, NoRequestStep, NoAccountStep
<1>2. ASSUME NEW c \in Claim, ChangeStatus(c) PROVE Quiet
  <2>1. account[c] \in AccountType
    BY DEF Types
  <2>2. OnlyAccount(c)
        /\ account'[c] = [account[c] EXCEPT !.status = IF @ = "ACTIVE" THEN "INACTIVE" ELSE "ACTIVE"]
    BY <1>2, OneAccountOnly DEF ChangeStatus
  <2>3. SameAccount(c)
    BY <1>2, <2>1, <2>2 DEF SameAccount, Live, AccountType, ChangeStatus
  <2> QED
    BY <1>2, <2>2, <2>3, Unassigned DEF Quiet, ChangeStatus, OnlyAccount, NoAccountStep
<1>3. ASSUME NEW e \in Email, CreateDirectly(e) PROVE Quiet
  BY <1>3, Unassigned DEF Quiet, CreateDirectly
<1>4. CASE StartCleanup \/ UNCHANGED vars
  BY <1>4, Unassigned DEF Quiet, StartCleanup, vars
<1>5. ASSUME NEW r \in Request, GrowOlder(r) PROVE Quiet
  <2>1. request[r] \in RequestType /\ request[r].age < 2
    BY <1>5 DEF Types, GrowOlder
  <2>2. OnlyRequest(r) /\ request'[r] = [request[r] EXCEPT !.age = Older(@)]
    BY <1>5, OneRequest DEF GrowOlder
  <2>3. ~Lapsed(r)
    BY <2>1 DEF Lapsed
  <2>4. SameRequest(r)
    BY <2>1, <2>2, <2>3 DEF SameRequest, RequestType
  <2> QED
    BY <1>5, <2>2, <2>4, Unassigned DEF Quiet, GrowOlder, OnlyRequest, NoRequestStep
<1> QED
  BY <1>1, <1>2, <1>3, <1>4, <1>5

(* Claims.                                                                 *)
LEMMA TakeShape ==
  ASSUME Types, NEW w \in Worker, NEW r \in Request, TakeClaim(w, r),
         worker[w].phase \in {"idle", "claiming"}, UNCHANGED <<account, batch>>
  PROVE  Takes(w, r)
<1> DEFINE x == [phase |-> "claimed", request |-> r, claim |-> lastClaim + 1, found |-> None]
<1>1. OnlyWorker(w) /\ worker'[w] = x
  BY OneWorker DEF TakeClaim
<1>2. PICK team \in BOOLEAN : request' = Claimed(r, team)
  BY DEF TakeClaim
<1>3. OnlyRequest(r)
      /\ request'[r] = [request[r] EXCEPT !.status = "APPROVING", !.claim = lastClaim + 1,
                                          !.stale = FALSE, !.team = team]
  <2>1. request' = [request EXCEPT ![r] = [request[r] EXCEPT !.status = "APPROVING",
                                           !.claim = lastClaim + 1, !.stale = FALSE, !.team = team]]
    BY <1>2 DEF Claimed, Types
  <2> QED
    BY <2>1, OneRequest
<1>4. request[r] \in RequestType
  BY DEF Types
<1>5. lastClaim + 1 \in Claim /\ lastClaim' = lastClaim + 1 /\ request[r].status = "PENDING"
  BY DEF TakeClaim, Types, Claim, None
<1>6. /\ request'[r].status = "APPROVING" /\ ~request'[r].stale
      /\ request'[r].claim = lastClaim + 1
  BY <1>3, <1>4 DEF RequestType
<1> QED
  BY <1>1, <1>3, <1>5, <1>6, Unassigned DEF Takes

(* Whoever gives a claim up, with whichever outcome.                       *)
LEMMA RestoredShape ==
  ASSUME Types, NEW r \in Request, NEW c, request' = Restored(r, c)
  PROVE  /\ OnlyRequest(r)
         /\ Owned(r, c) => request'[r].status = "PENDING" /\ request'[r].claim = None
         /\ ~Owned(r, c) => request' = request
<1>1. CASE Owned(r, c)
  <2>1. request' = [request EXCEPT ![r] = [request[r] EXCEPT !.status = "PENDING", !.claim = None,
                                           !.stale = FALSE, !.team = FALSE]]
    BY <1>1 DEF Restored, Types
  <2>2. request[r] \in RequestType
    BY DEF Types
  <2>3. OnlyRequest(r) /\ request'[r] = [request[r] EXCEPT !.status = "PENDING", !.claim = None,
                                           !.stale = FALSE, !.team = FALSE]
    BY <2>1, OneRequest
  <2> QED
    BY <1>1, <2>2, <2>3 DEF RequestType
<1>2. CASE ~Owned(r, c)
  BY <1>2, Unassigned DEF Restored, OnlyRequest, NoRequestStep
<1> QED
  BY <1>1, <1>2

(* An approval that is recorded gives its claim up.                        *)
LEMMA ApprovedShape ==
  ASSUME Types, NEW r \in Request, request' = Approved(r)
  PROVE  OnlyRequest(r) /\ request'[r].status = "APPROVED" /\ request'[r].claim = None
<1>1. request' = [request EXCEPT ![r] = [request[r] EXCEPT !.status = "APPROVED", !.claim = None,
                                         !.stale = FALSE]]
  BY DEF Approved, Types
<1>2. request[r] \in RequestType
  BY DEF Types
<1>3. OnlyRequest(r) /\ request'[r] = [request[r] EXCEPT !.status = "APPROVED", !.claim = None,
                                                         !.stale = FALSE]
  BY <1>1, OneRequest
<1> QED
  BY <1>2, <1>3 DEF RequestType

(* A team membership says nothing about whether the account is in use.     *)
LEMMA TeamShape ==
  ASSUME Types, NEW c \in Claim, NEW team, account' = [account EXCEPT ![c].team = team]
  PROVE  NoAccountStep
<1>1. account' = [account EXCEPT ![c] = [account[c] EXCEPT !.team = team]]
  BY DEF Types
<1>2. account[c] \in AccountType
  BY DEF Types
<1>3. OnlyAccount(c) /\ account'[c] = [account[c] EXCEPT !.team = team]
  BY <1>1, OneAccountOnly
<1>4. SameAccount(c)
  BY <1>2, <1>3 DEF SameAccount, Live, AccountType
<1> QED
  BY <1>3, <1>4 DEF OnlyAccount, NoAccountStep

(* A worker that is not idle has a request and a claim.                    *)
LEMMA AtWork ==
  ASSUME Types, Numbered, NEW w \in Worker, worker[w].phase # "idle"
  PROVE  /\ worker[w].request \in Request /\ worker[w].claim \in Claim
         /\ worker[w] \in WorkerType
BY DEF Types, Numbered

(* The next phase of a worker.                                             *)
LEMMA GoesShape ==
  ASSUME Types, NEW w \in Worker, NEW phase \in Phase, Goes(w, phase)
  PROVE  OnlyWorker(w) /\ worker'[w] = [worker[w] EXCEPT !.phase = phase]
BY OneWorker DEF Goes

(* The end of its work.                                                    *)
LEMMA EndsShape ==
  ASSUME Types, NEW w \in Worker, Ends(w)
  PROVE  OnlyWorker(w) /\ worker'[w].phase = "idle"
BY OneWorker, Blank DEF Ends

(* Recoveries.                                                             *)
LEMMA RecoveryShapes ==
  ASSUME Types, Numbered, NEW w \in Worker, NEW r \in Request,
         \/ ReadStaleClaim(w, r)
         \/ RestoreStaleClaim(w) \/ ClaimAfterRestore(w) \/ FinalizeStaleClaim(w)
  PROVE  Shape
<1>1. CASE ReadStaleClaim(w, r)
  <2> DEFINE x(phase, c) == [phase |-> phase, request |-> r, claim |-> request[r].claim, found |-> c]
  <2>1. CASE Unprovisioned(r) /\ worker' = [worker EXCEPT ![w] = x("restoring", None)]
    <3>1. OnlyWorker(w) /\ worker'[w] = x("restoring", None)
      BY <2>1, OneWorker
    <3>2. Reads(w, r)
      BY <1>1, <2>1, <3>1, Unassigned DEF ReadStaleClaim, Stale, Reads
    <3> QED
      BY <3>2 DEF Shape
  <2>2. ASSUME NEW c \in LinkedTo(r), worker' = [worker EXCEPT ![w] = x("recovering", c)]
        PROVE  Shape
    <3>1. OnlyWorker(w) /\ worker'[w] = x("recovering", c)
      BY <2>2, OneWorker
    <3>2. Reads(w, r)
      BY <1>1, <2>2, <3>1, Unassigned DEF ReadStaleClaim, Stale, Reads
    <3> QED
      BY <3>2 DEF Shape
  <2> QED
    BY <1>1, <2>1, <2>2 DEF ReadStaleClaim
<1>2. CASE RestoreStaleClaim(w)
  <2> DEFINE q == worker[w].request
             c == worker[w].claim
  <2>1. q \in Request /\ worker[w].phase = "restoring" /\ "claiming" \in Phase
    BY <1>2, AtWork DEF RestoreStaleClaim, Phase
  <2>2. OnlyWorker(w) /\ worker'[w] = [worker[w] EXCEPT !.phase = "claiming"]
    BY <1>2, <2>1, GoesShape DEF RestoreStaleClaim
  <2>3. request' = Restored(q, c) /\ UNCHANGED <<account, lastClaim, batch>>
    BY <1>2 DEF RestoreStaleClaim
  <2>4. /\ OnlyRequest(q)
        /\ Owned(q, c) => request'[q].status = "PENDING" /\ request'[q].claim = None
        /\ ~Owned(q, c) => request' = request
    BY <2>1, <2>3, RestoredShape
  <2>5. CASE Owned(q, c)
    <3>1. Resolves(w)
      BY <2>1, <2>2, <2>3, <2>4, <2>5, Unassigned DEF Resolves, Verdicts
    <3> QED
      BY <3>1 DEF Shape
  <2>6. CASE ~Owned(q, c)
    <3>1. Proceeds(w, "claiming")
      BY <2>1, <2>2, <2>3, <2>4, <2>6, Unassigned DEF Proceeds, Steps
    <3> QED
      BY <2>1, <3>1 DEF Shape
  <2> QED
    BY <2>5, <2>6
<1>3. CASE ClaimAfterRestore(w)
  <2>1. worker[w].request \in Request /\ worker[w].phase = "claiming" /\ UNCHANGED <<account, batch>>
    BY <1>3, AtWork DEF ClaimAfterRestore
  <2>2. CASE TakeClaim(w, worker[w].request)
    BY <2>1, <2>2, TakeShape DEF Shape
  <2>3. CASE Ends(w) /\ UNCHANGED <<request, lastClaim>>
    <3>1. Stops(w)
      BY <2>1, <2>3, EndsShape, Unassigned DEF Stops
    <3> QED
      BY <3>1 DEF Shape
  <2> QED
    BY <1>3, <2>2, <2>3 DEF ClaimAfterRestore
<1>4. CASE FinalizeStaleClaim(w)
  <2> DEFINE q == worker[w].request
             finalizes == Owned(q, worker[w].claim) /\ (request[q].team => Live(worker[w].found))
  <2>1. q \in Request /\ worker[w].phase = "recovering" /\ worker[w].found \in Claim
    BY <1>4, AtWork DEF FinalizeStaleClaim, Numbered
  <2>2. OnlyWorker(w) /\ worker'[w].phase = "idle" /\ lastClaim' = lastClaim /\ batch' = batch
    BY <1>4, EndsShape DEF FinalizeStaleClaim
  <2>3. NoAccountStep
    BY <1>4, <2>1, TeamShape, Unassigned DEF FinalizeStaleClaim
  <2>4. CASE finalizes
    <3>1. request' = Approved(q)
      BY <1>4, <2>4 DEF FinalizeStaleClaim
    <3>2. OnlyRequest(q) /\ request'[q].status = "APPROVED" /\ request'[q].claim = None
      BY <2>1, <3>1, ApprovedShape
    <3>3. Resolves(w)
      BY <2>1, <2>2, <2>3, <2>4, <3>2 DEF Resolves, Verdicts
    <3> QED
      BY <3>3 DEF Shape
  <2>5. CASE ~finalizes
    <3>1. request' = request
      BY <1>4, <2>5 DEF FinalizeStaleClaim
    <3>2. Stops(w)
      BY <2>2, <2>3, <3>1, Unassigned DEF Stops
    <3> QED
      BY <3>2 DEF Shape
  <2> QED
    BY <2>4, <2>5
<1> QED
  BY <1>1, <1>2, <1>3, <1>4

(* Provisioning: the account of the approval.                              *)
LEMMA ProvisioningShapes ==
  ASSUME Types, Numbered, NEW w \in Worker,
         CheckEmail(w) \/ SignUp(w) \/ LinkAccount(w) \/ UndoAccount(w) \/ CompensateAccount(w)
  PROVE  Shape
<1> DEFINE r == worker[w].request
           c == worker[w].claim
<1>1. worker[w].phase \in {"claimed", "checked", "signedUp", "undoing", "compensating"}
  BY DEF CheckEmail, SignUp, LinkAccount, UndoAccount, CompensateAccount
<1>2. r \in Request /\ c \in Claim /\ account[c] \in AccountType
  BY <1>1, AtWork DEF Types
<1>3. request' = request /\ lastClaim' = lastClaim /\ batch' = batch
  BY DEF CheckEmail, SignUp, LinkAccount, UndoAccount, CompensateAccount
<1>4. \A phase \in Phase : Goes(w, phase) => Steps(w, phase)
  BY <1>3, GoesShape, Unassigned DEF Steps
<1>5. /\ "checked" \in Phase /\ "unavailable" \in Phase /\ "withdrawing" \in Phase
      /\ "signedUp" \in Phase /\ "linked" \in Phase /\ "undoing" \in Phase
  BY DEF Phase
<1>6. CASE CheckEmail(w)
  <2>1. PICK phase \in {"checked", "unavailable", "withdrawing"} : Goes(w, phase)
    BY <1>6 DEF CheckEmail
  <2>2. worker[w].phase = "claimed" /\ account' = account
    BY <1>6 DEF CheckEmail
  <2>3. Proceeds(w, phase)
    BY <1>4, <1>5, <2>1, <2>2, Unassigned DEF Proceeds
  <2> QED
    BY <1>5, <2>1, <2>3 DEF Shape
<1>7. CASE SignUp(w)
  <2> DEFINE x == [NoAccount EXCEPT !.status = "INACTIVE", !.email = request[r].email]
  <2>1. CASE /\ account' = [account EXCEPT ![c] = x]
             /\ \E phase \in {"signedUp", "withdrawing"} : Goes(w, phase)
    <3>1. OnlyAccount(c) /\ account'[c] = x
      BY <1>2, <2>1, OneAccountOnly
    <3>2. x.status = "INACTIVE" /\ x.link = NoRequest /\ ~x.setup
      BY DEF NoAccount
    <3>3. \E phase \in {"signedUp", "withdrawing"} : Steps(w, phase)
      BY <1>4, <1>5, <2>1
    <3>4. SignsUp(w)
      BY <1>7, <3>1, <3>2, <3>3 DEF SignsUp, SignUp, InUse
    <3> QED
      BY <3>4 DEF Shape
  <2>2. CASE account' = account /\ \E phase \in {"unavailable", "withdrawing"} : Goes(w, phase)
    <3>1. PICK phase \in {"unavailable", "withdrawing"} : Goes(w, phase)
      BY <2>2
    <3>2. Proceeds(w, phase)
      BY <1>4, <1>5, <1>7, <2>2, <3>1, Unassigned DEF Proceeds, SignUp
    <3> QED
      BY <1>5, <3>1, <3>2 DEF Shape
  <2> QED
    BY <1>7, <2>1, <2>2 DEF SignUp
<1>8. CASE LinkAccount(w)
  <2>1. CASE /\ Unprovisioned(r) /\ \E phase \in {"linked", "undoing"} : Goes(w, phase)
             /\ account' = [account EXCEPT ![c].status = "INACTIVE", ![c].link = r, ![c].setup = TRUE]
    <3> DEFINE x == [account[c] EXCEPT !.status = "INACTIVE", !.link = r, !.setup = TRUE]
    <3>1. account' = [account EXCEPT ![c] = x]
      BY <2>1 DEF Types
    <3>2. OnlyAccount(c) /\ account'[c] = x
      BY <1>2, <3>1, OneAccountOnly
    <3>3. x.status = "INACTIVE" /\ x.link = r
      BY <1>2 DEF AccountType
    <3>4. \E phase \in {"linked", "undoing"} : Steps(w, phase)
      BY <1>4, <1>5, <2>1
    <3>5. Links(w)
      BY <1>8, <2>1, <3>2, <3>3, <3>4 DEF Links, LinkAccount, InUse
    <3> QED
      BY <3>5 DEF Shape
  <2>2. CASE account' = account /\ Goes(w, "undoing")
    <3>1. Proceeds(w, "undoing")
      BY <1>4, <1>5, <1>8, <2>2, Unassigned DEF Proceeds, LinkAccount
    <3> QED
      BY <1>5, <3>1 DEF Shape
  <2> QED
    BY <1>8, <2>1, <2>2 DEF LinkAccount
<1>9. ASSUME Deleted(c), worker[w].phase \in {"undoing", "compensating"},
             Goes(w, "withdrawing") \/ Ends(w)
      PROVE  Shape
  <2>1. OnlyAccount(c) /\ account'[c] = [NoAccount EXCEPT !.status = "DELETED"]
    BY <1>2, <1>9, OneAccountOnly DEF Deleted
  <2>2. account'[c].status \notin InUse
    BY <2>1 DEF InUse, NoAccount
  <2>3. \/ Steps(w, "withdrawing")
        \/ worker'[w].phase = "idle" /\ OnlyWorker(w) /\ NoRequestStep
    BY <1>3, <1>4, <1>5, <1>9, EndsShape, Unassigned
  <2>4. Deletes(w)
    BY <1>3, <1>9, <2>1, <2>2, <2>3 DEF Deletes
  <2> QED
    BY <2>4 DEF Shape
<1>10. CASE UndoAccount(w)
  <2>1. CASE account' = account /\ abandoned' = abandoned \cup {c} /\ Goes(w, "withdrawing")
    <3>1. Proceeds(w, "withdrawing")
      BY <1>4, <1>5, <1>10, <2>1, Unassigned DEF Proceeds, UndoAccount
    <3> QED
      BY <1>5, <3>1 DEF Shape
  <2> QED
    BY <1>9, <1>10, <2>1 DEF UndoAccount, NotDeleted
<1>11. CASE CompensateAccount(w)
  <2>1. CASE account' = account /\ Ends(w)
    <3>1. Stops(w)
      BY <1>3, <2>1, EndsShape, Unassigned DEF Stops
    <3> QED
      BY <3>1 DEF Shape
  <2> QED
    BY <1>9, <1>11, <2>1 DEF CompensateAccount, NotDeleted
<1> QED
  BY <1>6, <1>7, <1>8, <1>10, <1>11

(* The ends of an approval.                                                *)
LEMMA EndingShapes ==
  ASSUME Types, Numbered, NEW w \in Worker,
         Finalize(w) \/ Withdraw(w) \/ RejectUnavailable(w) \/ Crash(w)
  PROVE  Shape
<1> DEFINE r == worker[w].request
           c == worker[w].claim
<1>1. worker[w].phase # "idle" /\ lastClaim' = lastClaim /\ batch' = batch
  BY DEF Finalize, Withdraw, RejectUnavailable, Crash
<1>2. r \in Request /\ c \in Claim /\ request[r] \in RequestType
  BY <1>1, AtWork DEF Types
<1>3. CASE Finalize(w)
  <2>1. CASE /\ Owned(r, c) /\ Linked(c, r) /\ request' = Approved(r)
             /\ Ends(w) \/ (Goes(w, "compensating") /\ unacknowledged' = unacknowledged \cup {r})
             /\ account' = [account EXCEPT ![c].team = request[r].team]
    <3>1. OnlyRequest(r) /\ request'[r].status = "APPROVED" /\ request'[r].claim = None
      BY <1>2, <2>1, ApprovedShape
    <3>2. NoAccountStep
      BY <1>2, <2>1, TeamShape
    <3>3. /\ OnlyWorker(w)
          /\ \/ worker'[w].phase = "idle"
             \/ /\ worker'[w] = [worker[w] EXCEPT !.phase = "compensating"]
                /\ r \in unacknowledged'
      <4>1. "compensating" \in Phase
        BY DEF Phase
      <4> QED
        BY <2>1, <4>1, EndsShape, GoesShape
    <3>4. Resolves(w)
      BY <1>1, <1>3, <2>1, <3>1, <3>2, <3>3 DEF Resolves, Verdicts, Finalize
    <3> QED
      BY <3>4 DEF Shape
  <2>2. CASE Goes(w, "compensating") /\ UNCHANGED <<request, account>>
    <3>1. "compensating" \in Phase
      BY DEF Phase
    <3>2. Proceeds(w, "compensating")
      BY <1>1, <1>3, <2>2, <3>1, GoesShape, Unassigned DEF Proceeds, Steps, Finalize
    <3> QED
      BY <3>1, <3>2 DEF Shape
  <2> QED
    BY <1>3, <2>1, <2>2 DEF Finalize
<1>4. CASE Withdraw(w)
  <2>1. /\ request' = Restored(r, c) /\ account' = account /\ Ends(w)
        /\ worker[w].phase = "withdrawing"
    BY <1>4 DEF Withdraw
  <2>2. CASE Owned(r, c)
    <3>1. Resolves(w)
      BY <1>1, <1>2, <2>1, <2>2, RestoredShape, EndsShape, Unassigned DEF Resolves, Verdicts
    <3> QED
      BY <3>1 DEF Shape
  <2>3. CASE ~Owned(r, c)
    <3>1. Stops(w)
      BY <1>1, <1>2, <2>1, <2>3, RestoredShape, EndsShape, Unassigned DEF Stops
    <3> QED
      BY <3>1 DEF Shape
  <2> QED
    BY <2>2, <2>3
<1>5. CASE RejectUnavailable(w)
  <2>1. account' = account /\ Ends(w) /\ worker[w].phase = "unavailable"
    BY <1>5 DEF RejectUnavailable
  <2>2. CASE Owned(r, c)
    <3> DEFINE x == [request[r] EXCEPT !.status = "REJECTED", !.claim = None, !.stale = FALSE,
                                       !.age = 0]
    <3>1. request' = [request EXCEPT ![r] = x]
      BY <1>5, <2>2 DEF RejectUnavailable, Types
    <3>2. OnlyRequest(r) /\ request'[r] = x
      BY <1>2, <3>1, OneRequest
    <3>3. x.status = "REJECTED" /\ x.claim = None
      BY <1>2 DEF RequestType
    <3>4. Resolves(w)
      BY <1>1, <2>1, <2>2, <3>2, <3>3, EndsShape, Unassigned DEF Resolves, Verdicts
    <3> QED
      BY <3>4 DEF Shape
  <2>3. CASE ~Owned(r, c)
    <3>1. Stops(w)
      BY <1>1, <1>5, <2>1, <2>3, EndsShape, Unassigned DEF Stops, RejectUnavailable
    <3> QED
      BY <3>1 DEF Shape
  <2> QED
    BY <2>2, <2>3
<1>6. CASE Crash(w)
  <2>1. Stops(w)
    BY <1>1, <1>6, EndsShape, Unassigned DEF Stops, Crash
  <2> QED
    BY <2>1 DEF Shape
<1> QED
  BY <1>3, <1>4, <1>5, <1>6

(* Every step is one of these.                                             *)
LEMMA EveryShape ==
  ASSUME Types, Numbered, [Next]_vars
  PROVE  Shape
<1>1. ASSUME NEW r \in Request,
             (\E e \in Email : Submit(r, e)) \/ CreateRequest(r) \/ Reject(r)
      PROVE  Shape
  BY <1>1, RequestShapes DEF Shape
<1>2. ASSUME NEW r \in Request, GrowStale(r) \/ Purge(r) PROVE Shape
  BY <1>2, StaleShape, PurgeShape DEF Shape
<1>3. CASE \/ \E c \in Claim : ConfigurePassword(c) \/ ChangeStatus(c)
           \/ \E e \in Email : CreateDirectly(e)
           \/ \E r \in Request : GrowOlder(r)
           \/ StartCleanup \/ UNCHANGED vars
  BY <1>3, QuietShapes DEF Shape
<1>4. ASSUME NEW w \in Worker, NEW r \in Request, Approve(w, r) PROVE Shape
  BY <1>4, TakeShape DEF Approve, Shape
<1>5. ASSUME NEW w \in Worker, NEW r \in Request, ReadStaleClaim(w, r) PROVE Shape
  BY <1>5, RecoveryShapes
<1>6. ASSUME NEW w \in Worker,
             RestoreStaleClaim(w) \/ ClaimAfterRestore(w) \/ FinalizeStaleClaim(w)
      PROVE  Shape
  <2>1. worker[w].request \in Request
    BY <1>6, AtWork DEF RestoreStaleClaim, ClaimAfterRestore, FinalizeStaleClaim
  <2> QED
    BY <1>6, <2>1, RecoveryShapes
<1>7. ASSUME NEW w \in Worker, CheckEmail(w) \/ SignUp(w) \/ LinkAccount(w)
                                \/ UndoAccount(w) \/ CompensateAccount(w)
      PROVE  Shape
  BY <1>7, ProvisioningShapes
<1>8. ASSUME NEW w \in Worker, Finalize(w) \/ Withdraw(w) \/ RejectUnavailable(w) \/ Crash(w)
      PROVE  Shape
  BY <1>8, EndingShapes
<1> QED
  BY <1>1, <1>2, <1>3, <1>4, <1>5, <1>6, <1>7, <1>8 DEF Next, Continue

(* What a step does to the history.                                        *)
LEMMA HistorySteps ==
  ASSUME Types, Numbered, HistoryTyped, [Next]_vars
  PROVE  HistoryTyped' /\ HistoryGrows /\ Heard
<1>1. ASSUME history' = history PROVE HistoryTyped' /\ HistoryGrows /\ Heard
  BY <1>1 DEF history, HistoryTyped, HistoryGrows, Heard
<1>2. ASSUME NEW w \in Worker, UndoAccount(w) PROVE HistoryTyped' /\ HistoryGrows /\ Heard
  <2>1. worker[w].claim \in Claim
    BY <1>2, AtWork DEF UndoAccount
  <2> QED
    BY <1>2, <2>1 DEF UndoAccount, HistoryTyped, HistoryGrows, Heard
<1>3. ASSUME NEW w \in Worker, Finalize(w) PROVE HistoryTyped' /\ HistoryGrows /\ Heard
  <2> DEFINE r == worker[w].request
             c == worker[w].claim
  <2>1. r \in Request /\ c \in Claim /\ worker[w].phase = "linked" /\ abandoned' = abandoned
    BY <1>3, AtWork DEF Finalize
  <2>2. CASE unacknowledged' = unacknowledged
    BY <2>1, <2>2 DEF HistoryTyped, HistoryGrows, Heard
  <2>3. CASE /\ Owned(r, c) /\ Linked(c, r) /\ request' = Approved(r) /\ Goes(w, "compensating")
             /\ unacknowledged' = unacknowledged \cup {r}
             /\ account' = [account EXCEPT ![c].team = request[r].team]
    <3>1. Resolves(w)
      <4>1. "compensating" \in Phase
        BY DEF Phase
      <4>2. OnlyWorker(w) /\ worker'[w] = [worker[w] EXCEPT !.phase = "compensating"]
        BY <2>3, <4>1, GoesShape
      <4>3. OnlyRequest(r) /\ request'[r].status = "APPROVED" /\ request'[r].claim = None
        BY <2>1, <2>3, ApprovedShape
      <4>4. NoAccountStep
        BY <2>1, <2>3, TeamShape
      <4> QED
        BY <1>3, <2>1, <2>3, <4>2, <4>3, <4>4 DEF Resolves, Verdicts, Finalize
    <3> QED
      BY <2>1, <2>3, <3>1 DEF HistoryTyped, HistoryGrows, Heard
  <2> QED
    BY <1>3, <2>2, <2>3 DEF Finalize
<1>4. ASSUME NEW r \in Request,
             \/ \E e \in Email : Submit(r, e)
             \/ CreateRequest(r) \/ Reject(r) \/ GrowOlder(r) \/ GrowStale(r) \/ Purge(r)
             \/ \E w \in Worker : Approve(w, r) \/ ReadStaleClaim(w, r)
      PROVE  history' = history
  BY <1>4 DEF Submit, CreateRequest, Reject, GrowOlder, GrowStale, Purge, Approve, ReadStaleClaim
<1>5. ASSUME NEW w \in Worker,
             \/ RestoreStaleClaim(w) \/ ClaimAfterRestore(w) \/ FinalizeStaleClaim(w)
             \/ CheckEmail(w) \/ SignUp(w) \/ LinkAccount(w) \/ CompensateAccount(w)
             \/ Withdraw(w) \/ RejectUnavailable(w) \/ Crash(w)
      PROVE  history' = history
  BY <1>5 DEF RestoreStaleClaim, ClaimAfterRestore, FinalizeStaleClaim, CheckEmail, SignUp,
              LinkAccount, CompensateAccount, Withdraw, RejectUnavailable, Crash
<1>6. ASSUME \/ \E c \in Claim : ConfigurePassword(c) \/ ChangeStatus(c)
             \/ \E e \in Email : CreateDirectly(e)
             \/ StartCleanup \/ UNCHANGED vars
      PROVE  history' = history
  BY <1>6 DEF ConfigurePassword, ChangeStatus, CreateDirectly, StartCleanup, vars
<1> QED
  BY <1>1, <1>2, <1>3, <1>4, <1>5, <1>6 DEF Next, Continue

-----------------------------------------------------------------------------
(* What the shapes say of requests and workers                             *)

(* A worker whose phase changes keeps its request and its claim.           *)
LEMMA StepsFields ==
  ASSUME Types, NEW w \in Worker, NEW phase \in Phase,
         worker'[w] = [worker[w] EXCEPT !.phase = phase]
  PROVE  /\ worker'[w].phase = phase /\ worker'[w].request = worker[w].request
         /\ worker'[w].claim = worker[w].claim /\ worker'[w].found = worker[w].found
<1>1. worker[w] \in WorkerType
  BY DEF Types
<1> QED
  BY <1>1 DEF WorkerType

(* A claim that is held has a number.                                      *)
LEMMA HeldClaims ==
  ASSUME Types
  PROVE  /\ \A r \in Request : /\ request[r].claim \in Nat
                               /\ request[r].status = "APPROVING" => request[r].claim \in Claim
                               /\ request[r].claim # None <=> request[r].status = "APPROVING"
         /\ lastClaim \in Nat /\ None \notin Claim /\ Claim \subseteq Nat /\ None = 0
BY DEF Types, RequestType, Claim, None

-----------------------------------------------------------------------------
(* Types of the next state                                                 *)

RequestsTyped ==
  /\ request \in [Request -> RequestType]
  /\ \A r \in Request : request[r].claim # None <=> request[r].status = "APPROVING"
AccountsTyped == account \in [Claim -> AccountType]
WorkersTyped == worker \in [Worker -> WorkerType]
RestTyped ==
  /\ direct \in [Email -> {"NONE", "PROVISIONED", "RECORDED"}]
  /\ lastClaim \in Claim \cup {None}
  /\ batch \subseteq Request

(* Variable by variable.                                                   *)
LEMMA Typed ==
  (RequestsTyped /\ AccountsTyped /\ WorkersTyped /\ RestTyped)' => Types'
BY DEF Types, RequestsTyped, AccountsTyped, WorkersTyped, RestTyped

(* One row replaced by a row of the same type.                             *)
LEMMA RequestTyped ==
  ASSUME Types, NEW r \in Request, NEW x \in RequestType,
         x.claim # None <=> x.status = "APPROVING", request' = [request EXCEPT ![r] = x]
  PROVE  RequestsTyped'
BY DEF Types, RequestsTyped

(* The same for accounts.                                                  *)
LEMMA AccountTyped ==
  ASSUME Types, NEW c, NEW x \in AccountType, account' = [account EXCEPT ![c] = x]
  PROVE  AccountsTyped'
BY DEF Types, AccountsTyped

(* The same for workers.                                                   *)
LEMMA WorkerTyped ==
  ASSUME Types, NEW w \in Worker, NEW x \in WorkerType, worker' = [worker EXCEPT ![w] = x]
  PROVE  WorkersTyped'
BY DEF Types, WorkersTyped

(* Variables that are not assigned keep their types.                       *)
LEMMA KeptTypes ==
  ASSUME Types
  PROVE  /\ request' = request => RequestsTyped'
         /\ account' = account => AccountsTyped'
         /\ worker' = worker => WorkersTyped'
         /\ direct' = direct /\ lastClaim' = lastClaim /\ batch' = batch => RestTyped'
BY DEF Types, RequestsTyped, AccountsTyped, WorkersTyped, RestTyped

(* A worker that goes on or ends.                                          *)
LEMMA GoesTyped ==
  ASSUME Types, NEW w \in Worker, (\E phase \in Phase : Goes(w, phase)) \/ Ends(w)
  PROVE  WorkersTyped'
<1>1. ASSUME NEW phase \in Phase, Goes(w, phase) PROVE WorkersTyped'
  <2>1. worker' = [worker EXCEPT ![w] = [worker[w] EXCEPT !.phase = phase]]
    BY <1>1 DEF Goes, Types
  <2>2. [worker[w] EXCEPT !.phase = phase] \in WorkerType
    BY DEF Types, WorkerType
  <2> QED
    BY <2>1, <2>2, WorkerTyped
<1>2. CASE Ends(w)
  BY <1>2, Blank, WorkerTyped DEF Ends
<1> QED
  BY <1>1, <1>2

(* The statuses a request moves to, its claim given up or never taken.     *)
LEMMA RequestsMoveTyped ==
  ASSUME Types, NEW r \in Request
  PROVE  /\ \A e \in Email : request' = [request EXCEPT ![r] = NewRequest(e)] => RequestsTyped'
         /\ \A s \in {"NONE", "PENDING"} :
              request[r].status # "APPROVING" /\ request' = [request EXCEPT ![r].status = s]
              => RequestsTyped'
         /\ request[r].status # "APPROVING"
            /\ request' = [request EXCEPT ![r].status = "REJECTED", ![r].age = 0] => RequestsTyped'
         /\ request[r].age < 2 /\ request' = [request EXCEPT ![r].age = Older(@)] => RequestsTyped'
         /\ \A age \in {0, request[r].age} :
              request' = [request EXCEPT ![r].configured = TRUE, ![r].age = age] => RequestsTyped'
         /\ request' = [request EXCEPT ![r].stale = TRUE] => RequestsTyped'
<1>0. request[r] \in RequestType /\ (request[r].claim # None <=> request[r].status = "APPROVING")
  BY DEF Types
<1>1. ASSUME NEW e \in Email, request' = [request EXCEPT ![r] = NewRequest(e)] PROVE RequestsTyped'
  BY <1>1, Blank, RequestTyped
<1>2. ASSUME NEW s \in {"NONE", "PENDING"}, request[r].status # "APPROVING",
             request' = [request EXCEPT ![r].status = s]
      PROVE  RequestsTyped'
  <2>1. request' = [request EXCEPT ![r] = [request[r] EXCEPT !.status = s]]
    BY <1>2 DEF Types
  <2>2. [request[r] EXCEPT !.status = s] \in RequestType
        /\ [request[r] EXCEPT !.status = s].claim = None
        /\ [request[r] EXCEPT !.status = s].status # "APPROVING"
    BY <1>0, <1>2 DEF RequestType, RequestStatus
  <2> QED
    BY <2>1, <2>2, RequestTyped
<1>3. ASSUME request[r].age < 2, request' = [request EXCEPT ![r].age = Older(@)]
      PROVE  RequestsTyped'
  <2> DEFINE x == [request[r] EXCEPT !.age = Older(request[r].age)]
  <2>1. request' = [request EXCEPT ![r] = x]
    BY <1>3 DEF Types
  <2>2. x \in RequestType /\ x.claim = request[r].claim /\ x.status = request[r].status
    BY <1>0, <1>3 DEF RequestType, Older
  <2> QED
    BY <1>0, <2>1, <2>2, RequestTyped
<1>4. ASSUME NEW age \in {0, request[r].age},
             request' = [request EXCEPT ![r].configured = TRUE, ![r].age = age]
      PROVE  RequestsTyped'
  <2> DEFINE x == [request[r] EXCEPT !.configured = TRUE, !.age = age]
  <2>1. request' = [request EXCEPT ![r] = x]
    BY <1>4 DEF Types
  <2>2. age \in 0..2
    BY <1>0, <1>4 DEF RequestType
  <2>3. x \in RequestType /\ x.claim = request[r].claim /\ x.status = request[r].status
    BY <1>0, <2>2 DEF RequestType
  <2> QED
    BY <1>0, <2>1, <2>3, RequestTyped
<1>5. ASSUME request' = [request EXCEPT ![r].stale = TRUE] PROVE RequestsTyped'
  <2> DEFINE x == [request[r] EXCEPT !.stale = TRUE]
  <2>1. request' = [request EXCEPT ![r] = x]
    BY <1>5 DEF Types
  <2>2. x \in RequestType /\ x.claim = request[r].claim /\ x.status = request[r].status
    BY <1>0 DEF RequestType
  <2> QED
    BY <1>0, <2>1, <2>2, RequestTyped
<1>6. ASSUME request[r].status # "APPROVING",
             request' = [request EXCEPT ![r].status = "REJECTED", ![r].age = 0]
      PROVE  RequestsTyped'
  <2> DEFINE x == [request[r] EXCEPT !.status = "REJECTED", !.age = 0]
  <2>1. request' = [request EXCEPT ![r] = x]
    BY <1>6 DEF Types
  <2>2. 0 \in 0..2 /\ "REJECTED" \in RequestStatus
    BY DEF RequestStatus
  <2>3. x \in RequestType /\ x.claim = None /\ x.status = "REJECTED"
    BY <1>0, <1>6, <2>2 DEF RequestType
  <2> QED
    BY <2>1, <2>3, RequestTyped
<1> QED
  BY <1>1, <1>2, <1>3, <1>4, <1>5, <1>6

(* ... and those of a claim that is taken or given up.                     *)
LEMMA ClaimsTyped ==
  ASSUME Types, NEW r \in Request
  PROVE  /\ \A team \in BOOLEAN : lastClaim + 1 \in Claim /\ request' = Claimed(r, team)
              => RequestsTyped'
         /\ \A c : request' = Restored(r, c) => RequestsTyped'
         /\ request' = Approved(r) => RequestsTyped'
         /\ request' = [request EXCEPT ![r].status = "REJECTED", ![r].claim = None,
                                       ![r].stale = FALSE, ![r].age = 0]
              => RequestsTyped'
<1>0. request[r] \in RequestType
  BY DEF Types
<1>1. ASSUME NEW team \in BOOLEAN, lastClaim + 1 \in Claim, request' = Claimed(r, team)
      PROVE  RequestsTyped'
  <2> DEFINE x == [request[r] EXCEPT !.status = "APPROVING", !.claim = lastClaim + 1,
                                     !.stale = FALSE, !.team = team]
  <2>1. request' = [request EXCEPT ![r] = x]
    BY <1>1 DEF Types, Claimed
  <2>2. x \in RequestType /\ x.claim = lastClaim + 1 /\ x.status = "APPROVING"
    BY <1>0, <1>1 DEF RequestType, RequestStatus
  <2> QED
    BY <1>1, <2>1, <2>2, HeldClaims, RequestTyped
<1>2. ASSUME NEW c, request' = Restored(r, c) PROVE RequestsTyped'
  <2> DEFINE x == [request[r] EXCEPT !.status = "PENDING", !.claim = None,
                                     !.stale = FALSE, !.team = FALSE]
  <2>1. request' = request \/ request' = [request EXCEPT ![r] = x]
    BY <1>2 DEF Types, Restored
  <2>2. x \in RequestType /\ x.claim = None /\ x.status = "PENDING"
    BY <1>0 DEF RequestType, RequestStatus
  <2> QED
    BY <2>1, <2>2, KeptTypes, RequestTyped
<1>3. ASSUME request' = Approved(r) PROVE RequestsTyped'
  <2> DEFINE x == [request[r] EXCEPT !.status = "APPROVED", !.claim = None, !.stale = FALSE]
  <2>1. request' = [request EXCEPT ![r] = x]
    BY <1>3 DEF Types, Approved
  <2>2. x \in RequestType /\ x.claim = None /\ x.status = "APPROVED"
    BY <1>0 DEF RequestType, RequestStatus
  <2> QED
    BY <2>1, <2>2, RequestTyped
<1>4. ASSUME request' = [request EXCEPT ![r].status = "REJECTED", ![r].claim = None,
                                        ![r].stale = FALSE, ![r].age = 0]
      PROVE  RequestsTyped'
  <2> DEFINE x == [request[r] EXCEPT !.status = "REJECTED", !.claim = None, !.stale = FALSE,
                                     !.age = 0]
  <2>1. request' = [request EXCEPT ![r] = x]
    BY <1>4 DEF Types
  <2>2. 0 \in 0..2 /\ None \in Claim \cup {None} /\ "REJECTED" \in RequestStatus
    BY DEF RequestStatus
  <2>3. x \in RequestType /\ x.claim = None /\ x.status = "REJECTED"
    BY <1>0, <2>2 DEF RequestType
  <2> QED
    BY <2>1, <2>3, RequestTyped
<1> QED
  BY <1>1, <1>2, <1>3, <1>4
-----------------------------------------------------------------------------
(* Applicants, super admins and time keep the types ...                    *)
LEMMA RequestSteps ==
  ASSUME Types, NEW r \in Request,
         \/ \E e \in Email : Submit(r, e)
         \/ CreateRequest(r) \/ Reject(r) \/ GrowOlder(r) \/ GrowStale(r) \/ Purge(r)
  PROVE  Types'
<1>1. CASE \/ \E e \in Email : Submit(r, e)
           \/ CreateRequest(r) \/ Reject(r) \/ GrowOlder(r) \/ GrowStale(r)
  <2>1. UNCHANGED <<account, direct, worker, lastClaim, batch>>
    BY <1>1 DEF Submit, CreateRequest, Reject, GrowOlder, GrowStale
  <2>2. CASE \E e \in Email : Submit(r, e)
    <3>1. RequestsTyped'
      BY <2>2, RequestsMoveTyped DEF Submit
    <3> QED
      BY <2>1, <3>1, KeptTypes, Typed
  <2>3. CASE CreateRequest(r)
    <3>1. PICK s \in {"NONE", "PENDING"} : request' = [request EXCEPT ![r].status = s]
      BY <2>3 DEF CreateRequest
    <3>2. RequestsTyped'
      BY <2>3, <3>1, RequestsMoveTyped DEF CreateRequest
    <3> QED
      BY <2>1, <3>2, KeptTypes, Typed
  <2>4. CASE Reject(r)
    <3>1. RequestsTyped'
      BY <2>4, RequestsMoveTyped DEF Reject
    <3> QED
      BY <2>1, <3>1, KeptTypes, Typed
  <2>5. CASE GrowOlder(r)
    <3>1. RequestsTyped'
      BY <2>5, RequestsMoveTyped DEF GrowOlder
    <3> QED
      BY <2>1, <3>1, KeptTypes, Typed
  <2>6. CASE GrowStale(r)
    <3>1. RequestsTyped'
      BY <2>6, RequestsMoveTyped DEF GrowStale
    <3> QED
      BY <2>1, <3>1, KeptTypes, Typed
  <2> QED
    BY <1>1, <2>2, <2>3, <2>4, <2>5, <2>6
<1>2. CASE Purge(r)
  <2> DEFINE n == NewRequest(request[r].email)
             x == [n EXCEPT !.status = "PURGED"]
  <2>0. request[r].email \in Email \cup {NoEmail}
    BY DEF Types, RequestType
  <2>1. x \in RequestType /\ x.claim = None /\ x.status # "APPROVING"
    <3>1. n \in RequestType /\ n.claim = None
      BY <2>0, Blank
    <3> HIDE DEF n
    <3> QED
      BY <3>1 DEF RequestType, RequestStatus
  <2>2. RequestsTyped'
    BY <1>2, <2>1, RequestTyped DEF Purge
  <2>3. AccountsTyped'
    BY <1>2 DEF Purge, Types, AccountsTyped, AccountType
  <2>4. WorkersTyped' /\ RestTyped'
    BY <1>2 DEF Purge, Types, WorkersTyped, RestTyped
  <2> QED
    BY <2>2, <2>3, <2>4, Typed
<1> QED
  BY <1>1, <1>2

(* ... the life of accounts does ...                                       *)
LEMMA AccountSteps ==
  ASSUME Types,
         \/ \E c \in Claim : ConfigurePassword(c) \/ ChangeStatus(c)
         \/ \E e \in Email : CreateDirectly(e)
         \/ StartCleanup \/ UNCHANGED vars
  PROVE  Types'
<1>1. ASSUME NEW c \in Claim, ConfigurePassword(c) PROVE Types'
  <2> DEFINE x == [account[c] EXCEPT !.status = "ACTIVE", !.setup = FALSE]
  <2>1. account[c] \in AccountType /\ account[c].link \in Request
    BY <1>1 DEF Types, AccountType, ConfigurePassword
  <2>2. account' = [account EXCEPT ![c] = x] /\ x \in AccountType
    BY <1>1, <2>1 DEF Types, AccountType, ConfigurePassword
  <2>3. AccountsTyped'
    BY <2>2, AccountTyped
  <2>4. RequestsTyped'
    <3> DEFINE r == account[c].link
    <3>1. PICK age \in {0, request[r].age} :
            request' = [request EXCEPT ![r].configured = TRUE, ![r].age = age]
      BY <1>1, <2>1 DEF ConfigurePassword, Types
    <3> QED
      BY <2>1, <3>1, RequestsMoveTyped
  <2> QED
    BY <1>1, <2>3, <2>4, KeptTypes, Typed DEF ConfigurePassword
<1>2. ASSUME NEW c \in Claim, ChangeStatus(c) PROVE Types'
  <2> DEFINE x == [account[c] EXCEPT !.status = IF @ = "ACTIVE" THEN "INACTIVE" ELSE "ACTIVE"]
  <2>1. account' = [account EXCEPT ![c] = x] /\ x \in AccountType
    BY <1>2 DEF Types, AccountType, ChangeStatus
  <2>2. AccountsTyped'
    BY <2>1, AccountTyped
  <2> QED
    BY <1>2, <2>2, KeptTypes, Typed DEF ChangeStatus
<1>3. ASSUME NEW e \in Email, CreateDirectly(e) PROVE Types'
  <2>1. RestTyped'
    BY <1>3 DEF CreateDirectly, Types, RestTyped
  <2> QED
    BY <1>3, <2>1, KeptTypes, Typed DEF CreateDirectly
<1>4. CASE StartCleanup
  <2>1. RestTyped'
    BY <1>4 DEF StartCleanup, Types, RestTyped
  <2> QED
    BY <1>4, <2>1, KeptTypes, Typed DEF StartCleanup
<1>5. CASE UNCHANGED vars
  BY <1>5, KeptTypes, Typed DEF vars
<1> QED
  BY <1>1, <1>2, <1>3, <1>4, <1>5

(* ... and so do approvals and recoveries.                                 *)
LEMMA TakeTyped ==
  ASSUME Types, NEW w \in Worker, NEW r \in Request, TakeClaim(w, r),
         UNCHANGED <<account, direct, batch>>
  PROVE  Types'
<1>1. lastClaim + 1 \in Claim
  BY DEF TakeClaim, Types, Claim, None
<1>2. RequestsTyped'
  BY <1>1, ClaimsTyped DEF TakeClaim
<1> DEFINE x == [phase |-> "claimed", request |-> r, claim |-> lastClaim + 1, found |-> None]
<1>3. x \in WorkerType
  BY <1>1 DEF WorkerType, Phase
<1>4. WorkersTyped'
  BY <1>3, WorkerTyped DEF TakeClaim
<1>5. RestTyped'
  BY <1>1 DEF TakeClaim, Types, RestTyped
<1> QED
  BY <1>2, <1>4, <1>5, KeptTypes, Typed

(* Every step of an approval or a recovery keeps the types.                *)
LEMMA WorkerSteps ==
  ASSUME Types, Numbered, NEW w \in Worker,
         \/ \E r \in Request : Approve(w, r) \/ ReadStaleClaim(w, r)
         \/ Continue(w) \/ Crash(w)
  PROVE  Types'
<1>1. ASSUME NEW r \in Request, Approve(w, r) PROVE Types'
  BY <1>1, TakeTyped DEF Approve
<1>2. ASSUME NEW r \in Request, ReadStaleClaim(w, r) PROVE Types'
  <2>1. PICK phase \in {"restoring", "recovering"}, found \in Claim \cup {None} :
          worker' = [worker EXCEPT ![w] = [phase |-> phase, request |-> r,
                                           claim |-> request[r].claim, found |-> found]]
    BY <1>2 DEF ReadStaleClaim, LinkedTo
  <2>2. [phase |-> phase, request |-> r, claim |-> request[r].claim, found |-> found] \in WorkerType
    BY DEF Types, RequestType, WorkerType, Phase
  <2>3. WorkersTyped'
    BY <2>1, <2>2, WorkerTyped
  <2> QED
    BY <1>2, <2>3, KeptTypes, Typed DEF ReadStaleClaim
<1> DEFINE r == worker[w].request
           c == worker[w].claim
<1>3. "claiming" \in Phase /\ "checked" \in Phase /\ "unavailable" \in Phase
      /\ "withdrawing" \in Phase /\ "signedUp" \in Phase /\ "linked" \in Phase
      /\ "undoing" \in Phase /\ "compensating" \in Phase
  BY DEF Phase
<1>4. worker[w].phase # "idle" => r \in Request /\ c \in Claim /\ account[c] \in AccountType
                                  /\ request[r] \in RequestType
  BY AtWork DEF Types
<1>5. CASE RestoreStaleClaim(w)
  <2>1. RequestsTyped' /\ WorkersTyped'
    BY <1>3, <1>4, <1>5, ClaimsTyped, GoesTyped DEF RestoreStaleClaim
  <2> QED
    BY <1>5, <2>1, KeptTypes, Typed DEF RestoreStaleClaim
<1>6. CASE ClaimAfterRestore(w)
  <2>1. ASSUME Ends(w), UNCHANGED <<request, lastClaim>> PROVE Types'
    BY <1>6, <2>1, GoesTyped, KeptTypes, Typed DEF ClaimAfterRestore
  <2> QED
    BY <1>4, <1>6, <2>1, TakeTyped DEF ClaimAfterRestore
<1>7. CASE FinalizeStaleClaim(w)
  <2>1. request' = request \/ request' = Approved(r)
    BY <1>7 DEF FinalizeStaleClaim
  <2>2. RequestsTyped'
    BY <1>4, <1>7, <2>1, ClaimsTyped, KeptTypes DEF FinalizeStaleClaim
  <2>3. worker[w].found \in Claim
    BY <1>7 DEF FinalizeStaleClaim, Numbered
  <2>4. AccountsTyped'
    <3> DEFINE x == [account[worker[w].found] EXCEPT !.team = TRUE]
    <3>1. account' = account \/ account' = [account EXCEPT ![worker[w].found] = x]
      BY <1>7, <2>3 DEF FinalizeStaleClaim, Types
    <3>2. account[worker[w].found] \in AccountType
      BY <2>3 DEF Types
    <3>3. x \in AccountType
      BY <3>2 DEF AccountType
    <3> QED
      BY <3>1, <3>3, AccountTyped, KeptTypes
  <2> QED
    BY <1>7, <2>2, <2>4, GoesTyped, KeptTypes, Typed DEF FinalizeStaleClaim
<1>8. CASE CheckEmail(w)
  <2>1. WorkersTyped'
    BY <1>3, <1>8, GoesTyped DEF CheckEmail
  <2> QED
    BY <1>8, <2>1, KeptTypes, Typed DEF CheckEmail
<1>9. CASE SignUp(w)
  <2>1. WorkersTyped'
    BY <1>3, <1>9, GoesTyped DEF SignUp
  <2>2. AccountsTyped'
    <3> DEFINE x == [NoAccount EXCEPT !.status = "INACTIVE", !.email = request[r].email]
    <3>1. account' = account \/ account' = [account EXCEPT ![c] = x]
      BY <1>9 DEF SignUp
    <3>2. x \in AccountType
      BY <1>4, <1>9 DEF SignUp, RequestType, NoAccount, AccountType
    <3> QED
      BY <3>1, <3>2, AccountTyped, KeptTypes
  <2> QED
    BY <1>9, <2>1, <2>2, KeptTypes, Typed DEF SignUp
<1>10. CASE LinkAccount(w)
  <2>1. WorkersTyped'
    BY <1>3, <1>10, GoesTyped DEF LinkAccount
  <2>2. AccountsTyped'
    <3> DEFINE x == [account[c] EXCEPT !.status = "INACTIVE", !.link = r, !.setup = TRUE]
    <3>1. account' = account \/ account' = [account EXCEPT ![c] = x]
      BY <1>10 DEF LinkAccount, Types
    <3>2. x \in AccountType
      BY <1>4, <1>10 DEF LinkAccount, AccountType
    <3> QED
      BY <3>1, <3>2, AccountTyped, KeptTypes
  <2> QED
    BY <1>10, <2>1, <2>2, KeptTypes, Typed DEF LinkAccount
<1>11. CASE Finalize(w)
  <2>1. WorkersTyped'
    BY <1>3, <1>11, GoesTyped DEF Finalize
  <2>2. AccountsTyped'
    <3> DEFINE x == [account[c] EXCEPT !.team = request[r].team]
    <3>1. account' = account \/ account' = [account EXCEPT ![c] = x]
      BY <1>11 DEF Finalize, Types
    <3>2. x \in AccountType
      BY <1>4, <1>11 DEF Finalize, AccountType, RequestType
    <3> QED
      BY <3>1, <3>2, AccountTyped, KeptTypes
  <2>3. RequestsTyped'
    BY <1>4, <1>11, ClaimsTyped, KeptTypes DEF Finalize
  <2> QED
    BY <1>11, <2>1, <2>2, <2>3, KeptTypes, Typed DEF Finalize
<1>12. CASE UndoAccount(w) \/ CompensateAccount(w)
  <2>1. WorkersTyped'
    BY <1>3, <1>12, GoesTyped DEF UndoAccount, CompensateAccount
  <2>2. AccountsTyped'
    <3>1. [NoAccount EXCEPT !.status = "DELETED"] \in AccountType
      BY DEF NoAccount, AccountType
    <3>2. Deleted(c) \/ NotDeleted(c)
      BY <1>12 DEF UndoAccount, CompensateAccount
    <3> QED
      BY <3>1, <3>2, AccountTyped, KeptTypes DEF Deleted, NotDeleted
  <2> QED
    BY <1>12, <2>1, <2>2, KeptTypes, Typed DEF UndoAccount, CompensateAccount
<1>13. CASE Withdraw(w)
  <2>1. RequestsTyped' /\ WorkersTyped'
    BY <1>4, <1>13, ClaimsTyped, GoesTyped DEF Withdraw
  <2> QED
    BY <1>13, <2>1, KeptTypes, Typed DEF Withdraw
<1>14. CASE RejectUnavailable(w)
  <2>1. WorkersTyped'
    BY <1>14, GoesTyped DEF RejectUnavailable
  <2>2. RequestsTyped'
    BY <1>4, <1>14, ClaimsTyped, KeptTypes DEF RejectUnavailable
  <2> QED
    BY <1>14, <2>1, <2>2, KeptTypes, Typed DEF RejectUnavailable
<1>15. CASE Crash(w)
  BY <1>15, GoesTyped, KeptTypes, Typed DEF Crash
<1> QED
  BY <1>1, <1>2, <1>5, <1>6, <1>7, <1>8, <1>9, <1>10, <1>11, <1>12, <1>13, <1>14, <1>15
     DEF Continue

(* So does every step.                                                     *)
LEMMA TypesStep ==
  ASSUME Types, Numbered, [Next]_vars
  PROVE  Types'
BY RequestSteps, AccountSteps, WorkerSteps DEF Next
-----------------------------------------------------------------------------
(* Numbers of the next state                                               *)

ClaimsNumbered ==
  /\ \A r \in Request : request[r].claim <= lastClaim
  /\ \A r, o \in Request :
       request[r].claim # None /\ request[r].claim = request[o].claim => r = o
WorkNumbered(w) ==
  worker[w].phase # "idle" =>
    /\ worker[w].request \in Request
    /\ worker[w].claim \in Claim /\ worker[w].claim <= lastClaim
    /\ worker[w].phase = "recovering" => worker[w].found \in Claim

(* Claims that stay, one that is given up, one that is taken.              *)
LEMMA ClaimsStay ==
  ASSUME Types, Numbered, NoRequestStep, lastClaim' = lastClaim
  PROVE  ClaimsNumbered'
BY DEF Numbered, ClaimsNumbered, NoRequestStep, SameRequest

(* The request whose claim changes is the only one that has it.            *)
LEMMA ClaimChanges ==
  ASSUME Types, Numbered, NEW r \in Request, OnlyRequest(r),
         \/ request'[r].claim \in {None, request[r].claim} /\ lastClaim' = lastClaim
         \/ request'[r].claim = lastClaim' /\ lastClaim' = lastClaim + 1
  PROVE  ClaimsNumbered'
<1>1. \A o \in Request \ {r} : request'[o].claim = request[o].claim
  BY DEF OnlyRequest, SameRequest
<1>2. lastClaim \in Nat /\ \A o \in Request : request[o].claim \in Nat
  BY HeldClaims
<1>3. CASE request'[r].claim \in {None, request[r].claim} /\ lastClaim' = lastClaim
  BY <1>1, <1>2, <1>3 DEF Numbered, ClaimsNumbered, None
<1>4. CASE request'[r].claim = lastClaim' /\ lastClaim' = lastClaim + 1
  BY <1>1, <1>2, <1>4 DEF Numbered, ClaimsNumbered, None
<1> QED
  BY <1>3, <1>4

(* Workers that are not named keep what they have.                         *)
LEMMA WorkStays ==
  ASSUME Types, Numbered, lastClaim' \in {lastClaim, lastClaim + 1},
         NEW w \in Worker, worker'[w] = worker[w] \/ worker'[w].phase = "idle"
  PROVE  WorkNumbered(w)'
<1>1. lastClaim \in Nat
  BY HeldClaims
<1>2. worker[w].phase # "idle" => worker[w].claim \in Nat /\ worker[w].claim <= lastClaim
  BY HeldClaims DEF Numbered
<1> QED
  BY <1>1, <1>2 DEF Numbered, WorkNumbered

(* A phase of the same work.                                               *)
LEMMA WorkGoesOn ==
  ASSUME Types, Numbered, lastClaim' = lastClaim, NEW w \in Worker, NEW phase \in Phase,
         worker[w].phase # "idle", phase # "recovering",
         worker'[w] = [worker[w] EXCEPT !.phase = phase]
  PROVE  WorkNumbered(w)'
<1>1. worker'[w].phase = phase /\ worker'[w].request = worker[w].request
      /\ worker'[w].claim = worker[w].claim
  BY StepsFields
<1> QED
  BY <1>1 DEF Numbered, WorkNumbered

(* Every step keeps the numbers.                                           *)
LEMMA NumberedStep ==
  ASSUME Types, Numbered, Shape
  PROVE  Numbered'
<1> SUFFICES ClaimsNumbered' /\ \A w \in Worker : WorkNumbered(w)'
  BY DEF Numbered, ClaimsNumbered, WorkNumbered
<1>1. CASE Quiet
  BY <1>1, ClaimsStay, WorkStays DEF Quiet
<1>2. ASSUME NEW r \in Request, RequestMoves(r) \/ RequestGrowsStale(r) \/ Purged(r)
      PROVE  ClaimsNumbered' /\ \A w \in Worker : WorkNumbered(w)'
  <2>1. OnlyRequest(r) /\ request'[r].claim \in {None, request[r].claim}
        /\ lastClaim' = lastClaim /\ worker' = worker
    BY <1>2 DEF RequestMoves, RequestGrowsStale, Purged
  <2> QED
    BY <2>1, ClaimChanges, WorkStays
<1>3. ASSUME NEW w \in Worker, NEW r \in Request, Takes(w, r)
      PROVE  ClaimsNumbered' /\ \A o \in Worker : WorkNumbered(o)'
  <2>1. OnlyRequest(r) /\ OnlyWorker(w) /\ request'[r].claim = lastClaim'
        /\ lastClaim' = lastClaim + 1
    BY <1>3 DEF Takes
  <2>2. \A o \in Worker \ {w} : WorkNumbered(o)'
    BY <2>1, WorkStays DEF OnlyWorker
  <2>3. WorkNumbered(w)'
    BY <1>3, HeldClaims DEF Takes, WorkNumbered
  <2> QED
    BY <2>1, <2>2, <2>3, ClaimChanges
<1>4. ASSUME NEW w \in Worker, NEW r \in Request, Reads(w, r)
      PROVE  ClaimsNumbered' /\ \A o \in Worker : WorkNumbered(o)'
  <2>1. NoRequestStep /\ OnlyWorker(w) /\ lastClaim' = lastClaim
    BY <1>4 DEF Reads
  <2>2. \A o \in Worker \ {w} : WorkNumbered(o)'
    BY <2>1, WorkStays DEF OnlyWorker
  <2>3. WorkNumbered(w)'
    BY <1>4, HeldClaims DEF Reads, WorkNumbered, LinkedTo, Numbered
  <2> QED
    BY <2>1, <2>2, <2>3, ClaimsStay
<1>5. ASSUME NEW w \in Worker, Stops(w)
      PROVE  ClaimsNumbered' /\ \A o \in Worker : WorkNumbered(o)'
  BY <1>5, ClaimsStay, WorkStays DEF Stops, OnlyWorker
<1>6. ASSUME NEW w \in Worker, Resolves(w)
      PROVE  ClaimsNumbered' /\ \A o \in Worker : WorkNumbered(o)'
  <2>1. /\ worker[w].phase # "idle" /\ OnlyRequest(worker[w].request) /\ OnlyWorker(w)
        /\ request'[worker[w].request].claim = None /\ lastClaim' = lastClaim
    BY <1>6 DEF Resolves
  <2>2. worker[w].request \in Request
    BY <2>1, AtWork
  <2>3. \A o \in Worker \ {w} : WorkNumbered(o)'
    BY <2>1, WorkStays DEF OnlyWorker
  <2>4. "claiming" \in Phase /\ "compensating" \in Phase
    BY DEF Phase
  <2>5. WorkNumbered(w)'
    BY <1>6, <2>1, <2>4, WorkStays, WorkGoesOn DEF Resolves
  <2> QED
    BY <2>1, <2>2, <2>3, <2>5, ClaimChanges
<1>7. ASSUME NEW w \in Worker, NEW phase \in Phase,
             Steps(w, phase), worker[w].phase # "idle", phase # "recovering"
      PROVE  ClaimsNumbered' /\ \A o \in Worker : WorkNumbered(o)'
  <2>1. NoRequestStep /\ OnlyWorker(w) /\ lastClaim' = lastClaim
    BY <1>7 DEF Steps
  <2>2. \A o \in Worker \ {w} : WorkNumbered(o)'
    BY <2>1, WorkStays DEF OnlyWorker
  <2>3. WorkNumbered(w)'
    BY <1>7, <2>1, WorkGoesOn DEF Steps
  <2> QED
    BY <2>1, <2>2, <2>3, ClaimsStay
<1>8. ASSUME NEW w \in Worker, SignsUp(w) \/ Links(w) \/ Deletes(w)
      PROVE  \/ \E phase \in Phase : /\ Steps(w, phase) /\ worker[w].phase # "idle"
                                     /\ phase # "recovering"
             \/ /\ worker'[w].phase = "idle" /\ OnlyWorker(w)
                /\ NoRequestStep /\ lastClaim' = lastClaim
  BY <1>8 DEF SignsUp, Links, Deletes, Phase
<1>10. ASSUME NEW w \in Worker, worker'[w].phase = "idle", OnlyWorker(w), NoRequestStep,
              lastClaim' = lastClaim
       PROVE  ClaimsNumbered' /\ \A o \in Worker : WorkNumbered(o)'
  BY <1>10, ClaimsStay, WorkStays DEF OnlyWorker
<1>9. ASSUME NEW w \in Worker, NEW phase \in Phase, Proceeds(w, phase)
      PROVE  Steps(w, phase) /\ worker[w].phase # "idle" /\ phase # "recovering"
  BY <1>9 DEF Proceeds
<1> QED
  BY <1>1, <1>2, <1>3, <1>4, <1>5, <1>6, <1>7, <1>8, <1>9, <1>10 DEF Shape

-----------------------------------------------------------------------------
(* However slow approvals are                                              *)

(* At the start nothing is there.                                          *)
LEMMA BooksInit == Init => Types /\ Numbered
<1> SUFFICES ASSUME Init PROVE Types /\ Numbered
  OBVIOUS
<1> DEFINE n == NewRequest(NoEmail)
<1>0. [n EXCEPT !.status = "NONE"] \in RequestType /\ [n EXCEPT !.status = "NONE"].claim = None
      /\ [n EXCEPT !.status = "NONE"].status = "NONE"
  <2>1. n \in RequestType /\ n.claim = None
    BY Blank
  <2> HIDE DEF n
  <2> QED
    BY <2>1 DEF RequestType, RequestStatus
<1>1. \A r \in Request : /\ request[r] = [n EXCEPT !.status = "NONE"]
                         /\ request[r] \in RequestType /\ request[r].claim = None
                         /\ request[r].status = "NONE"
  <2>1. request = [r \in Request |-> [n EXCEPT !.status = "NONE"]]
    BY DEF Init
  <2> HIDE DEF n
  <2> QED
    BY <1>0, <2>1
<1>2. Types
  BY <1>1, Blank DEF Init, Types, NoAccount, None
<1>3. Numbered
  BY <1>1, Blank DEF Init, Numbered, None
<1> QED
  BY <1>2, <1>3

(* Types and numbers are inductive together.                               *)
LEMMA BooksStep ==
  ASSUME Types, Numbered, [Next]_vars
  PROVE  Types' /\ Numbered'
BY TypesStep, EveryShape, NumberedStep

(* They hold however many approvals run, and however long.                 *)
LEMMA BooksHold == Spec => [](Types /\ Numbered /\ HistoryTyped)
<1>1. Init => HistoryTyped
  BY DEF Init, HistoryTyped
<1> QED
  BY <1>1, BooksInit, BooksStep, HistorySteps, PTL DEF Spec

(* Every row of the registration, of its accounts and of the approvals     *)
(* under way has its type, and a request has a claim just while it is      *)
(* being approved.                                                         *)
THEOREM TypeCorrect == Spec => []TypeOK
<1>1. Types /\ HistoryTyped => TypeOK
  BY TypesAreTypeOK
<1> QED
  BY <1>1, BooksHold, PTL

(* A decided request is decided for good: a claim is given up only by      *)
(* whoever still owns it.                                                  *)
LEMMA DecidedStays ==
  ASSUME Types, Shape, NEW r \in Request, request[r].status \in {"APPROVED", "REJECTED"},
         request'[r].status # request[r].status
  PROVE  request'[r].status = "PURGED"
<1>1. CASE Quiet
  BY <1>1 DEF Quiet, NoRequestStep, SameRequest
<1>2. ASSUME NEW o \in Request, RequestMoves(o) \/ RequestGrowsStale(o)
      PROVE  request'[r].status = "PURGED"
  BY <1>2 DEF RequestMoves, RequestGrowsStale, OnlyRequest, SameRequest
<1>3. ASSUME NEW o \in Request, Purged(o)
      PROVE  request'[r].status = "PURGED"
  BY <1>3 DEF Purged, OnlyRequest, SameRequest
<1>4. ASSUME NEW w \in Worker, NEW o \in Request, Takes(w, o) \/ Reads(w, o)
      PROVE  request'[r].status = "PURGED"
  BY <1>4 DEF Takes, Reads, OnlyRequest, NoRequestStep, SameRequest
<1>5. ASSUME NEW w \in Worker, Resolves(w)
      PROVE  request'[r].status = "PURGED"
  BY <1>5 DEF Resolves, Owned, OnlyRequest, SameRequest
<1>6. ASSUME NEW w \in Worker,
             \/ Stops(w) \/ SignsUp(w) \/ Links(w) \/ Deletes(w)
             \/ \E phase \in Phase : Proceeds(w, phase)
      PROVE  request'[r].status = "PURGED"
  BY <1>6 DEF Stops, SignsUp, Links, Deletes, Proceeds, Steps, NoRequestStep, SameRequest
<1> QED
  BY <1>1, <1>2, <1>3, <1>4, <1>5, <1>6 DEF Shape

(* What has been purged stays so.                                          *)
LEMMA PurgedStays ==
  ASSUME Types, Shape, NEW r \in Request, request[r].status = "PURGED"
  PROVE  request'[r].status = "PURGED"
<1>1. CASE Quiet
  BY <1>1 DEF Quiet, NoRequestStep, SameRequest
<1>2. ASSUME NEW o \in Request, RequestMoves(o) \/ RequestGrowsStale(o) \/ Purged(o)
      PROVE  request'[r].status = "PURGED"
  BY <1>2 DEF RequestMoves, RequestGrowsStale, Purged, OnlyRequest, SameRequest
<1>3. ASSUME NEW w \in Worker, NEW o \in Request, Takes(w, o) \/ Reads(w, o)
      PROVE  request'[r].status = "PURGED"
  BY <1>3 DEF Takes, Reads, OnlyRequest, NoRequestStep, SameRequest
<1>4. ASSUME NEW w \in Worker, Resolves(w)
      PROVE  request'[r].status = "PURGED"
  BY <1>4 DEF Resolves, Owned, OnlyRequest, SameRequest
<1>5. ASSUME NEW w \in Worker,
             \/ Stops(w) \/ SignsUp(w) \/ Links(w) \/ Deletes(w)
             \/ \E phase \in Phase : Proceeds(w, phase)
      PROVE  request'[r].status = "PURGED"
  BY <1>5 DEF Stops, SignsUp, Links, Deletes, Proceeds, Steps, NoRequestStep, SameRequest
<1> QED
  BY <1>1, <1>2, <1>3, <1>4, <1>5 DEF Shape

(* DecisionIsFinal, for any number of super admins, claims and restarts,   *)
(* whether or not an approval outlives its claim.                          *)
THEOREM DecisionIsFinalHolds == Spec => DecisionIsFinal
<1>1. ASSUME Types, Numbered, [Next]_vars
      PROVE  \A r \in Request :
               /\ request[r].status \in {"APPROVED", "REJECTED"}
               /\ request'[r].status # request[r].status
               => request'[r].status = "PURGED"
  BY <1>1, EveryShape, DecidedStays
<1> QED
  BY <1>1, BooksHold, PTL DEF Spec, DecisionIsFinal
-----------------------------------------------------------------------------
(* As long as no approval outlives its claim                               *)

(* An approval under way: its request, which it owns, and its claim, which *)
(* is the number of the only account its request can have, apart from ones *)
(* that an earlier approval could not delete.                              *)
LEMMA Approvals ==
  ASSUME Types, Numbered, Saga, NEW w \in Worker, Approving(w),
         NEW r, r = worker[w].request, NEW c, c = worker[w].claim
  PROVE  /\ r \in Request /\ c \in Claim /\ c <= lastClaim
         /\ request[r].status = "APPROVING" /\ request[r].claim = c /\ ~request[r].stale
         /\ \A o \in Worker : worker[o].phase # "idle" /\ worker[o].claim = c => o = w
         /\ LinkedTo(r) \subseteq {c} \cup abandoned
<1>1. worker[w].phase # "idle"
  BY DEF Approving, Approval
<1>2. r \in Request /\ c \in Claim /\ c <= lastClaim
  BY <1>1 DEF Numbered
<1>3. Owned(r, c) /\ ~request[r].stale
      /\ \A o \in Worker : worker[o].phase # "idle" /\ worker[o].claim = c => o = w
  BY DEF Saga, Core, Exclusive
<1>4. LinkedTo(r) \subseteq {c} \cup abandoned
  BY <1>2, <1>3 DEF Saga, Core, OneAccount, Owned, LinkedTo
<1> QED
  BY <1>2, <1>3, <1>4 DEF Owned

(* An approval is never heard of again once it is late.                    *)
LEMMA StaysApproving ==
  ASSUME HistoryGrows, NEW w \in Worker, worker'[w] = worker[w], Approving(w)'
  PROVE  Approving(w)
BY DEF HistoryGrows, Approving, Late

(* A worker at a phase of an approval that is not late is approving, and   *)
(* so is whoever owns the claim it works under.                            *)
LEMMA NotLate ==
  ASSUME Types, Numbered, Saga, NEW w \in Worker, worker[w].phase \in Approval,
         worker[w].phase \notin {"compensating", "withdrawing"}
         \/ request[worker[w].request].status = "APPROVING"
  PROVE  Approving(w)
<1>1. worker[w].phase # "idle"
  BY DEF Approval
<1>2. worker[w].request \in Request
  BY <1>1 DEF Numbered
<1> QED
  BY <1>2 DEF Approving, Late, Saga, UnheardDecided

(* A late approval: its request has been decided, and it is alone with its *)
(* claim.                                                                  *)
LEMMA LateOnes ==
  ASSUME Types, Numbered, Saga, NEW w \in Worker, Late(w),
         NEW r, r = worker[w].request, NEW c, c = worker[w].claim
  PROVE  /\ r \in Request /\ c \in Claim /\ c <= lastClaim
         /\ r \in unacknowledged /\ request[r].status \in {"APPROVED", "PURGED"}
         /\ \A o \in Worker : worker[o].phase # "idle" /\ worker[o].claim = c => o = w
         /\ \A q \in Request : request[q].claim # c
<1>1. worker[w].phase # "idle"
  BY DEF Late
<1>2. r \in Request /\ c \in Claim /\ c <= lastClaim
  BY <1>1 DEF Numbered
<1> QED
  BY <1>2 DEF Late, Saga, LateAlone, UnheardDecided

(* Accounts that no step is about stay linked to the same requests.        *)
LEMMA LinksStay ==
  ASSUME NoAccountStep
  PROVE  \A r \in Request : /\ LinkedTo(r)' = LinkedTo(r)
                             /\ \A c \in LinkedTo(r)' : account'[c].setup => account[c].setup
BY DEF NoAccountStep, SameAccount, LinkedTo

(* What the cleanup has read stays so while nothing is added to it.        *)
LEMMA LapsedStays ==
  ASSUME NEW r \in Request, Lapsed(r), SameRequest(r), LinkedTo(r)' \subseteq LinkedTo(r),
         \A c \in LinkedTo(r)' : account'[c].setup => account[c].setup
  PROVE  Lapsed(r)'
BY DEF Lapsed, SameRequest

(* An approval changes no account but its own, which no other request has. *)
LEMMA OwnAccount ==
  ASSUME Types, Numbered, Saga, NEW w \in Worker, SignsUp(w) \/ Links(w) \/ Deletes(w),
         NEW r, r = worker[w].request, NEW c, c = worker[w].claim
  PROVE  /\ r \in Request /\ c \in Claim /\ c <= lastClaim
         /\ Approving(w) \/ (Deletes(w) /\ Late(w))
         /\ worker[w].phase # "idle"
         /\ \/ worker'[w].phase = "idle"
            \/ worker'[w].request = r /\ worker'[w].claim = c
         /\ OnlyWorker(w) /\ NoRequestStep /\ lastClaim' = lastClaim /\ batch' = batch
         /\ OnlyAccount(c)
         /\ \A q \in Request \ {r} : LinkedTo(q)' = LinkedTo(q) /\ c \notin LinkedTo(q)
<1>1. /\ \/ worker'[w].phase = "idle"
         \/ worker'[w].request = r /\ worker'[w].claim = c
      /\ OnlyWorker(w) /\ NoRequestStep /\ lastClaim' = lastClaim /\ batch' = batch
  <2>1. ASSUME NEW phase \in {"signedUp", "linked", "undoing", "withdrawing"}, Steps(w, phase)
        PROVE  worker'[w].request = r /\ worker'[w].claim = c
    <3>1. phase \in Phase
      BY DEF Phase
    <3> QED
      BY <2>1, <3>1, StepsFields DEF Steps
  <2> QED
    BY <2>1 DEF SignsUp, Links, Deletes, Steps
<1>2. worker[w].phase # "idle" /\ OnlyAccount(c)
  BY DEF SignsUp, Links, Deletes
<1>3. r \in Request /\ c \in Claim /\ c <= lastClaim
  BY <1>2 DEF Numbered
<1>4. Approving(w) \/ (Deletes(w) /\ Late(w))
  BY DEF SignsUp, Links, Deletes, Approving, Approval, Late
<1>5. SagaOf(w)
  BY DEF Saga, Core
<1>6. ~Live(c) \/ account[c].link \in {NoRequest, r}
  BY <1>5 DEF SagaOf, SignsUp, Links, Deletes, Live
<1>7. ~Live(c)' \/ account'[c].link \in {NoRequest, r}
  BY DEF SignsUp, Links, Deletes, Live, InUse
<1>8. ASSUME NEW q \in Request \ {r}
      PROVE  LinkedTo(q)' = LinkedTo(q) /\ c \notin LinkedTo(q)
  BY <1>2, <1>3, <1>6, <1>7, <1>8 DEF LinkedTo, OnlyAccount, SameAccount
<1> QED
  BY <1>1, <1>2, <1>3, <1>4, <1>8
-----------------------------------------------------------------------------
(* What is kept as long as the accounts stay: everything that is said of   *)
(* accounts alone, and of workers and requests that do not change.         *)
LEMMA AccountsStay ==
  ASSUME Types, Numbered, Saga, HistoryGrows, NoAccountStep,
         lastClaim' \in {lastClaim, lastClaim + 1}
  PROVE  /\ FreshClaims'
         /\ \A c, d \in Claim : Live(c)' /\ Live(d)' /\ account'[c].link # NoRequest
                                /\ account'[c].link = account'[d].link => c = d
         /\ \A c \in Claim : Live(c)' /\ c \notin abandoned' /\ account'[c].setup
                             => account'[c].link # NoRequest
         /\ \A w \in Worker : worker'[w] = worker[w] => SagaOf(w)'
<1>1. \A c \in Claim : c \in Nat /\ lastClaim \in Nat
  BY HeldClaims
<1>2. FreshClaims'
  BY <1>1 DEF Saga, Core, FreshClaims, NoAccountStep, SameAccount
<1>3. \A c, d \in Claim : Live(c)' /\ Live(d)' /\ account'[c].link # NoRequest
                          /\ account'[c].link = account'[d].link => c = d
  BY DEF Saga, Core, OneAccount, NoAccountStep, SameAccount
<1>4. \A c \in Claim : Live(c)' /\ c \notin abandoned' /\ account'[c].setup
                       => account'[c].link # NoRequest
  BY DEF Saga, Core, LinkMeansApproval, NoAccountStep, SameAccount, HistoryGrows
<1>5. ASSUME NEW w \in Worker, worker'[w] = worker[w] PROVE SagaOf(w)'
  <2> DEFINE c == worker[w].claim
  <2>1. CASE worker[w].phase # "idle"
    <3>1. c \in Claim
      BY <2>1 DEF Numbered
    <3>2. SameAccount(c) /\ SagaOf(w)
      BY <3>1 DEF NoAccountStep, Saga, Core
    <3> QED
      BY <1>5, <3>2 DEF SagaOf, SameAccount, Live, HistoryGrows
  <2>2. CASE worker[w].phase = "idle"
    BY <1>5, <2>2 DEF SagaOf
  <2> QED
    BY <2>1, <2>2
<1> QED
  BY <1>2, <1>3, <1>4, <1>5

(* A decided request has one account at most, and none if it is not        *)
(* approved, apart from one that could not be deleted.                     *)
LEMMA DecidedLinks ==
  ASSUME Types, Saga, NEW r \in Request
  PROVE  /\ request[r].status \notin {"APPROVING", "APPROVED"} => LinkedTo(r) \subseteq abandoned
         /\ \A c, d \in LinkedTo(r) : c = d
BY DEF Saga, Core, LinkMeansApproval, OneAccount, LinkedTo

(* What the cleanup looks for holds of every account of the request.       *)
LEMMA ExpiredLinks ==
  ASSUME Types, Saga, NEW r \in Request, Expired(r)
  PROVE  Lapsed(r)
BY DecidedLinks DEF Expired, Lapsed, Rejected

(* Steps of requests nobody works on.                                      *)
LEMMA QuietCore ==
  ASSUME Types, Numbered, Saga, HistoryGrows, Quiet
  PROVE  Core'
<1>1. /\ NoRequestStep /\ NoAccountStep /\ worker' = worker /\ lastClaim' = lastClaim
      /\ batch' = batch \/ batch' = {r \in Request : Expired(r)}
  BY DEF Quiet
<1>2. \A r \in Request : /\ LinkedTo(r)' = LinkedTo(r)
                          /\ \A c \in LinkedTo(r)' : account'[c].setup => account[c].setup
  BY <1>1, LinksStay
<1>3. Exclusive'
  <2> SUFFICES ASSUME NEW w \in Worker, Approving(w)'
               PROVE  /\ Owned(worker[w].request, worker[w].claim)'
                      /\ ~request'[worker'[w].request].stale
                      /\ \A o \in Worker : worker'[o].phase # "idle"
                                           /\ worker'[o].claim = worker'[w].claim => o = w
    BY DEF Exclusive
  <2>1. Approving(w)
    BY <1>1, StaysApproving
  <2>2. worker[w].request \in Request
    BY <2>1, Approvals
  <2> QED
    BY <1>1, <2>1, <2>2 DEF Saga, Core, Exclusive, NoRequestStep, SameRequest, Owned
<1>4. OneAccount' /\ LinkMeansApproval'
  <2>1. \A c \in Claim : account[c].link \in Request \cup {NoRequest}
    BY DEF Types, AccountType
  <2> QED
    BY <1>1, <2>1, AccountsStay
       DEF Saga, Core, OneAccount, LinkMeansApproval, NoRequestStep, SameRequest, NoAccountStep,
           SameAccount, HistoryGrows
<1>5. AcknowledgedHasAccount'
  BY <1>1, <1>2 DEF Saga, Core, AcknowledgedHasAccount, NoRequestStep, SameRequest, HistoryGrows
<1>6. ASSUME NEW w \in Worker PROVE RecoveryOf(w)'
  <2>1. worker[w].phase # "idle" => worker[w].request \in Request
    BY DEF Numbered
  <2> QED
    BY <1>1, <1>2, <2>1 DEF Saga, Core, RecoveryOf, Owned, Unprovisioned, NoRequestStep, SameRequest
<1>7. BatchExpired'
  <2>1. ASSUME NEW r \in batch' PROVE Lapsed(r)'
    <3>1. r \in Request
      BY <1>1, <2>1 DEF Types
    <3>2. Lapsed(r)
      BY <1>1, <2>1, <3>1, ExpiredLinks DEF Saga, Core, BatchExpired
    <3> QED
      BY <1>1, <1>2, <3>1, <3>2, LapsedStays DEF NoRequestStep
  <2> QED
    BY <2>1 DEF BatchExpired
<1> QED
  BY <1>1, <1>3, <1>4, <1>5, <1>6, <1>7, AccountsStay DEF Core

(* A request moves, or its claim grows stale, and no approval has it.      *)
LEMMA RequestCore ==
  ASSUME Types, Numbered, Saga, HistoryGrows, ~OutlivesClaim, NEW r \in Request,
         RequestMoves(r) \/ RequestGrowsStale(r)
  PROVE  Core'
<1>1. /\ OnlyRequest(r) /\ NoAccountStep
      /\ worker' = worker /\ lastClaim' = lastClaim /\ batch' = batch
  BY DEF RequestMoves, RequestGrowsStale
<1>2. \A q \in Request : /\ LinkedTo(q)' = LinkedTo(q)
                          /\ \A c \in LinkedTo(q)' : account'[c].setup => account[c].setup
  BY <1>1, LinksStay
<1>3. request'[r].status = "APPROVING" =>
        request[r].status = "APPROVING" /\ request'[r].claim = request[r].claim
  BY DEF RequestMoves, RequestGrowsStale
<1>4. request'[r].status = "APPROVED" <=> request[r].status = "APPROVED"
  BY DEF RequestMoves, RequestGrowsStale
<1>5. request'[r].status = "APPROVING" <=> request[r].status = "APPROVING"
  BY DEF RequestMoves, RequestGrowsStale
<1>6. ASSUME NEW w \in Worker, Approving(w) PROVE worker[w].request \in Request \ {r}
  <2>1. Owned(worker[w].request, worker[w].claim) /\ worker[w].request \in Request
    BY <1>6, Approvals DEF Owned
  <2> QED
    BY <2>1 DEF RequestMoves, RequestGrowsStale, Owned
<1>7. Exclusive'
  <2> SUFFICES ASSUME NEW w \in Worker, Approving(w)'
               PROVE  /\ Owned(worker[w].request, worker[w].claim)'
                      /\ ~request'[worker'[w].request].stale
                      /\ \A o \in Worker : worker'[o].phase # "idle"
                                           /\ worker'[o].claim = worker'[w].claim => o = w
    BY DEF Exclusive
  <2>1. Approving(w)
    BY <1>1, StaysApproving
  <2>2. worker[w].request \in Request \ {r}
    BY <1>6, <2>1
  <2> QED
    BY <1>1, <2>1, <2>2 DEF Saga, Core, Exclusive, OnlyRequest, SameRequest, Owned
<1>8. OneAccount' /\ LinkMeansApproval'
  <2>1. \A c \in Claim : account[c].link \in Request \cup {NoRequest}
    BY DEF Types, AccountType
  <2>2. \A q \in Request : /\ request'[q].status = "APPROVING" =>
                                request[q].status = "APPROVING" /\ request'[q].claim = request[q].claim
                           /\ request[q].status \in {"APPROVING", "APPROVED"} =>
                                request'[q].status \in {"APPROVING", "APPROVED"}
    BY <1>1, <1>3, <1>4, <1>5 DEF OnlyRequest, SameRequest
  <2> QED
    BY <1>1, <2>1, <2>2, AccountsStay
       DEF Saga, Core, OneAccount, LinkMeansApproval, NoAccountStep, SameAccount,
           HistoryGrows
<1>9. AcknowledgedHasAccount'
  BY <1>1, <1>2, <1>4 DEF Saga, Core, AcknowledgedHasAccount, OnlyRequest, SameRequest,
                               HistoryGrows
<1>10. ASSUME NEW w \in Worker PROVE RecoveryOf(w)'
  <2>1. worker[w].phase # "idle" => worker[w].request \in Request
    BY DEF Numbered
  <2>2. worker[w].phase # "idle" /\ Owned(worker[w].request, worker[w].claim)' =>
          Owned(worker[w].request, worker[w].claim)
    BY <1>1, <1>3, <2>1 DEF Owned, OnlyRequest, SameRequest
  <2> QED
    BY <1>1, <1>2, <2>1, <2>2 DEF Saga, Core, RecoveryOf, Unprovisioned
<1>11. BatchExpired'
  <2>1. \A q \in batch : q \in Request /\ Lapsed(q)
    BY DEF Types, Saga, Core, BatchExpired
  <2>2. \A q \in batch : SameRequest(q)
    BY <1>1, <2>1 DEF OnlyRequest, RequestMoves, RequestGrowsStale, Lapsed
  <2> QED
    BY <1>1, <1>2, <2>1, <2>2, LapsedStays DEF BatchExpired
<1> QED
  BY <1>1, <1>7, <1>8, <1>9, <1>10, <1>11, AccountsStay DEF Core
-----------------------------------------------------------------------------
(* The cleanup purges what it has read: a decided request, whose account   *)
(* has been set up.                                                        *)
LEMMA PurgedCore ==
  ASSUME Types, Numbered, Saga, HistoryGrows, NEW r \in Request, Purged(r)
  PROVE  Core'
<1>1. /\ r \in batch /\ batch' = batch \ {r} /\ OnlyRequest(r)
      /\ request'[r].status = "PURGED" /\ worker' = worker /\ lastClaim' = lastClaim
  BY DEF Purged
<1>2. \A c \in Claim : /\ Live(c)' <=> Live(c)
                       /\ account'[c].setup = account[c].setup
                       /\ account'[c].status = "NONE" <=> account[c].status = "NONE"
                       /\ account'[c].link = IF account[c].link = r THEN NoRequest
                                                                  ELSE account[c].link
  BY DEF Purged
<1>3. /\ request[r].status \in {"REJECTED", "APPROVED"}
      /\ \A c \in LinkedTo(r) : ~account[c].setup \/ c \in abandoned
  <2>1. Lapsed(r)
    BY <1>1 DEF Saga, Core, BatchExpired
  <2> QED
    BY <2>1, DecidedLinks DEF Lapsed
<1>4. \A q \in Request \ {r} : LinkedTo(q)' = LinkedTo(q)
  BY <1>2 DEF LinkedTo
<1>5. \A c \in Claim : account[c].link \in Request \cup {NoRequest}
  BY DEF Types, AccountType
<1>6. Exclusive'
  <2> SUFFICES ASSUME NEW w \in Worker, Approving(w)'
               PROVE  /\ Owned(worker[w].request, worker[w].claim)'
                      /\ ~request'[worker'[w].request].stale
                      /\ \A o \in Worker : worker'[o].phase # "idle"
                                           /\ worker'[o].claim = worker'[w].claim => o = w
    BY DEF Exclusive
  <2>1. Approving(w)
    BY <1>1, StaysApproving
  <2>2. worker[w].request \in Request \ {r}
    BY <1>3, <2>1, Approvals
  <2> QED
    BY <1>1, <2>1, <2>2 DEF Saga, Core, Exclusive, OnlyRequest, SameRequest, Owned
<1>7. FreshClaims'
  BY <1>1, <1>2 DEF Saga, Core, FreshClaims
<1>8. OneAccount' /\ LinkMeansApproval'
  <2>1. \A q \in Request \ {r} : SameRequest(q)
    BY <1>1 DEF OnlyRequest
  <2>2. OneAccount'
    BY <1>2, <1>5, <2>1 DEF Saga, Core, OneAccount, SameRequest, HistoryGrows
  <2>3. LinkMeansApproval'
    BY <1>2, <1>3, <1>5, <2>1 DEF Saga, Core, LinkMeansApproval, SameRequest, LinkedTo,
                                    HistoryGrows
  <2> QED
    BY <2>2, <2>3
<1>9. AcknowledgedHasAccount'
  BY <1>1, <1>4 DEF Saga, Core, AcknowledgedHasAccount, OnlyRequest, SameRequest,
                               HistoryGrows
<1>10. ASSUME NEW w \in Worker PROVE SagaOf(w)'
  <2> DEFINE c == worker[w].claim
  <2>1. CASE worker[w].phase # "idle"
    <3>1. c \in Claim
      BY <2>1 DEF Numbered
    <3>2. SagaOf(w)
      BY DEF Saga, Core
    <3> QED
      BY <1>1, <1>2, <3>1, <3>2 DEF SagaOf, Live, HistoryGrows
  <2>2. CASE worker[w].phase = "idle"
    BY <1>1, <2>2 DEF SagaOf
  <2> QED
    BY <2>1, <2>2
<1>11. ASSUME NEW w \in Worker PROVE RecoveryOf(w)'
  <2>1. worker[w].phase # "idle" => worker[w].request \in Request
    BY DEF Numbered
  <2>2. worker[w].phase # "idle" /\ Owned(worker[w].request, worker[w].claim)' =>
          Owned(worker[w].request, worker[w].claim) /\ worker[w].request \in Request \ {r}
    BY <1>1, <2>1 DEF Owned, OnlyRequest, SameRequest
  <2> QED
    BY <1>1, <1>4, <2>2 DEF Saga, Core, RecoveryOf, Unprovisioned
<1>12. BatchExpired'
  <2>1. ASSUME NEW q \in batch' PROVE Lapsed(q)'
    <3>1. q \in Request \ {r} /\ q \in batch
      BY <1>1, <2>1 DEF Types
    <3>2. LinkedTo(q)' = LinkedTo(q) /\ LinkedTo(q) \subseteq Claim /\ SameRequest(q)
      BY <1>1, <1>4, <3>1 DEF LinkedTo, OnlyRequest
    <3>3. Lapsed(q)
      BY <3>1 DEF Saga, Core, BatchExpired
    <3> QED
      BY <1>2, <3>1, <3>2, <3>3, LapsedStays
  <2> QED
    BY <2>1 DEF BatchExpired
<1> QED
  BY <1>6, <1>7, <1>8, <1>9, <1>10, <1>11, <1>12 DEF Core

(* A claim is taken under a number no account and no worker has.           *)
LEMMA TakeCore ==
  ASSUME Types, Numbered, Saga, HistoryGrows, NEW w \in Worker, NEW r \in Request, Takes(w, r)
  PROVE  Core'
<1>1. /\ request[r].status = "PENDING" /\ request'[r].status = "APPROVING" /\ ~request'[r].stale
      /\ lastClaim' = lastClaim + 1 /\ lastClaim' \in Claim /\ request'[r].claim = lastClaim'
      /\ worker'[w].phase = "claimed" /\ worker'[w].request = r /\ worker'[w].claim = lastClaim'
      /\ OnlyRequest(r) /\ NoAccountStep /\ OnlyWorker(w) /\ batch' = batch
  BY DEF Takes
<1>2. \A q \in Request : /\ LinkedTo(q)' = LinkedTo(q)
                          /\ \A c \in LinkedTo(q)' : account'[c].setup => account[c].setup
  BY <1>1, LinksStay
<1>3. LinkedTo(r) \subseteq abandoned
  BY <1>1, DecidedLinks
<1>4. lastClaim \in Nat /\ Claim \subseteq Nat
  BY HeldClaims
<1>5. \A o \in Worker \ {w} : /\ worker'[o] = worker[o]
                              /\ worker[o].phase # "idle" => worker[o].claim # lastClaim'
  BY <1>1, <1>4 DEF OnlyWorker, Numbered
<1>6. \A o \in Worker : Approving(o) => worker[o].request \in Request \ {r}
  BY <1>1, Approvals
<1>7. Exclusive'
  <2> SUFFICES ASSUME NEW o \in Worker, Approving(o)'
               PROVE  /\ Owned(worker[o].request, worker[o].claim)'
                      /\ ~request'[worker'[o].request].stale
                      /\ \A v \in Worker : worker'[v].phase # "idle"
                                           /\ worker'[v].claim = worker'[o].claim => v = o
    BY DEF Exclusive
  <2>1. CASE o = w
    BY <1>1, <1>5, <2>1 DEF Owned
  <2>2. CASE o # w
    <3>1. Approving(o) /\ worker'[o] = worker[o]
      BY <1>5, <2>2, StaysApproving
    <3>2. worker[o].request \in Request \ {r} /\ worker[o].claim # lastClaim'
      BY <1>5, <1>6, <2>2, <3>1 DEF Approving, Approval
    <3> QED
      BY <1>1, <1>5, <2>2, <3>1, <3>2 DEF Saga, Core, Exclusive, OnlyRequest, SameRequest, Owned
  <2> QED
    BY <2>1, <2>2
<1>8. OneAccount' /\ LinkMeansApproval'
  <2>1. \A c \in Claim : account[c].link \in Request \cup {NoRequest}
    BY DEF Types, AccountType
  <2>2. \A c \in Claim : Live(c) /\ account[c].link = r => c \in abandoned
    BY <1>3 DEF LinkedTo
  <2> QED
    BY <1>1, <2>1, <2>2, AccountsStay
       DEF Saga, Core, OneAccount, LinkMeansApproval, NoAccountStep, SameAccount, OnlyRequest,
           SameRequest, HistoryGrows
<1>9. AcknowledgedHasAccount'
  BY <1>1, <1>2 DEF Saga, Core, AcknowledgedHasAccount, OnlyRequest, SameRequest,
                               HistoryGrows
<1>10. SagaOf(w)' /\ RecoveryOf(w)'
  <2>1. account'[lastClaim'].status = "NONE"
    <3>1. ~(lastClaim + 1 <= lastClaim)
      BY <1>4
    <3>2. account[lastClaim'].status = "NONE"
      BY <1>1, <3>1 DEF Saga, Core, FreshClaims
    <3> QED
      BY <1>1, <3>2 DEF NoAccountStep, SameAccount
  <2> QED
    BY <1>1, <2>1 DEF SagaOf, RecoveryOf
<1>11. ASSUME NEW o \in Worker \ {w} PROVE RecoveryOf(o)'
  <2>1. worker[o].phase # "idle" => worker[o].request \in Request
    BY DEF Numbered
  <2>2. worker[o].phase # "idle" /\ Owned(worker[o].request, worker[o].claim)' =>
          Owned(worker[o].request, worker[o].claim)
    BY <1>1, <1>5, <2>1 DEF Owned, OnlyRequest, SameRequest
  <2> QED
    BY <1>2, <1>5, <2>1, <2>2 DEF Saga, Core, RecoveryOf, Unprovisioned
<1>12. BatchExpired'
  <2>1. \A q \in batch : q \in Request /\ Lapsed(q)
    BY DEF Types, Saga, Core, BatchExpired
  <2>2. \A q \in batch : SameRequest(q)
    BY <1>1, <2>1 DEF OnlyRequest, Lapsed
  <2> QED
    BY <1>1, <1>2, <2>1, <2>2, LapsedStays DEF BatchExpired
<1> QED
  BY <1>1, <1>5, <1>7, <1>8, <1>9, <1>10, <1>11, <1>12, AccountsStay DEF Core
-----------------------------------------------------------------------------
(* A worker goes on, or stops, without a write: what it goes on with is    *)
(* what it has found.                                                      *)
LEMMA WorkerCore ==
  ASSUME Types, Numbered, Saga, HistoryGrows, NEW w \in Worker,
         NoRequestStep, NoAccountStep, OnlyWorker(w), lastClaim' = lastClaim, batch' = batch,
         \/ worker'[w].phase = "idle"
         \/ \E r \in Request : Reads(w, r)
         \/ \E phase \in Phase : Proceeds(w, phase)
  PROVE  Core'
<1>1. \A q \in Request : /\ LinkedTo(q)' = LinkedTo(q) /\ SameRequest(q)
                          /\ \A c \in LinkedTo(q)' : account'[c].setup => account[c].setup
  BY LinksStay DEF NoRequestStep
<1>2. \A c \in Claim : account[c].link \in Request \cup {NoRequest}
  BY DEF Types, AccountType
<1>3. /\ Approving(w)' => /\ Approving(w) /\ worker'[w].request = worker[w].request
                          /\ worker'[w].claim = worker[w].claim
      /\ worker'[w].phase = "idle" \/ \A o \in Worker \ {w} :
           Approving(o) => worker'[w].claim # worker[o].claim
      /\ SagaOf(w)' /\ RecoveryOf(w)'
  <2>1. CASE worker'[w].phase = "idle"
    BY <2>1 DEF Approving, Approval, SagaOf, RecoveryOf
  <2>2. ASSUME NEW r \in Request, Reads(w, r)
        PROVE  <1>3!1 /\ <1>3!2 /\ <1>3!3
    <3>1. /\ request[r].stale /\ worker'[w].request = r /\ worker'[w].claim = request[r].claim
          /\ worker'[w].phase \in {"restoring", "recovering"}
          /\ request[r].claim # None
      BY <2>2, HeldClaims DEF Reads
    <3>2. ASSUME NEW o \in Worker, Approving(o) PROVE worker[o].claim # request[r].claim
      <4>1. /\ worker[o].request \in Request /\ ~request[worker[o].request].stale
            /\ request[worker[o].request].claim = worker[o].claim
        BY <3>2, Approvals
      <4> QED
        BY <3>1, <4>1 DEF Numbered
    <3>3. RecoveryOf(w)'
      BY <1>1, <2>2, <3>1 DEF Reads, RecoveryOf, Unprovisioned
    <3> QED
      BY <3>1, <3>2, <3>3 DEF Approving, Approval, SagaOf
  <2>3. ASSUME NEW phase \in Phase, Proceeds(w, phase)
        PROVE  <1>3!1 /\ <1>3!2 /\ <1>3!3
    <3>1. /\ worker'[w].phase = phase /\ worker'[w].request = worker[w].request
          /\ worker'[w].claim = worker[w].claim
      BY <2>3, StepsFields DEF Proceeds, Steps
    <3>2. phase \in Approval => Approving(w)
      BY <2>3 DEF Proceeds, Approving, Approval, Late
    <3>3. worker[w].phase # "idle" /\ phase \notin {"restoring", "recovering"}
      BY <2>3 DEF Proceeds
    <3>4. \A o \in Worker \ {w} : Approving(o) => worker[w].claim # worker[o].claim
      BY <3>3, Approvals
    <3>5. SagaOf(w)'
      <4>1. CASE Approving(w)
        <5>1. worker[w].claim \in Claim /\ SagaOf(w)
          BY <4>1, Approvals DEF Saga, Core
        <5>2. SameAccount(worker[w].claim)
          BY <5>1 DEF NoAccountStep
        <5>3. worker[w].phase \in {"claimed", "checked", "signedUp", "linked", "undoing"}
          BY <2>3, <4>1 DEF Proceeds, Approving, Approval
        <5>4. CASE worker[w].phase \in {"claimed", "checked"}
          <6>1. account'[worker[w].claim].status = "NONE" /\ ~Live(worker[w].claim)
                /\ phase \in {"checked", "unavailable", "withdrawing"}
            BY <2>3, <5>1, <5>2, <5>4 DEF Proceeds, SagaOf, SameAccount, Live
          <6> QED
            BY <3>1, <5>2, <6>1 DEF SagaOf, SameAccount, Live
        <5>5. CASE worker[w].phase \in {"signedUp", "linked"}
          <6>1. /\ phase \in {"undoing", "compensating"}
                /\ account'[worker[w].claim].link \in {NoRequest, worker[w].request}
            BY <2>3, <5>1, <5>2, <5>5 DEF Proceeds, SagaOf, SameAccount
          <6> QED
            BY <3>1, <6>1 DEF SagaOf
        <5>6. CASE worker[w].phase = "undoing"
          <6>1. phase = "withdrawing" /\ worker[w].claim \in abandoned'
            BY <2>3, <5>6 DEF Proceeds
          <6> QED
            BY <3>1, <6>1 DEF SagaOf
        <5> QED
          BY <5>3, <5>4, <5>5, <5>6
      <4>2. CASE ~Approving(w)
        BY <3>1, <3>2, <4>2 DEF SagaOf, Approval
      <4> QED
        BY <4>1, <4>2
    <3>6. RecoveryOf(w)'
      BY <3>1, <3>3 DEF RecoveryOf
    <3> QED
      BY <3>1, <3>2, <3>4, <3>5, <3>6 DEF Approving
  <2> QED
    BY <2>1, <2>2, <2>3
<1>4. \A o \in Worker \ {w} : worker'[o] = worker[o]
  BY DEF OnlyWorker
<1>5. Exclusive'
  <2> SUFFICES ASSUME NEW o \in Worker, Approving(o)'
               PROVE  /\ Owned(worker[o].request, worker[o].claim)'
                      /\ ~request'[worker'[o].request].stale
                      /\ \A v \in Worker : worker'[v].phase # "idle"
                                           /\ worker'[v].claim = worker'[o].claim => v = o
    BY DEF Exclusive
  <2>1. /\ Approving(o) /\ worker'[o].request = worker[o].request
        /\ worker'[o].claim = worker[o].claim
    BY <1>3, <1>4, StaysApproving
  <2>2. /\ worker[o].request \in Request /\ ~request[worker[o].request].stale
        /\ request[worker[o].request].status = "APPROVING"
        /\ request[worker[o].request].claim = worker[o].claim
        /\ \A v \in Worker : worker[v].phase # "idle" /\ worker[v].claim = worker[o].claim => v = o
    BY <2>1, Approvals
  <2>3. Owned(worker[o].request, worker[o].claim)' /\ ~request'[worker'[o].request].stale
    BY <1>1, <2>1, <2>2 DEF Owned, SameRequest
  <2>4. ASSUME NEW v \in Worker, worker'[v].phase # "idle", worker'[v].claim = worker'[o].claim
        PROVE  v = o
    BY <1>3, <1>4, <2>1, <2>2, <2>4
  <2> QED
    BY <2>3, <2>4
<1>6. OneAccount' /\ LinkMeansApproval'
  BY <1>1, <1>2, AccountsStay
     DEF Saga, Core, OneAccount, LinkMeansApproval, SameRequest, NoAccountStep, SameAccount,
         HistoryGrows
<1>7. AcknowledgedHasAccount'
  BY <1>1 DEF Saga, Core, AcknowledgedHasAccount, SameRequest, HistoryGrows
<1>8. ASSUME NEW o \in Worker \ {w} PROVE RecoveryOf(o)'
  <2>1. worker[o].phase # "idle" => worker[o].request \in Request
    BY DEF Numbered
  <2> QED
    BY <1>1, <1>4, <2>1 DEF Saga, Core, RecoveryOf, Owned, Unprovisioned, SameRequest
<1>9. BatchExpired'
  <2>1. \A q \in batch : q \in Request /\ Lapsed(q)
    BY DEF Types, Saga, Core, BatchExpired
  <2> QED
    BY <1>1, <2>1, LapsedStays DEF BatchExpired
<1> QED
  BY <1>3, <1>4, <1>5, <1>6, <1>7, <1>8, <1>9, AccountsStay DEF Core

(* Whoever owns a claim resolves it: it is approved with the account that  *)
(* was found or made, and put back or rejected without one.  An approval   *)
(* that is not told so becomes late.                                       *)
LEMMA ResolvedCore ==
  ASSUME Types, Numbered, Saga, HistoryGrows, NEW w \in Worker, Resolves(w)
  PROVE  Core'
<1> DEFINE r == worker[w].request
           c == worker[w].claim
<1>1. /\ worker[w].phase \in {"restoring", "recovering", "linked", "withdrawing", "unavailable"}
      /\ request[r].status = "APPROVING" /\ request[r].claim = c
      /\ request'[r].claim = None
      /\ \/ worker'[w].phase = "idle"
         \/ worker'[w].phase = "claiming" /\ worker'[w].claim = c
         \/ /\ worker[w].phase = "linked" /\ worker'[w].phase = "compensating"
            /\ worker'[w].request = r /\ worker'[w].claim = c /\ r \in unacknowledged'
      /\ OnlyRequest(r) /\ NoAccountStep /\ OnlyWorker(w) /\ lastClaim' = lastClaim /\ batch' = batch
  <2>1. "claiming" \in Phase /\ "compensating" \in Phase
    BY DEF Phase
  <2> QED
    BY <2>1, StepsFields DEF Resolves, Owned
<1>2. r \in Request /\ c \in Claim
  BY <1>1, AtWork
<1>3. \/ request'[r].status \in {"PENDING", "REJECTED"} /\ LinkedTo(r) \subseteq abandoned
      \/ request'[r].status = "APPROVED" /\ LinkedTo(r) # {}
  <2>0. SagaOf(w) /\ RecoveryOf(w) /\ Owned(r, c)
    BY <1>1 DEF Saga, Core, Owned
  <2>1. CASE worker[w].phase = "restoring"
    BY <2>0, <2>1 DEF Resolves, Verdicts, RecoveryOf, Unprovisioned
  <2>2. CASE worker[w].phase = "recovering"
    BY <2>0, <2>2 DEF Resolves, Verdicts, RecoveryOf
  <2>3. CASE worker[w].phase = "linked"
    BY <1>2, <2>3 DEF Resolves, Verdicts, Linked, LinkedTo
  <2>4. CASE worker[w].phase \in {"withdrawing", "unavailable"}
    <3>1. LinkedTo(r) \subseteq {c} \cup abandoned
      <4>1. Approving(w)
        BY <1>1, <2>4, NotLate DEF Approval
      <4> QED
        BY <4>1, Approvals
    <3>2. c \notin LinkedTo(r) \/ c \in abandoned
      BY <1>2, <2>0, <2>4 DEF SagaOf, LinkedTo, Live
    <3>3. request'[r].status \in {"PENDING", "REJECTED"}
      BY <2>4 DEF Resolves, Verdicts
    <3> QED
      BY <3>1, <3>2, <3>3
  <2> QED
    BY <1>1, <2>1, <2>2, <2>3, <2>4
<1> HIDE DEF r, c
<1>4. \A q \in Request : /\ LinkedTo(q)' = LinkedTo(q)
                          /\ \A d \in LinkedTo(q)' : account'[d].setup => account[d].setup
  BY <1>1, LinksStay
<1>5. \A q \in Request \ {r} : SameRequest(q)
  BY <1>1 DEF OnlyRequest
<1>6. \A o \in Worker \ {w} : worker'[o] = worker[o]
  BY <1>1 DEF OnlyWorker
<1>7. ASSUME NEW o \in Worker \ {w}, Approving(o)
      PROVE  worker[o].request \in Request \ {r} /\ worker[o].claim # c
  <2>1. /\ worker[o].request \in Request /\ request[worker[o].request].claim = worker[o].claim
        /\ \A v \in Worker : worker[v].phase # "idle" /\ worker[v].claim = worker[o].claim => v = o
    BY <1>7, Approvals
  <2>2. worker[o].claim # c
    BY <1>1, <2>1 DEF c
  <2> QED
    BY <1>1, <2>1, <2>2
<1>8. Exclusive'
  <2> SUFFICES ASSUME NEW o \in Worker, Approving(o)'
               PROVE  /\ Owned(worker[o].request, worker[o].claim)'
                      /\ ~request'[worker'[o].request].stale
                      /\ \A v \in Worker : worker'[v].phase # "idle"
                                           /\ worker'[v].claim = worker'[o].claim => v = o
    BY DEF Exclusive
  <2>1. o # w
    BY <1>1 DEF Approving, Approval, Late
  <2>2. Approving(o) /\ worker'[o] = worker[o]
    BY <1>6, <2>1, StaysApproving
  <2>3. worker[o].request \in Request \ {r} /\ worker[o].claim # c
    BY <1>7, <2>1, <2>2
  <2>4. /\ Owned(worker[o].request, worker[o].claim) /\ ~request[worker[o].request].stale
        /\ \A v \in Worker : worker[v].phase # "idle" /\ worker[v].claim = worker[o].claim => v = o
    BY <2>2 DEF Saga, Core, Exclusive
  <2>5. Owned(worker[o].request, worker[o].claim)' /\ ~request'[worker'[o].request].stale
    BY <1>5, <2>2, <2>3, <2>4 DEF Owned, SameRequest
  <2>6. ASSUME NEW v \in Worker, worker'[v].phase # "idle", worker'[v].claim = worker'[o].claim
        PROVE  v = o
    BY <1>1, <1>6, <2>2, <2>3, <2>4, <2>6
  <2> QED
    BY <2>5, <2>6
<1>9. OneAccount' /\ LinkMeansApproval'
  <2>1. \A d \in Claim : account[d].link \in Request \cup {NoRequest}
    BY DEF Types, AccountType
  <2>2. \A d \in Claim : Live(d) /\ account[d].link = r
                        => request'[r].status = "APPROVED" \/ d \in abandoned
    BY <1>3 DEF LinkedTo
  <2> QED
    BY <1>1, <1>5, <2>1, <2>2, AccountsStay
       DEF Saga, Core, OneAccount, LinkMeansApproval, NoAccountStep, SameAccount, SameRequest,
           HistoryGrows
<1>10. AcknowledgedHasAccount'
  BY <1>3, <1>4, <1>5 DEF Saga, Core, AcknowledgedHasAccount, SameRequest, HistoryGrows
<1>11. SagaOf(w)' /\ RecoveryOf(w)'
  <2>1. SagaOf(w) /\ SameAccount(c)
    BY <1>1, <1>2 DEF Saga, Core, NoAccountStep
  <2>2. worker[w].phase = "linked" => account'[c].link \in {NoRequest, r}
    BY <2>1 DEF SagaOf, SameAccount, r, c
  <2> QED
    BY <1>1, <2>2 DEF SagaOf, RecoveryOf
<1>12. ASSUME NEW o \in Worker \ {w} PROVE RecoveryOf(o)'
  <2>1. worker[o].phase # "idle" => worker[o].request \in Request
    BY DEF Numbered
  <2>2. worker[o].phase # "idle" /\ Owned(worker[o].request, worker[o].claim)' =>
          Owned(worker[o].request, worker[o].claim)
    BY <1>3, <1>5, <1>6, <2>1 DEF Owned, SameRequest
  <2> QED
    BY <1>4, <1>6, <2>1, <2>2 DEF Saga, Core, RecoveryOf, Unprovisioned
<1>13. BatchExpired'
  <2>1. \A q \in batch : q \in Request /\ Lapsed(q)
    BY DEF Types, Saga, Core, BatchExpired
  <2>2. \A q \in batch : SameRequest(q)
    BY <1>1, <1>5, <2>1 DEF Lapsed
  <2> QED
    BY <1>1, <1>4, <2>1, <2>2, LapsedStays DEF BatchExpired
<1> QED
  BY <1>1, <1>6, <1>8, <1>9, <1>10, <1>11, <1>12, <1>13, AccountsStay DEF Core
-----------------------------------------------------------------------------
(* An approval signs its account up, links it, deletes it again.  One that *)
(* is late deletes the account of a request that has been decided.         *)
LEMMA OwnAccountCore ==
  ASSUME Types, Numbered, Saga, HistoryGrows, NEW w \in Worker,
         SignsUp(w) \/ Links(w) \/ Deletes(w)
  PROVE  Core'
<1>0. PICK r, c : r = worker[w].request /\ c = worker[w].claim
  OBVIOUS
<1>1. /\ r \in Request /\ c \in Claim /\ c <= lastClaim
      /\ worker[w].phase # "idle"
      /\ worker'[w].phase = "idle" \/ (worker'[w].request = r /\ worker'[w].claim = c)
      /\ OnlyWorker(w) /\ NoRequestStep /\ lastClaim' = lastClaim /\ batch' = batch
      /\ OnlyAccount(c)
      /\ \A q \in Request \ {r} : LinkedTo(q)' = LinkedTo(q) /\ c \notin LinkedTo(q)
  BY <1>0, OwnAccount
<1>2. /\ \/ request[r].status = "APPROVING" /\ request[r].claim = c /\ ~request[r].stale
         \/ /\ Deletes(w) /\ Late(w) /\ r \in unacknowledged
            /\ request[r].status \in {"APPROVED", "PURGED"}
      /\ \A o \in Worker : worker[o].phase # "idle" /\ worker[o].claim = c => o = w
  BY <1>0, OwnAccount, Approvals, LateOnes
<1>3. SagaOf(w)' /\ RecoveryOf(w)'
  <2>1. CASE SignsUp(w)
    <3>1. /\ worker'[w].phase \in {"signedUp", "withdrawing"}
          /\ account'[c].status \in InUse /\ account'[c].link = NoRequest
      BY <1>0, <2>1, StepsFields DEF SignsUp, Steps, Phase
    <3> QED
      BY <1>1, <3>1 DEF SagaOf, RecoveryOf, InUse
  <2>2. CASE Links(w)
    <3>1. worker'[w].phase \in {"linked", "undoing"} /\ account'[c].link = r
      BY <1>0, <2>2, StepsFields DEF Links, Steps, Phase
    <3> QED
      BY <1>1, <3>1 DEF SagaOf, RecoveryOf
  <2>3. CASE Deletes(w)
    <3>1. worker'[w].phase \in {"withdrawing", "idle"} /\ account'[c].status \notin InUse
      BY <1>0, <2>3, StepsFields DEF Deletes, Steps, Phase
    <3> QED
      BY <1>1, <3>1 DEF SagaOf, RecoveryOf, InUse, Live
  <2> QED
    BY <2>1, <2>2, <2>3
<1>4. Live(c)' => /\ account'[c].link \in {NoRequest, r}
                  /\ account'[c].setup => account'[c].link = r
                  /\ request[r].status = "APPROVING" /\ request[r].claim = c
                  /\ account'[c].link = r => Unprovisioned(r)
  <2>1. CASE SignsUp(w)
    <3>1. request[r].status = "APPROVING" /\ request[r].claim = c
      BY <1>2, <2>1 DEF SignsUp, Deletes
    <3> QED
      BY <1>0, <1>1, <2>1, <3>1 DEF SignsUp
  <2>2. CASE Links(w)
    <3>1. request[r].status = "APPROVING" /\ request[r].claim = c
      BY <1>2, <2>2 DEF Links, Deletes
    <3> QED
      BY <1>0, <2>2, <3>1 DEF Links
  <2>3. CASE Deletes(w)
    BY <1>0, <2>3 DEF Deletes, Live, InUse
  <2> QED
    BY <2>1, <2>2, <2>3
<1>5. \A q \in Request : SameRequest(q)
  BY <1>1 DEF NoRequestStep
<1>6. \A d \in Claim \ {c} : SameAccount(d)
  BY <1>1 DEF OnlyAccount
<1>7. ASSUME NEW o \in Worker \ {w}
      PROVE  /\ worker'[o] = worker[o]
             /\ worker[o].phase # "idle" => worker[o].request \in Request
                                            /\ worker[o].claim \in Claim \ {c}
  BY <1>1, <1>2 DEF OnlyWorker, Numbered
<1>8. Exclusive'
  <2> SUFFICES ASSUME NEW o \in Worker, Approving(o)'
               PROVE  /\ Owned(worker[o].request, worker[o].claim)'
                      /\ ~request'[worker'[o].request].stale
                      /\ \A v \in Worker : worker'[v].phase # "idle"
                                           /\ worker'[v].claim = worker'[o].claim => v = o
    BY DEF Exclusive
  <2>1. /\ Approving(o) /\ worker'[o].request = worker[o].request
        /\ worker'[o].claim = worker[o].claim
    <3>1. CASE o = w
      <4>1. worker'[w].request = r /\ worker'[w].claim = c
        BY <1>1, <3>1 DEF Approving, Approval
      <4>2. ASSUME Deletes(w), Late(w) PROVE FALSE
        <5>1. worker'[w].phase = "withdrawing"
          BY <1>0, <3>1, <4>2, StepsFields DEF Deletes, Steps, Phase, Approving, Approval
        <5> QED
          BY <1>0, <3>1, <4>1, <4>2, <5>1 DEF Approving, Late, HistoryGrows
      <4> QED
        BY <1>0, <3>1, <4>1, <4>2, OwnAccount
    <3>2. CASE o # w
      BY <1>7, <3>2, StaysApproving
    <3> QED
      BY <3>1, <3>2
  <2>2. /\ worker[o].request \in Request /\ ~request[worker[o].request].stale
        /\ request[worker[o].request].status = "APPROVING"
        /\ request[worker[o].request].claim = worker[o].claim
        /\ \A v \in Worker : worker[v].phase # "idle" /\ worker[v].claim = worker[o].claim => v = o
    BY <2>1, Approvals
  <2>3. Owned(worker[o].request, worker[o].claim)' /\ ~request'[worker'[o].request].stale
    BY <1>5, <2>1, <2>2 DEF Owned, SameRequest
  <2>4. ASSUME NEW v \in Worker, worker'[v].phase # "idle", worker'[v].claim = worker'[o].claim
        PROVE  v = o
    <3>1. worker[v].phase # "idle" /\ worker'[v].claim = worker[v].claim
      BY <1>0, <1>1, <1>7, <2>4
    <3> QED
      BY <2>1, <2>2, <2>4, <3>1
  <2> QED
    BY <2>3, <2>4
<1>9. FreshClaims'
  BY <1>1, <1>6 DEF Saga, Core, FreshClaims, SameAccount
<1>10. \A d \in Claim : account[d].link \in Request \cup {NoRequest}
  BY DEF Types, AccountType
<1>11. Live(c)' /\ account'[c].link = r => \A d \in Claim : Live(d) => account[d].link # r
  BY <1>4 DEF LinkedTo, Unprovisioned
<1>12. OneAccount'
  <2>1. ASSUME NEW d \in Claim, NEW e \in Claim, Live(d)', Live(e)',
               account'[d].link # NoRequest, account'[d].link = account'[e].link
        PROVE  d = e
    BY <1>1, <1>4, <1>6, <1>11, <2>1 DEF Saga, Core, OneAccount, SameAccount
  <2>2. ASSUME NEW d \in Claim, Live(d)', d \notin abandoned', account'[d].link # NoRequest,
               request'[account'[d].link].status = "APPROVING"
        PROVE  request'[account'[d].link].claim = d
    <3>1. CASE d = c
      BY <1>1, <1>4, <1>5, <2>2, <3>1 DEF SameRequest
    <3>2. CASE d # c
      <4>1. Live(d) /\ account'[d].link = account[d].link /\ account[d].link \in Request
        BY <1>6, <1>10, <2>2, <3>2 DEF SameAccount
      <4> QED
        BY <1>5, <2>2, <4>1 DEF Saga, Core, OneAccount, SameRequest, HistoryGrows
    <3> QED
      BY <3>1, <3>2
  <2> QED
    BY <2>1, <2>2 DEF OneAccount
<1>13. LinkMeansApproval'
  <2>1. ASSUME NEW d \in Claim, Live(d)', d \notin abandoned'
        PROVE  /\ account'[d].link # NoRequest =>
                    request'[account'[d].link].status \in {"APPROVING", "APPROVED"}
               /\ account'[d].setup => account'[d].link # NoRequest
    <3>1. CASE d = c
      BY <1>1, <1>4, <1>5, <2>1, <3>1 DEF SameRequest
    <3>2. CASE d # c
      BY <1>5, <1>6, <1>10, <2>1, <3>2
         DEF SameAccount, SameRequest, Saga, Core, LinkMeansApproval, HistoryGrows
    <3> QED
      BY <3>1, <3>2
  <2> QED
    BY <2>1 DEF LinkMeansApproval
<1>14. AcknowledgedHasAccount'
  BY <1>1, <1>2, <1>5 DEF Saga, Core, AcknowledgedHasAccount, SameRequest, HistoryGrows
<1>15. ASSUME NEW o \in Worker \ {w} PROVE SagaOf(o)' /\ RecoveryOf(o)'
  <2>1. SagaOf(o) /\ RecoveryOf(o) /\ worker'[o] = worker[o]
    BY <1>7 DEF Saga, Core
  <2>2. CASE worker[o].phase = "idle"
    BY <2>1, <2>2 DEF SagaOf, RecoveryOf
  <2>3. CASE worker[o].phase # "idle"
    <3>1. worker[o].request \in Request /\ worker[o].claim \in Claim \ {c}
      BY <1>7, <2>3
    <3>2. SameAccount(worker[o].claim)
      BY <1>6, <3>1
    <3>3. SagaOf(o)'
      BY <2>1, <3>2 DEF SagaOf, SameAccount, Live, HistoryGrows
    <3>4. Owned(worker[o].request, worker[o].claim)' =>
            worker[o].request \in Request \ {r} /\ Owned(worker[o].request, worker[o].claim)
      BY <1>2, <1>5, <2>1, <3>1 DEF Owned, SameRequest
    <3>5. worker[o].request \in Request \ {r} =>
            LinkedTo(worker[o].request)' = LinkedTo(worker[o].request)
      BY <1>1, <2>1
    <3>6. RecoveryOf(o)'
      BY <2>1, <3>4, <3>5 DEF RecoveryOf, Unprovisioned
    <3> QED
      BY <3>3, <3>6
  <2> QED
    BY <2>2, <2>3
<1>16. BatchExpired'
  <2>1. ASSUME NEW q \in batch' PROVE Lapsed(q)'
    <3>1. q \in Request /\ q \in batch /\ Lapsed(q)
      BY <1>1, <2>1 DEF Types, Saga, Core, BatchExpired
    <3>2. LinkedTo(q)' \subseteq LinkedTo(q) \ {c}
      <4>1. CASE q # r
        BY <1>1, <3>1, <4>1
      <4>2. CASE q = r
        <5>1. Deletes(w)
          BY <1>2, <3>1, <4>2 DEF Lapsed
        <5> QED
          BY <1>0, <1>6, <5>1 DEF Deletes, LinkedTo, Live, InUse, SameAccount
      <4> QED
        BY <4>1, <4>2
    <3>3. \A d \in LinkedTo(q)' : account'[d].setup => account[d].setup
      BY <1>6, <3>2 DEF LinkedTo, SameAccount
    <3> QED
      BY <1>5, <3>1, <3>2, <3>3, LapsedStays
  <2> QED
    BY <2>1 DEF BatchExpired
<1> QED
  BY <1>3, <1>8, <1>9, <1>12, <1>13, <1>14, <1>15, <1>16 DEF Core

-----------------------------------------------------------------------------
(* What was not acknowledged                                               *)

(* The claims of requests and workers come from nowhere else.              *)
LEMMA RequestClaims ==
  ASSUME Types, Shape, NEW r \in Request
  PROVE  request'[r].claim \in {request[r].claim, None, lastClaim + 1}
<1>1. CASE Quiet
  BY <1>1 DEF Quiet, NoRequestStep, SameRequest
<1>2. ASSUME NEW o \in Request, RequestMoves(o) \/ RequestGrowsStale(o) \/ Purged(o)
      PROVE  request'[r].claim \in {request[r].claim, None, lastClaim + 1}
  BY <1>2 DEF RequestMoves, RequestGrowsStale, Purged, OnlyRequest, SameRequest
<1>3. ASSUME NEW w \in Worker, NEW o \in Request, Takes(w, o) \/ Reads(w, o)
      PROVE  request'[r].claim \in {request[r].claim, None, lastClaim + 1}
  BY <1>3 DEF Takes, Reads, OnlyRequest, NoRequestStep, SameRequest
<1>4. ASSUME NEW w \in Worker, Resolves(w)
      PROVE  request'[r].claim \in {request[r].claim, None, lastClaim + 1}
  BY <1>4 DEF Resolves, OnlyRequest, SameRequest
<1>5. ASSUME NEW w \in Worker,
             \/ Stops(w) \/ SignsUp(w) \/ Links(w) \/ Deletes(w)
             \/ \E phase \in Phase : Proceeds(w, phase)
      PROVE  request'[r].claim \in {request[r].claim, None, lastClaim + 1}
  BY <1>5 DEF Stops, SignsUp, Links, Deletes, Proceeds, Steps, NoRequestStep, SameRequest
<1> QED
  BY <1>1, <1>2, <1>3, <1>4, <1>5 DEF Shape

(* A worker keeps its claim, takes the next one, or reads one.             *)
LEMMA WorkerClaims ==
  ASSUME Types, Shape, NEW o \in Worker
  PROVE  \/ worker'[o].phase = "idle" \/ worker'[o].claim = lastClaim + 1
         \/ worker[o].phase # "idle" /\ worker'[o].claim = worker[o].claim
         \/ \E r \in Request : worker'[o].claim = request[r].claim
<1> DEFINE Kept == \/ worker'[o].phase = "idle" \/ worker'[o].claim = lastClaim + 1
                   \/ worker[o].phase # "idle" /\ worker'[o].claim = worker[o].claim
                   \/ \E r \in Request : worker'[o].claim = request[r].claim
<1>1. worker'[o] = worker[o] => Kept
  OBVIOUS
<1>2. CASE Quiet \/ \E r \in Request : RequestMoves(r) \/ RequestGrowsStale(r) \/ Purged(r)
  BY <1>1, <1>2 DEF Quiet, RequestMoves, RequestGrowsStale, Purged
<1>3. ASSUME NEW w \in Worker, NEW r \in Request, Takes(w, r) \/ Reads(w, r) PROVE Kept
  BY <1>1, <1>3 DEF Takes, Reads, OnlyWorker
<1>4. ASSUME NEW phase \in Phase, worker[o].phase # "idle",
             worker'[o] = [worker[o] EXCEPT !.phase = phase]
      PROVE  Kept
  BY <1>4, StepsFields
<1>5. ASSUME NEW w \in Worker, Stops(w) \/ Resolves(w) PROVE Kept
  <2>1. "claiming" \in Phase /\ "compensating" \in Phase
    BY DEF Phase
  <2> QED
    BY <1>1, <1>4, <1>5, <2>1 DEF Stops, Resolves, OnlyWorker
<1>6. ASSUME NEW w \in Worker, SignsUp(w) \/ Links(w) \/ Deletes(w) PROVE Kept
  <2>1. {"signedUp", "linked", "undoing", "withdrawing"} \subseteq Phase
    BY DEF Phase
  <2> QED
    BY <1>1, <1>4, <1>6, <2>1 DEF SignsUp, Links, Deletes, Steps, OnlyWorker
<1>7. ASSUME NEW w \in Worker, NEW phase \in Phase, Proceeds(w, phase) PROVE Kept
  BY <1>1, <1>4, <1>7 DEF Proceeds, Steps, OnlyWorker
<1> QED
  BY <1>2, <1>3, <1>5, <1>6, <1>7 DEF Shape

(* An unacknowledged approval is a decision like any other.                *)
LEMMA UnheardStays ==
  ASSUME Types, Numbered, Saga, Shape, Heard
  PROVE  UnheardDecided'
<1> SUFFICES ASSUME NEW r \in Request, r \in unacknowledged'
             PROVE  request'[r].status \in {"APPROVED", "PURGED"}
  BY DEF UnheardDecided
<1>1. CASE r \in unacknowledged
  <2>1. request[r].status \in {"APPROVED", "PURGED"}
    BY <1>1 DEF Saga, UnheardDecided
  <2>2. CASE request[r].status = "APPROVED"
    BY <2>2, DecidedStays
  <2>3. CASE request[r].status = "PURGED"
    BY <2>3, PurgedStays
  <2> QED
    BY <2>1, <2>2, <2>3
<1>2. CASE r \notin unacknowledged
  <2>1. PICK w \in Worker : Resolves(w) /\ worker[w].phase = "linked" /\ r = worker[w].request
    BY <1>2 DEF Heard
  <2> QED
    BY <2>1 DEF Resolves, Verdicts
<1> QED
  BY <1>1, <1>2

(* An approval becomes late by the finalization it is not told of, and was *)
(* alone with its claim until then.                                        *)
LEMMA BecomesLate ==
  ASSUME Types, Numbered, Saga, Shape, Heard, UnheardDecided', NEW w \in Worker, Late(w)'
  PROVE  /\ worker[w].phase # "idle"
         /\ worker'[w].request = worker[w].request /\ worker'[w].claim = worker[w].claim
         /\ Late(w) \/ (Approving(w) /\ Resolves(w))
<1>1. CASE worker'[w] = worker[w]
  <2>1. CASE worker[w].request \in unacknowledged
    BY <1>1, <2>1 DEF Late
  <2>2. CASE worker[w].request \notin unacknowledged
    <3>1. PICK v \in Worker : /\ Resolves(v) /\ worker[v].phase = "linked"
                              /\ worker[v].request = worker[w].request
      BY <1>1, <2>2 DEF Heard, Late
    <3>2. Approving(w)
      BY <1>1, <2>2 DEF Late, Approving, Approval
    <3>3. request[worker[w].request].claim = worker[v].claim
      BY <3>1 DEF Resolves, Owned
    <3>4. v = w
      BY <3>1, <3>2, <3>3, Approvals
    <3> QED
      BY <1>1, <3>1, <3>4 DEF Late
  <2> QED
    BY <2>1, <2>2
<1>2. CASE worker'[w] # worker[w]
  <2>1. /\ worker'[w].phase \in {"compensating", "withdrawing"}
        /\ worker'[w].request \in Request =>
             request'[worker'[w].request].status \in {"APPROVED", "PURGED"}
    BY DEF Late, UnheardDecided
  <2>2. \/ \E phase \in Phase : Proceeds(w, phase)
        \/ SignsUp(w) \/ Links(w) \/ Deletes(w)
        \/ Resolves(w)
    <3>1. ~Quiet /\ \A r \in Request : ~RequestMoves(r) /\ ~RequestGrowsStale(r) /\ ~Purged(r)
      BY <1>2 DEF Quiet, RequestMoves, RequestGrowsStale, Purged
    <3>2. \A v \in Worker : ~Stops(v) /\ \A r \in Request : ~Takes(v, r) /\ ~Reads(v, r)
      BY <1>2, <2>1 DEF Stops, Takes, Reads, OnlyWorker
    <3>3. \A v \in Worker \ {w} : ~Resolves(v) /\ ~SignsUp(v) /\ ~Links(v) /\ ~Deletes(v)
                                  /\ \A phase \in Phase : ~Proceeds(v, phase)
      BY <1>2 DEF Resolves, SignsUp, Links, Deletes, Proceeds, Steps, OnlyWorker
    <3> QED
      BY <3>1, <3>2, <3>3 DEF Shape
  <2>3. CASE \E phase \in Phase : Proceeds(w, phase)
    <3>1. PICK phase \in Phase : Proceeds(w, phase)
      BY <2>3
    <3>2. worker'[w].phase = phase /\ worker'[w].request = worker[w].request /\ NoRequestStep
      BY <3>1, StepsFields DEF Proceeds, Steps
    <3>3. Approving(w)
      BY <2>1, <3>1, <3>2 DEF Proceeds, Approving, Approval, Late
    <3> QED
      BY <2>1, <3>2, <3>3, Approvals DEF NoRequestStep, SameRequest
  <2>4. CASE SignsUp(w) \/ Links(w) \/ Deletes(w)
    <3>1. /\ worker[w].phase # "idle" /\ NoRequestStep
          /\ worker'[w].request = worker[w].request /\ worker'[w].claim = worker[w].claim
      BY <2>1, <2>4, OwnAccount
    <3>2. ~Approving(w)
      BY <2>1, <3>1, Approvals DEF NoRequestStep, SameRequest
    <3> QED
      BY <2>4, <3>1, <3>2, OwnAccount
  <2>5. CASE Resolves(w)
    <3>1. worker[w].phase = "linked" /\ "compensating" \in Phase
          /\ worker'[w] = [worker[w] EXCEPT !.phase = "compensating"]
      <4>1. "claiming" \in Phase /\ "compensating" \in Phase
        BY DEF Phase
      <4> QED
        BY <2>1, <2>5, <4>1, StepsFields DEF Resolves
    <3>2. worker'[w].request = worker[w].request /\ worker'[w].claim = worker[w].claim
      BY <3>1, StepsFields
    <3> QED
      BY <2>5, <3>1, <3>2 DEF Approving, Approval, Late
  <2> QED
    BY <2>2, <2>3, <2>4, <2>5
<1> QED
  BY <1>1, <1>2

(* A late approval stays alone: its claim has been given up, and a new one *)
(* has another number.                                                     *)
LEMMA LateStays ==
  ASSUME Types, Numbered, Saga, Shape, Heard, UnheardDecided'
  PROVE  LateAlone'
<1> SUFFICES ASSUME NEW w \in Worker, Late(w)'
             PROVE  /\ \A o \in Worker : worker'[o].phase # "idle"
                                         /\ worker'[o].claim = worker'[w].claim => o = w
                    /\ \A r \in Request : request'[r].claim # worker'[w].claim
  BY DEF LateAlone
<1>1. PICK c : c = worker[w].claim
  OBVIOUS
<1>2. /\ worker[w].phase # "idle" /\ worker'[w].claim = c
      /\ Late(w) \/ (Approving(w) /\ Resolves(w))
  BY <1>1, BecomesLate
<1>3. /\ c \in Claim /\ c <= lastClaim
      /\ \A o \in Worker : worker[o].phase # "idle" /\ worker[o].claim = c => o = w
  BY <1>1, <1>2, Approvals, LateOnes
<1>4. c # None /\ c # lastClaim + 1
  BY <1>3, HeldClaims
<1>5. CASE Late(w)
  <2>1. \A r \in Request : request[r].claim # c
    BY <1>1, <1>5, LateOnes
  <2>2. ASSUME NEW o \in Worker
        PROVE  \/ worker'[o].phase = "idle" \/ worker'[o].claim = lastClaim + 1
               \/ worker[o].phase # "idle" /\ worker'[o].claim = worker[o].claim
               \/ \E r \in Request : worker'[o].claim = request[r].claim
    BY WorkerClaims
  <2>3. ASSUME NEW r \in Request
        PROVE  request'[r].claim \in {request[r].claim, None, lastClaim + 1}
    BY RequestClaims
  <2> QED
    BY <1>2, <1>3, <1>4, <2>1, <2>2, <2>3
<1>6. CASE Approving(w) /\ Resolves(w)
  <2>1. PICK r \in Request : r = worker[w].request
    BY <1>6, Approvals
  <2>2. /\ request[r].claim = c /\ request'[r].claim = None /\ OnlyRequest(r) /\ OnlyWorker(w)
    BY <1>1, <1>6, <2>1 DEF Resolves, Owned
  <2>3. \A q \in Request \ {r} : request'[q].claim = request[q].claim /\ request[q].claim # c
    BY <1>4, <2>2 DEF OnlyRequest, SameRequest, Numbered
  <2> QED
    BY <1>2, <1>3, <1>4, <2>2, <2>3 DEF OnlyWorker
<1> QED
  BY <1>2, <1>5, <1>6
-----------------------------------------------------------------------------
(* The saga                                                                *)

(* At the start nothing is under way.                                      *)
LEMMA SagaInit == Init => Saga
<1> SUFFICES ASSUME Init PROVE Saga
  OBVIOUS
<1>1. Types
  BY BooksInit
<1>2. /\ \A c \in Claim : account[c].status = "NONE" /\ ~Live(c)
      /\ \A w \in Worker : worker[w].phase = "idle"
      /\ \A r \in Request : request[r].status # "APPROVED"
      /\ batch = {} /\ unacknowledged = {}
  <2>1. \A r \in Request : request[r] = [NewRequest(NoEmail) EXCEPT !.status = "NONE"]
    BY DEF Init
  <2> QED
    BY <2>1, Blank DEF Init, Live, NoAccount, NewRequest
<1>3. Core
  BY <1>2 DEF Core, Exclusive, Approving, Approval, FreshClaims, OneAccount, LinkMeansApproval,
              AcknowledgedHasAccount, SagaOf, RecoveryOf, BatchExpired
<1> QED
  BY <1>2, <1>3 DEF Saga, LateAlone, Late, UnheardDecided

(* Every step keeps the saga, if no approval outlives its claim.           *)
LEMMA SagaStep ==
  ASSUME Types, Numbered, HistoryTyped, Saga, ~OutlivesClaim, [Next]_vars
  PROVE  Saga'
<1>1. Shape /\ HistoryGrows /\ Heard
  BY EveryShape, HistorySteps
<1>2. ASSUME NEW w \in Worker, NEW r \in Request, Reads(w, r) PROVE Core'
  BY <1>1, <1>2, WorkerCore DEF Reads
<1>3. ASSUME NEW w \in Worker, Stops(w) PROVE Core'
  BY <1>1, <1>3, WorkerCore DEF Stops
<1>4. ASSUME NEW w \in Worker, NEW phase \in Phase, Proceeds(w, phase) PROVE Core'
  <2>1. NoRequestStep /\ NoAccountStep /\ OnlyWorker(w) /\ lastClaim' = lastClaim /\ batch' = batch
    BY <1>4 DEF Proceeds, Steps
  <2> QED
    BY <1>1, <1>4, <2>1, WorkerCore
<1>5. Core'
  BY <1>1, <1>2, <1>3, <1>4, QuietCore, RequestCore, PurgedCore, TakeCore, ResolvedCore,
     OwnAccountCore DEF Shape
<1>6. UnheardDecided'
  BY <1>1, UnheardStays
<1>7. LateAlone'
  BY <1>1, <1>6, LateStays
<1> QED
  BY <1>5, <1>6, <1>7 DEF Saga

(* The inductive invariant.                                                *)
LEMMA SagaHolds ==
  ASSUME ~OutlivesClaim
  PROVE  Spec => [](Types /\ Numbered /\ HistoryTyped /\ Saga)
<1>1. Init => Types /\ Numbered /\ HistoryTyped /\ Saga
  BY BooksInit, SagaInit DEF Init, HistoryTyped
<1>2. Types /\ Numbered /\ HistoryTyped /\ Saga /\ [Next]_vars
        => (Types /\ Numbered /\ HistoryTyped /\ Saga)'
  BY BooksStep, SagaStep, HistorySteps
<1> QED
  BY <1>1, <1>2, PTL DEF Spec

(* AcknowledgedHasAccount, as long as no approval still runs when its      *)
(* claim is stale: an approved request has its account, unless the commit  *)
(* of its approval was not acknowledged.                                   *)
THEOREM AcknowledgedHasAccountHolds ==
  ASSUME ~OutlivesClaim
  PROVE  Spec => []AcknowledgedHasAccount
<1>1. Saga => AcknowledgedHasAccount
  BY DEF Saga, Core
<1> QED
  BY <1>1, SagaHolds, PTL

(* LinkMeansApproval, under the same condition.                            *)
THEOREM LinkMeansApprovalHolds ==
  ASSUME ~OutlivesClaim
  PROVE  Spec => []LinkMeansApproval
<1>1. Saga => LinkMeansApproval
  BY DEF Saga, Core
<1> QED
  BY <1>1, SagaHolds, PTL

(* Only the cleanup purges, and only what BatchExpired says of its batch.  *)
LEMMA PurgeIsDue ==
  ASSUME Types, Saga, Shape, NEW r \in Request,
         request'[r].status = "PURGED", request[r].status # "PURGED"
  PROVE  Lapsed(r)
<1>1. CASE Quiet
  BY <1>1 DEF Quiet, NoRequestStep, SameRequest
<1>2. ASSUME NEW o \in Request, RequestMoves(o) \/ RequestGrowsStale(o) PROVE Lapsed(r)
  BY <1>2 DEF RequestMoves, RequestGrowsStale, OnlyRequest, SameRequest
<1>3. ASSUME NEW o \in Request, Purged(o) PROVE Lapsed(r)
  BY <1>3 DEF Purged, OnlyRequest, SameRequest, Saga, Core, BatchExpired
<1>4. ASSUME NEW w \in Worker, NEW o \in Request, Takes(w, o) \/ Reads(w, o) PROVE Lapsed(r)
  BY <1>4 DEF Takes, Reads, OnlyRequest, NoRequestStep, SameRequest
<1>5. ASSUME NEW w \in Worker, Resolves(w) PROVE Lapsed(r)
  BY <1>5 DEF Resolves, Verdicts, OnlyRequest, SameRequest
<1>6. ASSUME NEW w \in Worker,
             \/ Stops(w) \/ SignsUp(w) \/ Links(w) \/ Deletes(w)
             \/ \E phase \in Phase : Proceeds(w, phase)
      PROVE  Lapsed(r)
  BY <1>6 DEF Stops, SignsUp, Links, Deletes, Proceeds, Steps, NoRequestStep, SameRequest
<1> QED
  BY <1>1, <1>2, <1>3, <1>4, <1>5, <1>6 DEF Shape

(* RetentionIsKept, under the same condition: what the cleanup decides on  *)
(* is still so when it purges.                                             *)
THEOREM RetentionIsKeptHolds ==
  ASSUME ~OutlivesClaim
  PROVE  Spec => RetentionIsKept
<1>1. ASSUME Types, Numbered, Saga, [Next]_vars
      PROVE  \A r \in Request :
               request'[r].status = "PURGED" /\ request[r].status # "PURGED" => Lapsed(r)
  BY <1>1, EveryShape, PurgeIsDue
<1>2. Types /\ Numbered /\ HistoryTyped /\ Saga /\ [Next]_vars =>
        \A r \in Request :
          request'[r].status = "PURGED" /\ request[r].status # "PURGED" =>
            /\ request[r].status \in {"REJECTED", "APPROVED"} /\ request[r].age = 2
            /\ request[r].status = "APPROVED" => \A c \in LinkedTo(r) : ~account[c].setup
  BY <1>1 DEF Lapsed
<1> QED
  BY <1>2, SagaHolds, PTL DEF Spec, RetentionIsKept
=============================================================================
