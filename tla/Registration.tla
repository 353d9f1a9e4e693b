---------------------------- MODULE Registration ----------------------------
(***************************************************************************)
(* Self registration: an applicant's request, its approval by super admins *)
(* and the account that comes of it.                                       *)
(*                                                                         *)
(* An approval is a saga of separate commits: claim the request, look the  *)
(* email up, sign the account up with the auth library, link the account   *)
(* to the request, finalize; each later step that fails undoes the earlier *)
(* ones.  The server may stop between any two steps, the database may lose *)
(* its answer to a step it has carried out, and a claim older than five    *)
(* minutes (`stale`) may be taken over by another approval.  An account is *)
(* numbered like the claim it was provisioned under.                       *)
(***************************************************************************)
EXTENDS Naturals, FiniteSets

CONSTANTS
  Email, Request, NoRequest, NoEmail,
  Worker,          \* the requests of super admins that may be under way at once
  OutlivesClaim,   \* may an approval still be running when its claim is stale?
  LosesAnswers,    \* may the database fail, or carry a step out unacknowledged?
  MaxClaims,       \* bound: claims ever taken
  MaxCrashes       \* bound: approvals cut off by a restart

ASSUME NothingAssumption == NoRequest \notin Request /\ NoEmail \notin Email
ASSUME OutlivesAssumption == OutlivesClaim \in BOOLEAN /\ LosesAnswers \in BOOLEAN
ASSUME BoundsAssumption == MaxClaims \in Nat /\ MaxCrashes \in Nat

VARIABLES
  request,    \* the registration requests
  account,    \* the users provisioned from them, by claim
  direct,     \* the user with each email created directly by a super admin
  worker,     \* the approvals under way
  lastClaim,  \* claims are fresh: 1, 2, ...
  batch,      \* the requests the cleanup run has read and not yet purged
  crashes,
  unacknowledged,  \* history: requests whose approval was not acknowledged
  abandoned        \* history: accounts whose provisioning could not delete them

history == <<unacknowledged, abandoned>>
vars == <<request, account, direct, worker, lastClaim, batch, crashes, history>>

Claim == 1..MaxClaims
None == 0
Idle == [phase |-> "idle", request |-> NoRequest, claim |-> None, found |-> None]
NoAccount == [status |-> "NONE", email |-> NoEmail, link |-> NoRequest,
              setup |-> FALSE, team |-> FALSE]
NewRequest(e) == [status |-> "SUBMITTING", email |-> e, claim |-> None, stale |-> FALSE,
                  team |-> FALSE, configured |-> FALSE, age |-> 0]

Init ==
  /\ request = [r \in Request |-> [NewRequest(NoEmail) EXCEPT !.status = "NONE"]]
  /\ account = [c \in Claim |-> NoAccount]
  /\ direct = [e \in Email |-> "NONE"]
  /\ worker = [w \in Worker |-> Idle]
  /\ lastClaim = None
  /\ batch = {}
  /\ crashes = 0
  /\ unacknowledged = {} /\ abandoned = {}

Rejected(r) == request[r].status = "REJECTED"
Live(c) == account[c].status \in {"INACTIVE", "ACTIVE"}
LinkedTo(r) == {c \in Claim : Live(c) /\ account[c].link = r}
EmailTaken(e) == direct[e] # "NONE" \/ \E c \in Claim : Live(c) /\ account[c].email = e

Goes(w, phase) == worker' = [worker EXCEPT ![w].phase = phase]
Ends(w) == worker' = [worker EXCEPT ![w] = Idle]

(* Mistakes: each is a definition below with one plausible error, put in   *)
(* its place to see the property that catches it.                          *)
StaleAtOnce(r) == request[r].status = "APPROVING"
OwnedById(r, c) == TRUE
UnprovisionedAssumed(r) == TRUE
ExpiredWithoutSetup(r) ==
  request[r].status \in {"REJECTED", "APPROVED"} /\ request[r].age = 2
StaleNever(r) == FALSE
-----------------------------------------------------------------------------
(* Applicants                                                              *)

(* A request that stops another one for the same email: undecided,         *)
(* approved, or rejected within the last day.                              *)
Blocking(r) ==
  \/ request[r].status \in {"PENDING", "APPROVING", "APPROVED"}
  \/ request[r].status = "REJECTED" /\ request[r].age = 0

(* createPublicRequest reads users and requests first ...                  *)
Submit(r, e) ==
  /\ request[r].status = "NONE"
  /\ ~EmailTaken(e)
  /\ \A o \in Request : request[o].email = e => ~Blocking(o)
  /\ request' = [request EXCEPT ![r] = NewRequest(e)]
  /\ UNCHANGED <<account, direct, worker, lastClaim, batch, crashes, history>>

(* The partial unique index on the email of undecided requests.            *)
ActiveEmail(e) ==
  \E o \in Request : request[o].email = e /\ request[o].status \in {"PENDING", "APPROVING"}

(* ... and creates the row later; a unique conflict is answered the same.  *)
CreateRequest(r) ==
  /\ request[r].status = "SUBMITTING"
  /\ request' = [request EXCEPT ![r].status =
                   IF ActiveEmail(request[r].email) THEN "NONE" ELSE "PENDING"]
  /\ UNCHANGED <<account, direct, worker, lastClaim, batch, crashes, history>>

-----------------------------------------------------------------------------
(* Approval                                                                *)

Stale(r) == request[r].status = "APPROVING" /\ request[r].stale

Owned(r, c) == request[r].status = "APPROVING" /\ request[r].claim = c

Unprovisioned(r) == LinkedTo(r) = {}

(* restoreClaim: one conditional update                                    *)
Restored(r, c) ==
  IF Owned(r, c)
  THEN [request EXCEPT ![r].status = "PENDING", ![r].claim = None,
                       ![r].stale = FALSE, ![r].team = FALSE]
  ELSE request

Claimed(r, team) ==
  [request EXCEPT ![r].status = "APPROVING", ![r].claim = lastClaim + 1,
                  ![r].stale = FALSE, ![r].team = team]

TakeClaim(w, r) ==
  /\ request[r].status = "PENDING"
  /\ lastClaim < MaxClaims
  /\ lastClaim' = lastClaim + 1
  /\ \E team \in BOOLEAN : request' = Claimed(r, team)
  /\ worker' = [worker EXCEPT ![w] =
       [phase |-> "claimed", request |-> r, claim |-> lastClaim + 1, found |-> None]]

(* approve of a request without a stale claim: claims it, or is refused    *)
Approve(w, r) ==
  /\ worker[w].phase = "idle"
  /\ ~Stale(r)
  /\ TakeClaim(w, r)
  /\ UNCHANGED <<account, direct, batch, crashes, history>>

(* reconcileStaleApproval reads the stale claim and what became of it.     *)
ReadStaleClaim(w, r) ==
  /\ worker[w].phase = "idle"
  /\ Stale(r)
  /\ \/ /\ Unprovisioned(r)
        /\ worker' = [worker EXCEPT ![w] = [phase |-> "restoring", request |-> r,
                                            claim |-> request[r].claim, found |-> None]]
     \/ /\ ~Unprovisioned(r)
        /\ \E c \in LinkedTo(r) :
             worker' = [worker EXCEPT ![w] = [phase |-> "recovering", request |-> r,
                                              claim |-> request[r].claim, found |-> c]]
  /\ UNCHANGED <<request, account, direct, lastClaim, batch, crashes, history>>

(* The stale claim is given up, and the approval goes on as usual.         *)
RestoreStaleClaim(w) ==
  /\ worker[w].phase = "restoring"
  /\ request' = Restored(worker[w].request, worker[w].claim)
  /\ Goes(w, "claiming")
  /\ UNCHANGED <<account, direct, lastClaim, batch, crashes, history>>

ClaimAfterRestore(w) ==
  /\ worker[w].phase = "claiming"
  /\ \/ TakeClaim(w, worker[w].request)
     \/ Ends(w) /\ UNCHANGED <<request, lastClaim>>   \* not pending, or refused
  /\ UNCHANGED <<account, direct, batch, crashes, history>>

Approved(r) ==
  [request EXCEPT ![r].status = "APPROVED", ![r].claim = None, ![r].stale = FALSE]

(* The account found by the reading finalizes the stale claim.  The team   *)
(* membership refers to the account, nothing else looks at it again.       *)
FinalizeStaleClaim(w) ==
  LET r == worker[w].request
      c == worker[w].found
      finalizes == Owned(r, worker[w].claim) /\ (request[r].team => Live(c))
  IN
  /\ worker[w].phase = "recovering"
  /\ request' = IF finalizes THEN Approved(r) ELSE request
  /\ account' = IF finalizes /\ request[r].team
                THEN [account EXCEPT ![c].team = TRUE] ELSE account
  /\ Ends(w)
  /\ UNCHANGED <<direct, lastClaim, batch, crashes, history>>

(* provisionAccount looks the email and the employee id up,                *)
CheckEmail(w) ==
  LET e == request[worker[w].request].email IN
  /\ worker[w].phase = "claimed"
  /\ \/ EmailTaken(e) /\ Goes(w, "unavailable")
     \/ ~EmailTaken(e) /\ Goes(w, "checked")
     \/ ~EmailTaken(e) /\ Goes(w, "withdrawing")   \* the employee id is in use
     \/ LosesAnswers /\ Goes(w, "withdrawing")
  /\ UNCHANGED <<request, account, direct, lastClaim, batch, crashes, history>>

(* signs the account up: INACTIVE, not yet linked.  A duplicate email is   *)
(* reported by the auth library as an error, or as an account not created, *)
(* and an error after the row is written leaves the account behind;        *)
SignUp(w) ==
  LET r == worker[w].request
      c == worker[w].claim
      e == request[r].email
  IN
  /\ worker[w].phase = "checked"
  /\ \/ /\ ~EmailTaken(e)
        /\ account' = [account EXCEPT ![c] = [NoAccount EXCEPT !.status = "INACTIVE", !.email = e]]
        /\ Goes(w, "signedUp") \/ (LosesAnswers /\ Goes(w, "withdrawing"))
     \/ EmailTaken(e) /\ Goes(w, "unavailable") /\ UNCHANGED account
     \/ (EmailTaken(e) \/ LosesAnswers) /\ Goes(w, "withdrawing") /\ UNCHANGED account
  /\ UNCHANGED <<request, direct, lastClaim, batch, crashes, history>>

(* then links it.  The link is unique; so is the employee id, which may    *)
(* have been given away since it was looked up.  Any error undoes the      *)
(* sign-up, also when the update was carried out.                          *)
LinkAccount(w) ==
  LET r == worker[w].request
      c == worker[w].claim
  IN
  /\ worker[w].phase = "signedUp"
  /\ \/ /\ Unprovisioned(r) /\ request[r].status # "PURGED"
        /\ account' = [account EXCEPT ![c].status = "INACTIVE", ![c].link = r, ![c].setup = TRUE]
        /\ Goes(w, "linked") \/ (LosesAnswers /\ Goes(w, "undoing"))
     \/ Goes(w, "undoing") /\ UNCHANGED account
  /\ UNCHANGED <<request, direct, lastClaim, batch, crashes, history>>

Linked(c, r) == Live(c) /\ account[c].link = r

(* The finalizing transaction of approve.  It may fail for good (a         *)
(* conflict on the last attempt, a lost connection), and it may have been  *)
(* committed when its failure is reported: approve compensates both.       *)
Finalize(w) ==
  LET r == worker[w].request
      c == worker[w].claim
  IN
  /\ worker[w].phase = "linked"
  /\ \/ /\ Owned(r, c) /\ Linked(c, r)
        /\ request' = Approved(r)
        /\ account' = [account EXCEPT ![c].team = request[r].team]
        /\ \/ Ends(w) /\ UNCHANGED unacknowledged
           \/ /\ LosesAnswers /\ Goes(w, "compensating")
              /\ unacknowledged' = unacknowledged \cup {r}
     \/ Goes(w, "compensating") /\ UNCHANGED <<request, account, unacknowledged>>
  /\ UNCHANGED <<direct, lastClaim, batch, crashes, abandoned>>

(* cleanupCreatedUser.  The row cannot go while others refer to it: a team *)
(* membership does, and an account in use may have left some.              *)
Deleted(c) ==
  /\ ~account[c].team
  /\ account' = [account EXCEPT ![c] = [NoAccount EXCEPT !.status = "DELETED"]]

NotDeleted(c) ==
  /\ account[c].team \/ account[c].status = "ACTIVE" \/ LosesAnswers
  /\ UNCHANGED account

(* provisionAccount deletes its account: the claim is withdrawn then,      *)
(* whether the account could be deleted or not;                            *)
UndoAccount(w) ==
  LET c == worker[w].claim IN
  /\ worker[w].phase = "undoing"
  /\ \/ Deleted(c) /\ UNCHANGED abandoned
     \/ NotDeleted(c) /\ abandoned' = abandoned \cup {c}
  /\ Goes(w, "withdrawing")
  /\ UNCHANGED <<request, direct, lastClaim, batch, crashes, unacknowledged>>

(* approve does: an error ends the compensation.                           *)
CompensateAccount(w) ==
  LET c == worker[w].claim IN
  /\ worker[w].phase = "compensating"
  /\ \/ Deleted(c) /\ (Goes(w, "withdrawing") \/ (LosesAnswers /\ Ends(w)))
     \/ NotDeleted(c) /\ Ends(w)
  /\ UNCHANGED <<request, direct, lastClaim, batch, crashes, history>>

Withdraw(w) ==
  /\ worker[w].phase = "withdrawing"
  /\ request' = Restored(worker[w].request, worker[w].claim)
  /\ Ends(w)
  /\ UNCHANGED <<account, direct, lastClaim, batch, crashes, history>>

(* rejectClaimForUnavailableEmail                                          *)
RejectUnavailable(w) ==
  LET r == worker[w].request IN
  /\ worker[w].phase = "unavailable"
  /\ request' = IF Owned(r, worker[w].claim)
                THEN [request EXCEPT ![r].status = "REJECTED", ![r].claim = None,
                                     ![r].stale = FALSE, ![r].age = 0]
                ELSE request
  /\ Ends(w)
  /\ UNCHANGED <<account, direct, lastClaim, batch, crashes, history>>

Reject(r) ==
  /\ request[r].status = "PENDING"
  /\ request' = [request EXCEPT ![r].status = "REJECTED", ![r].age = 0]
  /\ UNCHANGED <<account, direct, worker, lastClaim, batch, crashes, history>>

-----------------------------------------------------------------------------
(* The account's life, the retention, and time                             *)

(* onPasswordReset activates a linked account that still has to be set up, *)
(* and writes when: the retention of an approval runs from then on.        *)
ConfigurePassword(c) ==
  /\ account[c].status = "INACTIVE" /\ account[c].setup
  /\ account[c].link # NoRequest
  /\ account' = [account EXCEPT ![c].status = "ACTIVE", ![c].setup = FALSE]
  /\ request' = [request EXCEPT ![account[c].link].configured = TRUE,
                                ![account[c].link].age = IF Rejected(account[c].link) THEN @ ELSE 0]
  /\ UNCHANGED <<direct, worker, lastClaim, batch, crashes, history>>

(* updateMemberStatus and updateAdminStatus do not look at the setup.      *)
ChangeStatus(c) ==
  /\ Live(c)
  /\ account' = [account EXCEPT ![c].status = IF @ = "ACTIVE" THEN "INACTIVE" ELSE "ACTIVE"]
  /\ UNCHANGED <<request, direct, worker, lastClaim, batch, crashes, history>>

(* createAdmin, createMember: provision, then record, or delete again.     *)
CreateDirectly(e) ==
  /\ \/ ~EmailTaken(e) /\ direct' = [direct EXCEPT ![e] = "PROVISIONED"]
     \/ /\ direct[e] = "PROVISIONED"
        /\ \E next \in {"RECORDED", "NONE"} : direct' = [direct EXCEPT ![e] = next]
  /\ UNCHANGED <<request, account, worker, lastClaim, batch, crashes, history>>

Expired(r) ==
  \/ Rejected(r) /\ request[r].age = 2
  \/ /\ request[r].status = "APPROVED" /\ request[r].configured /\ request[r].age = 2
     /\ \E c \in LinkedTo(r) : ~account[c].setup

(* cleanup reads the expired requests ...                                  *)
StartCleanup ==
  /\ batch = {}
  /\ \E r \in Request : Expired(r)
  /\ batch' = {r \in Request : Expired(r)}
  /\ UNCHANGED <<request, account, direct, worker, lastClaim, crashes, history>>

(* ... and purges each in a transaction of its own.                        *)
Purge(r) ==
  /\ r \in batch
  /\ batch' = batch \ {r}
  /\ request' = [request EXCEPT ![r] = [NewRequest(@.email) EXCEPT !.status = "PURGED"]]
  /\ account' = [c \in Claim |-> IF account[c].link = r
                                 THEN [account[c] EXCEPT !.link = NoRequest] ELSE account[c]]
  /\ UNCHANGED <<direct, worker, lastClaim, crashes, history>>

Older(age) == age + 1

(* A day (1), then ninety (2), after a rejection; ninety after the setup.  *)
GrowOlder(r) ==
  /\ Rejected(r) \/ (request[r].configured /\ request[r].status # "PURGED")
  /\ request[r].age < 2
  /\ request' = [request EXCEPT ![r].age = Older(@)]
  /\ UNCHANGED <<account, direct, worker, lastClaim, batch, crashes, history>>

(* Five minutes after the claim                                            *)
GrowStale(r) ==
  /\ request[r].status = "APPROVING" /\ ~request[r].stale
  /\ OutlivesClaim \/ \A w \in Worker : worker[w].claim # request[r].claim
  /\ request' = [request EXCEPT ![r].stale = TRUE]
  /\ UNCHANGED <<account, direct, worker, lastClaim, batch, crashes, history>>

(* The server stops, or the database fails, when nothing is undone.        *)
Crash(w) ==
  /\ worker[w].phase # "idle"
  /\ crashes < MaxCrashes
  /\ crashes' = crashes + 1
  /\ Ends(w)
  /\ UNCHANGED <<request, account, direct, lastClaim, batch, history>>

-----------------------------------------------------------------------------
Continue(w) ==
  \/ RestoreStaleClaim(w) \/ ClaimAfterRestore(w) \/ FinalizeStaleClaim(w)
  \/ CheckEmail(w) \/ SignUp(w) \/ LinkAccount(w) \/ Finalize(w)
  \/ UndoAccount(w) \/ CompensateAccount(w) \/ Withdraw(w) \/ RejectUnavailable(w)

Next ==
  \/ \E r \in Request, e \in Email : Submit(r, e)
  \/ \E r \in Request : CreateRequest(r) \/ Reject(r) \/ GrowOlder(r) \/ GrowStale(r) \/ Purge(r)
  \/ \E w \in Worker, r \in Request : Approve(w, r) \/ ReadStaleClaim(w, r)
  \/ \E w \in Worker : Continue(w) \/ Crash(w)
  \/ \E c \in Claim : ConfigurePassword(c) \/ ChangeStatus(c)
  \/ \E e \in Email : CreateDirectly(e)
  \/ StartCleanup

Spec == Init /\ [][Next]_vars

(* What is running gets on, time passes, and a super admin tries again to  *)
(* approve a request whose claim is stale.                                 *)
FairSpec ==
  /\ Spec
  /\ \A w \in Worker : WF_vars(Continue(w))
  /\ \A r \in Request : WF_vars(GrowStale(r)) /\ WF_vars(\E w \in Worker : ReadStaleClaim(w, r))

-----------------------------------------------------------------------------
(* Properties *)

RequestStatus == {"NONE", "SUBMITTING", "PENDING", "APPROVING", "APPROVED", "REJECTED", "PURGED"}
Phase == {"idle", "restoring", "claiming", "recovering", "claimed", "checked", "signedUp",
          "linked", "undoing", "compensating", "withdrawing", "unavailable"}

TypeOK ==
  /\ request \in [Request -> [status : RequestStatus, email : Email \cup {NoEmail},
                              claim : Claim \cup {None}, stale : BOOLEAN, team : BOOLEAN,
                              configured : BOOLEAN, age : 0..2]]
  /\ \A r \in Request : request[r].claim # None <=> request[r].status = "APPROVING"
  /\ account \in [Claim -> [status : {"NONE", "INACTIVE", "ACTIVE", "DELETED"},
                            email : Email \cup {NoEmail}, link : Request \cup {NoRequest},
                            setup : BOOLEAN, team : BOOLEAN]]
  /\ direct \in [Email -> {"NONE", "PROVISIONED", "RECORDED"}]
  /\ worker \in [Worker -> [phase : Phase, request : Request \cup {NoRequest},
                            claim : Claim \cup {None}, found : Claim \cup {None}]]
  /\ lastClaim \in Claim \cup {None}
  /\ batch \subseteq Request
  /\ unacknowledged \subseteq Request /\ abandoned \subseteq Claim

(* An approved request has the account it was approved for (README: the    *)
(* approval creates an account).  This does not hold of every approval: an *)
(* account is deleted by a compensation that outlives its claim, and by    *)
(* one whose approval was committed but not acknowledged.                  *)
ApprovedHasAccount ==
  \A r \in Request : request[r].status = "APPROVED" => LinkedTo(r) # {}

(* An approved request has its account, whatever failed, crashed or was    *)
(* taken over in between, unless the commit of its approval was not        *)
(* acknowledged, so that its account was deleted as that of a failed one.  *)
AcknowledgedHasAccount ==
  \A r \in Request : request[r].status = "APPROVED" => LinkedTo(r) # {} \/ r \in unacknowledged

(* An account is linked only to a request that is approved or about to be: *)
(* nothing that was rejected, or put back, leaves an account its applicant *)
(* could still activate, and an account to be set up keeps its request.    *)
(* The one exception is an account that provisionAccount linked without    *)
(* being told, wanted to delete for that, and could not.                   *)
LinkMeansApproval ==
  \A c \in Claim : Live(c) /\ c \notin abandoned =>
    /\ account[c].link # NoRequest => request[account[c].link].status \in {"APPROVING", "APPROVED"}
    /\ account[c].setup => account[c].link # NoRequest

(* A decision is final: no approval, recovery or compensation that runs    *)
(* late changes a request that has been decided; only the cleanup ends it. *)
DecisionIsFinal ==
  [][\A r \in Request :
       /\ request[r].status \in {"APPROVED", "REJECTED"}
       /\ request'[r].status # request[r].status
       => request'[r].status = "PURGED"]_vars

(* PRD, Self Registration and Approval: review data is kept for 90 days    *)
(* after a rejection or a completed setup; an approved request whose setup *)
(* is pending is kept.  The cleanup decides on what it read before.        *)
RetentionIsKept ==
  [][\A r \in Request :
       request'[r].status = "PURGED" /\ request[r].status # "PURGED" =>
         /\ request[r].status \in {"REJECTED", "APPROVED"} /\ request[r].age = 2
         /\ request[r].status = "APPROVED" => \A c \in LinkedTo(r) : ~account[c].setup]_vars

(* A claim left behind by an approval that died does not hold its request  *)
(* for ever, as long as a super admin tries again.                         *)
ClaimsAreResolved ==
  \A r \in Request : request[r].status = "APPROVING" ~> request[r].status # "APPROVING"
=============================================================================
