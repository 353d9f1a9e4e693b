---------------------------- MODULE Attachments ----------------------------
(***************************************************************************)
(* The files of a task and of its submissions.                             *)
(*                                                                         *)
(* A file lives in two places that no transaction spans: its row in the    *)
(* database and its contents in an external store.  Contents are stored    *)
(* first and recorded afterwards, in a transaction that checks once more   *)
(* what was checked before the upload; if it fails they are destroyed.     *)
(* Deleting goes the other way.  Destroying is attempted once per file,    *)
(* and a failure of it is only logged.                                     *)
(*                                                                         *)
(* The transactions are serializable and each is one step; one that keeps  *)
(* conflicting, runs out of time, or loses its connection fails.           *)
(***************************************************************************)
EXTENDS Naturals, FiniteSets

CONSTANTS
  Member, Admin, SuperAdmin,
  Owner,          \* who made the task
  TeamAdmin,      \* the admin of its team
  Teammate,       \* the members of that team
  Nobody,
  Earlier,        \* the call that attached a file already there
  Call,           \* the calls that are made (bound: their number)
  MaxFiles,       \* MAX_ATTACHMENT_FILES
  MaxCrashes      \* bound: how often the process stops

ASSUME PeopleAssumption ==
  Owner \in Admin \cup {SuperAdmin} /\ TeamAdmin \in Admin /\ Teammate \subseteq Member
ASSUME NobodyAssumption == Nobody \notin Member
ASSUME EarlierAssumption == Earlier \notin Call
ASSUME FilesAssumption == MaxFiles \in Nat \ {0}
ASSUME CrashesAssumption == MaxCrashes \in Nat

VARIABLES
  task,       \* the task, as far as its files depend on it
  recorded,   \* the rows: which file is attached, to what, and by whom
  stored,     \* the contents in the external store
  call,       \* the calls under way
  abandoned,  \* history: contents left by a crash, a failure of the store, or a
              \* deletion whose commit was not acknowledged
  unsure,     \* history: files whose commit was not acknowledged
  crashes

vars == <<task, recorded, stored, call, abandoned, unsure, crashes>>

Viewer == Member \cup Admin \cup {SuperAdmin}
File == (Call \cup {Earlier}) \X (1..MaxFiles)

Status == {"PENDING", "ASSIGNED", "IN_PROGRESS", "SUBMITTED", "REVISION_REQUIRED", "COMPLETED"}

NotMade == [phase |-> "toMake", op |-> "UPLOAD", viewer |-> SuperAdmin, count |-> 0, files |-> {}]
Done == [NotMade EXCEPT !.phase = "done"]

(* The task is new, or just given to someone, who may have attached a file. *)
Init ==
  /\ task \in [scope : {"TEAM", "GLOBAL"}, direct : BOOLEAN, status : {"PENDING", "ASSIGNED"},
               responsible : Member \cup {Nobody}, sent : {FALSE}]
  /\ task.scope = "GLOBAL" => task.direct /\ Owner = SuperAdmin
  /\ task.status = "PENDING" <=> task.responsible = Nobody
  /\ recorded \in {{}} \cup
       {{[file |-> <<Earlier, 1>>, on |-> "TASK", by |-> m]} : m \in {task.responsible} \ {Nobody}}
  /\ stored = {r.file : r \in recorded}
  /\ call = [c \in Call |-> NotMade]
  /\ abandoned = {} /\ unsure = {} /\ crashes = 0

(* Mistakes: each is a definition below with one plausible error, put in   *)
(* its place to see the property that catches it.                          *)
NotCheckedAgain(v, n) == TRUE
CleansUpAlways(c) == [call[c] EXCEPT !.phase = "destroying"]
NothingToDestroy(c) == {}
-----------------------------------------------------------------------------
(* The rest of the life of the task is that of TaskWorkflow and            *)
(* TaskAutomation; here it moves along as they let it.                     *)
TaskMoves ==
  /\ \/ /\ task.status \in {"PENDING", "ASSIGNED"}
        /\ \E m \in Member \ {task.responsible} :
             task' = [task EXCEPT !.status = "ASSIGNED", !.responsible = m]
     \/ /\ task.status = "ASSIGNED"
        /\ task' = [task EXCEPT !.status = "IN_PROGRESS"]
     \/ /\ task.status = "IN_PROGRESS" /\ task.direct
        /\ task' = [task EXCEPT !.status = "COMPLETED"]
     \/ /\ task.status = "SUBMITTED"
        /\ \E s \in {"REVISION_REQUIRED", "COMPLETED"} : task' = [task EXCEPT !.status = s]
     \/ /\ task.direct /\ ~task.sent
        /\ task' = [task EXCEPT !.sent = TRUE]
  /\ UNCHANGED <<recorded, stored, call, abandoned, unsure, crashes>>

-----------------------------------------------------------------------------
(* Who may change the files of the task, and who may read a file           *)

HasAuthority(v) == v = SuperAdmin \/ (v \in Admin /\ v = Owner) \/ v = task.responsible

LifecycleEditable == task.status \in {"PENDING", "ASSIGNED", "IN_PROGRESS"}

(* Once it is distributed, only the member doing a GLOBAL task may.        *)
MayMutate(v) ==
  /\ HasAuthority(v)
  /\ LifecycleEditable
  /\ task.sent => task.scope = "GLOBAL" /\ v = task.responsible

OnTask == {r \in recorded : r.on = "TASK"}

HasRoom(n) == Cardinality(OnTask) + n <= MaxFiles

TaskScope(v) == v \in {TeamAdmin, task.responsible}

CanReadParent(v, r) ==
  \/ v = SuperAdmin
  \/ r.on = "TASK" /\ (task.scope = "GLOBAL" \/ TaskScope(v))
  \/ r.on = "SUBMISSION" /\ v \in {TeamAdmin, r.by}

CanReadThroughDocuments(v, r) ==
  \/ v \in {SuperAdmin, r.by}
  \/ v = TeamAdmin /\ r.by \in Teammate

CanRead(v, r) == CanReadParent(v, r) \/ CanReadThroughDocuments(v, r)

-----------------------------------------------------------------------------
(* Storing                                                                 *)

MaySubmit(v) ==
  /\ v \in Member /\ v = task.responsible
  /\ ~task.direct /\ task.status \in {"IN_PROGRESS", "REVISION_REQUIRED"}

Begin(c, op, v, n) ==
  /\ call[c].phase = "toMake"
  /\ call' = [call EXCEPT ![c] =
       [phase |-> IF n = 0 THEN "recording" ELSE "uploading", op |-> op, viewer |-> v,
        count |-> n, files |-> {}]]
  /\ UNCHANGED <<task, recorded, stored, abandoned, unsure, crashes>>

(* uploadTaskAttachments, up to the upload                                 *)
BeginUpload(c, v, n) == n > 0 /\ MayMutate(v) /\ HasRoom(n) /\ Begin(c, "UPLOAD", v, n)

(* createSubmission, likewise; one without files is not checked yet.       *)
BeginSubmission(c, v, n) == v \in Member /\ (n > 0 => MaySubmit(v)) /\ Begin(c, "SUBMIT", v, n)

StoreFile(c) ==
  LET f == <<c, Cardinality(call[c].files) + 1>> IN
  /\ call[c].phase = "uploading"
  /\ stored' = stored \cup {f}
  /\ call' = [call EXCEPT ![c].files = @ \cup {f},
                          ![c].phase = IF f[2] = call[c].count THEN "recording" ELSE @]
  /\ UNCHANGED <<task, recorded, abandoned, unsure, crashes>>

(* What is left to destroy after a call has failed                         *)
ToDestroy(c) == call[c].files

Failed(c) ==
  call' = [call EXCEPT ![c] = IF ToDestroy(c) = {} THEN Done
                              ELSE [@ EXCEPT !.phase = "destroying"]]

(* The store fails; it may have kept what it was sent.                     *)
StoreFails(c) ==
  LET f == <<c, Cardinality(call[c].files) + 1>> IN
  /\ call[c].phase = "uploading"
  /\ Failed(c)
  /\ \/ UNCHANGED <<stored, abandoned>>
     \/ stored' = stored \cup {f} /\ abandoned' = abandoned \cup {f}
  /\ UNCHANGED <<task, recorded, unsure, crashes>>

-----------------------------------------------------------------------------
(* Recording                                                               *)

Rows(c) ==
  {[file |-> f, on |-> IF call[c].op = "UPLOAD" THEN "TASK" ELSE "SUBMISSION",
    by |-> call[c].viewer] : f \in call[c].files}

StillAllowed(v, n) == MayMutate(v) /\ HasRoom(n)

AfterCommit(c) == Done

(* The commit is acknowledged, or it is not, and is taken for a failure.   *)
Acknowledged(c) ==
  \/ /\ call' = [call EXCEPT ![c] = AfterCommit(c)]
     /\ UNCHANGED unsure
  \/ /\ call[c].files # {}
     /\ Failed(c)
     /\ unsure' = unsure \cup call[c].files

RecordUpload(c) ==
  /\ call[c].phase = "recording" /\ call[c].op = "UPLOAD"
  /\ StillAllowed(call[c].viewer, call[c].count)
  /\ recorded' = recorded \cup Rows(c)
  /\ Acknowledged(c)
  /\ UNCHANGED <<task, stored, abandoned, crashes>>

RecordSubmission(c) ==
  /\ call[c].phase = "recording" /\ call[c].op = "SUBMIT"
  /\ MaySubmit(call[c].viewer)
  /\ recorded' = recorded \cup Rows(c)
  /\ task' = [task EXCEPT !.status = "SUBMITTED"]
  /\ Acknowledged(c)
  /\ UNCHANGED <<stored, abandoned, crashes>>

RecordFails(c) ==
  /\ call[c].phase = "recording"
  /\ Failed(c)
  /\ UNCHANGED <<task, recorded, stored, abandoned, unsure, crashes>>

-----------------------------------------------------------------------------
(* Deleting                                                                *)

References(f) == {r \in recorded : r.file = f}

DeleteAttachment(c, v, r) ==
  /\ call[c].phase = "toMake"
  /\ r \in OnTask
  /\ MayMutate(v)
  /\ v \in Member => r.by = v
  /\ References(r.file) = {r}
  /\ recorded' = recorded \ {r}
  /\ \/ /\ call' = [call EXCEPT ![c] = [NotMade EXCEPT !.phase = "destroying", !.files = {r.file}]]
        /\ UNCHANGED abandoned
     \/ /\ call' = [call EXCEPT ![c] = Done]   \* the commit is not acknowledged
        /\ abandoned' = abandoned \cup {r.file}
  /\ UNCHANGED <<task, stored, unsure, crashes>>

(* destroy and destroyUploadedBestEffort: one attempt for each file        *)
Destroy(c) ==
  /\ call[c].phase = "destroying"
  /\ \E f \in call[c].files :
       /\ call' = [call EXCEPT ![c] =
            IF call[c].files = {f} THEN Done ELSE [call[c] EXCEPT !.files = @ \ {f}]]
       /\ \/ stored' = stored \ {f} /\ UNCHANGED abandoned
          \/ abandoned' = abandoned \cup {f} /\ UNCHANGED stored
  /\ UNCHANGED <<task, recorded, unsure, crashes>>

-----------------------------------------------------------------------------
(* Reading: the row is found and the viewer's right to it established,     *)
(* then the contents are fetched.                                          *)
BeginDownload(c, v, r) ==
  /\ call[c].phase = "toMake"
  /\ CanRead(v, r)
  /\ call' = [call EXCEPT ![c] =
       [NotMade EXCEPT !.phase = "downloading", !.op = "DOWNLOAD", !.files = {r.file}]]
  /\ UNCHANGED <<task, recorded, stored, abandoned, unsure, crashes>>

Fetch(c) ==
  /\ call[c].phase = "downloading"
  /\ call' = [call EXCEPT ![c].phase = IF call[c].files \subseteq stored THEN "done" ELSE "unavailable"]
  /\ UNCHANGED <<task, recorded, stored, abandoned, unsure, crashes>>

(* The process stops: the calls under way end where they are (a download   *)
(* has nothing to leave).                                                  *)
Crash ==
  LET busy == {c \in Call : call[c].phase \in {"uploading", "recording", "destroying"}} IN
  /\ crashes < MaxCrashes
  /\ crashes' = crashes + 1
  /\ abandoned' = abandoned \cup UNION {call[c].files : c \in busy}
  /\ call' = [c \in Call |-> IF c \in busy THEN Done ELSE call[c]]
  /\ UNCHANGED <<task, recorded, stored, unsure>>

Next ==
  \/ TaskMoves \/ Crash
  \/ \E c \in Call, v \in Viewer, n \in 0..MaxFiles : BeginUpload(c, v, n) \/ BeginSubmission(c, v, n)
  \/ \E c \in Call, v \in Viewer, r \in recorded : DeleteAttachment(c, v, r) \/ BeginDownload(c, v, r)
  \/ \E c \in Call :
       \/ StoreFile(c) \/ StoreFails(c)
       \/ RecordUpload(c) \/ RecordSubmission(c) \/ RecordFails(c)
       \/ Destroy(c) \/ Fetch(c)

Spec == Init /\ [][Next]_vars

-----------------------------------------------------------------------------
(* Properties *)

TypeOK ==
  /\ task \in [scope : {"TEAM", "GLOBAL"}, direct : BOOLEAN, status : Status,
               responsible : Member \cup {Nobody}, sent : BOOLEAN]
  /\ recorded \subseteq [file : File, on : {"TASK", "SUBMISSION"}, by : Viewer]
  /\ stored \subseteq File /\ abandoned \subseteq File /\ unsure \subseteq File
  /\ call \in [Call -> [phase : {"toMake", "uploading", "recording", "destroying", "downloading",
                                 "unavailable", "done"},
                        op : {"UPLOAD", "SUBMIT", "DOWNLOAD"}, viewer : Viewer,
                        count : 0..MaxFiles, files : SUBSET File]]
  /\ crashes \in 0..MaxCrashes

(* A file that is recorded can be had: a download is refused its contents  *)
(* only when the file was deleted after the row was read, or when the      *)
(* commit that recorded it was never acknowledged, so that its contents    *)
(* were destroyed as those of a failed call.                               *)
RecordedFilesAreServed ==
  \A c \in Call : call[c].phase = "unavailable" =>
    \A f \in call[c].files : f \in unsure \/ References(f) = {}

(* Nothing is left in the store without cause: contents that no row        *)
(* records belong to a call still under way, or were left by a crash, by a *)
(* failure of the store itself, or by a deletion whose commit was not      *)
(* acknowledged, so that its call never went on to the store.  In          *)
(* particular a refused upload, and one that breaks off halfway, removes   *)
(* what it has stored.                                                     *)
UnderWay ==
  UNION {call[c].files :
           c \in {d \in Call : call[d].phase \in {"uploading", "recording", "destroying"}}}

NothingIsLeftBehind ==
  \A f \in stored : References(f) # {} \/ f \in abandoned \/ f \in UnderWay

(* The files of a task stay as they are from the moment it is handed in,   *)
(* and however long an upload that was allowed takes, it does not add one  *)
(* then, nor more than the task may have.  This is the lock of the life of *)
(* the task; that a distribution leaves the files to the person            *)
(* responsible (MayMutate) is not part of it.                              *)
LockedFilesStay ==
  [][/\ ~LifecycleEditable => OnTask' = OnTask
     /\ Cardinality(OnTask') <= MaxFiles]_vars
=============================================================================
