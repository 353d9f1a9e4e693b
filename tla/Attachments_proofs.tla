------------------------ MODULE Attachments_proofs ------------------------
(***************************************************************************)
(* Attachments, for any people, calls and number of files: contents and    *)
(* rows, which no transaction spans, stay together through refused and     *)
(* broken uploads, unacknowledged commits, deletions and crashes.          *)
(***************************************************************************)
EXTENDS Attachments, FunctionTheorems, FiniteSetTheorems, TLAPS

USE PeopleAssumption, NobodyAssumption, EarlierAssumption, FilesAssumption, CrashesAssumption

(* The first k files of a call.                                            *)
FirstFiles(c, k) == {c} \X (1..k)

(* How far a call has come is what its files say.                          *)
ProgressOf(c) ==
  /\ call[c].phase = "uploading" =>
       \E k \in Nat : k < call[c].count /\ call[c].files = FirstFiles(c, k)
  /\ call[c].phase = "recording" => call[c].files = FirstFiles(c, call[c].count)
  /\ call[c].phase \in {"downloading", "unavailable"} => \E f \in File : call[c].files = {f}

(* The call that stores a file will not record it any more.                *)
Past(f) == \A c \in Call : f[1] = c => call[c].phase \notin {"toMake", "uploading", "recording"}

RowsHaveContents ==
  \A r \in recorded : Past(r.file) /\ (r.file \in stored \/ r.file \in unsure)

(* What a call means to record is stored; what it means to destroy, or did *)
(* not get, no row records, unless that row's commit was unacknowledged.   *)
FilesOf(c) ==
  /\ call[c].phase \in {"uploading", "recording"} => call[c].files \subseteq stored
  /\ call[c].phase \in {"destroying", "downloading", "unavailable"} =>
       \A f \in call[c].files : Past(f)
  /\ call[c].phase \in {"destroying", "unavailable"} =>
       \A f \in call[c].files : f \in unsure \/ References(f) = {}

TaskHasRoom == IsFiniteSet(OnTask) /\ Cardinality(OnTask) <= MaxFiles

Inv ==
  /\ TypeOK /\ TaskHasRoom
  /\ \A c \in Call : ProgressOf(c) /\ FilesOf(c)
  /\ RowsHaveContents /\ NothingIsLeftBehind

-----------------------------------------------------------------------------
(* The shapes of a call                                                    *)

CallType == [phase : {"toMake", "uploading", "recording", "destroying", "downloading",
                      "unavailable", "done"},
             op : {"UPLOAD", "SUBMIT", "DOWNLOAD"}, viewer : Viewer,
             count : 0..MaxFiles, files : SUBSET File]

Early == {"toMake", "uploading", "recording"}

(* The calls that are not under way have no files.                         *)
LEMMA RestingCalls ==
  /\ NotMade \in CallType /\ Done \in CallType
  /\ NotMade.files = {} /\ NotMade.phase = "toMake"
  /\ Done.files = {} /\ Done.phase = "done"
BY DEF NotMade, Done, CallType, Viewer

(* A file that is stored is one of its call.                               *)
LEMMA FirstFilesType ==
  ASSUME NEW c \in Call, NEW k \in 0..MaxFiles
  PROVE  /\ FirstFiles(c, k) \subseteq File
         /\ IsFiniteSet(FirstFiles(c, k)) /\ Cardinality(FirstFiles(c, k)) = k
         /\ \A f \in FirstFiles(c, k) : f[1] = c
         /\ k < MaxFiles => FirstFiles(c, k) \cup {<<c, k + 1>>} = FirstFiles(c, k + 1)
<1>1. FirstFiles(c, k) \subseteq File
  BY DEF FirstFiles, File
<1>2. IsFiniteSet(FirstFiles(c, k)) /\ Cardinality(FirstFiles(c, k)) = k
  <2>1. IsFiniteSet({c}) /\ Cardinality({c}) = 1
    BY FS_Singleton
  <2>2. IsFiniteSet(1..k) /\ Cardinality(1..k) = k
    BY FS_Interval
  <2>3. /\ IsFiniteSet({c} \X (1..k))
        /\ Cardinality({c} \X (1..k)) = Cardinality({c}) * Cardinality(1..k)
    BY <2>1, <2>2, FS_Product
  <2>4. 1 * k = k
    OBVIOUS
  <2> QED
    BY <2>1, <2>2, <2>3, <2>4 DEF FirstFiles
<1>3. \A f \in FirstFiles(c, k) : f[1] = c
  BY DEF FirstFiles
<1>4. FirstFiles(c, k) \cup {<<c, k + 1>>} = FirstFiles(c, k + 1)
  <2>1. 1..(k + 1) = (1..k) \cup {k + 1}
    OBVIOUS
  <2> QED
    BY <2>1 DEF FirstFiles
<1> QED
  BY <1>1, <1>2, <1>3, <1>4

(* A call that stores a file stores the next one of its own.               *)
LEMMA NextFile ==
  ASSUME TypeOK, NEW c \in Call, ProgressOf(c), call[c].phase = "uploading"
  PROVE  \E k \in Nat :
           /\ k < call[c].count /\ call[c].count \in 1..MaxFiles
           /\ call[c].files = FirstFiles(c, k) /\ Cardinality(call[c].files) = k
           /\ <<c, k + 1>> \in File
           /\ call[c].files \cup {<<c, k + 1>>} = FirstFiles(c, k + 1)
<1>1. PICK k \in Nat : k < call[c].count /\ call[c].files = FirstFiles(c, k)
  BY DEF ProgressOf
<1>2. call[c].count \in 0..MaxFiles
  BY DEF TypeOK
<1>3. k \in 0..MaxFiles /\ k < MaxFiles /\ call[c].count \in 1..MaxFiles
  BY <1>1, <1>2
<1>4. <<c, k + 1>> \in File
  BY <1>3 DEF File
<1>5. /\ Cardinality(FirstFiles(c, k)) = k
      /\ FirstFiles(c, k) \cup {<<c, k + 1>>} = FirstFiles(c, k + 1)
  BY <1>3, FirstFilesType
<1> QED
  BY <1>1, <1>3, <1>4, <1>5

(* A failed call has only to destroy what it has stored.                   *)
LEMMA FailedCall ==
  ASSUME TypeOK, NEW c \in Call, Failed(c)
  PROVE  \E x \in CallType :
           /\ call' = [call EXCEPT ![c] = x]
           /\ x.files = call[c].files
           /\ x.phase = IF call[c].files = {} THEN "done" ELSE "destroying"
<1> DEFINE x == IF ToDestroy(c) = {} THEN Done ELSE [call[c] EXCEPT !.phase = "destroying"]
<1>1. call' = [call EXCEPT ![c] = x]
  BY DEF Failed
<1>2. call[c] \in CallType
  BY DEF TypeOK, CallType
<1>3. x \in CallType /\ x.files = call[c].files
      /\ x.phase = IF call[c].files = {} THEN "done" ELSE "destroying"
  BY <1>2, RestingCalls DEF ToDestroy, CallType
<1> QED
  BY <1>1, <1>3

-----------------------------------------------------------------------------
(* A step of one call                                                      *)

BusyFiles(c) == IF call[c].phase \in {"uploading", "recording", "destroying"}
                THEN call[c].files ELSE {}

OneCall(c) ==
  /\ \A d \in Call \ {c} : call'[d] = call[d]
  /\ call'[c].phase \in Early => call[c].phase \in Early

(* What rows, contents and history a step of one call may change.          *)
Loses(f) == f \in unsure' \/ \A r \in recorded' : r.file # f
Adds(c, r) ==
  /\ r.file[1] = c /\ r.file \in stored'
  /\ call[c].phase \in Early /\ call'[c].phase \notin Early

OneCallsFiles(c) ==
  /\ unsure \subseteq unsure' /\ abandoned \subseteq abandoned'
  /\ \A f \in stored \ stored' : Past(f) /\ Loses(f)
  /\ \A r \in recorded' \ recorded : Adds(c, r)
  /\ \A f \in stored' : \/ f \in stored /\ f \notin BusyFiles(c) /\ References(f) \subseteq References(f)'
                        \/ References(f)' # {} \/ f \in abandoned' \/ f \in BusyFiles(c)'

(* What is past stays past.                                                *)
LEMMA PastStays ==
  ASSUME NEW c \in Call, OneCall(c), NEW f, Past(f)
  PROVE  Past(f)'
BY DEF OneCall, Past, Early

(* The files of a call that is still storing or recording are its own.     *)
LEMMA OwnFiles ==
  ASSUME NEW c \in Call, ProgressOf(c), call[c].phase \in {"uploading", "recording"},
         NEW f \in call[c].files
  PROVE  f[1] = c
BY DEF ProgressOf, FirstFiles

(* The step of one call does not disturb the others.                       *)
LEMMA OthersUndisturbed ==
  ASSUME Inv, NEW c \in Call, OneCall(c), OneCallsFiles(c), NEW d \in Call \ {c}
  PROVE  ProgressOf(d)' /\ FilesOf(d)'
<1>1. call'[d] = call[d] /\ ProgressOf(d) /\ FilesOf(d)
  BY DEF OneCall, Inv
<1>2. ProgressOf(d)'
  BY <1>1 DEF ProgressOf
<1>3. ASSUME call[d].phase \in {"uploading", "recording"}
      PROVE  call'[d].files \subseteq stored'
  <2>1. \A f \in call[d].files : ~Past(f)
    BY <1>1, <1>3, OwnFiles DEF Past
  <2> QED
    BY <1>1, <1>3, <2>1 DEF FilesOf, OneCallsFiles
<1>4. ASSUME call[d].phase \in {"destroying", "downloading", "unavailable"},
             NEW f \in call[d].files
      PROVE  Past(f)'
  BY <1>1, <1>4, PastStays DEF FilesOf
<1>5. ASSUME call[d].phase \in {"destroying", "unavailable"}, NEW f \in call[d].files
      PROVE  f \in unsure' \/ References(f)' = {}
  <2>1. Past(f) /\ (f \in unsure \/ References(f) = {})
    BY <1>1, <1>5 DEF FilesOf
  <2>2. \A r \in recorded' \ recorded : r.file # f
    BY <2>1 DEF OneCallsFiles, Adds, Past, Early
  <2> QED
    BY <2>1, <2>2 DEF OneCallsFiles, References
<1> QED
  BY <1>1, <1>2, <1>3, <1>4, <1>5 DEF FilesOf

(* A row that stays keeps its contents, or was never acknowledged.         *)
LEMMA RowsKeepContents ==
  ASSUME Inv, NEW c \in Call, OneCall(c), OneCallsFiles(c)
  PROVE  RowsHaveContents'
<1>1. ASSUME NEW r \in recorded' \cap recorded
      PROVE  Past(r.file)' /\ (r.file \in stored' \/ r.file \in unsure')
  <2>1. Past(r.file) /\ (r.file \in stored \/ r.file \in unsure)
    BY <1>1 DEF Inv, RowsHaveContents
  <2>2. Past(r.file)'
    BY <2>1, PastStays
  <2> QED
    BY <1>1, <2>1, <2>2 DEF OneCallsFiles, Loses
<1>2. ASSUME NEW r \in recorded' \ recorded
      PROVE  Past(r.file)' /\ r.file \in stored'
  BY <1>2 DEF OneCallsFiles, Adds, Past, Early
<1> QED
  BY <1>1, <1>2 DEF RowsHaveContents

(* Nothing is left behind by the step of one call.                         *)
LEMMA LeavesNothing ==
  ASSUME Inv, NEW c \in Call, OneCall(c), OneCallsFiles(c)
  PROVE  NothingIsLeftBehind'
<1>1. UnderWay = UNION {BusyFiles(d) : d \in Call} /\ UnderWay' = UNION {BusyFiles(d)' : d \in Call}
  BY DEF UnderWay, BusyFiles
<1>2. \A d \in Call \ {c} : BusyFiles(d)' = BusyFiles(d)
  BY DEF OneCall, BusyFiles
<1>3. ASSUME NEW f \in stored'
      PROVE  References(f)' # {} \/ f \in abandoned' \/ f \in UnderWay'
  <2>1. CASE f \in stored /\ f \notin BusyFiles(c) /\ References(f) \subseteq References(f)'
    <3>1. References(f) # {} \/ f \in abandoned \/ f \in UnderWay
      BY <2>1 DEF Inv, NothingIsLeftBehind
    <3>2. f \in UnderWay => f \in UnderWay'
      BY <1>1, <1>2, <2>1
    <3> QED
      BY <2>1, <3>1, <3>2 DEF OneCallsFiles
  <2>2. CASE References(f)' # {} \/ f \in abandoned' \/ f \in BusyFiles(c)'
    BY <1>1, <2>2
  <2> QED
    BY <1>3, <2>1, <2>2 DEF OneCallsFiles
<1> QED
  BY <1>3 DEF NothingIsLeftBehind

(* So it keeps the invariant, if it keeps the rest of it.                  *)
LEMMA OneCallKeeps ==
  ASSUME Inv, NEW c \in Call, OneCall(c), OneCallsFiles(c),
         TypeOK', TaskHasRoom', ProgressOf(c)', FilesOf(c)'
  PROVE  Inv'
<1>1. \A d \in Call : ProgressOf(d)' /\ FilesOf(d)'
  BY OthersUndisturbed
<1> QED
  BY <1>1, RowsKeepContents, LeavesNothing DEF Inv

-----------------------------------------------------------------------------
(* The actions                                                             *)

(* How a call is replaced by another in the function of calls.             *)
LEMMA CallBecomes ==
  ASSUME TypeOK, NEW c \in Call, NEW x \in CallType, call' = [call EXCEPT ![c] = x],
         x.phase \in Early => call[c].phase \in Early
  PROVE  call' \in [Call -> CallType] /\ call'[c] = x /\ OneCall(c)
BY DEF TypeOK, CallType, OneCall

(* Most steps change one call only: neither the task, nor rows, nor        *)
(* contents.                                                               *)
LEMMA OnlyTheCall ==
  ASSUME Inv, NEW c \in Call, NEW x \in CallType, call' = [call EXCEPT ![c] = x],
         x.phase \in Early => call[c].phase \in Early,
         UNCHANGED <<task, recorded, stored, abandoned, unsure, crashes>>,
         BusyFiles(c) \subseteq BusyFiles(c)',
         ProgressOf(c)', FilesOf(c)'
  PROVE  Inv'
<1>1. call' \in [Call -> CallType] /\ call'[c] = x /\ OneCall(c)
  BY CallBecomes DEF Inv
<1>2. TypeOK'
  BY <1>1 DEF Inv, TypeOK, CallType
<1>3. TaskHasRoom'
  BY DEF Inv, TaskHasRoom, OnTask
<1>4. OneCallsFiles(c)
  <2>1. \A f \in stored : References(f)' = References(f)
    BY DEF References
  <2>2. \A f \in stored : f \in BusyFiles(c) => f \in BusyFiles(c)'
    OBVIOUS
  <2> QED
    BY <2>1, <2>2 DEF OneCallsFiles
<1> QED
  BY <1>1, <1>2, <1>3, <1>4, OneCallKeeps

(* Beginning an upload or a submission: nothing is stored yet.             *)
LEMMA BeginKeeps ==
  ASSUME Inv, NEW c \in Call, NEW op \in {"UPLOAD", "SUBMIT"}, NEW v \in Viewer,
         NEW n \in 0..MaxFiles, Begin(c, op, v, n)
  PROVE  Inv'
<1> DEFINE x == [phase |-> IF n = 0 THEN "recording" ELSE "uploading", op |-> op, viewer |-> v,
                 count |-> n, files |-> {}]
<1>1. x \in CallType /\ call' = [call EXCEPT ![c] = x] /\ call[c].phase \in Early
  BY DEF CallType, Begin, Early
<1>2. call'[c] = x
  BY <1>1 DEF Inv, TypeOK
<1>3. FirstFiles(c, 0) = {}
  BY DEF FirstFiles
<1>4. ProgressOf(c)'
  BY <1>2, <1>3 DEF ProgressOf
<1>5. FilesOf(c)'
  BY <1>2 DEF FilesOf
<1>6. BusyFiles(c) = {}
  BY DEF Begin, BusyFiles
<1> QED
  BY <1>1, <1>4, <1>5, <1>6, OnlyTheCall DEF Begin

(* A failure between the upload and the commit leaves the files to the     *)
(* call, which is to destroy them; no row records them yet.                *)
LEMMA RecordFailsKeeps ==
  ASSUME Inv, NEW c \in Call, RecordFails(c)
  PROVE  Inv'
<1>1. ProgressOf(c) /\ FilesOf(c) /\ RowsHaveContents /\ TypeOK
  BY DEF Inv
<1>2. PICK x \in CallType :
        /\ call' = [call EXCEPT ![c] = x]
        /\ x.files = call[c].files
        /\ x.phase = IF call[c].files = {} THEN "done" ELSE "destroying"
  BY <1>1, FailedCall DEF RecordFails
<1>3. call'[c] = x
  BY <1>1, <1>2 DEF TypeOK
<1>4. \A f \in call[c].files : f[1] = c /\ ~Past(f)
  BY <1>1, OwnFiles DEF RecordFails, Past, Early
<1>5. \A f \in call[c].files : Past(f)' /\ References(f)' = {}
  <2>1. \A f \in call[c].files : References(f) = {}
    BY <1>1, <1>4 DEF RowsHaveContents, References
  <2>2. \A f \in call[c].files : Past(f)'
    BY <1>2, <1>3, <1>4 DEF Past, Early
  <2> QED
    BY <2>1, <2>2 DEF RecordFails, References
<1>6. ProgressOf(c)'
  BY <1>2, <1>3 DEF ProgressOf
<1>7. FilesOf(c)'
  BY <1>2, <1>3, <1>5 DEF FilesOf
<1>8. BusyFiles(c) \subseteq BusyFiles(c)'
  BY <1>2, <1>3 DEF BusyFiles
<1> QED
  BY <1>2, <1>6, <1>7, <1>8, OnlyTheCall DEF RecordFails, Early

(* A file that is stored belongs to the call that is under way.            *)
LEMMA StoreFileKeeps ==
  ASSUME Inv, NEW c \in Call, StoreFile(c)
  PROVE  Inv'
<1> DEFINE f == <<c, Cardinality(call[c].files) + 1>>
           x == [call[c] EXCEPT !.files = @ \cup {f},
                                !.phase = IF f[2] = call[c].count THEN "recording" ELSE @]
<1>1. TypeOK /\ ProgressOf(c) /\ FilesOf(c) /\ call[c] \in CallType
      /\ call[c].phase = "uploading"
  BY DEF Inv, TypeOK, CallType, StoreFile
<1>2. PICK k \in Nat :
        /\ k < call[c].count /\ call[c].count \in 1..MaxFiles
        /\ call[c].files = FirstFiles(c, k) /\ Cardinality(call[c].files) = k
        /\ <<c, k + 1>> \in File
        /\ call[c].files \cup {<<c, k + 1>>} = FirstFiles(c, k + 1)
  BY <1>1, NextFile
<1>3. f = <<c, k + 1>> /\ f \in File /\ f[2] = k + 1
  BY <1>2
<1>4. call' = [call EXCEPT ![c] = x]
  BY <1>1 DEF StoreFile, TypeOK
<1> HIDE DEF f
<1>5. /\ x \in CallType /\ x.files = FirstFiles(c, k + 1) /\ x.count = call[c].count
      /\ x.phase = IF k + 1 = call[c].count THEN "recording" ELSE "uploading"
  BY <1>1, <1>2, <1>3 DEF CallType
<1> HIDE DEF x
<1>6. call' \in [Call -> CallType] /\ call'[c] = x /\ OneCall(c)
  BY <1>1, <1>4, <1>5, CallBecomes DEF Early
<1>7. stored' = stored \cup {f} /\ f \in x.files
  BY <1>2, <1>3, <1>5 DEF StoreFile, f
<1>8. TypeOK'
  BY <1>1, <1>3, <1>6, <1>7 DEF TypeOK, CallType, StoreFile
<1>9. TaskHasRoom'
  BY DEF Inv, TaskHasRoom, OnTask, StoreFile
<1>10. ProgressOf(c)'
  <2>1. k + 1 # call[c].count => k + 1 < call[c].count
    BY <1>2
  <2> QED
    BY <1>5, <1>6, <2>1 DEF ProgressOf
<1>11. FilesOf(c)'
  BY <1>1, <1>2, <1>3, <1>5, <1>6, <1>7 DEF FilesOf
<1>12. BusyFiles(c) \subseteq BusyFiles(c)' /\ f \in BusyFiles(c)'
  BY <1>1, <1>2, <1>5, <1>6, <1>7 DEF BusyFiles
<1>13. OneCallsFiles(c)
  <2>1. \A g \in stored : References(g)' = References(g)
    BY DEF References, StoreFile
  <2> QED
    BY <1>7, <1>12, <2>1 DEF OneCallsFiles, StoreFile
<1> QED
  BY <1>6, <1>8, <1>9, <1>10, <1>11, <1>13, OneCallKeeps

(* Contents the failing store kept are abandoned; those it stored before   *)
(* are left to the call to destroy.                                        *)
LEMMA StoreFailsKeeps ==
  ASSUME Inv, NEW c \in Call, StoreFails(c)
  PROVE  Inv'
<1> DEFINE f == <<c, Cardinality(call[c].files) + 1>>
<1>1. TypeOK /\ ProgressOf(c) /\ RowsHaveContents /\ call[c].phase = "uploading"
  BY DEF Inv, StoreFails
<1>2. f \in File
  BY <1>1, NextFile
<1>3. PICK x \in CallType :
        /\ call' = [call EXCEPT ![c] = x]
        /\ x.files = call[c].files
        /\ x.phase = IF call[c].files = {} THEN "done" ELSE "destroying"
  BY <1>1, FailedCall DEF StoreFails
<1>4. call' \in [Call -> CallType] /\ call'[c] = x /\ OneCall(c)
  BY <1>1, <1>3, CallBecomes DEF Early
<1> HIDE DEF f
<1>5. \/ stored' = stored /\ abandoned' = abandoned
      \/ stored' = stored \cup {f} /\ abandoned' = abandoned \cup {f}
  BY DEF StoreFails, f
<1>6. UNCHANGED <<task, recorded, unsure, crashes>>
  BY DEF StoreFails
<1>7. TypeOK'
  BY <1>1, <1>2, <1>4, <1>5, <1>6 DEF TypeOK, CallType
<1>8. TaskHasRoom'
  BY <1>6 DEF Inv, TaskHasRoom, OnTask
<1>9. \A g \in call[c].files : Past(g)' /\ References(g)' = {}
  <2>1. \A g \in call[c].files : g[1] = c
    BY <1>1, OwnFiles
  <2>2. \A g \in call[c].files : References(g) = {}
    BY <1>1, <2>1 DEF RowsHaveContents, References, Past
  <2>3. \A g \in call[c].files : Past(g)'
    BY <1>3, <1>4, <2>1 DEF Past
  <2> QED
    BY <1>6, <2>2, <2>3 DEF References
<1>10. ProgressOf(c)' /\ FilesOf(c)' /\ BusyFiles(c) \subseteq BusyFiles(c)'
  BY <1>3, <1>4, <1>9 DEF ProgressOf, FilesOf, BusyFiles
<1>11. OneCallsFiles(c)
  <2>1. \A g \in stored : References(g)' = References(g)
    BY <1>6 DEF References
  <2> QED
    BY <1>5, <1>6, <1>10, <2>1 DEF OneCallsFiles
<1> QED
  BY <1>4, <1>7, <1>8, <1>10, <1>11, OneCallKeeps

(* The rows a call may record.                                             *)
LEMMA RowsOfCall ==
  ASSUME TypeOK, NEW c \in Call
  PROVE  /\ Rows(c) \subseteq [file : File, on : {"TASK", "SUBMISSION"}, by : Viewer]
         /\ \A r \in Rows(c) : r.file \in call[c].files
         /\ \A f \in call[c].files : \E r \in Rows(c) : r.file = f
<1> DEFINE place == IF call[c].op = "UPLOAD" THEN "TASK" ELSE "SUBMISSION"
           Row(f) == [file |-> f, on |-> place, by |-> call[c].viewer]
<1>1. Rows(c) = {Row(f) : f \in call[c].files}
  BY DEF Rows
<1>2. call[c].viewer \in Viewer /\ call[c].files \subseteq File
  BY DEF TypeOK
<1>3. \A f \in call[c].files : Row(f).file = f
  OBVIOUS
<1>4. \A f \in call[c].files : Row(f) \in [file : File, on : {"TASK", "SUBMISSION"}, by : Viewer]
  BY <1>2
<1> HIDE DEF Row
<1> QED
  BY <1>1, <1>3, <1>4

(* Rows and contents meet: what a commit records was stored before, and if *)
(* its outcome is unknown, the files that go again are marked unsure.      *)
LEMMA RecordKeeps ==
  ASSUME Inv, NEW c \in Call, call[c].phase = "recording",
         recorded' = recorded \cup Rows(c), Acknowledged(c),
         UNCHANGED <<stored, abandoned, crashes>>,
         task' = task \/ task' = [task EXCEPT !.status = "SUBMITTED"],
         TaskHasRoom'
  PROVE  Inv'
<1>1. TypeOK /\ ProgressOf(c) /\ FilesOf(c)
  BY DEF Inv
<1>2. PICK x \in CallType :
        /\ call' = [call EXCEPT ![c] = x]
        /\ \/ x = Done /\ unsure' = unsure
           \/ /\ x.phase = "destroying" /\ x.files = call[c].files
              /\ unsure' = unsure \cup call[c].files
  <2>1. CASE call' = [call EXCEPT ![c] = AfterCommit(c)] /\ unsure' = unsure
    BY <2>1, RestingCalls DEF AfterCommit
  <2>2. CASE call[c].files # {} /\ Failed(c) /\ unsure' = unsure \cup call[c].files
    BY <1>1, <2>2, FailedCall
  <2> QED
    BY <2>1, <2>2 DEF Acknowledged
<1>3. x.phase \in {"done", "destroying"}
  BY <1>2, RestingCalls
<1>4. call' \in [Call -> CallType] /\ call'[c] = x /\ OneCall(c)
  BY <1>1, <1>2, <1>3, CallBecomes DEF Early
<1>5. \A f \in call[c].files : f[1] = c /\ f \in stored
  BY <1>1, OwnFiles DEF FilesOf
<1>6. TypeOK'
  <2>1. recorded' \subseteq [file : File, on : {"TASK", "SUBMISSION"}, by : Viewer]
    BY <1>1, RowsOfCall DEF TypeOK
  <2>2. unsure' \subseteq File
    BY <1>1, <1>2 DEF TypeOK
  <2>3. task' \in [scope : {"TEAM", "GLOBAL"}, direct : BOOLEAN, status : Status,
                   responsible : Member \cup {Nobody}, sent : BOOLEAN]
    BY <1>1 DEF TypeOK, Status
  <2> QED
    BY <1>1, <1>4, <2>1, <2>2, <2>3 DEF TypeOK, CallType
<1>7. ProgressOf(c)'
  BY <1>3, <1>4 DEF ProgressOf
<1>8. FilesOf(c)'
  <2>1. ASSUME x.phase = "destroying", NEW f \in x.files PROVE Past(f)' /\ f \in unsure'
    <3>1. f \in call[c].files /\ f \in unsure'
      BY <1>2, <2>1, RestingCalls
    <3> QED
      BY <1>3, <1>4, <1>5, <3>1 DEF Past
  <2> QED
    BY <1>3, <1>4, <2>1 DEF FilesOf
<1>9. OneCallsFiles(c)
  <2>1. unsure \subseteq unsure'
    BY <1>2
  <2>2. \A r \in recorded' \ recorded : Adds(c, r)
    BY <1>1, <1>3, <1>4, <1>5, RowsOfCall DEF Adds, Early
  <2>3. \A f \in stored : References(f) \subseteq References(f)'
    BY DEF References
  <2>4. \A f \in BusyFiles(c) : References(f)' # {}
    BY <1>1, RowsOfCall DEF BusyFiles, References
  <2> QED
    BY <2>1, <2>2, <2>3, <2>4 DEF OneCallsFiles
<1> QED
  BY <1>4, <1>6, <1>7, <1>8, <1>9, OneCallKeeps

(* An upload that is still allowed when it is recorded finds room for all  *)
(* its files: there are as many as were announced.                         *)
LEMMA UploadFits ==
  ASSUME Inv, NEW c \in Call, call[c].phase = "recording", HasRoom(call[c].count),
         recorded' = recorded \cup Rows(c)
  PROVE  TaskHasRoom'
<1> DEFINE files == call[c].files
           row == [f \in files |-> [file |-> f, on |-> IF call[c].op = "UPLOAD" THEN "TASK"
                                                                          ELSE "SUBMISSION",
                                    by |-> call[c].viewer]]
           added == Rows(c) \cap {r \in Rows(c) : r.on = "TASK"}
<1>1. call[c].count \in 0..MaxFiles /\ files = FirstFiles(c, call[c].count)
  BY DEF Inv, TypeOK, ProgressOf
<1>2. IsFiniteSet(files) /\ Cardinality(files) = call[c].count
  BY <1>1, FirstFilesType
<1>3. row \in Surjection(files, Rows(c))
  BY DEF Rows, Surjection
<1> HIDE DEF row, files
<1>4. IsFiniteSet(Rows(c)) /\ Cardinality(Rows(c)) <= call[c].count
  BY <1>2, <1>3, FS_Surjection
<1>5. added \subseteq Rows(c)
  OBVIOUS
<1>6. IsFiniteSet(added) /\ Cardinality(added) <= Cardinality(Rows(c))
  BY <1>4, <1>5, FS_Subset
<1>7. OnTask' = OnTask \cup added
  BY DEF OnTask
<1> HIDE DEF added
<1>8. IsFiniteSet(OnTask) /\ Cardinality(OnTask) + call[c].count <= MaxFiles
  BY DEF Inv, TaskHasRoom, HasRoom
<1>9. /\ IsFiniteSet(OnTask \cup added)
      /\ Cardinality(OnTask \cup added)
           = Cardinality(OnTask) + Cardinality(added) - Cardinality(OnTask \cap added)
      /\ IsFiniteSet(OnTask \cap added)
  BY <1>6, <1>8, FS_Union, FS_Intersection
<1>10. /\ Cardinality(OnTask) \in Nat /\ Cardinality(added) \in Nat
       /\ Cardinality(OnTask \cap added) \in Nat /\ Cardinality(Rows(c)) \in Nat
  BY <1>4, <1>6, <1>8, <1>9, FS_CardinalityType
<1>11. Cardinality(OnTask \cup added) <= MaxFiles
  BY <1>1, <1>4, <1>6, <1>8, <1>9, <1>10
<1> QED
  BY <1>7, <1>9, <1>11 DEF TaskHasRoom

(* Files of a submission are not files of the task.                        *)
LEMMA SubmissionTakesNoRoom ==
  ASSUME NEW c \in Call, call[c].op = "SUBMIT", recorded' = recorded \cup Rows(c)
  PROVE  OnTask' = OnTask
<1>1. \A r \in Rows(c) : r.on # "TASK"
  BY DEF Rows
<1> QED
  BY <1>1 DEF OnTask

(* Deletion: the row goes first; the contents are destroyed by the call    *)
(* or, if the commit was not acknowledged, abandoned.                      *)
LEMMA DeleteKeeps ==
  ASSUME Inv, NEW c \in Call, NEW v \in Viewer, NEW r \in recorded, DeleteAttachment(c, v, r)
  PROVE  Inv'
<1> DEFINE gone == [NotMade EXCEPT !.phase = "destroying", !.files = {r.file}]
<1>1. TypeOK /\ RowsHaveContents /\ call[c].phase = "toMake" /\ r.file \in File
  BY DEF Inv, TypeOK, DeleteAttachment
<1>2. gone \in CallType /\ gone.phase = "destroying" /\ gone.files = {r.file}
  BY <1>1, RestingCalls DEF CallType
<1> HIDE DEF gone
<1>3. PICK x \in CallType :
        /\ call' = [call EXCEPT ![c] = x]
        /\ \/ x = gone /\ abandoned' = abandoned
           \/ x = Done /\ abandoned' = abandoned \cup {r.file}
  BY <1>2, RestingCalls DEF DeleteAttachment, gone
<1>4. call' \in [Call -> CallType] /\ call'[c] = x /\ OneCall(c)
  BY <1>1, <1>3, CallBecomes DEF Early
<1>5. /\ recorded' = recorded \ {r} /\ UNCHANGED <<task, stored, unsure, crashes>>
      /\ References(r.file) = {r}
  BY DEF DeleteAttachment
<1>6. TypeOK'
  <2>1. abandoned' \subseteq File
    BY <1>1, <1>3 DEF TypeOK
  <2> QED
    BY <1>1, <1>4, <1>5, <2>1 DEF TypeOK, CallType
<1>7. TaskHasRoom'
  <2>1. OnTask' = OnTask \ {r} /\ r \in OnTask
    BY <1>5 DEF OnTask, DeleteAttachment
  <2>2. IsFiniteSet(OnTask) /\ Cardinality(OnTask) <= MaxFiles
    BY DEF Inv, TaskHasRoom
  <2>3. Cardinality(OnTask) \in Nat
    BY <2>2, FS_CardinalityType
  <2>4. /\ IsFiniteSet(OnTask \ {r})
        /\ Cardinality(OnTask \ {r}) = Cardinality(OnTask) - 1
    BY <2>1, <2>2, FS_RemoveElement
  <2>5. Cardinality(OnTask) - 1 <= MaxFiles
    BY <2>2, <2>3
  <2> QED
    BY <2>1, <2>4, <2>5 DEF TaskHasRoom
<1>8. ProgressOf(c)'
  BY <1>2, <1>3, <1>4, RestingCalls DEF ProgressOf
<1>9. References(r.file)' = {} /\ \A f : f # r.file => References(f)' = References(f)
  BY <1>5 DEF References
<1>10. FilesOf(c)'
  <2>1. Past(r.file)'
    BY <1>1, <1>4, PastStays DEF RowsHaveContents
  <2> QED
    BY <1>2, <1>3, <1>4, <1>9, <2>1, RestingCalls DEF FilesOf
<1>11. OneCallsFiles(c)
  <2>1. BusyFiles(c) = {}
    BY <1>1 DEF BusyFiles
  <2>2. r.file \in abandoned' \/ r.file \in BusyFiles(c)'
    BY <1>2, <1>3, <1>4 DEF BusyFiles
  <2>3. abandoned \subseteq abandoned'
    BY <1>3
  <2> QED
    BY <1>5, <1>9, <2>1, <2>2, <2>3 DEF OneCallsFiles
<1> QED
  BY <1>4, <1>6, <1>7, <1>8, <1>10, <1>11, OneCallKeeps

(* Destroying: a file the store keeps in spite of the call is abandoned.   *)
LEMMA DestroyKeeps ==
  ASSUME Inv, NEW c \in Call, Destroy(c)
  PROVE  Inv'
<1>1. TypeOK /\ FilesOf(c) /\ call[c] \in CallType /\ call[c].phase = "destroying"
  BY DEF Inv, TypeOK, CallType, Destroy
<1> DEFINE Left(f) == IF call[c].files = {f} THEN Done
                      ELSE [call[c] EXCEPT !.files = @ \ {f}]
<1>2. PICK f \in call[c].files :
        /\ call' = [call EXCEPT ![c] = Left(f)]
        /\ \/ stored' = stored \ {f} /\ UNCHANGED abandoned
           \/ abandoned' = abandoned \cup {f} /\ UNCHANGED stored
  BY DEF Destroy
<1> DEFINE x == Left(f)
<1>3. call' = [call EXCEPT ![c] = x]
  BY <1>2
<1>4. /\ x \in CallType /\ x.files \subseteq call[c].files \ {f}
      /\ x.phase \in {"done", "destroying"}
      /\ x.phase = "destroying" => x.files = call[c].files \ {f}
      /\ x.phase = "done" => call[c].files = {f}
  BY <1>1, RestingCalls DEF CallType
<1> HIDE DEF x, Left
<1>5. call' \in [Call -> CallType] /\ call'[c] = x /\ OneCall(c)
  BY <1>1, <1>3, <1>4, CallBecomes DEF Early
<1>6. UNCHANGED <<task, recorded, unsure, crashes>> /\ f \in File
  BY <1>1 DEF Destroy, CallType
<1>7. TypeOK'
  BY <1>1, <1>2, <1>5, <1>6 DEF TypeOK, CallType
<1>8. TaskHasRoom'
  BY <1>6 DEF Inv, TaskHasRoom, OnTask
<1>9. ProgressOf(c)'
  BY <1>4, <1>5 DEF ProgressOf
<1>10. \A g : References(g)' = References(g)
  BY <1>6 DEF References
<1>11. \A g \in call[c].files : Past(g)' /\ (g \in unsure' \/ References(g)' = {})
  BY <1>1, <1>5, <1>6, <1>10, PastStays DEF FilesOf
<1>12. FilesOf(c)'
  BY <1>4, <1>5, <1>11 DEF FilesOf
<1>13. OneCallsFiles(c)
  <2>1. Past(f) /\ (f \in unsure \/ References(f) = {})
    BY <1>1 DEF FilesOf
  <2>2. Loses(f)
    BY <1>6, <2>1 DEF Loses, References
  <2>3. \A g \in BusyFiles(c) : g = f \/ g \in BusyFiles(c)'
    BY <1>4, <1>5 DEF BusyFiles
  <2>4. f \in stored' => f \in abandoned'
    BY <1>2
  <2> QED
    BY <1>2, <1>6, <1>10, <2>1, <2>2, <2>3, <2>4 DEF OneCallsFiles
<1> QED
  BY <1>5, <1>7, <1>8, <1>9, <1>12, <1>13, OneCallKeeps

(* A download looks for the contents of a file that is recorded.           *)
LEMMA BeginDownloadKeeps ==
  ASSUME Inv, NEW c \in Call, NEW v \in Viewer, NEW r \in recorded, BeginDownload(c, v, r)
  PROVE  Inv'
<1> DEFINE x == [NotMade EXCEPT !.phase = "downloading", !.op = "DOWNLOAD", !.files = {r.file}]
<1>1. TypeOK /\ Past(r.file) /\ r.file \in File /\ call[c].phase = "toMake"
  BY DEF Inv, TypeOK, RowsHaveContents, BeginDownload
<1>2. x \in CallType /\ x.phase = "downloading" /\ x.files = {r.file}
  BY <1>1, RestingCalls DEF CallType
<1>3. call' = [call EXCEPT ![c] = x]
  BY DEF BeginDownload
<1> HIDE DEF x
<1>4. call'[c] = x /\ OneCall(c)
  BY <1>1, <1>2, <1>3, CallBecomes DEF Early
<1>5. Past(r.file)'
  BY <1>1, <1>4, PastStays
<1>6. ProgressOf(c)' /\ FilesOf(c)' /\ BusyFiles(c) = {}
  BY <1>1, <1>2, <1>4, <1>5 DEF ProgressOf, FilesOf, BusyFiles
<1> QED
  BY <1>1, <1>2, <1>3, <1>6, OnlyTheCall DEF BeginDownload, Early

(* It does not find them only if they were deleted or never acknowledged.  *)
LEMMA FetchKeeps ==
  ASSUME Inv, NEW c \in Call, Fetch(c)
  PROVE  Inv'
<1> DEFINE x == [call[c] EXCEPT !.phase = IF call[c].files \subseteq stored THEN "done"
                                                                          ELSE "unavailable"]
<1>1. TypeOK /\ ProgressOf(c) /\ FilesOf(c) /\ RowsHaveContents
      /\ call[c] \in CallType /\ call[c].phase = "downloading"
  BY DEF Inv, TypeOK, CallType, Fetch
<1>2. /\ x \in CallType /\ x.files = call[c].files /\ x.phase \in {"done", "unavailable"}
      /\ x.phase = "unavailable" => ~(call[c].files \subseteq stored)
  BY <1>1 DEF CallType
<1>3. call' = [call EXCEPT ![c] = x]
  BY DEF Fetch
<1> HIDE DEF x
<1>4. call'[c] = x /\ OneCall(c)
  BY <1>1, <1>2, <1>3, CallBecomes DEF Early
<1>5. PICK f \in File : call[c].files = {f}
  BY <1>1 DEF ProgressOf
<1>6. Past(f)' /\ (f \notin stored => f \in unsure \/ References(f) = {})
  BY <1>1, <1>4, <1>5, PastStays DEF FilesOf, RowsHaveContents, References
<1>7. ProgressOf(c)' /\ FilesOf(c)' /\ BusyFiles(c) = {}
  BY <1>1, <1>2, <1>4, <1>5, <1>6 DEF ProgressOf, FilesOf, BusyFiles, Fetch, References
<1> QED
  BY <1>1, <1>2, <1>3, <1>7, OnlyTheCall DEF Fetch, Early

(* A crash abandons what the calls under way had stored or had still to    *)
(* destroy.                                                                *)
LEMMA CrashKeeps ==
  ASSUME Inv, Crash
  PROVE  Inv'
<1> DEFINE busy == {c \in Call : call[c].phase \in {"uploading", "recording", "destroying"}}
<1>1. /\ abandoned' = abandoned \cup UnderWay
      /\ call' = [c \in Call |-> IF c \in busy THEN Done ELSE call[c]]
      /\ UNCHANGED <<task, recorded, stored, unsure>>
      /\ crashes < MaxCrashes /\ crashes' = crashes + 1
  BY DEF Crash, UnderWay
<1>2. TypeOK /\ call \in [Call -> CallType]
  BY DEF Inv, TypeOK, CallType
<1>3. \A c \in Call : \/ call'[c] = call[c] /\ call[c].phase \notin {"uploading", "recording", "destroying"}
                      \/ call'[c].phase = "done"
  BY <1>1, RestingCalls
<1>4. TypeOK'
  <2>1. UnderWay \subseteq File
    BY <1>2 DEF UnderWay, CallType
  <2>2. call' \in [Call -> CallType]
    BY <1>1, <1>2, RestingCalls
  <2>3. crashes' \in 0..MaxCrashes
    BY <1>1, <1>2 DEF TypeOK
  <2> QED
    BY <1>1, <1>2, <2>1, <2>2, <2>3 DEF TypeOK, CallType
<1>5. TaskHasRoom'
  BY <1>1 DEF Inv, TaskHasRoom, OnTask
<1>6. \A f : Past(f) => Past(f)'
  BY <1>3 DEF Past
<1>7. \A f : References(f)' = References(f)
  BY <1>1 DEF References
<1>8. ASSUME NEW c \in Call PROVE ProgressOf(c)' /\ FilesOf(c)'
  BY <1>1, <1>3, <1>6, <1>7 DEF Inv, ProgressOf, FilesOf
<1>9. RowsHaveContents'
  BY <1>1, <1>6 DEF Inv, RowsHaveContents
<1>10. NothingIsLeftBehind'
  BY <1>1, <1>7 DEF Inv, NothingIsLeftBehind
<1> QED
  BY <1>4, <1>5, <1>8, <1>9, <1>10 DEF Inv

(* The life of the task does not touch its files.                          *)
LEMMA TaskMovesKeeps ==
  ASSUME Inv, TaskMoves \/ UNCHANGED vars
  PROVE  Inv'
<1>1. UNCHANGED <<recorded, stored, call, abandoned, unsure, crashes>>
  BY DEF TaskMoves, vars
<1>2. task' \in [scope : {"TEAM", "GLOBAL"}, direct : BOOLEAN, status : Status,
                 responsible : Member \cup {Nobody}, sent : BOOLEAN]
  BY DEF TaskMoves, vars, Inv, TypeOK, Status
<1>3. TypeOK'
  BY <1>1, <1>2 DEF Inv, TypeOK
<1> QED
  BY <1>1, <1>3 DEF Inv, TaskHasRoom, OnTask, ProgressOf, FilesOf, Past, References,
                    RowsHaveContents, NothingIsLeftBehind, UnderWay

(* Every step keeps the invariant.                                         *)
LEMMA InvStep == Inv /\ [Next]_vars => Inv'
<1> SUFFICES ASSUME Inv, [Next]_vars PROVE Inv'
  OBVIOUS
<1>1. CASE TaskMoves \/ UNCHANGED vars
  BY <1>1, TaskMovesKeeps
<1>2. CASE Crash
  BY <1>2, CrashKeeps
<1>3. ASSUME NEW c \in Call, NEW v \in Viewer, NEW n \in 0..MaxFiles,
             BeginUpload(c, v, n) \/ BeginSubmission(c, v, n)
      PROVE  Inv'
  BY <1>3, BeginKeeps DEF BeginUpload, BeginSubmission
<1>4. ASSUME NEW c \in Call, NEW v \in Viewer, NEW r \in recorded,
             DeleteAttachment(c, v, r) \/ BeginDownload(c, v, r)
      PROVE  Inv'
  BY <1>4, DeleteKeeps, BeginDownloadKeeps
<1>5. ASSUME NEW c \in Call, RecordUpload(c) PROVE Inv'
  <2>1. TaskHasRoom'
    BY <1>5, UploadFits DEF RecordUpload, StillAllowed
  <2> QED
    BY <1>5, <2>1, RecordKeeps DEF RecordUpload
<1>6. ASSUME NEW c \in Call, RecordSubmission(c) PROVE Inv'
  <2>1. TaskHasRoom'
    BY <1>6, SubmissionTakesNoRoom DEF RecordSubmission, Inv, TaskHasRoom
  <2> QED
    BY <1>6, <2>1, RecordKeeps DEF RecordSubmission
<1>7. ASSUME NEW c \in Call, StoreFile(c) \/ StoreFails(c) \/ RecordFails(c) \/ Destroy(c) \/ Fetch(c)
      PROVE  Inv'
  BY <1>7, StoreFileKeeps, StoreFailsKeeps, RecordFailsKeeps, DestroyKeeps, FetchKeeps
<1> QED
  BY <1>1, <1>2, <1>3, <1>4, <1>5, <1>6, <1>7 DEF Next

(* The file that may be attached at first is in the store, and its call is *)
(* none of those that are made.                                            *)
LEMMA InvInit == Init => Inv
<1> SUFFICES ASSUME Init PROVE Inv
  OBVIOUS
<1>1. /\ call = [c \in Call |-> NotMade] /\ stored = {r.file : r \in recorded}
      /\ abandoned = {} /\ unsure = {} /\ crashes = 0
  BY DEF Init
<1>2. PICK first \in [file : File, on : {"TASK"}, by : Viewer] :
        first.file[1] = Earlier /\ (recorded = {} \/ recorded = {first})
  <2>1. <<Earlier, 1>> \in File
    BY DEF File
  <2>2. {task.responsible} \ {Nobody} \subseteq Member
    BY DEF Init
  <2>3. ASSUME NEW m \in {task.responsible} \ {Nobody},
               recorded = {[file |-> <<Earlier, 1>>, on |-> "TASK", by |-> m]}
        PROVE  \E first \in [file : File, on : {"TASK"}, by : Viewer] :
                 first.file[1] = Earlier /\ recorded = {first}
    BY <2>1, <2>2, <2>3 DEF Viewer
  <2>4. [file |-> <<Earlier, 1>>, on |-> "TASK", by |-> SuperAdmin]
          \in [file : File, on : {"TASK"}, by : Viewer]
    BY <2>1 DEF Viewer
  <2> QED
    BY <2>3, <2>4 DEF Init
<1>3. TypeOK
  <2>1. task \in [scope : {"TEAM", "GLOBAL"}, direct : BOOLEAN, status : Status,
                  responsible : Member \cup {Nobody}, sent : BOOLEAN]
    BY DEF Init, Status
  <2>2. call \in [Call -> CallType]
    BY <1>1, RestingCalls
  <2> QED
    BY <1>1, <1>2, <2>1, <2>2 DEF TypeOK, CallType
<1>4. TaskHasRoom
  <2>1. OnTask = {} \/ OnTask = {first}
    BY <1>2 DEF OnTask
  <2> QED
    BY <2>1, FS_EmptySet, FS_Singleton DEF TaskHasRoom
<1>5. \A c \in Call : ProgressOf(c) /\ FilesOf(c)
  BY <1>1, RestingCalls DEF ProgressOf, FilesOf
<1>6. RowsHaveContents
  BY <1>1, <1>2 DEF RowsHaveContents, Past
<1>7. NothingIsLeftBehind
  BY <1>1 DEF NothingIsLeftBehind, References
<1> QED
  BY <1>3, <1>4, <1>5, <1>6, <1>7 DEF Inv

-----------------------------------------------------------------------------
(* Tasks, rows, contents and calls keep their types.                       *)
THEOREM TypeCorrect == Spec => []TypeOK
<1>1. Inv => TypeOK
  BY DEF Inv
<1> QED
  BY <1>1, InvInit, InvStep, PTL DEF Spec

(* downloadTaskAttachment and its like against deletions, failures and     *)
(* crashes: what a row records can be had, unless nobody was told that it  *)
(* had been recorded.                                                      *)
THEOREM RecordedFilesAreServedHolds == Spec => []RecordedFilesAreServed
<1>1. Inv => RecordedFilesAreServed
  BY DEF Inv, FilesOf, RecordedFilesAreServed
<1> QED
  BY <1>1, InvInit, InvStep, PTL DEF Spec

(* The best-effort clean-ups leave nothing in the store but what a crash,  *)
(* the store or a lost acknowledgement explains.                           *)
THEOREM NothingIsLeftBehindHolds == Spec => []NothingIsLeftBehind
<1>1. Inv => NothingIsLeftBehind
  BY DEF Inv
<1> QED
  BY <1>1, InvInit, InvStep, PTL DEF Spec

(* A step may change the files of the task only while that is allowed.     *)
LEMMA LockedStep ==
  ASSUME Next \/ UNCHANGED vars, ~LifecycleEditable
  PROVE  OnTask' = OnTask
<1>1. CASE UNCHANGED recorded
  BY <1>1 DEF OnTask
<1>2. ASSUME NEW c \in Call, RecordSubmission(c) PROVE OnTask' = OnTask
  BY <1>2, SubmissionTakesNoRoom DEF RecordSubmission
<1>3. ASSUME NEW c \in Call, RecordUpload(c) PROVE FALSE
  BY <1>3 DEF RecordUpload, StillAllowed, MayMutate
<1>4. ASSUME NEW c \in Call, NEW v \in Viewer, NEW r \in recorded, DeleteAttachment(c, v, r)
      PROVE  FALSE
  BY <1>4 DEF DeleteAttachment, MayMutate
<1> QED
  BY <1>1, <1>2, <1>3, <1>4
     DEF Next, vars, TaskMoves, Crash, BeginUpload, BeginSubmission, Begin, BeginDownload,
         StoreFile, StoreFails, RecordFails, Destroy, Fetch

(* What was checked before the upload is checked again when it is          *)
(* recorded: a task handed in meanwhile keeps its files, and two uploads   *)
(* that both had room before do not both find it.                          *)
THEOREM LockedFilesStayHolds == Spec => LockedFilesStay
<1>1. Inv /\ [Next]_vars => [/\ ~LifecycleEditable => OnTask' = OnTask
                             /\ Cardinality(OnTask') <= MaxFiles]_vars
  <2> SUFFICES ASSUME Inv, [Next]_vars
               PROVE  /\ ~LifecycleEditable => OnTask' = OnTask
                      /\ Cardinality(OnTask') <= MaxFiles
    OBVIOUS
  <2>1. Inv'
    BY InvStep
  <2> QED
    BY <2>1, LockedStep DEF Inv, TaskHasRoom
<1> QED
  BY <1>1, InvInit, InvStep, PTL DEF Spec, LockedFilesStay
=============================================================================
