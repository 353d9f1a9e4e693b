----------------------- MODULE TaskAutomation_proofs -----------------------
(***************************************************************************)
(* Proofs about TaskAutomation, for any series, runs and requests, any     *)
(* batch size, leads, horizon and number of failures.                      *)
(*                                                                         *)
(* Nothing here rests on what a batch holds: whatever a run finds at the   *)
(* head of a stale batch, the transaction for it looks again.              *)
(***************************************************************************)
EXTENDS TaskAutomation, FiniteSetTheorems, TLAPS

-----------------------------------------------------------------------------
(* Types *)

SeriesType == [isActive : BOOLEAN, next : Nat, broadcastAll : BOOLEAN, blockedKey : Nat]
ToldType == [reminders : Nat, broadcasts : Nat, mails : Nat]

(* A run or request, whose `now` has been.                                 *)
IsWorker(x) ==
  /\ x \in [phase : {x.phase}, now : Nat, batch : {x.batch}, attempt : {x.attempt},
            mail : {x.mail}]
  /\ x.now <= clock

WorkerTypes ==
  /\ worker = [w \in Worker |-> worker[w]]
  /\ \A w \in Worker : IsWorker(worker[w])

Types ==
  /\ clock \in Nat
  /\ series \in [Series -> SeriesType]
  /\ occurrence \in [Series -> [Key -> {"NONE", "OPEN", "COMPLETED"}]]
  /\ reminder \in [Series -> [Key -> Status]]
  /\ broadcast \in [Series -> [Key -> Status]]
  /\ sendAt \in [Series -> [Key -> Int]]
  /\ told \in [Series -> [Key -> ToldType]]
  /\ WorkerTypes

(* The keys are numbers.                                                   *)
LEMMA Keys == \A d \in Key : d \in Nat
BY BoundsAssumption DEF Key

(* What a worker goes on with is one again, if it keeps its `now`.         *)
LEMMA WorkersGoOn ==
  ASSUME Types, clock' \in Nat, clock' >= clock, NEW w, NEW x,
         worker' = worker \/ worker' = [worker EXCEPT ![w] = x],
         w \in Worker => IsWorker(x)
  PROVE  WorkerTypes'
<1>1. \A v \in Worker : IsWorker(worker[v])
  BY DEF Types, WorkerTypes
<1>2. \A y : IsWorker(y) => IsWorker(y)'
  BY DEF IsWorker, Types
<1>3. \A v \in Worker : worker'[v] = worker[v] \/ IsWorker(worker'[v])
  BY DEF Types, WorkerTypes
<1>4. worker' = [v \in Worker |-> worker'[v]]
  BY DEF Types, WorkerTypes
<1> QED
  BY <1>1, <1>2, <1>3, <1>4 DEF WorkerTypes

(* The forms in which workers go on.                                       *)
LEMMA WorkerForms ==
  ASSUME Types, NEW w \in Worker
  PROVE  /\ IsWorker(Idle)
         /\ \A phase, batch : IsWorker(Busy(phase, batch))
         /\ IsWorker(ItemDone(w))
         /\ \A phase, batch : IsWorker([worker[w] EXCEPT !.phase = phase, !.batch = batch])
         /\ \A attempt, mail : IsWorker([worker[w] EXCEPT !.attempt = attempt, !.mail = mail])
<1>1. clock \in Nat /\ 0 <= clock
  BY DEF Types
<1>2. IsWorker(Idle)
  BY <1>1 DEF IsWorker, Idle
<1>3. \A phase, batch : IsWorker(Busy(phase, batch))
  BY <1>1 DEF IsWorker, Busy
<1>4. IsWorker(worker[w])
  BY DEF Types, WorkerTypes
<1>5. ASSUME NEW x, IsWorker(x), NEW phase, NEW batch, NEW attempt, NEW mail
      PROVE  /\ IsWorker([x EXCEPT !.phase = phase, !.batch = batch])
             /\ IsWorker([x EXCEPT !.attempt = attempt, !.mail = mail])
             /\ IsWorker([x EXCEPT !.batch = batch, !.attempt = attempt, !.mail = mail])
  <2>1. IsWorker([x EXCEPT !.phase = phase, !.batch = batch])
    BY <1>5 DEF IsWorker
  <2>2. IsWorker([x EXCEPT !.attempt = attempt, !.mail = mail])
    BY <1>5 DEF IsWorker
  <2>3. IsWorker([x EXCEPT !.batch = batch, !.attempt = attempt, !.mail = mail])
    BY <1>5 DEF IsWorker
  <2> QED
    BY <2>1, <2>2, <2>3
<1>6. IsWorker(ItemDone(w))
  BY <1>4, <1>5 DEF ItemDone
<1> QED
  BY <1>2, <1>3, <1>4, <1>5, <1>6

(* A mail that leaves concerns no other notice.                            *)
LEMMA MailsOnly ==
  ASSUME Types, NEW s, NEW mail
  PROVE  /\ MailSent(s, mail) \in [Series -> [Key -> ToldType]]
         /\ \A r \in Series, e \in Key :
              /\ MailSent(s, mail)[r][e].reminders = told[r][e].reminders
              /\ MailSent(s, mail)[r][e].broadcasts = told[r][e].broadcasts
<1>1. CASE mail = None
  BY <1>1 DEF MailSent, Types
<1>2. CASE mail # None
  <2>1. PICK v : v = [told[s][mail] EXCEPT !.mails = told[s][mail].mails + 1]
    OBVIOUS
  <2>2. MailSent(s, mail) = [told EXCEPT ![s][mail] = v]
    BY <1>2, <2>1 DEF MailSent
  <2>3. ASSUME s \in Series, mail \in Key
        PROVE  /\ v \in ToldType /\ v.reminders = told[s][mail].reminders
               /\ v.broadcasts = told[s][mail].broadcasts
    <3>1. told[s][mail] \in ToldType
      BY <2>3 DEF Types
    <3> QED
      BY <2>1, <3>1 DEF ToldType
  <2>4. told \in [Series -> [Key -> ToldType]]
    BY DEF Types
  <2>5. PICK f, g : f = told /\ g = MailSent(s, mail)
    OBVIOUS
  <2>6. f \in [Series -> [Key -> ToldType]] /\ g = [f EXCEPT ![s][mail] = v]
    BY <2>2, <2>4, <2>5
  <2>7. g \in [Series -> [Key -> ToldType]]
    BY <2>3, <2>6
  <2>8. \A r \in Series, e \in Key : g[r][e] = IF r = s /\ e = mail THEN v ELSE f[r][e]
    BY <2>6
  <2> QED
    BY <2>3, <2>5, <2>7, <2>8
<1> QED
  BY <1>1, <1>2

-----------------------------------------------------------------------------
(* The inductive invariant                                                 *)

(* The occurrences of a series lie before the next one, and one that is    *)
(* open in the future is the last of them: while it is, nothing is         *)
(* generated, since the two newest are looked at.                          *)
LastIsAhead ==
  \A s \in Series, d \in Key : occurrence[s][d] # "NONE" =>
    /\ d < series[s].next
    /\ occurrence[s][d] = "OPEN" /\ d > clock =>
         \A e \in Key : occurrence[s][e] # "NONE" => e <= d

(* The rows of one occurrence and what was told of it agree; before it     *)
(* exists there are none.                                                  *)
Agrees(s, d) ==
  /\ occurrence[s][d] = "NONE" => reminder[s][d] = "NONE" /\ broadcast[s][d] = "NONE"
  /\ occurrence[s][d] = "COMPLETED" => reminder[s][d] # "PENDING"
  /\ told[s][d].reminders = (IF reminder[s][d] = "SENT" THEN 1 ELSE 0)
  /\ told[s][d].broadcasts = (IF broadcast[s][d] = "SENT" THEN 1 ELSE 0)
  /\ broadcast[s][d] = "SENT" => sendAt[s][d] <= clock

Inv == Types /\ LastIsAhead /\ \A s \in Series, d \in Key : Agrees(s, d)

(* The occurrences stay in order when none is made: some may be completed, *)
(* time passes, and what is next moves on.                                 *)
LEMMA NoneMade ==
  ASSUME Inv, Types', clock' >= clock,
         \A s \in Series : series'[s].next >= series[s].next,
         \A s \in Series, d \in Key : \/ occurrence'[s][d] = occurrence[s][d]
                                      \/ /\ occurrence[s][d] = "OPEN"
                                         /\ occurrence'[s][d] = "COMPLETED"
  PROVE  LastIsAhead'
<1>1. clock \in Nat /\ clock' \in Nat /\ \A d \in Key : d \in Nat
  BY Keys DEF Inv, Types
<1>2. \A s \in Series : series[s].next \in Nat /\ series'[s].next \in Nat
  BY DEF Inv, Types, SeriesType
<1>3. ASSUME NEW s \in Series, NEW d \in Key, occurrence'[s][d] # "NONE"
      PROVE  /\ d < series'[s].next
             /\ occurrence'[s][d] = "OPEN" /\ d > clock' =>
                  \A e \in Key : occurrence'[s][e] # "NONE" => e <= d
  <2>1. /\ occurrence[s][d] # "NONE"
        /\ occurrence'[s][d] = "OPEN" => occurrence[s][d] = "OPEN"
        /\ \A e \in Key : occurrence'[s][e] # "NONE" => occurrence[s][e] # "NONE"
    BY <1>3
  <2> QED
    BY <1>1, <1>2, <2>1 DEF Inv, LastIsAhead
<1> QED
  BY <1>3 DEF LastIsAhead

(* A row stays in agreement where nothing of it is written.                *)
LEMMA AgreementStays ==
  ASSUME Inv, Types', clock' >= clock, NEW s \in Series, NEW d \in Key,
         occurrence'[s][d] = occurrence[s][d], reminder'[s][d] = reminder[s][d],
         broadcast'[s][d] = broadcast[s][d], sendAt'[s][d] = sendAt[s][d],
         told'[s][d].reminders = told[s][d].reminders,
         told'[s][d].broadcasts = told[s][d].broadcasts
  PROVE  Agrees(s, d)'
<1>1. Agrees(s, d) /\ sendAt[s][d] \in Int /\ clock \in Nat /\ clock' \in Nat
  BY DEF Inv, Types
<1> QED
  BY <1>1 DEF Agrees

(* Steps that concern neither occurrences nor notices.                     *)
LEMMA QuietStep ==
  ASSUME Inv, UNCHANGED <<occurrence, reminder, broadcast, sendAt>>,
         clock' \in Nat, clock' >= clock, WorkerTypes',
         series' \in [Series -> SeriesType],
         \A s \in Series : series'[s].next >= series[s].next,
         told' \in [Series -> [Key -> ToldType]],
         \A s \in Series, d \in Key : /\ told'[s][d].reminders = told[s][d].reminders
                                      /\ told'[s][d].broadcasts = told[s][d].broadcasts
  PROVE  Inv'
<1>1. Types'
  BY DEF Inv, Types
<1>2. LastIsAhead'
  BY <1>1, NoneMade
<1>3. \A s \in Series, d \in Key : Agrees(s, d)'
  BY <1>1, AgreementStays
<1> QED
  BY <1>1, <1>2, <1>3 DEF Inv

(* Steps of a worker alone.                                                *)
LEMMA WorkerOnly ==
  ASSUME Inv, UNCHANGED <<series, occurrence, reminder, broadcast, sendAt, told>>,
         clock' \in Nat, clock' >= clock, NEW w, NEW x,
         worker' = [worker EXCEPT ![w] = x],
         w \in Worker => IsWorker(x)
  PROVE  Inv'
<1>1. WorkerTypes'
  BY WorkersGoOn DEF Inv
<1>2. \A s \in Series : series[s].next \in Nat
  BY DEF Inv, Types, SeriesType
<1>3. \A s \in Series : series'[s].next >= series[s].next
  BY <1>2
<1> QED
  BY <1>1, <1>3, QuietStep DEF Inv, Types

(* Runs that start, load, conflict, finish or fail change nothing the      *)
(* invariant is about.                                                     *)
LEMMA RunsLeaveRows ==
  ASSUME Inv, NEW w \in Worker,
         \/ StartRun(w) \/ LoadRecurrences(w) \/ RetryReconcile(w)
         \/ LoadDistributions(w) \/ FinishRun(w) \/ GiveUp(w)
  PROVE  Inv'
<1>1. clock \in Nat /\ clock <= clock
  BY DEF Inv, Types
<1>2. Types
  BY DEF Inv
<1>3. ASSUME NEW x, IsWorker(x), worker' = [worker EXCEPT ![w] = x], UNCHANGED clock,
             UNCHANGED <<series, occurrence, reminder, broadcast, sendAt, told>>
      PROVE  Inv'
  BY <1>1, <1>3, WorkerOnly
<1>4. worker = [v \in Worker |-> worker[v]]
  BY <1>2 DEF Types, WorkerTypes
<1>6. CASE StartRun(w)
  BY <1>2, <1>3, <1>6, WorkerForms DEF StartRun
<1>7. ASSUME NEW phase, NEW batch,
             worker' = [worker EXCEPT ![w].phase = phase, ![w].batch = batch], UNCHANGED clock,
             UNCHANGED <<series, occurrence, reminder, broadcast, sendAt, told>>
      PROVE  Inv'
  <2>1. worker' = [worker EXCEPT ![w] = [worker[w] EXCEPT !.phase = phase, !.batch = batch]]
    BY <1>4, <1>7
  <2>2. IsWorker([worker[w] EXCEPT !.phase = phase, !.batch = batch])
    BY <1>2, WorkerForms
  <2> QED
    BY <1>3, <1>7, <2>1, <2>2
<1>8. CASE LoadRecurrences(w)
  BY <1>7, <1>8 DEF LoadRecurrences
<1>9. CASE LoadDistributions(w)
  BY <1>7, <1>9 DEF LoadDistributions
<1>10. CASE RetryReconcile(w)
  <2>1. PICK mail : worker' = [worker EXCEPT ![w].attempt = @ + 1, ![w].mail = mail]
    BY <1>10 DEF RetryReconcile
  <2>2. worker' = [worker EXCEPT ![w] =
          [worker[w] EXCEPT !.attempt = worker[w].attempt + 1, !.mail = mail]]
    BY <1>4, <2>1
  <2>3. IsWorker([worker[w] EXCEPT !.attempt = worker[w].attempt + 1, !.mail = mail])
    BY <1>2, WorkerForms
  <2> QED
    BY <1>3, <1>10, <2>2, <2>3 DEF RetryReconcile
<1>11. CASE FinishRun(w)
  BY <1>2, <1>3, <1>11, WorkerForms DEF FinishRun
<1>12. CASE GiveUp(w)
  BY <1>2, <1>3, <1>12, WorkerForms DEF GiveUp
<1> QED
  BY <1>6, <1>8, <1>9, <1>10, <1>11, <1>12

-----------------------------------------------------------------------------
(* The steps that write notices and occurrences                            *)

(* A reminder that is pending is settled, and told if it is sent: another  *)
(* run that has it in its batch finds it settled.                          *)
LEMMA ReminderStep ==
  ASSUME Inv, NEW w \in Worker, ProcessReminder(w)
  PROVE  Inv'
<1>1. PICK s, d, sends, settled, now :
        /\ s = Head(worker[w].batch)[1] /\ d = Head(worker[w].batch)[2]
        /\ sends = StillWanted(s, d)
        /\ settled = IF sends THEN "SENT"
                     ELSE IF Remindable(s, d) THEN "CANCELLED" ELSE reminder[s][d]
        /\ now = [told[s][d] EXCEPT !.reminders =
                    IF sends THEN told[s][d].reminders + 1 ELSE told[s][d].reminders]
  OBVIOUS
<1>2. /\ reminder' = [reminder EXCEPT ![s][d] = settled]
      /\ told' = [told EXCEPT ![s][d] = now]
      /\ worker' = [worker EXCEPT ![w] = ItemDone(w)]
      /\ UNCHANGED <<clock, series, occurrence, broadcast, sendAt>>
  BY <1>1 DEF ProcessReminder
<1>3. Types /\ clock' >= clock /\ clock' \in Nat
  BY <1>2 DEF Inv, Types
<1>4. ASSUME s \in Series, d \in Key
      PROVE  /\ settled \in Status /\ now \in ToldType
             /\ now.broadcasts = told[s][d].broadcasts
             /\ occurrence[s][d] = "NONE" => settled = reminder[s][d]
             /\ occurrence[s][d] = "COMPLETED" => settled # "PENDING"
             /\ now.reminders = (IF settled = "SENT" THEN 1 ELSE 0)
  <2>1. Agrees(s, d) /\ told[s][d] \in ToldType /\ reminder[s][d] \in Status
    BY <1>4 DEF Inv, Types
  <2>2. CASE sends
    <3>1. /\ reminder[s][d] = "PENDING" /\ occurrence[s][d] # "COMPLETED" /\ settled = "SENT"
          /\ occurrence[s][d] # "NONE" /\ told[s][d].reminders = 0
      BY <1>1, <2>1, <2>2 DEF StillWanted, Remindable, Agrees
    <3>2. now = [told[s][d] EXCEPT !.reminders = told[s][d].reminders + 1]
      BY <1>1, <2>2
    <3>3. now \in ToldType /\ now.reminders = 1 /\ now.broadcasts = told[s][d].broadcasts
      BY <2>1, <3>1, <3>2 DEF ToldType
    <3> QED
      BY <3>1, <3>3 DEF Status
  <2>3. CASE ~sends
    <3>1. /\ now = told[s][d]
          /\ settled = IF reminder[s][d] = "PENDING" THEN "CANCELLED" ELSE reminder[s][d]
      BY <1>1, <2>1, <2>3 DEF ToldType, StillWanted, Remindable
    <3> QED
      BY <2>1, <3>1 DEF ToldType, Status, Agrees
  <2> QED
    BY <2>2, <2>3
<1>5. /\ reminder' \in [Series -> [Key -> Status]]
      /\ \A r \in Series, e \in Key :
           reminder'[r][e] = IF r = s /\ e = d THEN settled ELSE reminder[r][e]
  BY <1>2, <1>3, <1>4 DEF Types
<1>6. /\ told' \in [Series -> [Key -> ToldType]]
      /\ \A r \in Series, e \in Key : told'[r][e] = IF r = s /\ e = d THEN now ELSE told[r][e]
  <2>1. told \in [Series -> [Key -> ToldType]]
    BY <1>3 DEF Types
  <2> QED
    BY <1>2, <1>4, <2>1
<1>7. WorkerTypes'
  BY <1>2, <1>3, WorkerForms, WorkersGoOn
<1>8. Types'
  BY <1>2, <1>3, <1>5, <1>6, <1>7 DEF Types
<1>9. LastIsAhead'
  <2>1. \A r \in Series : series[r].next \in Nat
    BY <1>3 DEF Types, SeriesType
  <2> QED
    BY <1>2, <1>3, <1>8, <2>1, NoneMade
<1>10. ASSUME NEW r \in Series, NEW e \in Key PROVE Agrees(r, e)'
  <2>1. CASE r = s /\ e = d
    <3>1. Agrees(s, d)
      BY <2>1 DEF Inv
    <3> QED
      BY <1>2, <1>4, <1>5, <1>6, <2>1, <3>1 DEF Agrees
  <2>2. CASE ~(r = s /\ e = d)
    BY <1>2, <1>3, <1>5, <1>6, <1>8, <2>2, AgreementStays
  <2> QED
    BY <2>1, <2>2
<1> QED
  BY <1>8, <1>9, <1>10 DEF Inv

(* A broadcast that is pending and due leaves once.                        *)
LEMMA DistributionStep ==
  ASSUME Inv, NEW w \in Worker, ProcessDistribution(w)
  PROVE  Inv'
<1>1. PICK s, d, sends, settled, now :
        /\ s = Head(worker[w].batch)[1] /\ d = Head(worker[w].batch)[2]
        /\ sends = BroadcastDue(s, d, worker[w].now)
        /\ settled = IF sends THEN "SENT" ELSE broadcast[s][d]
        /\ now = [told[s][d] EXCEPT !.broadcasts =
                    IF sends THEN told[s][d].broadcasts + 1 ELSE told[s][d].broadcasts]
  OBVIOUS
<1>2. /\ broadcast' = [broadcast EXCEPT ![s][d] = settled]
      /\ told' = [told EXCEPT ![s][d] = now]
      /\ worker' = [worker EXCEPT ![w] =
           IF worker[w].phase = "publish" THEN Idle ELSE ItemDone(w)]
      /\ UNCHANGED <<clock, series, occurrence, reminder, sendAt>>
  BY <1>1 DEF ProcessDistribution
<1>3. Types /\ clock' >= clock /\ clock' \in Nat
  BY <1>2 DEF Inv, Types
<1>4. ASSUME s \in Series, d \in Key
      PROVE  /\ settled \in Status /\ now \in ToldType
             /\ now.reminders = told[s][d].reminders
             /\ occurrence[s][d] = "NONE" => settled = broadcast[s][d]
             /\ now.broadcasts = (IF settled = "SENT" THEN 1 ELSE 0)
             /\ settled = "SENT" => sendAt[s][d] <= clock
  <2>1. Agrees(s, d) /\ told[s][d] \in ToldType /\ broadcast[s][d] \in Status
    BY <1>4 DEF Inv, Types
  <2>2. CASE sends
    <3>1. /\ broadcast[s][d] = "PENDING" /\ settled = "SENT"
          /\ occurrence[s][d] # "NONE" /\ told[s][d].broadcasts = 0
          /\ sendAt[s][d] <= worker[w].now
      BY <1>1, <2>1, <2>2 DEF BroadcastDue, Agrees
    <3>2. sendAt[s][d] <= clock
      <4>1. /\ worker[w].now \in Nat /\ worker[w].now <= clock
            /\ sendAt[s][d] \in Int /\ clock \in Nat
        BY <1>3, <1>4 DEF Types, WorkerTypes, IsWorker
      <4> QED
        BY <3>1, <4>1
    <3>3. now = [told[s][d] EXCEPT !.broadcasts = told[s][d].broadcasts + 1]
      BY <1>1, <2>2
    <3>4. now \in ToldType /\ now.broadcasts = 1 /\ now.reminders = told[s][d].reminders
      BY <2>1, <3>1, <3>3 DEF ToldType
    <3> QED
      BY <3>1, <3>2, <3>4 DEF Status
  <2>3. CASE ~sends
    <3>1. now = told[s][d] /\ settled = broadcast[s][d]
      BY <1>1, <2>1, <2>3 DEF ToldType
    <3> QED
      BY <2>1, <3>1 DEF Agrees
  <2> QED
    BY <2>2, <2>3
<1>5. /\ broadcast' \in [Series -> [Key -> Status]]
      /\ \A r \in Series, e \in Key :
           broadcast'[r][e] = IF r = s /\ e = d THEN settled ELSE broadcast[r][e]
  BY <1>2, <1>3, <1>4 DEF Types
<1>6. /\ told' \in [Series -> [Key -> ToldType]]
      /\ \A r \in Series, e \in Key : told'[r][e] = IF r = s /\ e = d THEN now ELSE told[r][e]
  <2>1. told \in [Series -> [Key -> ToldType]]
    BY <1>3 DEF Types
  <2> QED
    BY <1>2, <1>4, <2>1
<1>7. WorkerTypes'
  <2>1. IsWorker(IF worker[w].phase = "publish" THEN Idle ELSE ItemDone(w))
    BY <1>3, WorkerForms
  <2> QED
    BY <1>2, <1>3, <2>1, WorkersGoOn
<1>8. Types'
  BY <1>2, <1>3, <1>5, <1>6, <1>7 DEF Types
<1>9. LastIsAhead'
  <2>1. \A r \in Series : series[r].next \in Nat
    BY <1>3 DEF Types, SeriesType
  <2> QED
    BY <1>2, <1>3, <1>8, <2>1, NoneMade
<1>10. ASSUME NEW r \in Series, NEW e \in Key PROVE Agrees(r, e)'
  <2>1. CASE r = s /\ e = d
    <3>1. Agrees(s, d)
      BY <2>1 DEF Inv
    <3> QED
      BY <1>2, <1>4, <1>5, <1>6, <2>1, <3>1 DEF Agrees
  <2>2. CASE ~(r = s /\ e = d)
    BY <1>2, <1>3, <1>5, <1>6, <1>8, <2>2, AgreementStays
  <2> QED
    BY <2>1, <2>2
<1> QED
  BY <1>8, <1>9, <1>10 DEF Inv

(* Where the two newest occurrences are not open ahead of a run's `now`,   *)
(* however late that is, none is open in the future.                       *)
LEMMA NoneOpenInFuture ==
  ASSUME Inv, NEW s \in Series, NEW now \in Nat, now <= clock, NoOpenAhead(s, now)
  PROVE  \A d \in Key : occurrence[s][d] = "OPEN" => d <= clock
<1> SUFFICES ASSUME NEW d \in Key, occurrence[s][d] = "OPEN", ~(d <= clock) PROVE FALSE
  OBVIOUS
<1>1. clock \in Nat /\ \A e \in Key : e \in Nat
  BY Keys DEF Inv, Types
<1>2. d > clock /\ d > now
  BY <1>1
<1>3. \A e \in Key : occurrence[s][e] # "NONE" => e <= d
  BY <1>2 DEF Inv, LastIsAhead
<1>4. {e \in Existing(s) : e > d} = {}
  BY <1>1, <1>3 DEF Existing
<1>5. Cardinality({e \in Existing(s) : e > d}) < 2
  BY <1>4, FS_EmptySet
<1>6. d \in TwoNewest(s)
  BY <1>5 DEF TwoNewest, Existing
<1> QED
  BY <1>2, <1>6 DEF NoOpenAhead

(* A new occurrence becomes the last one, with rows that nothing was told  *)
(* of yet.                                                                 *)
LEMMA GenerationStep ==
  ASSUME Inv, NEW s \in Series, NEW now \in Nat, now <= clock,
         Generates(s, now), Generated(s, series[s].next), NEW mail,
         told' = MailSent(s, mail), WorkerTypes', UNCHANGED <<clock, sendAt>>
  PROVE  Inv'
<1> DEFINE d == series[s].next
           sending == IF series[s].broadcastAll THEN "PENDING" ELSE "NONE"
<1>1. Types
  BY DEF Inv
<1>2. /\ d \in Key /\ occurrence[s][d] = "NONE" /\ NoOpenAhead(s, now)
  BY DEF Generates, MayMaterialize
<1>3. /\ occurrence' = [occurrence EXCEPT ![s][d] = "OPEN"]
      /\ reminder' = [reminder EXCEPT ![s][d] = "PENDING"]
      /\ broadcast' = [broadcast EXCEPT ![s][d] = sending]
  BY DEF Generated
<1>4. series' = [series EXCEPT ![s] = [series[s] EXCEPT !.next = d + 1, !.blockedKey = None]]
  BY <1>1 DEF Generated, Types, SeriesType
<1>5. d \in Nat /\ clock \in Nat /\ clock' = clock
  BY <1>1, <1>2, Keys DEF Types
<1>6. [series[s] EXCEPT !.next = d + 1, !.blockedKey = None] \in SeriesType
  <2>1. d + 1 \in Nat /\ None \in Nat /\ series[s] \in SeriesType
    BY <1>1, <1>5 DEF Types, None
  <2> HIDE DEF d
  <2> QED
    BY <2>1 DEF SeriesType
<1>7. /\ series' \in [Series -> SeriesType] /\ series'[s].next = d + 1
      /\ \A r \in Series \ {s} : series'[r] = series[r]
  BY <1>1, <1>4, <1>5, <1>6 DEF Types, SeriesType
<1>8. PICK c : c = d
  OBVIOUS
<1>9. PICK v : v = sending
  OBVIOUS
<1>10. v \in {"PENDING", "NONE"}
  BY <1>9
<1> HIDE DEF d, sending
<1>11. /\ occurrence' \in [Series -> [Key -> {"NONE", "OPEN", "COMPLETED"}]]
       /\ \A r \in Series, e \in Key :
            occurrence'[r][e] = IF r = s /\ e = c THEN "OPEN" ELSE occurrence[r][e]
  BY <1>1, <1>3, <1>8 DEF Types
<1>12. /\ reminder' \in [Series -> [Key -> Status]]
       /\ \A r \in Series, e \in Key :
            reminder'[r][e] = IF r = s /\ e = c THEN "PENDING" ELSE reminder[r][e]
  BY <1>1, <1>3, <1>8 DEF Types, Status
<1>13. /\ broadcast' \in [Series -> [Key -> Status]]
       /\ \A r \in Series, e \in Key :
            broadcast'[r][e] = IF r = s /\ e = c THEN v ELSE broadcast[r][e]
  BY <1>1, <1>3, <1>8, <1>9, <1>10 DEF Types, Status
<1>14. /\ told' \in [Series -> [Key -> ToldType]]
       /\ \A r \in Series, e \in Key : /\ told'[r][e].reminders = told[r][e].reminders
                                       /\ told'[r][e].broadcasts = told[r][e].broadcasts
  BY <1>1, MailsOnly
<1>15. Types'
  BY <1>1, <1>7, <1>11, <1>12, <1>13, <1>14 DEF Types
<1>16. LastIsAhead'
  <2>1. \A e \in Key : occurrence[s][e] = "OPEN" => e <= clock
    BY <1>2, NoneOpenInFuture
  <2>2. \A e \in Key : e \in Nat
    BY Keys
  <2>3. ASSUME NEW r \in Series, NEW e \in Key, occurrence'[r][e] # "NONE"
        PROVE  /\ e < series'[r].next
               /\ occurrence'[r][e] = "OPEN" /\ e > clock' =>
                    \A f \in Key : occurrence'[r][f] # "NONE" => f <= e
    <3>1. CASE r # s
      <4>1. /\ occurrence'[r][e] = occurrence[r][e] /\ series'[r] = series[r]
            /\ \A f \in Key : occurrence'[r][f] = occurrence[r][f]
        BY <1>7, <1>11, <3>1
      <4> QED
        BY <1>5, <2>3, <4>1 DEF Inv, LastIsAhead
    <3>2. CASE r = s
      <4>1. /\ series'[s].next = c + 1 /\ c \in Nat
            /\ \A f \in Key : occurrence[s][f] # "NONE" => f < c
        BY <1>5, <1>7, <1>8 DEF Inv, LastIsAhead, d
      <4>2. e # c => occurrence'[s][e] = occurrence[s][e] /\ occurrence[s][e] # "NONE"
        BY <1>11, <2>3, <3>2
      <4>3. \A f \in Key : occurrence'[s][f] # "NONE" => f <= c
        BY <1>11, <2>2, <4>1
      <4>4. e < c + 1
        BY <2>2, <2>3, <3>2, <4>1, <4>3
      <4>5. occurrence'[s][e] = "OPEN" /\ e > clock' => e = c
        BY <1>5, <2>1, <2>2, <4>2
      <4> QED
        BY <3>2, <4>1, <4>3, <4>4, <4>5
    <3> QED
      BY <3>1, <3>2
  <2> QED
    BY <2>3 DEF LastIsAhead
<1>17. ASSUME NEW r \in Series, NEW e \in Key PROVE Agrees(r, e)'
  <2>1. CASE r = s /\ e = c
    <3>1. Agrees(s, c) /\ occurrence[s][c] = "NONE"
      BY <1>2, <1>8, <2>1 DEF Inv
    <3>2. told[s][c].reminders = 0 /\ told[s][c].broadcasts = 0
      BY <3>1 DEF Agrees
    <3> QED
      BY <1>10, <1>11, <1>12, <1>13, <1>14, <2>1, <3>2 DEF Agrees
  <2>2. CASE ~(r = s /\ e = c)
    BY <1>5, <1>11, <1>12, <1>13, <1>14, <1>15, <2>2, AgreementStays
  <2> QED
    BY <2>1, <2>2
<1> QED
  BY <1>15, <1>16, <1>17 DEF Inv

(* A reconciliation makes the next occurrence, marks it as blocked, or     *)
(* finds nothing to do.                                                    *)
LEMMA ReconcileStep ==
  ASSUME Inv, NEW w \in Worker, Reconcile(w)
  PROVE  Inv'
<1> DEFINE s == Head(worker[w].batch)
           now == worker[w].now
           d == series[s].next
<1>1. Types /\ now \in Nat /\ now <= clock /\ clock \in Nat
  BY DEF Inv, Types, WorkerTypes, IsWorker
<1>2. WorkerTypes' /\ UNCHANGED <<clock, sendAt>>
  <2>1. IsWorker(IF worker[w].phase = "follow-up" THEN Idle ELSE ItemDone(w))
    BY <1>1, WorkerForms
  <2>2. clock' \in Nat /\ clock' >= clock
    BY <1>1 DEF Reconcile
  <2> QED
    BY <1>1, <2>1, <2>2, WorkersGoOn DEF Reconcile
<1>3. PICK mail : told' = MailSent(s, mail)
  BY DEF Reconcile
<1>4. /\ told' \in [Series -> [Key -> ToldType]]
      /\ \A r \in Series, e \in Key : /\ told'[r][e].reminders = told[r][e].reminders
                                      /\ told'[r][e].broadcasts = told[r][e].broadcasts
  BY <1>1, <1>3, MailsOnly
<1>5. \A r \in Series : series[r] \in SeriesType /\ series[r].next \in Nat
  BY <1>1 DEF Types, SeriesType
<1>6. \/ Generates(s, now) /\ Generated(s, d)
      \/ /\ Blocks(s, now) /\ UNCHANGED <<occurrence, reminder, broadcast>>
         /\ series' = [series EXCEPT ![s].blockedKey = d]
      \/ UNCHANGED <<series, occurrence, reminder, broadcast>>
  BY DEF Reconcile
<1> HIDE DEF s, now, d
<1>7. CASE s \in Series /\ Generates(s, now) /\ Generated(s, d)
  BY <1>1, <1>2, <1>3, <1>7, GenerationStep DEF d
<1>8. CASE s \notin Series /\ Generated(s, d)
  <2>1. UNCHANGED <<series, occurrence, reminder, broadcast>>
    BY <1>1, <1>8 DEF Generated, Types
  <2> QED
    BY <1>1, <1>2, <1>4, <1>5, <2>1, QuietStep DEF Types
<1>9. CASE /\ Blocks(s, now) /\ UNCHANGED <<occurrence, reminder, broadcast>>
           /\ series' = [series EXCEPT ![s].blockedKey = d]
  <2>1. d \in Nat
    BY <1>9, Keys DEF Blocks, d
  <2>2. series' = [series EXCEPT ![s] = [series[s] EXCEPT !.blockedKey = d]]
    BY <1>9
  <2>3. \A r \in Series : /\ [series[r] EXCEPT !.blockedKey = d] \in SeriesType
                          /\ [series[r] EXCEPT !.blockedKey = d].next = series[r].next
    BY <1>5, <2>1 DEF SeriesType
  <2>4. /\ series' \in [Series -> SeriesType]
        /\ \A r \in Series : series'[r].next = series[r].next
    BY <1>1, <2>2, <2>3 DEF Types
  <2>5. \A r \in Series : series'[r].next >= series[r].next
    BY <1>5, <2>4
  <2> QED
    BY <1>1, <1>2, <1>4, <1>9, <2>4, <2>5, QuietStep
<1>10. CASE UNCHANGED <<series, occurrence, reminder, broadcast>>
  BY <1>1, <1>2, <1>4, <1>5, <1>10, QuietStep DEF Types
<1> QED
  BY <1>6, <1>7, <1>8, <1>9, <1>10

-----------------------------------------------------------------------------
(* The requests                                                            *)

(* A completion calls off the reminder of its occurrence.                  *)
LEMMA CompletionStep ==
  ASSUME Inv, NEW w \in Worker, NEW s \in Series, NEW d \in Key, CompleteOccurrence(w, s, d)
  PROVE  Inv'
<1>1. Types /\ clock' = clock /\ clock \in Nat
  BY DEF Inv, Types, CompleteOccurrence
<1>2. PICK settled : settled = AfterCompletion(reminder[s][d])
  OBVIOUS
<1>3. /\ occurrence[s][d] = "OPEN"
      /\ occurrence' = [occurrence EXCEPT ![s][d] = "COMPLETED"]
      /\ reminder' = [reminder EXCEPT ![s][d] = settled]
      /\ worker' = [worker EXCEPT ![w] = Busy("follow-up", <<s>>)]
      /\ UNCHANGED <<series, broadcast, sendAt, told>>
  BY <1>2 DEF CompleteOccurrence
<1>4. /\ settled \in Status /\ settled # "PENDING"
      /\ settled = "SENT" <=> reminder[s][d] = "SENT"
  BY <1>1, <1>2 DEF AfterCompletion, Types, Status
<1>5. /\ occurrence' \in [Series -> [Key -> {"NONE", "OPEN", "COMPLETED"}]]
      /\ \A r \in Series, e \in Key :
           occurrence'[r][e] = IF r = s /\ e = d THEN "COMPLETED" ELSE occurrence[r][e]
  BY <1>1, <1>3 DEF Types
<1>6. /\ reminder' \in [Series -> [Key -> Status]]
      /\ \A r \in Series, e \in Key :
           reminder'[r][e] = IF r = s /\ e = d THEN settled ELSE reminder[r][e]
  BY <1>1, <1>3, <1>4 DEF Types
<1>7. WorkerTypes'
  <2>1. PICK x : x = Busy("follow-up", <<s>>)
    OBVIOUS
  <2>2. IsWorker(x)
    BY <1>1, <2>1, WorkerForms
  <2>3. worker' = [worker EXCEPT ![w] = x] /\ clock' >= clock
    BY <1>1, <1>3, <2>1
  <2> QED
    BY <1>1, <2>2, <2>3, WorkersGoOn
<1>8. Types'
  BY <1>1, <1>3, <1>5, <1>6, <1>7 DEF Types
<1>9. LastIsAhead'
  <2>1. \A r \in Series : series[r].next \in Nat
    BY <1>1 DEF Types, SeriesType
  <2> QED
    BY <1>1, <1>3, <1>5, <1>8, <2>1, NoneMade
<1>10. ASSUME NEW r \in Series, NEW e \in Key PROVE Agrees(r, e)'
  <2>1. CASE r = s /\ e = d
    <3>1. Agrees(s, d)
      BY DEF Inv
    <3> QED
      BY <1>1, <1>3, <1>4, <1>5, <1>6, <2>1, <3>1 DEF Agrees
  <2>2. CASE ~(r = s /\ e = d)
    BY <1>1, <1>3, <1>5, <1>6, <1>8, <2>2, AgreementStays
  <2> QED
    BY <2>1, <2>2
<1> QED
  BY <1>8, <1>9, <1>10 DEF Inv

(* An update of a series moves what is next forward only.                  *)
LEMMA UpdateStep ==
  ASSUME Inv, NEW s \in Series, NEW patch \in Patch, UpdateRecurrence(s, patch)
  PROVE  Inv'
<1>1. Types /\ clock' = clock /\ clock \in Nat /\ series[s] \in SeriesType
  BY DEF Inv, Types, UpdateRecurrence
<1>2. PICK updated :
        /\ updated \in SeriesType /\ updated.next >= series[s].next
        /\ series' = [series EXCEPT ![s] = updated]
  <2> DEFINE resuming == ~series[s].isActive /\ patch.isActive = "ON"
             clears == patch.responsible \/ resuming \/ patch.lead # "KEEP"
             isActive == IF patch.isActive = "KEEP" THEN series[s].isActive
                         ELSE patch.isActive = "ON"
             next == IF resuming THEN FirstAfter(series[s].next, clock) ELSE series[s].next
             broadcastAll == IF patch.lead = "KEEP" THEN series[s].broadcastAll
                             ELSE patch.lead = "ON"
             blockedKey == IF clears THEN None ELSE series[s].blockedKey
             updated == [isActive |-> isActive, next |-> next, broadcastAll |-> broadcastAll,
                         blockedKey |-> blockedKey]
  <2>1. series' = [series EXCEPT ![s] = updated]
    BY DEF UpdateRecurrence
  <2>2. isActive \in BOOLEAN /\ broadcastAll \in BOOLEAN
    BY <1>1 DEF SeriesType
  <2>3. series[s].next \in Nat
    BY <1>1 DEF SeriesType
  <2>4. next \in Nat /\ next >= series[s].next
    BY <1>1, <2>3 DEF FirstAfter
  <2>5. blockedKey \in Nat
    BY <1>1 DEF SeriesType, None
  <2> HIDE DEF isActive, next, broadcastAll, blockedKey
  <2>6. updated \in SeriesType /\ updated.next = next
    BY <2>2, <2>4, <2>5 DEF SeriesType
  <2> QED
    BY <2>1, <2>4, <2>6
<1>3. \A r \in Series : series[r].next \in Nat
  BY <1>1 DEF Types, SeriesType
<1>4. /\ series' \in [Series -> SeriesType]
      /\ \A r \in Series : series'[r].next >= series[r].next
  BY <1>1, <1>2, <1>3 DEF Types
<1>5. WorkerTypes'
  <2>1. worker' = worker /\ clock' = clock
    BY DEF UpdateRecurrence
  <2> QED
    BY <1>1, <2>1 DEF Types, WorkerTypes, IsWorker
<1> QED
  BY <1>1, <1>4, <1>5, QuietStep DEF UpdateRecurrence, Types

(* A distribution is put off only while it is pending.                     *)
LEMMA RescheduleStep ==
  ASSUME Inv, NEW w \in Worker, NEW s \in Series, NEW d \in Key, NEW at \in {clock, clock + 1},
         Reschedule(w, s, d, at)
  PROVE  Inv'
<1>1. Types /\ clock' = clock /\ clock \in Nat /\ at \in Int
  BY DEF Inv, Types, Reschedule
<1>2. /\ broadcast[s][d] = "PENDING"
      /\ sendAt' = [sendAt EXCEPT ![s][d] = at]
      /\ UNCHANGED <<series, occurrence, reminder, broadcast, told>>
  BY DEF Reschedule
<1>3. PICK c : c = at
  OBVIOUS
<1>4. /\ sendAt' \in [Series -> [Key -> Int]]
      /\ \A r \in Series, e \in Key : sendAt'[r][e] = IF r = s /\ e = d THEN c ELSE sendAt[r][e]
  BY <1>1, <1>2, <1>3 DEF Types
<1>5. WorkerTypes'
  <2>1. IsWorker(Busy("publish", <<<<s, d>>>>))
    BY <1>1, WorkerForms
  <2>2. worker' = worker \/ worker' = [worker EXCEPT ![w] = Busy("publish", <<<<s, d>>>>)]
    BY DEF Reschedule
  <2> QED
    BY <1>1, <2>1, <2>2, WorkersGoOn
<1>6. Types'
  BY <1>1, <1>2, <1>4, <1>5 DEF Types
<1>7. LastIsAhead'
  <2>1. \A r \in Series : series[r].next \in Nat
    BY <1>1 DEF Types, SeriesType
  <2> QED
    BY <1>1, <1>2, <1>6, <2>1, NoneMade
<1>8. ASSUME NEW r \in Series, NEW e \in Key PROVE Agrees(r, e)'
  <2>1. CASE r = s /\ e = d
    <3>1. Agrees(s, d)
      BY DEF Inv
    <3> QED
      BY <1>2, <2>1, <3>1 DEF Agrees
  <2>2. CASE ~(r = s /\ e = d)
    BY <1>1, <1>2, <1>4, <1>6, <2>2, AgreementStays
  <2> QED
    BY <2>1, <2>2
<1> QED
  BY <1>6, <1>7, <1>8 DEF Inv

(* A distribution that is called off was not told.                         *)
LEMMA CancelStep ==
  ASSUME Inv, NEW s \in Series, NEW d \in Key, CancelDistribution(s, d)
  PROVE  Inv'
<1>1. Types /\ clock' = clock /\ clock \in Nat
  BY DEF Inv, Types, CancelDistribution
<1>2. /\ broadcast[s][d] = "PENDING"
      /\ broadcast' = [broadcast EXCEPT ![s][d] = "CANCELLED"]
      /\ UNCHANGED <<series, occurrence, reminder, sendAt, told, worker>>
  BY DEF CancelDistribution
<1>3. /\ broadcast' \in [Series -> [Key -> Status]]
      /\ \A r \in Series, e \in Key :
           broadcast'[r][e] = IF r = s /\ e = d THEN "CANCELLED" ELSE broadcast[r][e]
  BY <1>1, <1>2 DEF Types, Status
<1>4. WorkerTypes'
  BY <1>1, <1>2 DEF Types, WorkerTypes, IsWorker
<1>5. Types'
  BY <1>1, <1>2, <1>3, <1>4 DEF Types
<1>6. LastIsAhead'
  <2>1. \A r \in Series : series[r].next \in Nat
    BY <1>1 DEF Types, SeriesType
  <2> QED
    BY <1>1, <1>2, <1>5, <2>1, NoneMade
<1>7. ASSUME NEW r \in Series, NEW e \in Key PROVE Agrees(r, e)'
  <2>1. CASE r = s /\ e = d
    <3>1. Agrees(s, d)
      BY DEF Inv
    <3> QED
      BY <1>2, <1>3, <2>1, <3>1 DEF Agrees
  <2>2. CASE ~(r = s /\ e = d)
    BY <1>1, <1>2, <1>3, <1>5, <2>2, AgreementStays
  <2> QED
    BY <2>1, <2>2
<1> QED
  BY <1>5, <1>6, <1>7 DEF Inv

-----------------------------------------------------------------------------
(* The theorems                                                            *)

(* The series just created have their first occurrence, and its rows.      *)
LEMMA InvInit == Init => Inv
<1> SUFFICES ASSUME Init PROVE Inv
  OBVIOUS
<1>1. 1 \in Key /\ (\A d \in Key : d \in Nat) /\ BroadcastLead \in Nat
  BY BoundsAssumption DEF Key
<1>2. Types
  <2>1. clock \in Nat /\ series \in [Series -> SeriesType]
    BY DEF Init, SeriesType, None
  <2>2. /\ occurrence \in [Series -> [Key -> {"NONE", "OPEN", "COMPLETED"}]]
        /\ reminder \in [Series -> [Key -> Status]]
        /\ broadcast \in [Series -> [Key -> Status]]
    BY DEF Init, Status
  <2>3. sendAt \in [Series -> [Key -> Int]]
    BY <1>1 DEF Init
  <2>4. told \in [Series -> [Key -> ToldType]]
    BY DEF Init, ToldType
  <2>5. WorkerTypes
    BY DEF Init, WorkerTypes, IsWorker, Idle
  <2> QED
    BY <2>1, <2>2, <2>3, <2>4, <2>5 DEF Types
<1>3. LastIsAhead
  BY <1>1 DEF Init, LastIsAhead
<1>4. \A s \in Series, d \in Key : Agrees(s, d)
  BY DEF Init, Agrees
<1> QED
  BY <1>2, <1>3, <1>4 DEF Inv

(* Every step keeps it.                                                    *)
LEMMA InvStep == Inv /\ [Next]_vars => Inv'
<1> SUFFICES ASSUME Inv, [Next]_vars PROVE Inv'
  OBVIOUS
<1>1. Types /\ clock \in Nat /\ \A s \in Series : series[s].next \in Nat
  BY DEF Inv, Types, SeriesType
<1>2. ASSUME UNCHANGED <<clock, series, occurrence, reminder, broadcast, sendAt, told, worker>>
      PROVE  Inv'
  <2>1. WorkerTypes'
    BY <1>1, <1>2 DEF Types, WorkerTypes, IsWorker
  <2> QED
    BY <1>1, <1>2, <2>1, QuietStep DEF Types
<1>3. CASE UNCHANGED vars
  BY <1>2, <1>3 DEF vars
<1>4. ASSUME NEW s \in Series, ResponsibleChangesStatus(s) PROVE Inv'
  BY <1>2, <1>4 DEF ResponsibleChangesStatus
<1>5. Cron \subseteq Worker /\ Request \subseteq Worker
  BY DEF Worker
<1>6. CASE Tick
  <2>1. /\ clock' = clock + 1 /\ clock' \in Nat /\ clock' >= clock
        /\ UNCHANGED <<series, occurrence, reminder, broadcast, sendAt, told, worker>>
    BY <1>1, <1>6 DEF Tick
  <2>2. WorkerTypes'
    BY <1>1, <2>1 DEF Types, WorkerTypes, IsWorker
  <2> QED
    BY <1>1, <2>1, <2>2, QuietStep DEF Types
<1> QED
  BY <1>3, <1>4, <1>5, <1>6, RunsLeaveRows, ReminderStep, ReconcileStep, DistributionStep,
     CompletionStep, UpdateStep, RescheduleStep, CancelStep DEF Next, WorkerStep

(* Whatever overlaps, retries or is completed early, what is next lies     *)
(* beyond every occurrence there is, and at most one is open ahead.        *)
THEOREM OneOccurrenceAheadHolds == Spec => []OneOccurrenceAhead
<1>1. Inv => OneOccurrenceAhead
  <2> SUFFICES ASSUME Inv, NEW s \in Series
               PROVE  /\ \A d \in Existing(s) : d < series[s].next
                      /\ Cardinality({d \in Existing(s) : d > clock /\ occurrence[s][d] = "OPEN"}) <= 1
    BY DEF OneOccurrenceAhead
  <2> DEFINE ahead == {d \in Existing(s) : d > clock /\ occurrence[s][d] = "OPEN"}
  <2>1. \A d \in Key : d \in Nat
    BY Keys
  <2>2. \A d, e \in ahead : d = e
    <3> SUFFICES ASSUME NEW d \in ahead, NEW e \in ahead PROVE d = e
      OBVIOUS
    <3>1. d <= e /\ e <= d /\ d \in Nat /\ e \in Nat
      BY <2>1 DEF Inv, LastIsAhead, Existing
    <3> QED
      BY <3>1
  <2> HIDE DEF ahead
  <2>3. ASSUME ahead = {} PROVE Cardinality(ahead) <= 1
    BY <2>3, FS_EmptySet
  <2>4. ASSUME ahead # {} PROVE Cardinality(ahead) <= 1
    <3>1. PICK d : d \in ahead
      BY <2>4
    <3>2. ahead = {d}
      BY <2>2, <3>1
    <3> QED
      BY <3>2, FS_Singleton
  <2>5. Cardinality(ahead) <= 1
    BY <2>3, <2>4
  <2> QED
    BY <2>5 DEF Inv, LastIsAhead, Existing, ahead
<1> QED
  BY <1>1, InvInit, InvStep, PTL DEF Spec

(* Overlapping runs, stale batches and requests never part what was told   *)
(* from what the rows say.                                                 *)
THEOREM NoticesMatchHolds == Spec => []NoticesMatch
<1>1. Inv => NoticesMatch
  BY DEF Inv, Agrees, NoticesMatch
<1> QED
  BY <1>1, InvInit, InvStep, PTL DEF Spec

(* Sending looks again at what the batch was read from.                    *)
LEMMA NoticesStay ==
  ASSUME Inv, [Next]_vars, NEW s \in Series, NEW d \in Key
  PROVE  /\ occurrence[s][d] = "COMPLETED" => told'[s][d].reminders = told[s][d].reminders
         /\ broadcast[s][d] = "CANCELLED" => told'[s][d].broadcasts = told[s][d].broadcasts
<1> DEFINE Stays == /\ occurrence[s][d] = "COMPLETED" => told'[s][d].reminders = told[s][d].reminders
                    /\ broadcast[s][d] = "CANCELLED" => told'[s][d].broadcasts = told[s][d].broadcasts
<1>1. Types /\ told \in [Series -> [Key -> ToldType]] /\ told[s][d] \in ToldType
  BY DEF Inv, Types
<1>2. CASE told' = told
  BY <1>2
<1>3. ASSUME NEW w \in Worker, ProcessReminder(w) PROVE Stays
  <2>1. PICK r, e, sends, now :
          /\ r = Head(worker[w].batch)[1] /\ e = Head(worker[w].batch)[2]
          /\ sends = StillWanted(r, e)
          /\ now = [told[r][e] EXCEPT !.reminders =
                      IF sends THEN told[r][e].reminders + 1 ELSE told[r][e].reminders]
    OBVIOUS
  <2>2. told' = [told EXCEPT ![r][e] = now]
    BY <1>3, <2>1 DEF ProcessReminder
  <2>3. told'[s][d] = IF s = r /\ d = e THEN now ELSE told[s][d]
    BY <1>1, <2>2
  <2>4. CASE s = r /\ d = e
    <3>1. now.broadcasts = told[s][d].broadcasts
      BY <1>1, <2>1, <2>4 DEF ToldType
    <3>2. ASSUME occurrence[s][d] = "COMPLETED" PROVE now.reminders = told[s][d].reminders
      <4>1. ~sends
        BY <2>1, <2>4, <3>2 DEF StillWanted
      <4>2. now = [told[s][d] EXCEPT !.reminders = told[s][d].reminders]
        BY <2>1, <2>4, <4>1
      <4> QED
        BY <1>1, <4>2 DEF ToldType
    <3> QED
      BY <2>3, <2>4, <3>1, <3>2
  <2>5. CASE ~(s = r /\ d = e)
    BY <2>3, <2>5
  <2> QED
    BY <2>4, <2>5
<1>4. ASSUME NEW w \in Worker, ProcessDistribution(w) PROVE Stays
  <2>1. PICK r, e, sends, now :
          /\ r = Head(worker[w].batch)[1] /\ e = Head(worker[w].batch)[2]
          /\ sends = BroadcastDue(r, e, worker[w].now)
          /\ now = [told[r][e] EXCEPT !.broadcasts =
                      IF sends THEN told[r][e].broadcasts + 1 ELSE told[r][e].broadcasts]
    OBVIOUS
  <2>2. told' = [told EXCEPT ![r][e] = now]
    BY <1>4, <2>1 DEF ProcessDistribution
  <2>3. told'[s][d] = IF s = r /\ d = e THEN now ELSE told[s][d]
    BY <1>1, <2>2
  <2>4. CASE s = r /\ d = e
    <3>1. now.reminders = told[s][d].reminders
      BY <1>1, <2>1, <2>4 DEF ToldType
    <3>2. ASSUME broadcast[s][d] = "CANCELLED" PROVE now.broadcasts = told[s][d].broadcasts
      <4>1. ~sends
        BY <2>1, <2>4, <3>2 DEF BroadcastDue
      <4>2. now = [told[s][d] EXCEPT !.broadcasts = told[s][d].broadcasts]
        BY <2>1, <2>4, <4>1
      <4> QED
        BY <1>1, <4>2 DEF ToldType
    <3> QED
      BY <2>3, <2>4, <3>1, <3>2
  <2>5. CASE ~(s = r /\ d = e)
    BY <2>3, <2>5
  <2> QED
    BY <2>4, <2>5
<1>5. ASSUME NEW w \in Worker, Reconcile(w) PROVE Stays
  <2>1. \E r, mail : told' = MailSent(r, mail)
    BY <1>5 DEF Reconcile
  <2> QED
    BY <1>1, <2>1, MailsOnly
<1> QED
  BY <1>2, <1>3, <1>4, <1>5
     DEF Next, vars, Tick, StartRun, WorkerStep, LoadRecurrences, LoadDistributions, FinishRun,
         RetryReconcile, GiveUp, ResponsibleChangesStatus, CompleteOccurrence, UpdateRecurrence,
         Reschedule, CancelDistribution

(* NoNoticeAfterwards, for any number of runs and requests.                *)
THEOREM NoNoticeAfterwardsHolds == Spec => NoNoticeAfterwards
<1>1. Inv /\ [Next]_vars =>
        [\A s \in Series, d \in Key :
           /\ occurrence[s][d] = "COMPLETED" => told'[s][d].reminders = told[s][d].reminders
           /\ broadcast[s][d] = "CANCELLED" => told'[s][d].broadcasts = told[s][d].broadcasts]_vars
  BY NoticesStay
<1> QED
  BY <1>1, InvInit, InvStep, PTL DEF Spec, NoNoticeAfterwards

(* Only a wanted occurrence is made, and ahead of its time only after a    *)
(* completion.                                                             *)
THEOREM NewOccurrenceIsWantedHolds == Spec => NewOccurrenceIsWanted
<1>1. ASSUME Inv, [Next]_vars, NEW s \in Series, NEW d \in Key,
             occurrence[s][d] = "NONE", occurrence'[s][d] # "NONE"
      PROVE  /\ series[s].isActive /\ s \in ready
             /\ d <= clock \/ occurrence[s][Latest(s)] = "COMPLETED"
  <2>1. occurrence \in [Series -> [Key -> {"NONE", "OPEN", "COMPLETED"}]]
    BY <1>1 DEF Inv, Types
  <2>2. PICK w \in Worker : Reconcile(w)
    <3>1. ASSUME NEW w \in Request, NEW r \in Series, NEW e \in Key, CompleteOccurrence(w, r, e)
          PROVE  FALSE
      BY <1>1, <2>1, <3>1 DEF CompleteOccurrence
    <3>2. occurrence' # occurrence
      BY <1>1
    <3>3. \A w \in Worker : ~ProcessReminder(w) /\ ~LoadRecurrences(w) /\ ~LoadDistributions(w)
                            /\ ~ProcessDistribution(w) /\ ~FinishRun(w) /\ ~RetryReconcile(w)
                            /\ ~GiveUp(w)
      BY <3>2 DEF ProcessReminder, LoadRecurrences, LoadDistributions, ProcessDistribution,
                  FinishRun, RetryReconcile, GiveUp
    <3> QED
      BY <1>1, <3>1, <3>2, <3>3 DEF Next, vars, WorkerStep, Tick, StartRun,
         ResponsibleChangesStatus, UpdateRecurrence, Reschedule, CancelDistribution
  <2> DEFINE r == Head(worker[w].batch)
             now == worker[w].now
             e == series[r].next
  <2>3. Generates(r, now) /\ occurrence' = [occurrence EXCEPT ![r][e] = "OPEN"]
    BY <1>1, <2>2 DEF Reconcile, Generated
  <2> HIDE DEF r, now, e
  <2>4. r = s /\ e = d
    BY <1>1, <2>1, <2>3
  <2>5. /\ series[s].isActive /\ s \in ready
        /\ series[s].next <= now \/ occurrence[s][Latest(s)] = "COMPLETED"
    BY <2>3, <2>4 DEF Generates, Wanted, MayMaterialize
  <2>6. d = series[s].next
    BY <2>4 DEF e
  <2>7. d \in Nat /\ now \in Nat /\ now <= clock /\ clock \in Nat
    BY <1>1, Keys DEF Inv, Types, WorkerTypes, IsWorker, now
  <2> QED
    BY <2>5, <2>6, <2>7
<1>2. Inv /\ [Next]_vars =>
        [\A s \in Series, d \in Key :
           occurrence[s][d] = "NONE" /\ occurrence'[s][d] # "NONE" =>
             /\ series[s].isActive /\ s \in ready
             /\ d <= clock \/ occurrence[s][Latest(s)] = "COMPLETED"]_vars
  BY <1>1
<1> QED
  BY <1>2, InvInit, InvStep, PTL DEF Spec, NewOccurrenceIsWanted
=============================================================================
