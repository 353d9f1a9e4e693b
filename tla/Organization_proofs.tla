------------------------ MODULE Organization_proofs ------------------------
(***************************************************************************)
(* Proofs about Organization, with the imports beside it, for any admins,  *)
(* members, teams, requests and workbooks and any bounds.                  *)
(***************************************************************************)
EXTENDS Import, SequenceTheorems, FiniteSetTheorems, TLAPS

-----------------------------------------------------------------------------
(* Types *)

RowRead == {"user", "team", "teams of", "membership"} \X (Admin \cup {NoAdmin} \cup Team \cup Member)

Move == [from : Team \cup {NoTeam}, to : Team]

(* What each kind of request names.                                        *)
Fits(q) ==
  /\ q \in AskType
  /\ q.op \in {"CREATE", "REASSIGN"} => q.team \in Team /\ q.admin \in Admin
  /\ q.op = "STATUS" => q.admin \in Admin
  /\ q.op \in {"ASSIGN", "TRANSFER"} => q.team \in Team /\ q.member \in Member

RequestType == [phase : {"toMake", "asked", "writing", "done"}, ask : AskType, attempt : 0..MaxAttempts,
                fresh : BOOLEAN, rows : SUBSET RowRead, from : MembershipType]

RequestTypes ==
  /\ request \in [Request -> RequestType]
  /\ \A r \in Request : request[r].phase \in {"asked", "writing"} => Fits(request[r].ask)

OrgTypes ==
  /\ teamAdmin \in [Team -> Admin \cup {NoAdmin}]
  /\ activeAdmin \subseteq Admin
  /\ membership \in [Member -> MembershipType]
  /\ moves \in [Member -> Seq(Move)]
  /\ RequestTypes

(* A request that is only begun or ended.                                  *)
LEMMA DoneType ==
  /\ ToMake \in RequestType /\ Done \in RequestType
  /\ ToMake.phase = "toMake" /\ Done.phase = "done"
<1>1. NoAsk \in AskType
  BY DEF NoAsk, AskType, Serializable
<1>2. Unplaced \in MembershipType
  BY DEF Unplaced, MembershipType
<1>3. 0 \in 0..MaxAttempts
  BY AttemptsAssumption
<1>4. ToMake \in RequestType
  BY <1>1, <1>2, <1>3 DEF ToMake, RequestType
<1> QED
  BY <1>4 DEF ToMake, Done, RequestType

(* Every request that may be made names what its handler looks up.         *)
LEMMA AsksFit ==
  ASSUME NEW q \in Asks, NEW scope \in SUBSET Team
  PROVE  Fits([q EXCEPT !.scope = scope])
<1> DEFINE p == [q EXCEPT !.scope = scope]
<1>1. ASSUME NEW op \in {"CREATE", "REASSIGN"}, NEW t \in Team, NEW a \in Admin,
             q = TeamAsk(op, t, a)
      PROVE  Fits(p)
  BY <1>1 DEF TeamAsk, Fits, NoAsk, AskType, Serializable
<1>2. ASSUME NEW a \in Admin, NEW active \in BOOLEAN, q = StatusAsk(a, active) PROVE Fits(p)
  BY <1>2 DEF StatusAsk, Fits, NoAsk, AskType, Serializable
<1>3. ASSUME NEW op \in {"ASSIGN", "TRANSFER"}, NEW m \in Member, NEW t \in Team,
             q = PlaceAsk(op, m, t)
      PROVE  Fits(p)
  BY <1>3 DEF PlaceAsk, Fits, NoAsk, AskType, Serializable
<1>4. ASSUME NEW m \in Member, NEW active \in BOOLEAN, q = MemberStatusAsk(m, active)
      PROVE  Fits(p)
  BY <1>4 DEF MemberStatusAsk, Fits, NoAsk, AskType, Serializable
<1>5. ASSUME NEW viewer \in Admin \cup {SuperAdmin}, NEW m \in Member,
             NEW e \in Employee \cup {NoEmployee, Keep},
             NEW d \in Designation \cup {NoDesignation, Keep},
             q = UpdateAsk(viewer, m, e, d)
      PROVE  Fits(p)
  BY <1>5 DEF UpdateAsk, Fits, NoAsk, AskType, Serializable
<1> QED
  BY <1>1, <1>2, <1>3, <1>4, <1>5 DEF Asks

(* The rows a handler goes by are rows of the database.                    *)
LEMMA ReadsType ==
  ASSUME OrgTypes, NEW q, Fits(q)
  PROVE  Reads(q) \subseteq RowRead
<1>1. \A a \in Admin \cup {NoAdmin} : <<"user", a>> \in RowRead /\ <<"teams of", a>> \in RowRead
  BY DEF RowRead
<1>2. \A t \in Team : <<"team", t>> \in RowRead
  BY DEF RowRead
<1>3. \A m \in Member : <<"membership", m>> \in RowRead
  BY DEF RowRead
<1>4. q.op \in {"CREATE", "REASSIGN", "STATUS"} => q.admin \in Admin
  BY DEF Fits
<1>5. q.op \in {"REASSIGN", "ASSIGN"} => q.team \in Team
  BY DEF Fits
<1>6. q.op = "ASSIGN" => q.member \in Member /\ teamAdmin[q.team] \in Admin \cup {NoAdmin}
  BY <1>5 DEF Fits, OrgTypes
<1> QED
  BY <1>1, <1>2, <1>3, <1>4, <1>5, <1>6 DEF Reads

(* What a request goes on with fits if it did before.                      *)
LEMMA RequestsKeepType ==
  ASSUME OrgTypes, request' \in [Request -> RequestType],
         \A s \in Request : request'[s].phase \in {"asked", "writing"} =>
           \/ Fits(request'[s].ask)
           \/ request[s].phase \in {"asked", "writing"} /\ request'[s].ask = request[s].ask
  PROVE  RequestTypes'
BY DEF OrgTypes, RequestTypes, Fits

(* A request that ends, alone or with a commit, leaves the others' asks.   *)
LEMMA EndKeepsType ==
  ASSUME OrgTypes, NEW r \in Request, NEW rows,
         \/ request' = [request EXCEPT ![r] = Done]
         \/ request' = Committed(r, rows)
  PROVE  RequestTypes'
<1>1. \A s \in Request : /\ request[s] \in RequestType
                         /\ [request[s] EXCEPT !.fresh = FALSE] \in RequestType
                         /\ [request[s] EXCEPT !.fresh = FALSE].phase = request[s].phase
                         /\ [request[s] EXCEPT !.fresh = FALSE].ask = request[s].ask
  BY DEF OrgTypes, RequestTypes, RequestType
<1>2. \A s \in Request : \/ request'[s] = Done
                         \/ request'[s] = request[s]
                         \/ request'[s] = [request[s] EXCEPT !.fresh = FALSE]
  BY DEF OrgTypes, RequestTypes, Committed
<1>3. DOMAIN request' = Request /\ request' = [s \in Request |-> request'[s]]
  BY DEF OrgTypes, RequestTypes, Committed
<1>4. request' \in [Request -> RequestType]
  BY <1>1, <1>2, <1>3, DoneType
<1>5. \A s \in Request :
        \/ request'[s].phase = "done"
        \/ request'[s].phase = request[s].phase /\ request'[s].ask = request[s].ask
  BY <1>1, <1>2, DoneType
<1> QED
  BY <1>4, <1>5, RequestsKeepType

(* Types are kept by every request.                                        *)
LEMMA OrgTypesStep ==
  ASSUME OrgTypes, OrgNext
  PROVE  OrgTypes'
<1>1. ASSUME NEW r \in Request, NEW q \in Asks, Ask(r, q) PROVE OrgTypes'
  <2> DEFINE scope == IF q.op = "UPDATE" THEN Scope(q.viewer) ELSE {}
             made == [ToMake EXCEPT !.phase = "asked", !.attempt = 1,
                                    !.ask = [q EXCEPT !.scope = scope]]
  <2>1. Fits([q EXCEPT !.scope = scope])
    BY AsksFit DEF Scope
  <2>2. made \in RequestType
    <3>1. 1 \in 0..MaxAttempts
      BY AttemptsAssumption
    <3> QED
      BY <2>1, <3>1, DoneType DEF Fits, RequestType
  <2>3. made.ask = [q EXCEPT !.scope = scope]
    BY DoneType DEF RequestType
  <2>4. request' = [request EXCEPT ![r] = made]
    BY <1>1 DEF Ask
  <2>5. request' \in [Request -> RequestType]
    BY <2>2, <2>4 DEF OrgTypes, RequestTypes
  <2>6. \A s \in Request : request'[s] = request[s] \/ Fits(request'[s].ask)
    BY <2>1, <2>3, <2>4 DEF OrgTypes, RequestTypes
  <2>7. RequestTypes'
    BY <2>5, <2>6, RequestsKeepType
  <2> QED
    BY <1>1, <2>7 DEF Ask, OrgTypes
<1>2. ASSUME NEW r \in Request, Read(r) PROVE OrgTypes'
  <2> DEFINE q == request[r].ask
             from == IF q.op = "TRANSFER" THEN membership[q.member] ELSE Unplaced
             reading == [request[r] EXCEPT !.phase = "writing", !.fresh = TRUE,
                                           !.rows = Reads(q), !.from = from]
  <2>1. Fits(q) /\ request[r] \in RequestType /\ request[r].phase = "asked"
    BY <1>2 DEF Read, OrgTypes, RequestTypes
  <2>2. Reads(q) \subseteq RowRead
    BY <2>1, ReadsType
  <2>3. from \in MembershipType
    BY <2>1 DEF Fits, OrgTypes, Unplaced, MembershipType
  <2>4. reading \in RequestType /\ reading.ask = q
    BY <2>1, <2>2, <2>3 DEF RequestType
  <2>5. request' = [request EXCEPT ![r] = IF Refused(q) THEN Done ELSE reading]
    BY <1>2 DEF Read
  <2>6. request' \in [Request -> RequestType]
    BY <2>4, <2>5, DoneType DEF OrgTypes, RequestTypes
  <2>7. \A s \in Request : \/ request'[s] = request[s]
                           \/ request'[s].phase = "done"
                           \/ Fits(request'[s].ask)
    BY <2>1, <2>4, <2>5, DoneType DEF OrgTypes, RequestTypes
  <2>8. RequestTypes'
    BY <2>6, <2>7, RequestsKeepType
  <2> QED
    BY <1>2, <2>8 DEF Read, OrgTypes
<1>3. ASSUME NEW r \in Request, TryAgain(r) PROVE OrgTypes'
  <2> DEFINE again == [ToMake EXCEPT !.phase = "asked", !.ask = request[r].ask,
                                     !.attempt = request[r].attempt + 1]
  <2>1. Fits(request[r].ask) /\ request[r] \in RequestType
    BY <1>3 DEF TryAgain, OrgTypes, RequestTypes
  <2>2. CASE request' = [request EXCEPT ![r] = Done]
    BY <1>3, <2>2, EndKeepsType DEF TryAgain, OrgTypes
  <2>3. CASE request[r].attempt # MaxAttempts /\ request' = [request EXCEPT ![r] = again]
    <3>1. request[r].attempt + 1 \in 0..MaxAttempts
      BY <2>1, <2>3, AttemptsAssumption DEF RequestType
    <3>2. again \in RequestType /\ again.ask = request[r].ask
      BY <2>1, <3>1, DoneType DEF RequestType
    <3>3. request' \in [Request -> RequestType]
      BY <2>3, <3>2 DEF OrgTypes, RequestTypes
    <3>4. \A s \in Request : request'[s] = request[s] \/ Fits(request'[s].ask)
      BY <2>1, <2>3, <3>2 DEF OrgTypes, RequestTypes
    <3>5. RequestTypes'
      BY <3>3, <3>4, RequestsKeepType
    <3> QED
      BY <1>3, <3>5 DEF TryAgain, OrgTypes
  <2> QED
    BY <1>3, <2>2, <2>3 DEF TryAgain
<1>4. ASSUME NEW r \in Request, CommitTeam(r) PROVE OrgTypes'
  <2>1. RequestTypes'
    BY <1>4, EndKeepsType DEF CommitTeam
  <2>2. request[r].ask.admin \in Admin
    BY <1>4 DEF CommitTeam, Writing, OrgTypes, RequestTypes, Fits
  <2>3. teamAdmin' \in [Team -> Admin \cup {NoAdmin}]
    BY <1>4, <2>2 DEF CommitTeam, OrgTypes
  <2> QED
    BY <1>4, <2>1, <2>3 DEF CommitTeam, OrgTypes
<1>5. ASSUME NEW r \in Request, CommitStatus(r) PROVE OrgTypes'
  <2>1. RequestTypes'
    BY <1>5, EndKeepsType DEF CommitStatus
  <2>2. request[r].ask.admin \in Admin
    BY <1>5 DEF CommitStatus, Writing, OrgTypes, RequestTypes, Fits
  <2> QED
    BY <1>5, <2>1, <2>2 DEF CommitStatus, OrgTypes
<1>6. ASSUME NEW r \in Request, NEW m \in Member, NEW from \in Team \cup {NoTeam}, NEW to \in Team,
             Place(m, from, to), RequestTypes', UNCHANGED <<teamAdmin, activeAdmin>>
      PROVE  OrgTypes'
  <2>1. moves[m] \in Seq(Move) /\ [from |-> from, to |-> to] \in Move
    BY DEF OrgTypes, Move
  <2>2. moves' \in [Member -> Seq(Move)]
    BY <1>6, <2>1 DEF Place, OrgTypes
  <2>3. [row |-> Len(moves[m]) + 1, team |-> to] \in MembershipType
    BY <2>1 DEF MembershipType
  <2>4. membership' \in [Member -> MembershipType]
    BY <1>6, <2>3 DEF Place, OrgTypes
  <2> QED
    BY <1>6, <2>2, <2>4 DEF OrgTypes
<1>7. ASSUME NEW r \in Request, CommitAssign(r) PROVE OrgTypes'
  <2>1. RequestTypes'
    BY <1>7, EndKeepsType DEF CommitAssign
  <2>2. request[r].ask.team \in Team /\ request[r].ask.member \in Member
    BY <1>7 DEF CommitAssign, Writing, OrgTypes, RequestTypes, Fits
  <2> QED
    BY <1>6, <1>7, <2>1, <2>2 DEF CommitAssign
<1>8. ASSUME NEW r \in Request, CommitTransfer(r) PROVE OrgTypes'
  <2>1. RequestTypes'
    BY <1>8, EndKeepsType DEF CommitTransfer
  <2>2. request[r].ask.team \in Team /\ request[r].ask.member \in Member
    BY <1>8 DEF CommitTransfer, Writing, OrgTypes, RequestTypes, Fits
  <2>3. request[r].from.team \in Team \cup {NoTeam}
    BY DEF OrgTypes, RequestTypes, RequestType, MembershipType
  <2> QED
    BY <1>6, <1>8, <2>1, <2>2, <2>3 DEF CommitTransfer
<1>9. ASSUME NEW r \in Request, TransferRaced(r) \/ WriteUpdate(r) \/ WriteMemberStatus(r)
      PROVE  OrgTypes'
  <2>1. request' = [request EXCEPT ![r] = Done]
    BY <1>9 DEF TransferRaced, WriteUpdate, WriteMemberStatus
  <2>2. RequestTypes'
    BY <2>1, EndKeepsType
  <2> QED
    BY <1>9, <2>2 DEF TransferRaced, WriteUpdate, WriteMemberStatus, OrgTypes
<1> QED
  BY <1>1, <1>2, <1>3, <1>4, <1>5, <1>7, <1>8, <1>9 DEF OrgNext

-----------------------------------------------------------------------------
(* The path of a member *)

(* Rows are numbered by the moves that made them.                          *)
RowsAreNumbered == \A m \in Member : membership[m].row = Len(moves[m])

(* A transfer that still finds the row it read knows the team of it.       *)
KnowsTheTeam(r) ==
  LET m == request[r].ask.member IN
  Writing(r, "TRANSFER") =>
    /\ request[r].from.row <= Len(moves[m])
    /\ request[r].from.row = Len(moves[m]) => request[r].from.team = membership[m].team

PathInv ==
  /\ OrgTypes
  /\ RowsAreNumbered
  /\ MovesAreAPath
  /\ \A r \in Request : KnowsTheTeam(r)

(* Where nobody is placed, a transfer can only begin, with what it reads.  *)
LEMMA PathUntouched ==
  ASSUME PathInv, OrgTypes', UNCHANGED <<membership, moves>>,
         \A s \in Request : Writing(s, "TRANSFER")' =>
           \/ /\ Writing(s, "TRANSFER")
              /\ request'[s].ask = request[s].ask /\ request'[s].from = request[s].from
           \/ request'[s].from = membership[request'[s].ask.member]
  PROVE  PathInv'
<1>1. RowsAreNumbered' /\ MovesAreAPath'
  BY DEF PathInv, RowsAreNumbered, MovesAreAPath, TeamAfter
<1>2. ASSUME NEW s \in Request, Writing(s, "TRANSFER")' PROVE KnowsTheTeam(s)'
  <2> DEFINE m == request'[s].ask.member
  <2>1. m \in Member
    BY <1>2 DEF OrgTypes, RequestTypes, Fits, Writing
  <2>2. Len(moves[m]) \in Nat /\ membership[m].row = Len(moves[m])
    BY <2>1 DEF PathInv, OrgTypes, RowsAreNumbered
  <2>3. CASE /\ Writing(s, "TRANSFER")
             /\ request'[s].ask = request[s].ask /\ request'[s].from = request[s].from
    BY <2>3 DEF PathInv, KnowsTheTeam
  <2>4. CASE request'[s].from = membership[m]
    BY <2>2, <2>4 DEF KnowsTheTeam
  <2> QED
    BY <1>2, <2>3, <2>4
<1>3. \A s \in Request : KnowsTheTeam(s)'
  BY <1>2 DEF KnowsTheTeam
<1> QED
  BY <1>1, <1>3 DEF PathInv

(* Placing a member who leaves the team they are in makes the path longer. *)
LEMMA PathPlaced ==
  ASSUME PathInv, OrgTypes', NEW m \in Member, NEW to \in Team,
         Place(m, membership[m].team, to),
         \A s \in Request : Writing(s, "TRANSFER")' =>
           /\ Writing(s, "TRANSFER")
           /\ request'[s].ask = request[s].ask /\ request'[s].from = request[s].from
  PROVE  PathInv'
<1> DEFINE move == [from |-> membership[m].team, to |-> to]
<1>0. PICK n \in Nat : n = Len(moves[m])
  BY DEF PathInv, OrgTypes
<1>1. moves[m] \in Seq(Move) /\ n = Len(moves[m])
  BY <1>0 DEF PathInv, OrgTypes
<1>2. /\ moves' = [moves EXCEPT ![m] = Append(moves[m], move)]
      /\ membership' = [membership EXCEPT ![m] = [row |-> n + 1, team |-> to]]
  BY <1>1 DEF Place
<1>3. /\ moves'[m] = Append(moves[m], move)
      /\ membership'[m] = [row |-> n + 1, team |-> to]
      /\ \A o \in Member \ {m} : moves'[o] = moves[o] /\ membership'[o] = membership[o]
  BY <1>2 DEF PathInv, OrgTypes
<1>4. /\ Len(moves'[m]) = n + 1
      /\ moves'[m][n + 1] = move
      /\ \A k \in 1..n : moves'[m][k] = moves[m][k]
  BY <1>1, <1>3
<1>5. RowsAreNumbered'
  BY <1>3, <1>4 DEF PathInv, RowsAreNumbered
<1>6. \A k \in 0..n : TeamAfter(m, k)' = TeamAfter(m, k)
  BY <1>1, <1>4 DEF TeamAfter
<1>7. MovesAreAPath'
  <2> SUFFICES ASSUME NEW o \in Member
               PROVE  /\ \A k \in 1..Len(moves'[o]) : moves'[o][k].from = TeamAfter(o, k - 1)'
                      /\ membership'[o].team = TeamAfter(o, Len(moves[o]))'
    BY DEF MovesAreAPath
  <2>1. CASE o # m
    BY <1>3, <2>1 DEF PathInv, MovesAreAPath, TeamAfter
  <2>2. CASE o = m
    <3>1. /\ \A k \in 1..n : moves[m][k].from = TeamAfter(m, k - 1)
          /\ membership[m].team = TeamAfter(m, n)
      BY <1>1 DEF PathInv, MovesAreAPath
    <3>2. \A k \in 1..n : moves'[m][k].from = TeamAfter(m, k - 1)'
      <4>1. \A k \in 1..n : k - 1 \in 0..n
        BY <1>1
      <4> QED
        BY <1>4, <1>6, <3>1, <4>1
    <3>3. moves'[m][n + 1].from = TeamAfter(m, n)'
      BY <1>1, <1>4, <1>6, <3>1
    <3>4. ASSUME NEW k \in 1..(n + 1) PROVE moves'[m][k].from = TeamAfter(m, k - 1)'
      <4>1. k \in 1..n \/ k = n + 1
        BY <1>1
      <4>2. n + 1 - 1 = n
        BY <1>1
      <4> QED
        BY <3>2, <3>3, <4>1, <4>2
    <3>5. membership'[m].team = TeamAfter(m, n + 1)'
      BY <1>1, <1>3, <1>4 DEF TeamAfter
    <3> QED
      BY <1>4, <2>2, <3>4, <3>5
  <2> QED
    BY <2>1, <2>2
<1>8. ASSUME NEW s \in Request, Writing(s, "TRANSFER")' PROVE KnowsTheTeam(s)'
  <2> DEFINE o == request[s].ask.member
  <2>1. /\ Writing(s, "TRANSFER")
        /\ request'[s].ask = request[s].ask /\ request'[s].from = request[s].from
    BY <1>8
  <2>2. o \in Member /\ request[s].from.row \in Nat
    BY <2>1 DEF PathInv, OrgTypes, RequestTypes, RequestType, MembershipType, Fits, Writing
  <2>3. /\ request[s].from.row <= Len(moves[o])
        /\ request[s].from.row = Len(moves[o]) => request[s].from.team = membership[o].team
    BY <2>1 DEF PathInv, KnowsTheTeam
  <2>4. CASE o = m
    BY <1>1, <1>4, <2>1, <2>2, <2>3, <2>4 DEF KnowsTheTeam
  <2>5. CASE o # m
    BY <1>3, <2>1, <2>2, <2>3, <2>5 DEF KnowsTheTeam
  <2> QED
    BY <2>4, <2>5
<1>9. \A s \in Request : KnowsTheTeam(s)'
  BY <1>8 DEF KnowsTheTeam
<1> QED
  BY <1>5, <1>7, <1>9 DEF PathInv

(* What the other requests are left with when one ends.                    *)
LEMMA OthersGoOn ==
  ASSUME OrgTypes, NEW r \in Request, NEW rows,
         \/ request' = [request EXCEPT ![r] = Done]
         \/ request' = Committed(r, rows)
  PROVE  \A s \in Request : request'[s].phase = "writing" =>
           /\ s # r
           /\ request[s].phase = "writing"
           /\ request'[s].ask = request[s].ask
           /\ request'[s].from = request[s].from
           /\ request'[s].rows = request[s].rows
           /\ request'[s].fresh => request[s].fresh
           /\ request'[s].fresh /\ request' = Committed(r, rows) => request[s].rows \cap rows = {}
BY DoneType DEF OrgTypes, RequestTypes, RequestType, Committed

(* Every request keeps the path of every member.                           *)
LEMMA PathStep ==
  ASSUME PathInv, OrgNext
  PROVE  PathInv'
<1>1. OrgTypes /\ OrgTypes'
  BY OrgTypesStep DEF PathInv
<1>2. ASSUME NEW r \in Request, NEW q \in Asks, Ask(r, q) PROVE PathInv'
  <2>1. \A s \in Request : request'[s] = request[s] \/ request'[s].phase = "asked"
    BY <1>1, <1>2, DoneType DEF Ask, OrgTypes, RequestTypes, RequestType
  <2> QED
    BY <1>1, <1>2, <2>1, PathUntouched DEF Ask, Writing
<1>3. ASSUME NEW r \in Request, Read(r) PROVE PathInv'
  <2>1. /\ \A s \in Request \ {r} : request'[s] = request[s]
        /\ request'[r].phase = "writing" =>
             /\ request'[r].ask = request[r].ask
             /\ request[r].ask.op = "TRANSFER" => request'[r].from = membership[request[r].ask.member]
    BY <1>1, <1>3, DoneType DEF Read, OrgTypes, RequestTypes, RequestType
  <2> QED
    BY <1>1, <1>3, <2>1, PathUntouched DEF Read, Writing
<1>4. ASSUME NEW r \in Request, TryAgain(r) PROVE PathInv'
  <2>1. \A s \in Request : request'[s] = request[s] \/ request'[s].phase \in {"asked", "done"}
    BY <1>1, <1>4, DoneType DEF TryAgain, OrgTypes, RequestTypes, RequestType
  <2> QED
    BY <1>1, <1>4, <2>1, PathUntouched DEF TryAgain, Writing
<1>5. ASSUME NEW r \in Request, NEW rows,
             request' = [request EXCEPT ![r] = Done] \/ request' = Committed(r, rows),
             UNCHANGED <<membership, moves>>
      PROVE  PathInv'
  BY <1>1, <1>5, OthersGoOn, PathUntouched DEF Writing
<1>6. ASSUME NEW r \in Request,
             \/ CommitTeam(r) \/ CommitStatus(r)
             \/ TransferRaced(r) \/ WriteUpdate(r) \/ WriteMemberStatus(r)
      PROVE  PathInv'
  BY <1>5, <1>6 DEF CommitTeam, CommitStatus, TransferRaced, WriteUpdate, WriteMemberStatus
<1>7. ASSUME NEW r \in Request, NEW rows,
             request' = [request EXCEPT ![r] = Done] \/ request' = Committed(r, rows),
             NEW m \in Member, NEW to \in Team, Place(m, membership[m].team, to)
      PROVE  PathInv'
  <2>1. \A s \in Request : Writing(s, "TRANSFER")' =>
           /\ Writing(s, "TRANSFER")
           /\ request'[s].ask = request[s].ask /\ request'[s].from = request[s].from
    BY <1>1, <1>7, OthersGoOn DEF Writing
  <2> QED
    BY <1>1, <1>7, <2>1, PathPlaced
<1>8. ASSUME NEW r \in Request, CommitAssign(r) PROVE PathInv'
  <2>1. request[r].ask.member \in Member /\ request[r].ask.team \in Team
    BY <1>1, <1>8 DEF CommitAssign, Writing, OrgTypes, RequestTypes, Fits
  <2>2. membership[request[r].ask.member].team = NoTeam
    BY <1>8 DEF CommitAssign, Unplaced
  <2> QED
    BY <1>7, <1>8, <2>1, <2>2 DEF CommitAssign
<1>9. ASSUME NEW r \in Request, CommitTransfer(r) PROVE PathInv'
  <2> DEFINE m == request[r].ask.member
  <2>1. m \in Member /\ request[r].ask.team \in Team
    BY <1>1, <1>9 DEF CommitTransfer, Writing, OrgTypes, RequestTypes, Fits
  <2>2. request[r].from.row = Len(moves[m])
    BY <1>9, <2>1 DEF CommitTransfer, SameRow, PathInv, RowsAreNumbered
  <2>3. request[r].from.team = membership[m].team
    BY <1>9, <2>2 DEF CommitTransfer, PathInv, KnowsTheTeam
  <2> QED
    BY <1>7, <1>9, <2>1, <2>3 DEF CommitTransfer
<1> QED
  BY <1>2, <1>3, <1>4, <1>6, <1>8, <1>9 DEF OrgNext

(* The imports leave teams, memberships and requests alone.                *)
LEMMA ImportsLeaveTeams ==
  [Next]_vars => OrgNext \/ UNCHANGED <<teamAdmin, activeAdmin, membership, moves, request>>
BY DEF Next, vars, orgVars, OrganizationStep, Preview, Execute, CommitMembers, CommitTasks, RunAgain

(* The initial states have their types.                                    *)
LEMMA OrgTypesInit == OrgInit => OrgTypes
<1> SUFFICES ASSUME OrgInit PROVE OrgTypes
  OBVIOUS
<1>1. PICK at \in [Member -> {t \in Team : teamAdmin[t] # NoAdmin} \cup {NoTeam}] :
        /\ membership = [m \in Member |-> IF at[m] = NoTeam THEN Unplaced
                                          ELSE [row |-> 1, team |-> at[m]]]
        /\ moves = [m \in Member |-> IF at[m] = NoTeam THEN <<>>
                                     ELSE <<[from |-> NoTeam, to |-> at[m]]>>]
  BY DEF OrgInit
<1>2. \A m \in Member : at[m] # NoTeam => at[m] \in Team
  OBVIOUS
<1>3. membership \in [Member -> MembershipType]
  BY <1>1, <1>2 DEF MembershipType, Unplaced
<1>4. moves \in [Member -> Seq(Move)]
  <2>1. \A m \in Member : at[m] # NoTeam => [from |-> NoTeam, to |-> at[m]] \in Move
    BY <1>2 DEF Move
  <2> QED
    BY <1>1, <2>1
<1>5. RequestTypes
  BY DoneType DEF OrgInit, RequestTypes
<1> QED
  BY <1>3, <1>4, <1>5 DEF OrgInit, OrgTypes

(* The recorded moves of a member are the path they took, although a       *)
(* transfer is not serializable.                                           *)
THEOREM MovesAreAPathHolds == Spec => []MovesAreAPath
<1>1. Init => PathInv
  <2> SUFFICES ASSUME OrgInit PROVE PathInv
    BY DEF Init
  <2>1. PICK at \in [Member -> {t \in Team : teamAdmin[t] # NoAdmin} \cup {NoTeam}] :
          /\ membership = [m \in Member |-> IF at[m] = NoTeam THEN Unplaced
                                            ELSE [row |-> 1, team |-> at[m]]]
          /\ moves = [m \in Member |-> IF at[m] = NoTeam THEN <<>>
                                       ELSE <<[from |-> NoTeam, to |-> at[m]]>>]
    BY DEF OrgInit
  <2>2. RowsAreNumbered /\ MovesAreAPath
    BY <2>1 DEF RowsAreNumbered, MovesAreAPath, TeamAfter, Unplaced
  <2>3. \A r \in Request : ~Writing(r, "TRANSFER")
    BY DoneType DEF OrgInit, Writing
  <2> QED
    BY <2>2, <2>3, OrgTypesInit DEF PathInv, KnowsTheTeam
<1>2. PathInv /\ [Next]_vars => PathInv'
  <2>1. ASSUME PathInv, UNCHANGED <<teamAdmin, activeAdmin, membership, moves, request>>
        PROVE  PathInv'
    <3>1. OrgTypes'
      BY <2>1 DEF PathInv, OrgTypes, RequestTypes
    <3>2. RowsAreNumbered' /\ MovesAreAPath'
      BY <2>1 DEF PathInv, RowsAreNumbered, MovesAreAPath, TeamAfter
    <3>3. \A r \in Request : KnowsTheTeam(r)'
      BY <2>1 DEF PathInv, KnowsTheTeam, Writing
    <3> QED
      BY <3>1, <3>2, <3>3 DEF PathInv
  <2> QED
    BY <2>1, PathStep, ImportsLeaveTeams
<1>3. PathInv => MovesAreAPath
  BY DEF PathInv
<1> QED
  BY <1>1, <1>2, <1>3, PTL DEF Spec

-----------------------------------------------------------------------------
(* The admins of the teams *)

(* As long as nothing a request read has been overwritten, what it decided *)
(* from is still so: the admin who gets a team is active, and the admin    *)
(* who is deactivated has none.                                            *)
StillHolds(r) ==
  LET q == request[r].ask IN
  request[r].phase = "writing" /\ request[r].fresh =>
    /\ q.op \in {"CREATE", "REASSIGN"} =>
         <<"user", q.admin>> \in request[r].rows /\ q.admin \in activeAdmin
    /\ q.op = "STATUS" /\ ~q.active =>
         <<"teams of", q.admin>> \in request[r].rows /\ ~OwnsTeam(q.admin)

AdminInv ==
  /\ OrgTypes
  /\ EveryTeamHasAnActiveAdmin
  /\ \A r \in Request : StillHolds(r)

(* Where teams and admins stay, a request can only begin, from what it     *)
(* reads now.                                                              *)
LEMMA AdminsUntouched ==
  ASSUME AdminInv, OrgTypes', UNCHANGED <<teamAdmin, activeAdmin>>,
         \A s \in Request : request'[s].phase = "writing" =>
           \/ /\ request[s].phase = "writing" /\ request'[s].ask = request[s].ask
              /\ request'[s].rows = request[s].rows
              /\ request'[s].fresh => request[s].fresh
           \/ /\ ~Refused(request'[s].ask)
              /\ request'[s].rows = Reads(request'[s].ask)
  PROVE  AdminInv'
<1>1. EveryTeamHasAnActiveAdmin'
  BY DEF AdminInv, EveryTeamHasAnActiveAdmin, HasActiveAdmin, IsActiveAdmin
<1>2. ASSUME NEW s \in Request, request'[s].phase = "writing", request'[s].fresh
      PROVE  StillHolds(s)'
  <2> DEFINE q == request'[s].ask
  <2>1. CASE /\ request[s].phase = "writing" /\ request'[s].ask = request[s].ask
             /\ request'[s].rows = request[s].rows
             /\ request'[s].fresh => request[s].fresh
    BY <1>2, <2>1 DEF AdminInv, StillHolds, OwnsTeam
  <2>2. CASE ~Refused(q) /\ request'[s].rows = Reads(q)
    <3>1. q.op \in {"CREATE", "REASSIGN"} => <<"user", q.admin>> \in Reads(q) /\ q.admin \in activeAdmin
      BY <2>2 DEF Refused, RefusesCreate, RefusesReassign, IsActiveAdmin, Reads
    <3>2. q.op = "STATUS" /\ ~q.active => <<"teams of", q.admin>> \in Reads(q) /\ ~OwnsTeam(q.admin)
      BY <2>2 DEF Refused, RefusesStatus, Reads
    <3> QED
      BY <2>2, <3>1, <3>2 DEF StillHolds, OwnsTeam
  <2> QED
    BY <1>2, <2>1, <2>2
<1>3. \A s \in Request : StillHolds(s)'
  BY <1>2 DEF StillHolds
<1> QED
  BY <1>1, <1>3 DEF AdminInv

(* Giving a team to an admin, and changing the status of one, commit only  *)
(* on what still holds, and set back the requests it no longer holds for.  *)
LEMMA AdminStep ==
  ASSUME AdminInv, OrgNext
  PROVE  AdminInv'
<1>1. OrgTypes /\ OrgTypes'
  BY OrgTypesStep DEF AdminInv
<1>2. ASSUME NEW r \in Request, NEW q \in Asks, Ask(r, q) PROVE AdminInv'
  <2>1. \A s \in Request : request'[s] = request[s] \/ request'[s].phase = "asked"
    BY <1>1, <1>2, DoneType DEF Ask, OrgTypes, RequestTypes, RequestType
  <2> QED
    BY <1>1, <1>2, <2>1, AdminsUntouched DEF Ask
<1>3. ASSUME NEW r \in Request, Read(r) PROVE AdminInv'
  <2>1. /\ \A s \in Request \ {r} : request'[s] = request[s]
        /\ request'[r].phase = "writing" =>
             /\ request'[r].ask = request[r].ask
             /\ ~Refused(request[r].ask)
             /\ request'[r].rows = Reads(request[r].ask)
    BY <1>1, <1>3, DoneType DEF Read, OrgTypes, RequestTypes, RequestType
  <2> QED
    BY <1>1, <1>3, <2>1, AdminsUntouched DEF Read
<1>4. ASSUME NEW r \in Request, TryAgain(r) PROVE AdminInv'
  <2>1. \A s \in Request : request'[s] = request[s] \/ request'[s].phase \in {"asked", "done"}
    BY <1>1, <1>4, DoneType DEF TryAgain, OrgTypes, RequestTypes, RequestType
  <2> QED
    BY <1>1, <1>4, <2>1, AdminsUntouched DEF TryAgain
<1>5. ASSUME NEW r \in Request, NEW rows,
             request' = [request EXCEPT ![r] = Done] \/ request' = Committed(r, rows),
             UNCHANGED <<teamAdmin, activeAdmin>>
      PROVE  AdminInv'
  BY <1>1, <1>5, OthersGoOn, AdminsUntouched
<1>6. ASSUME NEW r \in Request,
             \/ CommitAssign(r) \/ CommitTransfer(r)
             \/ TransferRaced(r) \/ WriteUpdate(r) \/ WriteMemberStatus(r)
      PROVE  AdminInv'
  BY <1>5, <1>6 DEF CommitAssign, CommitTransfer, TransferRaced, WriteUpdate, WriteMemberStatus
<1>7. ASSUME NEW r \in Request, CommitTeam(r) PROVE AdminInv'
  <2> DEFINE q == request[r].ask
             rows == {<<"team", q.team>>, <<"teams of", q.admin>>, <<"teams of", teamAdmin[q.team]>>}
  <2>1. /\ request[r].phase = "writing" /\ request[r].fresh /\ q.op \in {"CREATE", "REASSIGN"}
        /\ teamAdmin' = [teamAdmin EXCEPT ![q.team] = q.admin]
        /\ request' = Committed(r, rows)
        /\ UNCHANGED activeAdmin
    BY <1>7 DEF CommitTeam, Writing, Conflicts
  <2>2. q.admin \in activeAdmin
    BY <2>1 DEF AdminInv, StillHolds
  <2>3. EveryTeamHasAnActiveAdmin'
    BY <1>1, <2>1, <2>2
       DEF AdminInv, OrgTypes, EveryTeamHasAnActiveAdmin, HasActiveAdmin, IsActiveAdmin
  <2>4. ASSUME NEW s \in Request, request'[s].phase = "writing", request'[s].fresh
        PROVE  StillHolds(s)'
    <3>1. /\ request[s].phase = "writing" /\ request[s].fresh
          /\ request'[s].ask = request[s].ask /\ request'[s].rows = request[s].rows
          /\ request[s].rows \cap rows = {}
      BY <1>1, <2>1, <2>4, OthersGoOn
    <3>2. <<"teams of", request[s].ask.admin>> \in request[s].rows => request[s].ask.admin # q.admin
      BY <3>1
    <3>3. \A a : a # q.admin /\ ~OwnsTeam(a) => ~OwnsTeam(a)'
      BY <1>1, <2>1 DEF OwnsTeam, OrgTypes
    <3> QED
      BY <2>1, <3>1, <3>2, <3>3 DEF AdminInv, StillHolds
  <2> QED
    BY <1>1, <2>3, <2>4 DEF AdminInv, StillHolds
<1>8. ASSUME NEW r \in Request, CommitStatus(r) PROVE AdminInv'
  <2> DEFINE q == request[r].ask
             rows == {<<"user", q.admin>>}
  <2>1. /\ request[r].phase = "writing" /\ request[r].fresh /\ q.op = "STATUS"
        /\ activeAdmin' = IF q.active THEN activeAdmin \cup {q.admin} ELSE activeAdmin \ {q.admin}
        /\ request' = Committed(r, rows)
        /\ UNCHANGED teamAdmin
    BY <1>8 DEF CommitStatus, Writing, Conflicts
  <2>2. ~q.active => ~OwnsTeam(q.admin)
    BY <2>1 DEF AdminInv, StillHolds
  <2>3. EveryTeamHasAnActiveAdmin'
    BY <2>1, <2>2 DEF AdminInv, EveryTeamHasAnActiveAdmin, HasActiveAdmin, IsActiveAdmin, OwnsTeam
  <2>4. ASSUME NEW s \in Request, request'[s].phase = "writing", request'[s].fresh
        PROVE  StillHolds(s)'
    <3>1. /\ request[s].phase = "writing" /\ request[s].fresh
          /\ request'[s].ask = request[s].ask /\ request'[s].rows = request[s].rows
          /\ request[s].rows \cap rows = {}
      BY <1>1, <2>1, <2>4, OthersGoOn
    <3>2. <<"user", request[s].ask.admin>> \in request[s].rows => request[s].ask.admin # q.admin
      BY <3>1
    <3>3. \A a : a # q.admin /\ a \in activeAdmin => a \in activeAdmin'
      BY <2>1
    <3>4. \A a : ~OwnsTeam(a) => ~OwnsTeam(a)'
      BY <2>1 DEF OwnsTeam
    <3> QED
      BY <3>1, <3>2, <3>3, <3>4 DEF AdminInv, StillHolds
  <2> QED
    BY <1>1, <2>3, <2>4 DEF AdminInv, StillHolds
<1> QED
  BY <1>2, <1>3, <1>4, <1>6, <1>7, <1>8 DEF OrgNext

(* However requests overlap, no team is left with an admin who may not act.*)
THEOREM EveryTeamHasAnActiveAdminHolds == Spec => []EveryTeamHasAnActiveAdmin
<1>1. Init => AdminInv
  BY OrgTypesInit, DoneType, NobodyAssumption
     DEF Init, OrgInit, AdminInv, EveryTeamHasAnActiveAdmin, HasActiveAdmin, IsActiveAdmin, StillHolds
<1>2. AdminInv /\ [Next]_vars => AdminInv'
  <2>1. AdminInv /\ UNCHANGED <<teamAdmin, activeAdmin, membership, moves, request>> => AdminInv'
    BY DEF AdminInv, OrgTypes, RequestTypes, EveryTeamHasAnActiveAdmin, HasActiveAdmin,
           IsActiveAdmin, StillHolds, OwnsTeam
  <2> QED
    BY <2>1, AdminStep, ImportsLeaveTeams
<1>3. AdminInv => EveryTeamHasAnActiveAdmin
  BY DEF AdminInv
<1> QED
  BY <1>1, <1>2, <1>3, PTL DEF Spec

-----------------------------------------------------------------------------
(* The imports                                                             *)

AccountType == [active : BOOLEAN, employee : Employee \cup {NoEmployee},
                designation : Designation \cup {NoDesignation}]

(* What an import keeps of a row of members.                               *)
MemberOrder == [member : Member, employee : Employee \cup {NoEmployee},
                email : Member \cup {NoMember}, team : Team \cup {NoTeam},
                target : Designation, baseline : Designation \cup {NoDesignation}]

Order(kind) == IF kind = "MEMBER" THEN MemberOrder ELSE HistoricalTask
Key(kind, row) == IF kind = "MEMBER" THEN row.member ELSE row.reference

ImportType == [phase : {"toMake", "previewed", "writing", "done", "refused"},
               kind : {"MEMBER", "HISTORICAL_TASK"},
               rows : SUBSET (MemberOrder \cup HistoricalTask),
               toWrite : SUBSET (MemberOrder \cup HistoricalTask),
               attempt : 0..MaxAttempts, fresh : BOOLEAN]

(* An import has one row at most for what it concerns.                     *)
OneRowEach(kind, rows) ==
  /\ rows \subseteq Order(kind)
  /\ \A row, other \in rows : Key(kind, row) = Key(kind, other) => row = other

(* An import not yet overtaken finds what it has read still so: it         *)
(* replaces the designations its preview showed, it adds tasks that are    *)
(* not there, and the rest of its tasks are.                               *)
ReadsHold(i) ==
  import[i].phase = "writing" /\ import[i].fresh =>
    /\ import[i].kind = "MEMBER" => \A row \in import[i].toWrite :
         member[row.member].designation = row.baseline /\ SameIdentity(row, row.member)
    /\ import[i].kind = "HISTORICAL_TASK" => \A row \in import[i].rows :
         history[row.reference] = IF row \in import[i].toWrite THEN NoTask ELSE row

ImportTypes ==
  /\ member \in [Member -> AccountType]
  /\ history \in [Reference -> HistoricalTask \cup {NoTask}]
  /\ import \in [Import -> ImportType]

Orders ==
  /\ \A c \in Reference : history[c] # NoTask => history[c].reference = c
  /\ \A i \in Import : /\ OneRowEach(import[i].kind, import[i].rows)
                       /\ import[i].toWrite \subseteq import[i].rows
                       /\ ReadsHold(i)

ImportInv == OrgTypes /\ ImportTypes /\ Orders /\ ImportedMeansPresent

-----------------------------------------------------------------------------
(* What a preview keeps                                                    *)

(* Two things make a set of two.                                           *)
LEMMA TwoApart ==
  ASSUME NEW x, NEW y, x # y
  PROVE  Cardinality({x, y}) = 2
<1>1. IsFiniteSet({x}) /\ Cardinality({x}) = 1
  BY FS_Singleton
<1>2. Cardinality({x} \cup {y}) = 2
  BY <1>1, FS_AddElement
<1>3. {x} \cup {y} = {x, y}
  OBVIOUS
<1> QED
  BY <1>2, <1>3

(* A row of members to be carried out was found to concern one member,     *)
(* whom no other row concerns.                                             *)
LEMMA MemberCandidate ==
  ASSUME NEW rows \in Seq(MemberRow), NEW n \in 1..Len(rows),
         MemberVerdict(rows, n) \in {"CANDIDATE", "CANDIDATE_UPDATE"}
  PROVE  /\ Complete(rows[n]) /\ Found(rows[n]) # {} /\ Found(rows[n]) \subseteq Member
         /\ ~(Cardinality(Found(rows[n])) > 1)
         /\ ~Repeated(rows, CHOOSE x \in Found(rows[n]) : TRUE)
         /\ rows[n].designation \in Designation
<1>1. rows[n] \in MemberRow
  OBVIOUS
<1>2. Found(rows[n]) \subseteq Member
  BY DEF Found
<1> DEFINE row == rows[n]
           found == Found(row)
           m == CHOOSE x \in found : TRUE
<1> HIDE DEF row, found, m
<1>3. /\ ~(row.form = "blank") /\ Complete(row)
      /\ ~(teamAdmin[row.team] = NoAdmin \/ Cardinality(found) > 1)
      /\ ~(found = {} \/ Repeated(rows, m))
      /\ ~(row.designation \in {NoDesignation, member[m].designation})
  BY DEF MemberVerdict, row, found, m
<1> QED
  BY <1>1, <1>2, <1>3 DEF MemberRow, row, found, m

(* What is kept of such a row names that member and is well-formed.         *)
LEMMA MemberOrders ==
  ASSUME member \in [Member -> AccountType], NEW rows \in Seq(MemberRow), NEW n \in 1..Len(rows),
         MemberVerdict(rows, n) \in {"CANDIDATE", "CANDIDATE_UPDATE"}
  PROVE  /\ MemberCanonical(rows[n]) \in MemberOrder
         /\ Found(rows[n]) = {MemberCanonical(rows[n]).member}
<1> DEFINE m == CHOOSE x \in Found(rows[n]) : TRUE
<1>1. m \in Found(rows[n]) /\ m \in Member
  BY MemberCandidate
<1>2. Found(rows[n]) \subseteq {m}
  <2> SUFFICES ASSUME NEW k \in Found(rows[n]), k # m PROVE FALSE
    OBVIOUS
  <2>1. {m, k} \subseteq Found(rows[n]) /\ Found(rows[n]) \subseteq Member
    BY <1>1 DEF Found
  <2> HIDE DEF m
  <2>2. IsFiniteSet(Found(rows[n])) /\ Cardinality({m, k}) <= Cardinality(Found(rows[n]))
    BY <2>1, MembersAssumption, FS_Subset
  <2>3. Cardinality({m, k}) = 2
    BY TwoApart
  <2>4. ~(Cardinality(Found(rows[n])) > 1)
    BY MemberCandidate
  <2>5. Cardinality(Found(rows[n])) \in Nat
    BY <2>2, FS_CardinalityType
  <2> QED
    BY <2>2, <2>3, <2>4, <2>5
<1>3. rows[n] \in MemberRow /\ rows[n].designation \in Designation
  <2> HIDE DEF m
  <2>1. rows[n] \in MemberRow
    OBVIOUS
  <2>2. rows[n].designation \in Designation
    BY MemberCandidate
  <2> QED
    BY <2>1, <2>2
<1>4. member[m] \in AccountType
  BY <1>1
<1>5. /\ MemberCanonical(rows[n]) \in MemberOrder
      /\ MemberCanonical(rows[n]).member = m
  BY <1>1, <1>3, <1>4 DEF MemberCanonical, MemberOrder, MemberRow, AccountType
<1> QED
  BY <1>1, <1>2, <1>5

(* Two of them would make both repeated.                                   *)
LEMMA MemberRowsDiffer ==
  ASSUME member \in [Member -> AccountType], NEW rows \in Seq(MemberRow),
         NEW n \in 1..Len(rows), NEW k \in 1..Len(rows),
         MemberVerdict(rows, n) \in {"CANDIDATE", "CANDIDATE_UPDATE"},
         MemberVerdict(rows, k) \in {"CANDIDATE", "CANDIDATE_UPDATE"},
         MemberCanonical(rows[n]).member = MemberCanonical(rows[k]).member
  PROVE  n = k
<1> SUFFICES ASSUME n # k PROVE FALSE
  OBVIOUS
<1> DEFINE m == MemberCanonical(rows[n]).member
           same == {j \in 1..Len(rows) : Complete(rows[j]) /\ Found(rows[j]) = {m}}
<1>1. Found(rows[n]) = {m} /\ Found(rows[k]) = {m}
  BY MemberOrders
<1>2. Complete(rows[n]) /\ Complete(rows[k]) /\ ~Repeated(rows, CHOOSE x \in Found(rows[n]) : TRUE)
  BY MemberCandidate
<1>3. (CHOOSE x \in Found(rows[n]) : TRUE) = m
  BY <1>1
<1>4. ~(Cardinality(same) > 1)
  BY <1>2, <1>3 DEF Repeated
<1>5. {n, k} \subseteq same
  BY <1>1, <1>2
<1>6. IsFiniteSet(1..Len(rows)) /\ same \subseteq 1..Len(rows)
  BY FS_Interval
<1> HIDE DEF same
<1>7. IsFiniteSet(same) /\ Cardinality({n, k}) <= Cardinality(same)
  BY <1>5, <1>6, FS_Subset
<1>8. Cardinality({n, k}) = 2
  BY TwoApart
<1>9. Cardinality(same) \in Nat
  BY <1>7, FS_CardinalityType
<1> QED
  BY <1>4, <1>7, <1>8, <1>9

(* A historical task to be added is complete, and no other row has its     *)
(* reference.                                                              *)
LEMMA TaskCandidate ==
  ASSUME NEW rows \in Seq(TaskRow), NEW n \in 1..Len(rows),
         TaskVerdict(rows, n) \in {"CANDIDATE", "CANDIDATE_UPDATE"}
  PROVE  /\ Parses(rows[n]) /\ ~RepeatedReference(rows, n)
         /\ TaskCanonical(rows[n]) \in HistoricalTask
         /\ TaskCanonical(rows[n]).reference = rows[n].reference
<1> DEFINE row == rows[n]
<1>0. row \in TaskRow
  OBVIOUS
<1>1. Parses(row) /\ ~RepeatedReference(rows, n) /\ Resolved(row)
  BY DEF TaskVerdict
<1> HIDE DEF row
<1>2. PICK m \in Member : m = CHOOSE x \in Member : member[x].employee = row.employee
  BY <1>1 DEF Resolved
<1>3. /\ row.reference \in Reference /\ row.team \in Team /\ row.by \in Admin
      /\ row.title \in Designation /\ row.status \in {"COMPLETED", "CANCELLED"}
  BY <1>0, <1>1 DEF TaskRow, Parses, Resolved
<1>4. TaskCanonical(row) = [reference |-> row.reference, status |-> row.status,
                            team |-> row.team, by |-> row.by, title |-> row.title, member |-> m]
  BY <1>2 DEF TaskCanonical
<1>5. TaskCanonical(row) \in HistoricalTask /\ TaskCanonical(row).reference = row.reference
  BY <1>3, <1>4 DEF HistoricalTask
<1> QED
  BY <1>1, <1>5 DEF row

(* Two rows to be added that kept one reference would repeat it.           *)
LEMMA TaskRowsDiffer ==
  ASSUME NEW rows \in Seq(TaskRow), NEW n \in 1..Len(rows), NEW k \in 1..Len(rows),
         TaskVerdict(rows, n) \in {"CANDIDATE", "CANDIDATE_UPDATE"},
         TaskVerdict(rows, k) \in {"CANDIDATE", "CANDIDATE_UPDATE"},
         TaskCanonical(rows[n]).reference = TaskCanonical(rows[k]).reference
  PROVE  n = k
<1>1. Parses(rows[k]) /\ rows[k].reference = rows[n].reference /\ ~RepeatedReference(rows, n)
  BY TaskCandidate
<1> QED
  BY <1>1 DEF RepeatedReference

(* The rows a preview keeps.                                               *)
LEMMA PreviewedRows ==
  ASSUME ImportTypes, NEW kind \in {"MEMBER", "HISTORICAL_TASK"}, NEW w \in Workbook,
         Recognized(w, kind)
  PROVE  LET toDo == Judged(kind, w.rows, {"CANDIDATE", "CANDIDATE_UPDATE"})
         IN OneRowEach(kind, {Canonical(kind, w.rows[n]) : n \in toDo})
<1> DEFINE toDo == Judged(kind, w.rows, {"CANDIDATE", "CANDIDATE_UPDATE"})
<1>1. CASE kind = "MEMBER"
  <2>1. w.rows \in Seq(MemberRow)
    BY <1>1, WorkbookAssumption DEF Recognized
  <2>2. \A n \in toDo : n \in 1..Len(w.rows)
                        /\ MemberVerdict(w.rows, n) \in {"CANDIDATE", "CANDIDATE_UPDATE"}
    BY <1>1 DEF Judged, Verdict
  <2>3. \A n \in toDo : MemberCanonical(w.rows[n]) \in MemberOrder
    BY <2>1, <2>2, MemberOrders DEF ImportTypes
  <2>4. \A n, k \in toDo : MemberCanonical(w.rows[n]).member = MemberCanonical(w.rows[k]).member
                           => n = k
    BY <2>1, <2>2, MemberRowsDiffer DEF ImportTypes
  <2> HIDE DEF toDo
  <2>5. OneRowEach(kind, {Canonical(kind, w.rows[n]) : n \in toDo})
    BY <1>1, <2>3, <2>4 DEF OneRowEach, Canonical, Order, Key
  <2> QED
    BY <2>5 DEF toDo
<1>2. CASE kind = "HISTORICAL_TASK"
  <2>1. w.rows \in Seq(TaskRow)
    BY <1>2, WorkbookAssumption DEF Recognized
  <2>2. \A n \in toDo : n \in 1..Len(w.rows)
                        /\ TaskVerdict(w.rows, n) \in {"CANDIDATE", "CANDIDATE_UPDATE"}
    BY <1>2 DEF Judged, Verdict
  <2>3. \A n \in toDo : TaskCanonical(w.rows[n]) \in HistoricalTask
    BY <2>1, <2>2, TaskCandidate
  <2>4. \A n, k \in toDo : TaskCanonical(w.rows[n]).reference = TaskCanonical(w.rows[k]).reference
                           => n = k
    BY <2>1, <2>2, TaskRowsDiffer
  <2> HIDE DEF toDo
  <2>5. OneRowEach(kind, {Canonical(kind, w.rows[n]) : n \in toDo})
    BY <1>2, <2>3, <2>4 DEF OneRowEach, Canonical, Order, Key
  <2> QED
    BY <2>5 DEF toDo
<1> QED
  BY <1>1, <1>2

-----------------------------------------------------------------------------
(* One import, and what others do meanwhile *)

(* An import with its rows in order, true to what it has read.             *)
InOrder(i) ==
  /\ OneRowEach(import[i].kind, import[i].rows)
  /\ import[i].toWrite \subseteq import[i].rows
  /\ ReadsHold(i)

(* What an import that reports success says is in the database.            *)
Added(i) ==
  import[i].phase = "done" /\ import[i].kind = "HISTORICAL_TASK" =>
    \A row \in import[i].rows : history[row.reference] = row

(* An import refused or not begun has no rows.                             *)
LEMMA RefuseType ==
  /\ NotBegun \in ImportType /\ Refuse \in ImportType
  /\ NotBegun.rows = {} /\ NotBegun.toWrite = {} /\ NotBegun.phase = "toMake"
  /\ Refuse.rows = {} /\ Refuse.toWrite = {} /\ Refuse.phase = "refused"
<1>1. 0 \in 0..MaxAttempts
  BY AttemptsAssumption
<1>2. NotBegun \in ImportType
  BY <1>1 DEF NotBegun, ImportType
<1>3. Refuse \in ImportType /\ Refuse.rows = {} /\ Refuse.toWrite = {} /\ Refuse.phase = "refused"
  BY <1>2 DEF Refuse, NotBegun, ImportType
<1> QED
  BY <1>2, <1>3 DEF NotBegun

(* What the rows of an import are.                                         *)
LEMMA RowsAreOrders ==
  ASSUME ImportTypes, NEW i \in Import, OneRowEach(import[i].kind, import[i].rows)
  PROVE  /\ import[i].kind = "MEMBER" => import[i].rows \subseteq MemberOrder
         /\ import[i].kind = "HISTORICAL_TASK" => import[i].rows \subseteq HistoricalTask
         /\ \A row \in MemberOrder : row.member \in Member
         /\ \A row \in HistoricalTask : row.reference \in Reference
BY DEF OneRowEach, Order, MemberOrder, HistoricalTask

(* An import stays in order while another request or import writes, if it  *)
(* is set back wherever something it goes by is written.                   *)
LEMMA OvertakenOrKept ==
  ASSUME NEW j \in Import, InOrder(j), import[j] \in ImportType,
         \/ import'[j] = import[j]
         \/ import'[j] = [import[j] EXCEPT !.fresh = FALSE],
         import[j].phase = "writing" /\ import'[j].fresh =>
           /\ import[j].kind = "MEMBER" =>
                \A row \in import[j].toWrite : member'[row.member] = member[row.member]
           /\ import[j].kind = "HISTORICAL_TASK" =>
                \A row \in import[j].rows : history'[row.reference] = history[row.reference]
  PROVE  /\ import'[j] \in ImportType /\ InOrder(j)'
         /\ import'[j].phase = import[j].phase /\ import'[j].kind = import[j].kind
         /\ import'[j].rows = import[j].rows
<1>1. /\ import'[j] \in ImportType
      /\ import'[j].phase = import[j].phase /\ import'[j].kind = import[j].kind
      /\ import'[j].rows = import[j].rows /\ import'[j].toWrite = import[j].toWrite
      /\ import'[j].fresh => import[j].fresh
  BY DEF ImportType
<1>2. ReadsHold(j)'
  BY <1>1 DEF InOrder, ReadsHold, SameIdentity
<1> QED
  BY <1>1, <1>2 DEF InOrder, OneRowEach, Order, Key

(* A step of one import that writes nothing concerns only that import.     *)
LEMMA OneImportStep ==
  ASSUME ImportInv, OrgTypes', NEW i \in Import, NEW job \in ImportType,
         import' = [import EXCEPT ![i] = job], UNCHANGED <<member, history>>,
         InOrder(i)', Added(i)'
  PROVE  ImportInv'
<1>1. \A j \in Import \ {i} : import'[j] = import[j]
  BY DEF ImportInv, ImportTypes
<1>2. \A j \in Import : InOrder(j)'
  BY <1>1, OvertakenOrKept DEF ImportInv, ImportTypes, Orders, InOrder
<1>3. \A j \in Import : Added(j)'
  BY <1>1 DEF ImportInv, ImportedMeansPresent, Added
<1>4. ImportTypes'
  BY DEF ImportInv, ImportTypes
<1> QED
  BY <1>2, <1>3, <1>4 DEF ImportInv, ImportedMeansPresent, Added, Orders, InOrder

(* An import that is refused.                                              *)
LEMMA RefuseStep ==
  ASSUME ImportInv, OrgTypes', NEW i \in Import,
         import' = [import EXCEPT ![i] = Refuse], UNCHANGED <<member, history>>
  PROVE  ImportInv'
<1>1. import'[i] = Refuse
  BY DEF ImportInv, ImportTypes
<1>2. InOrder(i)' /\ Added(i)'
  BY <1>1, RefuseType DEF InOrder, OneRowEach, ReadsHold, Added
<1> QED
  BY <1>2, RefuseType, OneImportStep

-----------------------------------------------------------------------------
(* The steps of an import *)

(* A preview keeps rows in order, and nothing to write yet.                *)
LEMMA PreviewStep ==
  ASSUME ImportInv, OrgTypes', NEW i \in Import,
         NEW kind \in {"MEMBER", "HISTORICAL_TASK"}, NEW w \in Workbook, Preview(i, kind, w)
  PROVE  ImportInv'
<1> DEFINE toDo == Judged(kind, w.rows, {"CANDIDATE", "CANDIDATE_UPDATE"})
           rows == {Canonical(kind, w.rows[n]) : n \in toDo}
           job == [phase |-> IF toDo = {} THEN "done" ELSE "previewed", kind |-> kind,
                   rows |-> rows, toWrite |-> {}, attempt |-> 1, fresh |-> FALSE]
<1>1. UNCHANGED <<member, history>>
  BY DEF Preview, orgVars
<1>2. CASE import' = [import EXCEPT ![i] = Refuse]
  BY <1>1, <1>2, RefuseStep
<1>3. CASE Recognized(w, kind) /\ import' = [import EXCEPT ![i] = job]
  <2>1. OneRowEach(kind, rows)
    BY <1>3, PreviewedRows DEF ImportInv
  <2>2. rows \subseteq MemberOrder \cup HistoricalTask
    BY <2>1 DEF OneRowEach, Order
  <2>3. toDo = {} => rows = {}
    OBVIOUS
  <2> HIDE DEF toDo, rows
  <2>4. job \in ImportType
    BY <2>2, AttemptsAssumption DEF ImportType
  <2>5. import'[i] = job
    BY <1>3 DEF ImportInv, ImportTypes
  <2>6. InOrder(i)' /\ Added(i)'
    BY <2>1, <2>3, <2>5 DEF InOrder, OneRowEach, ReadsHold, Added
  <2> QED
    BY <1>1, <1>3, <2>4, <2>6, OneImportStep
<1> QED
  BY <1>2, <1>3 DEF Preview

(* The transaction's reading: what it goes on with, it has just read.      *)
LEMMA ExecuteStep ==
  ASSUME ImportInv, OrgTypes', NEW i \in Import, Execute(i)
  PROVE  ImportInv'
<1> DEFINE kind == import[i].kind
           toWrite == {row \in import[i].rows : ~Present(kind, row)}
           done == [import[i] EXCEPT !.phase = "done"]
           job == [import[i] EXCEPT !.phase = "writing", !.fresh = TRUE, !.toWrite = toWrite]
<1>1. UNCHANGED <<member, history>>
  BY DEF Execute, orgVars
<1>2. /\ import[i] \in ImportType /\ import[i].phase = "previewed"
      /\ OneRowEach(kind, import[i].rows) /\ import[i].toWrite \subseteq import[i].rows
  BY DEF Execute, ImportInv, ImportTypes, Orders
<1>3. CASE import' = [import EXCEPT ![i] = Refuse]
  BY <1>1, <1>3, RefuseStep
<1>4. CASE /\ \A row \in import[i].rows : Present(kind, row)
           /\ import' = [import EXCEPT ![i] = done]
  <2>1. done \in ImportType /\ import'[i] = done
    BY <1>2, <1>4 DEF ImportInv, ImportTypes, ImportType
  <2>2. InOrder(i)'
    BY <1>2, <2>1 DEF ImportType, InOrder, OneRowEach, ReadsHold
  <2>3. Added(i)'
    BY <1>1, <1>2, <1>4, <2>1 DEF ImportType, Added, Present, HistoricalTaskMatches
  <2> QED
    BY <1>1, <1>4, <2>1, <2>2, <2>3, OneImportStep
<1>5. CASE /\ \A row \in import[i].rows : StillApplies(kind, row)
           /\ import' = [import EXCEPT ![i] = job]
  <2>1. job \in ImportType /\ import'[i] = job
    BY <1>2, <1>5 DEF ImportInv, ImportTypes, ImportType
  <2>2. /\ job.phase = "writing" /\ job.kind = kind /\ job.rows = import[i].rows
        /\ job.toWrite = toWrite
    BY <1>2 DEF ImportType
  <2>3. kind = "MEMBER" => \A row \in toWrite :
          member[row.member].designation = row.baseline /\ SameIdentity(row, row.member)
    BY <1>5 DEF StillApplies, ProtectedFieldsMatch, Replaceable
  <2>4. kind = "HISTORICAL_TASK" => \A row \in import[i].rows :
          history[row.reference] = IF row \in toWrite THEN NoTask ELSE row
    BY <1>5 DEF StillApplies, Present, HistoricalTaskMatches
  <2>5. toWrite \subseteq import[i].rows
    OBVIOUS
  <2> HIDE DEF toWrite, job
  <2>6. ReadsHold(i)'
    BY <1>1, <2>1, <2>2, <2>3, <2>4 DEF ReadsHold, SameIdentity
  <2>7. InOrder(i)' /\ Added(i)'
    BY <1>2, <2>1, <2>2, <2>5, <2>6 DEF InOrder, OneRowEach, Added
  <2> QED
    BY <1>1, <1>5, <2>1, <2>7, OneImportStep
<1> QED
  BY <1>3, <1>4, <1>5 DEF Execute

(* Another attempt begins from the rows previewed.                         *)
LEMMA RunAgainStep ==
  ASSUME ImportInv, OrgTypes', NEW i \in Import, RunAgain(i)
  PROVE  ImportInv'
<1> DEFINE job == [import[i] EXCEPT !.phase = "previewed", !.attempt = import[i].attempt + 1,
                                    !.toWrite = {}]
<1>1. UNCHANGED <<member, history>>
  BY DEF RunAgain, orgVars
<1>2. CASE import' = [import EXCEPT ![i] = Refuse]
  BY <1>1, <1>2, RefuseStep
<1>3. CASE import[i].attempt # MaxAttempts /\ import' = [import EXCEPT ![i] = job]
  <2>1. import[i] \in ImportType /\ OneRowEach(import[i].kind, import[i].rows)
    BY DEF ImportInv, ImportTypes, Orders
  <2>2. import[i].attempt + 1 \in 0..MaxAttempts
    BY <1>3, <2>1, AttemptsAssumption DEF ImportType
  <2>3. job \in ImportType /\ import'[i] = job
    BY <1>3, <2>1, <2>2 DEF ImportInv, ImportTypes, ImportType
  <2>4. InOrder(i)' /\ Added(i)'
    BY <2>1, <2>3 DEF ImportType, InOrder, OneRowEach, ReadsHold, Added
  <2> QED
    BY <1>1, <1>3, <2>3, <2>4, OneImportStep
<1> QED
  BY <1>2, <1>3 DEF RunAgain

(* What a commit leaves of the other imports: all, or all but that they    *)
(* are up to date.                                                         *)
LEMMA Noticed ==
  ASSUME ImportInv, NEW i \in Import, NEW members, NEW references,
         import' = Notice(i, members, references)
  PROVE  /\ import' = [j \in Import |-> import'[j]]
         /\ import'[i] = [import[i] EXCEPT !.phase = "done", !.toWrite = {}, !.fresh = FALSE]
         /\ \A j \in Import \ {i} :
              /\ \/ import'[j] = import[j]
                 \/ import'[j] = [import[j] EXCEPT !.fresh = FALSE]
              /\ import[j].phase = "writing" /\ import'[j].fresh =>
                   ~Concerns(import[j].kind, import[j].rows, members, references)
<1>1. \A j \in Import : import[j] \in ImportType
  BY DEF ImportInv, ImportTypes
<1>2. \A j \in Import : [import[j] EXCEPT !.fresh = FALSE].fresh = FALSE
  BY <1>1 DEF ImportType
<1> QED
  BY <1>2 DEF Notice

(* The import that has committed is in order.                              *)
LEMMA CommittedInOrder ==
  ASSUME ImportInv, NEW i \in Import,
         import'[i] = [import[i] EXCEPT !.phase = "done", !.toWrite = {}, !.fresh = FALSE]
  PROVE  /\ import'[i] \in ImportType /\ InOrder(i)'
         /\ import'[i].rows = import[i].rows /\ import'[i].kind = import[i].kind
<1>1. import[i] \in ImportType /\ OneRowEach(import[i].kind, import[i].rows)
  BY DEF ImportInv, ImportTypes, Orders
<1>2. /\ import'[i] \in ImportType
      /\ import'[i].rows = import[i].rows /\ import'[i].kind = import[i].kind
      /\ import'[i].toWrite = {} /\ import'[i].phase = "done"
  BY <1>1 DEF ImportType
<1> QED
  BY <1>1, <1>2 DEF InOrder, OneRowEach, ReadsHold

(* The row an import writes for a member or a reference is the one row it  *)
(* has for it.                                                             *)
LEMMA TheRow ==
  ASSUME NEW kind, NEW rows, OneRowEach(kind, rows), NEW toWrite \in SUBSET rows, NEW row \in toWrite
  PROVE  row = CHOOSE other \in toWrite : Key(kind, other) = Key(kind, row)
BY DEF OneRowEach

(* What a commit does to one member: nothing, or the designation of the    *)
(* row for that member.                                                    *)
LEMMA MembersWritten ==
  ASSUME ImportInv, NEW i \in Import, CommitMembers(i)
  PROVE  /\ \A row \in import[i].toWrite :
              /\ row.member \in Member /\ row \in MemberOrder
              /\ member'[row.member] = [member[row.member] EXCEPT !.designation = row.target]
         /\ \A m \in Member : m \notin {row.member : row \in import[i].toWrite} => member'[m] = member[m]
<1>1. /\ import[i].kind = "MEMBER"
      /\ import[i].toWrite \subseteq import[i].rows
      /\ OneRowEach("MEMBER", import[i].rows)
  BY DEF CommitMembers, ImportInv, Orders
<1>2. \A row \in import[i].toWrite : row \in MemberOrder /\ row.member \in Member
  BY <1>1 DEF OneRowEach, Order, MemberOrder
<1>3. \A row \in import[i].toWrite :
        row = CHOOSE other \in import[i].toWrite : other.member = row.member
  BY <1>1, TheRow DEF Key
<1> QED
  BY <1>2, <1>3 DEF CommitMembers

(* A commit of members writes designations, and sets back the imports that *)
(* have read those members.                                                *)
LEMMA CommitMembersStep ==
  ASSUME ImportInv, OrgTypes', NEW i \in Import, CommitMembers(i)
  PROVE  ImportInv'
<1> DEFINE written == {row.member : row \in import[i].toWrite}
<1>1. import' = Notice(i, written, {}) /\ history' = history
  BY DEF CommitMembers
<1>2. /\ import' = [j \in Import |-> import'[j]]
      /\ import'[i] = [import[i] EXCEPT !.phase = "done", !.toWrite = {}, !.fresh = FALSE]
      /\ \A j \in Import \ {i} :
           /\ \/ import'[j] = import[j]
              \/ import'[j] = [import[j] EXCEPT !.fresh = FALSE]
           /\ import[j].phase = "writing" /\ import'[j].fresh =>
                ~Concerns(import[j].kind, import[j].rows, written, {})
  BY <1>1, Noticed
<1>3. \A m \in Member : m \notin written => member'[m] = member[m]
  BY MembersWritten
<1>4. member' \in [Member -> AccountType]
  <2>1. \A m \in Member : member[m] \in AccountType
    BY DEF ImportInv, ImportTypes
  <2>2. \A row \in import[i].toWrite :
          [member[row.member] EXCEPT !.designation = row.target] \in AccountType
    BY <2>1, MembersWritten DEF AccountType, MemberOrder
  <2>3. ASSUME NEW m \in Member PROVE member'[m] \in AccountType
    <3>1. CASE m \notin written
      BY <1>3, <2>1, <3>1
    <3>2. CASE m \in written
      <4>1. PICK row \in import[i].toWrite : m = row.member
        BY <3>2
      <4>2. member'[m] = [member[row.member] EXCEPT !.designation = row.target]
        BY <4>1, MembersWritten
      <4> QED
        BY <2>2, <4>2
    <3> QED
      BY <3>1, <3>2
  <2>4. member' = [m \in Member |-> member'[m]]
    BY DEF CommitMembers
  <2> QED
    BY <2>3, <2>4
<1> HIDE DEF written
<1>5. ASSUME NEW j \in Import \ {i}
      PROVE  /\ import'[j] \in ImportType /\ InOrder(j)'
             /\ import'[j].phase = import[j].phase /\ import'[j].kind = import[j].kind
             /\ import'[j].rows = import[j].rows
  <2>1. InOrder(j) /\ import[j] \in ImportType
    BY DEF ImportInv, ImportTypes, Orders, InOrder
  <2>2. import[j].kind = "MEMBER" => import[j].toWrite \subseteq MemberOrder
    BY <2>1 DEF InOrder, OneRowEach, Order
  <2>3. import[j].phase = "writing" /\ import'[j].fresh /\ import[j].kind = "MEMBER" =>
          \A row \in import[j].toWrite : row.member \in Member /\ row.member \notin written
    BY <1>2, <2>1, <2>2 DEF Concerns, InOrder, MemberOrder
  <2> QED
    BY <1>1, <1>2, <1>3, <2>1, <2>3, OvertakenOrKept
<1>6. import'[i] \in ImportType /\ InOrder(i)' /\ import'[i].kind = "MEMBER"
  BY <1>2, CommittedInOrder DEF CommitMembers
<1>7. ImportTypes'
  BY <1>1, <1>2, <1>4, <1>5, <1>6 DEF ImportInv, ImportTypes
<1>8. \A j \in Import : Added(j)'
  BY <1>1, <1>5, <1>6 DEF Added, ImportInv, ImportedMeansPresent
<1> QED
  BY <1>1, <1>5, <1>6, <1>7, <1>8 DEF ImportInv, Orders, InOrder, ImportedMeansPresent, Added

(* A commit of tasks adds those that are not there.  A task that is there  *)
(* stays, so what other imports have added does too, and every row of this *)
(* one is then in the database.                                            *)
LEMMA CommitTasksStep ==
  ASSUME ImportInv, OrgTypes', NEW i \in Import, CommitTasks(i)
  PROVE  ImportInv'
<1> DEFINE toWrite == import[i].toWrite
           written == {row.reference : row \in toWrite}
<1>1. /\ import[i].phase = "writing" /\ import[i].fresh /\ import[i].kind = "HISTORICAL_TASK"
      /\ history' = [c \in Reference |->
           IF c \in written THEN CHOOSE row \in toWrite : row.reference = c ELSE history[c]]
      /\ import' = Notice(i, {}, written) /\ member' = member
  BY DEF CommitTasks, orgVars
<1>2. /\ OneRowEach("HISTORICAL_TASK", import[i].rows) /\ toWrite \subseteq import[i].rows
      /\ ReadsHold(i)
  BY <1>1 DEF ImportInv, Orders
<1>3. import[i].rows \subseteq HistoricalTask
  BY <1>2 DEF OneRowEach, Order
<1>4. /\ import' = [j \in Import |-> import'[j]]
      /\ import'[i] = [import[i] EXCEPT !.phase = "done", !.toWrite = {}, !.fresh = FALSE]
      /\ \A j \in Import \ {i} :
           /\ \/ import'[j] = import[j]
              \/ import'[j] = [import[j] EXCEPT !.fresh = FALSE]
           /\ import[j].phase = "writing" /\ import'[j].fresh =>
                ~Concerns(import[j].kind, import[j].rows, {}, written)
  BY <1>1, Noticed
<1>5. \A row \in toWrite : row = CHOOSE other \in toWrite : other.reference = row.reference
  BY <1>2, TheRow DEF Key
<1>6. \A row \in toWrite : row.reference \in Reference /\ history'[row.reference] = row
                           /\ history[row.reference] = NoTask
  BY <1>1, <1>2, <1>3, <1>5 DEF ReadsHold, HistoricalTask
<1>7. \A c \in Reference : c \notin written => history'[c] = history[c]
  BY <1>1
<1>8. \A c \in Reference : /\ history'[c] \in HistoricalTask \cup {NoTask}
                           /\ history'[c] # NoTask => history'[c].reference = c
                           /\ history[c] # NoTask => history'[c] = history[c]
  <2> SUFFICES ASSUME NEW c \in Reference
               PROVE  /\ history'[c] \in HistoricalTask \cup {NoTask}
                      /\ history'[c] # NoTask => history'[c].reference = c
                      /\ history[c] # NoTask => history'[c] = history[c]
    OBVIOUS
  <2>1. CASE c \in written
    BY <1>2, <1>3, <1>6, <2>1
  <2>2. CASE c \notin written
    BY <1>7, <2>2 DEF ImportInv, ImportTypes, Orders
  <2> QED
    BY <2>1, <2>2
<1>9. history' = [c \in Reference |-> history'[c]]
  BY <1>1
<1>10. \A row \in import[i].rows : history'[row.reference] = row
  <2> SUFFICES ASSUME NEW row \in import[i].rows PROVE history'[row.reference] = row
    OBVIOUS
  <2>1. CASE row \in toWrite
    BY <1>6, <2>1
  <2>2. CASE row \notin toWrite
    BY <1>1, <1>2, <1>3, <1>8, <2>2, NoTaskAssumption DEF ReadsHold, HistoricalTask
  <2> QED
    BY <2>1, <2>2
<1> HIDE DEF written, toWrite
<1>11. ASSUME NEW j \in Import \ {i}
       PROVE  /\ import'[j] \in ImportType /\ InOrder(j)'
              /\ import'[j].phase = import[j].phase /\ import'[j].kind = import[j].kind
              /\ import'[j].rows = import[j].rows
  <2>1. InOrder(j) /\ import[j] \in ImportType
    BY DEF ImportInv, ImportTypes, Orders, InOrder
  <2>2. import[j].kind = "HISTORICAL_TASK" => import[j].rows \subseteq HistoricalTask
    BY <2>1 DEF InOrder, OneRowEach, Order
  <2>3. import[j].phase = "writing" /\ import'[j].fresh /\ import[j].kind = "HISTORICAL_TASK" =>
          \A row \in import[j].rows : row.reference \in Reference /\ row.reference \notin written
    BY <1>4, <2>2 DEF Concerns, HistoricalTask
  <2> QED
    BY <1>1, <1>4, <1>7, <2>1, <2>3, OvertakenOrKept
<1>12. ASSUME NEW j \in Import \ {i} PROVE Added(j)'
  <2>1. import[j].phase = "done" /\ import[j].kind = "HISTORICAL_TASK" =>
          \A row \in import[j].rows : row \in HistoricalTask /\ history[row.reference] = row
    BY DEF ImportInv, ImportedMeansPresent, Orders, OneRowEach, Order
  <2>2. import[j].phase = "done" /\ import[j].kind = "HISTORICAL_TASK" =>
          \A row \in import[j].rows : history'[row.reference] = row
    BY <1>8, <2>1, NoTaskAssumption DEF HistoricalTask
  <2> QED
    BY <1>11, <2>2 DEF Added
<1>13. /\ import'[i] \in ImportType /\ InOrder(i)' /\ import'[i].kind = import[i].kind
       /\ import'[i].rows = import[i].rows
  BY <1>4, CommittedInOrder
<1>14. Added(i)'
  BY <1>10, <1>13 DEF Added
<1>15. ImportTypes'
  BY <1>1, <1>4, <1>8, <1>9, <1>11, <1>13 DEF ImportInv, ImportTypes
<1> QED
  BY <1>8, <1>11, <1>12, <1>13, <1>14, <1>15
     DEF ImportInv, Orders, InOrder, ImportedMeansPresent, Added

(* Requests change accounts within their types.                            *)
LEMMA AccountsKeepType ==
  ASSUME OrgTypes, member \in [Member -> AccountType], OrgNext
  PROVE  member' \in [Member -> AccountType]
<1>1. ASSUME NEW r \in Request, WriteUpdate(r) PROVE member' \in [Member -> AccountType]
  <2> DEFINE q == request[r].ask
  <2>1. q \in AskType
    BY DEF OrgTypes, RequestTypes, RequestType
  <2>2. \A m \in Member : Updated(member[m], q) \in AccountType
    <3> SUFFICES ASSUME NEW m \in Member PROVE Updated(member[m], q) \in AccountType
      OBVIOUS
    <3> DEFINE employee == IF q.employee = Keep THEN member[m].employee ELSE q.employee
               designation == IF q.designation = Keep THEN member[m].designation ELSE q.designation
    <3>1. /\ member[m] \in AccountType
          /\ employee \in Employee \cup {NoEmployee}
          /\ designation \in Designation \cup {NoDesignation}
      BY <2>1 DEF AccountType, AskType
    <3>2. Updated(member[m], q) =
            [member[m] EXCEPT !.employee = employee, !.designation = designation]
      BY <3>1 DEF Updated, AccountType
    <3> HIDE DEF employee, designation
    <3> QED
      BY <3>1, <3>2 DEF AccountType
  <2>3. member' = member \/ member' = [member EXCEPT ![q.member] = Updated(member[q.member], q)]
    BY <1>1 DEF WriteUpdate
  <2> HIDE DEF q
  <2> QED
    BY <2>2, <2>3
<1>2. ASSUME NEW r \in Request, WriteMemberStatus(r) PROVE member' \in [Member -> AccountType]
  <2> DEFINE q == request[r].ask
  <2>1. q.active \in BOOLEAN
    BY DEF OrgTypes, RequestTypes, RequestType, AskType
  <2>2. \A m \in Member : [member[m] EXCEPT !.active = q.active] \in AccountType
    BY <2>1 DEF AccountType
  <2>3. member' = [member EXCEPT ![q.member] = [member[q.member] EXCEPT !.active = q.active]]
    BY <1>2 DEF WriteMemberStatus
  <2> HIDE DEF q
  <2> QED
    BY <2>2, <2>3
<1>3. ASSUME UNCHANGED member PROVE member' \in [Member -> AccountType]
  BY <1>3
<1> QED
  BY <1>1, <1>2, <1>3 DEF OrgNext, Ask, Read, TryAgain, CommitTeam, CommitStatus, CommitAssign,
                          CommitTransfer, TransferRaced

(* The requests beside the imports keep them in order.                     *)
LEMMA RequestsBesideImports ==
  ASSUME ImportInv, OrganizationStep
  PROVE  ImportInv'
<1> DEFINE changed == {m \in Member : member'[m] # member[m]}
<1>1. /\ import' = [j \in Import |->
           IF import[j].phase = "writing" /\ Concerns(import[j].kind, import[j].toWrite, changed, {})
           THEN [import[j] EXCEPT !.fresh = FALSE] ELSE import[j]]
      /\ history' = history /\ OrgNext
  BY DEF OrganizationStep
<1>2. OrgTypes' /\ member' \in [Member -> AccountType]
  BY <1>1, OrgTypesStep, AccountsKeepType DEF ImportInv, ImportTypes
<1>3. \A m \in Member : m \notin changed => member'[m] = member[m]
  OBVIOUS
<1> HIDE DEF changed
<1>4. ASSUME NEW j \in Import
      PROVE  /\ import'[j] \in ImportType /\ InOrder(j)'
             /\ import'[j].phase = import[j].phase /\ import'[j].kind = import[j].kind
             /\ import'[j].rows = import[j].rows
  <2>1. InOrder(j) /\ import[j] \in ImportType
    BY DEF ImportInv, ImportTypes, Orders, InOrder
  <2>2. [import[j] EXCEPT !.fresh = FALSE].fresh = FALSE
    BY <2>1 DEF ImportType
  <2>3. import[j].kind = "MEMBER" => import[j].toWrite \subseteq MemberOrder
    BY <2>1 DEF InOrder, OneRowEach, Order
  <2>4. import[j].phase = "writing" /\ import'[j].fresh /\ import[j].kind = "MEMBER" =>
          \A row \in import[j].toWrite : row.member \in Member /\ row.member \notin changed
    BY <1>1, <2>2, <2>3 DEF Concerns, MemberOrder
  <2> QED
    BY <1>1, <1>3, <2>1, <2>4, OvertakenOrKept
<1>5. ImportTypes'
  BY <1>1, <1>2, <1>4 DEF ImportInv, ImportTypes
<1>6. \A j \in Import : Added(j)'
  BY <1>1, <1>4 DEF Added, ImportInv, ImportedMeansPresent
<1> QED
  BY <1>1, <1>2, <1>4, <1>5, <1>6 DEF ImportInv, Orders, InOrder, ImportedMeansPresent, Added

(* Before any import the accounts have their types.                        *)
LEMMA ImportInit == Init => ImportInv
<1> SUFFICES ASSUME Init PROVE ImportInv
  OBVIOUS
<1>1. OrgTypes
  BY OrgTypesInit DEF Init
<1>2. ImportTypes
  BY RefuseType DEF Init, OrgInit, ImportTypes, AccountType
<1>3. \A i \in Import : import[i] = NotBegun
  BY DEF Init
<1>4. Orders /\ ImportedMeansPresent
  BY <1>3, RefuseType DEF Init, Orders, OneRowEach, ReadsHold, ImportedMeansPresent
<1> QED
  BY <1>1, <1>2, <1>4 DEF ImportInv

(* Every step keeps the imports in order.                                  *)
LEMMA ImportStep == ImportInv /\ [Next]_vars => ImportInv'
<1> SUFFICES ASSUME ImportInv, [Next]_vars PROVE ImportInv'
  OBVIOUS
<1>1. CASE UNCHANGED vars
  BY <1>1 DEF vars, orgVars, ImportInv, OrgTypes, RequestTypes, ImportTypes, Orders, OneRowEach,
              ReadsHold, SameIdentity, ImportedMeansPresent
<1>2. OrgTypes'
  BY OrgTypesStep, ImportsLeaveTeams DEF ImportInv, OrgTypes, RequestTypes
<1>3. CASE OrganizationStep
  BY <1>3, RequestsBesideImports
<1>4. ASSUME NEW i \in Import,
             \/ \E kind \in {"MEMBER", "HISTORICAL_TASK"}, w \in Workbook : Preview(i, kind, w)
             \/ Execute(i) \/ CommitMembers(i) \/ CommitTasks(i) \/ RunAgain(i)
      PROVE  ImportInv'
  BY <1>2, <1>4, PreviewStep, ExecuteStep, CommitMembersStep, CommitTasksStep, RunAgainStep
<1> QED
  BY <1>1, <1>3, <1>4 DEF Next

(* Accounts, teams, requests, tasks and imports keep their types.          *)
THEOREM TypeCorrect == Spec => []TypeOK
<1>1. ImportInv => TypeOK
  BY DEF ImportInv, OrgTypes, RequestTypes, RequestType, ImportTypes, AccountType, ImportType,
         Orders, Move, TypeOK, OrgTypeOK
<1> QED
  BY <1>1, ImportInit, ImportStep, PTL DEF Spec

(* A successful import of tasks has every task of its sheet in the         *)
(* database, however imports of the same references overlap.               *)
THEOREM ImportedMeansPresentHolds == Spec => []ImportedMeansPresent
<1>1. ImportInv => ImportedMeansPresent
  BY DEF ImportInv
<1> QED
  BY <1>1, ImportInit, ImportStep, PTL DEF Spec

(* A step that makes an import of members succeed is its own commit; or    *)
(* nothing is written.                                                     *)
LEMMA WritesByCommit ==
  ASSUME ImportInv, [Next]_vars, NEW i \in Import, Writes(i), import[i].kind = "MEMBER"
  PROVE  CommitMembers(i)
<1>1. \A j \in Import : import[j] \in ImportType
  BY DEF ImportInv, ImportTypes
<1>2. CASE UNCHANGED vars
  BY <1>2 DEF vars, Writes
<1>3. CASE OrganizationStep
  BY <1>1, <1>3 DEF OrganizationStep, Writes, ImportType
<1>4. ASSUME NEW j \in Import, NEW members, NEW references, j # i,
             import' = Notice(j, members, references)
      PROVE  FALSE
  BY <1>1, <1>4 DEF Notice, Writes, ImportType
<1>5. ASSUME NEW j \in Import, CommitMembers(j) \/ CommitTasks(j) PROVE CommitMembers(i)
  <2>1. j = i
    BY <1>4, <1>5 DEF CommitMembers, CommitTasks
  <2>2. ~CommitTasks(i)
    BY DEF CommitTasks
  <2> QED
    BY <1>5, <2>1, <2>2
<1>6. ASSUME NEW j \in Import, NEW job, import' = [import EXCEPT ![j] = job],
             import[j].phase # "writing" \/ job.phase # "done"
      PROVE  FALSE
  BY <1>6 DEF Writes, ImportInv, ImportTypes
<1>7. ASSUME NEW j \in Import, Execute(j) \/ RunAgain(j) PROVE FALSE
  <2>1. /\ Refuse.phase # "done"
        /\ [import[j] EXCEPT !.phase = "previewed", !.attempt = import[j].attempt + 1,
                             !.toWrite = {}].phase # "done"
    BY <1>1, RefuseType DEF ImportType
  <2> QED
    BY <1>6, <1>7, <2>1 DEF Execute, RunAgain
<1>8. ASSUME NEW j \in Import, NEW kind, NEW w, Preview(j, kind, w) PROVE FALSE
  BY <1>6, <1>8 DEF Preview
<1> QED
  BY <1>2, <1>3, <1>5, <1>7, <1>8 DEF Next

(* An import of members overwrites only designations its preview showed,   *)
(* of accounts its sheet still names.                                      *)
THEOREM ImportReplacesWhatItSawHolds == Spec => ImportReplacesWhatItSaw
<1>1. ASSUME ImportInv, [Next]_vars, NEW i \in Import, Writes(i), import[i].kind = "MEMBER",
             NEW row \in import[i].rows, member'[row.member] # member[row.member]
      PROVE  /\ member[row.member].designation = row.baseline
             /\ SameIdentity(row, row.member)
             /\ member'[row.member] = [member[row.member] EXCEPT !.designation = row.target]
  <2>1. CommitMembers(i)
    BY <1>1, WritesByCommit
  <2>2. /\ OneRowEach("MEMBER", import[i].rows) /\ import[i].toWrite \subseteq import[i].rows
        /\ ReadsHold(i) /\ import[i].phase = "writing" /\ import[i].fresh
    BY <1>1, <2>1 DEF CommitMembers, ImportInv, Orders
  <2>3. row.member \in Member
    BY <2>2 DEF OneRowEach, Order, MemberOrder
  <2>4. PICK other \in import[i].toWrite : other.member = row.member
    BY <1>1, <2>1, <2>3, MembersWritten
  <2>5. row = other
    BY <2>2, <2>4 DEF OneRowEach, Key
  <2> QED
    BY <1>1, <2>1, <2>2, <2>4, <2>5, MembersWritten DEF ReadsHold
<1>2. ImportInv /\ [Next]_vars =>
        [\A i \in Import : Writes(i) /\ import[i].kind = "MEMBER" =>
           \A row \in import[i].rows :
             member'[row.member] # member[row.member] =>
               /\ member[row.member].designation = row.baseline
               /\ SameIdentity(row, row.member)
               /\ member'[row.member] = [member[row.member] EXCEPT !.designation = row.target]]_vars
  BY <1>1
<1> QED
  BY <1>2, ImportInit, ImportStep, PTL DEF Spec, ImportReplacesWhatItSaw
=============================================================================
