---------------------------- MODULE ProposalsProofs ----------------------------
(***************************************************************************)
(* Theorems about the call for papers: Presenters, CfpRouting and          *)
(* EvaluationRounds as Proposals has them, for every value of the          *)
(* constants.                                                              *)
(***************************************************************************)
EXTENDS Proposals, FiniteSetTheorems, WellFoundedInduction, TLAPS

\* What the instances count with is what the theorems about finite sets are about.
LEMMA SameFiniteSets ==
    /\ \A S : Roles!IsFiniteSet(S) <=> IsFiniteSet(S)
    /\ \A S : Roles!Cardinality(S) = Cardinality(S)
    /\ \A S : Routing!IsFiniteSet(S) <=> IsFiniteSet(S)
    /\ \A S : Routing!Cardinality(S) = Cardinality(S)
    /\ \A S : Scoring!IsFiniteSet(S) <=> IsFiniteSet(S)
    /\ \A S : Scoring!Cardinality(S) = Cardinality(S)
BY DEF Roles!IsFiniteSet, Roles!Cardinality, Routing!IsFiniteSet, Routing!Cardinality,
       Scoring!IsFiniteSet, Scoring!Cardinality, IsFiniteSet, Cardinality

\* The part that runs takes steps of its own module.
LEMMA PartSteps ==
    ASSUME [ProposalsNext]_<<part, reviewing, authors, choices>>
    PROVE  /\ UNCHANGED part
           /\ part = "rounds" => [Scoring!Next]_(Scoring!vars)
           /\ part = "presenters" => [Roles!Next]_(Roles!vars)
           /\ part = "routing" => [Routing!Next]_(Routing!vars)
<1>1. CASE UNCHANGED <<part, reviewing, authors, choices>>
  <2>1. UNCHANGED Scoring!vars
    BY <1>1 DEF reviewing, Scoring!vars, Scoring!rows
  <2>2. UNCHANGED Roles!vars BY <1>1 DEF authors, Roles!vars, Roles!deadlines, Roles!proposal
  <2>3. UNCHANGED Routing!vars BY <1>1 DEF choices, Routing!vars, Routing!settings
  <2>. QED BY <1>1, <2>1, <2>2, <2>3
<1>2. CASE ProposalsNext BY <1>2 DEF ProposalsNext
<1>. QED BY <1>1, <1>2

-----------------------------------------------------------------------------
(* Deadlines.  An exception is never the shared deadline.                    *)

DeadlineTypes ==
    /\ DOMAIN formats = Types
    /\ \A x \in own : x[1] \in Types
    /\ DOMAIN requests = Requesters
DeadlineInv ==
    /\ DeadlineTypes /\ Roles!FormatsFollow
    /\ "deadline" \notin crossed => \A x \in own : x[2] # cfp

LEMMA DeadlineInit == Roles!Init => DeadlineInv
BY DEF Roles!Init, DeadlineInv, DeadlineTypes, Roles!FormatsFollow

\* A step that leaves the deadlines alone.
LEMMA DeadlineQuiet ==
    ASSUME DeadlineInv, UNCHANGED <<cfp, formats, own>>, DOMAIN requests' = Requesters,
           "deadline" \in crossed' <=> "deadline" \in crossed
    PROVE  DeadlineInv'
BY DEF DeadlineInv, DeadlineTypes, Roles!FormatsFollow

LEMMA DeadlineStep ==
    ASSUME DeadlineInv, [Roles!Next]_(Roles!vars)
    PROVE  DeadlineInv'
<1>0. DOMAIN requests = Requesters BY DEF DeadlineInv, DeadlineTypes
<1>1. ASSUME NEW w \in Requesters, Roles!CommitDeadline(w) PROVE DeadlineInv'
  <2>. DEFINE old == requests[w].previous
              new == requests[w].deadline
  <2>1. /\ cfp' = new
        /\ formats' = [t \in Types |->
               IF old # new /\ formats[t] = old THEN new ELSE formats[t]]
        /\ own' = {x \in own : x[2] # new}
        /\ crossed' = IF cfp # old THEN crossed \cup {"deadline"} ELSE crossed
    BY <1>1 DEF Roles!CommitDeadline, Roles!Followers
  <2>2. DOMAIN requests' = Requesters
    BY <1>0, <1>1 DEF Roles!CommitDeadline, Roles!Commit, Roles!Become
  <2>. HIDE DEF old, new
  <2>3. DeadlineTypes' BY <2>1, <2>2 DEF DeadlineInv, DeadlineTypes
  <2>4. ASSUME "deadline" \notin crossed'
        PROVE  /\ \A x \in own' : formats'[x[1]] = x[2] /\ x[2] # cfp'
               /\ \A t \in Types : formats'[t] = cfp' \/ <<t, formats'[t]>> \in own'
    <3>1. cfp = old /\ "deadline" \notin crossed BY <2>1, <2>4
    <3>2. /\ \A x \in own : x[1] \in Types /\ formats[x[1]] = x[2] /\ x[2] # old
          /\ \A t \in Types : formats[t] = old \/ <<t, formats[t]>> \in own
      BY <3>1 DEF DeadlineInv, DeadlineTypes, Roles!FormatsFollow
    <3>3. \A x \in own' : formats'[x[1]] = x[2] /\ x[2] # cfp' BY <2>1, <3>2
    <3>4. ASSUME NEW t \in Types, formats'[t] # cfp' PROVE <<t, formats'[t]>> \in own'
      <4>1. formats'[t] = formats[t] /\ formats[t] # new BY <2>1, <3>4
      <4>2. <<t, formats[t]>> \in own BY <2>1, <3>2, <3>4, <4>1
      <4>. QED BY <2>1, <4>1, <4>2
    <3>. QED BY <3>3, <3>4
  <2>. QED BY <2>3, <2>4 DEF DeadlineInv, Roles!FormatsFollow
<1>2. ASSUME NEW t \in Types, NEW d \in 0..LastDay, Roles!SetFormat(t, d) PROVE DeadlineInv'
  <2>1. /\ formats' = [formats EXCEPT ![t] = d]
        /\ own' = {x \in own : x[1] # t} \cup IF d = cfp THEN {} ELSE {<<t, d>>}
        /\ UNCHANGED <<cfp, requests, crossed>>
    BY <1>2 DEF Roles!SetFormat
  <2>2. \A x \in own' : (x \in own /\ x[1] # t) \/ (x[1] = t /\ x[2] = d /\ d # cfp) BY <2>1
  <2>3. \A x \in own : x[1] # t => x \in own' BY <2>1
  <2>4. d # cfp => <<t, d>> \in own' BY <2>1
  <2>5. DeadlineTypes' BY <2>1, <2>2 DEF DeadlineInv, DeadlineTypes
  <2>6. ASSUME "deadline" \notin crossed'
        PROVE  /\ \A x \in own' : formats'[x[1]] = x[2] /\ x[2] # cfp'
               /\ \A u \in Types : formats'[u] = cfp' \/ <<u, formats'[u]>> \in own'
    <3>1. /\ \A x \in own : x[1] \in Types /\ formats[x[1]] = x[2] /\ x[2] # cfp
          /\ \A u \in Types : formats[u] = cfp \/ <<u, formats[u]>> \in own
          /\ DOMAIN formats = Types
      BY <2>1, <2>6 DEF DeadlineInv, DeadlineTypes, Roles!FormatsFollow
    <3>2. \A x \in own' : formats'[x[1]] = x[2] /\ x[2] # cfp' BY <2>1, <2>2, <3>1
    <3>3. ASSUME NEW u \in Types, formats'[u] # cfp' PROVE <<u, formats'[u]>> \in own'
      <4>1. CASE u = t BY <2>1, <2>4, <3>1, <3>3, <4>1
      <4>2. CASE u # t
        <5>1. formats'[u] = formats[u] /\ <<u, formats[u]>> \in own BY <2>1, <3>1, <3>3, <4>2
        <5>2. <<u, formats[u]>>[1] = u OBVIOUS
        <5>. QED BY <2>3, <4>2, <5>1, <5>2
      <4>. QED BY <4>1, <4>2
    <3>. QED BY <3>2, <3>3
  <2>. QED BY <2>5, <2>6 DEF DeadlineInv, Roles!FormatsFollow
\* Every other request, whatever it does to presenters and their roles.
<1>3. ASSUME NEW w \in Requesters,
             \/ \E d \in 0..LastDay : Roles!BeginDeadline(w, d)
             \/ \E p \in People :
                 \/ \E pc \in {"invite", "submit", "withdraw", "discard"} : Roles!BeginOwn(w, p, pc)
                 \/ \E organiser \in BOOLEAN : Roles!BeginAdd(w, p, organiser)
                 \/ Roles!BeginRemove(w, p) \/ Roles!BeginRoles(w, p)
      PROVE  DeadlineInv'
  <2>1. PICK q : Roles!Begin(w, q)
    BY <1>3 DEF Roles!BeginDeadline, Roles!BeginOwn, Roles!BeginAdd, Roles!BeginRemove,
                Roles!BeginRoles
  <2>2. UNCHANGED <<cfp, formats, own, crossed>> /\ DOMAIN requests' = Requesters
    BY <1>0, <2>1 DEF Roles!Begin, Roles!deadlines, Roles!Become
  <2>. QED BY <2>2, DeadlineQuiet
<1>4. ASSUME NEW w \in Requesters,
             \/ Roles!CommitInvite(w) \/ Roles!CommitState(w)
             \/ Roles!CommitAdd(w) \/ Roles!CommitRemove(w) \/ Roles!CommitRoles(w)
      PROVE  DeadlineInv'
  <2>1. UNCHANGED <<cfp, formats, own>>
    BY <1>4 DEF Roles!CommitInvite, Roles!CommitState, Roles!CommitAdd, Roles!CommitRemove,
                Roles!CommitRoles, Roles!deadlines
  <2>2. DOMAIN requests' = Requesters
    BY <1>0, <1>4 DEF Roles!CommitInvite, Roles!CommitState, Roles!CommitAdd,
                      Roles!CommitRemove, Roles!CommitRoles, Roles!Commit, Roles!Become
  <2>3. crossed' \in {crossed, crossed \cup {"roles"}, crossed \ {"roles"}}
    BY <1>4 DEF Roles!CommitInvite, Roles!CommitState, Roles!CommitAdd, Roles!CommitRemove,
                Roles!CommitRoles
  <2>. QED BY <2>1, <2>2, <2>3, DeadlineQuiet
<1>5. ASSUME Roles!Clear \/ Roles!NextDay \/ UNCHANGED Roles!vars PROVE DeadlineInv'
  <2>1. UNCHANGED <<cfp, formats, own, requests, crossed>>
    BY <1>5 DEF Roles!Clear, Roles!NextDay, Roles!vars, Roles!deadlines
  <2>. QED BY <1>0, <2>1, DeadlineQuiet
<1>. QED BY <1>1, <1>2, <1>3, <1>4, <1>5 DEF Roles!Next

\* A format without a deadline of its own closes with the call for papers, and a
\* deadline of its own survives every change of the shared one, unless two
\* changes of the shared deadline overlapped.
THEOREM FormatsFollowed == ProposalsSpec => []FormatsFollow
<1>. DEFINE I == part = "presenters" => DeadlineInv
<1>1. ProposalsInit => I BY DeadlineInit DEF ProposalsInit
<1>2. I /\ [ProposalsNext]_<<part, reviewing, authors, choices>> => I'
  BY PartSteps, DeadlineStep
<1>3. I => FormatsFollow BY DEF DeadlineInv, FormatsFollow
<1>. HIDE DEF I
<1>. QED BY <1>1, <1>2, <1>3, PTL DEF ProposalsSpec


-----------------------------------------------------------------------------
(* Sets of at most one element, and least numbers.                           *)

LEMMA AtMostOne ==
    ASSUME NEW S, IsFiniteSet(S)
    PROVE  Cardinality(S) <= 1 <=> \A a, b \in S : a = b
<1>1. Cardinality(S) \in Nat BY FS_CardinalityType
<1>2. ASSUME Cardinality(S) <= 1, NEW a \in S, NEW b \in S PROVE a = b
  <2>1. Cardinality(S) # 0 BY FS_EmptySet
  <2>2. Cardinality(S) = 1 BY <1>1, <1>2, <2>1
  <2>3. PICK x : S = {x} BY <2>2, FS_Singleton
  <2>. QED BY <2>3
<1>3. ASSUME \A a, b \in S : a = b PROVE Cardinality(S) <= 1
  <2>1. CASE S = {}
    <3>1. Cardinality(S) = 0 BY <2>1, FS_EmptySet
    <3>. QED BY <3>1
  <2>2. CASE S # {}
    <3>1. PICK x : S = {x} BY <1>3, <2>2
    <3>2. Cardinality(S) = 1 BY <3>1, FS_Singleton
    <3>. QED BY <3>2
  <2>. QED BY <2>1, <2>2
<1>. QED BY <1>2, <1>3

LEMMA LeastNumber ==
    ASSUME NEW S \in SUBSET Nat, S # {}
    PROVE  \E m \in S : \A n \in S : m <= n
<1>1. PICK m \in S : \A n \in S : <<n, m>> \notin OpToRel(<, Nat)
  BY NatLessThanWellFounded, WFMin
<1>2. \A n \in S : n \in Nat /\ m \in Nat OBVIOUS
<1>3. \A n \in S : ~(n < m) BY <1>1, <1>2, Zenon DEF OpToRel
<1>. QED BY <1>2, <1>3

-----------------------------------------------------------------------------
(* Presenters.  A request that commits with the roles that it had read leaves *)
(* a primary author; none ever leaves two.                                    *)

Known(r) == DOMAIN r \subseteq People
RolesInv ==
    /\ DOMAIN requests = Requesters
    /\ DOMAIN roles = speakers /\ Known(roles)
    /\ \A p, q \in Roles!Primaries(roles) : p = q
    /\ "roles" \notin crossed /\ speakers # {} => Roles!Primaries(roles) # {}
    /\ \A w \in Requesters :
         /\ requests[w].pc = "add" => requests[w].person \in People
         /\ requests[w].pc \in {"add", "remove"} => Known(requests[w].read)
         /\ requests[w].pc = "roles" =>
              /\ Cardinality(Roles!Primaries(requests[w].selected)) = 1
              /\ IsFiniteSet(DOMAIN requests[w].selected)

LEMMA LowestType ==
    ASSUME Roles!PresentersAssumption, NEW S \in SUBSET People, S # {}
    PROVE  Roles!Lowest(S) \in S
<1>1. S \in SUBSET Nat BY DEF Roles!PresentersAssumption
<1>2. \E m \in S : \A n \in S : m <= n BY <1>1, LeastNumber
<1>. QED BY <1>2 DEF Roles!Lowest

LEMMA RolesFinite ==
    ASSUME Roles!PresentersAssumption, NEW r, Known(r)
    PROVE  /\ IsFiniteSet(Roles!Primaries(r))
           /\ Cardinality(Roles!Primaries(r)) <= 1 <=>
                \A p, q \in Roles!Primaries(r) : p = q
<1>1. Roles!Primaries(r) \in SUBSET People BY DEF Roles!Primaries, Known
<1>2. IsFiniteSet(People) BY SameFiniteSets DEF Roles!PresentersAssumption
<1>3. IsFiniteSet(Roles!Primaries(r)) BY <1>1, <1>2, FS_Subset
<1>. QED BY <1>3, AtMostOne

\* A receiver that has seen the roles as they are leaves one primary author.
LEMMA Heir ==
    ASSUME Roles!PresentersAssumption, NEW r, Known(r), DOMAIN r # {},
           NEW done, done = [q \in DOMAIN r |->
                               IF q \in Roles!Promoted(r) THEN Roles!Primary ELSE r[q]]
    PROVE  Roles!Primaries(done) # {}
<1>1. CASE Roles!Primaries(r) = {}
  <2>1. Roles!Promoted(r) = {Roles!Lowest(DOMAIN r)} BY <1>1 DEF Roles!Promoted
  <2>2. Roles!Lowest(DOMAIN r) \in DOMAIN r BY LowestType DEF Known
  <2>. QED BY <2>1, <2>2 DEF Roles!Primaries
<1>2. CASE Roles!Primaries(r) # {}
  <2>1. PICK q \in DOMAIN r : r[q] = Roles!Primary BY <1>2 DEF Roles!Primaries
  <2>. QED BY <2>1 DEF Roles!Primaries
<1>. QED BY <1>1, <1>2

LEMMA RolesInit ==
    ASSUME Roles!PresentersAssumption, Roles!Init
    PROVE  RolesInv
<1>. DEFINE p == Roles!Lowest(People)
<1>1. p \in People BY LowestType DEF Roles!PresentersAssumption
<1>. HIDE DEF p
<1>2. speakers = {p} /\ roles = [q \in speakers |-> Roles!Primary] BY DEF Roles!Init, p
<1>3. Roles!Primaries(roles) = {p} BY <1>2 DEF Roles!Primaries
<1>4. requests = [w \in Requesters |-> Roles!Idle] /\ Roles!Idle.pc = "idle"
  BY DEF Roles!Init, Roles!Idle
<1>. QED BY <1>1, <1>2, <1>3, <1>4 DEF RolesInv, Known

\* A step of no consequence for the roles.
LEMMA RolesQuiet ==
    ASSUME RolesInv, UNCHANGED <<speakers, roles>>,
           "roles" \in crossed' <=> "roles" \in crossed,
           DOMAIN requests' = Requesters,
           \A w \in Requesters : requests'[w] = requests[w]
                              \/ requests'[w].pc \notin {"add", "remove", "roles"}
    PROVE  RolesInv'
<1>1. /\ \A p, q \in Roles!Primaries(roles)' : p = q
      /\ "roles" \notin crossed' /\ speakers' # {} => Roles!Primaries(roles)' # {}
  BY DEF RolesInv, Roles!Primaries
<1>2. ASSUME NEW r PROVE Known(r)' = Known(r) /\ Roles!Primaries(r)' = Roles!Primaries(r)
  BY DEF Known, Roles!Primaries, Roles!Primary
<1>3. ASSUME NEW w \in Requesters
      PROVE  /\ requests'[w].pc = "add" => requests'[w].person \in People
             /\ requests'[w].pc \in {"add", "remove"} => Known(requests[w].read)'
             /\ requests'[w].pc = "roles" =>
                  /\ Cardinality(Roles!Primaries(requests[w].selected)') = 1
                  /\ IsFiniteSet(DOMAIN requests'[w].selected)
  <2>1. CASE requests'[w] = requests[w]
    BY <2>1 DEF RolesInv, Known, Roles!Primaries, Roles!Primary
  <2>2. CASE requests'[w].pc \notin {"add", "remove", "roles"} BY <2>2
  <2>. QED BY <2>1, <2>2
<1>. QED BY <1>1, <1>3 DEF RolesInv, Known

\* A commit that writes the roles anew.
LEMMA RolesWritten ==
    ASSUME RolesInv, NEW w \in Requesters, NEW r, roles' = r, speakers' = DOMAIN r, Known(r),
           \A p, q \in Roles!Primaries(r) : p = q,
           "roles" \notin crossed' /\ DOMAIN r # {} => Roles!Primaries(r) # {},
           requests' = [requests EXCEPT ![w] = Roles!Idle]
    PROVE  RolesInv'
<1>1. /\ \A p, q \in Roles!Primaries(roles)' : p = q
      /\ "roles" \notin crossed' /\ speakers' # {} => Roles!Primaries(roles)' # {}
      /\ Known(roles)' /\ DOMAIN roles' = speakers'
  BY DEF Roles!Primaries, Known
<1>2. DOMAIN requests' = Requesters BY DEF RolesInv
<1>3. ASSUME NEW v \in Requesters
      PROVE  /\ requests'[v].pc = "add" => requests'[v].person \in People
             /\ requests'[v].pc \in {"add", "remove"} => Known(requests[v].read)'
             /\ requests'[v].pc = "roles" =>
                  /\ Cardinality(Roles!Primaries(requests[v].selected)') = 1
                  /\ IsFiniteSet(DOMAIN requests'[v].selected)
  <2>1. CASE v # w BY <2>1 DEF RolesInv, Known, Roles!Primaries, Roles!Primary
  <2>2. CASE v = w
    <3>1. requests'[v].pc = "idle" BY <2>2 DEF RolesInv, Roles!Idle
    <3>. QED BY <3>1
  <2>. QED BY <2>1, <2>2
<1>. QED BY <1>1, <1>2, <1>3 DEF RolesInv

LEMMA RolesBegin ==
    ASSUME RolesInv, NEW w \in Requesters, NEW q, Roles!Begin(w, q),
           q.pc = "add" => q.person \in People,
           q.pc \in {"add", "remove"} => Known(q.read),
           q.pc = "roles" => /\ Cardinality(Roles!Primaries(q.selected)) = 1
                             /\ IsFiniteSet(DOMAIN q.selected)
    PROVE  RolesInv'
<1>1. /\ requests' = [requests EXCEPT ![w] = q] /\ DOMAIN requests = Requesters
      /\ UNCHANGED <<speakers, roles, crossed>>
  BY DEF Roles!Begin, Roles!Become, Roles!proposal, RolesInv
<1>2. DOMAIN requests' = Requesters BY <1>1
<1>3. /\ \A p, x \in Roles!Primaries(roles)' : p = x
      /\ "roles" \notin crossed' /\ speakers' # {} => Roles!Primaries(roles)' # {}
      /\ Known(roles)' /\ DOMAIN roles' = speakers'
  BY <1>1 DEF RolesInv, Roles!Primaries, Known
<1>4. ASSUME NEW v \in Requesters
      PROVE  /\ requests'[v].pc = "add" => requests'[v].person \in People
             /\ requests'[v].pc \in {"add", "remove"} => Known(requests[v].read)'
             /\ requests'[v].pc = "roles" =>
                  /\ Cardinality(Roles!Primaries(requests[v].selected)') = 1
                  /\ IsFiniteSet(DOMAIN requests'[v].selected)
  <2>1. CASE v # w BY <1>1, <2>1 DEF RolesInv, Known, Roles!Primaries, Roles!Primary
  <2>2. CASE v = w
    <3>1. requests'[v] = q BY <1>1, <2>2
    <3>. QED BY <3>1 DEF Known, Roles!Primaries, Roles!Primary
  <2>. QED BY <2>1, <2>2
<1>. QED BY <1>2, <1>3, <1>4 DEF RolesInv

LEMMA RolesStep ==
    ASSUME Roles!PresentersAssumption, RolesInv, [Roles!Next]_(Roles!vars)
    PROVE  RolesInv'
<1>0. DOMAIN requests = Requesters /\ DOMAIN roles = speakers /\ Known(roles) BY DEF RolesInv
<1>b. ASSUME NEW w \in Requesters, NEW q, Roles!Begin(w, q), q.pc \notin {"add", "remove", "roles"}
      PROVE  RolesInv'
  BY <1>b, RolesBegin
<1>1. ASSUME NEW w \in Requesters, NEW d \in 0..LastDay, Roles!BeginDeadline(w, d) PROVE RolesInv'
  <2>1. PICK q : Roles!Begin(w, q) /\ q.pc = "deadline" BY <1>1 DEF Roles!BeginDeadline
  <2>. QED BY <2>1, <1>b
<1>2. ASSUME NEW w \in Requesters, NEW p \in People,
             NEW pc \in {"invite", "submit", "withdraw", "discard"}, Roles!BeginOwn(w, p, pc)
      PROVE  RolesInv'
  <2>1. PICK q : Roles!Begin(w, q) /\ q.pc = pc BY <1>2 DEF Roles!BeginOwn
  <2>. QED BY <2>1, <1>b
<1>3. ASSUME NEW w \in Requesters, NEW p \in People, NEW organiser \in BOOLEAN,
             Roles!BeginAdd(w, p, organiser)
      PROVE  RolesInv'
  <2>1. PICK q : Roles!Begin(w, q) /\ q.pc = "add" /\ q.person = p /\ q.read = roles
    BY <1>3 DEF Roles!BeginAdd
  <2>2. p \in People /\ Known(q.read) BY <1>0, <2>1
  <2>. QED BY <2>1, <2>2, RolesBegin
<1>4. ASSUME NEW w \in Requesters, NEW p \in People, Roles!BeginRemove(w, p) PROVE RolesInv'
  <2>1. PICK q : Roles!Begin(w, q) /\ q.pc = "remove" /\ q.read = roles
    BY <1>4 DEF Roles!BeginRemove
  <2>2. Known(q.read) BY <1>0, <2>1
  <2>. QED BY <2>1, <2>2, RolesBegin
<1>5. ASSUME NEW w \in Requesters, NEW p \in People, Roles!BeginRoles(w, p) PROVE RolesInv'
  <2>1. PICK selected \in [speakers -> Roles!RoleChoices] :
          /\ Cardinality(Roles!Primaries(selected)) = 1
          /\ Roles!Begin(w, [pc |-> "roles", selected |-> selected])
    BY <1>5, SameFiniteSets DEF Roles!BeginRoles
  <2>2. PICK q : q = [pc |-> "roles", selected |-> selected] OBVIOUS
  <2>3. Roles!Begin(w, q) /\ q.pc = "roles" /\ q.selected = selected BY <2>1, <2>2
  <2>4. IsFiniteSet(DOMAIN selected)
    <3>1. DOMAIN selected \in SUBSET People BY <1>0, <2>1 DEF Known
    <3>2. IsFiniteSet(People) BY SameFiniteSets DEF Roles!PresentersAssumption
    <3>. QED BY <3>1, <3>2, FS_Subset
  <2>. QED BY <2>1, <2>3, <2>4, RolesBegin
<1>6. ASSUME NEW w \in Requesters, Roles!CommitAdd(w) PROVE RolesInv'
  <2>1. PICK p, read : p = requests[w].person /\ read = requests[w].read OBVIOUS
  <2>2. requests[w].pc = "add" /\ requests' = [requests EXCEPT ![w] = Roles!Idle]
    BY <1>6 DEF Roles!CommitAdd, Roles!Commit, Roles!Become
  <2>3. p \in People /\ Known(read) BY <2>1, <2>2 DEF RolesInv
  <2>. DEFINE seen == Roles!With(read, p)
              next == Roles!With(roles, p)
              done == [q \in DOMAIN next |->
                         IF q \in Roles!Promoted(seen) THEN Roles!Primary ELSE next[q]]
  <2>4. CASE UNCHANGED <<speakers, roles, crossed>>
    <3>1. \A v \in Requesters : requests'[v] = requests[v]
                             \/ requests'[v].pc \notin {"add", "remove", "roles"}
      BY <1>0, <2>2 DEF Roles!Idle
    <3>2. DOMAIN requests' = Requesters BY <1>0, <2>2
    <3>. QED BY <2>4, <3>1, <3>2, RolesQuiet
  <2>5. CASE /\ Cardinality(Roles!Primaries(done)) <= 1
             /\ speakers' = speakers \cup {p} /\ roles' = done
             /\ crossed' = IF roles = read THEN crossed \ {"roles"} ELSE crossed \cup {"roles"}
    <3>1. DOMAIN next = speakers \cup {p} BY <1>0 DEF Roles!With
    <3>2. DOMAIN done = speakers \cup {p} BY <3>1
    <3>3. Known(done) BY <1>0, <2>3, <3>2 DEF Known
    <3>4. "roles" \notin crossed' => Roles!Primaries(done) # {}
      <4>1. ASSUME roles = read PROVE Roles!Primaries(done) # {}
        <5>1. seen = next BY <4>1
        <5>2. Known(next) /\ DOMAIN next # {} BY <1>0, <2>3, <3>1 DEF Known
        <5>. HIDE DEF seen, next
        <5>3. done = [q \in DOMAIN next |->
                        IF q \in Roles!Promoted(next) THEN Roles!Primary ELSE next[q]]
          BY <5>1
        <5>. HIDE DEF done
        <5>. QED BY <5>2, <5>3, Heir
      <4>. QED BY <2>5, <4>1
    <3>. HIDE DEF done
    <3>5. \A x, y \in Roles!Primaries(done) : x = y BY <2>5, <3>3, RolesFinite
    <3>. QED BY <2>2, <2>5, <3>2, <3>3, <3>4, <3>5, RolesWritten
  <2>. QED BY <1>6, <2>1, <2>4, <2>5, SameFiniteSets DEF Roles!CommitAdd
<1>7. ASSUME NEW w \in Requesters, Roles!CommitRemove(w) PROVE RolesInv'
  <2>1. PICK p, read : p = requests[w].person /\ read = requests[w].read OBVIOUS
  <2>2. requests[w].pc = "remove" /\ requests' = [requests EXCEPT ![w] = Roles!Idle]
    BY <1>7 DEF Roles!CommitRemove, Roles!Commit, Roles!Become
  <2>. DEFINE seen == Roles!Without(read, {p})
              next == Roles!Without(roles, {p})
              done == [q \in DOMAIN next |->
                         IF q \in Roles!Promoted(seen) THEN Roles!Primary ELSE next[q]]
  <2>4. CASE UNCHANGED <<speakers, roles, crossed>>
    <3>1. \A v \in Requesters : requests'[v] = requests[v]
                             \/ requests'[v].pc \notin {"add", "remove", "roles"}
      BY <1>0, <2>2 DEF Roles!Idle
    <3>2. DOMAIN requests' = Requesters BY <1>0, <2>2
    <3>. QED BY <2>4, <3>1, <3>2, RolesQuiet
  <2>5. CASE /\ Cardinality(Roles!Primaries(done)) <= 1
             /\ speakers' = speakers \ {p} /\ roles' = done
             /\ crossed' = IF roles = read THEN crossed \ {"roles"} ELSE crossed \cup {"roles"}
    <3>1. DOMAIN next = speakers \ {p} BY <1>0 DEF Roles!Without
    <3>2. DOMAIN done = speakers \ {p} BY <3>1
    <3>3. Known(done) BY <1>0, <3>2 DEF Known
    <3>4. "roles" \notin crossed' /\ speakers' # {} => Roles!Primaries(done) # {}
      <4>1. ASSUME roles = read, speakers' # {} PROVE Roles!Primaries(done) # {}
        <5>1. seen = next BY <4>1
        <5>2. Known(next) /\ DOMAIN next # {} BY <1>0, <2>5, <3>1, <4>1 DEF Known
        <5>. HIDE DEF seen, next
        <5>3. done = [q \in DOMAIN next |->
                        IF q \in Roles!Promoted(next) THEN Roles!Primary ELSE next[q]]
          BY <5>1
        <5>. HIDE DEF done
        <5>. QED BY <5>2, <5>3, Heir
      <4>. QED BY <2>5, <4>1
    <3>. HIDE DEF done
    <3>5. \A x, y \in Roles!Primaries(done) : x = y BY <2>5, <3>3, RolesFinite
    <3>. QED BY <2>2, <2>5, <3>2, <3>3, <3>4, <3>5, RolesWritten
  <2>. QED BY <1>7, <2>1, <2>4, <2>5, SameFiniteSets DEF Roles!CommitRemove
<1>8. ASSUME NEW w \in Requesters, Roles!CommitRoles(w) PROVE RolesInv'
  <2>1. PICK selected : selected = requests[w].selected OBVIOUS
  <2>2. requests[w].pc = "roles" /\ requests' = [requests EXCEPT ![w] = Roles!Idle]
        /\ UNCHANGED speakers
    BY <1>8 DEF Roles!CommitRoles, Roles!Commit, Roles!Become
  <2>3. PICK one : Roles!Primaries(selected) = {one}
    <3>1. /\ Cardinality(Roles!Primaries(selected)) = 1 /\ IsFiniteSet(DOMAIN selected)
      BY <2>1, <2>2 DEF RolesInv
    <3>2. Roles!Primaries(selected) \in SUBSET (DOMAIN selected) BY DEF Roles!Primaries
    <3>3. IsFiniteSet(Roles!Primaries(selected)) BY <3>1, <3>2, FS_Subset
    <3>. QED BY <3>1, <3>3, FS_Singleton
  <2>. DEFINE done == [q \in DOMAIN roles |->
                         IF q \in DOMAIN selected THEN selected[q]
                         ELSE IF roles[q] = Roles!Primary THEN Roles!CoPresenter ELSE roles[q]]
  <2>4. CASE UNCHANGED <<roles, crossed>>
    <3>1. \A v \in Requesters : requests'[v] = requests[v]
                             \/ requests'[v].pc \notin {"add", "remove", "roles"}
      BY <1>0, <2>2 DEF Roles!Idle
    <3>2. DOMAIN requests' = Requesters BY <1>0, <2>2
    <3>. QED BY <2>2, <2>4, <3>1, <3>2, RolesQuiet
  <2>5. CASE DOMAIN selected \subseteq speakers /\ roles' = done
    <3>1. DOMAIN done = speakers /\ Known(done) BY <1>0 DEF Known
    <3>2. Roles!Primaries(done) = {one}
      <4>1. ASSUME NEW q \in DOMAIN done
            PROVE  done[q] = Roles!Primary <=> q \in DOMAIN selected /\ selected[q] = Roles!Primary
        BY DEF Roles!Primary, Roles!CoPresenter
      <4>. HIDE DEF done
      <4>2. Roles!Primaries(done) = Roles!Primaries(selected)
        BY <1>0, <2>5, <3>1, <4>1 DEF Roles!Primaries
      <4>. QED BY <2>3, <4>2
    <3>. HIDE DEF done
    <3>. QED BY <2>2, <2>5, <3>1, <3>2, RolesWritten
  <2>. QED BY <1>8, <2>1, <2>4, <2>5 DEF Roles!CommitRoles
<1>9. ASSUME NEW w \in Requesters,
             Roles!CommitDeadline(w) \/ Roles!CommitInvite(w) \/ Roles!CommitState(w)
      PROVE  RolesInv'
  <2>1. requests' = [requests EXCEPT ![w] = Roles!Idle]
    BY <1>9 DEF Roles!CommitDeadline, Roles!CommitInvite, Roles!CommitState, Roles!Commit,
                Roles!Become
  <2>2. UNCHANGED <<speakers, roles>> /\ crossed' \in {crossed, crossed \cup {"deadline"}}
    BY <1>9 DEF Roles!CommitDeadline, Roles!CommitInvite, Roles!CommitState, Roles!proposal
  <2>3. \A v \in Requesters : requests'[v] = requests[v]
                           \/ requests'[v].pc \notin {"add", "remove", "roles"}
    BY <1>0, <2>1 DEF Roles!Idle
  <2>4. DOMAIN requests' = Requesters BY <1>0, <2>1
  <2>. QED BY <2>2, <2>3, <2>4, RolesQuiet
<1>10. ASSUME Roles!Clear PROVE RolesInv'
  <2>1. speakers' = {} /\ roles' = <<>> /\ UNCHANGED <<requests, crossed>> BY <1>10 DEF Roles!Clear
  <2>2. Roles!Primaries(roles)' = {} BY <2>1 DEF Roles!Primaries
  <2>3. \A w \in Requesters :
          /\ requests'[w].pc = "add" => requests'[w].person \in People
          /\ requests'[w].pc \in {"add", "remove"} => Known(requests[w].read)'
          /\ requests'[w].pc = "roles" =>
               /\ Cardinality(Roles!Primaries(requests[w].selected)') = 1
               /\ IsFiniteSet(DOMAIN requests'[w].selected)
    BY <2>1 DEF RolesInv, Known, Roles!Primaries, Roles!Primary
  <2>. QED BY <1>0, <2>1, <2>2, <2>3 DEF RolesInv, Known
<1>11. ASSUME \/ \E t \in Types, d \in 0..LastDay : Roles!SetFormat(t, d)
              \/ Roles!NextDay \/ UNCHANGED Roles!vars
       PROVE  RolesInv'
  <2>1. UNCHANGED <<speakers, roles, requests, crossed>>
    BY <1>11 DEF Roles!SetFormat, Roles!NextDay, Roles!vars, Roles!proposal
  <2>. QED BY <1>0, <2>1, RolesQuiet
<1>. QED
  BY <1>1, <1>2, <1>3, <1>4, <1>5, <1>6, <1>7, <1>8, <1>9, <1>10, <1>11 DEF Roles!Next

\* Roles belong to the presenters, no two of whom are primary authors, and one is
\* unless the last change of roles was made beside another.
THEOREM OnePrimary == ProposalsSpec => []OnePrimaryAuthor
<1>. DEFINE I == part = "presenters" => RolesInv
<1>1. RolesInv => Roles!OnePrimaryAuthor
  <2>. SUFFICES ASSUME RolesInv PROVE Roles!OnePrimaryAuthor OBVIOUS
  <2>1. {p \in speakers : Roles!Label(p) = Roles!Primary} = Roles!Primaries(roles)
    BY DEF RolesInv, Roles!Label, Roles!Primaries
  <2>2. Cardinality(Roles!Primaries(roles)) <= 1 BY RolesFinite, ProposalsAssumption DEF RolesInv
  <2>3. Roles!Cardinality({p \in speakers : Roles!Label(p) = Roles!Primary}) <= 1
    BY <2>1, <2>2, SameFiniteSets
  <2>4. (\E p \in speakers : Roles!Label(p) = Roles!Primary) <=> Roles!Primaries(roles) # {}
    BY <2>1
  <2>. QED BY <2>3, <2>4 DEF RolesInv, Roles!OnePrimaryAuthor
<1>2. ProposalsInit => I BY RolesInit, ProposalsAssumption DEF ProposalsInit
<1>3. I /\ [ProposalsNext]_<<part, reviewing, authors, choices>> => I'
  BY PartSteps, RolesStep, ProposalsAssumption
<1>4. I => OnePrimaryAuthor BY <1>1 DEF OnePrimaryAuthor
<1>. HIDE DEF I
<1>. QED BY <1>2, <1>3, <1>4, PTL DEF ProposalsSpec

-----------------------------------------------------------------------------
(* Routing.  A request that saves knows what its form obeyed under the       *)
(* settings it read; whether they still are what it read, is not known.      *)

PoolsOf(pairs, t) == {q \in Pools : <<q, t>> \in pairs}
ObeysRule(r, trigger, target) ==
    r.active => (trigger /\ r.required => target) /\ (~trigger => ~target)
AnswerFields == {"state", "format", "track", "trigger", "target", "prerequisites"}

AnswersFit(read, a) ==
    /\ DOMAIN a = AnswerFields
    /\ a.state \in {"draft", "submitted"} /\ a.track \in Tracks
    /\ a.format = "workshop" <=> a.prerequisites
    /\ ObeysRule(read[1], a.trigger, a.target)
    /\ \E q \in Pools : PoolsOf(read[3], a.track) = {q}
SaverFits(s) ==
    /\ s.pc = "pool" => s.pool \in Pools /\ s.tracks \subseteq Tracks /\ s.people # {}
    /\ s.pc = "save" => AnswersFit(s.read, s.answers)

SettingsFit ==
    /\ DOMAIN staff = Pools /\ \A q \in Pools : staff[q] # {}
    /\ \A t \in Tracks : \A p, q \in PoolsOf(routes, t) : p = q

\* The proposal is routed as the settings have it.
Routed ==
    /\ \E q \in Pools : PoolsOf(routes, proposal.track) = {q} /\ proposal.reviewers = staff[q]
    /\ proposal.reviewers # {}
    /\ rule.variant = "choice" => ObeysRule(rule, proposal.trigger, proposal.target)
    /\ proposal.prerequisites <=> proposal.format = "workshop"

RoutingInv ==
    /\ SettingsFit
    /\ DOMAIN proposal = AnswerFields \cup {"reviewers"}
    /\ DOMAIN savers = Requesters /\ \A w \in Requesters : SaverFits(savers[w])
    /\ fresh \in BOOLEAN /\ surprised = FALSE
    /\ fresh /\ proposal.state = "submitted" => Routed

LEMMA OnePool ==
    ASSUME NEW t
    PROVE  /\ Routing!Mapped(t) = PoolsOf(routes, t)
           /\ \A a, b : Routing!Obeys(a, b) <=> ObeysRule(rule, a, b)
BY DEF Routing!Mapped, PoolsOf, Routing!Obeys, ObeysRule

LEMMA Singles ==
    /\ Routing!Cardinality({}) = 0
    /\ \A q : Routing!Cardinality({q}) = 1
BY SameFiniteSets, FS_EmptySet, FS_Singleton

LEMMA RoutingInit ==
    ASSUME Routing!RoutingAssumption, Routing!Init
    PROVE  RoutingInv
<1>1. \A t \in Tracks : \A p, q \in PoolsOf(routes, t) : p = q
  BY DEF Routing!Init, PoolsOf
<1>2. SettingsFit BY <1>1 DEF Routing!Init, SettingsFit
<1>3. DOMAIN proposal = AnswerFields \cup {"reviewers"} BY DEF Routing!Init, AnswerFields
<1>4. \A w \in Requesters : SaverFits(savers[w])
  BY DEF Routing!Init, Routing!Idle, SaverFits
<1>. QED BY <1>2, <1>3, <1>4 DEF Routing!Init, RoutingInv

\* A request that begins changes nothing but itself.
LEMMA RoutingBegin ==
    ASSUME RoutingInv, NEW w \in Requesters, NEW s, Routing!Begin(w, s), SaverFits(s)
    PROVE  RoutingInv'
<1>1. /\ UNCHANGED <<rule, staff, routes, proposal, fresh, surprised>>
      /\ savers' = [savers EXCEPT ![w] = s]
  BY DEF Routing!Begin, Routing!Become, Routing!settings
<1>2. DOMAIN savers' = Requesters /\ \A v \in Requesters : SaverFits(savers'[v])
  BY <1>1 DEF RoutingInv
<1>3. SettingsFit' BY <1>1 DEF RoutingInv, SettingsFit, PoolsOf
<1>4. (fresh /\ proposal.state = "submitted" => Routed)'
  BY <1>1 DEF RoutingInv, Routed, PoolsOf
<1>. QED BY <1>1, <1>2, <1>3, <1>4 DEF RoutingInv

\* A form that is accepted fits the settings that are read with it.
LEMMA FormFits ==
    ASSUME Routing!RoutingAssumption, RoutingInv, NEW form \in Routing!FormsOf,
           Routing!Accepts(form),
           NEW t \in Routing!TracksOf(form), NEW a,
           a = [state |-> IF form.final THEN "submitted" ELSE "draft", format |-> form.format,
                track |-> t, trigger |-> form.trigger, target |-> form.target,
                prerequisites |-> form.prerequisites]
    PROVE  AnswersFit(<<rule, staff, routes>>, a)
<1>1. t \in Tracks BY DEF Routing!TracksOf, Routing!FormsOf
<1>2. PoolsOf(routes, t) # {} BY OnePool, Singles DEF Routing!Accepts
<1>3. \E q \in Pools : PoolsOf(routes, t) = {q}
  <2>1. PICK q : q \in PoolsOf(routes, t) BY <1>2
  <2>2. \A p \in PoolsOf(routes, t) : p = q BY <1>1, <2>1 DEF RoutingInv, SettingsFit
  <2>. QED BY <2>1, <2>2 DEF PoolsOf
<1>4. ObeysRule(rule, form.trigger, form.target) BY OnePool DEF Routing!Accepts
<1>5. form.format = "workshop" <=> form.prerequisites BY DEF Routing!Accepts
<1>6. DOMAIN a = AnswerFields /\ a.state \in {"draft", "submitted"} BY DEF AnswerFields
<1>. QED BY <1>1, <1>3, <1>4, <1>5, <1>6 DEF AnswersFit
LEMMA RoutingPool ==
    ASSUME RoutingInv, NEW w \in Requesters, Routing!CommitPool(w)
    PROVE  RoutingInv'
<1>. DEFINE q == savers[w].pool
            tracks == savers[w].tracks
<1>1. q \in Pools /\ tracks \subseteq Tracks /\ savers[w].people # {}
  BY DEF RoutingInv, SaverFits, Routing!CommitPool
<1>2. /\ savers' = [savers EXCEPT ![w] = Routing!Idle]
      /\ UNCHANGED <<rule, proposal, surprised>>
  BY DEF Routing!CommitPool, Routing!Become
<1>3. DOMAIN savers' = Requesters /\ \A v \in Requesters : SaverFits(savers'[v])
  BY <1>2 DEF RoutingInv, SaverFits, Routing!Idle
<1>4. CASE /\ staff' = [staff EXCEPT ![q] = savers[w].people]
           /\ routes' = {x \in routes : x[1] # q} \cup ({q} \X tracks)
           /\ fresh' = FALSE
           /\ \A t \in tracks : Routing!Mapped(t) \subseteq {q}
  <2>1. ASSUME NEW t \in Tracks, NEW p \in PoolsOf(routes', t), NEW o \in PoolsOf(routes', t)
        PROVE  p = o
    <3>1. \A x \in PoolsOf(routes', t) :
            (t \in tracks /\ x = q) \/ (x \in PoolsOf(routes, t) /\ x # q)
      <4>. SUFFICES ASSUME NEW x \in PoolsOf(routes', t)
                    PROVE  (t \in tracks /\ x = q) \/ (x \in PoolsOf(routes, t) /\ x # q)
        OBVIOUS
      <4>1. x \in Pools /\ <<x, t>> \in routes' BY DEF PoolsOf
      <4>. HIDE DEF q, tracks
      <4>2. CASE <<x, t>> \in {q} \X tracks
        <5>1. x \in {q} /\ t \in tracks BY <4>2
        <5>. QED BY <5>1
      <4>3. CASE <<x, t>> \in routes /\ <<x, t>>[1] # q BY <4>1, <4>3 DEF PoolsOf
      <4>. QED BY <1>4, <4>1, <4>2, <4>3
    <3>2. CASE t \in tracks
      <4>1. PoolsOf(routes, t) \subseteq {q} BY <1>4, <3>2, OnePool
      <4>. QED BY <3>1, <4>1
    <3>3. CASE t \notin tracks BY <3>1, <3>3 DEF RoutingInv, SettingsFit
    <3>. QED BY <3>2, <3>3
  <2>2. DOMAIN staff' = Pools /\ \A p \in Pools : staff'[p] # {}
    BY <1>1, <1>4 DEF RoutingInv, SettingsFit
  <2>3. SettingsFit' BY <2>1, <2>2 DEF SettingsFit
  <2>4. fresh' = FALSE BY <1>4
  <2>. HIDE DEF q, tracks
  <2>. QED BY <1>2, <1>3, <2>3, <2>4 DEF RoutingInv
<1>5. CASE UNCHANGED <<staff, routes, fresh>>
  <2>1. SettingsFit' BY <1>5 DEF RoutingInv, SettingsFit, PoolsOf
  <2>2. (fresh /\ proposal.state = "submitted" => Routed)'
    BY <1>2, <1>5 DEF RoutingInv, Routed, PoolsOf
  <2>. QED BY <1>2, <1>3, <1>5, <2>1, <2>2 DEF RoutingInv
<1>. QED BY <1>4, <1>5 DEF Routing!CommitPool

\* What is stored is the answers of the form, the reviewers aside.
LEMMA StoredForm ==
    ASSUME RoutingInv, NEW w \in Requesters
    PROVE  /\ DOMAIN Routing!Stored(w) = AnswerFields \cup {"reviewers"}
           /\ \A x \in AnswerFields : Routing!Stored(w)[x] = savers[w].answers[x]
BY DEF RoutingInv, Routing!Stored, AnswerFields

\* A form that obeyed the settings can be routed under the same, if the rule is
\* about a choice.
LEMMA SameSettingsRoute ==
    ASSUME RoutingInv, NEW w \in Requesters, savers[w].pc = "save",
           savers[w].read = <<rule, staff, routes>>, rule.variant = "choice"
    PROVE  Routing!Routable(Routing!Stored(w))
<1>. DEFINE a == savers[w].answers
            stored == Routing!Stored(w)
<1>1. AnswersFit(savers[w].read, a) BY DEF RoutingInv, SaverFits
<1>2. /\ stored.format = a.format /\ stored.track = a.track /\ stored.trigger = a.trigger
      /\ stored.target = a.target /\ stored.prerequisites = a.prerequisites
  BY StoredForm DEF AnswerFields
<1>3. PICK q \in Pools : PoolsOf(routes, a.track) = {q} BY <1>1 DEF AnswersFit
<1>4. Routing!Mapped(stored.track) = {q} BY <1>2, <1>3, OnePool
<1>5. staff[q] # {} BY DEF RoutingInv, SettingsFit
<1>6. a.format = "workshop" <=> a.prerequisites BY <1>1 DEF AnswersFit
<1>7. ObeysRule(rule, a.trigger, a.target) BY <1>1 DEF AnswersFit
<1>. HIDE DEF a, stored
<1>8. Routing!PersistedValid(stored)
  BY <1>2, <1>6, <1>7, OnePool DEF Routing!PersistedValid, ObeysRule
<1>9. Routing!Routable(stored) BY <1>4, <1>5, <1>8, Singles DEF Routing!Routable
<1>. QED BY <1>9 DEF stored

LEMMA RoutingSave ==
    ASSUME RoutingInv, NEW w \in Requesters, Routing!CommitSave(w)
    PROVE  RoutingInv'
<1>. DEFINE stored == Routing!Stored(w)
<1>1. /\ savers[w].pc = "save"
      /\ savers' = [savers EXCEPT ![w] = Routing!Idle]
      /\ UNCHANGED <<rule, staff, routes>>
  BY DEF Routing!CommitSave, Routing!Become, Routing!settings
<1>2. DOMAIN savers' = Requesters /\ \A v \in Requesters : SaverFits(savers'[v])
  BY <1>1 DEF RoutingInv, SaverFits, Routing!Idle
<1>3. SettingsFit' BY <1>1 DEF RoutingInv, SettingsFit, PoolsOf
<1>4. DOMAIN stored = AnswerFields \cup {"reviewers"} BY StoredForm
<1>5. AnswersFit(savers[w].read, savers[w].answers) BY <1>1 DEF RoutingInv, SaverFits
<1>6. /\ stored.state \in {"draft", "submitted"} /\ stored.track \in Tracks
      /\ stored.state = savers[w].answers.state
  BY <1>5, StoredForm DEF AnswersFit, AnswerFields
<1>7. CASE stored.state = "draft" /\ proposal' = stored /\ UNCHANGED <<fresh, surprised>>
  <2>1. proposal'.state = "draft" /\ DOMAIN proposal' = AnswerFields \cup {"reviewers"}
    BY <1>4, <1>7
  <2>. HIDE DEF stored
  <2>. QED BY <1>2, <1>3, <1>7, <2>1 DEF RoutingInv
<1>8. CASE /\ Routing!Routable(stored)
           /\ \E q \in Routing!Mapped(stored.track) :
                 proposal' = [stored EXCEPT !.reviewers = staff[q]]
           /\ fresh' = TRUE
           /\ UNCHANGED surprised
  <2>1. PICK q \in Routing!Mapped(stored.track) :
          proposal' = [stored EXCEPT !.reviewers = staff[q]]
    BY <1>8
  <2>. HIDE DEF stored
  <2>2. /\ DOMAIN proposal' = AnswerFields \cup {"reviewers"}
        /\ proposal'.reviewers = staff[q] /\ proposal'.track = stored.track
        /\ proposal'.trigger = stored.trigger /\ proposal'.target = stored.target
        /\ proposal'.format = stored.format
        /\ proposal'.prerequisites = stored.prerequisites
    BY <1>4, <2>1 DEF AnswerFields
  <2>3. q \in Pools /\ PoolsOf(routes, stored.track) = {q}
    <3>1. q \in PoolsOf(routes, stored.track) BY OnePool
    <3>2. \A p \in PoolsOf(routes, stored.track) : p = q
      BY <1>6, <3>1 DEF RoutingInv, SettingsFit
    <3>. QED BY <3>1, <3>2 DEF PoolsOf
  <2>4. staff[q] # {} BY <2>3 DEF RoutingInv, SettingsFit
  <2>5. /\ stored.format = "workshop" <=> stored.prerequisites
        /\ ObeysRule(rule, stored.trigger, stored.target /\ rule.variant = "choice")
    BY <1>8, OnePool DEF Routing!Routable, Routing!PersistedValid
  <2>6. rule.variant = "choice" => ObeysRule(rule, stored.trigger, stored.target)
    BY <2>5 DEF ObeysRule
  <2>7. Routed'
    BY <1>1, <2>2, <2>3, <2>4, <2>5, <2>6 DEF Routed
  <2>. QED BY <1>2, <1>3, <1>8, <2>2, <2>7 DEF RoutingInv
<1>9. CASE /\ ~(stored.state = "draft")
           /\ ~(stored.state = "submitted" /\ Routing!Routable(stored))
           /\ proposal' \in {proposal, stored}
           /\ fresh' = (fresh /\ proposal' = proposal)
           /\ surprised' = (surprised \/ (savers[w].read = Routing!settings
                                          /\ rule.variant = "choice"))
  <2>1. ~Routing!Routable(stored) BY <1>6, <1>9
  <2>2. ~(savers[w].read = Routing!settings /\ rule.variant = "choice")
    BY <1>1, <2>1, SameSettingsRoute DEF Routing!settings
  <2>3. surprised' = FALSE BY <1>9, <2>2 DEF RoutingInv
  <2>4. DOMAIN proposal' = AnswerFields \cup {"reviewers"} BY <1>4, <1>9 DEF RoutingInv
  <2>5. fresh' \in BOOLEAN BY <1>9 DEF RoutingInv
  <2>6. ASSUME fresh', proposal'.state = "submitted" PROVE Routed'
    <3>1. fresh /\ proposal' = proposal BY <1>9, <2>6
    <3>2. Routed BY <2>6, <3>1 DEF RoutingInv
    <3>. QED BY <1>1, <3>1, <3>2 DEF Routed, PoolsOf
  <2>. HIDE DEF stored
  <2>. QED BY <1>2, <1>3, <2>3, <2>4, <2>5, <2>6 DEF RoutingInv
<1>. QED BY <1>6, <1>7, <1>8, <1>9 DEF Routing!CommitSave

LEMMA RoutingStep ==
    ASSUME Routing!RoutingAssumption, RoutingInv, [Routing!Next]_(Routing!vars)
    PROVE  RoutingInv'
<1>1. ASSUME NEW active \in BOOLEAN, NEW required \in BOOLEAN, NEW variant \in Routing!Variants,
             Routing!SaveRule(active, required, variant)
      PROVE  RoutingInv'
  <2>1. UNCHANGED <<staff, routes, proposal, savers, surprised>> /\ fresh' = FALSE
    BY <1>1 DEF Routing!SaveRule
  <2>2. SettingsFit' BY <2>1 DEF RoutingInv, SettingsFit, PoolsOf
  <2>. QED BY <2>1, <2>2 DEF RoutingInv
<1>2. ASSUME NEW w \in Requesters, NEW q \in Pools, NEW tracks \in SUBSET Tracks,
             NEW people \in SUBSET PoolReviewers, Routing!BeginPool(w, q, tracks, people)
      PROVE  RoutingInv'
  <2>. DEFINE s == [pc |-> "pool", pool |-> q, tracks |-> tracks, people |-> people]
  <2>1. people # {} /\ Routing!Begin(w, s) BY <1>2 DEF Routing!BeginPool
  <2>2. SaverFits(s) BY <2>1 DEF SaverFits
  <2>. QED BY <2>1, <2>2, RoutingBegin
<1>3. ASSUME NEW w \in Requesters, NEW form \in Routing!FormsOf, Routing!BeginSave(w, form)
      PROVE  RoutingInv'
  <2>1. PICK t \in Routing!TracksOf(form) :
          Routing!Begin(w, [pc |-> "save", read |-> Routing!settings, answers |->
         [state |-> IF form.final THEN "submitted" ELSE "draft", format |-> form.format,
          track |-> t, trigger |-> form.trigger, target |-> form.target,
          prerequisites |-> form.prerequisites]])
    BY <1>3 DEF Routing!BeginSave
  <2>. DEFINE a == [state |-> IF form.final THEN "submitted" ELSE "draft", format |-> form.format,
                    track |-> t, trigger |-> form.trigger, target |-> form.target,
                    prerequisites |-> form.prerequisites]
              s == [pc |-> "save", read |-> Routing!settings, answers |-> a]
  <2>2. AnswersFit(<<rule, staff, routes>>, a)
    BY <1>3, FormFits DEF Routing!BeginSave
  <2>3. Routing!Begin(w, s) BY <2>1
  <2>. HIDE DEF a
  <2>4. SaverFits(s) BY <2>2 DEF SaverFits, Routing!settings
  <2>. QED BY <2>3, <2>4, RoutingBegin
<1>4. ASSUME UNCHANGED Routing!vars PROVE RoutingInv'
  <2>1. UNCHANGED <<rule, staff, routes, proposal, savers, fresh, surprised>>
    BY <1>4 DEF Routing!vars, Routing!settings
  <2>2. SettingsFit' BY <2>1 DEF RoutingInv, SettingsFit, PoolsOf
  <2>3. (fresh /\ proposal.state = "submitted" => Routed)'
    BY <2>1 DEF RoutingInv, Routed, PoolsOf
  <2>. QED BY <2>1, <2>2, <2>3 DEF RoutingInv
<1>. QED BY <1>1, <1>2, <1>3, <1>4, RoutingPool, RoutingSave DEF Routing!Next

\* A submitted proposal is with the reviewers of the one pool of its category and
\* its answers obey the rules until a setting changes, and no accepted form is
\* refused under the settings it was accepted with.
THEOREM Routes == ProposalsSpec => []RoutedAsConfigured
<1>. DEFINE I == part = "routing" => RoutingInv
<1>1. RoutingInv => Routing!RoutedAsConfigured
  <2>. SUFFICES ASSUME RoutingInv PROVE Routing!RoutedAsConfigured OBVIOUS
  <2>1. ASSUME NEW t \in Tracks PROVE Routing!Cardinality(Routing!Mapped(t)) <= 1
    <3>1. CASE PoolsOf(routes, t) = {} BY <3>1, OnePool, Singles
    <3>2. CASE PoolsOf(routes, t) # {}
      <4>1. PICK q : q \in PoolsOf(routes, t) BY <3>2
      <4>2. PoolsOf(routes, t) = {q} BY <4>1 DEF RoutingInv, SettingsFit
      <4>3. Routing!Cardinality(Routing!Mapped(t)) = 1 BY <4>2, OnePool, Singles
      <4>. QED BY <4>3
    <3>. QED BY <3>1, <3>2
  <2>2. fresh /\ proposal.state = "submitted" => Routed BY DEF RoutingInv
  <2>. QED BY <2>1, <2>2, OnePool DEF RoutingInv, Routed, Routing!RoutedAsConfigured
<1>2. ProposalsInit => I BY RoutingInit, ProposalsAssumption DEF ProposalsInit
<1>3. I /\ [ProposalsNext]_<<part, reviewing, authors, choices>> => I'
  BY PartSteps, RoutingStep, ProposalsAssumption
<1>4. I => RoutedAsConfigured BY <1>1 DEF RoutedAsConfigured
<1>. HIDE DEF I
<1>. QED BY <1>2, <1>3, <1>4, PTL DEF ProposalsSpec

-----------------------------------------------------------------------------
(* Evaluation rounds.  A completed evaluation has a row with a value for     *)
(* every criterion of the card that its round has now.                       *)

Filled(k) ==
    \A i \in Scoring!Criteria(k[1]) :
        /\ <<k, card[k[1]].number, i>> \in DOMAIN answers
        /\ answers[<<k, card[k[1]].number, i>>] # Scoring!Blank

CardsOK ==
    /\ DOMAIN card = Rounds
    /\ \A n \in Rounds : card[n].preset \in DOMAIN Presets /\ card[n].number \in Nat
StatusOK ==
    /\ DOMAIN status = Scoring!Keys
    /\ \A k \in Scoring!Keys : status[k] \in {"none", "assigned", "complete", "recused"}

\* What a request of a reviewer or an organiser holds; the number of a card that
\* was read is not above that of the card now.
Reviews(q) ==
    /\ q.pc = "card" => q.round \in Rounds /\ q.preset \in DOMAIN Presets
    /\ q.pc \in {"save", "recuse"} => q.key \in Scoring!Keys
    /\ q.pc = "save" =>
         /\ q.number \in Nat /\ q.number <= card[q.key[1]].number
         /\ q.number = card[q.key[1]].number => DOMAIN q.form = Scoring!Criteria(q.key[1])

CompletedFilled ==
    \A k \in Scoring!Keys : status[k] = "complete" /\ k[1] \notin raced => Filled(k)

ScoreInv ==
    /\ CardsOK /\ StatusOK
    /\ DOMAIN reviewers = Requesters /\ \A w \in Requesters : Reviews(reviewers[w])
    /\ CompletedFilled

LEMMA KeyParts ==
    ASSUME NEW k \in Scoring!Keys
    PROVE  k[1] \in Rounds /\ k[2] \in RoundReviewers /\ k[3] \in Submissions
           /\ k = <<k[1], k[2], k[3]>>
BY DEF Scoring!Keys

LEMMA ScoreInit ==
    ASSUME Scoring!RoundsAssumption, Scoring!Init
    PROVE  ScoreInv
<1>1. CardsOK BY DEF Scoring!Init, Scoring!RoundsAssumption, CardsOK
<1>2. StatusOK BY DEF Scoring!Init, StatusOK
<1>3. \A w \in Requesters : Reviews(reviewers[w])
  BY DEF Scoring!Init, Scoring!Idle, Reviews
<1>4. CompletedFilled BY DEF Scoring!Init, CompletedFilled
<1>. QED BY <1>1, <1>2, <1>3, <1>4 DEF Scoring!Init, ScoreInv

\* A step that changes no row.
LEMMA ScoreQuiet ==
    ASSUME ScoreInv, UNCHANGED <<card, status, answers, raced>>,
           DOMAIN reviewers' = Requesters,
           \A w \in Requesters :
             reviewers'[w] = reviewers[w] \/ Reviews(reviewers'[w]) \/ reviewers'[w] = Scoring!Idle
    PROVE  ScoreInv'
<1>1. CardsOK' /\ StatusOK' BY DEF ScoreInv, CardsOK, StatusOK
<1>2. ASSUME NEW w \in Requesters, NEW q, q = reviewers'[w] PROVE Reviews(q)'
  <2>1. Reviews(q) BY <1>2 DEF ScoreInv, Reviews, Scoring!Idle
  <2>. QED BY <2>1 DEF Reviews, Scoring!Criteria
<1>3. CompletedFilled' BY DEF ScoreInv, CompletedFilled, Filled, Scoring!Criteria
<1>. QED BY <1>1, <1>2, <1>3 DEF ScoreInv

LEMMA ScoreBegin ==
    ASSUME ScoreInv, NEW w \in Requesters, NEW q, Scoring!Begin(w, q), Reviews(q)
    PROVE  ScoreInv'
<1>1. UNCHANGED <<card, status, answers, raced>> BY DEF Scoring!Begin, Scoring!rows
<1>2. reviewers' = [reviewers EXCEPT ![w] = q] BY DEF Scoring!Begin, Scoring!Become
<1>3. DOMAIN reviewers' = Requesters BY <1>2 DEF ScoreInv
<1>4. \A v \in Requesters : reviewers'[v] = reviewers[v] \/ Reviews(reviewers'[v])
  BY <1>2 DEF ScoreInv
<1>. QED BY <1>1, <1>3, <1>4, ScoreQuiet
\* A step that leaves the cards alone and keeps the rows of what is complete.
LEMMA ScoreRows ==
    ASSUME ScoreInv, UNCHANGED <<card, raced>>, StatusOK',
           NEW w \in Requesters, reviewers' = [reviewers EXCEPT ![w] = Scoring!Idle],
           \A k \in Scoring!Keys :
             status'[k] = "complete" /\ k[1] \notin raced =>
               \/ Filled(k)'
               \/ /\ status[k] = "complete"
                  /\ \A x \in DOMAIN answers :
                       x[1] = k /\ answers[x] # Scoring!Blank =>
                         x \in DOMAIN answers' /\ answers'[x] # Scoring!Blank
    PROVE  ScoreInv'
<1>1. CardsOK' BY DEF ScoreInv, CardsOK
<1>2. ASSUME NEW v \in Requesters, NEW q, q = reviewers'[v] PROVE Reviews(q)'
  <2>1. Reviews(q) BY <1>2 DEF ScoreInv, Reviews, Scoring!Idle
  <2>. QED BY <2>1 DEF Reviews, Scoring!Criteria
<1>3. ASSUME NEW k \in Scoring!Keys, status'[k] = "complete", k[1] \notin raced
      PROVE  Filled(k)'
  <2>1. CASE /\ status[k] = "complete"
             /\ \A x \in DOMAIN answers :
                  x[1] = k /\ answers[x] # Scoring!Blank =>
                    x \in DOMAIN answers' /\ answers'[x] # Scoring!Blank
    <3>1. Filled(k) BY <1>3, <2>1 DEF ScoreInv, CompletedFilled
    <3>. QED BY <2>1, <3>1 DEF Filled, Scoring!Criteria
  <2>. QED BY <1>3, <2>1
<1>4. CompletedFilled' BY <1>3 DEF CompletedFilled
<1>5. DOMAIN reviewers' = Requesters BY DEF ScoreInv
<1>. QED BY <1>1, <1>2, <1>4, <1>5 DEF ScoreInv

LEMMA WithoutRows ==
    ASSUME NEW S
    PROVE  \A x \in DOMAIN answers :
             x[1] \notin S => /\ x \in DOMAIN Scoring!Without(S)
                              /\ Scoring!Without(S)[x] = answers[x]
BY DEF Scoring!Without

LEMMA ScoreCard ==
    ASSUME ScoreInv, NEW w \in Requesters, Scoring!CommitCard(w)
    PROVE  ScoreInv'
<1>. DEFINE n == reviewers[w].round
            gone == {k \in Scoring!Keys : k[1] = n}
            new == [preset |-> reviewers[w].preset, number |-> card[n].number + 1]
<1>1. /\ reviewers[w].pc = "card"
      /\ reviewers' = [reviewers EXCEPT ![w] = Scoring!Idle]
      /\ UNCHANGED status /\ answers' = Scoring!Without(gone)
      /\ raced' = IF Scoring!Assigned(n) = {} THEN raced ELSE raced \cup {n}
      /\ card' = [card EXCEPT ![n] = new]
  BY DEF Scoring!CommitCard, Scoring!Commit, Scoring!Become
<1>2. n \in Rounds /\ reviewers[w].preset \in DOMAIN Presets
  BY <1>1 DEF ScoreInv, Reviews
<1>. HIDE DEF n, gone
<1>3. /\ DOMAIN card' = Rounds
      /\ \A m \in Rounds \ {n} : card'[m] = card[m]
      /\ card'[n].preset \in DOMAIN Presets /\ card'[n].number = card[n].number + 1
      /\ \A m \in Rounds : card[m].number \in Nat
  BY <1>1, <1>2 DEF ScoreInv, CardsOK
<1>4. CardsOK' BY <1>2, <1>3 DEF ScoreInv, CardsOK
<1>5. StatusOK' BY <1>1 DEF ScoreInv, StatusOK
<1>6. ASSUME NEW v \in Requesters, NEW q, q = reviewers'[v] PROVE Reviews(q)'
  <2>1. Reviews(q) BY <1>1, <1>6 DEF ScoreInv, Reviews, Scoring!Idle
  <2>2. CASE q.pc = "save"
    <3>1. q.key[1] \in Rounds BY <2>1, <2>2, KeyParts DEF Reviews
    <3>2. q.number \in Nat /\ q.number <= card[q.key[1]].number BY <2>1, <2>2 DEF Reviews
    <3>3. CASE q.key[1] = n
      <4>1. q.number < card'[q.key[1]].number BY <1>3, <3>1, <3>2, <3>3
      <4>2. q.number <= card'[q.key[1]].number /\ q.number # card'[q.key[1]].number
        BY <1>3, <3>1, <3>2, <3>3
      <4>. QED BY <2>1, <2>2, <3>2, <4>2 DEF Reviews
    <3>4. CASE q.key[1] # n
      <4>1. card'[q.key[1]] = card[q.key[1]] BY <1>3, <3>1, <3>4
      <4>. QED BY <2>1, <2>2, <4>1 DEF Reviews, Scoring!Criteria
    <3>. QED BY <3>3, <3>4
  <2>3. CASE q.pc # "save" BY <2>1, <2>3 DEF Reviews
  <2>. QED BY <2>2, <2>3
<1>7. ASSUME NEW k \in Scoring!Keys, status'[k] = "complete", k[1] \notin raced'
      PROVE  Filled(k)'
  <2>1. k[1] # n
    <3>. SUFFICES ASSUME k[1] = n PROVE FALSE OBVIOUS
    <3>1. k \in Scoring!Assigned(n) BY <1>1, <1>7 DEF Scoring!Assigned
    <3>. QED BY <1>1, <1>7, <3>1
  <2>2. k[1] \notin raced BY <1>1, <1>7
  <2>3. Filled(k) BY <1>1, <1>7, <2>2 DEF ScoreInv, CompletedFilled
  <2>4. card'[k[1]] = card[k[1]] BY <1>3, <2>1, KeyParts
  <2>5. k \notin gone BY <2>1 DEF gone
  <2>. QED BY <1>1, <2>3, <2>4, <2>5, WithoutRows DEF Filled, Scoring!Criteria
<1>8. CompletedFilled' BY <1>7 DEF CompletedFilled
<1>9. DOMAIN reviewers' = Requesters BY <1>1 DEF ScoreInv
<1>. QED BY <1>4, <1>5, <1>6, <1>8, <1>9 DEF ScoreInv

LEMMA ScoreAssign ==
    ASSUME ScoreInv, NEW w \in Requesters, Scoring!CommitAssign(w)
    PROVE  ScoreInv'
<1>. DEFINE n == reviewers[w].round
            r == reviewers[w].reviewer
            gone == {k \in Scoring!Of(n, r) : k[3] \in reviewers[w].plan.drop}
<1>1. /\ reviewers' = [reviewers EXCEPT ![w] = Scoring!Idle]
      /\ UNCHANGED <<card, raced>> /\ answers' = Scoring!Without(gone)
      /\ status' = [k \in Scoring!Keys |->
           CASE k \in gone -> "none"
             [] k[1] = n /\ k[2] = r /\ k[3] \in reviewers[w].plan.add
                  /\ status[k] = "none" -> "assigned"
             [] OTHER -> status[k]]
  BY DEF Scoring!CommitAssign, Scoring!Commit, Scoring!Become
<1>. HIDE DEF n, r, gone
<1>2. ASSUME NEW k \in Scoring!Keys
      PROVE  /\ status'[k] \in {"none", "assigned", status[k]}
             /\ status'[k] = "complete" => status[k] = "complete" /\ k \notin gone
  BY <1>1
<1>3. StatusOK' BY <1>1, <1>2 DEF ScoreInv, StatusOK
<1>4. ASSUME NEW k \in Scoring!Keys, status'[k] = "complete"
      PROVE  /\ status[k] = "complete"
             /\ \A x \in DOMAIN answers :
                  x[1] = k /\ answers[x] # Scoring!Blank =>
                    x \in DOMAIN answers' /\ answers'[x] # Scoring!Blank
  BY <1>1, <1>2, <1>4, WithoutRows
<1>. QED BY <1>1, <1>3, <1>4, ScoreRows

LEMMA ScoreRecuse ==
    ASSUME ScoreInv, NEW w \in Requesters, Scoring!CommitRecuse(w)
    PROVE  ScoreInv'
<1>1. /\ reviewers' = [reviewers EXCEPT ![w] = Scoring!Idle]
      /\ UNCHANGED <<card, raced, answers>>
      /\ status' \in {status, [status EXCEPT ![reviewers[w].key] = "recused"]}
  BY DEF Scoring!CommitRecuse, Scoring!Commit, Scoring!Become
<1>2. DOMAIN status' = Scoring!Keys /\ \A k \in Scoring!Keys : status'[k] \in {status[k], "recused"}
  BY <1>1 DEF ScoreInv, StatusOK
<1>3. StatusOK' BY <1>2 DEF ScoreInv, StatusOK
<1>4. \A k \in Scoring!Keys : status'[k] = "complete" => status[k] = "complete" BY <1>2
<1>. QED BY <1>1, <1>3, <1>4, ScoreRows
LEMMA CriteriaNat ==
    ASSUME Scoring!RoundsAssumption, CardsOK, NEW n \in Rounds
    PROVE  Scoring!Criteria(n) \subseteq Nat
BY DEF Scoring!RoundsAssumption, CardsOK, Scoring!Criteria

LEMMA TakenFilled ==
    ASSUME NEW form, DOMAIN form \subseteq Nat, NEW i \in Scoring!Taken(form)
    PROVE  i \in DOMAIN form /\ form[i] # Scoring!Blank
<1>1. i \in DOMAIN form /\ i \in Nat BY DEF Scoring!Taken
<1>2. i \notin Scoring!Refused(form)
  <2>. SUFFICES ASSUME i \in Scoring!Refused(form) PROVE FALSE OBVIOUS
  <2>1. i < i BY DEF Scoring!Taken
  <2>. QED BY <1>1, <2>1
<1>. QED BY <1>1, <1>2 DEF Scoring!Refused

LEMMA ScoreSave ==
    ASSUME Scoring!RoundsAssumption, ScoreInv, NEW w \in Requesters, Scoring!CommitSave(w)
    PROVE  ScoreInv'
<1>0. PICK k, form, m :
         k = reviewers[w].key /\ form = reviewers[w].form /\ m = reviewers[w].number
  OBVIOUS
<1>. DEFINE Row(i) == <<k, m, i>>
            added == {Row(i) : i \in Scoring!Taken(form) \cup Scoring!Created(form)}
<1>1. /\ reviewers' = [reviewers EXCEPT ![w] = Scoring!Idle]
      /\ reviewers[w].pc = "save" /\ UNCHANGED raced
  BY DEF Scoring!CommitSave, Scoring!Commit, Scoring!Become
<1>2. /\ k \in Scoring!Keys /\ k[1] \in Rounds /\ m \in Nat
      /\ m = card[k[1]].number => DOMAIN form = Scoring!Criteria(k[1])
  BY <1>0, <1>1, KeyParts DEF ScoreInv, Reviews
<1>3. CASE ~Scoring!Standing(w)
  <2>1. UNCHANGED <<card, status, answers>> BY <1>3 DEF Scoring!CommitSave, Scoring!rows
  <2>2. StatusOK' BY <2>1 DEF ScoreInv, StatusOK
  <2>. QED BY <1>1, <2>1, <2>2, ScoreRows
<1>4. CASE Scoring!Standing(w)
  <2>1. /\ answers' = [x \in DOMAIN answers \cup added |->
               IF \E i \in Scoring!Taken(form) : x = Row(i) THEN form[x[3]]
               ELSE IF x \in DOMAIN answers THEN answers[x] ELSE Scoring!Blank]
        /\ status' = IF Scoring!Refused(form) = {}
                     THEN [status EXCEPT ![k] = "complete"] ELSE status
        /\ UNCHANGED card
    BY <1>0, <1>4 DEF Scoring!CommitSave
  <2>2. m = card[k[1]].number BY <1>0, <1>1, <1>4 DEF Scoring!Standing
  <2>3. DOMAIN form = Scoring!Criteria(k[1]) /\ DOMAIN form \subseteq Nat
    BY <1>2, <2>2, CriteriaNat DEF ScoreInv
  <2>4. \A i \in Scoring!Taken(form) : form[i] # Scoring!Blank BY <2>3, TakenFilled
  <2>5. \A x \in DOMAIN answers :
          answers[x] # Scoring!Blank => x \in DOMAIN answers' /\ answers'[x] # Scoring!Blank
    BY <2>1, <2>4
  <2>6. \A i \in Scoring!Taken(form) :
          Row(i) \in DOMAIN answers' /\ answers'[Row(i)] # Scoring!Blank
    <3>1. ASSUME NEW i \in Scoring!Taken(form)
          PROVE  Row(i) \in DOMAIN answers' /\ answers'[Row(i)] = form[i]
      <4>1. Row(i) \in added OBVIOUS
      <4>2. Row(i)[3] = i OBVIOUS
      <4>. HIDE DEF Row, added
      <4>. QED BY <2>1, <4>1, <4>2
    <3>. QED BY <2>4, <3>1
  <2>7. /\ DOMAIN status' = Scoring!Keys
        /\ \A o \in Scoring!Keys : status'[o] \in {status[o], "complete"}
        /\ \A o \in Scoring!Keys : o # k => status'[o] = status[o]
    BY <1>2, <2>1 DEF ScoreInv, StatusOK
  <2>8. StatusOK' BY <2>7 DEF ScoreInv, StatusOK
  <2>9. CASE Scoring!Refused(form) = {}
    <3>1. Scoring!Taken(form) = DOMAIN form BY <2>9 DEF Scoring!Taken
    <3>2. Filled(k)' BY <2>1, <2>2, <2>3, <2>6, <3>1 DEF Filled, Scoring!Criteria
    <3>3. \A o \in Scoring!Keys : status'[o] = "complete" => o = k \/ status[o] = "complete"
      BY <2>7
    <3>. HIDE DEF Row, added
    <3>. QED BY <1>1, <2>1, <2>5, <2>8, <3>2, <3>3, ScoreRows
  <2>10. CASE Scoring!Refused(form) # {}
    <3>1. UNCHANGED status BY <2>1, <2>10
    <3>. HIDE DEF Row, added
    <3>. QED BY <1>1, <2>1, <2>5, <2>8, <3>1, ScoreRows
  <2>. QED BY <2>9, <2>10
<1>. QED BY <1>3, <1>4

LEMMA ScoreStep ==
    ASSUME Scoring!RoundsAssumption, ScoreInv, [Scoring!Next]_(Scoring!vars)
    PROVE  ScoreInv'
<1>1. ASSUME NEW w \in Requesters, NEW n \in Rounds, NEW p \in DOMAIN Presets,
             Scoring!BeginCard(w, n, p)
      PROVE  ScoreInv'
  <2>. DEFINE q == [pc |-> "card", round |-> n, preset |-> p]
  <2>1. Scoring!Begin(w, q) BY <1>1 DEF Scoring!BeginCard
  <2>2. Reviews(q) BY DEF Reviews
  <2>. QED BY <2>1, <2>2, ScoreBegin
<1>2. ASSUME NEW w \in Requesters, NEW mode, NEW n, NEW r, NEW chosen, NEW cap,
             Scoring!BeginAssign(w, mode, n, r, chosen, cap)
      PROVE  ScoreInv'
  <2>. DEFINE q == [pc |-> "assign", round |-> n, reviewer |-> r, cap |-> cap,
                    plan |-> Scoring!Selection(mode, n, r, chosen, cap)]
  <2>1. Scoring!Begin(w, q) BY <1>2 DEF Scoring!BeginAssign
  <2>2. Reviews(q) BY DEF Reviews
  <2>. QED BY <2>1, <2>2, ScoreBegin
<1>3. ASSUME NEW w \in Requesters, NEW k \in Scoring!Keys, Scoring!BeginRecuse(w, k)
      PROVE  ScoreInv'
  <2>. DEFINE q == [pc |-> "recuse", key |-> k]
  <2>1. Scoring!Begin(w, q) BY <1>3 DEF Scoring!BeginRecuse
  <2>2. Reviews(q) BY DEF Reviews
  <2>. QED BY <2>1, <2>2, ScoreBegin
<1>4. ASSUME NEW w \in Requesters, NEW k \in Scoring!Keys, NEW form, Scoring!BeginSave(w, k, form)
      PROVE  ScoreInv'
  <2>. DEFINE q == [pc |-> "save", key |-> k, form |-> form, number |-> card[k[1]].number]
  <2>1. Scoring!Begin(w, q) /\ DOMAIN form = Scoring!Criteria(k[1])
    BY <1>4 DEF Scoring!BeginSave
  <2>2. card[k[1]].number \in Nat BY KeyParts DEF ScoreInv, CardsOK
  <2>3. Reviews(q) BY <2>1, <2>2 DEF Reviews
  <2>. QED BY <2>1, <2>3, ScoreBegin
<1>5. ASSUME \/ \E n \in Rounds, r \in RoundReviewers : Scoring!Remind(n, r)
             \/ \E s \in Submissions : Scoring!Withdraw(s)
             \/ UNCHANGED Scoring!vars
      PROVE  ScoreInv'
  <2>1. UNCHANGED <<card, status, answers, raced, reviewers>>
    BY <1>5 DEF Scoring!Remind, Scoring!Withdraw, Scoring!vars, Scoring!rows
  <2>2. DOMAIN reviewers' = Requesters BY <2>1 DEF ScoreInv
  <2>. QED BY <2>1, <2>2, ScoreQuiet
<1>. QED
  BY <1>1, <1>2, <1>3, <1>4, <1>5, ScoreCard, ScoreAssign, ScoreSave, ScoreRecuse
  DEF Scoring!Next
LEMMA AssignedFinite ==
    ASSUME Scoring!RoundsAssumption, NEW n \in Rounds
    PROVE  IsFiniteSet(Scoring!Assigned(n))
<1>. DEFINE A == Scoring!Assigned(n)
            P == RoundReviewers \X Submissions
            f == [k \in A |-> <<k[2], k[3]>>]
<1>1. IsFiniteSet(P) BY SameFiniteSets, FS_Product DEF Scoring!RoundsAssumption
<1>2. \A k \in A : k \in Scoring!Keys /\ k[1] = n BY DEF Scoring!Assigned
<1>3. f \in [A -> P] BY <1>2, KeyParts
<1>4. ASSUME NEW a \in A, NEW b \in A, f[a] = f[b] PROVE a = b
  <2>1. a[2] = b[2] /\ a[3] = b[3] BY <1>4
  <2>. QED BY <1>2, <2>1, KeyParts
<1>5. f \in Injection(A, P) BY <1>3, <1>4 DEF Injection, IsInjective
<1>. HIDE DEF A, P, f
<1>6. IsFiniteSet(A) BY <1>1, <1>5, FS_Injection
<1>. QED BY <1>6 DEF A

LEMMA AllAnswered ==
    ASSUME ScoreInv, NEW n \in Rounds \ raced, NEW k \in Scoring!Assigned(n),
           status[k] = "complete"
    PROVE  k \in Scoring!Keys /\ k[1] = n /\ Scoring!Answered(k) = Scoring!Criteria(n)
<1>1. k \in Scoring!Keys /\ k[1] = n BY DEF Scoring!Assigned
<1>2. Filled(k) BY <1>1 DEF ScoreInv, CompletedFilled
<1>. QED BY <1>1, <1>2 DEF Filled, Scoring!Answered

LEMMA AllScored ==
    ASSUME Scoring!RoundsAssumption, ScoreInv, NEW n \in Rounds \ raced, NEW s
    PROVE  Scoring!Scores(n, s) = Scoring!Completed(n, s)
<1>1. ASSUME NEW k \in Scoring!Completed(n, s) PROVE Scoring!Weighed(k) # {}
  <2>1. k[1] = n /\ Scoring!Answered(k) = Scoring!Criteria(n)
    BY AllAnswered DEF Scoring!Completed
  <2>2. PICK i \in Scoring!Criteria(n) : Presets[card[n].preset][i] > 0
    BY DEF ScoreInv, CardsOK, Scoring!RoundsAssumption, Scoring!Criteria
  <2>3. i \in Scoring!Weighed(k) BY <2>1, <2>2 DEF Scoring!Weighed
  <2>. QED BY <2>3
<1>. QED BY <1>1 DEF Scoring!Scores

\* The reviews that a reviewer has completed are for as many submissions.
LEMMA ProgressAgrees ==
    ASSUME Scoring!RoundsAssumption, ScoreInv, NEW n \in Rounds \ raced,
           NEW r \in RoundReviewers
    PROVE  Scoring!Progress(n, r).completed =
             Scoring!Cardinality({s \in DOMAIN Scoring!Results(n) :
                                    \E k \in Scoring!Scores(n, s) : k[2] = r})
<1>. DEFINE A == {k \in Scoring!Of(n, r) : status[k] = "complete"}
            B == {s \in DOMAIN Scoring!Results(n) : \E k \in Scoring!Scores(n, s) : k[2] = r}
            f == [k \in A |-> k[3]]
<1>1. \A k \in A : k \in Scoring!Keys /\ k[1] = n /\ k[2] = r
  BY DEF Scoring!Of, Scoring!Assigned
<1>2. A \in SUBSET Scoring!Assigned(n) BY DEF Scoring!Of
<1>3. IsFiniteSet(A) BY <1>2, AssignedFinite, FS_Subset
<1>4. DOMAIN Scoring!Results(n) =
        {k[3] : k \in {a \in Scoring!Assigned(n) : status[a] # "recused"}}
  BY DEF Scoring!Results
<1>5. \A s : Scoring!Scores(n, s) =
        {k \in Scoring!Assigned(n) : k[3] = s /\ status[k] = "complete"}
  BY AllScored DEF Scoring!Completed
<1>6. ASSUME NEW k \in A PROVE k[3] \in B
  <2>1. k \in Scoring!Assigned(n) /\ status[k] = "complete" BY DEF Scoring!Of
  <2>2. k[3] \in DOMAIN Scoring!Results(n) BY <1>4, <2>1
  <2>3. k \in Scoring!Scores(n, k[3]) BY <1>5, <2>1
  <2>. QED BY <1>1, <2>2, <2>3
<1>7. ASSUME NEW s \in B PROVE \E k \in A : k[3] = s
  <2>1. PICK k \in Scoring!Scores(n, s) : k[2] = r OBVIOUS
  <2>2. k \in Scoring!Assigned(n) /\ k[3] = s /\ status[k] = "complete" BY <1>5
  <2>. QED BY <2>1, <2>2 DEF Scoring!Of
<1>8. ASSUME NEW a \in A, NEW b \in A, a[3] = b[3] PROVE a = b
  BY <1>1, <1>8, KeyParts
<1>. HIDE DEF A, B
<1>9. f \in [A -> B] BY <1>6
<1>10. f \in Bijection(A, B)
  BY <1>7, <1>8, <1>9 DEF Bijection, Injection, Surjection, IsInjective
<1>11. Cardinality(B) = Cardinality(A) BY <1>3, <1>10, FS_Bijection DEF ExistsBijection
<1>12. Scoring!Progress(n, r).completed = Scoring!Cardinality(A)
  BY DEF Scoring!Progress, A
<1>13. Scoring!Cardinality(B) = Scoring!Cardinality(A) BY <1>11, SameFiniteSets
<1>. QED BY <1>12, <1>13 DEF B

\* Those of a set that are not recused are the rest.
LEMMA RestCounted ==
    ASSUME NEW S, IsFiniteSet(S)
    PROVE  /\ Scoring!Cardinality({k \in S : status[k] # "recused"}) =
                Scoring!Cardinality(S) - Scoring!Counted(S, "recused")
           /\ Scoring!Counted(S, "complete") = Cardinality({k \in S : status[k] = "complete"})
           /\ Scoring!Cardinality(S) = Cardinality(S)
           /\ Scoring!Cardinality(S) \in Nat
           /\ Scoring!Counted(S, "recused") \in Nat
<1>. DEFINE T == {k \in S : status[k] = "recused"}
<1>1. S \ T = {k \in S : status[k] # "recused"} /\ S \cap T = T OBVIOUS
<1>2. T \in SUBSET S OBVIOUS
<1>3. Cardinality(S \ T) = Cardinality(S) - Cardinality(S \cap T) BY FS_Difference
<1>4. Scoring!Counted(S, "recused") = Cardinality(T) BY SameFiniteSets DEF Scoring!Counted
<1>5. Scoring!Counted(S, "complete") = Cardinality({k \in S : status[k] = "complete"})
  BY SameFiniteSets DEF Scoring!Counted
<1>. HIDE DEF T
<1>6. IsFiniteSet(T) BY <1>2, FS_Subset
<1>7. Cardinality(T) \in Nat /\ Cardinality(S) \in Nat BY <1>6, FS_CardinalityType
<1>. QED BY <1>1, <1>3, <1>4, <1>5, <1>7, SameFiniteSets

\* A round that is reported done has only completed and recused assignments.
LEMMA DoneIsDone ==
    ASSUME Scoring!RoundsAssumption, ScoreInv, NEW n \in Rounds \ raced, Scoring!RoundDone(n)
    PROVE  \A k \in Scoring!Assigned(n) : status[k] \in {"recused", "complete"}
<1>. DEFINE S == Scoring!Assigned(n)
            L == {k \in S : status[k] # "recused"}
            D == {k \in S : status[k] = "complete"}
<1>1. IsFiniteSet(S) BY AssignedFinite
<1>2. Scoring!Counted(S, "complete") = Scoring!Cardinality(S) - Scoring!Counted(S, "recused")
  BY DEF Scoring!RoundDone
<1>. HIDE DEF S
<1>3. Scoring!Cardinality(L) = Cardinality(D) BY <1>1, <1>2, RestCounted
<1>4. D \in SUBSET L /\ L \in SUBSET S OBVIOUS
<1>5. IsFiniteSet(L) BY <1>1, <1>4, FS_Subset
<1>6. Cardinality(L) = Cardinality(D) BY <1>3, SameFiniteSets
<1>7. L = D
  <2>. HIDE DEF L, D
  <2>. QED BY <1>4, <1>5, <1>6, FS_Subset
<1>. QED BY <1>7 DEF S

\* Completed reviews answer all of their scorecard and count, in both tables and
\* in what is reported done, but for scorecards that were replaced beside the
\* first assignment of their round.
THEOREM ReviewsCount == ProposalsSpec => []CompletedReviewsCount
<1>. DEFINE I == part = "rounds" => ScoreInv
<1>1. ScoreInv => Scoring!CompletedReviewsCount
  <2>. SUFFICES ASSUME ScoreInv, NEW n \in Rounds \ raced
       PROVE  /\ \A k \in Scoring!Assigned(n) :
                   status[k] = "complete" => Scoring!Answered(k) = Scoring!Criteria(n)
              /\ \A s \in DOMAIN Scoring!Results(n) :
                   Scoring!Results(n)[s].count = Scoring!Results(n)[s].scores
              /\ \A r \in RoundReviewers : Scoring!Progress(n, r).completed =
                   Scoring!Cardinality({s \in DOMAIN Scoring!Results(n) :
                                          \E k \in Scoring!Scores(n, s) : k[2] = r})
              /\ \A r \in RoundReviewers : Scoring!Progress(n, r).assigned =
                   Scoring!PoolRow(n, r).assigned - Scoring!PoolRow(n, r).recused
              /\ Scoring!RoundDone(n) =>
                   /\ \A r \in Scoring!Pool(n) :
                        \A x \in Scoring!NextAssignments(r) : x[1][1] # n
                   /\ \A k \in Scoring!Assigned(n) :
                        \/ status[k] = "recused"
                        \/ Scoring!Rubric(k).answered = Scoring!Rubric(k).required
    BY DEF Scoring!CompletedReviewsCount
  <2>1. \A k \in Scoring!Assigned(n) :
          status[k] = "complete" => Scoring!Answered(k) = Scoring!Criteria(n)
    BY AllAnswered
  <2>2. \A s \in DOMAIN Scoring!Results(n) :
          Scoring!Results(n)[s].count = Scoring!Results(n)[s].scores
    BY AllScored, ProposalsAssumption DEF Scoring!Results
  <2>3. \A r \in RoundReviewers : Scoring!Progress(n, r).assigned =
          Scoring!PoolRow(n, r).assigned - Scoring!PoolRow(n, r).recused
    <3>. SUFFICES ASSUME NEW r \in RoundReviewers
         PROVE  Scoring!Progress(n, r).assigned =
                  Scoring!PoolRow(n, r).assigned - Scoring!PoolRow(n, r).recused
      OBVIOUS
    <3>1. Scoring!Of(n, r) \in SUBSET Scoring!Assigned(n) BY DEF Scoring!Of
    <3>2. IsFiniteSet(Scoring!Of(n, r))
      BY <3>1, AssignedFinite, FS_Subset, ProposalsAssumption
    <3>. QED BY <3>2, RestCounted DEF Scoring!Progress, Scoring!PoolRow
  <2>4. ASSUME Scoring!RoundDone(n)
        PROVE  /\ \A r \in Scoring!Pool(n) :
                    \A x \in Scoring!NextAssignments(r) : x[1][1] # n
               /\ \A k \in Scoring!Assigned(n) :
                    \/ status[k] = "recused"
                    \/ Scoring!Rubric(k).answered = Scoring!Rubric(k).required
    <3>1. \A k \in Scoring!Assigned(n) : status[k] \in {"recused", "complete"}
      BY <2>4, DoneIsDone, ProposalsAssumption
    <3>2. ASSUME NEW r, NEW x \in Scoring!NextAssignments(r), x[1][1] = n PROVE FALSE
      <4>1. PICK k \in Scoring!IncompleteAssignments : x = <<k, Scoring!Rubric(k)>>
        BY DEF Scoring!NextAssignments
      <4>2. k \in Scoring!Keys /\ status[k] = "assigned" /\ k[1] = n
        BY <3>2, <4>1 DEF Scoring!IncompleteAssignments
      <4>3. k \in Scoring!Assigned(n) BY <4>2 DEF Scoring!Assigned
      <4>. QED BY <3>1, <4>2, <4>3
    <3>3. ASSUME NEW k \in Scoring!Assigned(n), status[k] # "recused"
          PROVE  Scoring!Rubric(k).answered = Scoring!Rubric(k).required
      <4>1. k[1] = n /\ Scoring!Answered(k) = Scoring!Criteria(n) BY <3>1, <3>3, AllAnswered
      <4>. QED BY <4>1 DEF Scoring!Rubric
    <3>. QED BY <3>2, <3>3
  <2>. QED BY <2>1, <2>2, <2>3, <2>4, ProgressAgrees, ProposalsAssumption
<1>2. ProposalsInit => I BY ScoreInit, ProposalsAssumption DEF ProposalsInit
<1>3. I /\ [ProposalsNext]_<<part, reviewing, authors, choices>> => I'
  BY PartSteps, ScoreStep, ProposalsAssumption
<1>4. I => CompletedReviewsCount BY <1>1 DEF CompletedReviewsCount
<1>. HIDE DEF I
<1>. QED BY <1>2, <1>3, <1>4, PTL DEF ProposalsSpec
=============================================================================
