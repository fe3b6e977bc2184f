-------------------------- MODULE PublicationProofs --------------------------
(***************************************************************************)
(* Theorems about Publication, for every set of sessions, speakers, rooms  *)
(* and workers, every length of the day and every bound.                   *)
(***************************************************************************)
EXTENDS Publication, FiniteSetTheorems, WellFoundedInduction, TLAPS

-----------------------------------------------------------------------------
(* Types.                                                                  *)

Slot == [room : Nat, start : Nat, visible : BOOLEAN]
Slots == [Sessions -> Slot]
States == {"accepted", "confirmed", "withdrawn"}
Statuses == {"none", "pending", "approved", "changes_requested"}

\* The schedules are numbered from 1; n is the working one.
Schedules(n) == n \in Nat \ {0} /\ talks \in [1..n -> Slots]

\* Placements that respect the day, the rooms and the speakers.
PlanOK(at) ==
    /\ DOMAIN at \subseteq Sessions
    /\ \A s \in DOMAIN at :
         /\ at[s] \in (1..DayEnd) \X Rooms
         /\ at[s][1] + Length[s] <= DayEnd + 1
    /\ \A s, t \in DOMAIN at : s # t =>
         ~ /\ at[s][1] < at[t][1] + Length[t] /\ at[t][1] < at[s][1] + Length[s]
           /\ at[t][2] = at[s][2] \/ SharedSpeaker(s, t)

\* What a request has in hand, by what it is doing.
ReleaseOK(q) == q \in [pc : {"gate", "freeze"}, by : {"speakerops", "pretalx"},
                       schedule : {Wip}]
ApplyOK(q) ==
    /\ q = [pc |-> "apply", schedule |-> q.schedule, at |-> q.at]
    /\ q.schedule \in 1..Wip /\ PlanOK(q.at)
FeedOK(q) ==
    /\ DOMAIN q = {"pc", "todo", "row", "slots"}
    /\ q.pc \in {"stamp", "raise", "cancel"}
    /\ DOMAIN q.slots \subseteq Sessions /\ q.todo \subseteq Sessions
    /\ \A s \in DOMAIN q.slots : q.slots[s] # Cancelled
    /\ q.pc \in {"stamp", "raise"} => q.todo \subseteq DOMAIN q.slots
    /\ q.pc = "raise" => q.row = <<q.row[1], q.row[2]>> /\ q.row[1] \in q.todo /\ q.row[2] \in Nat
    /\ q.pc = "cancel" => q.row \in [Sessions -> Nat] /\ q.todo \cap DOMAIN q.slots = {}

RequestOK(q) == q = Idle \/ ReleaseOK(q) \/ ApplyOK(q) \/ FeedOK(q)

ProgramOK ==
    /\ state \in [Sessions -> States]
    /\ approval \in [Sessions -> Statuses]
    /\ \E n : Schedules(n)
IdentityOK ==
    /\ DOMAIN identity = Sessions
    /\ \A s \in Sessions :
         /\ DOMAIN identity[s] = {"uid", "seq", "canceled", "fingerprint"}
         /\ identity[s].seq \in Nat
         /\ identity[s].uid \in BOOLEAN /\ identity[s].canceled \in BOOLEAN
RequestsOK ==
    /\ DOMAIN workers = Workers
    /\ \A w \in Workers : RequestOK(workers[w])
    /\ \A v, w \in Workers :
         workers[v].pc \in {"gate", "freeze"} /\ workers[w].pc \in {"gate", "freeze"} => v = w

TypeOK == ProgramOK /\ IdentityOK /\ RequestsOK

LEMMA Schedule ==
    ASSUME NEW n, Schedules(n)
    PROVE  Wip = n /\ Current = n - 1
<1>1. DOMAIN talks = 1..n /\ n \in Nat BY DEF Schedules
<1>2. Cardinality(1..n) = n BY <1>1, FS_Interval
<1>. QED BY <1>1, <1>2 DEF Wip, Current

LEMMA WipType ==
    ASSUME ProgramOK
    PROVE  Wip \in Nat \ {0} /\ talks \in [1..Wip -> Slots] /\ Current = Wip - 1
<1>1. PICK n : Schedules(n) BY DEF ProgramOK
<1>2. Wip = n /\ Current = n - 1 BY <1>1, Schedule
<1>. QED BY <1>1, <1>2 DEF Schedules

-----------------------------------------------------------------------------
(* The gate.  Its sweep compares fewer pairs than there are; none that       *)
(* clashes is left out.                                                     *)

LEMMA SlotType ==
    ASSUME ProgramOK, NEW k \in 1..Wip, NEW s \in Sessions
    PROVE  /\ talks[k][s] \in Slot
           /\ talks[k][s].start \in Nat /\ talks[k][s].room \in Nat
           /\ s \in Nat /\ Length[s] \in Nat \ {0}
BY WipType, SessionsAssumption DEF Slots, Slot

LEMMA SweepComplete ==
    ASSUME ProgramOK, NEW k \in 1..Wip, Warnings(k) = {},
           NEW a \in Considered(k), NEW b \in Considered(k)
    PROVE  ~Clash(talks[k], a, b)
<1>. DEFINE slots == talks[k]
            S     == Considered(k)
<1>0. S \subseteq Sessions BY DEF Considered
<1>1. ASSUME NEW x \in S, NEW y \in S, Clash(slots, x, y), Before(slots, x, y)
      PROVE  FALSE
  <2>1. /\ slots[x].start < End(y, slots[y]) /\ slots[y].start < End(x, slots[x])
        /\ slots[x].room = slots[y].room \/ SharedSpeaker(x, y)
    BY <1>1 DEF Clash, Overlap
  <2>2. ASSUME NEW c \in S, Before(slots, x, c), c = y \/ Before(slots, c, y)
        PROVE  slots[c].start < End(x, slots[x])
    <3>1. slots[c].start <= slots[y].start
      BY <1>0, <2>2, SlotType DEF Before
    <3>. QED BY <1>0, <2>1, <3>1, SlotType DEF End
  <2>3. Compared(slots, S, x, y) BY <1>1, <2>1, <2>2 DEF Compared
  <2>4. <<x, y>> \in Warnings(k) BY <2>1, <2>3 DEF Warnings
  <2>. QED BY <2>4
<1>2. ASSUME Clash(slots, a, b) PROVE FALSE
  <2>1. Clash(slots, b, a)
    <3>1. slots[a].room = slots[b].room \/ SharedSpeaker(a, b) BY <1>2 DEF Clash
    <3>2. slots[b].room = slots[a].room \/ SharedSpeaker(b, a)
      BY <3>1 DEF SharedSpeaker
    <3>. QED BY <1>2, <3>2 DEF Clash, Overlap
  <2>2. Before(slots, a, b) \/ Before(slots, b, a)
    BY <1>0, <1>2, SlotType DEF Before, Clash
  <2>. QED BY <1>1, <1>2, <2>1, <2>2
<1>. QED BY <1>2

-----------------------------------------------------------------------------
(* Assisted placement.  The solver takes the sessions by rank and each at    *)
(* the least free place; no two of its placements are in each other's way.  *)

LEMMA LeastNumber ==
    ASSUME NEW S \in SUBSET Nat, S # {}
    PROVE  \E m \in S : \A n \in S : m <= n
<1>1. PICK m \in S : \A n \in S : <<n, m>> \notin OpToRel(<, Nat)
  BY NatLessThanWellFounded, WFMin
<1>2. \A n \in S : n \in Nat /\ m \in Nat OBVIOUS
<1>3. \A n \in S : ~(n < m) BY <1>1, <1>2, Zenon DEF OpToRel
<1>. QED BY <1>2, <1>3

LEMMA CandidateSet ==
    ASSUME ProgramOK, NEW k \in 1..Wip
    PROVE  /\ Candidates(k) \subseteq Sessions /\ IsFiniteSet(Candidates(k))
           /\ Cardinality(Candidates(k)) \in Nat
<1>1. Candidates(k) \subseteq Sessions BY DEF Candidates
<1>2. IsFiniteSet(Candidates(k)) BY <1>1, SessionsAssumption, FS_Subset
<1>. QED BY <1>1, <1>2, FS_CardinalityType

\* The order of the solver is total: unplaced slots come last, ties go to the
\* smaller key.
LEMMA EarlierOrders ==
    ASSUME ProgramOK, NEW k \in 1..Wip
    PROVE  /\ \A a, b \in Sessions : a # b =>
                Earlier(talks[k], a, b) \/ Earlier(talks[k], b, a)
           /\ \A a, b \in Sessions :
                ~(Earlier(talks[k], a, b) /\ Earlier(talks[k], b, a))
           /\ \A a, b, c \in Sessions :
                Earlier(talks[k], a, b) /\ Earlier(talks[k], b, c) => Earlier(talks[k], a, c)
BY SlotType DEF Earlier, Before, Placed

LEMMA NthType ==
    ASSUME ProgramOK, NEW k \in 1..Wip, NEW n \in 1..Cardinality(Candidates(k))
    PROVE  Nth(k, n) \in Candidates(k)
<1>. DEFINE C      == Candidates(k)
            c      == Cardinality(C)
            E(a,b) == Earlier(talks[k], a, b)
            P(s)   == {t \in C \ {s} : E(t, s)}
            r      == [s \in C |-> Cardinality(P(s))]
<1>0. C \subseteq Sessions /\ IsFiniteSet(C) /\ c \in Nat BY CandidateSet
<1>1. ASSUME NEW s \in C
      PROVE  /\ IsFiniteSet(P(s)) /\ Cardinality(P(s)) \in Nat /\ Cardinality(P(s)) < c
  <2>1. P(s) \subseteq C /\ P(s) # C /\ s \notin P(s) OBVIOUS
  <2>. HIDE DEF P
  <2>. QED BY <1>0, <2>1, FS_Subset, FS_CardinalityType
<1>2. ASSUME NEW a \in C, NEW b \in C, E(a, b) PROVE r[a] < r[b]
  <2>1. P(a) \subseteq P(b)
    <3>1. ASSUME NEW t \in P(a) PROVE t \in C /\ E(t, b) /\ t # b
      BY <1>0, <1>2, <3>1, EarlierOrders
    <3>. QED BY <3>1
  <2>2. a \in P(b) /\ a \notin P(a)
    BY <1>0, <1>2, EarlierOrders
  <2>3. IsFiniteSet(P(b)) BY <1>1
  <2>. HIDE DEF P
  <2>4. Cardinality(P(a)) < Cardinality(P(b))
    <3>1. Cardinality(P(a)) \in Nat /\ Cardinality(P(b)) \in Nat BY <1>1
    <3>2. P(a) # P(b) /\ P(a) \in SUBSET P(b) BY <2>1, <2>2
    <3>3. /\ Cardinality(P(a)) <= Cardinality(P(b))
          /\ Cardinality(P(a)) # Cardinality(P(b))
      BY <2>3, <3>2, FS_Subset
    <3>. QED BY <3>1, <3>3
  <2>. QED BY <2>4
<1>3. ASSUME NEW a \in C, NEW b \in C, r[a] = r[b] PROVE a = b
  <2>1. r[a] \in Nat /\ r[b] \in Nat BY <1>1
  <2>2. ~E(a, b) /\ ~E(b, a) BY <1>2, <1>3, <2>1
  <2>. QED BY <1>0, <2>2, EarlierOrders
<1>4. r \in [C -> 0..(c - 1)]
  <2>. HIDE DEF P
  <2>1. ASSUME NEW s \in C PROVE Cardinality(P(s)) \in 0..(c - 1)
    <3>1. Cardinality(P(s)) \in Nat /\ Cardinality(P(s)) < c BY <1>1
    <3>. HIDE DEF c
    <3>. QED BY <1>0, <3>1
  <2>. QED BY <2>1
<1>5. r \in Injection(C, 0..(c - 1)) BY <1>3, <1>4 DEF Injection, IsInjective
<1>6. IsFiniteSet(0..(c - 1)) /\ Cardinality(0..(c - 1)) = c
  <2>. HIDE DEF c
  <2>1. c - 1 \in Int /\ 0 \in Int BY <1>0
  <2>2. /\ IsFiniteSet(0..(c - 1))
        /\ Cardinality(0..(c - 1)) = IF 0 > c - 1 THEN 0 ELSE (c - 1) - 0 + 1
    BY <2>1, FS_Interval
  <2>. QED BY <1>0, <2>2
<1>7. r \in Surjection(C, 0..(c - 1)) BY <1>5, <1>6, FS_Injection
<1>8. PICK s \in C : r[s] = n - 1
  <2>1. n - 1 \in 0..(c - 1) BY <1>0
  <2>. QED BY <1>7, <2>1 DEF Surjection
<1>9. \E u \in C : Cardinality({t \in C \ {u} : Earlier(talks[k], t, u)}) = n - 1
  BY <1>8
<1>. QED BY <1>9 DEF Nth

\* The earliest start, then the first room.
LEMMA FirstType ==
    ASSUME NEW places \in SUBSET ((1..DayEnd) \X Rooms), places # {}
    PROVE  First(places) \in places
<1>0. Rooms \subseteq Nat /\ DayEnd \in Nat BY PlacesAssumption
<1>. DEFINE Starts == {c[1] : c \in places}
<1>1. ASSUME NEW c \in places
      PROVE  c = <<c[1], c[2]>> /\ c[1] \in Nat /\ c[2] \in Nat
  <2>1. c \in (1..DayEnd) \X Rooms OBVIOUS
  <2>2. PICK t \in 1..DayEnd, p \in Rooms : c = <<t, p>> BY <2>1
  <2>. QED BY <1>0, <2>2
<1>2. PICK t \in Starts : \A u \in Starts : t <= u
  <2>1. Starts \subseteq Nat /\ Starts # {} BY <1>1
  <2>. HIDE DEF Starts
  <2>. QED BY <2>1, LeastNumber
<1>. DEFINE Positions == {c[2] : c \in {d \in places : d[1] = t}}
<1>3. PICK p \in Positions : \A q \in Positions : p <= q
  <2>1. Positions \subseteq Nat /\ Positions # {} BY <1>1, <1>2
  <2>. HIDE DEF Positions
  <2>. QED BY <2>1, LeastNumber
<1>4. PICK c \in places : c[1] = t /\ c[2] = p BY <1>3
<1>5. ASSUME NEW d \in places PROVE c[1] < d[1] \/ (c[1] = d[1] /\ c[2] <= d[2])
  <2>1. t <= d[1] /\ d[1] \in Nat /\ t \in Nat BY <1>1, <1>2
  <2>2. d[1] = t => p <= d[2] BY <1>3
  <2>. QED BY <1>4, <2>1, <2>2
<1>. QED BY <1>4, <1>5 DEF First

LEMMA ExtendedOK ==
    ASSUME NEW before, PlanOK(before.at), NEW s \in Sessions
    PROVE  PlanOK(Extended(before, s).at)
<1>. DEFINE at  == before.at
            new == [t \in DOMAIN at \cup {s} |-> IF t = s THEN First(Free(s, at)) ELSE at[t]]
<1>1. CASE before.stuck \/ Free(s, at) = {} BY <1>1 DEF Extended
<1>2. CASE ~(before.stuck \/ Free(s, at) = {})
  <2>1. Extended(before, s).at = new BY <1>2 DEF Extended
  <2>2. Free(s, at) \in SUBSET ((1..DayEnd) \X Rooms) BY DEF Free
  <2>. DEFINE c == First(Free(s, at))
  <2>3. c \in Free(s, at) BY <1>2, <2>2, FirstType
  <2>4. /\ c \in (1..DayEnd) \X Rooms /\ c[1] + Length[s] <= DayEnd + 1
        /\ \A t \in DOMAIN at :
             ~ /\ c[1] < at[t][1] + Length[t] /\ at[t][1] < c[1] + Length[s]
               /\ at[t][2] = c[2] \/ SharedSpeaker(s, t)
    BY <2>3 DEF Free
  <2>. HIDE DEF c
  <2>5. new = [t \in DOMAIN at \cup {s} |-> IF t = s THEN c ELSE at[t]] BY DEF c
  <2>. HIDE DEF at, new
  <2>6. \A t \in DOMAIN at : new[t] = IF t = s THEN c ELSE at[t] BY <2>5
  <2>7. new[s] = c /\ DOMAIN new = DOMAIN at \cup {s} BY <2>5
  <2>8. PlanOK(at) BY DEF at
  <2>9. ASSUME NEW x \in DOMAIN new, NEW y \in DOMAIN new, x # y
        PROVE  ~ /\ new[x][1] < new[y][1] + Length[y] /\ new[y][1] < new[x][1] + Length[x]
                 /\ new[y][2] = new[x][2] \/ SharedSpeaker(x, y)
    <3>1. CASE x # s /\ y # s BY <2>6, <2>7, <2>8, <2>9, <3>1 DEF PlanOK
    <3>2. CASE x = s BY <2>4, <2>6, <2>7, <2>9, <3>2
    <3>3. CASE y = s
      <4>1. SharedSpeaker(x, s) <=> SharedSpeaker(s, x) BY DEF SharedSpeaker
      <4>. QED BY <2>4, <2>6, <2>7, <2>9, <3>3, <4>1
    <3>. QED BY <3>1, <3>2, <3>3
  <2>10. PlanOK(new) BY <2>4, <2>6, <2>7, <2>8, <2>9 DEF PlanOK
  <2>. QED BY <2>1, <2>10 DEF new, at
<1>. QED BY <1>1, <1>2

LEMMA ProposalOK ==
    ASSUME ProgramOK, NEW k \in 1..Wip
    PROVE  PlanOK(Proposal(k).at)
<1>. DEFINE N       == Cardinality(Candidates(k))
            None    == [stuck |-> FALSE, at |-> <<>>]
            B(f, n) == IF n = 0 THEN None ELSE Extended(f[n - 1], Nth(k, n))
            Is(f, m) == f = [n \in 0..m |-> B(f, n)]
            F       == CHOOSE f : Is(f, N)
<1>0. N \in Nat BY CandidateSet
<1>1. Proposal(k) = F[N] BY DEF Proposal
<1>2. \E f : Is(f, N)
  <2>. DEFINE Bad == {m \in Nat : ~\E f : Is(f, m)}
  <2>1. ASSUME Bad # {} PROVE FALSE
    <3>1. PICK m \in Bad : \A j \in Bad : m <= j
      <4>1. Bad \subseteq Nat OBVIOUS
      <4>. HIDE DEF Bad
      <4>. QED BY <2>1, <4>1, LeastNumber
    <3>2. CASE m = 0
      <4>. DEFINE f == [n \in 0..0 |-> None]
      <4>1. Is(f, 0) OBVIOUS
      <4>. QED BY <3>2, <4>1
    <3>3. CASE m # 0
      <4>1. m \in Nat /\ m - 1 \in Nat /\ m - 1 \notin Bad
        <5>1. Bad \subseteq Nat OBVIOUS
        <5>. HIDE DEF Bad
        <5>. QED BY <3>1, <3>3, <5>1
      <4>2. PICK f : Is(f, m - 1) BY <4>1
      <4>. DEFINE x == Extended(f[m - 1], Nth(k, m))
                  g == [n \in 0..m |-> IF n = m THEN x ELSE f[n]]
      <4>3. \A n \in 0..(m - 1) : f[n] = B(f, n) BY <4>2
      <4>4. \A n \in 0..m : g[n] = B(g, n)
        <5>. HIDE DEF None
        <5>. QED BY <3>3, <4>1, <4>3
      <4>5. Is(g, m) BY <4>4
      <4>. QED BY <4>5
    <3>. QED BY <3>2, <3>3
  <2>. QED BY <1>0, <2>1
<1>3. Is(F, N) BY <1>2
<1>4. \A n \in 0..N : F[n] = B(F, n) BY <1>3
<1>. HIDE DEF F
<1>5. \A n \in 0..N : PlanOK(F[n].at)
  <2>. DEFINE Bad == {n \in 0..N : ~PlanOK(F[n].at)}
  <2>1. ASSUME Bad # {} PROVE FALSE
    <3>1. PICK n \in Bad : \A j \in Bad : n <= j
      <4>1. Bad \subseteq Nat BY <1>0
      <4>. HIDE DEF Bad
      <4>. QED BY <2>1, <4>1, LeastNumber
    <3>2. CASE n = 0
      <4>1. F[0].at = <<>> BY <1>4, <3>1, <3>2
      <4>2. PlanOK(<<>>) BY DEF PlanOK
      <4>. QED BY <3>1, <3>2, <4>1, <4>2
    <3>3. CASE n # 0
      <4>1. n - 1 \in 0..N /\ n - 1 \notin Bad /\ n \in 1..N BY <1>0, <3>1, <3>3
      <4>2. PlanOK(F[n - 1].at) BY <4>1
      <4>3. Nth(k, n) \in Sessions BY <4>1, NthType, CandidateSet
      <4>4. F[n] = Extended(F[n - 1], Nth(k, n)) BY <1>4, <3>1, <3>3
      <4>5. PlanOK(F[n].at) BY <4>2, <4>3, <4>4, ExtendedOK
      <4>. QED BY <3>1, <4>5
    <3>. QED BY <3>2, <3>3
  <2>. QED BY <2>1
<1>. QED BY <1>0, <1>1, <1>5

-----------------------------------------------------------------------------
(* Type correctness.                                                        *)

LEMMA IdleOK == RequestOK(Idle) /\ Idle.pc = "idle"
BY DEF RequestOK, Idle

LEMMA OtherRequests ==
    ASSUME RequestsOK, NEW w \in Workers, NEW q, Become(w, q)
    PROVE  /\ workers'[w] = q /\ DOMAIN workers' = Workers
           /\ \A v \in Workers \ {w} : workers'[v] = workers[v]
BY DEF RequestsOK, Become

\* A request is what its program counter says.
LEMMA RequestByPc ==
    ASSUME RequestsOK, NEW w \in Workers
    PROVE  /\ workers[w].pc \in {"gate", "freeze"} => ReleaseOK(workers[w])
           /\ workers[w].pc = "apply" => ApplyOK(workers[w])
           /\ workers[w].pc \in {"stamp", "raise", "cancel"} => FeedOK(workers[w])
<1>1. RequestOK(workers[w]) BY DEF RequestsOK
<1>2. Idle.pc = "idle" BY IdleOK
<1>3. ReleaseOK(workers[w]) => workers[w].pc \in {"gate", "freeze"} BY DEF ReleaseOK
<1>4. ApplyOK(workers[w]) => workers[w].pc = "apply"
  <2>1. ASSUME NEW q, NEW k, NEW at, q = [pc |-> "apply", schedule |-> k, at |-> at]
        PROVE  q.pc = "apply"
    BY <2>1
  <2>. QED BY <2>1 DEF ApplyOK
<1>5. FeedOK(workers[w]) => workers[w].pc \in {"stamp", "raise", "cancel"} BY DEF FeedOK
<1>. QED BY <1>1, <1>2, <1>3, <1>4, <1>5 DEF RequestOK

\* One request moves on while the number of schedules stays.
LEMMA RequestsFrom ==
    ASSUME RequestsOK, Wip' = Wip, NEW w \in Workers, NEW q, Become(w, q), RequestOK(q),
           q.pc \in {"gate", "freeze"} =>
               \A v \in Workers \ {w} : workers[v].pc \notin {"gate", "freeze"}
    PROVE  RequestsOK'
<1>1. /\ workers'[w] = q /\ DOMAIN workers' = Workers
      /\ \A v \in Workers \ {w} : workers'[v] = workers[v]
  BY OtherRequests
<1>2. ASSUME NEW r, RequestOK(r) PROVE RequestOK(r)'
  BY <1>2 DEF RequestOK, ReleaseOK, ApplyOK, FeedOK, PlanOK
<1>3. ASSUME NEW v \in Workers PROVE RequestOK(workers[v])'
  <2>1. PICK r : r = workers'[v] OBVIOUS
  <2>2. RequestOK(r) BY <1>1, <2>1 DEF RequestsOK
  <2>3. RequestOK(r)' BY <1>2, <2>2
  <2>. QED BY <2>1, <2>3
<1>4. \A u, v \in Workers :
        workers'[u].pc \in {"gate", "freeze"} /\ workers'[v].pc \in {"gate", "freeze"} => u = v
  BY <1>1 DEF RequestsOK
<1>. QED BY <1>1, <1>3, <1>4 DEF RequestsOK

LEMMA ApplyStays ==
    ASSUME Wip \in Nat, Wip' \in Nat, Wip <= Wip', NEW q, ApplyOK(q)
    PROVE  ApplyOK(q)'
<1>1. q.schedule \in 1..Wip' BY DEF ApplyOK
<1>2. PlanOK(q.at)' BY DEF ApplyOK, PlanOK
<1>. QED BY <1>1, <1>2 DEF ApplyOK

LEMMA IdentityStays ==
    ASSUME IdentityOK, NEW s \in Sessions, DOMAIN identity' = Sessions,
           \A t \in Sessions \ {s} : identity'[t] = identity[t],
           DOMAIN identity'[s] = {"uid", "seq", "canceled", "fingerprint"},
           identity'[s].seq \in Nat, identity'[s].uid \in BOOLEAN,
           identity'[s].canceled \in BOOLEAN
    PROVE  IdentityOK'
<1>1. ASSUME NEW t \in Sessions
      PROVE  /\ DOMAIN identity'[t] = {"uid", "seq", "canceled", "fingerprint"}
             /\ identity'[t].seq \in Nat
             /\ identity'[t].uid \in BOOLEAN /\ identity'[t].canceled \in BOOLEAN
  <2>1. CASE t = s BY <2>1
  <2>2. CASE t # s BY <2>2 DEF IdentityOK
  <2>. QED BY <2>1, <2>2
<1>. QED BY <1>1 DEF IdentityOK

LEMMA StepTypes ==
    ASSUME TypeOK, [Next]_vars
    PROVE  TypeOK'
<1>0. /\ Wip \in Nat \ {0} /\ talks \in [1..Wip -> Slots] /\ Current = Wip - 1
      /\ ProgramOK /\ IdentityOK /\ RequestsOK
  BY WipType DEF TypeOK
<1>a. ASSUME UNCHANGED talks PROVE Wip' = Wip BY <1>a DEF Wip
<1>t. ASSUME UNCHANGED <<program, talks>> PROVE ProgramOK' /\ Wip' = Wip
  BY <1>0, <1>t DEF ProgramOK, program, Wip, Schedules
<1>i. ASSUME UNCHANGED identity PROVE IdentityOK' BY <1>0, <1>i DEF IdentityOK
<1>w. ASSUME UNCHANGED workers, Wip' = Wip PROVE RequestsOK'
  BY <1>0, <1>w DEF RequestsOK, RequestOK, ReleaseOK, ApplyOK, FeedOK, PlanOK
<1>1. ASSUME NEW w \in Workers, NEW by \in {"speakerops", "pretalx"}, BeginRelease(w, by)
      PROVE  TypeOK'
  <2>. DEFINE q == [pc |-> "gate", by |-> by, schedule |-> Wip]
  <2>1. RequestOK(q) /\ Become(w, q) BY <1>1 DEF RequestOK, ReleaseOK, BeginRelease
  <2>2. \A v \in Workers : workers[v].pc \notin {"gate", "freeze"} BY <1>1 DEF BeginRelease
  <2>3. UNCHANGED <<program, talks, identity>> BY <1>1 DEF BeginRelease
  <2>. HIDE DEF q
  <2>. QED BY <1>0, <1>t, <1>i, <2>1, <2>2, <2>3, RequestsFrom DEF TypeOK
<1>2. ASSUME NEW w \in Workers, Gate(w) PROVE TypeOK'
  <2>. DEFINE q == [workers[w] EXCEPT !.pc = "freeze"]
  <2>1. ReleaseOK(workers[w]) BY <1>0, <1>2, RequestByPc DEF Gate
  <2>2. RequestOK(q) /\ q.pc = "freeze" BY <2>1 DEF RequestOK, ReleaseOK
  <2>3. \A v \in Workers \ {w} : workers[v].pc \notin {"gate", "freeze"}
    BY <1>0, <1>2 DEF Gate, RequestsOK
  <2>4. UNCHANGED <<program, talks, identity>> BY <1>2 DEF Gate
  <2>5. PICK p \in {q, Idle} : Become(w, p) BY <1>2 DEF Gate
  <2>. HIDE DEF q
  <2>6. RequestOK(p) BY <2>2, <2>5, IdleOK
  <2>. QED BY <1>0, <1>t, <1>i, <2>3, <2>4, <2>5, <2>6, RequestsFrom DEF TypeOK
<1>3. ASSUME NEW w \in Workers, Freeze(w) PROVE TypeOK'
  <2>. DEFINE k      == workers[w].schedule
              native == [s \in Sessions |-> [talks[k][s] EXCEPT
                          !.visible = state[s] = "confirmed" /\ Placed(talks[k][s])]]
              public == [s \in Sessions |->
                          [talks[k][s] EXCEPT !.visible = Shown(w, s, talks[k][s])]]
  <2>1. /\ k = Wip /\ workers[w].pc = "freeze"
        /\ talks' = [j \in 1..(k + 1) |->
                       IF j < k THEN talks[j] ELSE IF j = k THEN public ELSE native]
        /\ Become(w, Idle) /\ UNCHANGED <<program, identity>>
    BY <1>0, <1>3, RequestByPc DEF Freeze, ReleaseOK
  <2>2. native \in Slots /\ public \in Slots
    <3>1. \A s \in Sessions : talks[k][s] \in Slot BY <1>0, <2>1, SlotType
    <3>. QED BY <3>1 DEF Slots, Slot, Shown
  <2>. HIDE DEF native, public, k
  <2>3. ASSUME NEW n, n = Wip + 1 PROVE Schedules(n)' BY <1>0, <2>1, <2>2, <2>3 DEF Schedules
  <2>4. ProgramOK' BY <1>0, <2>1, <2>3 DEF ProgramOK, program
  <2>5. Wip' = Wip + 1
    <3>1. PICK n : n = Wip + 1 OBVIOUS
    <3>2. DOMAIN talks' = 1..n /\ n \in Nat BY <2>3, <3>1 DEF Schedules
    <3>3. Cardinality(1..n) = n BY <3>2, FS_Interval
    <3>. QED BY <3>1, <3>2, <3>3 DEF Wip
  <2>6. /\ workers'[w] = Idle /\ DOMAIN workers' = Workers
        /\ \A v \in Workers \ {w} : workers'[v] = workers[v]
    BY <1>0, <2>1, OtherRequests
  <2>7. \A v \in Workers \ {w} : workers[v].pc \notin {"gate", "freeze"}
    BY <1>0, <2>1 DEF RequestsOK
  <2>8. ASSUME NEW v \in Workers
        PROVE  RequestOK(workers[v])' /\ workers'[v].pc \notin {"gate", "freeze"}
    <3>0. PICK r : r = workers'[v] OBVIOUS
    <3>. SUFFICES RequestOK(r)' /\ r.pc \notin {"gate", "freeze"} BY <3>0
    <3>1. CASE v = w BY <2>6, <3>0, <3>1, IdleOK DEF RequestOK
    <3>2. CASE v # w
      <4>1. r.pc \notin {"gate", "freeze"} /\ RequestOK(r)
        BY <1>0, <2>6, <2>7, <3>0, <3>2 DEF RequestsOK
      <4>2. ~ReleaseOK(r) BY <4>1 DEF ReleaseOK
      <4>3. CASE r = Idle BY <4>1, <4>3 DEF RequestOK
      <4>4. CASE ApplyOK(r)
        <5>1. ApplyOK(r)' BY <1>0, <2>5, <4>4, ApplyStays
        <5>. QED BY <4>1, <5>1 DEF RequestOK
      <4>5. CASE FeedOK(r) BY <4>1, <4>5 DEF RequestOK, FeedOK
      <4>. QED BY <4>1, <4>2, <4>3, <4>4, <4>5 DEF RequestOK
    <3>. QED BY <3>1, <3>2
  <2>9. RequestsOK' BY <2>6, <2>8 DEF RequestsOK
  <2>. QED BY <1>i, <2>1, <2>4, <2>9 DEF TypeOK
<1>4. ASSUME NEW w \in Workers, Die(w) PROVE TypeOK'
  <2>1. Become(w, Idle) /\ UNCHANGED <<program, talks, identity>> BY <1>4 DEF Die
  <2>. QED BY <1>0, <1>t, <1>i, <2>1, IdleOK, RequestsFrom DEF TypeOK
<1>5. ASSUME NEW w \in Workers, BeginApply(w) PROVE TypeOK'
  <2>. DEFINE q == [pc |-> "apply", schedule |-> Wip, at |-> Proposal(Wip).at]
  <2>1. UNCHANGED <<program, talks, identity>> BY <1>5 DEF BeginApply
  <2>2. PICK p \in {q, Idle} : Become(w, p) BY <1>5 DEF BeginApply
  <2>3. PlanOK(Proposal(Wip).at) BY <1>0, ProposalOK
  <2>4. ASSUME NEW at, PlanOK(at), NEW r, r = [pc |-> "apply", schedule |-> Wip, at |-> at]
        PROVE  RequestOK(r) /\ r.pc = "apply"
    BY <1>0, <2>4 DEF RequestOK, ApplyOK
  <2>5. RequestOK(p) /\ p.pc \notin {"gate", "freeze"}
    <3>1. RequestOK(q) /\ q.pc = "apply" BY <2>3, <2>4
    <3>. HIDE DEF q
    <3>. QED BY <2>2, <3>1, IdleOK
  <2>. HIDE DEF q
  <2>. QED BY <1>0, <1>t, <1>i, <2>1, <2>2, <2>5, RequestsFrom DEF TypeOK
<1>6. ASSUME NEW w \in Workers, Apply(w) PROVE TypeOK'
  <2>. DEFINE k   == workers[w].schedule
              at  == workers[w].at
              new == [s \in Sessions |->
                        IF s \in DOMAIN at
                        THEN [talks[k][s] EXCEPT !.start = at[s][1], !.room = at[s][2]]
                        ELSE talks[k][s]]
  <2>1. ApplyOK(workers[w]) BY <1>0, <1>6, RequestByPc DEF Apply
  <2>2. k \in 1..Wip /\ PlanOK(at) BY <2>1 DEF ApplyOK
  <2>3. talks' = [talks EXCEPT ![k] = new] BY <1>6 DEF Apply
  <2>4. Become(w, Idle) /\ UNCHANGED <<program, identity>> BY <1>6 DEF Apply
  <2>5. ASSUME NEW s \in Sessions PROVE new[s] \in Slot
    <3>1. talks[k][s] \in Slot BY <1>0, <2>2, SlotType
    <3>2. CASE s \in DOMAIN at
      <4>1. at[s] \in (1..DayEnd) \X Rooms BY <2>2, <3>2 DEF PlanOK
      <4>2. PICK t \in 1..DayEnd, r \in Rooms : at[s] = <<t, r>> BY <4>1
      <4>3. at[s][1] \in Nat /\ at[s][2] \in Nat BY <4>2, PlacesAssumption
      <4>. QED BY <3>1, <3>2, <4>3 DEF Slot
    <3>. QED BY <3>1, <3>2
  <2>6. new \in Slots BY <2>5 DEF Slots
  <2>. HIDE DEF new, k, at
  <2>7. \E n : Schedules(n)' BY <1>0, <2>2, <2>3, <2>6 DEF Schedules
  <2>8. ProgramOK' BY <1>0, <2>4, <2>7 DEF ProgramOK, program
  <2>9. Wip' = Wip BY <1>0, <2>3 DEF Wip
  <2>. QED BY <1>0, <1>i, <2>4, <2>8, <2>9, IdleOK, RequestsFrom DEF TypeOK
<1>7. ASSUME NEW w \in Workers, BeginFeed(w) PROVE TypeOK'
  <2>. DEFINE live  == {s \in Sessions : talks[Current][s].visible /\ approval[s] \in Feedable}
              slots == [s \in live |-> Fingerprint(s)]
              q     == [pc |-> "stamp", todo |-> live, row |-> <<>>, slots |-> slots]
  <2>1. Become(w, q) /\ UNCHANGED <<program, talks, identity>> BY <1>7 DEF BeginFeed
  <2>2. live \subseteq Sessions /\ DOMAIN slots = live /\ \A s \in live : slots[s] # Cancelled
    BY DEF Fingerprint, Cancelled
  <2>. HIDE DEF live, slots
  <2>3. RequestOK(q) /\ q.pc = "stamp" BY <2>2 DEF RequestOK, FeedOK
  <2>. HIDE DEF q
  <2>. QED BY <1>0, <1>t, <1>i, <2>1, <2>3, RequestsFrom DEF TypeOK
<1>8. ASSUME NEW w \in Workers, Stamp(w) PROVE TypeOK'
  <2>. DEFINE q == workers[w]
  <2>1. PICK s \in q.todo :
          IF identity[s].uid
          THEN /\ IF identity[s].fingerprint = q.slots[s]
                  THEN Become(w, [q EXCEPT !.todo = @ \ {s}])
                  ELSE Become(w, [q EXCEPT !.pc = "raise", !.row = <<s, identity[s].seq>>])
               /\ UNCHANGED identity
          ELSE /\ identity' = [identity EXCEPT ![s] =
                      [uid |-> TRUE, seq |-> 0, canceled |-> FALSE,
                       fingerprint |-> q.slots[s]]]
               /\ Become(w, [q EXCEPT !.todo = @ \ {s}])
    BY <1>8 DEF Stamp
  <2>2. q.pc = "stamp" /\ UNCHANGED <<program, talks>> BY <1>8 DEF Stamp
  <2>3. FeedOK(q) BY <1>0, <2>2, RequestByPc
  <2>4. s \in Sessions /\ s \in DOMAIN q.slots BY <2>1, <2>2, <2>3 DEF FeedOK
  <2>. DEFINE p1 == [q EXCEPT !.todo = @ \ {s}]
              p2 == [q EXCEPT !.pc = "raise", !.row = <<s, identity[s].seq>>]
  <2>5. RequestOK(p1) /\ p1.pc = "stamp" BY <2>2, <2>3 DEF RequestOK, FeedOK
  <2>6. RequestOK(p2) /\ p2.pc = "raise"
    <3>1. identity[s].seq \in Nat BY <1>0, <2>4 DEF IdentityOK
    <3>2. /\ p2.pc = "raise" /\ p2.todo = q.todo /\ p2.slots = q.slots
          /\ p2.row = <<s, identity[s].seq>> /\ DOMAIN p2 = {"pc", "todo", "row", "slots"}
      BY <2>3 DEF FeedOK
    <3>3. p2.row[1] = s /\ p2.row[2] = identity[s].seq BY <3>2
    <3>. HIDE DEF p2
    <3>. QED BY <2>1, <2>2, <2>3, <3>1, <3>2, <3>3 DEF RequestOK, FeedOK
  <2>7. PICK p \in {p1, p2} : Become(w, p) BY <2>1
  <2>8. IdentityOK'
    <3>1. CASE UNCHANGED identity BY <1>i, <3>1
    <3>2. CASE identity' = [identity EXCEPT ![s] =
                      [uid |-> TRUE, seq |-> 0, canceled |-> FALSE,
                       fingerprint |-> q.slots[s]]]
      BY <1>0, <2>4, <3>2 DEF IdentityOK
    <3>. QED BY <2>1, <3>1, <3>2
  <2>9. RequestOK(p) /\ p.pc \notin {"gate", "freeze"}
    <3>. HIDE DEF p1, p2
    <3>. QED BY <2>5, <2>6, <2>7
  <2>. HIDE DEF p1, p2
  <2>. QED BY <1>0, <1>t, <2>2, <2>7, <2>8, <2>9, RequestsFrom DEF TypeOK
<1>9. ASSUME NEW w \in Workers, Raise(w) PROVE TypeOK'
  <2>. DEFINE q == workers[w]
              s == q.row[1]
              p == [q EXCEPT !.pc = "stamp", !.todo = @ \ {s}]
  <2>1. /\ identity' = [identity EXCEPT ![s].seq = q.row[2] + 1,
                                        ![s].fingerprint = q.slots[s],
                                        ![s].canceled = FALSE]
        /\ q.pc = "raise" /\ Become(w, p) /\ UNCHANGED <<program, talks>>
    BY <1>9 DEF Raise
  <2>2. FeedOK(q) BY <1>0, <2>1, RequestByPc
  <2>3. s \in Sessions /\ q.row[2] \in Nat BY <2>1, <2>2 DEF FeedOK
  <2>4. RequestOK(p) /\ p.pc = "stamp"
    <3>1. /\ p.pc = "stamp" /\ p.todo = q.todo \ {s} /\ p.slots = q.slots
          /\ DOMAIN p = {"pc", "todo", "row", "slots"}
      BY <2>2 DEF FeedOK
    <3>. HIDE DEF p
    <3>. QED BY <2>1, <2>2, <3>1 DEF RequestOK, FeedOK
  <2>5. IdentityOK'
    <3>1. DOMAIN identity' = Sessions /\ \A t \in Sessions \ {s} : identity'[t] = identity[t]
      BY <1>0, <2>1, <2>3 DEF IdentityOK
    <3>2. /\ DOMAIN identity'[s] = {"uid", "seq", "canceled", "fingerprint"}
          /\ identity'[s].seq = q.row[2] + 1 /\ identity'[s].uid = identity[s].uid
          /\ identity'[s].canceled = FALSE
      BY <1>0, <2>1, <2>3 DEF IdentityOK
    <3>3. /\ identity'[s].seq \in Nat /\ identity'[s].uid \in BOOLEAN
          /\ identity'[s].canceled \in BOOLEAN
      <4>1. identity'[s].seq \in Nat BY <2>3, <3>2
      <4>2. identity[s].uid \in BOOLEAN BY <1>0, <2>3 DEF IdentityOK
      <4>3. identity'[s].uid \in BOOLEAN BY <3>2, <4>2
      <4>4. identity'[s].canceled \in BOOLEAN BY <3>2
      <4>. QED BY <4>1, <4>3, <4>4
    <3>. QED BY <1>0, <2>3, <3>1, <3>2, <3>3, IdentityStays
  <2>. HIDE DEF p
  <2>. QED BY <1>0, <1>t, <2>1, <2>4, <2>5, RequestsFrom DEF TypeOK
<1>10. ASSUME NEW w \in Workers, Leftovers(w) PROVE TypeOK'
  <2>. DEFINE q    == workers[w]
              left == {s \in Sessions : identity[s].uid /\ ~identity[s].canceled} \ DOMAIN q.slots
              seqs == [s \in Sessions |-> identity[s].seq]
              p    == [q EXCEPT !.pc = "cancel", !.todo = left, !.row = seqs]
  <2>1. q.pc = "stamp" /\ Become(w, p) /\ UNCHANGED <<program, talks, identity>>
    BY <1>10 DEF Leftovers
  <2>2. FeedOK(q) BY <1>0, <2>1, RequestByPc
  <2>3. seqs \in [Sessions -> Nat] /\ left \subseteq Sessions /\ left \cap DOMAIN q.slots = {}
    BY <1>0 DEF IdentityOK
  <2>. HIDE DEF left, seqs
  <2>4. RequestOK(p) /\ p.pc = "cancel"
    <3>1. /\ p.pc = "cancel" /\ p.todo = left /\ p.row = seqs /\ p.slots = q.slots
          /\ DOMAIN p = {"pc", "todo", "row", "slots"}
      BY <2>2 DEF FeedOK
    <3>. HIDE DEF p
    <3>. QED BY <2>2, <2>3, <3>1 DEF RequestOK, FeedOK
  <2>. HIDE DEF p
  <2>. QED BY <1>0, <1>t, <1>i, <2>1, <2>4, RequestsFrom DEF TypeOK
<1>11. ASSUME NEW w \in Workers, Cancel(w) PROVE TypeOK'
  <2>. DEFINE q == workers[w]
  <2>1. PICK s \in q.todo :
          /\ identity' = [identity EXCEPT ![s].seq = q.row[s] + 1, ![s].canceled = TRUE]
          /\ Become(w, [q EXCEPT !.todo = @ \ {s}])
    BY <1>11 DEF Cancel
  <2>2. q.pc = "cancel" /\ UNCHANGED <<program, talks>> BY <1>11 DEF Cancel
  <2>3. FeedOK(q) BY <1>0, <2>2, RequestByPc
  <2>4. s \in Sessions /\ q.row[s] \in Nat BY <2>2, <2>3 DEF FeedOK
  <2>. DEFINE p == [q EXCEPT !.todo = @ \ {s}]
  <2>5. RequestOK(p) /\ p.pc = "cancel" BY <2>2, <2>3 DEF RequestOK, FeedOK
  <2>6. IdentityOK'
    <3>1. DOMAIN identity' = Sessions /\ \A t \in Sessions \ {s} : identity'[t] = identity[t]
      BY <1>0, <2>1, <2>4 DEF IdentityOK
    <3>2. /\ DOMAIN identity'[s] = {"uid", "seq", "canceled", "fingerprint"}
          /\ identity'[s].seq = q.row[s] + 1 /\ identity'[s].uid = identity[s].uid
          /\ identity'[s].canceled = TRUE
      BY <1>0, <2>1, <2>4 DEF IdentityOK
    <3>3. /\ identity'[s].seq \in Nat /\ identity'[s].uid \in BOOLEAN
          /\ identity'[s].canceled \in BOOLEAN
      <4>1. identity'[s].seq \in Nat BY <2>4, <3>2
      <4>2. identity[s].uid \in BOOLEAN BY <1>0, <2>4 DEF IdentityOK
      <4>3. identity'[s].uid \in BOOLEAN BY <3>2, <4>2
      <4>4. identity'[s].canceled \in BOOLEAN BY <3>2
      <4>. QED BY <4>1, <4>3, <4>4
    <3>. QED BY <1>0, <2>4, <3>1, <3>2, <3>3, IdentityStays
  <2>7. Become(w, p) BY <2>1
  <2>. HIDE DEF p
  <2>. QED BY <1>0, <1>t, <2>2, <2>5, <2>6, <2>7, RequestsFrom DEF TypeOK
<1>12. ASSUME NEW w \in Workers, Serve(w) PROVE TypeOK'
  <2>1. Become(w, Idle) /\ UNCHANGED <<program, talks, identity>> BY <1>12 DEF Serve
  <2>. QED BY <1>0, <1>t, <1>i, <2>1, IdleOK, RequestsFrom DEF TypeOK
<1>13. ASSUME NEW s \in Sessions, NEW slot \in Slot,
              talks' = [talks EXCEPT ![Wip] = [@ EXCEPT ![s] = slot]],
              state' \in [Sessions -> States], UNCHANGED <<approval, workers, identity>>
       PROVE  TypeOK'
  <2>1. \E n : Schedules(n)'
    <3>1. talks' \in [1..Wip -> Slots] BY <1>0, <1>13 DEF Slots
    <3>. QED BY <1>0, <3>1 DEF Schedules
  <2>2. Wip' = Wip BY <1>0, <1>13 DEF Wip
  <2>3. ProgramOK' BY <1>0, <1>13, <2>1 DEF ProgramOK
  <2>. QED BY <1>i, <1>w, <1>13, <2>2, <2>3 DEF TypeOK
<1>14. ASSUME NEW s \in Sessions, Move(s) PROVE TypeOK'
  <2>1. PICK t \in 0..DayEnd, r \in Rooms :
          talks' = [talks EXCEPT ![Wip][s].start = t, ![Wip][s].room = IF t = 0 THEN 0 ELSE r]
    BY <1>14 DEF Move
  <2>. DEFINE slot == [talks[Wip][s] EXCEPT !.start = t, !.room = IF t = 0 THEN 0 ELSE r]
  <2>2. talks[Wip][s] \in Slot BY <1>0, SlotType
  <2>3. slot \in Slot
    <3>1. t \in Nat /\ (IF t = 0 THEN 0 ELSE r) \in Nat BY PlacesAssumption
    <3>. QED BY <2>2, <3>1 DEF Slot
  <2>4. talks' = [talks EXCEPT ![Wip] = [@ EXCEPT ![s] = slot]] BY <1>0, <2>1, <2>2 DEF Slots, Slot
  <2>5. UNCHANGED <<state, approval, workers, identity>> BY <1>14 DEF Move, Change, program
  <2>6. state' \in [Sessions -> States] BY <1>0, <2>5 DEF ProgramOK
  <2>. HIDE DEF slot
  <2>. QED BY <1>13, <2>3, <2>4, <2>5, <2>6
<1>15. ASSUME NEW s \in Sessions, Confirm(s) PROVE TypeOK'
  <2>1. /\ state' = [state EXCEPT ![s] = "confirmed"]
        /\ UNCHANGED <<approval, talks, workers, identity>>
    BY <1>15 DEF Confirm, Change
  <2>2. ProgramOK' BY <1>0, <2>1 DEF ProgramOK, Schedules, States
  <2>. QED BY <1>0, <1>a, <1>i, <1>w, <2>1, <2>2 DEF TypeOK
<1>16. ASSUME NEW s \in Sessions, Withdraw(s) PROVE TypeOK'
  <2>1. /\ state' = [state EXCEPT ![s] = "withdrawn"]
        /\ talks' = [talks EXCEPT ![Wip][s] = Unplaced]
        /\ UNCHANGED <<approval, workers, identity>>
    BY <1>16 DEF Withdraw, Change
  <2>2. Unplaced \in Slot BY DEF Unplaced, Slot
  <2>3. state' \in [Sessions -> States] BY <1>0, <2>1 DEF ProgramOK, States
  <2>4. talks' = [talks EXCEPT ![Wip] = [@ EXCEPT ![s] = Unplaced]] BY <2>1
  <2>. QED BY <1>13, <2>1, <2>2, <2>3, <2>4
<1>17. ASSUME NEW s \in Sessions, Approve(s) PROVE TypeOK'
  <2>1. /\ \E status \in Statuses : approval' = [approval EXCEPT ![s] = status]
        /\ UNCHANGED <<state, talks, workers, identity>>
    BY <1>17 DEF Approve, Change, Statuses
  <2>2. ProgramOK' BY <1>0, <2>1 DEF ProgramOK, Schedules
  <2>. QED BY <1>0, <1>a, <1>i, <1>w, <2>1, <2>2 DEF TypeOK
<1>18. ASSUME NEW s \in Sessions, Retitle(s) PROVE TypeOK'
  <2>1. UNCHANGED <<state, approval, talks, workers, identity>> BY <1>18 DEF Retitle, Change
  <2>2. ProgramOK' BY <1>0, <2>1 DEF ProgramOK, Schedules
  <2>. QED BY <1>0, <1>a, <1>i, <1>w, <2>1, <2>2 DEF TypeOK
<1>19. ASSUME UNCHANGED vars PROVE TypeOK'
  BY <1>0, <1>t, <1>i, <1>w, <1>19 DEF vars, TypeOK
<1>. QED
  BY <1>1, <1>2, <1>3, <1>4, <1>5, <1>6, <1>7, <1>8, <1>9, <1>10, <1>11, <1>12, <1>14,
     <1>15, <1>16, <1>17, <1>18, <1>19 DEF Next

LEMMA InitTypes == Init => TypeOK
<1>. SUFFICES ASSUME Init PROVE TypeOK OBVIOUS
<1>1. Schedules(1)
  <2>1. [s \in Sessions |-> Unplaced] \in Slots BY DEF Slots, Slot, Unplaced
  <2>. QED BY <2>1 DEF Init, Schedules
<1>2. ProgramOK BY <1>1 DEF Init, ProgramOK, States, Statuses
<1>3. IdentityOK BY DEF Init, IdentityOK
<1>4. RequestsOK BY IdleOK DEF Init, RequestsOK
<1>. QED BY <1>2, <1>3, <1>4 DEF TypeOK

\* Every variable keeps its shape; a request holds what its step needs, at most
\* one release is between its gate and its freeze, and a proposal in hand
\* respects the day, the rooms and the speakers.
THEOREM TypeCorrect == Spec => []TypeOK
<1>1. TypeOK /\ [Next]_vars => TypeOK' BY StepTypes
<1>. QED BY InitTypes, <1>1, PTL DEF Spec

-----------------------------------------------------------------------------
(* Assisted placement and public pages.                                     *)

LEMMA TypesClear ==
    TypeOK => ProposalIsClear
<1>. SUFFICES ASSUME TypeOK, NEW w \in Workers, workers[w].pc = "apply"
              PROVE  LET at    == workers[w].at
                         slots == [s \in DOMAIN at |-> [start |-> at[s][1], room |-> at[s][2]]]
                     IN \A a \in DOMAIN at :
                          /\ at[a][1] + Length[a] - 1 <= DayEnd
                          /\ \A b \in DOMAIN at : ~Clash(slots, a, b)
  BY DEF ProposalIsClear
<1>. DEFINE at    == workers[w].at
            slots == [s \in DOMAIN at |-> [start |-> at[s][1], room |-> at[s][2]]]
<1>1. PlanOK(at) BY RequestByPc DEF TypeOK, ApplyOK
<1>. HIDE DEF at
<1>2. ASSUME NEW a \in DOMAIN at
      PROVE  /\ at[a][1] \in Nat /\ at[a][2] \in Nat /\ Length[a] \in Nat /\ DayEnd \in Nat
             /\ at[a][1] + Length[a] <= DayEnd + 1
  <2>1. /\ a \in Sessions /\ at[a] \in (1..DayEnd) \X Rooms
        /\ at[a][1] + Length[a] <= DayEnd + 1
    BY <1>1 DEF PlanOK
  <2>2. PICK t \in 1..DayEnd, r \in Rooms : at[a] = <<t, r>> BY <2>1
  <2>. QED BY <2>1, <2>2, PlacesAssumption, SessionsAssumption
<1>3. ASSUME NEW a \in DOMAIN at, NEW b \in DOMAIN at, Clash(slots, a, b) PROVE FALSE
  <2>1. /\ a # b /\ slots[a].start < slots[b].start + Length[b]
        /\ slots[b].start < slots[a].start + Length[a]
        /\ slots[a].room = slots[b].room \/ SharedSpeaker(a, b)
    BY <1>3 DEF Clash, Overlap, End
  <2>2. /\ slots[a].start = at[a][1] /\ slots[b].start = at[b][1]
        /\ slots[a].room = at[a][2] /\ slots[b].room = at[b][2]
    OBVIOUS
  <2>3. at[b][2] = at[a][2] \/ SharedSpeaker(a, b) BY <2>1, <2>2
  <2>. QED BY <1>1, <2>1, <2>2, <2>3 DEF PlanOK
<1>4. \A a \in DOMAIN at : at[a][1] + Length[a] - 1 <= DayEnd BY <1>2
<1>. QED BY <1>3, <1>4 DEF at

\* A proposal that is to be applied places its sessions within the day and no
\* two in each other's way: the solver of auto_schedule.py takes sessions one by
\* one and each at a place that is free of all before it.
THEOREM ProposalClear == Spec => []ProposalIsClear
BY TypeCorrect, TypesClear, PTL

LEMMA TypesAgree ==
    TypeOK => SurfacesAgree
<1>. SUFFICES ASSUME TypeOK, Current > 0 PROVE SurfacesAgree BY DEF SurfacesAgree
<1>1. EmbedSlots = PublicSlots
  BY DEF TypeOK, ProgramOK, Statuses, EmbedSlots, PublicSlots, Feedable
<1>2. EmbedSlots = UNION {SessionPage(s) : s \in Sessions}
  BY <1>1 DEF SessionPage, PublicSlots
<1>3. EmbedSlots = SelectedCalendar(Sessions) BY DEF EmbedSlots, SelectedCalendar
<1>4. \A p : p \in DOMAIN Cards(PublicSlots) => SpeakerPage(p) = Cards(PublicSlots)[p]
  BY DEF SpeakerPage
<1>5. ASSUME NEW s \in EmbedSlots, NEW p \in SpeakersOf[s] PROVE s \in SpeakerPage(p)
  <2>1. p \in DOMAIN Cards(PublicSlots) BY <1>1 DEF Cards
  <2>2. SpeakerPage(p) = {t \in PublicSlots : p \in SpeakersOf[t]}
    BY <2>1 DEF SpeakerPage, Cards
  <2>. QED BY <1>1, <2>2
<1>6. PublicSlots = UNION {InRoom(PublicSlots, r) : r \in Rooms \cup {0}}
  <2>1. InRoom(PublicSlots, 0) = PublicSlots BY DEF InRoom
  <2>2. \A r : InRoom(PublicSlots, r) \subseteq PublicSlots BY DEF InRoom
  <2>3. InRoom(PublicSlots, 0) \in {InRoom(PublicSlots, r) : r \in Rooms \cup {0}} OBVIOUS
  <2>. QED BY <2>1, <2>2, <2>3
<1>. QED BY <1>1, <1>2, <1>3, <1>4, <1>5, <1>6 DEF SurfacesAgree

\* Pages, embeds, galleries and personal calendars show the same sessions,
\* whatever approvals, releases and changes came before.
THEOREM SameSurfaces == Spec => []SurfacesAgree
BY TypeCorrect, TypesAgree, PTL

-----------------------------------------------------------------------------
(* The public schedule.  Between the gate and the freeze the gate's finding  *)
(* holds, or a write came late.                                             *)

GateHolds ==
    \A w \in Workers : workers[w].pc = "freeze" /\ Wip \notin late => Warnings(Wip) = {}
ClearInv == GateHolds /\ PublishedIsClear

LEMMA SameWarnings ==
    ASSUME NEW k, talks'[k] = talks[k],
           \A s \in Sessions : state'[s] \in Accepted <=> state[s] \in Accepted
    PROVE  Warnings(k)' = Warnings(k)
<1>1. Considered(k)' = Considered(k) BY DEF Considered
<1>. QED BY <1>1 DEF Warnings

\* A step that leaves the public schedules alone, or is late in them, and that
\* leaves the working one alone, or is late in it, or stops the release.
LEMMA ClearFrame ==
    ASSUME TypeOK, ClearInv, NEW n, n = Wip, Wip' = n,
           \A k \in 1..(n - 1) :
               k \in late' \/ (k \notin late /\ talks'[k] = talks[k]),
           \A w \in Workers : workers'[w].pc = "freeze" =>
               n \in late' \/ Warnings(n)' = {}
    PROVE  ClearInv'
<1>1. GateHolds' BY DEF GateHolds
<1>2. Current = n - 1 /\ Current' = n - 1 BY DEF Current
<1>3. PublishedIsClear' BY <1>2 DEF ClearInv, PublishedIsClear, Clash
<1>. QED BY <1>1, <1>3 DEF ClearInv

\* A step of which no release knows.
LEMMA ClearQuiet ==
    ASSUME TypeOK, ClearInv, UNCHANGED <<talks, late>>,
           \A s \in Sessions : state'[s] \in Accepted <=> state[s] \in Accepted,
           \A w \in Workers : workers'[w].pc = "freeze" => workers[w].pc = "freeze"
    PROVE  ClearInv'
<1>1. PICK n : n = Wip OBVIOUS
<1>2. Wip' = n BY <1>1 DEF Wip
<1>3. Warnings(n)' = Warnings(n) BY SameWarnings
<1>4. \A w \in Workers : workers'[w].pc = "freeze" => n \in late' \/ Warnings(n)' = {}
  BY <1>1, <1>3 DEF ClearInv, GateHolds
<1>5. \A k \in 1..(n - 1) : k \in late' \/ (k \notin late /\ talks'[k] = talks[k]) OBVIOUS
<1>. QED BY <1>1, <1>2, <1>4, <1>5, ClearFrame

\* The steps of a request that is not a release.
LEMMA FeedMoves ==
    ASSUME TypeOK, NEW w \in Workers,
           Stamp(w) \/ Raise(w) \/ Leftovers(w) \/ Cancel(w)
    PROVE  \E q : Become(w, q) /\ q.pc \in {"stamp", "raise", "cancel"}
<1>1. workers[w].pc \in {"stamp", "raise", "cancel"} BY DEF Stamp, Raise, Leftovers, Cancel
<1>2. FeedOK(workers[w]) BY <1>1, RequestByPc DEF TypeOK
<1>3. DOMAIN workers[w] = {"pc", "todo", "row", "slots"} BY <1>2 DEF FeedOK
<1>4. CASE Stamp(w)
  <2>1. PICK s : \/ Become(w, [workers[w] EXCEPT !.todo = @ \ {s}])
                 \/ Become(w, [workers[w] EXCEPT !.pc = "raise", !.row = <<s, identity[s].seq>>])
    BY <1>4 DEF Stamp
  <2>2. [workers[w] EXCEPT !.todo = @ \ {s}].pc = workers[w].pc BY <1>3
  <2>3. [workers[w] EXCEPT !.pc = "raise", !.row = <<s, identity[s].seq>>].pc = "raise"
    BY <1>3
  <2>. QED BY <1>1, <2>1, <2>2, <2>3
<1>5. CASE Raise(w)
  <2>1. PICK t : Become(w, [workers[w] EXCEPT !.pc = "stamp", !.todo = t]) BY <1>5 DEF Raise
  <2>2. [workers[w] EXCEPT !.pc = "stamp", !.todo = t].pc = "stamp" BY <1>3
  <2>. QED BY <2>1, <2>2
<1>6. CASE Leftovers(w)
  <2>1. PICK t, r : Become(w, [workers[w] EXCEPT !.pc = "cancel", !.todo = t, !.row = r])
    BY <1>6 DEF Leftovers
  <2>2. [workers[w] EXCEPT !.pc = "cancel", !.todo = t, !.row = r].pc = "cancel" BY <1>3
  <2>. QED BY <2>1, <2>2
<1>7. CASE Cancel(w) BY <1>1, <1>3, <1>7 DEF Cancel
<1>. QED BY <1>4, <1>5, <1>6, <1>7

LEMMA StepClear ==
    ASSUME TypeOK, ClearInv, [Next]_vars
    PROVE  ClearInv'
<1>0. /\ Wip \in Nat \ {0} /\ talks \in [1..Wip -> Slots] /\ Current = Wip - 1
      /\ ProgramOK /\ RequestsOK
  BY WipType DEF TypeOK
<1>. USE <1>0
\* One request moves on to something that is no freeze.
<1>q. ASSUME NEW w \in Workers, NEW q, Become(w, q), q.pc # "freeze",
             UNCHANGED <<program, talks, late>>
      PROVE  ClearInv'
  <2>1. \A v \in Workers : workers'[v].pc = "freeze" => workers[v].pc = "freeze"
    BY <1>q, OtherRequests
  <2>. QED BY <1>q, <2>1, ClearQuiet DEF program
<1>1. ASSUME NEW w \in Workers, NEW by \in {"speakerops", "pretalx"}, BeginRelease(w, by)
      PROVE  ClearInv'
  BY <1>1, <1>q DEF BeginRelease
<1>2. ASSUME NEW w \in Workers, Gate(w) PROVE ClearInv'
  <2>1. ReleaseOK(workers[w]) BY <1>2, RequestByPc DEF Gate
  <2>2. workers[w].schedule = Wip BY <2>1 DEF ReleaseOK
  <2>3. UNCHANGED <<program, talks>> BY <1>2 DEF Gate
  <2>4. CASE Become(w, Idle) /\ UNCHANGED late BY <2>3, <2>4, <1>q, IdleOK
  <2>5. CASE Warnings(workers[w].schedule) = {} /\ late' = late \ {workers[w].schedule}
    <3>1. PICK n : n = Wip OBVIOUS
    <3>2. Wip' = n BY <2>3, <3>1 DEF Wip
    <3>3. Warnings(n)' = Warnings(n) BY <2>3, SameWarnings DEF program
    <3>4. \A k \in 1..(n - 1) : k \in late' \/ (k \notin late /\ talks'[k] = talks[k])
      BY <2>2, <2>3, <2>5, <3>1
    <3>. QED BY <2>2, <2>5, <3>1, <3>2, <3>3, <3>4, ClearFrame
  <2>. QED BY <1>2, <2>4, <2>5 DEF Gate
<1>3. ASSUME NEW w \in Workers, Freeze(w) PROVE ClearInv'
  <2>. DEFINE k      == workers[w].schedule
              public == [s \in Sessions |->
                          [talks[k][s] EXCEPT !.visible = Shown(w, s, talks[k][s])]]
  <2>1. /\ k = Wip /\ workers[w].pc = "freeze" /\ Become(w, Idle)
        /\ UNCHANGED <<program, late>>
    BY <1>3, RequestByPc DEF Freeze, ReleaseOK
  <2>2. /\ DOMAIN talks' = 1..(k + 1) /\ talks'[k] = public
        /\ \A j \in 1..(k - 1) : talks'[j] = talks[j]
    <3>1. PICK native : talks' = [j \in 1..(k + 1) |->
                          IF j < k THEN talks[j] ELSE IF j = k THEN public ELSE native]
      BY <1>3 DEF Freeze
    <3>. HIDE DEF public
    <3>. QED BY <2>1, <3>1
  <2>. HIDE DEF public
  <2>3. \A v \in Workers : workers'[v].pc # "freeze"
    <3>1. /\ workers'[w] = Idle /\ \A v \in Workers \ {w} : workers'[v] = workers[v]
      BY <2>1, OtherRequests
    <3>2. \A v \in Workers \ {w} : workers[v].pc \notin {"gate", "freeze"}
      BY <2>1 DEF RequestsOK
    <3>. QED BY <3>1, <3>2, IdleOK
  <2>4. Current' = k
    <3>1. PICK n : n = k + 1 OBVIOUS
    <3>2. n \in Nat /\ DOMAIN talks' = 1..n BY <2>1, <2>2, <3>1
    <3>3. Cardinality(1..n) = n BY <3>2, FS_Interval
    <3>. QED BY <2>1, <3>1, <3>2, <3>3 DEF Current, Wip
  <2>5. ASSUME k \notin late, NEW a \in Sessions, NEW b \in Sessions,
               public[a].visible, public[b].visible, Clash(public, a, b)
        PROVE  FALSE
    <3>1. \A s \in Sessions : /\ public[s].start = talks[k][s].start
                              /\ public[s].room = talks[k][s].room
                              /\ public[s].visible = Shown(w, s, talks[k][s])
      BY <2>1, SlotType DEF public, Slot
    <3>2. Clash(talks[k], a, b) BY <2>5, <3>1 DEF Clash, Placed, Overlap, End
    <3>3. a \in Considered(k) /\ b \in Considered(k)
      BY <2>5, <3>1, <3>2 DEF Clash, Considered, Shown, Accepted
    <3>4. Warnings(k) = {} BY <2>1, <2>5 DEF ClearInv, GateHolds
    <3>5. k \in 1..Wip BY <2>1
    <3>. HIDE DEF k
    <3>. QED BY <3>2, <3>3, <3>4, <3>5, SweepComplete
  <2>6. PublishedIsClear'
    <3>1. ASSUME NEW j \in 1..Current', j \notin late', NEW a \in Sessions, NEW b \in Sessions,
                 talks'[j][a].visible, talks'[j][b].visible, Clash(talks'[j], a, b)
          PROVE  FALSE
      <4>1. j \notin late BY <2>1, <3>1
      <4>2. CASE j = k BY <2>2, <2>5, <3>1, <4>1, <4>2
      <4>3. CASE j # k
        <5>1. j \in 1..Current /\ talks'[j] = talks[j] BY <2>1, <2>2, <2>4, <4>3
        <5>. QED BY <3>1, <4>1, <5>1 DEF ClearInv, PublishedIsClear
      <4>. QED BY <4>2, <4>3
    <3>2. ASSUME NEW slots, NEW a, NEW b PROVE Clash(slots, a, b)' <=> Clash(slots, a, b)
      BY DEF Clash, Placed, Overlap, End, SharedSpeaker
    <3>. QED BY <3>1, <3>2 DEF PublishedIsClear
  <2>. QED BY <2>3, <2>6 DEF ClearInv, GateHolds
<1>4. ASSUME NEW w \in Workers, Die(w) PROVE ClearInv'
  <2>1. Become(w, Idle) /\ UNCHANGED <<program, talks>> BY <1>4 DEF Die
  <2>2. CASE workers[w].pc = "freeze"
    <3>1. PICK n : n = Wip OBVIOUS
    <3>2. late' = late \ {n}
      <4>1. ReleaseOK(workers[w]) BY <2>2, RequestByPc
      <4>. QED BY <1>4, <2>2, <3>1, <4>1 DEF Die, ReleaseOK
    <3>3. Wip' = n BY <2>1, <3>1 DEF Wip
    <3>4. \A v \in Workers : workers'[v].pc # "freeze"
      <4>1. /\ workers'[w] = Idle /\ \A v \in Workers \ {w} : workers'[v] = workers[v]
        BY <2>1, OtherRequests
      <4>2. \A v \in Workers \ {w} : workers[v].pc \notin {"gate", "freeze"}
        BY <2>2 DEF RequestsOK
      <4>. QED BY <4>1, <4>2, IdleOK
    <3>5. \A k \in 1..(n - 1) : k \in late' \/ (k \notin late /\ talks'[k] = talks[k])
      BY <2>1, <3>1, <3>2
    <3>. QED BY <3>1, <3>3, <3>4, <3>5, ClearFrame
  <2>3. CASE workers[w].pc # "freeze"
    <3>1. UNCHANGED late BY <1>4, <2>3 DEF Die
    <3>. QED BY <2>1, <3>1, <1>q, IdleOK
  <2>. QED BY <2>2, <2>3
<1>5. ASSUME NEW w \in Workers, BeginApply(w) PROVE ClearInv'
  <2>. DEFINE q == [pc |-> "apply", schedule |-> Wip, at |-> Proposal(Wip).at]
  <2>1. PICK p \in {q, Idle} : Become(w, p) BY <1>5 DEF BeginApply
  <2>2. p.pc # "freeze" BY <2>1, IdleOK
  <2>. QED BY <1>5, <2>1, <2>2, <1>q DEF BeginApply
\* A write to the slots of schedule n, and of no other, that tells if it is late.
<1>l. ASSUME NEW k \in 1..Wip, Late(k), Wip' = Wip,
             \A j \in 1..Wip : j # k => talks'[j] = talks[j],
             \A v \in Workers : workers'[v].pc = "freeze" => workers[v].pc = "freeze",
             k # Wip => UNCHANGED state
      PROVE  ClearInv'
  <2>1. PICK n : n = Wip OBVIOUS
  <2>2. Wip' = n BY <1>l, <2>1
  <2>3. \A j \in 1..(n - 1) : j \in late' \/ (j \notin late /\ talks'[j] = talks[j])
    BY <1>l, <2>1 DEF Late
  <2>4. ASSUME NEW v \in Workers, workers'[v].pc = "freeze", n \notin late'
        PROVE  Warnings(n)' = {}
    <3>1. workers[v].pc = "freeze" BY <1>l, <2>4
    <3>2. k # n /\ n \notin late BY <1>l, <2>1, <2>4, <3>1 DEF Late
    <3>3. talks'[n] = talks[n] /\ UNCHANGED state BY <1>l, <2>1, <3>2
    <3>4. Warnings(n)' = Warnings(n) BY <3>3, SameWarnings
    <3>. QED BY <2>1, <3>1, <3>2, <3>4 DEF ClearInv, GateHolds
  <2>. QED BY <2>1, <2>2, <2>3, <2>4, ClearFrame
<1>6. ASSUME NEW w \in Workers, Apply(w) PROVE ClearInv'
  <2>1. workers[w].pc = "apply" /\ Become(w, Idle) /\ UNCHANGED program BY <1>6 DEF Apply
  <2>2. PICK k : k = workers[w].schedule OBVIOUS
  <2>3. k \in 1..Wip
    <3>1. ApplyOK(workers[w]) BY <2>1, RequestByPc
    <3>. QED BY <2>2, <3>1 DEF ApplyOK
  <2>4. Late(k) /\ \E new : talks' = [talks EXCEPT ![k] = new] BY <1>6, <2>2 DEF Apply
  <2>5. Wip' = Wip /\ \A j \in 1..Wip : j # k => talks'[j] = talks[j] BY <2>4 DEF Wip
  <2>6. \A v \in Workers : workers'[v].pc = "freeze" => workers[v].pc = "freeze"
    BY <2>1, OtherRequests, IdleOK
  <2>. QED BY <1>l, <2>1, <2>3, <2>4, <2>5, <2>6 DEF program
<1>7. ASSUME NEW w \in Workers, BeginFeed(w) PROVE ClearInv'
  <2>1. PICK q : Become(w, q) /\ q.pc = "stamp" BY <1>7 DEF BeginFeed
  <2>2. q.pc # "freeze" BY <2>1
  <2>3. UNCHANGED <<program, talks, late>> BY <1>7 DEF BeginFeed
  <2>. QED BY <2>1, <2>2, <2>3, <1>q
<1>8. ASSUME NEW w \in Workers, Stamp(w) \/ Raise(w) \/ Leftovers(w) \/ Cancel(w)
      PROVE  ClearInv'
  <2>1. PICK q : Become(w, q) /\ q.pc \in {"stamp", "raise", "cancel"} BY <1>8, FeedMoves
  <2>2. q.pc # "freeze" BY <2>1
  <2>3. UNCHANGED <<program, talks, late>> BY <1>8 DEF Stamp, Raise, Leftovers, Cancel
  <2>. QED BY <2>1, <2>2, <2>3, <1>q
<1>9. ASSUME NEW w \in Workers, Serve(w) PROVE ClearInv'
  <2>1. Become(w, Idle) /\ UNCHANGED <<program, talks, late>> BY <1>9 DEF Serve
  <2>. QED BY <2>1, <1>q, IdleOK
<1>10. ASSUME NEW s \in Sessions, Move(s) \/ Withdraw(s) PROVE ClearInv'
  <2>1. Late(Wip) /\ UNCHANGED workers BY <1>10 DEF Move, Withdraw, Change
  <2>2. \E new : talks' = [talks EXCEPT ![Wip] = new] BY <1>10 DEF Move, Withdraw
  <2>3. PICK k : k = Wip OBVIOUS
  <2>4. /\ Wip' = Wip /\ k \in 1..Wip /\ Late(k)
        /\ \A j \in 1..Wip : j # k => talks'[j] = talks[j]
    BY <2>1, <2>2, <2>3 DEF Wip
  <2>. QED BY <1>l, <2>1, <2>3, <2>4
<1>11. ASSUME NEW s \in Sessions, Confirm(s) \/ Approve(s) \/ Retitle(s) PROVE ClearInv'
  <2>1. UNCHANGED <<talks, late, workers>> BY <1>11 DEF Confirm, Approve, Retitle, Change
  <2>2. \A t \in Sessions : state'[t] \in Accepted <=> state[t] \in Accepted
    BY <1>11 DEF Confirm, Approve, Retitle, ProgramOK, Accepted
  <2>. QED BY <2>1, <2>2, ClearQuiet
<1>12. ASSUME UNCHANGED vars PROVE ClearInv'
  BY <1>12, ClearQuiet DEF vars, program
<1>. QED
  BY <1>1, <1>2, <1>3, <1>4, <1>5, <1>6, <1>7, <1>8, <1>9, <1>10, <1>11, <1>12 DEF Next

LEMMA InitClear == Init => ClearInv
<1>. SUFFICES ASSUME Init PROVE ClearInv OBVIOUS
<1>1. \A w \in Workers : workers[w].pc = "idle" BY IdleOK DEF Init
<1>2. Schedules(1)
  <2>1. [s \in Sessions |-> Unplaced] \in Slots BY DEF Slots, Slot, Unplaced
  <2>. QED BY <2>1 DEF Init, Schedules
<1>3. Current = 0 BY <1>2, Schedule
<1>. QED BY <1>1, <1>3 DEF ClearInv, GateHolds, PublishedIsClear

\* The public schedule is free of conflicts unless a write came after the gate's
\* last read.  Inductive is GateHolds with it: a release that is past its gate
\* would pass it again as long as no write was late.
THEOREM PublishedClear == Spec => []PublishedIsClear
<1>1. TypeOK /\ ClearInv /\ [Next]_vars => ClearInv' BY StepClear
<1>2. Spec => []ClearInv BY TypeCorrect, InitClear, <1>1, PTL DEF Spec
<1>. QED BY <1>2, PTL DEF ClearInv

-----------------------------------------------------------------------------
(* The calendar feed.  What a request knows of the identity i of session s,  *)
(* whatever other requests do to it meanwhile.                               *)

\* A row that is to be raised is as it was read, or another request has raised
\* it already; a session that is through has the content that was read; an
\* identity that is to be canceled is as it was read or canceled already.
Knows(i, q, s) ==
    /\ q.pc = "raise" /\ q.row[1] = s =>
         /\ i.uid
         /\ \/ i.seq = q.row[2] /\ i.fingerprint # q.slots[s]
            \/ i.seq = q.row[2] + 1 /\ i.fingerprint = q.slots[s]
    /\ s \in DOMAIN q.slots /\ s \notin q.todo => i.uid /\ i.fingerprint = q.slots[s]
    /\ q.pc = "cancel" /\ s \in q.todo =>
         /\ i.uid
         /\ \/ i.seq = q.row[s] /\ ~i.canceled
            \/ i.seq = q.row[s] + 1 /\ i.canceled

\* No client has a live event of a later sequence, nor another content under
\* the sequence of the identity.
NotAhead(i, s, events) ==
    \A x \in events : x[1] = s /\ x[3] # Cancelled =>
        i.uid /\ x[2] <= i.seq /\ (x[2] = i.seq => x[3] = i.fingerprint)

EventsOK == \A x \in served : x[1] \in Sessions /\ x[2] \in Nat
Alike(s) ==
    \A v, w \in Feeding : Reading(workers[v].slots, s) = Reading(workers[w].slots, s)
FeedInv ==
    /\ EventsOK /\ OneContentPerSequence
    /\ \A s \in Sessions \ mixed :
         /\ Alike(s)
         /\ \A w \in Feeding : Knows(identity[s], workers[w], s)
         /\ NotAhead(identity[s], s, served)

\* What request q may do to the identity i of a session it has read.
Creates(i, j, q, s) ==
    /\ ~i.uid /\ s \in q.todo /\ s \in DOMAIN q.slots
    /\ j.uid /\ j.seq = 0 /\ ~j.canceled /\ j.fingerprint = q.slots[s]
Raises(i, j, q, s) ==
    /\ q.pc = "raise" /\ q.row[1] = s
    /\ j.uid = i.uid /\ j.seq = q.row[2] + 1 /\ ~j.canceled /\ j.fingerprint = q.slots[s]
Cancels(i, j, q, s) ==
    /\ q.pc = "cancel" /\ s \in q.todo
    /\ j.uid = i.uid /\ j.seq = q.row[s] + 1 /\ j.canceled /\ j.fingerprint = i.fingerprint
Writes(i, j, q, s) == j = i \/ Creates(i, j, q, s) \/ Raises(i, j, q, s) \/ Cancels(i, j, q, s)

\* What one request writes leaves true what the others know, as long as they
\* have read the same of the session.
LEMMA OthersKnow ==
    ASSUME NEW s \in Sessions, NEW i, NEW j, i.seq \in Nat, NEW q, NEW r,
           FeedOK(q), FeedOK(r), Reading(q.slots, s) = Reading(r.slots, s),
           Knows(i, q, s), Knows(i, r, s), Writes(i, j, q, s)
    PROVE  Knows(j, r, s)
<1>1. CASE j = i BY <1>1
<1>2. CASE Creates(i, j, q, s) BY <1>2 DEF Creates, Knows
<1>3. CASE Raises(i, j, q, s)
  <2>1. q.row[1] = s /\ s \in q.todo /\ s \in DOMAIN q.slots /\ q.row[2] \in Nat
    BY <1>3 DEF Raises, FeedOK
  <2>2. s \in DOMAIN r.slots /\ r.slots[s] = q.slots[s]
    BY <2>1 DEF Reading, FeedOK
  <2>3. ~(r.pc = "cancel" /\ s \in r.todo) BY <2>2 DEF FeedOK
  <2>4. r.pc = "raise" => r.row[2] \in Nat BY DEF FeedOK
  <2>. QED BY <1>3, <2>1, <2>2, <2>3, <2>4 DEF Raises, Knows
<1>4. CASE Cancels(i, j, q, s)
  <2>1. s \notin DOMAIN q.slots /\ q.row[s] \in Nat BY <1>4 DEF Cancels, FeedOK
  <2>2. s \notin DOMAIN r.slots BY <2>1 DEF Reading, FeedOK
  <2>3. ~(r.pc = "raise" /\ r.row[1] = s) BY <2>2 DEF FeedOK
  <2>4. r.pc = "cancel" => r.row[s] \in Nat BY DEF FeedOK
  <2>. QED BY <1>4, <2>1, <2>2, <2>3, <2>4 DEF Cancels, Knows
<1>. QED BY <1>1, <1>2, <1>3, <1>4 DEF Writes

\* It raises the sequence whenever it changes the content.
LEMMA NeverAhead ==
    ASSUME NEW s \in Sessions, NEW i, NEW j, i.seq \in Nat, NEW q, FeedOK(q),
           Knows(i, q, s), Writes(i, j, q, s), NEW events, \A x \in events : x[2] \in Nat,
           NotAhead(i, s, events)
    PROVE  NotAhead(j, s, events)
<1>1. CASE j = i BY <1>1
<1>2. CASE Creates(i, j, q, s) BY <1>2 DEF Creates, NotAhead
<1>3. CASE Raises(i, j, q, s)
  <2>1. q.row[2] \in Nat BY <1>3 DEF Raises, FeedOK
  <2>. QED BY <1>3, <2>1 DEF Raises, Knows, NotAhead
<1>4. CASE Cancels(i, j, q, s)
  <2>1. q.row[s] \in Nat BY <1>4 DEF Cancels, FeedOK
  <2>. QED BY <1>4, <2>1 DEF Cancels, Knows, NotAhead
<1>. QED BY <1>1, <1>2, <1>3, <1>4 DEF Writes

\* A request writes and moves on with the slots that it has read.
LEMMA FeedStep ==
    ASSUME TypeOK, FeedInv, NEW w \in Feeding, NEW q, q = workers[w], NEW p, Become(w, p),
           p.slots = q.slots, UNCHANGED <<served, mixed>>,
           \A s \in Sessions : Writes(identity[s], identity'[s], q, s),
           \A s \in Sessions \ mixed : Knows(identity'[s], p, s)
    PROVE  FeedInv'
<1>0. w \in Workers /\ IdentityOK /\ RequestsOK BY DEF Feeding, TypeOK
<1>1. \A v \in Feeding : FeedOK(workers[v]) BY <1>0, RequestByPc DEF Feeding
<1>2. /\ workers'[w] = p /\ DOMAIN workers' = Workers
      /\ \A v \in Workers \ {w} : workers'[v] = workers[v]
  BY <1>0, OtherRequests
<1>3. \A v \in Feeding' : v \in Feeding /\ workers'[v].slots = workers[v].slots
  BY <1>0, <1>2 DEF Feeding
<1>4. ASSUME NEW s \in Sessions \ mixed'
      PROVE  /\ Alike(s)'
             /\ \A v \in Feeding' : Knows(identity'[s], workers'[v], s)
             /\ NotAhead(identity'[s], s, served')
  <2>1. /\ s \in Sessions \ mixed /\ Alike(s) /\ NotAhead(identity[s], s, served)
        /\ \A v \in Feeding : Knows(identity[s], workers[v], s)
    BY <1>4 DEF FeedInv
  <2>2. Alike(s)' BY <1>3, <2>1 DEF Alike, Reading
  <2>3. PICK i, j : i = identity[s] /\ j = identity'[s] OBVIOUS
  <2>4. i.seq \in Nat BY <1>0, <2>1, <2>3 DEF IdentityOK
  <2>5. Writes(i, j, q, s) /\ Knows(i, q, s) /\ FeedOK(q) BY <1>1, <2>1, <2>3
  <2>6. ASSUME NEW v \in Feeding' PROVE Knows(j, workers'[v], s)
    <3>1. CASE v = w BY <1>2, <2>1, <2>3, <3>1
    <3>2. CASE v # w
      <4>1. PICK r : r = workers[v] OBVIOUS
      <4>2. v \in Feeding /\ workers'[v] = r BY <1>2, <1>3, <3>2, <4>1 DEF Feeding
      <4>3. FeedOK(r) /\ Knows(i, r, s) /\ Reading(q.slots, s) = Reading(r.slots, s)
        BY <1>1, <2>1, <2>3, <4>1, <4>2 DEF Alike
      <4>4. Knows(j, r, s) BY <2>1, <2>4, <2>5, <4>3, OthersKnow
      <4>. QED BY <4>2, <4>4
    <3>. QED BY <3>1, <3>2
  <2>7. NotAhead(j, s, served)
    <3>1. \A x \in served : x[2] \in Nat BY DEF FeedInv, EventsOK
    <3>. QED BY <2>1, <2>3, <2>4, <2>5, <3>1, NeverAhead
  <2>. QED BY <2>2, <2>3, <2>6, <2>7
<1>5. EventsOK' /\ OneContentPerSequence' BY DEF FeedInv, EventsOK, OneContentPerSequence
<1>. QED BY <1>4, <1>5 DEF FeedInv

\* A step of which no feed knows.
LEMMA FeedQuiet ==
    ASSUME FeedInv, UNCHANGED <<identity, served, mixed>>,
           \A v \in Feeding' : v \in Feeding /\ workers'[v] = workers[v]
    PROVE  FeedInv'
<1>1. EventsOK' /\ OneContentPerSequence' BY DEF FeedInv, EventsOK, OneContentPerSequence
<1>2. ASSUME NEW s \in Sessions \ mixed'
      PROVE  /\ Alike(s)'
             /\ \A v \in Feeding' : Knows(identity'[s], workers'[v], s)
             /\ NotAhead(identity'[s], s, served')
  <2>1. s \in Sessions \ mixed OBVIOUS
  <2>2. Alike(s)' BY <2>1 DEF FeedInv, Alike, Reading
  <2>. QED BY <2>1, <2>2 DEF FeedInv
<1>. QED BY <1>1, <1>2 DEF FeedInv

LEMMA StepFeed ==
    ASSUME TypeOK, FeedInv, [Next]_vars
    PROVE  FeedInv'
<1>0. IdentityOK /\ RequestsOK BY DEF TypeOK
<1>. USE <1>0
<1>q. ASSUME NEW w \in Workers, NEW q, Become(w, q), q.pc \notin {"stamp", "raise", "cancel"},
             UNCHANGED <<identity, served, mixed>>
      PROVE  FeedInv'
  <2>1. \A v \in Feeding' : v \in Feeding /\ workers'[v] = workers[v]
    BY <1>q, OtherRequests DEF Feeding
  <2>. QED BY <1>q, <2>1, FeedQuiet
<1>1. ASSUME NEW w \in Workers, NEW by \in {"speakerops", "pretalx"}, BeginRelease(w, by)
      PROVE  FeedInv'
  BY <1>1, <1>q DEF BeginRelease
<1>2. ASSUME NEW w \in Workers, Gate(w) PROVE FeedInv'
  <2>1. ReleaseOK(workers[w]) BY <1>2, RequestByPc DEF Gate
  <2>2. [workers[w] EXCEPT !.pc = "freeze"].pc = "freeze" BY <2>1 DEF ReleaseOK
  <2>3. PICK q : Become(w, q) /\ (q = Idle \/ q.pc = "freeze") BY <1>2, <2>2 DEF Gate
  <2>. QED BY <1>2, <2>3, <1>q, IdleOK DEF Gate
<1>3. ASSUME NEW w \in Workers, Freeze(w) \/ Die(w) \/ Apply(w) PROVE FeedInv'
  BY <1>3, <1>q, IdleOK DEF Freeze, Die, Apply
<1>4. ASSUME NEW w \in Workers, BeginApply(w) PROVE FeedInv'
  <2>. DEFINE q == [pc |-> "apply", schedule |-> Wip, at |-> Proposal(Wip).at]
  <2>1. PICK p \in {q, Idle} : Become(w, p) BY <1>4 DEF BeginApply
  <2>2. p.pc \notin {"stamp", "raise", "cancel"} BY <2>1, IdleOK
  <2>. QED BY <1>4, <2>1, <2>2, <1>q DEF BeginApply
<1>5. ASSUME NEW w \in Workers, BeginFeed(w) PROVE FeedInv'
  <2>. DEFINE live  == {s \in Sessions : talks[Current][s].visible /\ approval[s] \in Feedable}
              slots == [s \in live |-> Fingerprint(s)]
              q     == [pc |-> "stamp", todo |-> live, row |-> <<>>, slots |-> slots]
  <2>1. /\ Become(w, q) /\ UNCHANGED <<identity, served>> /\ workers[w] = Idle
        /\ mixed' = mixed \cup {s \in Sessions : \E v \in Feeding :
                        Reading(workers[v].slots, s) # Reading(slots, s)}
    BY <1>5 DEF BeginFeed
  <2>2. q.pc = "stamp" /\ q.slots = slots /\ q.todo = live /\ DOMAIN slots = live OBVIOUS
  <2>. HIDE DEF q, live, slots
  <2>3. workers'[w] = q /\ \A v \in Workers \ {w} : workers'[v] = workers[v]
    BY <2>1, OtherRequests
  <2>4. w \notin Feeding BY <2>1, IdleOK DEF Feeding
  <2>5. \A v \in Feeding' : v = w \/ (v \in Feeding /\ workers'[v] = workers[v])
    BY <2>3 DEF Feeding
  <2>6. ASSUME NEW s \in Sessions \ mixed'
        PROVE  /\ Alike(s)'
               /\ \A v \in Feeding' : Knows(identity'[s], workers'[v], s)
               /\ NotAhead(identity'[s], s, served')
    <3>1. s \in Sessions \ mixed BY <2>1
    <3>2. \A v \in Feeding : Reading(workers[v].slots, s) = Reading(slots, s)
      BY <2>1, <2>6
    <3>3. \A v \in Feeding' : Reading(workers'[v].slots, s) = Reading(slots, s)
      BY <2>2, <2>3, <2>5, <3>2
    <3>4. Alike(s)'
      <4>1. ASSUME NEW f PROVE Reading(f, s)' = Reading(f, s) BY DEF Reading
      <4>. QED BY <3>3, <4>1 DEF Alike
    <3>5. Knows(identity[s], q, s) BY <2>2 DEF Knows
    <3>. QED BY <2>1, <2>3, <2>5, <3>1, <3>4, <3>5 DEF FeedInv
  <2>7. EventsOK' /\ OneContentPerSequence'
    BY <2>1 DEF FeedInv, EventsOK, OneContentPerSequence
  <2>. QED BY <2>6, <2>7 DEF FeedInv
<1>6. ASSUME NEW w \in Workers, Stamp(w) PROVE FeedInv'
  <2>1. PICK q : q = workers[w] OBVIOUS
  <2>2. q.pc = "stamp" /\ w \in Feeding /\ FeedOK(q)
    BY <1>6, <2>1, RequestByPc DEF Stamp, Feeding
  <2>3. PICK s \in q.todo :
          IF identity[s].uid
          THEN /\ IF identity[s].fingerprint = q.slots[s]
                  THEN Become(w, [q EXCEPT !.todo = @ \ {s}])
                  ELSE Become(w, [q EXCEPT !.pc = "raise", !.row = <<s, identity[s].seq>>])
               /\ UNCHANGED identity
          ELSE /\ identity' = [identity EXCEPT ![s] =
                      [uid |-> TRUE, seq |-> 0, canceled |-> FALSE,
                       fingerprint |-> q.slots[s]]]
               /\ Become(w, [q EXCEPT !.todo = @ \ {s}])
    BY <1>6, <2>1 DEF Stamp
  <2>4. s \in Sessions /\ s \in DOMAIN q.slots BY <2>2 DEF FeedOK
  <2>5. \A t \in Sessions \ mixed : Knows(identity[t], q, t)
    BY <2>1, <2>2 DEF FeedInv
  <2>. DEFINE p1 == [q EXCEPT !.todo = @ \ {s}]
              p2 == [q EXCEPT !.pc = "raise", !.row = <<s, identity[s].seq>>]
  <2>6. /\ p1.pc = "stamp" /\ p1.todo = q.todo \ {s} /\ p1.slots = q.slots
        /\ p2.pc = "raise" /\ p2.todo = q.todo /\ p2.slots = q.slots
        /\ p2.row = <<s, identity[s].seq>>
    BY <2>2 DEF FeedOK
  <2>7. PICK p \in {p1, p2} : Become(w, p) /\
          \/ /\ identity[s].uid /\ identity[s].fingerprint = q.slots[s] /\ p = p1
             /\ UNCHANGED identity
          \/ /\ identity[s].uid /\ identity[s].fingerprint # q.slots[s] /\ p = p2
             /\ UNCHANGED identity
          \/ /\ ~identity[s].uid /\ p = p1
             /\ identity' = [identity EXCEPT ![s] =
                      [uid |-> TRUE, seq |-> 0, canceled |-> FALSE,
                       fingerprint |-> q.slots[s]]]
    BY <2>3
  <2>. HIDE DEF p1, p2
  <2>8. \A t \in Sessions : Writes(identity[t], identity'[t], q, t)
    BY <2>4, <2>7 DEF IdentityOK, Writes, Creates
  <2>9. \A t \in Sessions \ mixed : Knows(identity'[t], p, t)
    <3>1. CASE UNCHANGED identity /\ p = p1 /\ identity[s].uid /\ identity[s].fingerprint = q.slots[s]
      BY <2>2, <2>5, <2>6, <3>1 DEF Knows
    <3>2. CASE UNCHANGED identity /\ p = p2 /\ identity[s].uid /\ identity[s].fingerprint # q.slots[s]
      <4>1. p.row[1] = s /\ p.row[2] = identity[s].seq BY <2>6, <3>2
      <4>. QED BY <2>2, <2>5, <2>6, <3>2, <4>1 DEF Knows
    <3>3. CASE ~identity[s].uid /\ p = p1
               /\ identity' = [identity EXCEPT ![s] =
                      [uid |-> TRUE, seq |-> 0, canceled |-> FALSE,
                       fingerprint |-> q.slots[s]]]
      <4>1. identity'[s].uid /\ identity'[s].fingerprint = q.slots[s]
        BY <2>4, <3>3 DEF IdentityOK
      <4>2. \A t \in Sessions \ {s} : identity'[t] = identity[t]
        BY <3>3 DEF IdentityOK
      <4>. QED BY <2>2, <2>5, <2>6, <3>3, <4>1, <4>2 DEF Knows
    <3>. QED BY <2>7, <3>1, <3>2, <3>3
  <2>10. p.slots = q.slots BY <2>6, <2>7
  <2>11. UNCHANGED <<served, mixed>> BY <1>6 DEF Stamp
  <2>. QED BY <2>1, <2>2, <2>7, <2>8, <2>9, <2>10, <2>11, FeedStep
<1>7. ASSUME NEW w \in Workers, Raise(w) PROVE FeedInv'
  <2>1. PICK q : q = workers[w] OBVIOUS
  <2>2. q.pc = "raise" /\ w \in Feeding /\ FeedOK(q)
    BY <1>7, <2>1, RequestByPc DEF Raise, Feeding
  <2>3. PICK s : s = q.row[1] OBVIOUS
  <2>. DEFINE p == [q EXCEPT !.pc = "stamp", !.todo = @ \ {s}]
  <2>4. /\ identity' = [identity EXCEPT ![s].seq = q.row[2] + 1,
                                        ![s].fingerprint = q.slots[s],
                                        ![s].canceled = FALSE]
        /\ Become(w, p) /\ UNCHANGED <<served, mixed>>
    BY <1>7, <2>1, <2>3 DEF Raise
  <2>5. s \in Sessions /\ s \in q.todo /\ s \in DOMAIN q.slots /\ q.row[2] \in Nat
    BY <2>2, <2>3 DEF FeedOK
  <2>6. p.pc = "stamp" /\ p.todo = q.todo \ {s} /\ p.slots = q.slots BY <2>2 DEF FeedOK
  <2>. HIDE DEF p
  <2>7. /\ identity'[s].uid = identity[s].uid /\ identity'[s].seq = q.row[2] + 1
        /\ identity'[s].canceled = FALSE /\ identity'[s].fingerprint = q.slots[s]
        /\ \A t \in Sessions \ {s} : identity'[t] = identity[t]
    BY <2>4, <2>5 DEF IdentityOK
  <2>8. \A t \in Sessions : Writes(identity[t], identity'[t], q, t)
    <3>1. Raises(identity[s], identity'[s], q, s) BY <2>2, <2>3, <2>7 DEF Raises
    <3>. QED BY <2>7, <3>1 DEF Writes
  <2>9. \A t \in Sessions \ mixed : Knows(identity[t], q, t) BY <2>1, <2>2 DEF FeedInv
  <2>10. \A t \in Sessions \ mixed : Knows(identity'[t], p, t)
    BY <2>2, <2>3, <2>5, <2>6, <2>7, <2>9 DEF Knows
  <2>. QED BY <2>1, <2>2, <2>4, <2>6, <2>8, <2>10, FeedStep
<1>8. ASSUME NEW w \in Workers, Leftovers(w) PROVE FeedInv'
  <2>1. PICK q : q = workers[w] OBVIOUS
  <2>2. q.pc = "stamp" /\ q.todo = {} /\ w \in Feeding /\ FeedOK(q)
    BY <1>8, <2>1, RequestByPc DEF Leftovers, Feeding
  <2>. DEFINE left == {s \in Sessions : identity[s].uid /\ ~identity[s].canceled} \ DOMAIN q.slots
              seqs == [s \in Sessions |-> identity[s].seq]
              p    == [q EXCEPT !.pc = "cancel", !.todo = left, !.row = seqs]
  <2>3. Become(w, p) /\ UNCHANGED <<identity, served, mixed>> BY <1>8, <2>1 DEF Leftovers
  <2>4. p.pc = "cancel" /\ p.todo = left /\ p.row = seqs /\ p.slots = q.slots
    BY <2>2 DEF FeedOK
  <2>. HIDE DEF p
  <2>5. \A t \in Sessions \ mixed : Knows(identity[t], q, t) BY <2>1, <2>2 DEF FeedInv
  <2>6. \A t \in Sessions \ mixed : Knows(identity'[t], p, t)
    BY <2>2, <2>3, <2>4, <2>5 DEF Knows
  <2>7. \A t \in Sessions : Writes(identity[t], identity'[t], q, t) BY <2>3 DEF Writes
  <2>. QED BY <2>1, <2>2, <2>3, <2>4, <2>6, <2>7, FeedStep
<1>9. ASSUME NEW w \in Workers, Cancel(w) PROVE FeedInv'
  <2>1. PICK q : q = workers[w] OBVIOUS
  <2>2. q.pc = "cancel" /\ w \in Feeding /\ FeedOK(q)
    BY <1>9, <2>1, RequestByPc DEF Cancel, Feeding
  <2>3. PICK s \in q.todo :
          /\ identity' = [identity EXCEPT ![s].seq = q.row[s] + 1, ![s].canceled = TRUE]
          /\ Become(w, [q EXCEPT !.todo = @ \ {s}])
    BY <1>9, <2>1 DEF Cancel
  <2>. DEFINE p == [q EXCEPT !.todo = @ \ {s}]
  <2>4. UNCHANGED <<served, mixed>> BY <1>9 DEF Cancel
  <2>5. s \in Sessions /\ s \notin DOMAIN q.slots /\ q.row[s] \in Nat BY <2>2 DEF FeedOK
  <2>6. /\ p.pc = "cancel" /\ p.todo = q.todo \ {s} /\ p.slots = q.slots /\ p.row = q.row
    BY <2>2 DEF FeedOK
  <2>7. Become(w, p) BY <2>3
  <2>. HIDE DEF p
  <2>8. /\ identity'[s].uid = identity[s].uid /\ identity'[s].seq = q.row[s] + 1
        /\ identity'[s].canceled = TRUE /\ identity'[s].fingerprint = identity[s].fingerprint
        /\ \A t \in Sessions \ {s} : identity'[t] = identity[t]
    BY <2>3, <2>5 DEF IdentityOK
  <2>9. \A t \in Sessions : Writes(identity[t], identity'[t], q, t)
    <3>1. Cancels(identity[s], identity'[s], q, s) BY <2>2, <2>8 DEF Cancels
    <3>. QED BY <2>8, <3>1 DEF Writes
  <2>10. \A t \in Sessions \ mixed : Knows(identity[t], q, t) BY <2>1, <2>2 DEF FeedInv
  <2>11. \A t \in Sessions \ mixed : Knows(identity'[t], p, t)
    BY <2>2, <2>5, <2>6, <2>8, <2>10 DEF Knows
  <2>. QED BY <2>1, <2>2, <2>4, <2>6, <2>7, <2>9, <2>11, FeedStep
<1>10. ASSUME NEW w \in Workers, Serve(w) PROVE FeedInv'
  <2>1. PICK q : q = workers[w] OBVIOUS
  <2>2. q.pc = "cancel" /\ q.todo = {} /\ w \in Feeding /\ FeedOK(q)
    BY <1>10, <2>1, RequestByPc DEF Serve, Feeding
  <2>3. /\ Become(w, Idle) /\ UNCHANGED <<identity, mixed>>
        /\ served' = served
             \cup {<<s, identity[s].seq, q.slots[s]>> : s \in DOMAIN q.slots}
             \cup {<<s, identity[s].seq, Cancelled>> :
                      s \in {t \in Sessions : identity[t].uid /\ identity[t].canceled}}
    BY <1>10, <2>1 DEF Serve
  <2>4. \A x \in served' : \/ x \in served
                           \/ \E s \in DOMAIN q.slots : x = <<s, identity[s].seq, q.slots[s]>>
                           \/ \E s \in Sessions : x = <<s, identity[s].seq, Cancelled>>
    BY <2>3
  <2>5. DOMAIN q.slots \subseteq Sessions BY <2>2 DEF FeedOK
  <2>6. ASSUME NEW x \in served', x \notin served
        PROVE  /\ x[1] \in Sessions /\ x[2] = identity[x[1]].seq /\ x[2] \in Nat
               /\ x[1] \notin mixed /\ x[3] # Cancelled =>
                    identity[x[1]].uid /\ x[3] = identity[x[1]].fingerprint
    <3>1. CASE \E s \in DOMAIN q.slots : x = <<s, identity[s].seq, q.slots[s]>>
      <4>1. PICK s \in DOMAIN q.slots : x = <<s, identity[s].seq, q.slots[s]>> BY <3>1
      <4>2. x[1] = s /\ x[2] = identity[s].seq /\ x[3] = q.slots[s] BY <4>1
      <4>3. s \in Sessions /\ identity[s].seq \in Nat BY <2>5, <4>1 DEF IdentityOK
      <4>4. s \notin mixed => identity[s].uid /\ identity[s].fingerprint = q.slots[s]
        BY <2>1, <2>2, <4>3 DEF FeedInv, Knows
      <4>. QED BY <4>2, <4>3, <4>4
    <3>2. CASE \E s \in Sessions : x = <<s, identity[s].seq, Cancelled>>
      <4>1. PICK s \in Sessions : x = <<s, identity[s].seq, Cancelled>> BY <3>2
      <4>2. x[1] = s /\ x[2] = identity[s].seq /\ x[3] = Cancelled BY <4>1
      <4>. QED BY <4>2 DEF IdentityOK
    <3>. QED BY <2>4, <2>6, <3>1, <3>2
  <2>7. EventsOK' BY <2>6 DEF FeedInv, EventsOK
  <2>8. \A s \in Sessions \ mixed : NotAhead(identity[s], s, served')
    <3>1. ASSUME NEW s \in Sessions \ mixed, NEW x \in served', x[1] = s, x[3] # Cancelled
          PROVE  /\ identity[s].uid /\ x[2] <= identity[s].seq
                 /\ x[2] = identity[s].seq => x[3] = identity[s].fingerprint
      <4>1. CASE x \in served BY <3>1, <4>1 DEF FeedInv, NotAhead
      <4>2. CASE x \notin served BY <2>6, <3>1, <4>2
      <4>. QED BY <4>1, <4>2
    <3>. QED BY <3>1 DEF NotAhead
  <2>9. OneContentPerSequence'
    <3>1. ASSUME NEW x \in served', NEW y \in served', x[1] = y[1], x[1] \notin mixed,
                 x[2] = y[2], x[3] # Cancelled, y[3] # Cancelled
          PROVE  x[3] = y[3]
      <4>1. CASE x \in served /\ y \in served
        BY <3>1, <4>1 DEF FeedInv, OneContentPerSequence
      <4>2. x[1] \in Sessions \ mixed /\ y[1] \in Sessions \ mixed
        BY <2>7, <3>1 DEF EventsOK
      <4>3. CASE x \notin served
        <5>1. x[2] = identity[x[1]].seq /\ x[3] = identity[x[1]].fingerprint
          BY <2>6, <3>1, <4>3
        <5>. QED BY <2>8, <3>1, <4>2, <5>1 DEF NotAhead
      <4>4. CASE y \notin served
        <5>1. y[2] = identity[y[1]].seq /\ y[3] = identity[y[1]].fingerprint
          BY <2>6, <3>1, <4>4
        <5>. QED BY <2>8, <3>1, <4>2, <5>1 DEF NotAhead
      <4>. QED BY <4>1, <4>3, <4>4
    <3>. QED BY <2>3, <3>1 DEF OneContentPerSequence
  <2>10. \A v \in Feeding' : v \in Feeding /\ workers'[v] = workers[v]
    BY <2>3, OtherRequests, IdleOK DEF Feeding
  <2>11. ASSUME NEW s \in Sessions \ mixed' PROVE
           /\ Alike(s)'
           /\ \A v \in Feeding' : Knows(identity'[s], workers'[v], s)
           /\ NotAhead(identity'[s], s, served')
    <3>1. s \in Sessions \ mixed BY <2>3
    <3>2. Alike(s)' BY <2>10, <3>1 DEF FeedInv, Alike, Reading
    <3>3. \A v \in Feeding' : Knows(identity'[s], workers'[v], s)
      BY <2>3, <2>10, <3>1 DEF FeedInv
    <3>. QED BY <2>3, <2>8, <3>1, <3>2, <3>3
  <2>. QED BY <2>7, <2>9, <2>11 DEF FeedInv
<1>11. ASSUME NEW s \in Sessions,
              Move(s) \/ Withdraw(s) \/ Confirm(s) \/ Approve(s) \/ Retitle(s)
       PROVE  FeedInv'
  <2>1. UNCHANGED <<workers, identity, served, mixed>>
    BY <1>11 DEF Move, Withdraw, Confirm, Approve, Retitle, Change
  <2>2. \A v \in Feeding' : v \in Feeding /\ workers'[v] = workers[v] BY <2>1 DEF Feeding
  <2>. QED BY <2>1, <2>2, FeedQuiet
<1>12. ASSUME UNCHANGED vars PROVE FeedInv'
  <2>1. UNCHANGED <<workers, identity, served, mixed>> BY <1>12 DEF vars
  <2>2. \A v \in Feeding' : v \in Feeding /\ workers'[v] = workers[v] BY <2>1 DEF Feeding
  <2>. QED BY <2>1, <2>2, FeedQuiet
<1>. QED
  BY <1>1, <1>2, <1>3, <1>4, <1>5, <1>6, <1>7, <1>8, <1>9, <1>10, <1>11, <1>12 DEF Next

LEMMA InitFeed == Init => FeedInv
<1>. SUFFICES ASSUME Init PROVE FeedInv OBVIOUS
<1>1. Feeding = {} BY IdleOK DEF Init, Feeding
<1>2. served = {} BY DEF Init
<1>. QED BY <1>1, <1>2 DEF FeedInv, EventsOK, OneContentPerSequence, Alike, NotAhead

\* A calendar client that keeps the first event of a sequence misses nothing of a
\* session unless two overlapping requests had read it differently.  Inductive
\* is what a request knows of an identity between its read and its write.
THEOREM OneContent == Spec => []OneContentPerSequence
<1>1. TypeOK /\ FeedInv /\ [Next]_vars => FeedInv' BY StepFeed
<1>2. Spec => []FeedInv BY TypeCorrect, InitFeed, <1>1, PTL DEF Spec
<1>. QED BY <1>2, PTL DEF FeedInv
=============================================================================
