---------------------------- MODULE ClusterProofs ----------------------------
(***************************************************************************)
(* Theorems about the cluster as its servers see it (ClusterView), the     *)
(* actor that logs it (ClusterListener) and the page that shows it         *)
(* (Dashboard), for every set of servers, every assignment of ports and    *)
(* any number of membership events.                                        *)
(***************************************************************************)
EXTENDS ClusterListener, Dashboard, FiniteSetTheorems, SequenceTheorems, TLAPS

-----------------------------------------------------------------------------
(* Least and greatest elements. The induction is over a well-founded       *)
(* relation, whose minimal elements the library provides.                  *)

\* A set of natural numbers with an element has a least one.
LEMMA LeastNatural ==
  ASSUME NEW T \in SUBSET Nat, T # {}
  PROVE  \E m \in T : \A n \in T : m <= n
<1> DEFINE R == OpToRel(<, Nat)
<1>1. IsWellFoundedOn(R, Nat) BY NatLessThanWellFounded
<1> HIDE DEF R
<1>2. PICK m \in T : \A n \in T : <<n, m>> \notin R
  BY <1>1, WFMin
<1>3. \A n \in T : ~(n < m)
  BY <1>2 DEF R, OpToRel
<1> QED BY <1>2, <1>3

\* Min returns it.
LEMMA MinOfNaturals ==
  ASSUME NEW T \in SUBSET Nat, T # {}
  PROVE  Min(T) \in T /\ \A n \in T : Min(T) <= n
BY LeastNatural DEF Min

\* A finite set of natural numbers with an element has a greatest one: among
\* its subsets that have none, a smallest is empty.
LEMMA GreatestNatural ==
  ASSUME NEW T \in SUBSET Nat, IsFiniteSet(T), T # {}
  PROVE  \E m \in T : \A n \in T : n <= m
<1> DEFINE Greatest(S) == \E m \in S : \A n \in S : n <= m
           R == StrictSubsetOrdering(T)
           Bad == {S \in SUBSET T : S # {} /\ ~Greatest(S)}
<1>1. IsWellFoundedOn(R, SUBSET T)
  BY FS_StrictSubsetOrderingWellFounded, FS_FiniteSubsetsOfFinite
<1>2. SUFFICES ASSUME Bad # {} PROVE FALSE
  OBVIOUS
<1> HIDE DEF R
<1>3. PICK S \in Bad : \A U \in Bad : <<U, S>> \notin R
  BY <1>1, <1>2, WFMin
<1>4. PICK x \in S : TRUE
  BY <1>3
<1> DEFINE U == S \ {x}
<1>5. U \notin Bad
  BY <1>3, <1>4 DEF R, StrictSubsetOrdering
<1>6. CASE U = {}
  BY <1>3, <1>4, <1>6
<1>7. CASE Greatest(U)
  <2>1. PICK m \in U : \A n \in U : n <= m BY <1>7
  <2>2. IF m <= x THEN \A n \in S : n <= x ELSE \A n \in S : n <= m
    BY <1>3, <1>4, <2>1
  <2> QED BY <1>3, <1>4, <2>1, <2>2
<1> QED BY <1>5, <1>6, <1>7, <1>3

\* Max returns it.
LEMMA MaxOfNaturals ==
  ASSUME NEW T \in SUBSET Nat, IsFiniteSet(T), T # {}
  PROVE  Max(T) \in T /\ \A n \in T : n <= Max(T)
BY GreatestNatural DEF Max
-----------------------------------------------------------------------------
(* The views.                                                              *)

\* The members of a view are servers, each with a status.
LEMMA ViewFields ==
  ASSUME NEW v \in View
  PROVE  /\ members(v) \subseteq Server
         /\ v.members \in [members(v) -> Status]
         /\ v.unreachable \subseteq Server
BY DEF View, members

\* Whatever changes in a view, it is one again.
LEMMA ViewOfFields ==
  ASSUME NEW v \in View, NEW M \in SUBSET Server, NEW f \in [M -> Status]
  PROVE  /\ [v EXCEPT !.members = f] \in View
         /\ members([v EXCEPT !.members = f]) = M
<1>1. f \in UNION {[N -> Status] : N \in SUBSET Server}
  OBVIOUS
<1>2. [v EXCEPT !.members = f] = [running |-> v.running, members |-> f,
                                 unreachable |-> v.unreachable, leader |-> v.leader]
  BY DEF View
<1> QED BY <1>1, <1>2 DEF View, members

LEMMA StoppedIsView == /\ stopped \in View
                       /\ [stopped EXCEPT !.running = TRUE] \in View
                       /\ members(stopped) = {}
                       /\ members([stopped EXCEPT !.running = TRUE]) = {}
<1>1. [m \in {} |-> "up"] \in [{} -> Status] /\ {} \in SUBSET Server
  OBVIOUS
<1>2. [m \in {} |-> "up"] \in UNION {[M -> Status] : M \in SUBSET Server}
  BY <1>1
<1> QED BY <1>2 DEF stopped, View, members, None

\* Akka's choice of leader is a server, or none.
LEMMA LeaderIsServer ==
  ASSUME NEW s \in Server, NEW v \in View
  PROVE  LeaderOf(s, v) \in Server \cup {None}
<1> DEFINE candidates == {m \in reachable(v) : v.members[m] # "down" \/ m = s}
           rank(m) == LeaderRank(v.members[m])
           ranks == {rank(m) : m \in candidates}
           best == {m \in candidates : \A n \in candidates : rank(m) <= rank(n)}
<1>1. CASE candidates = {}
  BY <1>1 DEF LeaderOf
<1>2. CASE candidates # {}
  <2>1. candidates \subseteq Server /\ \A m \in candidates : rank(m) \in Nat
    BY ViewFields DEF reachable, LeaderRank, Status
  <2>2. ranks \in SUBSET Nat /\ ranks # {}
    BY <1>2, <2>1
  <2> HIDE DEF candidates, rank
  <2>3. PICK r \in ranks : \A q \in ranks : r <= q
    BY <2>2, LeastNatural
  <2>4. best # {}
    BY <2>3
  <2>5. Min(best) \in best
    BY <2>1, <2>4, MinOfNaturals, ServerAssumption
  <2>6. LeaderOf(s, v) = Min(best)
    BY <1>2 DEF LeaderOf, candidates, rank
  <2> QED BY <2>1, <2>5, <2>6
<1> QED BY <1>1, <1>2

\* The cluster has formed: the views are consistent from the start.
LEMMA ViewInit == Init => ViewInvariant
<1> SUFFICES ASSUME NEW R \in SUBSET Server, NEW status \in [R -> {"joining", "up"}],
                    view = [s \in Server |->
                       LET v == [running |-> TRUE, members |-> status,
                                 unreachable |-> {}, leader |-> None]
                       IN IF s \in R THEN [v EXCEPT !.leader = LeaderOf(s, v)] ELSE stopped],
                    upNumber = [s \in Server |->
                                  IF s \in R /\ status[s] = "up" THEN s ELSE 0],
                    events = 0
             PROVE  ViewInvariant
  BY DEF Init
<1> DEFINE v0 == [running |-> TRUE, members |-> status, unreachable |-> {}, leader |-> None]
<1>1. v0 \in View
  <2>1. status \in [R -> Status] BY DEF Status
  <2>2. status \in UNION {[M -> Status] : M \in SUBSET Server} BY <2>1
  <2> QED BY <2>2 DEF View, None
<1>2. \A s \in Server : LeaderOf(s, v0) \in Server \cup {None}
  BY <1>1, LeaderIsServer
<1>3. \A s \in Server : [v0 EXCEPT !.leader = LeaderOf(s, v0)] \in View
  BY <1>1, <1>2 DEF View
<1>4. \A s \in Server : /\ view[s] \in View
                        /\ view[s].unreachable = {}
                        /\ members(view[s]) = IF s \in R THEN R ELSE {}
                        /\ s \in R => view[s].members = status
  BY <1>3, StoppedIsView DEF stopped, members
<1>5. ViewTypeOK
  <2>1. view \in [Server -> View]
    BY <1>4
  <2>2. upNumber \in [Server -> Nat] /\ events \in 0 .. MaxEvents
    BY ServerAssumption
  <2> QED BY <2>1, <2>2 DEF ViewTypeOK
<1>6. \A s \in R : status[s] = "up" => upNumber[s] # 0
  BY ServerAssumption
<1>7. \A m, n \in Server : upNumber[m] = upNumber[n] => m = n \/ upNumber[m] = 0
  BY ServerAssumption
<1> QED BY <1>4, <1>5, <1>6, <1>7 DEF ViewInvariant

\* A step that changes the view of one server, and gives out no number.
LEMMA OneViewChanges ==
  ASSUME ViewInvariant, NEW s \in Server, NEW v \in View,
         view' = [view EXCEPT ![s] = v], upNumber' = upNumber,
         events' \in 0 .. MaxEvents,
         v.unreachable \subseteq members(v) \ {s},
         \A m \in members(v) : v.members[m] = "up" => upNumber[m] # 0
  PROVE  ViewInvariant'
<1>1. \A t \in Server : view'[t] = IF t = s THEN v ELSE view[t]
  BY DEF ViewInvariant, ViewTypeOK
<1>2. ViewTypeOK'
  BY DEF ViewInvariant, ViewTypeOK
<1> QED BY <1>1, <1>2 DEF ViewInvariant

\* The next number is larger than all that have been given out.
LEMMA NextNumber ==
  ASSUME ViewTypeOK, Server # {}
  PROVE  /\ Max(Range(upNumber)) \in Nat
         /\ \A m \in Server : upNumber[m] <= Max(Range(upNumber))
<1>1. Range(upNumber) \in SUBSET Nat /\ Range(upNumber) # {}
  BY DEF ViewTypeOK, Range
<1>2. IsFiniteSet(Range(upNumber))
  <2>1. upNumber \in Surjection(Server, Range(upNumber))
    BY DEF ViewTypeOK, Range, Surjection
  <2> QED BY <2>1, FS_Surjection, ServerAssumption
<1>3. \A m \in Server : upNumber[m] \in Range(upNumber)
  BY DEF ViewTypeOK, Range
<1> QED BY <1>1, <1>2, <1>3, MaxOfNaturals

\* Every change of a view keeps the views consistent.
LEMMA ViewStepKeepsInvariant ==
  ASSUME ViewInvariant, NEW s \in Server, ViewStep(s)
  PROVE  ViewInvariant'
<1>v. view[s] \in View /\ events \in Nat
  BY DEF ViewInvariant, ViewTypeOK
<1>e. events < MaxEvents /\ events' = events + 1 => events' \in 0 .. MaxEvents
  BY <1>v, ServerAssumption
<1>i. /\ view[s].unreachable \subseteq members(view[s]) \ {s}
      /\ \A n \in members(view[s]) : view[s].members[n] = "up" => upNumber[n] # 0
  BY DEF ViewInvariant
<1>f. /\ members(view[s]) \subseteq Server
      /\ view[s].members \in [members(view[s]) -> Status]
  BY <1>v, ViewFields
<1>1. ASSUME NEW m \in Server, MemberJoined(s, m) PROVE ViewInvariant'
  <2> DEFINE M == members(view[s]) \cup {m}
             f == [n \in M |-> IF n = m THEN "joining" ELSE view[s].members[n]]
             v == [view[s] EXCEPT !.members = f]
  <2>1. M \in SUBSET Server /\ f \in [M -> Status]
    BY <1>f DEF Status
  <2>2. Event(s, v) /\ upNumber' = upNumber
    BY <1>1, <1>v DEF MemberJoined, View
  <2>3. v.members = f /\ v.unreachable = view[s].unreachable
    BY <1>v DEF View
  <2> HIDE DEF f
  <2>4. v \in View /\ members(v) = M
    BY <1>v, <2>1, ViewOfFields
  <2>5. \A n \in M : f[n] = "up" => upNumber[n] # 0
    BY <1>i DEF f
  <2> HIDE DEF v
  <2> QED BY <1>e, <1>i, <2>2, <2>3, <2>4, <2>5, OneViewChanges DEF Event
<1>2. ASSUME NEW m \in Server, MemberRemoved(s, m) PROVE ViewInvariant'
  <2> DEFINE M == members(view[s]) \ {m}
             f == [n \in M |-> view[s].members[n]]
             v == [view[s] EXCEPT !.members = f, !.unreachable = @ \ {m}]
             w == [view[s] EXCEPT !.members = f]
  <2>1. M \in SUBSET Server /\ f \in [M -> Status]
    BY <1>f
  <2>2. Event(s, v) /\ upNumber' = upNumber
    BY <1>2, <1>v DEF MemberRemoved, View
  <2>3. v.members = f /\ v.unreachable = view[s].unreachable \ {m}
    BY <1>v DEF View
  <2>4. v \in View /\ members(v) = M
    <3>1. w \in View BY <1>v, <2>1, ViewOfFields
    <3>2. v = [w EXCEPT !.unreachable = @ \ {m}]
      BY <1>v DEF View
    <3>3. v \in View BY <3>1, <3>2 DEF View
    <3> QED BY <2>3, <3>3 DEF members
  <2> HIDE DEF v
  <2> QED BY <1>e, <1>i, <2>2, <2>3, <2>4, OneViewChanges DEF Event
<1>3. ASSUME NEW m \in Server, UnreachableMember(s, m) \/ ReachableMember(s, m)
      PROVE  ViewInvariant'
  <2>1. PICK U \in SUBSET (members(view[s]) \ {s}) :
           /\ Event(s, [view[s] EXCEPT !.unreachable = U])
           /\ upNumber' = upNumber
    <3>1. CASE UnreachableMember(s, m)
      BY <1>i, <1>v, <3>1 DEF UnreachableMember, reachable, View
    <3>2. CASE ReachableMember(s, m)
      BY <1>i, <1>v, <3>2 DEF ReachableMember, View
    <3> QED BY <1>3, <3>1, <3>2
  <2> DEFINE v == [view[s] EXCEPT !.unreachable = U]
  <2>2. v \in View /\ v.members = view[s].members /\ v.unreachable = U
    BY <1>f, <1>v DEF View
  <2>3. members(v) = members(view[s])
    BY <2>2 DEF members
  <2> HIDE DEF v
  <2> QED BY <1>e, <1>i, <2>1, <2>2, <2>3, OneViewChanges DEF Event, v
<1>4. CASE LeaderChanged(s)
  <2> DEFINE v == [view[s] EXCEPT !.leader = LeaderOf(s, view[s])]
  <2>1. view' = [view EXCEPT ![s] = v] /\ upNumber' = upNumber /\ events' \in 0 .. MaxEvents
    BY <1>4, <1>v DEF LeaderChanged, View, ViewInvariant, ViewTypeOK
  <2>2. /\ v \in View /\ v.members = view[s].members
        /\ v.unreachable = view[s].unreachable /\ members(v) = members(view[s])
    BY <1>v, LeaderIsServer DEF View, members
  <2> HIDE DEF v
  <2> QED BY <1>i, <2>1, <2>2, OneViewChanges
<1>5. CASE StartServer(s) \/ StopServer(s)
  <2>1. PICK v \in {stopped, [stopped EXCEPT !.running = TRUE]} :
           view' = [view EXCEPT ![s] = v] /\ upNumber' = upNumber /\ events' \in 0 .. MaxEvents
    BY <1>5, <1>e DEF StartServer, StopServer, Event
  <2>2. v \in View /\ members(v) = {} /\ v.unreachable = {}
    <3>1. /\ stopped.unreachable = {}
          /\ [stopped EXCEPT !.running = TRUE].unreachable = {}
      BY DEF stopped
    <3> QED BY <3>1, StoppedIsView
  <2> QED BY <2>1, <2>2, OneViewChanges
<1>6. ASSUME NEW m \in Server, MemberEvent(s, m) PROVE ViewInvariant'
  <2> DEFINE known == \E t \in Server : m \in members(view[t]) /\ view[t].members[m] = "up"
  <2>1. PICK status \in Status :
          /\ Event(s, [view[s] EXCEPT !.members[m] = status])
          /\ upNumber' = IF status = "up" /\ ~known
                         THEN [upNumber EXCEPT ![m] = Max(Range(upNumber)) + 1]
                         ELSE upNumber
    BY <1>6 DEF MemberEvent
  <2>2. m \in members(view[s])
    BY <1>6 DEF MemberEvent
  <2> DEFINE f == [view[s].members EXCEPT ![m] = status]
             v == [view[s] EXCEPT !.members = f]
  <2>3. f \in [members(view[s]) -> Status]
    BY <1>f
  <2>4. /\ v \in View /\ members(v) = members(view[s])
        /\ v.members = f /\ v.unreachable = view[s].unreachable
    <3>1. v.members = f /\ v.unreachable = view[s].unreachable
      BY <1>v DEF View
    <3> HIDE DEF f
    <3>2. v \in View /\ members(v) = members(view[s])
      BY <1>f, <1>v, <2>3, ViewOfFields
    <3> QED BY <3>1, <3>2
  <2>5. Event(s, v)
    BY <2>1, <1>v DEF View
  <2>6. \A n \in members(v) : v.members[n] = IF n = m THEN status ELSE view[s].members[n]
    BY <1>f, <2>4
  <2> HIDE DEF v, f
  <2>7. CASE ~(status = "up" /\ ~known)
    <3>1. upNumber' = upNumber
      BY <2>1, <2>7
    <3>2. \A n \in members(v) : v.members[n] = "up" => upNumber[n] # 0
      BY <1>i, <2>4, <2>6, <2>7 DEF ViewInvariant
    <3> QED BY <1>e, <1>i, <2>4, <2>5, <3>1, <3>2, OneViewChanges DEF Event
  <2>8. CASE status = "up" /\ ~known
    <3> DEFINE next == Max(Range(upNumber)) + 1
    <3>1. next \in Nat \ {0} /\ \A n \in Server : upNumber[n] < next
      <4>1. ViewTypeOK /\ Server # {} BY DEF ViewInvariant
      <4> QED BY <4>1, NextNumber DEF ViewTypeOK
    <3> HIDE DEF next
    <3>2. \A n \in Server : upNumber'[n] = IF n = m THEN next ELSE upNumber[n]
      BY <2>1, <2>8 DEF ViewInvariant, ViewTypeOK, next
    <3>3. \A t \in Server : view'[t] = IF t = s THEN v ELSE view[t]
      BY <2>5 DEF Event, ViewInvariant, ViewTypeOK
    <3>4. ViewTypeOK'
      <4>1. view' \in [Server -> View]
        BY <2>4, <2>5 DEF Event, ViewInvariant, ViewTypeOK
      <4>2. upNumber' \in [Server -> Nat]
        BY <2>1, <2>8, <3>1 DEF ViewInvariant, ViewTypeOK, next
      <4> QED BY <1>e, <2>5, <4>1, <4>2 DEF ViewTypeOK, Event
    <3>5. \A t \in Server : view'[t].unreachable \subseteq members(view'[t]) \ {t}
      BY <1>i, <2>4, <3>3 DEF ViewInvariant
    <3>6. ASSUME NEW t \in Server, NEW n \in members(view'[t]), view'[t].members[n] = "up"
          PROVE  upNumber'[n] # 0
      <4>1. n \in Server
        BY <3>3, <2>4, ViewFields DEF ViewInvariant, ViewTypeOK
      <4> QED BY <1>i, <2>4, <2>6, <3>1, <3>2, <3>3, <3>6, <4>1 DEF ViewInvariant
    <3>7. \A j, n \in Server : upNumber'[j] = upNumber'[n] => j = n \/ upNumber'[j] = 0
      BY <3>1, <3>2 DEF ViewInvariant
    <3> QED BY <3>4, <3>5, <3>6, <3>7 DEF ViewInvariant
  <2> QED BY <2>7, <2>8
<1> QED BY <1>1, <1>2, <1>3, <1>4, <1>5, <1>6 DEF ViewStep

-----------------------------------------------------------------------------
(* The reports.                                                            *)

\* Among some servers, whatever their numbers, one is the eldest.
LEMMA OneIsEldest ==
  ASSUME NEW number \in [Server -> Nat], NEW up \in SUBSET Server, up # {}
  PROVE  LET e == CHOOSE m \in up : \A n \in up : number[m] <= number[n]
         IN e \in up /\ \A n \in up : number[e] <= number[n]
<1> DEFINE numbers == {number[m] : m \in up}
<1>1. numbers \in SUBSET Nat /\ numbers # {}
  OBVIOUS
<1>2. PICK k \in numbers : \A j \in numbers : k <= j
  BY <1>1, LeastNatural
<1>3. PICK m \in up : k = number[m]
  BY <1>2
<1>4. \A n \in up : number[m] <= number[n]
  BY <1>2, <1>3
<1> QED BY <1>3, <1>4

\* The oldest member is one that is up and reachable, and older than every
\* other such member; without one it is the server itself.
LEMMA OldestIsEldest ==
  ASSUME ViewInvariant, NEW s \in Server
  PROVE  LET up == {m \in reachable(view[s]) : view[s].members[m] = "up"}
         IN /\ up = {} => Oldest(s, view[s]) = s
            /\ up # {} => /\ Oldest(s, view[s]) \in up
                          /\ \A n \in up : upNumber[Oldest(s, view[s])] <= upNumber[n]
<1> DEFINE up == {m \in reachable(view[s]) : view[s].members[m] = "up"}
<1>1. up \in SUBSET Server /\ upNumber \in [Server -> Nat]
  BY ViewFields DEF reachable, ViewInvariant, ViewTypeOK
<1>2. Oldest(s, view[s]) = IF up = {} THEN s ELSE eldest(up)
  BY DEF Oldest
<1> HIDE DEF up
<1>3. up # {} => eldest(up) \in up /\ \A n \in up : upNumber[eldest(up)] <= upNumber[n]
  BY <1>1, OneIsEldest DEF eldest
<1> QED BY <1>2, <1>3 DEF up

\* The row of a reachable member.
rowOf(s, m) ==
  [port |-> PortOf[m], memberState |-> view[s].members[m],
   leader |-> view[s].leader = m, oldest |-> Oldest(s, view[s]) = m]

\* Ports differ, so that addUnreachable takes away the rows of the unreachable
\* members and no others.
LEMMA ReportRows ==
  ASSUME ViewInvariant, NEW s \in Server
  PROVE  loadNodes(s).nodes =
            {rowOf(s, m) : m \in placed(members(view[s]) \ view[s].unreachable)}
              \cup {unreachableNode(m) : m \in placed(view[s].unreachable)}
<1> DEFINE U == view[s].unreachable
           M == members(view[s])
<1>1. M \subseteq Server /\ U \subseteq M
  BY ViewFields DEF ViewInvariant, ViewTypeOK
<1>2. add(s, view[s]) = {rowOf(s, m) : m \in placed(M)}
  BY DEF add, rowOf
<1>3. loadNodes(s).nodes = addUnreachable(add(s, view[s]), U)
  BY DEF loadNodes
<1> HIDE DEF U, M
<1>4. \A m, n \in placed(M) : rowOf(s, m).port = PortOf[n] => m = n
  BY <1>1, ServerAssumption DEF rowOf, placed
<1>5. placed(M \ U) = placed(M) \ placed(U) /\ placed(U) \subseteq placed(M)
  BY <1>1 DEF placed
<1>6. {n \in add(s, view[s]) : \A m \in placed(U) : n.port # PortOf[m]}
        = {rowOf(s, m) : m \in placed(M \ U)}
  <2>1. ASSUME NEW m \in placed(M)
        PROVE  (\A n \in placed(U) : rowOf(s, m).port # PortOf[n]) <=> m \notin placed(U)
    <3>1. rowOf(s, m).port = PortOf[m] BY DEF rowOf
    <3> QED BY <1>4, <1>5, <3>1
  <2>2. placed(M \ U) = {m \in placed(M) : \A n \in placed(U) : rowOf(s, m).port # PortOf[n]}
    BY <1>5, <2>1
  <2> QED BY <1>2, <2>2
<1> QED BY <1>3, <1>6 DEF addUnreachable, U, M

\* Any server's report has a row for each member with a place, one only, and
\* at most one leader and one oldest, none of them unreachable.
LEMMA ReportOfServer ==
  ASSUME ViewInvariant, NEW s \in Server
  PROVE  /\ Consistent(loadNodes(s).nodes)
         /\ {n.port : n \in loadNodes(s).nodes} = {PortOf[m] : m \in placed(members(view[s]))}
         /\ \A m \in view[s].unreachable : \A n \in loadNodes(s).nodes :
               n.port = PortOf[m] => ~n.leader /\ ~n.oldest
<1> DEFINE U == view[s].unreachable
           M == members(view[s])
           nodes == loadNodes(s).nodes
<1>1. M \subseteq Server /\ U \subseteq M
  BY ViewFields DEF ViewInvariant, ViewTypeOK
<1>2. nodes = {rowOf(s, m) : m \in placed(M \ U)} \cup {unreachableNode(m) : m \in placed(U)}
  BY ReportRows
<1> HIDE DEF U, M, nodes
<1>3. placed(M \ U) \cup placed(U) = placed(M) /\ placed(M) \subseteq Server
  BY <1>1 DEF placed
<1>4. \A m \in Server : /\ rowOf(s, m).port = PortOf[m]
                        /\ rowOf(s, m).leader <=> view[s].leader = m
                        /\ rowOf(s, m).oldest <=> Oldest(s, view[s]) = m
                        /\ unreachableNode(m).port = PortOf[m]
                        /\ ~unreachableNode(m).leader /\ ~unreachableNode(m).oldest
  BY DEF rowOf, unreachableNode
<1>5. \A m, n \in Server : PortOf[m] = PortOf[n] => m = n
  BY ServerAssumption
<1>6. ASSUME NEW a \in nodes
      PROVE  \/ \E m \in placed(M \ U) : a = rowOf(s, m)
             \/ \E m \in placed(U) : a = unreachableNode(m)
  BY <1>2
<1>7. placed(M \ U) \cap placed(U) = {}
  BY DEF placed
<1>8. ASSUME NEW a \in nodes, NEW b \in nodes, a # b
      PROVE  /\ a.port # b.port
             /\ ~(a.leader /\ b.leader)
             /\ ~(a.oldest /\ b.oldest)
  <2>1. PICK m \in placed(M) : \/ m \in placed(M \ U) /\ a = rowOf(s, m)
                               \/ m \in placed(U) /\ a = unreachableNode(m)
    BY <1>3, <1>6
  <2>2. PICK n \in placed(M) : \/ n \in placed(M \ U) /\ b = rowOf(s, n)
                               \/ n \in placed(U) /\ b = unreachableNode(n)
    BY <1>3, <1>6
  <2>3. m # n
    BY <1>7, <1>8, <2>1, <2>2
  <2> QED BY <1>3, <1>4, <1>5, <2>1, <2>2, <2>3
<1>9. {n.port : n \in nodes} = {PortOf[m] : m \in placed(M)}
  <2>1. ASSUME NEW n \in nodes PROVE \E m \in placed(M) : n.port = PortOf[m]
    <3>1. PICK m \in placed(M) : n = rowOf(s, m) \/ n = unreachableNode(m)
      BY <1>3, <1>6
    <3> QED BY <1>3, <1>4, <3>1
  <2>2. ASSUME NEW m \in placed(M) PROVE \E n \in nodes : n.port = PortOf[m]
    <3>1. rowOf(s, m) \in nodes \/ unreachableNode(m) \in nodes
      BY <1>2, <1>3
    <3> QED BY <1>3, <1>4, <3>1
  <2> QED BY <2>1, <2>2
<1>10. ASSUME NEW m \in U, NEW n \in nodes, n.port = PortOf[m] PROVE ~n.leader /\ ~n.oldest
  <2>1. m \notin placed(M \ U) /\ m \in Server
    BY <1>1 DEF placed
  <2>2. ~\E k \in placed(M \ U) : n = rowOf(s, k)
    <3> SUFFICES ASSUME NEW k \in placed(M \ U), n = rowOf(s, k) PROVE FALSE
      OBVIOUS
    <3>1. k \in Server BY <1>3
    <3>2. n.port = PortOf[k] BY <1>4, <3>1
    <3> QED BY <1>5, <1>10, <2>1, <3>1, <3>2
  <2>3. PICK k \in placed(U) : n = unreachableNode(k)
    BY <1>6, <2>2
  <2> QED BY <1>3, <1>4, <2>3
<1> QED BY <1>8, <1>9, <1>10 DEF Consistent, U, M, nodes

\* A server that is in the cluster is reachable to itself and has its row; so
\* has the oldest, since it is reachable too.
LEMMA RolesOfServer == ViewInvariant => RolesAreListed
<1> SUFFICES ASSUME ViewInvariant, NEW s \in Server, s \in members(view[s]),
                    members(view[s]) = placed(members(view[s]))
             PROVE  /\ \E n \in loadNodes(s).nodes : n.oldest
                    /\ \E n \in loadNodes(s).nodes : /\ n.port = PortOf[s]
                                                     /\ n.leader = loadNodes(s).leader
                                                     /\ n.oldest = loadNodes(s).oldest
  BY DEF RolesAreListed
<1> DEFINE old == Oldest(s, view[s])
<1>1. \A m \in members(view[s]) \ view[s].unreachable : rowOf(s, m) \in loadNodes(s).nodes
  <2>1. \A m \in members(view[s]) \ view[s].unreachable :
           m \in placed(members(view[s]) \ view[s].unreachable)
    BY DEF placed
  <2> QED BY <2>1, ReportRows
<1>2. s \in members(view[s]) \ view[s].unreachable
  BY DEF ViewInvariant
<1>3. old \in members(view[s]) \ view[s].unreachable
  BY <1>2, OldestIsEldest DEF reachable
<1>4. rowOf(s, old).oldest
  BY DEF rowOf
<1>5. /\ rowOf(s, s).port = PortOf[s]
      /\ rowOf(s, s).leader = loadNodes(s).leader
      /\ rowOf(s, s).oldest = loadNodes(s).oldest
  BY DEF rowOf, loadNodes
<1> QED BY <1>1, <1>2, <1>3, <1>4, <1>5

\* What every view's invariant says of the reports.
LEMMA ReportsFollow == ViewInvariant => ReportIsConsistent
BY ReportOfServer DEF ReportIsConsistent

-----------------------------------------------------------------------------
(* The listener.                                                           *)

\* What the actor reads is a listing of the members it reads.
LEMMA NodesIsListing ==
  ASSUME ViewInvariant, NEW s \in Server
  PROVE  isListing(Nodes(s))
<1>1. /\ members(view[s]) \subseteq Server
      /\ \A m \in members(view[s]) : view[s].members[m] \in Status
  BY ViewFields DEF ViewInvariant, ViewTypeOK
<1>2. \A m \in Server : PortOf[m] \in Range(PortOf)
  BY ServerAssumption DEF Range
<1>3. \A m \in members(view[s]) : Node(s, view[s], m) \in Line
  BY <1>1, <1>2 DEF Node, Line
<1> QED BY <1>1, <1>3 DEF isListing, Nodes

LEMMA NoNodesIsListing == isListing(noNodes)
BY DEF isListing, noNodes

\* The comparison tells listings apart: Node.equals leaves out no field.
LEMMA SameNodesAreEqual ==
  ASSUME NEW a, NEW b, isListing(a), isListing(b), sameNodes(a, b)
  PROVE  a = b
<1>1. DOMAIN a = DOMAIN b /\ a \in [DOMAIN a -> Line] /\ b \in [DOMAIN a -> Line]
  BY DEF isListing, sameNodes
<1>2. ASSUME NEW m \in DOMAIN a PROVE a[m] = b[m]
  <2>1. sameNode(a[m], b[m]) /\ a[m] \in Line /\ b[m] \in Line
    BY <1>1, <1>2 DEF sameNodes
  <2> QED BY <2>1 DEF sameNode, Line
<1> QED BY <1>1, <1>2

\* A step of one server's view leaves the views of the others, and their
\* oldest members: only a server that no view shows up is given a number.
LEMMA OtherViewsStay ==
  ASSUME ViewInvariant, NEW s \in Server, ViewStep(s), NEW t \in Server \ {s}
  PROVE  view'[t] = view[t] /\ Nodes(t)' = Nodes(t)
<1>1. view'[t] = view[t]
  <2>1. CASE \E v : Event(s, v)
    BY <2>1 DEF Event, ViewInvariant, ViewTypeOK
  <2>2. CASE LeaderChanged(s)
    BY <2>2 DEF LeaderChanged, ViewInvariant, ViewTypeOK
  <2>3. CASE StartServer(s)
    BY <2>3 DEF StartServer, ViewInvariant, ViewTypeOK
  <2> QED BY <2>1, <2>2, <2>3 DEF ViewStep, MemberJoined, MemberEvent, MemberRemoved,
             UnreachableMember, ReachableMember, StopServer
<1> DEFINE up == {m \in reachable(view[t]) : view[t].members[m] = "up"}
<1>2. /\ upNumber \in [Server -> Nat] /\ upNumber' \in [Server -> Nat]
      /\ up \in SUBSET Server
  BY ViewStepKeepsInvariant, ViewFields DEF ViewInvariant, ViewTypeOK, reachable
<1>3. \A m \in up : upNumber'[m] = upNumber[m]
  <2>1. CASE upNumber' = upNumber
    BY <2>1
  <2>2. CASE \E n \in Server : MemberEvent(s, n)
    <3>1. PICK n \in Server : MemberEvent(s, n) BY <2>2
    <3>2. \/ upNumber' = upNumber
          \/ /\ ~\E r \in Server : n \in members(view[r]) /\ view[r].members[n] = "up"
             /\ upNumber' = [upNumber EXCEPT ![n] = Max(Range(upNumber)) + 1]
      BY <3>1 DEF MemberEvent
    <3>3. n \in up => \E r \in Server : n \in members(view[r]) /\ view[r].members[n] = "up"
      BY DEF reachable
    <3> QED BY <1>2, <3>2, <3>3
  <2> QED BY <2>1, <2>2 DEF ViewStep, MemberJoined, MemberRemoved, UnreachableMember,
             ReachableMember, LeaderChanged, StartServer, StopServer
<1>4. \A m \in up : upNumber[m] # 0
  BY DEF ViewInvariant, reachable
<1>5. \A m, n \in up : upNumber[m] = upNumber[n] => m = n
  BY <1>2, <1>4 DEF ViewInvariant
<1>6. Oldest(t, view[t])' = Oldest(t, view[t])
  <2>1. /\ Oldest(t, view[t]) = IF up = {} THEN t ELSE eldest(up)
        /\ Oldest(t, view[t])' = IF up = {} THEN t
                                 ELSE CHOOSE m \in up : \A n \in up : upNumber'[m] <= upNumber'[n]
    BY <1>1 DEF Oldest, reachable, members, eldest
  <2> HIDE DEF up
  <2> DEFINE e == CHOOSE m \in up : \A n \in up : upNumber[m] <= upNumber[n]
             f == CHOOSE m \in up : \A n \in up : upNumber'[m] <= upNumber'[n]
  <2>2. up # {} => e \in up /\ \A n \in up : upNumber[e] <= upNumber[n]
    BY <1>2, OneIsEldest
  <2>3. up # {} => f \in up /\ \A n \in up : upNumber'[f] <= upNumber'[n]
    BY <1>2, OneIsEldest
  <2> HIDE DEF e, f
  <2>4. up # {} => upNumber[e] = upNumber[f]
    BY <1>2, <1>3, <2>2, <2>3
  <2>5. up # {} => e = f
    BY <1>5, <2>2, <2>3, <2>4
  <2> QED BY <2>1, <2>5 DEF eldest, e, f
<1> QED BY <1>1, <1>6 DEF Nodes, Node, members

LEMMA ListenerStart == ListenerInit => ListenerInvariant
<1> SUFFICES ASSUME ListenerInit PROVE ListenerInvariant
  OBVIOUS
<1>1. ViewInvariant
  BY ViewInit DEF ListenerInit
<1>2. ListenerTypeOK
  <2>1. \A s \in Server : nodesThen[s] = noNodes /\ logged[s] = noNodes
    BY DEF ListenerInit
  <2> QED BY <1>1, <2>1, NoNodesIsListing DEF ListenerTypeOK, ListenerInit, ViewInvariant
<1> QED BY <1>1, <1>2 DEF ListenerInvariant, ListenerInit, ListingIsCurrent

\* Handling an event: what is written last is what is read now.
LEMMA ListenerHandles ==
  ASSUME ListenerInvariant, NEW s \in Server, logClusterMembers(s)
  PROVE  ListenerInvariant'
<1> USE DEF ListenerInvariant
<1>1. UNCHANGED viewVars
  BY DEF logClusterMembers
<1>2. ViewInvariant'
  BY <1>1 DEF viewVars, ViewInvariant, ViewTypeOK, members
<1>3. \A t \in Server : Nodes(t)' = Nodes(t)
  BY <1>1 DEF viewVars, Nodes, Node, Oldest, eldest, reachable, members
<1>4. isListing(Nodes(s)) /\ isListing(nodesThen[s])
  BY NodesIsListing DEF ListenerTypeOK
<1>5. IF sameNodes(Nodes(s), nodesThen[s]) THEN nodesThen[s] = Nodes(s) ELSE TRUE
  BY <1>4, SameNodesAreEqual
<1>6. logged' = [logged EXCEPT ![s] = Nodes(s)] /\ nodesThen' = [nodesThen EXCEPT ![s] = Nodes(s)]
  BY <1>5 DEF logClusterMembers
<1>7. \A t \in Server : nodesThen'[t] = IF t = s THEN Nodes(s) ELSE nodesThen[t]
  BY <1>6 DEF ListenerTypeOK
<1>8. ListenerTypeOK'
  <2>1. \A t \in Server : isListing(nodesThen'[t])
    BY <1>4, <1>7 DEF ListenerTypeOK
  <2>2. nodesThen' = [t \in Server |-> nodesThen'[t]] /\ fresh' \in [Server -> BOOLEAN]
    BY <1>6 DEF ListenerTypeOK, logClusterMembers
  <2>3. ViewTypeOK'
    BY <1>2 DEF ViewInvariant
  <2>4. \A t \in Server : isListing(nodesThen[t])'
    BY <2>1 DEF isListing
  <2> QED BY <2>2, <2>3, <2>4 DEF ListenerTypeOK
<1>9. ListingIsCurrent'
  <2>1. \A t \in Server : t # s => fresh'[t] = fresh[t]
    BY DEF logClusterMembers, ListenerTypeOK
  <2>2. \A t \in Server : fresh'[t] => logged'[t] = Nodes(t)
    BY <1>6, <1>7, <2>1 DEF ListingIsCurrent
  <2> QED BY <1>3, <2>2 DEF ListingIsCurrent
<1> QED BY <1>2, <1>6, <1>8, <1>9

\* A change of a server's view makes its listing stale, and no other.
LEMMA ListenerWaits ==
  ASSUME ListenerInvariant, NEW s \in Server, ViewStep(s), ListenerAfter(s)
  PROVE  ListenerInvariant'
<1> USE DEF ListenerInvariant
<1>1. ViewInvariant'
  BY ViewStepKeepsInvariant
<1>2. /\ \A t \in Server : fresh'[t] => t # s /\ fresh[t]
      /\ fresh' \in [Server -> BOOLEAN]
  BY DEF ListenerAfter, ListenerTypeOK
<1>3. /\ logged' = nodesThen'
      /\ nodesThen' \in {nodesThen, [nodesThen EXCEPT ![s] = noNodes]}
  BY DEF ListenerAfter
<1>4. /\ \A t \in Server : nodesThen'[t] \in {nodesThen[t], noNodes} /\ (t # s => nodesThen'[t] = nodesThen[t])
      /\ nodesThen' = [t \in Server |-> nodesThen'[t]]
  BY <1>3 DEF ListenerTypeOK
<1>5. \A t \in Server : isListing(nodesThen[t])'
  BY <1>4, NoNodesIsListing DEF ListenerTypeOK, isListing
<1>6. ListingIsCurrent'
  <2> SUFFICES ASSUME NEW t \in Server, fresh'[t] PROVE (logged[t] = Nodes(t))'
    BY DEF ListingIsCurrent
  <2>1. Nodes(t)' = Nodes(t)
    BY <1>2, OtherViewsStay
  <2> QED BY <1>2, <1>3, <1>4, <2>1 DEF ListingIsCurrent
<1> QED BY <1>1, <1>2, <1>3, <1>4, <1>5, <1>6 DEF ListenerTypeOK, ViewInvariant

\* The invariant of the views and the actor, whatever Akka tells a server
\* and in whatever order.
THEOREM ListenerInvariantHolds == ListenerSpec => []ListenerInvariant
<1>1. ListenerInvariant /\ [ListenerNext]_listenerVars => ListenerInvariant'
  <2> SUFFICES ASSUME ListenerInvariant, [ListenerNext]_listenerVars PROVE ListenerInvariant'
    OBVIOUS
  <2>1. CASE ListenerNext
    BY <2>1, ListenerHandles, ListenerWaits DEF ListenerNext
  <2>2. CASE UNCHANGED listenerVars
    <3>1. UNCHANGED <<view, upNumber, events, nodesThen, logged, fresh>>
      BY <2>2 DEF listenerVars
    <3>2. ViewInvariant'
      BY <3>1 DEF ListenerInvariant, ViewInvariant, ViewTypeOK, members
    <3>3. ListenerTypeOK'
      BY <3>1, <3>2 DEF ListenerInvariant, ListenerTypeOK, isListing, ViewInvariant
    <3>4. ListingIsCurrent'
      <4>1. \A s \in Server : Nodes(s)' = Nodes(s)
        BY <3>1 DEF Nodes, Node, Oldest, eldest, reachable, members
      <4> QED BY <3>1, <4>1 DEF ListenerInvariant, ListingIsCurrent
    <3> QED BY <3>1, <3>2, <3>3, <3>4 DEF ListenerInvariant
  <2> QED BY <2>1, <2>2
<1> QED BY <1>1, ListenerStart, PTL DEF ListenerSpec

\* No change of a view is taken for an equal listing (Nodes.equals).
THEOREM LogIsCurrent == ListenerSpec => []ListingIsCurrent
BY ListenerInvariantHolds, PTL DEF ListenerInvariant

\* Every answer at /cluster-state is consistent in itself (loadNodes).
THEOREM ReportsAreConsistent == ListenerSpec => []ReportIsConsistent
<1>1. ListenerInvariant => ReportIsConsistent
  BY ReportsFollow DEF ListenerInvariant
<1> QED BY <1>1, ListenerInvariantHolds, PTL

\* Its head and its rows agree on the roles, and it names an oldest node.
THEOREM RolesAgree == ListenerSpec => []RolesAreListed
<1>1. ListenerInvariant => RolesAreListed
  BY RolesOfServer DEF ListenerInvariant
<1> QED BY <1>1, ListenerInvariantHolds, PTL

-----------------------------------------------------------------------------
(* The dashboard.                                                          *)

\* The operators on rows keep their types, and give a row a role only with a
\* state: an offline row is as clusterStateNodeInit made it.
LEMMA InitialRow == clusterStateNodeInit \in Row /\ ~online(clusterStateNodeInit)
BY DashboardAssumption DEF clusterStateNodeInit, Row, online, state

LEMMA ScannedRows ==
  ASSUME NEW rows \in [Port -> Row]
  PROVE  /\ clusterStateScan(rows) \in [Port -> Row]
         /\ OfflineHasNoRole(clusterStateScan(rows))
         /\ \A p \in Port : online(clusterStateScan(rows)[p]) => online(rows[p])
<1> DEFINE older(p) == [rows[p] EXCEPT !.age = @ + 1]
<1>1. ASSUME NEW p \in Port, online(rows[p]), rows[p].age < OfflineAfter
      PROVE  older(p) \in Row /\ online(older(p))
  BY <1>1, DashboardAssumption DEF Row, online
<1>2. \A p \in Port : clusterStateScan(rows)[p] =
         IF online(rows[p]) /\ rows[p].age < OfflineAfter THEN older(p) ELSE clusterStateNodeInit
  BY DEF clusterStateScan
<1> HIDE DEF older
<1>3. \A p \in Port : clusterStateScan(rows)[p] \in Row
  BY <1>1, <1>2, InitialRow
<1>4. clusterStateScan(rows) \in [Port -> Row]
  BY <1>3 DEF clusterStateScan
<1> QED BY <1>1, <1>2, <1>4, InitialRow DEF OfflineHasNoRole

LEMMA OverlaidRows ==
  ASSUME NEW rows \in [Port -> Row], OfflineHasNoRole(rows), NEW nodes \in SUBSET ReportRow
  PROVE  /\ overlay(rows, nodes) \in [Port -> Row]
         /\ OfflineHasNoRole(overlay(rows, nodes))
<1> DEFINE listed(p) == {n \in nodes : n.port = p}
           node(p) == CHOOSE n \in listed(p) : TRUE
           row(p) == [memberState |-> node(p).memberState, leader |-> node(p).leader,
                      oldest |-> node(p).oldest, age |-> 0]
<1>1. ASSUME NEW p \in Port, listed(p) # {} PROVE row(p) \in Row /\ online(row(p))
  <2>1. node(p) \in ReportRow
    BY <1>1
  <2> HIDE DEF node
  <2> QED BY <2>1, DashboardAssumption DEF ReportRow, Row, online, state, Status
<1>2. \A p \in Port : overlay(rows, nodes)[p] = IF listed(p) = {} THEN rows[p] ELSE row(p)
  BY DEF overlay
<1> HIDE DEF row, listed
<1>3. \A p \in Port : overlay(rows, nodes)[p] \in Row
  BY <1>1, <1>2
<1>4. overlay(rows, nodes) \in [Port -> Row]
  BY <1>3 DEF overlay
<1> QED BY <1>1, <1>2, <1>4 DEF OfflineHasNoRole

LEMMA OldestNodePort ==
  ASSUME NEW nodes \in SUBSET ReportRow
  PROVE  oldestNode(nodes) \in Port \cup {0}
BY DEF oldestNode, ReportRow

\* What a server at a polled port answers is a report.
LEMMA AnswerIsReport ==
  ASSUME ViewInvariant, NEW s \in Server, PortOf[s] \in Port
  PROVE  /\ loadNodes(s) \in Report
         /\ loadNodes(s).selfPort = PortOf[s]
         /\ Consistent(loadNodes(s).nodes)
<1>1. /\ members(view[s]) \subseteq Server /\ view[s].unreachable \subseteq members(view[s])
      /\ \A m \in members(view[s]) : view[s].members[m] \in Status
  BY ViewFields DEF ViewInvariant, ViewTypeOK
<1>2. \A m \in placed(members(view[s])) : rowOf(s, m) \in ReportRow
  BY <1>1 DEF placed, isValidPort, rowOf, ReportRow, Port
<1>3. \A m \in placed(Server) : unreachableNode(m) \in ReportRow
  BY DEF placed, isValidPort, unreachableNode, ReportRow, Port
<1>4. loadNodes(s).nodes \in SUBSET ReportRow
  BY <1>1, <1>2, <1>3, ReportRows DEF placed
<1>5. PICK nodes : nodes = loadNodes(s).nodes
  OBVIOUS
<1>6. loadNodes(s) = [selfPort |-> PortOf[s], leader |-> view[s].leader = s,
                      oldest |-> Oldest(s, view[s]) = s, nodes |-> nodes]
  BY <1>5 DEF loadNodes
<1>7. loadNodes(s) \in Report /\ loadNodes(s).selfPort = PortOf[s]
  BY <1>4, <1>5, <1>6 DEF Report
<1> QED BY <1>7, ReportOfServer

\* Taking a request out of those under way leaves the others.
LEMMA Removed ==
  ASSUME NEW S, NEW seq \in Seq(S), NEW i \in DOMAIN seq
  PROVE  /\ RemoveAt(seq, i) \in Seq(S)
         /\ Len(RemoveAt(seq, i)) = Len(seq) - 1
         /\ \A j \in DOMAIN RemoveAt(seq, i) : \E k \in DOMAIN seq : RemoveAt(seq, i)[j] = seq[k]
<1> DEFINE before == SubSeq(seq, 1, i - 1)
           after == SubSeq(seq, i + 1, Len(seq))
<1>1. i \in 1 .. Len(seq) /\ Len(seq) \in Nat
  OBVIOUS
<1>2. /\ before \in Seq(S) /\ Len(before) = i - 1
      /\ \A j \in 1 .. i - 1 : before[j] = seq[j]
  BY <1>1
<1>3. /\ after \in Seq(S) /\ Len(after) = Len(seq) - i
      /\ \A j \in 1 .. Len(seq) - i : after[j] = seq[i + j]
  BY <1>1
<1>4. RemoveAt(seq, i) = before \o after
  BY DEF RemoveAt
<1> HIDE DEF before, after
<1>5. /\ before \o after \in Seq(S) /\ Len(before \o after) = Len(seq) - 1
      /\ \A j \in 1 .. Len(seq) - 1 :
            (before \o after)[j] = IF j < i THEN before[j] ELSE after[j - (i - 1)]
  <2>1. before \in Seq(S) /\ after \in Seq(S) /\ Len(before) = i - 1 /\ Len(after) = Len(seq) - i
    BY <1>2, <1>3
  <2>2. /\ before \o after \in Seq(S)
        /\ Len(before \o after) = Len(before) + Len(after)
        /\ \A j \in 1 .. Len(before) + Len(after) :
              (before \o after)[j] = IF j <= Len(before) THEN before[j]
                                                         ELSE after[j - Len(before)]
    BY <2>1, ConcatProperties, Zenon
  <2>3. /\ Len(before) + Len(after) = Len(seq) - 1
        /\ \A j \in 1 .. Len(seq) - 1 : j < i <=> j <= Len(before)
    BY <1>1, <2>1
  <2> QED
    BY <2>1, <2>2, <2>3
<1>6. \A j \in 1 .. Len(seq) - 1 : \E k \in 1 .. Len(seq) : (before \o after)[j] = seq[k]
  <2> SUFFICES ASSUME NEW j \in 1 .. Len(seq) - 1
               PROVE  \E k \in 1 .. Len(seq) : (before \o after)[j] = seq[k]
    OBVIOUS
  <2>1. CASE j < i
    BY <1>1, <1>2, <1>5, <2>1
  <2>2. CASE ~(j < i)
    <3>1. j - (i - 1) \in 1 .. Len(seq) - i /\ j + 1 \in 1 .. Len(seq)
      BY <1>1, <2>2
    <3>2. after[j - (i - 1)] = seq[j + 1]
      <4>1. i + (j - (i - 1)) = j + 1 BY <1>1
      <4> QED BY <1>3, <3>1, <4>1
    <3> QED BY <1>5, <2>2, <3>1, <3>2
  <2> QED BY <2>1, <2>2
<1>7. DOMAIN (before \o after) = 1 .. Len(seq) - 1 /\ DOMAIN seq = 1 .. Len(seq)
  BY <1>5
<1> QED BY <1>4, <1>5, <1>6, <1>7

\* What the page's steps leave alone.
LEMMA ViewsStay ==
  ASSUME ViewInvariant, UNCHANGED <<view, upNumber, events>>
  PROVE  ViewInvariant'
BY DEF ViewInvariant, ViewTypeOK, members

LEMMA DashboardStart == DashboardInit => DashboardInvariant
<1> SUFFICES ASSUME DashboardInit PROVE DashboardInvariant
  OBVIOUS
<1>1. ViewInvariant
  BY ViewInit DEF DashboardInit
<1>2. /\ summary = [leader |-> 0, oldest |-> 0, nodes |-> [p \in Port |-> clusterStateNodeInit]]
      /\ memberRows = [p \in Port |-> [q \in Port |-> clusterStateNodeInit]]
      /\ inFlight = [p \in Port |-> <<>>]
  BY DEF DashboardInit, clusterStateInit
<1>3. DashboardTypeOK
  <2>1. inFlight \in [Port -> Seq(Request)] /\ \A p \in Port : Len(inFlight[p]) <= MaxInFlight
    BY <1>2, DashboardAssumption
  <2> QED BY <1>1, <1>2, <2>1, InitialRow DEF DashboardTypeOK, ViewInvariant
<1>4. AnswersAreReports
  BY <1>2 DEF AnswersAreReports
<1>5. SummaryIsBacked
  BY <1>2, InitialRow DEF SummaryIsBacked
<1> QED BY <1>1, <1>2, <1>3, <1>4, <1>5 DEF DashboardInvariant, OfflineHasNoRole

\* The timer: rows only go offline, and the requests that go out are new.
LEMMA TimerFires ==
  ASSUME DashboardInvariant, requestClusterStateInterval
  PROVE  DashboardInvariant'
<1> USE DEF DashboardInvariant
<1>1. ViewInvariant'
  BY ViewsStay DEF requestClusterStateInterval, viewVars
<1>2. /\ summary' = [summary EXCEPT !.nodes = clusterStateScan(summary.nodes)]
      /\ memberRows' = [p \in Port |-> clusterStateScan(memberRows[p])]
      /\ \A p \in Port : Len(inFlight[p]) < MaxInFlight
      /\ inFlight' = [p \in Port |-> Append(inFlight[p], asked)]
  BY DEF requestClusterStateInterval, DashboardTypeOK
<1>3. /\ summary.nodes \in [Port -> Row]
      /\ \A p \in Port : memberRows[p] \in [Port -> Row]
  BY DEF DashboardTypeOK
<1>4. /\ summary'.leader = summary.leader /\ summary'.oldest = summary.oldest
      /\ summary'.nodes = clusterStateScan(summary.nodes)
      /\ summary' \in [leader : Port \cup {0}, oldest : Port \cup {0}, nodes : [Port -> Row]]
  BY <1>2, <1>3, ScannedRows DEF DashboardTypeOK
<1>5. \A p \in Port : /\ inFlight[p] \in Seq(Request)
                      /\ inFlight'[p] = Append(inFlight[p], asked)
  BY <1>2 DEF DashboardTypeOK
<1>6. \A p \in Port : /\ inFlight'[p] \in Seq(Request)
                      /\ Len(inFlight'[p]) <= MaxInFlight
  BY <1>2, <1>5, DashboardAssumption DEF Request
<1>7. DashboardTypeOK'
  <2>1. memberRows' \in [Port -> [Port -> Row]]
    BY <1>2, <1>3, ScannedRows
  <2>2. inFlight' \in [Port -> Seq(Request)]
    BY <1>2, <1>6
  <2> QED BY <1>1, <1>4, <1>6, <2>1, <2>2 DEF DashboardTypeOK, ViewInvariant
<1>8. OfflineHasNoRole(summary.nodes)' /\ (\A p \in Port : OfflineHasNoRole(memberRows[p]))'
  <2>1. OfflineHasNoRole(summary'.nodes)
    BY <1>3, <1>4, ScannedRows
  <2>2. \A p \in Port : OfflineHasNoRole(memberRows'[p])
    BY <1>2, <1>3, ScannedRows
  <2> QED BY <2>1, <2>2 DEF OfflineHasNoRole
<1>9. AnswersAreReports'
  <2> SUFFICES ASSUME NEW p \in Port, NEW i \in DOMAIN inFlight'[p],
                      inFlight'[p][i].stage = "answered"
               PROVE  /\ inFlight'[p][i].report.selfPort = p
                      /\ Consistent(inFlight'[p][i].report.nodes)
    BY DEF AnswersAreReports, Consistent
  <2>1. i \in DOMAIN inFlight[p] /\ inFlight'[p][i] = inFlight[p][i]
    BY <1>5 DEF asked
  <2> QED BY <2>1 DEF AnswersAreReports
<1>10. SummaryIsBacked'
  <2>1. \A p \in Port : online(summary'.nodes[p]) => online(summary.nodes[p])
    BY <1>3, <1>4, ScannedRows
  <2> QED BY <1>4, <2>1 DEF SummaryIsBacked, online
<1> QED BY <1>1, <1>7, <1>8, <1>9, <1>10

\* A request under way gets an answer, a consistent report of the server at the
\* port, or a failure.
LEMMA RequestSettled ==
  ASSUME DashboardInvariant, ViewInvariant', UNCHANGED <<summary, memberRows>>,
         NEW p \in Port, NEW i \in DOMAIN inFlight[p], NEW answer \in Request,
         inFlight' = [inFlight EXCEPT ![p][i] = answer],
         answer.stage = "answered" => /\ answer.report.selfPort = p
                                      /\ Consistent(answer.report.nodes)
  PROVE  DashboardInvariant'
<1> USE DEF DashboardInvariant
<1>1. inFlight[p] \in Seq(Request) /\ i \in 1 .. Len(inFlight[p])
  BY DEF DashboardTypeOK
<1>2. inFlight' = [inFlight EXCEPT ![p] = [inFlight[p] EXCEPT ![i] = answer]]
  OBVIOUS
<1>3. /\ [inFlight[p] EXCEPT ![i] = answer] \in Seq(Request)
      /\ Len([inFlight[p] EXCEPT ![i] = answer]) = Len(inFlight[p])
      /\ DOMAIN [inFlight[p] EXCEPT ![i] = answer] = DOMAIN inFlight[p]
  BY <1>1
<1>4. inFlight' \in [Port -> Seq(Request)] /\ \A q \in Port : Len(inFlight'[q]) <= MaxInFlight
  BY <1>2, <1>3 DEF DashboardTypeOK
<1>5. DashboardTypeOK'
  BY <1>4 DEF DashboardTypeOK, ViewInvariant
<1>6. AnswersAreReports'
  <2> SUFFICES ASSUME NEW q \in Port, NEW j \in DOMAIN inFlight'[q],
                      inFlight'[q][j].stage = "answered"
               PROVE  /\ inFlight'[q][j].report.selfPort = q
                      /\ Consistent(inFlight'[q][j].report.nodes)
    BY DEF AnswersAreReports, Consistent
  <2>1. CASE q = p /\ j = i
    BY <1>1, <1>2, <2>1 DEF DashboardTypeOK
  <2>2. CASE ~(q = p /\ j = i)
    <3>1. j \in DOMAIN inFlight[q] /\ inFlight'[q][j] = inFlight[q][j]
      BY <1>1, <1>2, <1>3, <2>2 DEF DashboardTypeOK
    <3> QED BY <3>1 DEF AnswersAreReports
  <2> QED BY <2>1, <2>2
<1> QED BY <1>5, <1>6 DEF OfflineHasNoRole, SummaryIsBacked, online

\* The server's part: an answer is a report of what the server sees now.
LEMMA ServerAnswers ==
  ASSUME DashboardInvariant, NEW p \in Port, NEW i \in DOMAIN inFlight[p], Answer(p, i)
  PROVE  DashboardInvariant'
<1> DEFINE server == CHOOSE s \in serving(p) : TRUE
<1>1. UNCHANGED <<view, upNumber, events, summary, memberRows>>
  BY DEF Answer
<1>2. ViewInvariant'
  BY <1>1, ViewsStay DEF DashboardInvariant
<1>3. CASE serving(p) = {}
  <2>1. inFlight' = [inFlight EXCEPT ![p][i] = failed]
    BY <1>3 DEF Answer
  <2>2. failed \in Request /\ failed.stage # "answered"
    BY DEF failed, Request
  <2> QED BY <1>1, <1>2, <2>1, <2>2, RequestSettled
<1>4. CASE serving(p) # {}
  <2>1. server \in Server /\ PortOf[server] = p
    BY <1>4 DEF serving
  <2>2. inFlight' = [inFlight EXCEPT ![p][i] =
                       [stage |-> "answered", report |-> loadNodes(server)]]
    BY <1>4 DEF Answer
  <2> HIDE DEF server
  <2>3. /\ loadNodes(server) \in Report /\ loadNodes(server).selfPort = p
        /\ Consistent(loadNodes(server).nodes)
    BY <2>1, AnswerIsReport DEF DashboardInvariant
  <2>4. [stage |-> "answered", report |-> loadNodes(server)] \in Request
    BY <2>3 DEF Request
  <2> QED BY <1>1, <1>2, <2>2, <2>3, <2>4, RequestSettled
<1> QED BY <1>3, <1>4

\* A request to a running server that fails tells the page nothing.
LEMMA ServerFails ==
  ASSUME DashboardInvariant, NEW p \in Port, NEW i \in DOMAIN inFlight[p], RequestFails(p, i)
  PROVE  DashboardInvariant'
<1>1. /\ UNCHANGED <<view, upNumber, summary, memberRows>>
      /\ inFlight' = [inFlight EXCEPT ![p][i] = failed]
      /\ events < MaxEvents /\ events' = events + 1
  BY DEF RequestFails
<1>2. events' \in 0 .. MaxEvents
  BY <1>1, ServerAssumption DEF DashboardInvariant, ViewInvariant, ViewTypeOK
<1>3. ViewInvariant'
  BY <1>1, <1>2 DEF DashboardInvariant, ViewInvariant, ViewTypeOK
<1>4. failed \in Request /\ failed.stage # "answered"
  BY DEF failed, Request
<1> QED BY <1>1, <1>3, <1>4, RequestSettled

\* A callback runs once for each request: the request is under way no longer.
LEMMA RequestHandled ==
  ASSUME DashboardInvariant, NEW p \in Port, NEW i \in DOMAIN inFlight[p], Handled(p, i)
  PROVE  /\ inFlight' \in [Port -> Seq(Request)]
         /\ \A q \in Port : Len(inFlight'[q]) <= MaxInFlight
         /\ AnswersAreReports'
<1> DEFINE left == RemoveAt(inFlight[p], i)
<1>1. inFlight \in [Port -> Seq(Request)] /\ \A q \in Port : Len(inFlight[q]) <= MaxInFlight
  BY DEF DashboardInvariant, DashboardTypeOK
<1>2. inFlight' = [inFlight EXCEPT ![p] = left]
  BY <1>1 DEF Handled
<1>3. /\ left \in Seq(Request) /\ Len(left) = Len(inFlight[p]) - 1
      /\ \A j \in DOMAIN left : \E k \in DOMAIN inFlight[p] : left[j] = inFlight[p][k]
  BY <1>1, Removed
<1> HIDE DEF left
<1>4. inFlight' \in [Port -> Seq(Request)]
  BY <1>1, <1>2, <1>3
<1>5. \A q \in Port : Len(inFlight'[q]) <= MaxInFlight
  BY <1>1, <1>2, <1>3, DashboardAssumption
<1>6. ASSUME NEW q \in Port, NEW j \in DOMAIN inFlight'[q]
      PROVE  \E k \in DOMAIN inFlight[q] : inFlight'[q][j] = inFlight[q][k]
  BY <1>1, <1>2, <1>3
<1>7. AnswersAreReports'
  BY <1>6 DEF DashboardInvariant, AnswersAreReports, Consistent
<1> QED BY <1>4, <1>5, <1>7

\* An answer arrives: a new summary is one leader's, with that leader's port.
LEMMA AnswerArrives ==
  ASSUME DashboardInvariant, NEW p \in Port, NEW i \in DOMAIN inFlight[p],
         clusterStateUpdateNode(p, i)
  PROVE  DashboardInvariant'
<1> USE DEF DashboardInvariant
<1>1. ViewInvariant' /\ Handled(p, i)
  BY ViewsStay DEF clusterStateUpdateNode, viewVars
<1>2. PICK report : report = inFlight[p][i].report
  OBVIOUS
<1>3. report \in Report /\ report.selfPort = p
  <2>1. inFlight[p][i] \in Request /\ inFlight[p][i].stage = "answered"
    BY DEF DashboardTypeOK, clusterStateUpdateNode
  <2>2. inFlight[p][i] \in [stage : {"answered"}, report : Report]
    BY <2>1 DEF Request, asked, failed
  <2> QED BY <1>2, <2>1, <2>2 DEF AnswersAreReports
<1>4. /\ memberRows' = [memberRows EXCEPT ![p] = overlay(memberRows[p], report.nodes)]
      /\ clusterStateUpdateSummary(report)
  BY <1>2, <1>3 DEF clusterStateUpdateNode, DashboardTypeOK
<1>5. /\ report.nodes \in SUBSET ReportRow
      /\ p # 0
  BY <1>3, DashboardAssumption DEF Report, Port
<1>6. /\ memberRows' \in [Port -> [Port -> Row]]
      /\ \A q \in Port : OfflineHasNoRole(memberRows'[q])
  <2>1. /\ overlay(memberRows[p], report.nodes) \in [Port -> Row]
        /\ OfflineHasNoRole(overlay(memberRows[p], report.nodes))
    BY <1>5, OverlaidRows DEF DashboardTypeOK
  <2> QED BY <1>4, <2>1 DEF DashboardTypeOK
<1>7. /\ summary' \in [leader : Port \cup {0}, oldest : Port \cup {0}, nodes : [Port -> Row]]
      /\ OfflineHasNoRole(summary'.nodes)
      /\ summary' = summary \/ summary'.leader # 0
  <2>1. CASE summary' = summary
    BY <2>1 DEF DashboardTypeOK
  <2>2. CASE summary' # summary
    <3>1. PICK oldest \in Port \cup {0} :
             summary' = [leader |-> report.selfPort, oldest |-> oldest,
                         nodes |-> overlay(summary.nodes, report.nodes)]
      BY <1>4, <1>5, <2>2, OldestNodePort DEF clusterStateUpdateSummary, DashboardTypeOK
    <3>2. /\ overlay(summary.nodes, report.nodes) \in [Port -> Row]
          /\ OfflineHasNoRole(overlay(summary.nodes, report.nodes))
      BY <1>5, OverlaidRows DEF DashboardTypeOK
    <3> QED BY <1>3, <1>5, <3>1, <3>2
  <2> QED BY <2>1, <2>2
<1>8. DashboardTypeOK' /\ AnswersAreReports'
  BY <1>1, <1>6, <1>7, RequestHandled DEF DashboardTypeOK, ViewInvariant
<1>9. SummaryIsBacked'
  BY <1>7 DEF SummaryIsBacked, online
<1>10. OfflineHasNoRole(summary.nodes)' /\ (\A q \in Port : OfflineHasNoRole(memberRows[q]))'
  BY <1>6, <1>7 DEF OfflineHasNoRole
<1> QED BY <1>1, <1>8, <1>9, <1>10

\* The failure arrives: the leader is taken off the page only with its last node.
LEMMA FailureArrives ==
  ASSUME DashboardInvariant, NEW p \in Port, NEW i \in DOMAIN inFlight[p],
         requestClusterStateFromNodeError(p, i)
  PROVE  DashboardInvariant'
<1> USE DEF DashboardInvariant
<1>1. ViewInvariant' /\ Handled(p, i) /\ memberRows' = memberRows
  BY ViewsStay DEF requestClusterStateFromNodeError
<1>2. CASE summary' = summary
  BY <1>1, <1>2, RequestHandled
     DEF DashboardTypeOK, ViewInvariant, OfflineHasNoRole, SummaryIsBacked, online
<1>3. CASE summary' # summary
  <2>1. /\ inState(summary.nodes, "offline") = Port
        /\ summary' = [summary EXCEPT !.leader = 0, !.oldest = 0]
    BY <1>3 DEF requestClusterStateFromNodeError
  <2>2. \A q \in Port : ~online(summary.nodes[q])
    BY <2>1 DEF inState, online
  <2>3. /\ summary' \in [leader : Port \cup {0}, oldest : Port \cup {0}, nodes : [Port -> Row]]
        /\ summary'.nodes = summary.nodes /\ summary'.oldest = 0
    BY <2>1 DEF DashboardTypeOK
  <2>4. DashboardTypeOK' /\ AnswersAreReports'
    BY <1>1, <2>3, RequestHandled DEF DashboardTypeOK, ViewInvariant
  <2>5. SummaryIsBacked'
    BY <2>2, <2>3 DEF SummaryIsBacked, online
  <2> QED BY <1>1, <2>3, <2>4, <2>5 DEF OfflineHasNoRole
<1> QED BY <1>2, <1>3

LEMMA ClusterMoves ==
  ASSUME DashboardInvariant, NEW s \in Server, ViewStep(s), UNCHANGED pageVars
  PROVE  DashboardInvariant'
<1>1. ViewInvariant'
  BY ViewStepKeepsInvariant DEF DashboardInvariant
<1>2. UNCHANGED <<inFlight, summary, memberRows>>
  BY DEF pageVars
<1>3. DashboardTypeOK' /\ AnswersAreReports'
  BY <1>1, <1>2 DEF DashboardInvariant, DashboardTypeOK, ViewInvariant,
                    AnswersAreReports, Consistent
<1> QED BY <1>1, <1>2, <1>3
        DEF DashboardInvariant, OfflineHasNoRole, SummaryIsBacked, online

\* The page, over any cluster and with answers in any order.
THEOREM DashboardInvariantHolds == DashboardSpec => []DashboardInvariant
<1>1. DashboardInvariant /\ [DashboardNext]_dashboardVars => DashboardInvariant'
  <2> SUFFICES ASSUME DashboardInvariant, [DashboardNext]_dashboardVars
               PROVE  DashboardInvariant'
    OBVIOUS
  <2>1. CASE ClusterStep
    BY <2>1, ClusterMoves DEF ClusterStep
  <2>2. CASE requestClusterStateInterval
    BY <2>2, TimerFires
  <2>3. ASSUME NEW p \in Port, Serve(p) PROVE DashboardInvariant'
    BY <2>3, ServerAnswers DEF Serve
  <2>4. ASSUME NEW p \in Port, Receive(p) PROVE DashboardInvariant'
    BY <2>4, AnswerArrives, FailureArrives DEF Receive
  <2>5. CASE RequestsFail
    BY <2>5, ServerFails DEF RequestsFail
  <2>6. CASE UNCHANGED dashboardVars
    <3>1. UNCHANGED <<view, upNumber, events, inFlight, summary, memberRows>>
      BY <2>6 DEF dashboardVars
    <3>2. ViewInvariant'
      BY <3>1, ViewsStay DEF DashboardInvariant
    <3> QED BY <3>1, <3>2 DEF DashboardInvariant, DashboardTypeOK, ViewInvariant,
              AnswersAreReports, Consistent, OfflineHasNoRole, SummaryIsBacked, online
  <2> QED BY <2>1, <2>2, <2>3, <2>4, <2>5, <2>6 DEF DashboardNext, PageStep
<1> QED BY <1>1, DashboardStart, PTL DEF DashboardSpec

\* What is shown has a leader, and the oldest node is shown beside one only.
THEOREM SummaryHasLeader == DashboardSpec => []SummaryIsBacked
BY DashboardInvariantHolds, PTL DEF DashboardInvariant
=============================================================================
