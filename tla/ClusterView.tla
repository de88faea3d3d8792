---------------------------- MODULE ClusterView ----------------------------
(* What each server knows of the cluster, and the answer it gives at        *)
(* /cluster-state (CommandServerImpl).                                      *)
(*                                                                          *)
(* Akka keeps, in every server, a read view of the membership. It is fed    *)
(* one event at a time, so that the leader it names may lag behind the      *)
(* members it lists. The views of two servers need not agree. This part is  *)
(* external: it is the weakest behaviour the report must cope with.         *)
(*                                                                          *)
(* A server is named by the rank of its address. All of them run on one     *)
(* host, the deployment the dashboard polls, so their ports differ.         *)
EXTENDS Integers, FiniteSets, FiniteSetsExt

CONSTANTS
  Server,       \* servers, numbered in the order of their addresses
  PortOf,       \* the remoting port of each server
  ValidPort,    \* the ports the dashboard has a place for: 2551 .. 2559
  MaxEvents     \* bound on the membership events of a behaviour

ASSUME ServerAssumption ==
  /\ Server \subseteq Nat \ {0} /\ IsFiniteSet(Server)
  /\ PortOf \in [Server -> Nat \ {0}]
  /\ \A s, t \in Server : PortOf[s] = PortOf[t] => s = t
  /\ MaxEvents \in Nat

VARIABLES
  view,         \* view[s]: Cluster.state() at server s
  upNumber,     \* when a server became up, 0 if it never did (Member.isOlderThan)
  events        \* membership events so far

viewVars == <<view, upNumber, events>>

None == 0

Status == {"joining", "weaklyup", "up", "leaving", "exiting", "down"}

(* How far a member is along its life, for the events a view can see.       *)
Rank == [joining |-> 1, weaklyup |-> 2, up |-> 3, leaving |-> 4, exiting |-> 5, down |-> 6]

(* A running server always has a view; it is empty until the server joins.  *)
View == [running : BOOLEAN, members : UNION {[M -> Status] : M \in SUBSET Server},
         unreachable : SUBSET Server, leader : Server \cup {None}]

stopped == [running |-> FALSE, members |-> [m \in {} |-> "up"], unreachable |-> {}, leader |-> None]

members(v) == DOMAIN v.members

reachable(v) == members(v) \ v.unreachable

---------------------------------------------------------------------------
(* The membership, as Akka maintains it.                                    *)

(* Akka's choice of leader: the lowest address that is up or leaving, and   *)
(* before there is one the member nearest to being up.                      *)
LeaderRank(status) ==
  CASE status \in {"up", "leaving"} -> 1
    [] status = "weaklyup" -> 2
    [] status = "joining" -> 3
    [] status = "exiting" -> 4
    [] status = "down" -> 5

LeaderOf(s, v) ==
  LET candidates == {m \in reachable(v) : v.members[m] # "down" \/ m = s}
      best == {m \in candidates : \A n \in candidates :
                 LeaderRank(v.members[m]) <= LeaderRank(v.members[n])}
  IN IF candidates = {} THEN None ELSE Min(best)

(* The cluster has formed: every view is the same and has its leader. Some  *)
(* servers may still be joining, others not started.                        *)
Init ==
  \E R \in SUBSET Server : \E status \in [R -> {"joining", "up"}] :
    /\ view = [s \in Server |->
         LET v == [running |-> TRUE, members |-> status, unreachable |-> {}, leader |-> None]
         IN IF s \in R THEN [v EXCEPT !.leader = LeaderOf(s, v)] ELSE stopped]
    /\ upNumber = [s \in Server |-> IF s \in R /\ status[s] = "up" THEN s ELSE 0]
    /\ events = 0

Event(s, v) ==
  /\ view[s].running
  /\ events < MaxEvents
  /\ events' = events + 1
  /\ view' = [view EXCEPT ![s] = v]

(* A server hears of a new member, itself included.                         *)
MemberJoined(s, m) ==
  /\ view[m].running
  /\ m \notin members(view[s])
  /\ Event(s, [view[s] EXCEPT !.members =
                [n \in members(view[s]) \cup {m} |-> IF n = m THEN "joining" ELSE @[n]]])
  /\ UNCHANGED upNumber

(* A member has moved on; a view may miss the stages in between. A member   *)
(* is younger than all that were up before it.                              *)
MemberEvent(s, m) ==
  /\ m \in members(view[s])
  /\ \E status \in Status :
       /\ Rank[status] > Rank[view[s].members[m]]
       /\ Event(s, [view[s] EXCEPT !.members[m] = status])
       /\ LET known == \E t \in Server : m \in members(view[t]) /\ view[t].members[m] = "up"
          IN upNumber' = IF status = "up" /\ ~known
                         THEN [upNumber EXCEPT ![m] = Max(Range(upNumber)) + 1]
                         ELSE upNumber

(* An exiting or downed member is gone; a server can see its own removal.   *)
MemberRemoved(s, m) ==
  /\ m \in members(view[s])
  /\ view[s].members[m] \in {"exiting", "down"}
  /\ Event(s, [view[s] EXCEPT !.members = [n \in members(view[s]) \ {m} |-> @[n]],
                              !.unreachable = @ \ {m}])
  /\ UNCHANGED upNumber

(* The failure detector: no server finds itself unreachable.                *)
UnreachableMember(s, m) ==
  /\ m \in reachable(view[s]) \ {s}
  /\ Event(s, [view[s] EXCEPT !.unreachable = @ \cup {m}])
  /\ UNCHANGED upNumber

ReachableMember(s, m) ==
  /\ m \in view[s].unreachable
  /\ Event(s, [view[s] EXCEPT !.unreachable = @ \ {m}])
  /\ UNCHANGED upNumber

(* The read view catches up with the leader: an event of its own, which     *)
(* follows the ones that changed it and is therefore not counted.           *)
LeaderChanged(s) ==
  /\ view[s].running
  /\ view[s].leader # LeaderOf(s, view[s])
  /\ view' = [view EXCEPT ![s].leader = LeaderOf(s, view[s])]
  /\ UNCHANGED <<upNumber, events>>

(* A server starts, crashes or shuts down.                                  *)
StartServer(s) ==
  /\ ~view[s].running
  /\ events < MaxEvents
  /\ events' = events + 1
  /\ view' = [view EXCEPT ![s] = [stopped EXCEPT !.running = TRUE]]
  /\ UNCHANGED upNumber

StopServer(s) ==
  /\ Event(s, stopped)
  /\ UNCHANGED upNumber

ViewStep(s) ==
  \/ \E m \in Server : \/ MemberJoined(s, m) \/ MemberEvent(s, m) \/ MemberRemoved(s, m)
                       \/ UnreachableMember(s, m) \/ ReachableMember(s, m)
  \/ LeaderChanged(s)
  \/ StartServer(s)
  \/ StopServer(s)

---------------------------------------------------------------------------
(* The report of a server.                                                  *)

isValidPort(port) == port \in ValidPort

placed(M) == {m \in M : isValidPort(PortOf[m])}

eldest(up) == CHOOSE m \in up : \A n \in up : upNumber[m] <= upNumber[n]

(* The filter on unreachable members is forgotten.                          *)
MutOldestMayBeUnreachable(s, v) ==
  LET up == {m \in members(v) : v.members[m] = "up"}
  IN IF up = {} THEN s ELSE eldest(up)

(* The oldest member that is up and reachable; failing that, the server.    *)
Oldest(s, v) ==
  LET up == {m \in reachable(v) : v.members[m] = "up"}
  IN IF up = {} THEN s ELSE eldest(up)

(* Nodes.add, of every member: the rows for which the dashboard has a place.*)
add(s, v) ==
  {[port |-> PortOf[m], memberState |-> v.members[m],
    leader |-> v.leader = m, oldest |-> Oldest(s, v) = m] : m \in placed(members(v))}

unreachableNode(m) ==
  [port |-> PortOf[m], memberState |-> "unreachable", leader |-> FALSE, oldest |-> FALSE]

(* The row of the reachable member stays.                                   *)
MutUnreachableIsAppended(nodes, M) == nodes \cup {unreachableNode(m) : m \in placed(M)}

(* Nodes.addUnreachable, of every unreachable member: its row takes the     *)
(* place of the one with the same port, and claims no role.                 *)
addUnreachable(nodes, M) ==
  {n \in nodes : \A m \in placed(M) : n.port # PortOf[m]}
    \cup {unreachableNode(m) : m \in placed(M)}

(* The answer at /cluster-state. The order of its rows plays no part.       *)
loadNodes(s) ==
  LET v == view[s]
  IN [selfPort |-> PortOf[s],
      leader |-> v.leader = s,
      oldest |-> Oldest(s, v) = s,
      nodes |-> addUnreachable(add(s, v), v.unreachable)]

---------------------------------------------------------------------------
ViewTypeOK ==
  /\ view \in [Server -> View]
  /\ upNumber \in [Server -> Nat]
  /\ events \in 0 .. MaxEvents

(* A view marks only members unreachable, and never the server's own; a     *)
(* member that is up has a number, and no other server has the same: there  *)
(* is one eldest.                                                           *)
ViewInvariant ==
  /\ ViewTypeOK
  /\ \A s \in Server : view[s].unreachable \subseteq members(view[s]) \ {s}
  /\ \A s \in Server : \A m \in members(view[s]) :
        view[s].members[m] = "up" => upNumber[m] # 0
  /\ \A m, n \in Server : upNumber[m] = upNumber[n] => m = n \/ upNumber[m] = 0

(* One row for each port, at most one leader and one oldest.                *)
Consistent(nodes) ==
  \A a, b \in nodes : \/ a = b
                      \/ /\ a.port # b.port
                         /\ ~(a.leader /\ b.leader)
                         /\ ~(a.oldest /\ b.oldest)

(* A report has one row for each member with a place on the dashboard, at   *)
(* most one leader and one oldest, and gives no unreachable member a role:  *)
(* the dashboard picks "the" oldest out of it.                              *)
ReportIsConsistent ==
  \A s \in {t \in Server : view[t].running} :
    LET nodes == loadNodes(s).nodes
    IN /\ Consistent(nodes)
       /\ {n.port : n \in nodes} = {PortOf[m] : m \in placed(members(view[s]))}
       /\ \A m \in view[s].unreachable : \A n \in nodes :
            n.port = PortOf[m] => ~n.leader /\ ~n.oldest

(* A server that is in the cluster, and whose members all have a place,     *)
(* names an oldest member, and claims to be the oldest or the leader        *)
(* exactly when its own row does: dashboard.js takes the role from the      *)
(* report's head and the oldest from its rows.                              *)
RolesAreListed ==
  \A s \in {t \in Server : t \in members(view[t])} :
    LET report == loadNodes(s)
    IN members(view[s]) = placed(members(view[s])) =>
         /\ \E n \in report.nodes : n.oldest
         /\ \E n \in report.nodes : /\ n.port = PortOf[s]
                                    /\ n.leader = report.leader
                                    /\ n.oldest = report.oldest
=============================================================================
