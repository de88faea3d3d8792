-------------------------- MODULE ClusterListener --------------------------
(* ClusterListenerActor: on every cluster event it reads Cluster.state()    *)
(* and, when the listing has changed, writes it to the log.                 *)
(*                                                                          *)
(* The events reach the actor and Akka's read view separately, so the view  *)
(* the actor reads may be the one before the event it handles, or one that  *)
(* is several events ahead.                                                 *)
EXTENDS ClusterView

VARIABLES
  nodesThen,    \* nodesThen[s]: the listing the actor read last
  logged,       \* logged[s]: the listing it wrote to the log last
  fresh         \* history: the server's view has not changed since then

listenerVars == <<view, upNumber, events, nodesThen, logged, fresh>>

(* A line of the listing.                                                   *)
Node(s, v, m) == [port |-> PortOf[m], memberStatus |-> v.members[m],
                  leader |-> v.leader = m, oldest |-> Oldest(s, v) = m,
                  unreachable |-> m \in v.unreachable]

(* Nodes.init: a line for each member. Akka lists members by address, so    *)
(* that two listings of the same members name them in the same order.       *)
Nodes(s) == [m \in members(view[s]) |-> Node(s, view[s], m)]

noNodes == [m \in {} |-> {}]

(* The mark of an unreachable member is left out of the comparison.         *)
MutSameNodeIgnoresUnreachable(a, b) ==
  /\ a.leader = b.leader
  /\ a.memberStatus = b.memberStatus
  /\ a.oldest = b.oldest
  /\ a.port = b.port

(* Node.equals, and Nodes.equals: the lists are equal line by line.         *)
sameNode(a, b) ==
  /\ a.leader = b.leader
  /\ a.memberStatus = b.memberStatus
  /\ a.oldest = b.oldest
  /\ a.port = b.port
  /\ a.unreachable = b.unreachable

(* Two listings of the same members count as equal.                         *)
MutSameNodesByMembers(a, b) == DOMAIN a = DOMAIN b

sameNodes(a, b) ==
  /\ DOMAIN a = DOMAIN b
  /\ \A m \in DOMAIN a : sameNode(a[m], b[m])

ListenerInit ==
  /\ Init
  /\ nodesThen = [s \in Server |-> noNodes]
  /\ logged = [s \in Server |-> noNodes]
  /\ fresh = [s \in Server |-> FALSE]

(* logClusterEvent, logClusterMembers. A listing without a node leaves no   *)
(* line in the log.                                                         *)
logClusterMembers(s) ==
  /\ view[s].running
  /\ logged' = [logged EXCEPT ![s] = IF sameNodes(Nodes(s), nodesThen[s]) THEN @ ELSE Nodes(s)]
  /\ nodesThen' = [nodesThen EXCEPT ![s] = Nodes(s)]
  /\ fresh' = [fresh EXCEPT ![s] = TRUE]
  /\ UNCHANGED viewVars

(* A change of a server's view. The actor stops with its server, and a new  *)
(* one starts with nothing read.                                            *)
ListenerAfter(s) ==
  /\ fresh' = [fresh EXCEPT ![s] = FALSE]
  /\ IF view'[s].running THEN UNCHANGED <<nodesThen, logged>>
     ELSE /\ nodesThen' = [nodesThen EXCEPT ![s] = noNodes]
          /\ logged' = [logged EXCEPT ![s] = noNodes]

ListenerNext == \E s \in Server : \/ ViewStep(s) /\ ListenerAfter(s)
                                  \/ logClusterMembers(s)

ListenerSpec == ListenerInit /\ [][ListenerNext]_listenerVars

---------------------------------------------------------------------------
(* The variables have their types; a line shows the member's own status.    *)
Line == [port : Range(PortOf), memberStatus : Status, leader : BOOLEAN, oldest : BOOLEAN,
         unreachable : BOOLEAN]

isListing(l) == DOMAIN l \subseteq Server /\ l \in [DOMAIN l -> Line]

ListenerTypeOK ==
  /\ ViewTypeOK
  /\ \A s \in Server : isListing(nodesThen[s])
  /\ nodesThen = [s \in Server |-> nodesThen[s]]
  /\ fresh \in [Server -> BOOLEAN]

(* As long as a server's view has not changed since the actor read it,      *)
(* the last listing in the log is the cluster as it is, every role and      *)
(* unreachable mark included: no change is taken for an equal listing.      *)
ListingIsCurrent ==
  \A s \in Server : fresh[s] => logged[s] = Nodes(s)

(* Inductive: what the actor compares with is what it has written last.     *)
ListenerInvariant ==
  /\ ListenerTypeOK
  /\ ViewInvariant
  /\ logged = nodesThen
  /\ ListingIsCurrent
=============================================================================
