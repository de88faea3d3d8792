----------------------------- MODULE Dashboard -----------------------------
(* dashboard.js: a page that polls every server's /cluster-state and shows  *)
(* the cluster, once as the leader sees it (summary) and once as each       *)
(* server sees it (members).                                                *)
(*                                                                          *)
(* JavaScript runs one callback at a time, but the answers come in any      *)
(* order, and an answer says what its server saw when it was computed.      *)
(* Time is counted in intervals of 200 ms.                                  *)
EXTENDS ClusterView, Sequences, SequencesExt

CONSTANTS
  OfflineAfter,   \* intervals after which a row not updated goes offline: 15
  MaxInFlight     \* a request is answered within this many intervals

ASSUME DashboardAssumption ==
  /\ OfflineAfter \in Nat \ {0} /\ MaxInFlight \in Nat \ {0}
  /\ ValidPort \subseteq Nat \ {0} /\ IsFiniteSet(ValidPort)

VARIABLES
  inFlight,       \* inFlight[p]: requests to port p, with the answer if there is one
  summary,        \* clusterState.summary
  memberRows      \* clusterState.members: memberRows[p] are the rows of the server at p

dashboardVars == <<view, upNumber, events, inFlight, summary, memberRows>>

pageVars == <<inFlight, summary, memberRows>>

Port == ValidPort

asked == [stage |-> "asked"]
failed == [stage |-> "failed"]

(* clusterStateNodeInit: a row that shows a port offline.                   *)
clusterStateNodeInit == [memberState |-> "unknown", leader |-> FALSE, oldest |-> FALSE, age |-> 0]

(* The state drawn for a memberState (CommandServerImpl.state).             *)
state(memberState) ==
  CASE memberState = "unknown" -> "offline"
    [] memberState \in {"joining", "weaklyup"} -> "starting"
    [] memberState \in {"leaving", "exiting"} -> "stopping"
    [] OTHER -> memberState

online(row) == state(row.memberState) # "offline"

inState(rows, s) == {p \in Port : state(rows[p].memberState) = s}

clusterStateInit ==
  /\ summary = [leader |-> 0, oldest |-> 0, nodes |-> [p \in Port |-> clusterStateNodeInit]]
  /\ memberRows = [p \in Port |-> [q \in Port |-> clusterStateNodeInit]]

(* The page is opened on a cluster whose servers are all up.                *)
DashboardInit ==
  /\ Init
  /\ \A s \in Server : Range(view[s].members) \subseteq {"up"}
  /\ clusterStateInit
  /\ inFlight = [p \in Port |-> <<>>]

(* The age of a row is kept but never looked at.                            *)
MutNeverOffline(rows) ==
  [p \in Port |-> IF online(rows[p])
                  THEN [rows[p] EXCEPT !.age = IF @ < OfflineAfter THEN @ + 1 ELSE @]
                  ELSE clusterStateNodeInit]

(* The comparison is off by one.                                            *)
MutScanTooLate(rows) ==
  [p \in Port |-> IF online(rows[p]) /\ rows[p].age <= OfflineAfter
                  THEN [rows[p] EXCEPT !.age = @ + 1]
                  ELSE clusterStateNodeInit]

---------------------------------------------------------------------------
(* clusterStateScanForOfflineNodes, as one more interval has gone by.       *)
clusterStateScan(rows) ==
  [p \in Port |-> IF online(rows[p]) /\ rows[p].age < OfflineAfter
                  THEN [rows[p] EXCEPT !.age = @ + 1]
                  ELSE clusterStateNodeInit]

(* requestClusterStateInterval: scan all rows, then poll every port.        *)
requestClusterStateInterval ==
  /\ \A p \in Port : Len(inFlight[p]) < MaxInFlight
  /\ summary' = [summary EXCEPT !.nodes = clusterStateScan(@)]
  /\ memberRows' = [p \in Port |-> clusterStateScan(memberRows[p])]
  /\ inFlight' = [p \in Port |-> Append(inFlight[p], asked)]
  /\ UNCHANGED viewVars

serving(p) == {s \in Server : PortOf[s] = p /\ view[s].running}

(* The server at a port answers, or there is none and the request fails.    *)
Answer(p, i) ==
  /\ inFlight[p][i].stage = "asked"
  /\ inFlight' = [inFlight EXCEPT ![p][i] =
          IF serving(p) = {} THEN failed
          ELSE [stage |-> "answered", report |-> loadNodes(CHOOSE s \in serving(p) : TRUE)]]
  /\ UNCHANGED <<view, upNumber, events, summary, memberRows>>

(* A request to a running server fails, or what comes back is no JSON: as   *)
(* bad as a membership event, and bounded together with them.               *)
RequestFails(p, i) ==
  /\ inFlight[p][i].stage = "asked"
  /\ serving(p) # {}
  /\ events < MaxEvents
  /\ events' = events + 1
  /\ inFlight' = [inFlight EXCEPT ![p][i] = failed]
  /\ UNCHANGED <<view, upNumber, summary, memberRows>>

(* The rows of a report laid over those shown: a port that the report does  *)
(* not list keeps its row, for clusterStateNodeReset resets nothing.        *)
overlay(rows, nodes) ==
  [p \in Port |->
    LET listed == {n \in nodes : n.port = p}
        node == CHOOSE n \in listed : TRUE
    IN IF listed = {} THEN rows[p]
       ELSE [memberState |-> node.memberState, leader |-> node.leader,
             oldest |-> node.oldest, age |-> 0]]

upCountRows(rows) == Cardinality({p \in Port : rows[p].memberState = "up"})

upCountNodes(nodes) == Cardinality({n \in nodes : n.memberState = "up"})

(* oldestNode: undefined, here 0, when no row is the oldest.                *)
oldestNode(nodes) ==
  LET oldest == {n \in nodes : n.oldest}
  IN IF oldest = {} THEN 0 ELSE (CHOOSE n \in oldest : TRUE).port

(* clusterStateUpdateSummary: a leader's report is shown unless it has      *)
(* fewer nodes up than the summary of another leader. A report without an   *)
(* oldest node ends the callback with a TypeError, the rest being done.     *)
clusterStateUpdateSummary(report) ==
  LET accepted == /\ report.leader
                  /\ \/ upCountNodes(report.nodes) >= upCountRows(summary.nodes)
                     \/ summary.leader = report.selfPort
      oldest == oldestNode(report.nodes)
  IN IF ~accepted THEN UNCHANGED summary
     ELSE summary' = [leader |-> report.selfPort,
                      oldest |-> IF oldest = 0 THEN summary.oldest ELSE oldest,
                      nodes  |-> overlay(summary.nodes, report.nodes)]

Handled(p, i) == inFlight' = [inFlight EXCEPT ![p] = RemoveAt(@, i)]

(* clusterStateUpdateNode: an answer arrives.                               *)
clusterStateUpdateNode(p, i) ==
  /\ inFlight[p][i].stage = "answered"
  /\ LET report == inFlight[p][i].report
     IN /\ memberRows' = [memberRows EXCEPT ![report.selfPort] = overlay(@, report.nodes)]
        /\ clusterStateUpdateSummary(report)
  /\ Handled(p, i)
  /\ UNCHANGED viewVars

(* The leader stays on the page after its last node has gone offline.       *)
MutErrorNeverResets(p, i) ==
  /\ inFlight[p][i].stage = "failed"
  /\ Handled(p, i)
  /\ UNCHANGED <<view, upNumber, events, summary, memberRows>>

(* One port without a server is enough to take the leader off the page.     *)
MutErrorAlwaysResets(p, i) ==
  /\ inFlight[p][i].stage = "failed"
  /\ summary' = [summary EXCEPT !.leader = 0, !.oldest = 0]
  /\ Handled(p, i)
  /\ UNCHANGED <<view, upNumber, events, memberRows>>

(* requestClusterStateFromNodeError: a request fails. Only now is a leader  *)
(* that is no longer there taken off the page.                              *)
requestClusterStateFromNodeError(p, i) ==
  /\ inFlight[p][i].stage = "failed"
  /\ summary' = IF inState(summary.nodes, "offline") = Port
                THEN [summary EXCEPT !.leader = 0, !.oldest = 0] ELSE summary
  /\ Handled(p, i)
  /\ UNCHANGED <<view, upNumber, events, memberRows>>

---------------------------------------------------------------------------
Receive(p) == \E i \in DOMAIN inFlight[p] : \/ clusterStateUpdateNode(p, i)
                                            \/ requestClusterStateFromNodeError(p, i)

Serve(p) == \E i \in DOMAIN inFlight[p] : Answer(p, i)

ClusterStep == \E s \in Server : ViewStep(s) /\ UNCHANGED pageVars

PageStep == \/ requestClusterStateInterval
            \/ \E p \in Port : Serve(p) \/ Receive(p)

RequestsFail == \E p \in Port : \E i \in DOMAIN inFlight[p] : RequestFails(p, i)

DashboardNext == ClusterStep \/ PageStep \/ RequestsFail

LeaderStep == \E s \in Server : LeaderChanged(s) /\ UNCHANGED pageVars

(* The browser's event loop does not stop: while a request is out, it is    *)
(* answered or fails and its callback runs, and the timer fires again. And  *)
(* Akka's read view catches up.                                             *)
Fairness == WF_dashboardVars(PageStep) /\ WF_dashboardVars(LeaderStep)

DashboardSpec == DashboardInit /\ [][DashboardNext]_dashboardVars /\ Fairness

---------------------------------------------------------------------------
Row == [memberState : Status \cup {"unknown", "unreachable"}, leader : BOOLEAN,
        oldest : BOOLEAN, age : 0 .. OfflineAfter]

ReportRow == [port : Port, memberState : Status \cup {"unreachable"},
              leader : BOOLEAN, oldest : BOOLEAN]

Report == [selfPort : Port, leader : BOOLEAN, oldest : BOOLEAN, nodes : SUBSET ReportRow]

Request == {asked, failed} \cup [stage : {"answered"}, report : Report]

(* The variables have their types.                                          *)
DashboardTypeOK ==
  /\ ViewTypeOK
  /\ summary \in [leader : Port \cup {0}, oldest : Port \cup {0}, nodes : [Port -> Row]]
  /\ memberRows \in [Port -> [Port -> Row]]
  /\ inFlight \in [Port -> Seq(Request)]
  /\ \A p \in Port : Len(inFlight[p]) <= MaxInFlight

(* An offline row has no role: it is as clusterStateNodeInit made it.       *)
OfflineHasNoRole(rows) ==
  \A p \in Port : ~online(rows[p]) => rows[p] = clusterStateNodeInit

(* The summary shows a node only under the leader that reported it, and an  *)
(* oldest node only beside a leader.                                        *)
SummaryIsBacked ==
  /\ (\E p \in Port : online(summary.nodes[p])) => summary.leader # 0
  /\ summary.oldest # 0 => summary.leader # 0

(* What is under way to the page: an answer came from the server at the     *)
(* port asked, and is a consistent report, however old it is by now.        *)
AnswersAreReports ==
  \A p \in Port : \A i \in DOMAIN inFlight[p] :
    inFlight[p][i].stage = "answered" =>
      /\ inFlight[p][i].report.selfPort = p
      /\ Consistent(inFlight[p][i].report.nodes)

(* The strengthening that makes SummaryIsBacked inductive.                  *)
DashboardInvariant ==
  /\ DashboardTypeOK
  /\ ViewInvariant
  /\ OfflineHasNoRole(summary.nodes)
  /\ \A p \in Port : OfflineHasNoRole(memberRows[p])
  /\ AnswersAreReports
  /\ SummaryIsBacked

(* The servers that now answer that they are the leader.                    *)
Leading == {s \in Server : /\ view[s].running /\ view[s].leader = s
                           /\ PortOf[s] \in Port}

(* The server counts the one at the port among the members.                 *)
Knows(s, p) == \E m \in members(view[s]) : PortOf[m] = p

(* Once the cluster is quiet the page shows a server that says it leads,    *)
(* with the oldest node of that server's report, or no leader when there is *)
(* none: reports that arrive late or out of order, of a leader that is gone *)
(* or with more nodes up than there are left, cannot hold the page forever. *)
SummaryConverges ==
  <>[]( \/ Leading = {} /\ summary.leader = 0 /\ summary.oldest = 0
        \/ \E s \in Leading :
             /\ summary.leader = PortOf[s]
             /\ oldestNode(loadNodes(s).nodes) \in {0, summary.oldest} )

(* A node that a server no longer counts among its members disappears from  *)
(* the server's rows, and one that no leader does from the summary.         *)
GhostsVanish ==
  <>[](\A p \in Port :
         /\ online(summary.nodes[p]) => \E s \in Leading : Knows(s, p)
         /\ \A q \in Port : online(memberRows[q][p]) =>
              \E s \in Server : PortOf[s] = q /\ Knows(s, p))
=============================================================================
