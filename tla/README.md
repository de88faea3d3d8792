# A verification of the akka-grpc-plus archetype

The repository is a Maven archetype: the service it generates manages *movies*
(the aggregate's name is a template variable; this document and the modules use
its default) with Akka Cluster Sharding, event sourcing over R2DBC/PostgreSQL,
two projections, a gRPC front end and a dashboard. The TLA+ modules here model
that generated service. Paths are below
`src/main/resources/archetype-resources/src/main/`, Java files below `java/`
there, and `Movie` stands for `__aggregate_name_with_proper_case__` in names.

## 1. Inventory

| Component | Source | State it keeps | Operations |
|---|---|---|---|
| Movie aggregate | `server/MovieAggregate.java`, `Movie.java`, `command/`, `event/`, `reply/` | per movie: journal; per incarnation: state, sequence number, stash | `onRegister`, `onDisable`, `onDisableDisabled`, `onGet`, no matching case, replay, persist, restart with backoff, passivation, hand-off |
| gRPC service | `server/MovieServiceImpl.java` | calls that wait, a counter | `registerMovie`, `disableMovie`, `getMovie`, `getMovies`, ask timeout |
| Database projection | `projection/DBProjectionImpl.java`, `ddl-scripts/create_projection_tables.sql` | table `movie`, offsets, in one database | start, `process` in an exactly-once transaction |
| Events projection | `projection/EventsProjectionImpl.java`, `EventsProjectionHandler.java` | Kafka topic, offsets | start, `process`, `serialize`, saving offsets at-least-once |
| R2DBC helpers | `util/R2dbc.java`, `Handle.java`, `ReactiveUtils.java` | a connection and its transaction | `withHandle`, `open`, `close`, `inTransaction`, `appendError` |
| Query side DAO | `query/MovieDAOImpl.java` | - | three queries over connections |
| Command server | `server/CommandServerImpl.java` | - (reads Akka's view of the cluster) | `/cluster-state` |
| Cluster listener | `util/ClusterListenerActor.java` | listing read last | log a listing when it has changed |
| Dashboard | `dashboard.js` | summary, nine views, requests under way | timer, scan, update, error |
| Wiring | `dagger/MovieManagementApp.java` | a process and all it hosts | `main`, end of the process |
| Settings and schema | `*.conf`, `ddl-scripts/` | - | keys, columns, time limits |
| Clients of other services, archetype script | `util/*Client*`, `META-INF/` | - | not modelled, see section 8 |

How they interact:

    client --gRPC--> MovieServiceImpl --ask--> shard region --> MovieAggregate --insert--> event_journal
                          |                                                              |
                          | dao.getMovies()                      eventsBySlices (live and backtracking queries)
                          v                                            |                         |
                     R2dbc/Handle --select--> table movie <-- DBProjection      EventsProjection --> Kafka topic
    browser (dashboard.js) --poll--> CommandServerImpl --Cluster.state()--> Akka membership <-- ClusterListenerActor

The journal is the only state shared between command side and projections; the
offset store the only one shared between the workers of a projection. Everything
else travels as messages, and asks, polls and sends may be lost or late.

What is hard here, and what makes each component correct:

* **Aggregate.** During a split two nodes may run the same movie; an insert
  outlives the actor that sent it (write timeout, crash) and commits later. The
  primary key of `event_journal` is the only referee. Correct: the journal of a
  movie stays a registration and at most one disabling, memory is a replay of a
  prefix of it, confirmations are durable, rejections justified, and nothing has
  its effect or its answer twice.
* **Service.** Calls race, time out, and meet entities that recover, move or are
  passivated. Correct: a response is true, a failed call did nothing, a read sees
  what had been confirmed, a registration completes.
* **Projections.** An event may become visible after the live query has passed
  it; a commit or a send may succeed and look failed; two workers may run for a
  range. Correct: row and offset agree, nothing is skipped, everything arrives.
* **Nodes.** Entities, projection workers and calls live in one process and die
  together, while inserts and transactions they have sent go on. Correct: what was
  confirmed gets listed whatever becomes of the nodes, and what is listed is known.
* **R2DBC helpers.** Every step of a chain of publishers can fail, also the one
  that handles a failure; functions throw, subscribers cancel. Correct: all or
  nothing, and connections return.
* **Cluster view, listener, dashboard.** The view changes one event at a time and
  differs between servers; answers come late and in any order. Correct: a report
  is consistent in itself, the page settles on a leader there is.

`PROJECT.json` lists all hazards with their lines and the properties that watch
them.

## 2. Modules

| Module | Models | Composition |
|---|---|---|
| `MovieLifecycle` | what the command side promises: register once, then disable once | abstract specification |
| `Aggregate` | the aggregate, with sharding, mailbox, replay and journal as it uses them | implements `MovieLifecycle` |
| `MovieService` | the gRPC calls | EXTENDS `Aggregate`, replaces its free asks |
| `TagIndex` | the tag of an entity, in Java's int arithmetic | - |
| `ExactlyOnce` | what the database projection promises: event by event, in order, each once | abstract specification |
| `AtLeastOnce` | what the events projection promises: published once registered, settled only once published, twice only after a failure | abstract specification |
| `SliceProjection` | what both projections share: queries, duplicate check, workers | - |
| `DBProjection`, `EventsProjection` | the two handlers and their offsets | EXTEND `SliceProjection`; they implement `ExactlyOnce` and `AtLeastOnce` |
| `System` | nodes, and the way of a movie from a call to the list | EXTENDS `MovieService`, `TagIndex`; INSTANCE `DBProjection`, fed by the journal |
| `R2dbcHandle` | the life of a connection and a transaction | - |
| `ClusterView` | each server's view of the membership and its report | - |
| `ClusterListener`, `Dashboard` | the listener's log; the page and its polls | EXTEND `ClusterView` |
| `MC...` | constants and symmetry for TLC | EXTEND the module they are named after |
| `AggregateProofs`, `MovieServiceProofs` | theorems about `Aggregate` (journal and confirmations, then requests and reads) and `MovieService` | the second EXTENDS the first |
| `SliceProjectionProofs`, `DBProjectionProofs`, `EventsProjectionProofs` | lemmas about the common part; theorems about the two projections | the latter two EXTEND the first |
| `SystemProofs` | theorems about `System` | EXTENDS `System`, `MovieServiceProofs`; INSTANCE `DBProjectionProofs` |
| `R2dbcHandleProofs` | theorems about `R2dbcHandle` | EXTENDS `R2dbcHandle` |
| `ClusterProofs` | lemmas about views and reports; theorems about the listener and the dashboard | EXTENDS `ClusterListener`, `Dashboard` |

Definitions keep the names of the methods they model (`onDisable`, `appendError`,
`clusterStateUpdateSummary`, ...); `PROJECT.json` gives the lines for each.
Libraries - sharding, the R2DBC journal and offset store, the projections'
streams, Kafka, Reactor, Akka's membership - are modelled as this code uses them
and marked external there. A definition named `Mut...` is a bug someone could
make in the definition below it; replacing the one by the other must break a
property, which shows that the property depends on the code.

### State and actions against the code

**Aggregate.** `journal[m]` is the rows of `event_journal` for one
`persistence_id`; `writes` the inserts sent and not decided. An incarnation
`<<node, movie>>` has a `phase` (recovering, ready, persisting, in backoff), the
`state` object, its `seqNr`, the command it persists for (`current`) and a
`mailbox` that includes the stash. Command handlers are actions guarded by the
state cases of `commandHandler` (`isEmpty`, `isNew`, `isDisabled`); a command with
no case is `onUnmatched`, which stops the actor as the enforced-replies behaviour
does on an unhandled command; and `Persisted` applies `eventHandler` before the
reply (`thenReply`). A persist failure restarts the actor after the
backoff given in the constructor. A request stands for its `replyTo` and for the
data it carries, so that "these are the movie's data" is an equality of requests.

**MovieService.** One call uses one ask. `registerMovie` draws an id that no call
has mentioned (`UUID.randomUUID`), `handleConfirmation` turns a `Rejected` into an
exception, `askTimeout` may fire at any time a call is waiting.

**Projections.** `log` is the events of one slice range in timestamp order; the
four ranges share nothing. `Accept` is an envelope that the offset store accepts
(the successor of the last of its movie), from the live query or from
backtracking; `PassOver` one that the live query goes past. In `DBProjection` the
handler's INSERT and the offset are one `Transaction`; in `EventsProjection` the
send, its acknowledgement and the saving of offsets are three steps; of `AtLeastOnce`
the send is `Publish`, the saving of a batch `Settle`, and what fails `Disturb`. The table's
columns are constants, so that one module answers for the table as shipped and for
one that fits.

**System.** A node is in `app` from `Main`, which starts entities, projections and
gRPC server in this order (one step here: a node that has not come to its server
yet is one at which no call is made), to `Ends`, which is a crash, a shutdown or a
server that cannot be bound: the entities of the node crash, its worker stops, the
calls it serves (`servedAt`) are over for their callers. `log` is no longer written
freely: `WithLog` appends the row that a commit adds to `journal`, so that the
projection reads what the entities wrote, in the order of their commits. `Counted`
makes one budget of the faults of both sides. `TableFollowsJournal` is `ExactlyOnce`
once more, now of the journal and the table: what the projection promises of its log
holds of what the entities wrote. `getMovies` is an operator on the
table: it changes nothing, and it fails as a whole if the table lacks a column the
row mapping reads. `TagsExist` of `TagIndex` says that the factory of an entity,
which indexes the list of tags, cannot throw.

**R2dbcHandle.** `stage[u]` is the publisher a chain is subscribed to. There is an
action for each completion and one for each failure of a step, named after the
method; `conn` and `txn` are what the database knows, `error` what travels to the
subscriber. A subscriber that cancels while the connection is being opened may leave
one behind that opens anyway (`"abandoned"`).

**ClusterView.** `view[s]` is `Cluster.state()` at server `s`. The membership
events are external and as free as Akka leaves them: a view may miss stages,
disagree with others, see its own server removed, and name a leader that lags
behind. `upNumber` is Akka's count of the members that have become up, by which
`Member.isOlderThan` compares. `loadNodes` is the report; its rows are a set, for no
reader of a report looks at their order, and `addUnreachable` removes by port before it
adds. **ClusterListener** reads the view at any time, for the events come to it and to
Akka's view separately; its listing is a function of the members, which Akka lists by
address, so that two listings of the same members have the same order. **Dashboard** counts time
in intervals of 200 ms; `inFlight` holds requests and answers, and an answer is
computed when the server takes the request, not when the page handles it. A request
fails if no server has the port, and may fail (`RequestFails`) if one has: it was not
reached in time, or its answer was cut off.

## 3. What the runs check

Distinct states as TLC reports them; each run takes seconds to about a minute.

| Run | Instance | Shows |
|---|---|---|
| `aggregate_split` (51,234) | 1 movie, 2 nodes, 3 requests, split allowed, 2 faults | with two incarnations of a movie racing: the journal is well formed, memory is a replay, confirmations are durable and rejections justified, no request has two effects or two answers, and the whole implements `MovieLifecycle`; `InductiveInvariant`, which the proofs use, holds |
| `service_safety` (about 158,000) | 2 movies, 2 nodes, 3 calls, no split, 1 fault | responses are true, failed calls have no effect, a registration never meets an entity without a case for it, reads see confirmations; `ServiceInvariant`, which the proofs use, holds |
| `service_unanswered` (violation) | as `service_safety`, smaller | finding 1 |
| `system` (118,150) | 1 movie, 2 nodes that start and end, 2 calls, 1 fault, `MaxInt` 7, a table that fits | what was confirmed is listed in the end while some node is up, and a registration that is waiting is, too, unless something fails; what is listed is known to its entity; end to end the table follows the journal exactly once; no command stays with an entity for ever; every started entity has a tag |
| `db_projection` (11,809) | 2 movies, 2 workers, 2 faults, a table that fits | row and offset agree, `ExactlyOnce` is implemented, all is processed in the end; `ProjectionInvariant`, which the proofs use, holds |
| `db_shipped_table` (violation) | the table of the DDL script, no fault | finding 2 |
| `events_projection` (70,567) | 2 movies, 2 workers, 2 faults | `AtLeastOnce` is implemented: no offset outruns the topic, what is dropped as a duplicate is in it, duplicates come from failures only, all is published while no movie is disabled; `PublicationInvariant`, which the proofs use, holds |
| `events_poison` (violation) | 1 worker, no fault | finding 3 |
| `r2dbc_handle` (about 177,500) | 3 uses, 2 connections, 4 faults | transactions are all or nothing and decided before the connection is closed; connections return, but for the leaks the property names; `HandleInvariant`, which the proofs use, holds |
| `r2dbc_masked_error` (violation) | 1 use, 2 faults | finding 4 |
| `cluster_listener` (326,415) | 3 servers, one on an invalid port, 2 events beyond any formed cluster | reports are consistent, roles in head and rows agree, the log misses no change that was read; `ListenerInvariant`, which the proofs use, holds |
| `dashboard` (85,910) | 2 servers and a port without one, 2 events or failed polls | the summary is backed by a leader, settles on one that leads with its oldest node, and ghosts vanish; `DashboardInvariant`, which the proofs use, holds |

`InductiveInvariant`, `ServiceInvariant`, `ProjectionInvariant`, `PublicationInvariant`,
`HandleInvariant`, `ListenerInvariant` and `DashboardInvariant` contain the type
invariant of their module, and are inductive.

### Bounds, and why they are enough

* *Nodes, workers: two.* A conflict is between two incarnations or two workers; a
  third does nothing the second cannot do. The proofs hold for any number of nodes.
* *Requests: three* register, disable and disable again, or race two disables and
  read; two suffice for liveness, where a command waits behind another.
* *Movies: one* where movies do not interact (the theorems are for any number),
  *two* where they might: routing, fresh ids, one movie blocking another's events.
  `system` has one: a movie of its own is all that a call, an entity and a row share.
* *`MaxFaults`* bounds crashes, lost messages, timeouts of writes, refused writes,
  late events and cancellations. Two let a failure meet the recovery from another
  (a late commit after a crash; a rollback that fails). In `r2dbc_handle` a chain
  has no more than four steps that can fail.
* In `system` one fault may be of either side: the node, a message, an insert, the
  transaction or the acknowledgement of the projection, a late event. Two, and two
  entities, are covered by the runs of the parts and by the theorems.
* *`MaxInt` is 7*, not 2^31 - 1: five tags, ints on both sides of zero that all have
  the same remainders, and a least int whose absolute value is negative. The theorem
  is for every `MaxInt`.
* *The topic counts up to two records of an event*: the properties tell "once" from
  "more than once" only. A movie has at most two events, which is proved.
* *`MaxEvents`*: two membership events on top of every combination of servers that
  are up, joining or not started. Two make the interesting pairs: a leader stops
  and is found unreachable, a member exits and is removed, a server starts and
  joins. `LeaderChanged` is not counted: it only follows. In `Dashboard` a request
  that a running server fails to answer counts as an event, so it may happen before,
  after or between those of the cluster.
* *`OfflineAfter`* is 2 intervals, not 15, and `MaxInFlight` 1: a row expires after
  more than one poll, and answers of different servers arrive in any order. A copy
  of the run with `MaxInFlight = 2`, where also the answers of one server overtake
  each other, passes with one event.
* *Ports*: two or three of the nine. Nothing in the code depends on how many.
* *Symmetry* (hence counts that vary a little from run to run) is used in the safety runs `aggregate_split`, `service_safety` and
  `r2dbc_handle` only, over nodes, requests, movies or uses that no definition
  tells apart.

`CHECK_DEADLOCK FALSE` stands where the system may come to rest: the projections
when every event has been handled, the R2DBC chains when every use is over, the
listener's model when its events are used up. The command side and the dashboard
never stop (hand-offs, the timer), and there deadlock is checked.

### Fairness

* System: weak fairness of the steps an incarnation's actor is due to take (an
  Akka dispatcher runs every actor with work; `SupervisorStrategy.restartWithBackoff`
  has no limit of restarts), of the database deciding an insert, of the shard
  region delivering a buffered command to a node that is up, of the coordinator
  moving a shard away from a node that is gone (sharding does so when the member is
  removed), and of the projection at *some* node. No fairness of `Main`, of calls,
  of other hand-offs, of passivation or of faults; the last are bounded, so they end.
  `RegistrationsAreListed` has the premise that some node is up from some time on:
  nothing in the repository starts one.
* Projections: *some* worker of the range works (`ShardedDaemonProcess` keeps one
  alive and the projection's restart backoff never gives up), and offsets are
  saved after a while. Nothing says which worker, and writes need not happen. An
  event that became visible late is found by backtracking however late it is; the
  query looks back two minutes (`persistence.conf:75`), so this assumes that an insert
  commits within that time.
* Dashboard: the browser's event loop goes on - a request is answered or fails,
  its callback runs, the timer fires - and Akka's view catches up with its leader.
  The cluster owes nothing else; its events, and the requests that a running server
  fails to answer, are bounded. `setInterval` sends a new round of requests whether or
  not the last one was answered; the model sends one to a port only while fewer than
  `MaxInFlight` are out there. The invariants are proved for every `MaxInFlight`;
  `SummaryConverges` and `GhostsVanish` assume that polls do not pile up for ever.

Under these assumptions every liveness property has a mutant that breaks it, so
none of them holds for want of behaviours.

## 4. Findings

1. **`DisableMovie` for an unknown id is never answered**
   (`MovieAggregate.java:103`, run `service_unanswered`). The empty state has no
   case for it; the actor stops and the caller waits for the ask timeout, although
   the behaviour is one "WithEnforcedReplies".
2. **The shipped table refuses every INSERT** (`DBProjectionImpl.java:73`, run
   `db_shipped_table`). It has `gnere` and a mandatory `description`, and lacks
   `releaseyear` and `genre`; the projection starts over for ever.
3. **A disabled movie blocks the events projection** (`EventsProjectionHandler.java:73`,
   run `events_poison`). `serialize` throws for `MovieDisabled`, and no later
   registration of the slice range is published.
4. **The original error is lost when the cleanup fails** (`ReactiveUtils.java:35`,
   run `r2dbc_masked_error`), against the comment above it.

Met while modelling, and part of the models rather than findings, because no text
of the repository says otherwise: `clusterStateNodeReset` (`dashboard.js:397`)
assigns nothing, so that a removed node stays on the page until the scan; a
leader's report without an oldest row ends the callback half-way
(`dashboard.js:483`); only a failed poll ever clears the leader
(`dashboard.js:495`); the listener may read the state before the event it handles
and log nothing until the next one; an entity whose persist was given up, and whose
insert committed afterwards, answers for an empty state while `getMovies` lists the
movie (`ListedAreKnown` exempts it); the row mapping reads `disableddatetime`, which
the shipped table does not have either; a process binds its gRPC server after its
entities and projections have started, and terminates under them if that fails; and
the dashboard's server is logged as available before it is bound, and is not part of
the coordinated shutdown (`CommandServerImpl.java:84`).

## 5. What is proved

Eight modules hold theorems and lemmas, checked by TLAPS, for every set of movies,
nodes, requests, workers, uses, servers and ports and any number of faults and
membership events. They assume what the modules name: `ConstantsAssumption` (`null` is
neither a movie nor a request, `SplitBrain` is Boolean, `MaxFaults` a natural number),
`MaxIntAssumption`, `BoundsAssumption`, `ServerAssumption` (finitely many servers,
named by the rank of their address, no two on one port) and `DashboardAssumption` (the
dashboard has finitely many ports, all positive, as 2551 .. 2559 are). What is said of a
healthy cluster has `~SplitBrain` in the property.

| Module | Theorem | States |
|---|---|---|
| `AggregateProofs` | `TypeCorrect` | `Spec => []TypeOK` |
| | `JournalInvariantHolds`, `RepliesInvariantHolds` | the two invariants below |
| | `JournalIsWellFormed` | `Spec => []JournalWellFormed` |
| | `MemoryIsAReplay` | `Spec => []MemoryReflectsJournal` |
| | `JournalImplementsLifecycle` | `Spec => ImplementsLifecycle` |
| | `ConfirmationsAreDurable` | `Spec => []AcceptedIsDurable` |
| | `InductiveInvariantHolds` | `Spec => []InductiveInvariant` |
| | `RequestsTakeEffectOnce`, `RequestsAreAnsweredOnce` | `Spec => []OneEffectPerRequest`, `Spec => []OneAnswerPerRequest` |
| | `RejectionsAreJustified` | `Spec => []RejectedIsJustified` |
| | `ReadsAreCurrent` | `Spec => ReadsSeeConfirmations` |
| `MovieServiceProofs` | `ServiceDrivesAggregate` | `ServiceSpec => Spec` |
| | `ServiceInvariantHolds` | `ServiceSpec => []ServiceInvariant` |
| | `FailuresAreFinal`, `ResponsesTellTheTruth`, `RegistrationsAreHandled` | the service's safety properties |
| `DBProjectionProofs` | `ProjectionInvariantHolds`, `ProjectionTypeCorrect`, `RowsAgreeWithOffsets` | the projection's invariants |
| | `ProjectionIsExactlyOnce` | `Spec => ImplementsExactlyOnce` |
| `EventsProjectionProofs` | `PublicationInvariantHolds` | `Spec => []PublicationInvariant` |
| | `PublicationIsAtLeastOnce` | `Spec => ImplementsAtLeastOnce` |
| | `OffsetsFollowTheTopic`, `DuplicatesAreDuplicates`, `UndisturbedIsExactlyOnce` | the projection's safety properties |
| `R2dbcHandleProofs` | `HandleInvariantHolds` | `Spec => []HandleInvariant` |
| | `TransactionsAreAllOrNothing`, `ConnectionsAreReturned`, `DecisionsPrecedeClosing` | the helpers' safety properties |
| `SystemProofs` | `ServiceInvariantInSystem` | `SystemSpec => []ServiceInvariant` |
| | `SystemImplementsLifecycle` | `SystemSpec => ImplementsLifecycle` |
| | `CallersAreToldTheTruth` | `SystemSpec => [](FailedCallsHaveNoEffect /\ ResponsesAreTrue /\ RegistrationsMatch)` |
| | `SystemReadsAreCurrent` | `SystemSpec => ReadsSeeConfirmations` |
| | `NothingOutlivesItsNode` | `SystemSpec => []HostedByNodes` |
| | `SystemRunsProjection` | `SystemSpec => ImplementsProjection` |
| | `TableIsExactlyOnce` | `SystemSpec => TableFollowsJournal` |
| | `ListedMoviesAreKnown`, `StartedEntitiesHaveTags` | `SystemSpec => []ListedAreKnown`, `SystemSpec => []EntitiesHaveTags` |
| `ClusterProofs` | `ListenerInvariantHolds` | `ListenerSpec => []ListenerInvariant` |
| | `ReportsAreConsistent`, `RolesAgree` | `ListenerSpec => []ReportIsConsistent`, `ListenerSpec => []RolesAreListed` |
| | `LogIsCurrent` | `ListenerSpec => []ListingIsCurrent` |
| | `DashboardInvariantHolds` | `DashboardSpec => []DashboardInvariant` |
| | `SummaryHasLeader` | `DashboardSpec => []SummaryIsBacked` |

**The journal.** `JournalWellFormed` is not inductive. That the next row of a journal
is legal depends on the insert under way, so `WritesLegal` says what an insert may
be: number 1 and a registration, or number 2 and a disabling. That the handlers
produce only such inserts depends on their state being the outcome of as many
events as `seqNr` says, hence `MemoryReflectsJournal`, which for a replay needs
that its `target` exists in the journal (`TargetsExist`) and after a commit that
the incarnation still has its command (`PersistsForCommand`). The database does the
rest: an insert commits only as the next row, so the rows in between cannot have
changed, and journals only grow (`JournalGrows`). Together with `TypeOK` these are
`JournalInvariant`.

**The life cycle.** `status[m]` is mapped to the status of the journal's last row.
Only a commit changes it, and `CommitIsLifecycleStep` shows that a commit is a
`Register` or a `Disable` of `MovieLifecycle`; every other step is a stutter.

**Confirmations.** `AcceptedIsDurable` needs to know that the reply is to the command
whose event was written: asks differ in their `replyTo` (`AsksDiffer`), commands only
reach their own movie (`CommandsAreRouted`), replies are to asks
(`RepliesAreToAsks`): `RepliesInvariant`.

**Once.** "One effect" and "one answer" follow from where a command can be. It is
queued in one place - under way, or in one mailbox, once (`QueuedOnce`) - and
taken by one incarnation at most, and then queued no more (`TakenOnce`); an effect
of it, written or being written, is single (`EffectsOnce`), was asked for
(`EffectsAreAsked`), and is not there while it is queued (`EffectsComeLater`); an
answer leaves nothing of it behind (`AnswersComeLast`), and only a confirmation has
an effect (`OnlyConfirmedHaveEffect`). That is `TokensInvariant`; the hard step is
the restart after a persist that was given up, whose insert is still under way when
the stash is handled.

**Reads.** Without a split only the incarnation at a movie's home is awake
(`AwakeAtHome`), and one that is ready, with every replay it may still finish, has
the rank of what has been confirmed (`ConfirmedIsKnown`): `ReadsInvariant`. All four
are `InductiveInvariant`.

**The service.** Its calls make asks that `Next` allows, so `ServiceSpec` implies
`Spec` and the invariant carries over. `CallsInvariant` adds that an ask belongs to
the call that made it, that two registrations never share an id, that a Get writes
nothing and that a call which ended has the reply it ended with; then the properties
of calls are those of replies.

**The database projection.** `ProjectionInvariant` says that what a worker knows is
processed, what it handles is the next event of its movie, what is processed is
written, and row and offset agree; a second worker, or an outcome that was not
reported, is met by the primary key, which admits only the successor of what is
stored (`Admitted`). Each commit is then one step `Process` of `ExactlyOnce`.

**The events projection.** `PublicationInvariant` follows an event from the handler
to the topic to the offset: what is sent is a registration and in the topic, what is
acknowledged was sent, what is stored was acknowledged. `OneWorkerUntilFailure` adds
what is so before anything fails: one worker, which knows the stored offsets, and a
topic with just what that worker has handled or sent. With it each step is one of
`AtLeastOnce` or a stutter (`WriteIsPromised`, `SendIsPromised`, `SaveIsPromised`,
`OthersDisturb`): the write of an event that cannot be serialized disturbs, a send
publishes what is registered, and a batch of offsets settles what the topic has.

**The helpers.** `StageInvariant` says for each publisher of a chain what it relies
on: the transaction is active while the function runs, committed before the close
that follows completion, and behind an error open only if its rollback failed. A
step of one use leaves the others alone (`OthersKeepStill`), so one use is enough.

**The system.** Every step of `System`, seen by entities and calls, is a step of
the service or a crash (`SystemStepShapes`), or only counts a fault of the projection,
so `ServiceInvariant` survives, and with it what callers are promised: the life cycle,
true responses, current reads. Nothing is at a node that is not up (`HostedByNodes`),
because only a delivery wakes an entity (`NobodyWakes`) and both deliveries and moves
go to nodes that are up. This invariant is proved; it is not among the properties of
the run, though TLC finds it to hold on the run's instance. Nor is
`ImplementsProjection`, which is close to how `System` is put together and is needed
as a lemma only (`SystemRunsProjection`). Seen by
the projection a step is one of `DBProjection` or a stutter: the commit that appends
to the journal appends the same event to `log`, because the log holds as many events
of a movie as its journal (`LogIsJournal`). The same fact turns `ProjectionIsExactlyOnce`,
which speaks of a log, into `TableIsExactlyOnce`, which speaks of the journal. With both, a listed movie has a row, thus
a processed event, thus a journal; an entity that is ready then knows it unless an
insert outlived its persist, which takes a fault or a split. `TagsExist` is
arithmetic on the remainder.

**Views and reports.** That a report names one oldest member is a fact about Akka's
numbers, not about the report: `ViewInvariant` says that a member a view shows up has a
number, that no two have the same, and that a server never finds itself unreachable. The
next number given out is larger than all others (`NextNumber`), whichever server hears
of the member first. Since ports differ, `addUnreachable` takes away the rows of the
unreachable members and no others (`ReportRows`), which gives one row for each member;
that the oldest is reachable keeps its role out of the rows taken away.

**The listener.** Equal under `Node.equals` means equal (`SameNodesAreEqual`), so what
was written last is what was read last (`logged = nodesThen`). A step of one server's
view changes no other server's listing (`OtherViewsStay`): the oldest member that a view
shows has its number already, and numbers are given only to members no view shows up.

**The dashboard.** `SummaryIsBacked` is not inductive. The scan may take a leader's rows
away one by one, and the callback of a failed request clears the leader when all rows are
offline; that an offline row has no role left needs `OfflineHasNoRole`, and that a
leader taken from an answer is a port, however old the answer is, needs
`AnswersAreReports`: an answer under way came from the server at the port asked.

**Least and greatest elements.** `Min` and `Max` over sets of any size need induction.
The library's induction theorems cannot be instantiated here, but its facts about
well-founded relations can (`WFMin`, with `NatLessThanWellFounded` and
`FS_StrictSubsetOrderingWellFounded`): `LeastNatural` and `GreatestNatural` take a
minimal counterexample.

## 6. What is only model-checked

Every invariant, action property and refinement that a passing run checks is stated by
a theorem of section 5. What is left to TLC:

* Liveness (`RegistrationsAreListed`, `CommandsAreConsumed`, `RegisteredAreListed`,
  `AllAreProcessed`, `RegisteredArePublished`, `PublishedUnlessDisabled`,
  `SummaryConverges`, `GhostsVanish`): fairness and ENABLED are beyond the prover.
* What folding a journal of any length amounts to: a property of a recursive
  definition for every input is an induction over data. `Aggregate` therefore states
  the outcome by the journal's length (`StateAt`), and `JournalWellFormed` justifies that.
* The four findings, which are counterexamples.

## 7. How the properties earn their place

Each property of a passing run has a mutant in `PROJECT.json`: a definition of the
model, changed as a mistake in that code would change it, under which TLC finds the
property violated with the run's own configuration. To repeat one by hand, rename
the definition and let the original be the mutant.

    tlc -config aggregate_split.cfg MCAggregate.tla
    tlapm AggregateProofs.tla

Six hazards have no property, each with its reason in `PROJECT.json`. Two are outside
the models: whether Jackson can carry the protobuf message inside `RegisterMovie`
between nodes is a question for a test (that it cannot is the loss of a message here),
and nodes are equal if their ports are (`CommandServerImpl.java:274`), which only
matters with several hosts, where the dashboard cannot poll. The other four are what
the code does, so that no property that holds could catch them; the models contain
them, except for the one that takes nine servers, and the properties around them name
the exception: a function that throws or a subscriber that cancels leaves a connection
open (`R2dbc.java:110`, exempt in `ConnectionsReturn`); an entity overtaken by a late
insert answers for an empty state (`MovieServiceImpl.java:81`, exempt in
`ListedAreKnown`); the listener may read the state before the event it handles
(`ClusterListenerActor.java:62`, `ListingIsCurrent` is about what was read); and with
all nine ports served nothing takes a leader off the page (`dashboard.js:496`,
`SummaryConverges` is checked with a port that is not).

## 8. What is not modelled

* *Snapshots* (every 100 events): a movie has at most two events.
* *Savepoints, `Query`, `Update`, `Batch`*: nothing uses savepoints; the others build
  the publisher that is one step in `R2dbcHandle`.
* *The encoding and decoding of columns*: `DBProjectionImpl.java:79` binds `genre` as
  an enum of the protobuf and the row mapping reads it as one. The columns a row must
  have are modelled, their values not: a bind fails only as one of the bounded failures
  of a transaction, a decoding never.
* *Several hosts in `ClusterView`*: reports name members by port, which is enough on
  one host only; the dashboard polls `localhost`.
* *Formation of the cluster* (`required-contact-point-nr` and the other bootstrap
  settings), *split-brain resolution*: Akka's; a split is modelled by what it lets
  happen, two incarnations and two workers.
* *The order of the start calls in `main`*: one step, see `System` above. Dependency
  injection is generated code.
* *Drawing, wording of logs, JSON, gRPC encoding, settings that only tune*: layout
  and I/O. This is most of `dashboard.js`: what is left of it (the requests, the scan,
  the summary and the views) is modelled.
* *Token verification, directory, search and metrics clients, the archetype script*:
  no state of their own, or not called by the operations above.
* *Kafka, PostgreSQL, Akka, Reactor, p5.js*: libraries and services, modelled at the
  edge where the code uses them. `p5.js`, 100,567 lines, is vendored and by far the
  longest file of the repository; measured against it any share of lines is small.

## 9. Plan

Done, in this order: life cycle and aggregate and their proofs, the service, the two
projections, the R2DBC helpers, the cluster view with listener and dashboard, the
tag, the abstract projections, the composition `System`, and the proofs of section 5.

Left:

1. *Several entities in one system run* (two movies, two faults), when the liveness
   check of `system` can be afforded on a larger instance.
2. *Two hosts in `ClusterView`*, if the report is changed to name addresses.
