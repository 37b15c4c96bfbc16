# TLA+ specification of ChaosMesh Arena

ChaosMesh Arena is a gym-style environment in which a team of LLM agents repairs a
simulated Kubernetes cluster. A FastAPI server offers it to users over HTTP. This
directory holds TLA+ modules translated from the Python source, TLC configurations that
model-check them on small instances, and TLAPS proofs of their main invariants. Paths
below are relative to `src/chaosmesh_arena/` unless they start with `src/`.

## Inventory

| Component | State | Operations | Interacts with |
|---|---|---|---|
| Difficulty FSM, `progression/difficulty_fsm.py` | level, streak, totals | record_result, force_level, regress, state_dict, load_state | called by the environment in reset and step |
| Cluster, `sim/cluster_state.py` | pods, services, nodes, partitions, clock | evict, oom, degrade, restore, partition, tick, reset | changed by the injector and by actions |
| Injector and registry, `sim/failure_injector.py`, `templates/incident_registry.py` | active incidents | twelve injections, remediate | changes cluster and metrics |
| Metrics, `sim/metrics_engine.py` | anomalies with a duration | inject, snapshot (expires), reset | injector, step |
| Reward calculator, `rewards/calculator.py` | level, message count | compute, set_level | reads the cluster after an action |
| Environment, `env.py` | all of the above, step counter, flags | reset, step | driven by agents or by the pool |
| Session pool, `env_pool.py` | sessions with their last use | create, reset, step, close, evict expired | env routes, clean-up loop |
| Env routes, `src/server/routes/env.py` | user -> session | reset, step, state, delete | pool, episode and user repositories, WebSocket manager |
| WebSocket manager, `src/server/ws_manager.py` | clients | connect, disconnect, broadcast | all handlers |
| Message bus, `bus/message_bus.py` | Redis lists or in-process queues, callbacks | publish, subscribe, get_messages, close | agents |
| LLM routing, `llm/` | cache, OpenRouter budget | generate, chat with fallbacks | agents, with a timeout |
| SDK, `src/sdk/`; CLI runs, `cli/commands/run.py`, `cli/tui/run_app.py`; `src/inference.py` | session token, episode id, history, counters | tokens, resets, steps and closes with retries | env routes and their compatibility aliases over HTTP |
| Agents, `agents/` | inbox, authorizations | act, receive | LLM |
| Beliefs and stores, `memory/` | beliefs per episode; ChromaDB, SQLite | update, resolve, query | step |
| Chaos orchestrator, `chaos/` | active incident, history | generate, mutate | LLM, injector |
| Auth and accounts, `auth/`, `database/user_repo.py` | users, keys, monthly count | register, tokens, keys | every route |
| Read-only routes, reports, dashboards, graders | none that others read | - | HTTP API |

What is hard, component by component, is listed at its line under `hazards` in
`PROJECT.json`. In short:

- *Sequences of legal calls.* Incidents overlap and share pods and services; one
  remediation wipes every anomaly and partition; repairs, demo injections and resets
  come in between. The level is kept in three places and changed in the middle of a
  step. Nothing stops a caller from stepping an ended episode.
- *Interleaving at awaits.* The handlers of the server are coroutines: between the
  lookup of a user's session, its close, the creation of the next and the writes to the
  database others run. The clean-up loop evicts from a list it made earlier.
- *Partial failure.* A step that raises has already acted and let time pass. A reset
  refused at capacity has already closed the old session. A call to Redis may raise
  after it was carried out, and a listener dies at its first error.
- *Clients that come and go* while a broadcast walks over them, and peers that stop
  reading.
- *Timeouts and retries.* The SDK sends a POST again although the server may have
  carried it out, or may do so later. An agent gives up on a router whose fallbacks are
  still running.
- *Stale data.* Cached answers to other prompts, authorizations of earlier episodes,
  keys revoked while requests with them are on their way.
- *Limits.* The pool's capacity, the quota, the daily budget of the paid model, the step
  cap and the clocks.

## Modules

`Difficulty` (operators) and `DifficultyFSM` (component). `Recorded` is `record_result`:
count the result (`CountResult`), then advance (`MaybeAdvance`). `DifficultyFSM` has an
action for every operation that changes the state, and the caller's snapshot for
`load_state`. `outcomes` is a history variable: the results since the streak was last
reset.

`ClusterState` and `FailureInjector` (operators on one record `w`, because one call of
the environment chains several of them) and `IncidentLifecycle` (component: any
injection, repair, remediation, declaration or reset, in any order; its names begin with
`Cluster` where `ArenaEnv`, whose proofs use its lemmas, has the same one). A pod is its
phase and readiness, a service its error rate and healthy endpoints, a node its
condition and whether it is overloaded; figures no decision reads are left out.
`RemediateAll` is the loop of DECLARE_RESOLVED in one step;
`OrderOfRemediationIsIrrelevant` is what justifies that. The expiry of an anomaly is any
subset of those a snapshot looks at.

`RewardCalculator` (operators): `compute()` in integers of 1/10000, exact for the terms
of the code. The belief bonus and the spam penalty are constant 0 in this environment
(the module's header says why).

`ArenaEnv` (composition of `Difficulty` and `RewardCalculator`, and through it of the
injector and the cluster): `reset` and `step` with every call they make that changes
state, a demo injection between steps, and the wall clock. `RaisingStep` is the step
that dies with an AttributeError because it carries a message: what came before the
exception stays. `Advance` is what both kinds of step do first. The clock counts ticks
of a quarter minute, what one step adds.

`Sessions` (component): the env routes over `EnvPool`. A request is a coroutine and one
action is its code between two awaits: the close of the old session, the thread of
`env.reset`, each database statement, the thread of `env.step`. `pool` holds the
entries, `env` the environments (a thread may still hold one that left the pool),
`userSession` is `_user_sessions`, `rows` and `monthly` are the tables, `evicting` is
what `_evict_expired` has yet to close. A step may name any episode, or none, as
`/env/step` compares ids and asks nothing else: the 409 to a wrong id, `GET
/env/session` and `GET /env/state` give the id of an episode away before its reset has
answered. `known` and `filed` are history variables: the episodes a user has had in the
answer to a reset, and the episodes that steps have ended and filed, with whether the
step was sent after that answer (`told`). An environment is reduced to its episode and
the status it reports.

`Mailboxes` (abstract specification): what a bus promises of messages that are addressed
to one agent. Each agent has a mailbox nobody else takes from. Once the bus is open a
message waits there until its agent takes it, in turn; it passes the mailbox by
(`PassBy`) or is lost (`Lose`) only before that or when something fails. The module
counts failures and says nothing of Redis. `MessageBus` (component) is how the code
keeps it: `_publish` as `LPush`, `RedisPublish` and `FallbackPublish`, the pub/sub
connection with `inbox` as what is on its way, `_redis_listen_loop` as `Listen` and
`ListenerFails`, `get_messages` as one `RPop` per list, and `Close`. A call to Redis may
raise with or without its effect. `IsAMailbox` is the refinement: `MessageBus`
instantiates `Mailboxes` with `open` as `_redis_available`, `failures` as the faults so
far, and for each agent its own channel: the Redis list as its mailbox, what it popped
as `taken`, the messages its callback was given as `heard`. A pop whose answer is lost
and a list that expires are `Lose`; a publication that falls back is `PassBy`, or, after
a push, one `Send` and one more `Hear`. The broadcast channel is in `MessageBus` and no
part of the promise: see the differences below.

`WsManager` (component): the list of clients, the `/ws` handler of each (`Connect`,
`Greet`, `Refuse`, `HandlerEnds`), what its peer does, and broadcasts as coroutines:
`Broadcast` takes the snapshot, `SendNext` is one `await send_text`, `Prune` removes the
dead. The un-awaited `disconnect()` in `src/server/main.py` does nothing, and so is no
action. `before` is a history variable: who was registered and who had left when an
event was sent.

`LLMRouter` (component): one request per caller, an action per await: the cache, the
first model, the budget with the second (`Consume` counts a unit and sends the first
request for it without an await in between, `SdkResends` is the OpenAI client trying
again within the same call), the recent texts, the stub; expiry, `Flush` and the change
of days. `chat()` differs in what comes after the second model; no agent calls it, and
the run has no prompt for it (`ChatPrompts`). `AgentTeam` (composition: it extends
`LLMRouter`): `act()` of the five roles from the prompt (`Act`) to the parsed answer
(`Hear`) or the timeout (`LLMTimesOut`, which may cancel a `cache.set` that was carried
out), mailboxes, and the authorizations of the remediation agent. `Prompting` says which
role empties its mailbox into which prompt, `Tools` what it may make of an answer.

`Accounts` (operators and actions): registration, keys, revocation, and what
`get_by_api_key` finds. `ApiClients` (composition: it extends `Accounts`) has the
programs that use the API: the `Episode` block and the gym wrapper of the SDK, the plain
and Textual runs of the CLI, and one task of `inference.py` (its `main()` plays six, one
after the other), which goes through the compatibility aliases of one shared account.
They differ in what `Program` lists. A request is a member of `wire`; it is looked up
(`LookUp`) and handled (`Handle`) in two steps, at any time, also when nobody waits for
its answer any more. The handlers are those of `Sessions` seen from outside, one account
with its episode. `executed` counts the steps the server has carried out, also those
with a message, which act, are counted, and are answered with a 500 (`raised`). `untold`
counts a program's attempts at a step from which it cannot tell whether they were
carried out.

Definitions whose name has a suffix after an underscore (`Regressed_NoFloor`) and the
comment "Seeded fault" are plausible bugs. No specification uses them: they are there to
show that each property can tell the code from a near miss.

`MC*` modules give the constants their values for TLC. `*Proofs` modules hold the
theorems.

## Runs

| cfg | Checks | Result |
|---|---|---|
| `MCDifficultyFSM` | types, no transition leaves an advance owed, the streak is the trailing run of successes, advances are earned | holds |
| `MCIncidentLifecycle` | damage always has an owner, declaration does not depend on the order, one remediation harms nothing | holds |
| `MCArenaEnv` | the three levels agree, only a declaration resolves, resolved means healed but for a node's usage, truncation is final, every episode ends | holds |
| `MCSessions` | capacity, a step hits the episode it names, ended episodes are filed if the reset had been answered | holds |
| `Orphans` | a session nobody is mapped to is reclaimed | holds |
| `MCMessageBus` | through Redis each callback gets a message once, what is published is heard while the listeners live, each agent's channel is a mailbox of its own | holds |
| `MCWsManager` | no live client misses an event, only clients that have gone are pruned and the next broadcast does it, broadcasts return unless a peer stalls | holds |
| `MCAgentTeam` | the daily budget in calls and in requests, answers belong to their prompt, dangerous actions need an authorization each, messages are shown once, every `act()` ends | holds |
| `MCApiClients` | results in the order of the server, drift only by attempts that got no answer or a 500, revoked keys are refused, one account per email, every call returns | holds |
| `EarlyAdvance` | an advance takes that many episodes | violated |
| `TalkingAgents` | every episode ends, if all actions may carry messages | violated |
| `Quota` | the free plan's limit | violated |

The violated ones state what a comment or docstring promises; `findings` in
`PROJECT.json` quotes it. Their shortest counterexamples:

- `EarlyAdvance`: an episode is resolved and stepped once more; both steps record a
  success.
- `TalkingAgents`: each step raises at `message.content.hypothesis` before the limits
  are looked at, forever.
- `Quota`: two resets pass the check before either increments the count.

Other differences between the code and its comments that the models contain and no run
is spent on:

- `remediate()` leaves the usage of 95% the node failure cascade gives node-02, although
  its docstring (`sim/failure_injector.py:521`) says that it "reverses cluster
  mutations": an episode may be reported resolved with that node overloaded.
  `overloaded` is therefore the exception of `ResolvedMeansHealed` and of
  `DamageHasAnOwner`.
- `ChaosMeshArenaEnv.reset` does not reset the injector: incidents of an unresolved
  episode stay active in the next. The server makes a new environment for every reset;
  gym users do meet it.
- Two overlapping resets of a user both create a session; the one that loses its mapping
  is an orphan (`OrphansAreReclaimed`).
- `/env/step` compares the request's `episode_id` with the session's, and both may be
  empty: until the first reset of a session has returned, a step with an empty id passes
  the check (`src/server/routes/env.py:137-143`) and runs on an environment without an
  episode or on the one the reset starts meanwhile. `StepsHitTheirEpisode` leaves out
  such steps.
- An episode whose id was learned early can end before its row is inserted: `complete()`
  then updates nothing and the row stays "running" for ever, although
  `_finalize_episode` is there to "Persist episode results on completion"
  (`src/server/routes/env.py:245`). `FinishedEpisodesAreFiled` is about steps sent after
  the answer to the reset.
- `llm/openrouter_client.py:5` says "rate-limited to" a number of "requests per day". A
  unit of the budget is one call of the SDK client, which is built with its default of
  two retries (lines 72-75): up to three requests per unit. `BudgetHeld` bounds both.
- `bus/message_bus.py:8` says that of the broadcast channel "all agents receive", and
  `broadcast()` is to "Publish a message to all agents" (line 132). Callbacks do; but
  there is one list for all who poll, and `get_messages` takes messages out of it: who
  polls first gets them and the others never do.
- The clean-up loop closes a session that was touched after its list was made.
- With n subscriptions of a channel, the in-process fallback runs n handlers that each
  call all n callbacks: every agent gets a message n times. Nothing is ever put into the
  queues that `get_messages` reads without Redis.
- A publication whose `lpush` was carried out and whose `publish` failed goes out once
  more through the fallback.
- `ws_manager.disconnect(websocket)` is not awaited: a client that has left is
  registered until a broadcast it wants finds it gone.
- `act()` may raise: on JSON of which no action can be made, and in the commander as
  soon as an observation has messages, because `MessageType` has no
  `REQUEST_AUTHORIZATION`.
- The CLI's own agents and `inference.py` send action types that `ActionType`
  (`models.py:82`) does not have. The server answers 422: the plain run ends at its
  first step, the Textual one never gets on.
- An integer action of the gym wrapper imports `chaosmesh_sdk.action_space`, which does
  not exist; it fails before a request is sent.

### Bounds

- FSM: three levels with thresholds 3, 2 and 3 and six episodes: a streak can be built
  and lost on two levels in a row and reach the threshold of the top one, from which
  there is no advance; results on both sides of each criterion.
- Incidents: the default cluster's five pods, two services and three nodes, and three
  incident ids. Three incidents can overlap in every combination of kinds; the ids are
  symmetric. The state space is finite without another bound.
- Environment: two episodes (a leak needs two), three ids, caps of two demo steps and
  three ticks with counters that go past both, so that an episode can be stepped beyond
  its end. Thresholds 2 and 1 and targets of 1 to 3 ticks keep advances and efficiency
  penalties within reach.
- Sessions: two users, two coroutines, two sessions and a quota of one. With room for
  one the users compete and a reset is refused; a second session replaces the first
  under steps of either episode, named at any time. `Orphans` has the demo user alone,
  three sessions and room for two: an orphan takes one session to close and two that
  replace it, and the clean-up loop has a list of two. `Quota` needs two overlapping
  resets. Coroutines are symmetric in the safety run. `CHECK_DEADLOCK FALSE`: with no
  session left, no request under way and the last session of the bound used, a server
  that waits for requests has nothing to do.
- Bus: two agents that listen or poll, one publisher, two messages, one fault, and pops
  of one message: a message on each of two channels or both on one, `publish_to` with
  its second half, a fault at any call.
- WebSockets: two clients, two broadcasts at once, two events of a scoped and an
  unscoped kind, clients that want all or one episode: each client may be in the
  snapshot of one broadcast and not of the other, and be dead to one or to both.
- Agents: the commander, which does not read its mailbox, and the remediation agent, the
  only one with authorizations; two acts, two messages to each, two days, a budget of
  one request, a recent list of one, and the default timeouts (30 and 20 s for the
  models, 30 s for the agent; demo mode has 8 and 6). The SDK retries once instead of
  twice: a request and a resend on either side of midnight. With two acts one prompt's
  answer may be the other's fallback, and both compete for the budget.
- Clients: one program of any kind, two attempts, four calls, one late request, two
  episodes, one email, two overlapping registrations, two keys. A late step needs an
  attempt given up and a reset in between: three calls. Clients share nothing but their
  account: a late request is what another program of the user would be.
- `CHECK_DEADLOCK FALSE` in the last four: when the bound on messages, events, acts or
  calls is used up there is nothing left to do.

### Fairness

- `SilentAgents` (ArenaEnv): the agent loops of the repository step until an episode
  ends, so steps keep coming; the assumption that matters is that a step *without a
  message* is eventually among them. `TalkingAgents` drops that part and assumes only
  that steps keep coming: `EpisodeEnds` fails.
- `CleanUpRuns` (Sessions): time passes for a session nobody touches, and the clean-up
  loop, which catches its exceptions and sleeps 60 s, keeps running. Nothing is assumed
  of users or requests.
- MessageBus: the listen loops run while they live (`Listen`); publishers, subscribers
  and faults are free. `PublishedIsHeard` is therefore about messages that went out
  through Redis while no listener had failed.
- WsManager: the event loop resumes a broadcast (`SendNext`, `Prune`). A stalled peer
  keeps `SendNext` disabled, since `send_text` has no timeout.
- AgentTeam: timers fire and the models answer or fail in their own time limits (`Hear`,
  `LLMTimesOut`, `ModelStep`). Redis need not answer: the steps that wait for it are not
  fair, `asyncio.wait_for` ends them.
- ApiClients: the timers of a client fire (`Resend`, `Receive` or `NoReply`). The server
  and the network need do nothing.

## Proofs

TLC agrees with each of these on its instance; TLAPS proves them for every value of the
constants, from the named assumptions alone.

- `DifficultyFSMProofs`: type correctness, `NoAdvanceOwed`, `CountersOrdered`,
  `StreakIsTheTrailingRun`, `AdvanceIsEarned`. Assumptions: at least one level, and
  positive thresholds. Each invariant speaks of the FSM and the saved snapshot alike:
  `load_state` could bring back what the live counters never show. The streak's
  invariant is that the outcomes end in exactly as many successes as are counted. Since
  an advance, a forced level and a regression restart the history, the induction needs
  no history before them.
- `IncidentLifecycleProofs`: first lemmas about the operators of `FailureInjector` and
  `ClusterState`, for any cluster: each injection keeps the type and `DamageIsOwned`, as
  do repairs, remediation and reset; restores commute, `RemediateAll` after `Remediate`
  is `RemediateAll`. Then `ClusterTypeOK`, `DamageHasAnOwner`,
  `OrderOfRemediationIsIrrelevant`, `RemediationNeverHarms`. The inductive invariant is
  `ClusterTypeOK` with `DamageHasAnOwner`. The latter is inductive because it asks the
  nodes, partitions and anomalies to be clean only when no incident is active: a
  remediation cleans them all, whichever incident they came from, but restores only its
  own pods and services.
- `ArenaEnvProofs`: `TypeOK`, `LevelsAgree`, `ResolutionIsDeclared`,
  `ResolvedMeansHealed`, `TruncationIsFinal`, for any cluster, level tables and set of
  actions. None is inductive alone. `ResolutionIsDeclared` needs that the incident of
  the reset is still active until a declaration (`StillActive`); `ResolvedMeansHealed`
  follows from the injector's `DamageIsOwned`, which every step preserves by the lemmas
  above; `TruncationIsFinal` needs that a truncated episode still meets the limit that
  truncated it (`LimitStillMet`: counters only grow, and the caps of step and clock stop
  above every limit). Assumptions: at most five levels, the tables typed, the caps above
  the limits. A reset is modelled only while two incident ids are free. The module
  extends `IncidentLifecycleProofs` for its lemmas about the operators; the variable
  `cluster` of `IncidentLifecycle` plays no part in it.
- `AgentTeamProofs`: `TypeOK`, `DangerousNeedsGrant`, `BudgetHeld`, `AnswersItsPrompt`,
  `ShownOnce`, for any callers, prompts, answers and limits. `BudgetHeld` needs that the
  counter covers the units consumed today and that its date is not ahead of today
  (`BudgetInv`): a count that is for an earlier day says nothing, and nothing was
  consumed on the days to come. The requests of a day are pairs of one of its units and
  a number of the attempt, however late they were sent (`RequestsInv`), and there are no
  more of these pairs than their product. `AnswersItsPrompt` needs that a call's text is
  its own prompt's unless it fell back (`TextInv`), because texts move from calls into
  the cache and back. `ShownOnce` is inductive with the types of the three sequences
  (`MailInv`). `DangerousNeedsGrant` needs that for each dangerous action the uses and
  the authorization that is held, if one is, are no more than the authorizations among
  the messages *shown* (`GrantInv`): the set of held ones merges two grants of one
  action, so the count can only fall behind. What was shown is a prefix of what was
  received by `ShownOnce`. The types of the router (`RouterTypes`) rest on a lemma about
  `Without`: the recent keys stay distinct.
- `ApiClientsProofs`: `TypeOK`, `ResultsInOrder`, `DriftIsUntold`, `OneAccountPerEmail`
  and `RevokedKeyIsRefused`, for any programs, emails and bounds. The last needs that
  every key whose revocation was answered is marked in the table (`KeysInv`) and that a
  request that was let in was sent before that (`WireInv`). The others share one
  invariant (`Play`): a request on the wire belongs to an attempt of the call it was
  sent in (`RequestsInv`); an episode is known to the one program whose reset started it
  (`OwnersInv`), and until that program has read of it nothing is done in it nor on its
  way to it (`FreshInv`). `ResultsInOrder` then needs that a step's answer that is not
  read yet is beyond the history (`OrderInv`), and `DriftIsUntold` that the steps
  carried out *and those still on the wire* are covered (`DriftInv`): a late request is
  counted before it takes effect, and an attempt that is answered with a 500 once it is.
  A call makes no more attempts than its own program allows (`GoodClient`, where
  `TypeOK` has the largest number of any). Assumption: the programs started are among
  those described.
- `SessionsProofs`: `TypeOK`, `CapacityRespected`, `StepsHitTheirEpisode`,
  `FinishedEpisodesAreFiled`, for any users, finitely many coroutines and any bounds.
  The types need that requests which will create a session are counted against the
  bound, and that every session has had or will have one episode (`CountInv`). A step
  hits its episode because a session being reset belongs to nobody else, an entry shows
  the episode of its env, and neither changes while a step is under way (`HitInv`). A
  row is final when the end of a step sent after the reset's answer is answered: an
  episode has been told to one user at most, and to that one after its row was inserted,
  and a step that was sent after it is of an episode told to its user (`FileInv`).
  Without the last part the end would overtake the insert. Assumption: the set of
  coroutines is finite.

- `MessageBusProofs`: `TypeOK`, `RedisDeliversOnce` and `IsAMailbox`, for any agents,
  publishers and bounds. The inductive invariant: no two publishers hold the same
  message, and none sends one on a channel where it was sent before (`BusyInv`);
  callbacks are of channels their agent reads (`CallbackInv`); the connection holds no
  message twice and only sent ones (`InboxInv`); what it holds and did not fall back was
  not heard yet (`HeardInv`). For the refinement each step is mapped, by the channel it
  is about: a push is a send, the fallback a message that passes the mailbox by or is
  heard again, what a lost answer popped and what expired is a loss, a fault elsewhere a
  `Fail`; an empty poll, the broadcast channel and everything else a stutter. It needs
  that a publisher takes the fallback with a message that was not sent on its channel
  yet only while there is no Redis (`OfflineInv`): otherwise messages would pass an open
  mailbox by though nothing fails. Assumptions: "broadcast" is no agent's name and the
  bounds are numbers. `IsAMailbox` is a safety statement; `PublishedIsHeard` is not
  proved.
- `WsManagerProofs`: `TypeOK`, `OnlyTheGoneArePruned`, `PrunedByNextBroadcast`,
  `NoLiveClientMissesAnEvent`, for any clients, filters, events and any number of
  broadcasts at once. The invariant follows each event from the snapshot of its
  broadcast: a client that was registered before it has got it, does not want it, has
  gone, or is still among the targets of a broadcast of it (`SentInv`); one that had
  left is out of the list, or among the targets, or among the dead that this broadcast
  will take out (`PruneInv`). Nobody is dead who has not gone (`TasksInv`), which is why
  a prune that works on the list of *now* with dead found long ago is harmless. The list
  operator `Among` is a recursive function; that it keeps exactly what it should, once,
  is shown by an induction over its length (`AmongKeeps`), from the well-foundedness of
  the numbers.

Every safety property of the passing runs, invariant or action property, is proved. Only
model-checked is liveness (`EpisodeEnds`, `OrphansAreReclaimed`, `PublishedIsHeard`,
`BroadcastReturns`, `ActsEnd`, `CallsReturn`), which the prover does not handle.
`CountersOrdered` is proved and needs no run.

## Not modelled

- In what is modelled: log texts, metric values, observations, random drift; the
  unsafe-action branch of `step`, which no valid action reaches; failing database
  statements and `EnvPool.stop`; two threads inside one `env.step` at the same time,
  which needs the step split at every shared read and write; the wording of prompts and
  what a model makes of them; `publish_event` of the bus, whose channel nobody
  subscribes to, and connecting to Redis a second time; tokens made from a key before it
  is revoked.
- The chaos orchestrator: no part of the environment or the server makes one. It turns
  an LLM's text into incident descriptions.
- The belief tracker and the vector and episode stores: no decision of what is modelled
  reads them, and they are I/O over ChromaDB and SQLite.
- Token formats and hashing: cryptography. Leaderboard and episode queries, log
  synthesizer, HTML report, web pages and dashboard: views of what others keep.
- `graders.py` and `environment.py`: scores of recorded trajectories and a catalogue of
  tasks.

## Plan

1. Done: difficulty FSM, incidents, environment, sessions; bus with its abstract
   specification, WebSockets, router and agents, accounts and API clients; the proofs
   above.
2. `EnvThreads`: `env.step` split at its shared reads and writes, for two threads in one
   environment and a demo injection from the event loop.
