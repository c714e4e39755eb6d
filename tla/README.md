# Verification of the TCP proxy and its neighbours

TLA+ models of the Tool Capability Protocol repository, checked with TLC and,
for the parts that matter most, proved with TLAPS. `ACTIVE_SURFACE.md` of the
repository names `tcp/` and `tests/` as the active surface; the models start
there and put the Claude-Code proxy (`tcp/proxy`) first, because it is the part
that runs for days, holds state between requests and serves many of them at once.

## 1. The system and its parts

| part | state it keeps | operations | hard behaviour |
|---|---|---|---|
| Recency shield and decision log (`tcp/proxy/cc_proxy.py`) | `_recent_server_calls` in memory, `decisions.jsonl` on disk | look up and prune when a turn arrives, note calls and append a row when its response ends, warm on start | overlapping turns, crash and restart, torn lines, clock changes |
| Response tap (`proxy_post_messages.body_iter`) | line buffer, tool sequence, done flag, per stream | read a chunk, hand it to the client, parse it, write one record | chunk borders anywhere, disconnect at any yield, a record that fails to be written |
| Upstream sending (`_send_upstream_with_retry`, `proxy_pass_through`) | attempt counter, first-byte flag | send, retry before the first byte | duplicate delivery of a POST, late first byte |
| Tool gating (`_process_tools_array`, `controller.py`, `pack_manifest.py`) | manifest cache; none per request | gate by environment, shape by server state, safety floor, demote, rebuild the tools array | five stages that each overrule another |
| Capability resolution and denial (`capability_resolution_gate.py`, `denial_enforcement.py`) | none; records in the decision row | classify a requested capability over six surfaces, judge a denial | precedence of statuses, stale surfaces |
| Reducer (`survivor_reducer.py`) | none | shortlist by evidence, compute demotion candidates | abstaining, caps, ties |
| Mode file (`_read_mode`, `_write_mode`) | one file, one environment variable | read per request, write by POST /tcp/mode | a read between truncate and write |
| Capability registry (`tcp/core/registry.py`) | tools by name and version, access times | register, look up, evict, expire | limits, key mirrors, re-registration |
| Sandbox approvals (`tcp/security`) | request files, the approved-tools map on disk and in each manager | request, approve, deny, revoke, load | crash between two steps, two managers on one directory, a revocation that does not arrive |
| MCP registry store (`mcp-registry/api`) | one JSON database, one lock | create, update, delete, verify | a lock taken twice |
| Health monitors (`mcp-registry/monitor`) | a task per server and an LRU cache; a loop with batches and a semaphore | start, stop, add, remove, check | cancellation at every await, one of them swallowed; servers that come and go during a round |
| Knowledge base collectors (`tcp-knowledge-base/scripts`) | counters and a set under one lock, one file per command, a list of the known ones | ask a model from a pool of threads, write, count, save | threads, retries, failing writes and saves, a stop at any step |
| Knowledge base refinery (`tcp_optimized_multi_stage.py`) | the analysis in its five stages, statistics | parse, assess, review, choose flags, encode | three models answer after fixed lists have decided |
| Agent loop (`tcp/agent`) | message list, turn counter | ask the model, run tools, stop | error classes, turn limit |
| Quarantine network (`tcp/core/distributed_tcp_architecture.py`) | zones, status per node, route cache | add, quarantine, isolate, release | cannot run, see section 5 |
| Adjudication (`tcp/adjudication`) | rows and ratings | rate, arbitrate, export | order of ratings, pending counts |
| Bitmask filter, gate and routers (`tcp/harness`) | none | turn tools away by tests or by masks, select one | two implementations that must not drift apart |
| Kernel module (`kernel/tcp_kernel_module.c`) | kprobes, a hash table | look up, pre-handlers | lookups without a lock |

How they interact: a request enters the proxy, which reads the mode file, shapes
the tools array (gating, reducer, shield, demotion, capability resolution),
sends it upstream (with retries), taps the response, runs the denial check on the
text and writes one row of `decisions.jsonl`; that row and the noted calls feed
the shield of later turns and, after a restart, its warming. The sandbox, the
registry, the services of `mcp-registry` and the knowledge base run on their own.

### What makes each part correct

- **Shield**: a turn is shielded only by servers really called in its workspace
  within the TTL; protection is never shortened by a slower, older turn; a
  restart brings back what the log still knows.
- **Shield and gating together**: a tool the model called comes with its schema in
  the next turns.
- **Tap**: one row per turn; the row names the calls of exactly the text that was
  judged; every turn ends, with its upstream response closed.
- **Retry**: an unsafe request is never carried out twice; no body is pieced
  together from two responses; every response is closed.
- **Gating**: what one stage promises no other stage takes back: core tools stay
  unless the environment rules them out, activated servers stay visible, suppressed
  servers stay hidden, a demoted tool can be had back, and "unavailable" is only said
  of what was not sent.
- **Registry**: its two dictionaries agree, it stays within its limit, and it
  evicts in the order of use as far as the wall clock tells it.
- **Sandbox**: no approval nobody took; a saved decision is only lost to a writer
  that could not know of it; a revocation takes the tool away.
- **Registry service**: every request that writes is answered; a server has one
  watcher; stop ends, and no task the monitor still has an entry for watches
  afterwards.
- **Knowledge base**: what counts as known has its analysis; every command is
  counted; nothing a model says undoes what the lists decided.

## 2. The modules

| module | models | its specification in short |
|---|---|---|
| `ShieldContract` | what the shield promises, with no registry, log or process | `Decide`, `Observe` |
| `RecencyShield` | registry, decision log, crash, restart, warming, replay | `Arrive`, `Finish`, `FinishUnlogged`, `Crash`, `Restart`, `Tick`, `StepBack` |
| `ToolGating` | the tools array of a turn | `SetMode`, `ProcessTools`; the five stages are operators |
| `ToolRouting` | the two routers of the harness, one over masks, one over the gate | `AddTool`, `Route`; each router is a few operators |
| `ProxyTurns` | both together: `RecencyShield` extended by the shaping of `ToolGating` | `ProxyArrive`, `ProxyFinish`, ... |
| `ProxyLimits` | the limits two modules share | constants and their assumptions |
| `ResponseTap` | one POST from the send to its row | the send, the body generator, and what may break |
| `UpstreamRetry` | the two places that send again | answers, errors, cancellation, streams |
| `RecencyList` | what the registry promises: the keys held, the order of their last use, and whose place in it the clock did not tell | `Register`, `Get`, `Unregister`, `Expire` |
| `CapabilityRegistry` | the two dictionaries and the wall clock | one action per method |
| `SandboxApprovals` | request files, the approved-tools file, several managers | `Start`, `Approve`, `Revoke`, `Deny`, the steps of a save, `Stop` anywhere |
| `ServerStore` | the store of the MCP registry service and its lock | `Arrive`, `Change`, `EnterSave`, `Write`, `Verify`, `Startup`, `Close`, `Kill` |
| `HealthMonitor` | a task per server, direct checks, the cache | one action from await to await |
| `BatchHealth` | the loop that checks in batches | `BeginRound`, `Enter`, `EndCheck`, `StoreBatch`, `LoopCancelled` |
| `RegistryMonitors` | both monitors, with state of their own | `BatchHealth` as an instance |
| `KnowledgeBurst` | the four programs that collect analyses | the main thread, the threads of the pool, `End` anywhere |
| `RiskRules`, `RiskRefinery` | the words and lists; the five stages | one action per stage |

`MC...` modules instantiate these for TLC; `...Proofs` modules hold the
theorems. `PROJECT.json` maps every definition to the lines it translates. Four
`MC` modules hold two or three specifications of which one runs, chosen in the
initial state (`MCToolGating`, `MCProxyHandlers`, `MCHealthMonitor`,
`MCKnowledgeBase`); their variables are disjoint, so a run checks each for itself.
For that the definitions of `CapabilityRegistry`, `UpstreamRetry` and
`RiskRefinery` have names of their own (`RegistrySpec`, `PassInit`,
`RefineryNext`, ...).

### RecencyShield (`tcp/proxy/cc_proxy.py`)

| in the module | in the code |
|---|---|
| `registry` | `_recent_server_calls`; `Never` is a missing key |
| `turns[r]` | the decision metadata of one request, from its arrival to its row |
| `log`, `tornTail` | `decisions.jsonl`: the rows a reader can parse, and whether the file ends inside a line |
| `Arrive` | `_recent_mcp_servers` in `_process_tools_array`: prune, read, decide |
| `Finish` | `_write_decision_record`: `_note_recent_tool_calls`, then the append |
| `FinishUnlogged` | the same when the append raises, half a line written or none |
| `Crash`, `Restart(k)` | the process stops; `_app_lifespan` warms from the newest `k` rows, fewer than all if reading fails |
| `Replay` | `scripts/replay_reducer_demotion.py` |

One asyncio thread runs the handlers and none of these steps awaits anything, so
each is one action; turns overlap because arrival and end are two actions.
`noted` and `observed` are history variables: the code does not keep them, and no
guard reads them. The line that is cut short matters: the row appended behind it
joins it, and the reader drops both.

### ResponseTap

A data line of the stream is three atoms, two halves of its text and its newline,
so that chunk borders fall inside a line, between text and newline, and after it.
`buf .. tapped` is what the line buffer holds. `Chunk` hands a chunk to the client
and only then is it parsed (`TapChunk`, `TapStop`): the client may leave in
between. `request.faults` says which of log, upstream and client may fail in a
turn. `Finally` is the `finally` block of `body_iter`, the closing of the response
behind the record that may raise included.

### UpstreamRetry

`SendError` is the loop of `_send_upstream_with_retry`, `BodyFails` and
`RebodyFails` the second retry inside the body generator of `proxy_pass_through`.
`executions` counts what upstream carried out: nothing after a connect error,
possibly the request after any other (`MayHaveExecuted`, the one external fact).

### ToolGating

The configuration (allow list, manifest rules, environment, demotion) is fixed
when the proxy starts; the mode is read from its file at each turn. Stages are
operators in the order of the code: `ServerState` (controller and manifest),
`Stage1` (hard gate), `Stage2` and `StrictGate`, `FloorRescued` (safety floor),
`Shortlists`, `DemotionCandidates` (reducer), `Emitted`, `Deferred`, `Sent`
(output), `Status`, `DenialAllowed` (stage 5). Prompts are what the pipeline takes
from them. Reducer scores are left out: any tool with evidence may lead, so a
property holds for every scoring.

### ToolRouting (`tcp/harness`)

A mask is the set of its bits, and what a task asks for beyond bits is one set of
features. `Gate...` is `gate_tools`, test by test; `Bit...` and `Route...` are
`bitmask_filter` and `route_tool`. The list of the second one is put together in
another order (`Ahead`), so that ties are broken differently; the property speaks of
equal cost for that reason.

### CapabilityRegistry

Every public method holds one reentrant lock and is one action. `Victims` is
`_evict_oldest`: it removes something only if the key with the oldest time is
held, so the limit depends on `IndexesAgree`. The clock is the wall clock: a use
reads any of `Times`, so that it may move on, stand still (two uses within a
microsecond) or be set back. Three history variables keep what the access times
may miss: `before` is the order of the calls themselves, `latest` the latest time
a use has read, and `astray` holds the keys whose last use read no later a time than
some use before it. `RecencyList` promises that a key is evicted or expires before one used
earlier only if it is astray. While the clock moves on nothing is astray, and this is
the order of use exactly; when it was set back, what is used until it has caught
up is out of its place until it is used again. A tie is broken by `min` in the order
of the dictionary; the model takes any of the oldest.

### ProxyTurns

`ProxyArrive` is the part of `proxy_post_messages` from the request to the send: the
shield is looked up and the tools array shaped with it in one step, as there is
no await in between. `ProxyFinish` lets the model call any names it was sent, one
without its schema too, and notes their servers. `before` remembers for each turn
which turns were logged when it arrived, which is what the properties speak of.

### SandboxApprovals (`tcp/security`)

A map holds for each tool the number of the request it was approved from. A save is
`Truncate` then `Dump`, and a process may stop or fail in between; `mixed` is true
of a save that another one overtook after the file was opened, whose result may not
parse. A process that stops or fails in its `Dump` may leave part of its text, over
what another manager has finished or under what one has still to write (`LeftFor`).
A file that does not parse loads as an empty map. `Revoke` puts half a
record into quarantine and changes nothing else, since `json.dump` cannot write the
record. `behind` and `lost` are history: which tools the memory of a manager, and the
file, may be wrong about because a writer could not know better.

### ServerStore

Requests are tasks of one event loop with `pc` where they wait; the verification
that follows an answer goes on with the `pc` of its request. `Change` takes
`Database.lock`, changes the memory and goes on to `save_data`, which asks for the
lock again. A reentrant lock would let `EnterSave` pass; the code's does not, so that
only `Close`, the save at shutdown, ever writes the file. A save empties the file
when it opens it (`Torn`), and a file that does not parse loads as an empty one.

### HealthMonitor and BatchHealth (`mcp-registry/monitor`)

A step of a task runs from one await to the next; `cancelled` is a cancellation on
its way to the task, delivered at its next await. At an endpoint that is not the
last, the bare `except` of `_check_http_health` takes it for a failed attempt
(`survived`). A task of `HealthMonitor` tries `Endpoints` + 1 places. In `BatchHealth`
the snapshot `rest` is taken from its front, a batch at a time; `permits` is the
semaphore, which lives as long as the monitor, not as long as the loop. Answers
are left out: only whether a check ended. `start` and `stop` are called in turn in
both, as the lifespan of the API does.

### KnowledgeBurst (`tcp-knowledge-base/scripts`)

One module for four programs that differ in what they retry, count and leave out
(`Attempts`, `CountsErrors`, `Portions`). `worker[c]` is where the analysis of a
command is; opening a file and writing it are two steps, for the list as for an
analysis. `Record` takes the lock, adds the command, and keeps the lock while the list
is emptied (`EmptyList`) and written (`Save`); where the open itself fails, the old list
stays (`SaveFails`). Two programs retry what speaks of a "rate", an open that fails on
a file with that in its name included (`OpenFailsAtRate`). `kept` is history: it grows
by what each save puts into the list and is only reset by `Repair`. `End` may come at any
step; `Repair` is somebody who takes a torn list away, without which no program
starts again.

### RiskRefinery (`tcp-knowledge-base/tcp_optimized_multi_stage.py`)

An answer of a model is the set of those words in it that the stages look for
(`RiskRules`); what else it says does not matter to the code. `GiveUp` is a stage
whose model does not answer.

## 3. The runs

| run | checks | bounds | shows |
|---|---|---|---|
| `shield_faults` | `TypeOK`, `ShieldOnlyObserved`, `KeepsContract` | 3 turns, 2 servers, TTL 1, clock 0..2 with steps back, crashes, failing logs | no fault makes the shield protect what was not called; the proxy implements `ShieldContract` |
| `proxy_turns` | `CalledComesInFull`, `RestartKeepsSchemas`, `RegistryKeepsNewest`, `ReplayCoversLive`, `OrderedLogRestores` | 3 turns, 2 tools on 2 servers, TTL 1, clock 0..2, crashes, modes live and shadow | a called tool keeps its schema, across a restart too; turns that end out of order do no harm |
| `proxy_handlers` | `OneRowPerTurn`, `CompleteRowIsComplete`, `AbortedRowIsPrefix`, `CheckedOnce`, `TurnEnds`; `UnsafeOnce`, `OneBody`, `AllClosed` | up to 4 events, chunks cut anywhere, every set of faults; 3 attempts, one more than the code | rows are complete or honest prefixes and turns end; retries are safe |
| `gating_turns` | `MentionsOnlyAdd`, `LiveHidesSuppressed`, `FloorKept`, `DemotedStaysReachable`, `DemotionIsReversible`; `RouterAgreesWithGate`; `IndexesAgree`, `Bounded`, `KeepsRecencyOrder` | 7 tools, 3 servers, 2 packs, every rule a manifest can have; lists of up to 3 out of 6 tools; 2 names in 2 versions, room for 3, 4 times, any of them at any call | the stages keep each other's promises; the router over masks is the gate; the registry implements `RecencyList`, whatever the clock shows |
| `sandbox_managers` | `OnlyGranted`, `DecisionsKept` | 2 managers, 2 tools, a stop or failure at any step | approvals come from humans only and are lost only to writers that could not know them |
| `health_monitors` | `CacheFits`, `OneWatcher`, `AddedIsWatched`, `QuietOnceStopped`, `StopEnds`; `EveryServerChecked`, `OrphansWereInTheRound` | 2 servers, 2 tasks, 2 direct checks, 1 endpoint, a cache for 1; 3 servers in batches of 2, 1 permit | one watcher a server, stop ends and leaves silence; no server is starved by changes of the list |
| `knowledge_runs` | `KnownAreAnalysed`, `ListKeepsAll`, `AllCounted`, `RunEnds`; `RulesPrevail`, `FindingsAreEncoded` | 3 commands, 2 threads, batches of 2, saves at every second one, 2 attempts; 1 listed and 1 unlisted command | nothing known is without its file, no save loses an earlier one; lists win over models |
| `shield_warm_break` | `WarmingRestoresShield` (violated) | 3 turns, TTL 2, clock 0..4 | finding 1 |
| `gating_denial` | `DenialOnlyIfAbsent` (violated) | a plain configuration, network on or off | finding 2 |
| `store_answers` | `WritesAnswered` (violated) | 2 servers, 2 requests | finding 3 |
| `sandbox_revoke` | `RevokedIsTaken` (violated) | 1 manager, 2 tools | finding 4 |
| `gating_floor` | `FloorWithinEnvironment` (violated) | the configuration of `gating_denial` | finding 5 |

Why the bounds are enough.

- *Shield*: two overlapping turns and a third that arrives after them are what it
  takes for an older turn to end last and for its effect to be seen; a TTL of 1 on
  a clock of 2 has stamps inside, at, and beyond the TTL. `MaxOpen` 2 keeps two
  turns in flight. One workspace is enough, as no step reads the entries of
  another and the theorems hold for any number.
- *Turns*: one server's tool is named by the prompt and so never demoted; the
  other's is demoted unless it is shielded.
- *Tap*: four events give two tool calls with text before and after, and
  `message_stop` with something behind the last call; three atoms per line give
  every kind of cut. *Retry*: the loop's limit is 2 in the code; 3 shows that
  nothing depends on it, and the proofs that no number does.
- *Gating*: every tool stands for a class (core, floor, pack, no pack, fallback
  tier), and a property of one tool and one server needs no second of its class
  except where the shortlist is full (`MaxShortlist` 1, two tools of git).
- *Routing*: the two routers judge tools one by one and then compare costs; three
  tools are one that is turned away or asks for approval between two that tie.
- *Registry*: four keys for three places, so that registering evicts another
  tool's descriptor, the same tool's other version, or itself; four times let the
  clock be set back behind two uses and pass them again.
- *Sandbox*: the one that overwrites and the one that is overwritten; of two
  tools, one is approved while the other's approval is lost.
- *Monitors*: a task whose cancellation was swallowed lives beside the next one of
  the same server, hence two tasks; a cache for one server is full at the second.
  In the batch monitor the last batch is short, and a check has to wait for the
  one permit.
- *Collectors*: three commands are more than the threads, more than a batch, and
  more than a save covers, so that one is always left over. *Refinery*: commands
  do not meet, so one of each kind will do; the answers hold words of every class
  the stages look for, and words that contradict each other.

The clocks, the numbers of events, requests, calls and processed commands are the
only bounds that are not the code's own; each is a constant named in its module.

No run turns the search for deadlocks off: where a system may come to rest, its
module says so with a step of its own that changes nothing.

### Fairness

- `ResponseTap`: `WF(Upstream)` since httpx ends every wait with an answer or an
  error (`UPSTREAM_TIMEOUT`, `cc_proxy.py`), and `WF(Generator)` since the server
  drives a started generator to its end or closes it. Leaving is never assumed:
  the actions of a client that goes away are not fair, and nothing says that a
  generator is started when the client is gone.
- `ServerStore`: the event loop runs every task that can go on, one condition for
  each request. Start, shutdown and kill are not fair.
- `HealthMonitor`: one condition for `stop` and one for each task, for the same
  reason; every await of a task is a sleep or a request with a time limit.
  Nobody has to add, remove or stop anything.
- `BatchHealth`: the loop and each check, as above. A permit goes to those that
  wait in turn, but `WF` per check is enough: a round waits for all of its batch.
- `KnowledgeBurst`: the main thread and each thread of the pool. `man` is run with a
  time limit, the calls to other hosts of the programs have one, and those to a
  model end by the default limit of the client library; `End` is not fair.

### Findings

1. *Warming stops early* (`shield_warm_break`, `cc_proxy.py:314`). The reader breaks
   at the first expired row since the log is "append-ordered". Rows are appended
   when a turn ends and stamped with its arrival, so a long turn writes an old
   stamp behind newer ones, and calls within their TTL are lost on restart.
   `OrderedLogRestores` shows that, without failing writes and clock changes, this
   is the only way to lose them.
2. *A denial of what was sent* (`gating_denial`, `cc_proxy.py:1063`). Shadow mode
   sends everything and resolves capabilities over what the gate left.
3. *Writers wait for themselves* (`store_answers`, `database.py:94`). The store's lock
   is not reentrant and is taken twice by each writing request, and by each
   verification. (With `EnterSave` open to the holder the property holds.)
4. *Nothing is revoked* (`sandbox_revoke`, `sandbox_manager.py:474`). The record of a
   revoked tool holds an enumeration and bytes, which `json.dump` cannot write; it
   raises before the tool is taken off the map.
5. *The floor undoes the environment* (`gating_floor`, `cc_proxy.py:811`). The comment at
   803 lets core tools survive "unless Stage 1 made them environmentally impossible";
   the code adds each that is missing, so that `Bash`, which needs the network too
   (`tool_flag_map.py:24`), is rejected in stage 1 and sent. `FloorKept` speaks of the
   core tools stage 1 let through.

Seen while modelling, without a run of their own:

- *Proxy*. A data line whose newline is in the next chunk parses at once and stays
  in the buffer, so a call may be in a row twice (`cc_proxy.py:1969`, against the
  comment at 1896); `CompleteRowIsComplete` and `AbortedRowIsPrefix` therefore
  speak of the calls up to such repeats. live-strict hides nothing: every request
  derives a text output format, no record has one, the strict gate rejects all,
  and the empty fallback sends all (`cc_proxy.py:785`, 667). In a system directory
  a fallback-tier tool that stage 1 rejects never enters the suppressed set and is
  sent although its server is suppressed (878; it is why `LiveHidesSuppressed`
  speaks of what passed stage 1). The single survivor need not be the model's only
  choice (1308, 1309). A workspace-listed server in no pack stays suppressed
  (`pack_manifest.py:383`). The replay can credit more shield than a turn had
  (1633). Expired entries of a workspace nobody looks up stay (218). A compressed
  body that was not streamed loses its `content-encoding` (1715). When the send
  gives up after a retry, the row says `retry_count` 0 (1878). A turn that takes
  longer than the TTL protects nothing when it ends.
- *Registry*. Registering a descriptor again in a full registry evicts another one
  (`registry.py:35`); the latest version is the greatest string (`registry.py:100`).
- *Registry service*. A save that is cut short leaves a file that is ignored at the
  next start (`database.py:73`); while finding 3 stands, only the save at shutdown
  can do so. The background verification writes back a server it read long before
  (`server.py:382`), which brings a deleted server back once the lock is repaired. A
  removed server whose task swallowed the cancellation stays monitored, and after
  stop and start `add_server` says "already being monitored" of a task that is dead (`health.py:101`); such a task makes `stop` wait for its sleep. In the
  batch monitor the results of removed servers stay and count
  (`batch_health.py:257`), and a second `start` loses the handle of the first loop.
- *Knowledge base*. A torn `discovered_commands.json` stops every later start. A
  safety review that names no level resets CRITICAL to MEDIUM_RISK, as the guard at
  line 661 is never false; "UNSAFE" holds "SAFE"; the flags of `sudo`, `mount` and
  `shutdown` lack DESTRUCTIVE. One of the four programs does not count an analysis
  that could not be written. The smallest one takes the first 350 of a set, and the
  same failing commands may keep others out.
- *Elsewhere*. `adjudication/engine.py` subtracts a row twice that is both agreed
  and final from the pending ones. `harness/router.py` judges approval by a flag
  where the gate goes by the risk level, knows no permission levels, and calls a
  choice deterministic although the one tool left waits for approval (165).
  `snf.py` turns a trailing `*` into `**`
  against its comment.

## 4. The proofs

TLAPS checks every step; the theorems hold for all values of the constants that
meet the named assumptions (`ShieldAssumption`, `TapAssumption`, `RetryAssumption`,
`GatingAssumption`, `RoutingAssumption`, `RegistryAssumption`, `SandboxAssumption`, `BurstAssumption`,
`RefineryAssumption`, `HealthAssumption`,
`BatchAssumption`, `ProxyAssumption`), with no bound on turns, servers, tools or attempts other
than those that are parameters.

- **RecencyShieldProofs**: `TypeCorrect`; `ShieldSound` (`ShieldOnlyObserved`);
  `NewestKept` (`RegistryKeepsNewest`, if the clock only advances);
  `ReplayNeverShort` (`ReplayCoversLive`, if no write fails);
  `ShieldImplementsContract` (`KeepsContract`); `OrderRestores`
  (`OrderedLogRestores`, under both conditions and with warming on). That a shield
  names only observed calls is not inductive: the shield is read from the
  registry, which is filled from responses, or from rows. `ShieldInv` adds what
  each of these holds: stamps are of noted calls, noted calls were observed, rows
  hold observed calls. The replay needs more (`ReplayInv`): every noted call has its
  row, and the shield of a turn still open is covered by rows already written.
  The restart (`RestoreInv`) needs that what the registry knows is in the log, and
  that the reader of an ordered log stops only before rows that are all expired.
  `Max` of a set of stamps is shown to exist by well-founded induction on the
  clock (`MaxOfStamps`).
- **ProxyTurnsProofs**: `TurnsImplementShield` (every step of the composition is a
  step of the shield or leaves it alone, so what is proved of the shield holds in it),
  `SchemasKept` (`CalledComesInFull`, if the clock only advances) and
  `SchemasSurviveRestart` (`RestartKeepsSchemas`, if also no write fails, warming is on
  and the TTL is not zero, which turns the shield off). The property speaks of the
  tools array a turn was given, the shield theorems of the registry; `LinkInv` ties
  them: the shield in the shaping of a turn is the one it got on arrival, only a turn
  that has ended has called anything, and a turn looks back on turns that ended
  before it arrived, whose calls are noted. `OwnCallsShielded` and `AllCallsShielded`
  then say that what is looked back on is in the shield; only an arrival can break them,
  and there `RegistryKeepsNewest` or `OrderedLogRestores` answers. That a shielded
  server's tool is not demoted is a lemma on the gating operators
  (`ShieldedComesInFull`).
- **ProxyHandlersProofs**, response tap: `TypeCorrect`, `OneRow`, `CompleteRows`, `AbortedRows`,
  `JudgedOnce`. What is behind them is the line buffer: the tail that is kept always
  starts a data line, and every tool of the text before the place the tap has
  reached is in the sequence.
  Upstream retry: `RetryTypes`, `UnsafeNeverRepeated`, `BodiesNeverMixed`,
  `ResponsesClosed`, `SendsBounded`, `NeverResentAfterBytes`. The strengthening
  ties the counters to the stage: while an unsafe request is being sent, upstream
  has not carried it out.
- **ToolGatingProofs**: one theorem for each invariant of `gating_turns` about the
  pipeline, `VisibilityFloorHolds` (no policy and no prompt suppresses a server whose
  pack is activated, which is one operator's result and has no run) and
  `UnavailableIsAbsent`. The state is one turn, so the invariant (`IInv`) says that
  the last turn was made of a known mode, a known request and a shortlist the
  reducer could have made; the rest are lemmas on the operators, such as
  `MentionKeepsTools` (a mention raises states and so keeps tools) and
  `SoleEvidence` (the only tool with evidence leads any shortlist).
  `RoutersAgree` is about `ToolRouting`: one tool first (`RejectedByBoth`), then lists
  (`ApprovedByBoth`), then the costs of what is selected.
- **CapabilityRegistryProofs**: `TypeCorrect`, `DictionariesAgree`, `LimitKept`. These
  three are proved together (`IInv`): the limit needs the dictionaries to agree,
  or eviction might pick a key that frees nothing (`RoomMade`), and it needs what
  is held to be finite.
  `RegistryIsRecencyList` (`KeepsRecencyOrder`) is the refinement, action by action,
  under the mapping of `held` to the descriptors held; the history variables map to
  themselves. Nothing is assumed of the clock. What ties the access times to the order
  of use is one more invariant (`TimesFollowUse`): no access time is later than `latest`,
  and a key used after another has the later time unless it is astray. So an oldest key
  that is not astray was used before all the others (`OlderGoInTurn`).
- **SandboxApprovalsProofs**: `TypeCorrect`, `ApprovalsGranted`, `DecisionsSurvive`.
  Both need the same invariant: what file, memories and jobs hold was granted, and
  what a memory lacks is noted in `behind` or `lost`.
- **KnowledgeBaseProofs**, collectors: `TypeCorrect`; `KnowledgeSafe` (`KnownAreAnalysed`) and
  `SavesAccumulate` (`ListKeepsAll`), both from `KInv`. Its parts that are in neither
  property say that no thread opens the file of a command that counts as known, and
  that a program that runs knows all that was ever saved. `EveryoneCounted` rests on
  `CInv`, which accounts for every command before the run is over: as counted, or as
  still somewhere in the pool.
  Refinery: `RefineryTypes`, `RulesDecide`, `FindingsSurvive`. The invariant
  carries what a stage decided to the last one (`RuleHolds`, `FindingsHold`).
- **McpRegistryProofs**, health monitor: `HealthTypes`, `CacheKeepsLimit` (`CacheFits`),
  `ServerHasOneWatcher` (`OneWatcher`), `AddedStaysWatched` (`AddedIsWatched`) and
  `StopLeavesQuiet` (`QuietOnceStopped`), all from `HInv`. It says what the properties
  leave out about the tasks nobody asks for: a task that was not told to go is the one
  of its server's entry (`WatcherHasEntry`), no two entries share a task
  (`EntriesApart`), an entry that no stop has passed by is served
  (`EntryIsServed`), and while `stop` waits each task of an entry is among those it
  waits for, or has not run yet (`StopProgress`). The cache rests on lemmas about
  sequences: taking an entry out, adding one at the end and dropping the first keep
  one entry for each server (`OthersFacts`, `AppendFacts`, `TailFacts`).
  Batch monitor: `OrphansAreLateRemovals` (`OrphansWereInTheRound`), as what a round has
  still to store is there or was removed during it (`BInv`), and `PlacesComeBack`: the
  places of the semaphore are those free and those of checks that ask (`PInv`), which
  also bounds the checks at once and survives a stop in the middle of a batch. It is
  the safety part of `EveryServerChecked`.
  Store: `FileGainsNothing`. Whoever changes the store waits for the lock it holds, so
  that the file never holds a server it did not hold before the first start: what
  finding 3 means for any number of servers and requests, kills and restarts.

The monitors and the store are proved about in one module, the last two as
instances with variables of their own (`RegistryMonitors` holds that of the batch
monitor). The theorem on the store assumes that `NoOne` is not a request.

Only model-checked: liveness (`TurnEnds`, `StopEnds`, `EveryServerChecked`,
`RunEnds`), which needs fairness and `ENABLED` and so is out of the prover's reach,
and the five runs that find a violation. No recursion over data is proved
about: where the code loops over a sequence, the modules use sets and quantifiers
or functions on the places of the sequence. `McpRegistryProofs` reasons about
sequences of any length by their places, never by induction.

## 5. What is not modelled

The components of `PROJECT.json` with status `not_modelled` say why. They fall into
five kinds.

- *Conversions of text and bytes*: descriptor formats, generators, analysis and
  enrichment, the derivation of requests, prompt selection and absence language.
  Their results are inputs of the modules where the control depends on them.
- *Pure functions over data without a state*: discovery (scores in floating point),
  adjudication.
- *Data in the form of code*: `harness/corpus.py`, `harness/realistic_schemas.py`.
- *Code that cannot run*: `distributed_tcp_architecture.py` and
  `semantic_routing.py` await methods that are not defined; there is no behaviour
  behind those calls to be faithful to.
- *Around other systems*: the verifier of the registry service and the agent loop,
  which call other hosts and keep nothing between calls; the kernel module; front
  ends, demonstrations and scripts that run once. `tcp-server-full/` holds near
  copies of `tcp/`.

Inside modelled parts these are left out: regular expressions over prose,
telemetry fields of a row, the connection pool of httpx, the answers of checked
servers, the execution of an approved tool in the sandbox, the older refineries. A
mode file read between truncation and write reads as an invalid mode, which
`ToolGating` has.

## 6. Plan

Done, in this order: shield, tap, retry, gating, registry, the store of the
registry service; then turns through the proxy, the routers, sandbox approvals, the monitors, the
collectors and the refinery; then the proofs, of which the turns through the proxy,
the refinement of the registry and the monitors came last. Every invariant and action
property a passing run checks is now stated by a theorem. Left, most important first:

1. **ServerStore** with a lock that can be taken twice as a parameter: what a server
   record is worth once finding 3 is repaired.
2. **SelectorNormalForm**: that normalizing twice changes nothing, over bounded inputs.
