# Astrocyte in TLA+

Astrocyte runs on an RV's coach computer: a Home Assistant (HA) hardware layer, an
agent that may actuate through a policy gate, and a bridge that takes the coach's RV-C
CAN bus to MQTT and back. This directory models the parts of it that keep state and
meet concurrency, failure or restarts.

## 1. The system

| Part | State | Operations | Talks to | What is hard | Correct when |
|---|---|---|---|---|---|
| Policy gate (`core/policy.py`) | approvals table, audit file, limiter deques | `authorize`, `_authorize_guarded`, `set_status`, `allow` | tool calls, approval API, HA | two processes and worker threads over one table; read, then write; restarts | a guarded action happens only as often as it was approved, for the action it was asked for, and after its audit line |
| Approval API (`api/approvals.py`, `cli/main.py`) | none of its own | list, decide | the table | sync routes on worker threads; clients that give up and retry | one decision per approval; the answer tells what happened |
| HA MCP server (`ha/mcp.py`, `mcp/server.py`) | none | `call_service` and read tools | the gate, HA | the answer of HA may be lost | nothing passes around the gate |
| RV-C bridge (`rvc/bridge.py`, `rvc/discovery.py`) | levels of colour fixtures, discovered set, counters; retained topics at the broker | `run`, `handle_frame`, `handle_command`, `handle_ha_status`, `reset_discovery` | CAN bus, broker, HA | two tasks share a client; retained state outlives the process; last will | what HA shows as live was observed in this session and is true |
| RV-C codec (`rvc/decoder.py`, `encoder.py`, `spec.py`, `instances.py`) | none after loading | decode, encode | bridge | bit widths, sentinels, rounding | a commanded level is the one read back |
| Capture analysis (`rvc/analysis.py`) | assembly per source | `reassemble_tp`, correlate, slice | files | interleaved transfers | no message is put together from two |
| Model router (`core/llm/router.py`) | probe cache | `route`, `_healthy` | LLM servers | concurrent probes, stale health | the best provider is chosen whose health is recent |
| Agent, API app, HA client, web | wiring | | | | |
| Deploy scripts (`deploy/coach`) | HA's registries | `rename_entities.py`, metrics, preferences | HA, broker | a failure between two renames | every entity ends on its own id |

`PROJECT.json` lists every part with what is modelled of it, and every hazard at its line.

## 2. The plan

| Order | Module | Composes | State |
|---|---|---|---|
| 1 | `Approvals`, `OneUseApproval`, `ApprovalsSerial` | gate, store, API, call to HA | done, proved |
| 2 | `RateLimiter` | | done, proved |
| 3 | `Bridge` | bus, bridge process, broker | done, safety proved |
| 4 | `EntityRename`: the registry moves, with failures and second runs | script, registry | done, safety proved |
| 5 | `ModelRouter`: concurrent routes over one probe cache | router, LLM servers | done, proved |
| 6 | `Discovery`: configs, birth message, reset against a running bridge | bridge, broker, HA | done, safety proved |
| 7 | `Actuation`: rules, first match and tiers over the limiter | `RateLimiter` | done, proved |
| 8 | `Codec`, `Dimming`: bytes, levels, and every kind of command on the bus | HA, bridge, bus | done, proved |
| 9 | `Transfers`, `Capture`: BAM transfers of several sources, and the offline tools | `Dimming`, `Transfers` | done, proved |

Each safety and action property that a run checks is also a theorem (section 5). What would
come next: area repair of the renaming script; `summarize`; and, of the liveness properties, the
safety in them, such as that no frame is dropped on its way.

## 3. Modules and code

**`Approvals`** is `PolicyEngine._authorize_guarded`, the store behind it, the decide
endpoint and `call_service`. Each engine (a process: the API, or an `aios rv ask`) runs one
`authorize` at a time (`auth[e]`), because it is a plain function on the event loop; the
steps of it that touch the store or the audit file are actions: `RequestApproval`,
`Present*` (row and clock read), `Consume`, `WriteAudit`. A call that was allowed then waits
for HA in `inflight`, beside others. A decide request (`dec[d]`) runs on a worker thread:
`DecideRead`, `DecideWrite`, `DecideEnd`. `Raise`, `Lose` and `Restart` are the failures.
`asked` and `approvals` are history. `Present*` reads the row and the clock in one step,
since time that passes in between can only refuse. The wall clock does not go back. The
`data` of a service call is no part of the `Action` the code compares, and of none here.
`mirrored` is the notification of call_service, which no property reads. An `AuditLog` without
a path (`core/policy.py:310`) writes nothing; only tests make one, and it is left out.
SQLite statements are atomic; a statement that fails is `Raise`. `list_pending` only reads.

**`OneUseApproval`** is the promise of ADR-014 with nothing of how, and
**`ApprovalsSerial`** the deployment that keeps it: one engine, one decision at a time, rows
on disk. There, `Approvals` implements it.

**`RateLimiter`** is `RateLimiter.allow` for one key. `ReadClock` is the read of
`time.monotonic` before the lock, `Allow` and `Refuse` the locked part; `grants` is the
history of allowed calls and the deque is its tail after `popped`. The class calls itself
a fixed-window limiter; it slides.

**`Bridge`** is `RvcBridge.run` for the light fixtures. `listen` is its setting, which a new
session may find changed, `lamp` is the truth on the coach,
`reader` the frames received, `levels` is `_rgb_state`, `can` the publishes `_pump_can` has
still to await, and `status`, `seen`, `state` the retained topics, which are also what HA
shows. `Open`, `Connect`, `Mark`, `StartPumps` are the lines of `run`; `HandleFrame`,
`Ignore`, `Publish` are `_pump_can`; `Command` and `CommandFails` are `_pump_mqtt` with
`handle_command`, whose arrival and handling are one step. A process ends by `Crash` (the
broker will publish the will: `WillFires`), by `Exit` (an exception or interrupt, which
closes the client in order, so that the broker drops the will) or by `CommandFails`. A topic
without a message reads as "offline". Broker and bridge run on one node, so the broker
notices the end of a session before the next one connects (`Connect` waits for `~will`).
Configs, sensors and HA's birth message touch none of these topics. `fresh` (the parts this
session has published) and `ours` (the parts it has commanded since it last received a level of
them) are history, for the properties.

**`EntityRename`** is `rename_entities.py --apply` run again and again against Home
Assistant's registry. `registry` gives each entity its id and `want` the id that
`expected_entity_id` computes for it. `List` reads the registry; `Nothing`, `Refuse` and
`Plan` read the devices and areas (`aim`) and decide; the plan is the set `todo` of calls,
each with its pass and its place in the pass, and `Rename` or `Refused` is the first of them.
`Stop` is a lost connection or an interrupt between two calls. Meanwhile `Register` and
`Remap` happen. An id is its place in the order of `sorted`, so that names lie on both sides
of the temporaries. All ids are of one domain. Area repair, which only changes what is
wanted, and the composition of an id are left out.

**`ModelRouter`** is `ModelRouter.route` with `_healthy`. An ask of it (`ask[c]`) walks the
providers `left`: `UseCache` is the early return on a fresh entry, `StartProbe`, `Answer` and
`EndProbe` the request before, during and after its await, where other asks run. `cache` is
`_probe_cache`, by provider, since the code takes names to be unique. The world is `up`: a
probe sent now would be answered with 200 within its timeout; a provider out of time, with
another status or without connection is down. `last` is history, for the properties. An
answer is one moment of the probe. An exception that is no `HTTPError` (a malformed URL)
and a cancelled ask leave the cache alone and are left out.

**`Actuation`** is `PolicyEngine.authorize` for the actions of one key (domain and service),
which differ in their targets; it extends `RateLimiter`, whose deque the rules of a key
share. `Claims` is `PolicyRule.matches`, `FindRule` the first match or the default tier.
`Authorize` is the call up to the limiter, or to its end if there is none on the way, and
`Limited` the rest. A policy is a constant, its patterns sets of targets. A guarded call ends
in any way here: what it takes is `Approvals`. Audit lines that cannot be written are there too.

**`Discovery`** is the retained discovery configs of a coach: sessions of `run` (`Start`,
`Configure`, `StartPumps`, `End`), telemetry that is seen for the first time (`HandleFrame`,
`PublishNext`), the repeat after Home Assistant's birth (`HandleBirth`, `Republish`),
`astro-rvc-bridge --reset-discovery` as a process of its own (`ResetStart` to `ResetFails`),
and Home Assistant, which makes a device of each config it handles. Each publish is a step.
`map` is the version of the instance map a session has read; `Remap` is the operator's
correction of the file. A config is its name and its set of components, which is what the
code varies. `full` and `maps` in `reset`, `intact` and `states` are history. Entity ids,
which survive a config's removal or not, are `EntityRename`'s.

**`Codec`** is the arithmetic of `decoder.py` and `encoder.py`: fields of bytes and bits, and
levels. **`Dimming`** puts it to use: `Press` and `PressShort` are switches and panels that
the bridge hears and shows (`observed`), `Switch`, `Dim`, `Colour` and `Generic` the commands
of `handle_command`, `Overflow` the one that ends the session, and `log` a capture of it
all. A command is one MQTT message and one step. With the config the bridge publishes for a
plain light (`rvc/discovery.py:265-279`, no `on_command_type`) Home Assistant turns it on at a
brightness by two messages, the brightness and then "ON": `Dim` and `Switch`, with any step
between them. `RestoreColour` is the one message for a colour fixture whose brightness and colour
are those Home Assistant shows, as a script sends that restores what it saved: the channels that
were not observed go out as the 0 they are shown at, and of a fixture that is shown off only
`{"state": "OFF"}`. (A scene skips what it takes to be so already.) Lights are commanded up to 255,
which is Home Assistant's range.

**`Transfers`** is `reassemble_tp`, with the sources whose packets it reads: `Announce` and
`Packet` are in the capture, `LoseAnnouncement` and `LosePacket` are not, and `Addressed` is
a packet of an RTS/CTS session, which the code takes for one of a broadcast. `pending` is the
code's; its list `out` is split into `out` and `mixed`, by the history variable `doubt`.
**`Capture`** composes the two and adds `correlate`, `clusters`, `slice_frames` and
`verify_encoder` as operators over `log`. Each loop is a fold, and its body an operator of its
own (`Correlated`, `Changed`, `Clustered`, `Sliced`); beside each is what it looks for, in terms of
places in the capture alone (`FirstOn`, `ChangesOf`, `FirstOf`). `correlate` sorts what it found by
time, which a capture is in the order of (`InOrder`).

Operators under a comment "Mistake" belong to no behaviour: each is a wrong version of the
operator below it, with which some property fails.

## 4. Runs

| Run | Instance | Shows |
|---|---|---|
| `approvals_shared` | 2 engines, 2 decisions, 1 id, 2 actions | uses are paid, bound, audited; a dead token stays dead |
| `approvals_serial` | 1 engine, 1 decision, 2 ids | single use; the answer to the human is true; `OneUseApproval` is implemented |
| `single_use_two_engines` | 2 engines, 1 decision, 1 id | ADR-014's "tokens are single-use" is not kept across processes |
| `actuation` | 2 threads, 2 targets, 3 policies, limits 1 and 2, window 2, clock to 3 | calls are decided by the first rule that covers them, no rate is exceeded, no call is refused without cause |
| `bridge` | a light and a colour fixture, 2 ends, both modes, 1 frame waiting | what is shown as live was observed in this session, and is true but for what the session has commanded itself |
| `bridge_live` | a colour fixture, 2 ends, 2 frames waiting | every frame received is shown |
| `bridge_exit` | a light | ADR-012's "availability via MQTT LWT" fails when the process leaves by an exception |
| `entity_rename` | 3 entities and a foreign one, 3 names, 1 stop, 1 correction | calls move what they were planned for, reports are true, permutations do not collide, repeated runs recover |
| `rename_after_crash` | 3 entities, 3 names, 1 stop | a run after a broken-off one parks an entity on a temporary id in use, into which the script's comment says it is not to walk |
| `model_router` | 2 providers, 2 capabilities, 2 asks, TTL 1, clock to 2 | an ask is routed to a provider that was recently up, and passes over none that was up all along, however probes overlap |
| `discovery` | a fixture, a zone, another device, 2 maps, 1 end, 1 reset, 1 birth | configs stand for the states under them, a reset is exact, devices appear; the invariant behind the first two |
| `capture` | a light and a colour fixture, 3 frames and those of the last command, clock to 2; 2 sources, 2 transfers of 1 or 2 packets | levels that are shown return, generic requests are said exactly, tools agree with their documents, messages are transfers |

Why the bounds are enough. The hazards of the gate need two parties on one row: two engines,
or two decisions, or one of each; three calls per engine ask, use and re-use a token; one
tick is before and after an expiry. Two threads, a window of two ticks and three ticks of
time let a stamp be stale by a whole window, and the deque hold stamps out of order. One
colour channel stands for three: they are handled alike, by index. Two levels are on and
off. One frame in the reader beside the one that is published lets a frame arrive, of the same
part or of another, while the last is on its way; two ends
give three sessions: one that leaves retained topics, one that starts over them, and one
after a failed start. Three entities and three names make every permutation of up to three
ids, chains, conflicts with a foreign entity and duplicates; a cycle of three, broken off, is
the least that leaves an entity parked and others still rotating. Two asks overlap
their probes of one provider and write the cache in either order; two providers let an ask
pass one over and take the next; two ticks let an entry expire, and a probe end after the
entry it is to write would have. Two targets are those a rule covers and those it does not; the
policies have a denial before two limits on one deque, patterns that cover everything without
being `*`, and a default. Two sessions, one reset and one birth overlap at each publish, and
the map is corrected before, between or beside them; a second fixture would be handled alike.
Three frames are the least in which a level changes twice and a cluster spans its window; a
command of all four parts of the colour fixture may still follow two of them, so that what is
restored has been told in part, or forgotten by a session that ended. Raw levels 0 and 25 are off and one that rounding moves; each of
250, 254 and 255, which are full scale, the most a level can be, and "not available", is told of
one instance. The light and the switch of the colour fixture have a panel. Two transfers of up to two packets are cut off, mixed and
interleaved with those of another source.

Other places where the code does less than its documents say, seen while modelling and not
given runs of their own:

- Two overlapping decide requests both pass the PENDING check (`api/approvals.py:100`) and
  both answer 200, the later one replacing the earlier; a test expects 409
  (`tests/test_approvals_api.py:65-70`). A late one can also write APPROVED over a consumed
  row, and the token works again. `ApprovalsSerial` therefore assumes one at a time.
- `run` publishes "online" before it marks the fixtures unobserved (`rvc/bridge.py:507`), so
  levels of the last session look live until their marks arrive. `AvailableIsFresh`
  therefore speaks of the running phase.
- The bridge does not receive its own frames (`rvc/bridge.py:500`) and publishes no state for
  them, although ADR-012:291 counts "our own TX" as an observation. `SettledIsTrue`
  therefore leaves out the parts a session has commanded and not heard of since (`ours`).
- A colour fixture whose channel is observed first is shown off although its switch is
  unknown (`rvc/bridge.py:240`). `SettledIsTrue` speaks of the parts that were observed.
- A node that is off costs one timeout per overlapping ask and per process, and not "one
  timeout, not one per call" (`core/llm/router.py:7`): an ask that finds a probe under way
  starts its own, and every `aios rv ask` starts with an empty cache. `ModelRouter` lets asks
  overlap, which the router allows and its callers today do not do; likewise `RateLimiter` lets
  threads overlap, which its lock is for, while `authorize` is called on one event loop.
- `INVERTER_COMMAND` has two fields on the same bits of byte 7 (`rvc/spec/rvc-spec.yml:1467`,
  `:1481`): what a generic command says of one it says of the other, and the later wins.
  `GenericIsSaid` speaks of the other DGNs. Of two fields with one name (`1FFD1`, `1FFCF`) the
  encoder knows the later.
- `ADR-013` counts on a "per-request fallback on connection error" for a node that goes off
  within the TTL; `CoachAgent.ask` uses the one provider it was routed to.
- A reset beside a running session clears sensors that the session will not publish again
  before Home Assistant's next birth or its own restart (`rvc/bridge.py:258`, `:484`); the
  second half of `DevicesAppear` says what brings them back. If Home Assistant is down
  meanwhile, it keeps the devices that were cleared.
- The prefix that tells this coach's configs from others (`rvc/bridge.py:470`) is also that
  of a coach whose id goes on with `_`; "other coaches are left alone" needs ids of which none
  extends another so. A fixture taken off the map keeps its retained seen topic.
- The first frame of a pair fixes its components for the session (`rvc/bridge.py:258`): what
  a short first frame leaves out has no entity until the next session.
- ADR-012 takes raw 250 for full scale "in both directions" (`:156-158`). Plain lights are shown on
  that scale too, but switched on by 200 and dimmed by a percentage (`rvc/bridge.py:378`). A
  plain light that is turned on at the brightness it is shown at ends at 200, whatever that
  brightness was, because the "ON" that Home Assistant sends last is 100 percent
  (`rvc/bridge.py:377`). `LevelsReturn` therefore speaks of colour fixtures.
- `handle_command` catches neither the OverflowError of a field too large for its bytes nor
  a TypeError of a payload that is no object (`rvc/bridge.py:307`): the session ends. The
  model has the first (`Overflow`).
- `verify_encoder` takes fields by name (`rvc/analysis.py:319`) and raises KeyError for a frame that
  ends before them; `ToolsAgree` speaks of frames with a level.
- `reassemble_tp` says that addressed sessions are ignored (`rvc/analysis.py:218`); their
  announcements are, but their packets are taken into whatever the source has open. A packet
  after a lost announcement, likewise. `MessagesAreTransfers` leaves those messages to `mixed`.
- A call on targets of two rules is decided by neither (`core/policy.py:106`), and a call
  without targets by no rule that is restricted. `ActsByRule` is what holds of them, and
  `TogetherAsAlone` that nothing else gets another tier than its targets would alone.

Fairness is assumed in three runs. In `bridge_live`: weakly for `Session` (the container's restart
policy brings the process up again, and `run` goes on by itself), for `Pumps` (the event
loop runs a task that can run) and for `WillFires` (the broker). In `entity_rename`: weakly for
`Script`, because the operator runs it again, as its last line and its docstring ask, until
nothing is left to rename. In `discovery`: weakly for `Session` and `PublishNext` and
`PumpMqtt` (restart policy and event loop, as before; the MQTT task takes its queue in order)
and for `Deliver` (Home Assistant handles what the broker sends). Switches, frames, commands,
registrations, resets and failures are never owed.

## 5. Proofs

Every theorem holds for all values of the constants that satisfy the named assumptions of the
modules; TLC evaluates those in the runs. Each inductive invariant is itself an invariant of a
run. What a fold or a recursive function computes is proved by induction over a set of numbers
(`UpTo`, from the least number that is not in it), since the library's induction theorems cannot
be used with these provers.

`Approvals_proofs` proves `TypeOK` and `GateInv`, and from it `UsesArePaid`, `UsesAreBound`
and `AuditedBeforeActing`, for any engines, ids, actions, decisions and bounds. What was
performed says nothing of what is on its way, so
`GateInv` counts, per engine, action and id, the uses performed, in flight, and past the
store but before the audit line (`Committed`), plus one if the engine may still commit
without a further verdict (`MayCommit`): the sum never exceeds the timely approvals.
`DeadStaysDead` (`DeadForGood`) is an action property: of each step it is shown that a row that
refuses its token goes on to refuse it (`DeadRow`: ids are not issued twice, and the only writes
of a status are by those who have read it), and that without a row that reads APPROVED, nothing
is added to what an engine is committed to (`Shrinks`).

`ApprovalsSerial_proofs` proves `SerialInv` and from it `SingleUse` and `ImplementsOneUse`:
with one engine and one decision, every status an operation has read is still the row's when
it writes (`FreshReads`), so each step maps to a step of `OneUseApproval` or to a stutter. From the
same, the human is answered with the verdict that was given (`Answered`).

`Actuation_proofs` begins with `RateLimiter`: `RateInv`, `NeverOverRate` and
`RefusedOnlyAtLimit` for any threads, limits and window. The argument: stamps are past, grants are
in lock order, and what has left the deque is a window old; so when the deque holds fewer than
the limit, the grant `limit` before this one has left it. It then carries this over to the engine
(`AsksInv`, `RateHolds`, `RefusalsHold`): each of its steps is a step of the limiter or leaves it
alone. It proves `ActsByRule` for any policies and targets, from `AsksInv`: a thread that comes
back from the lock is still decided by the rule whose limit it was held to, since policies do not
change.

`Bridge_proofs` proves `AvailableIsFresh` and `SettledIsTrue` for any fixtures, colours, levels,
modes and bounds. Freshness rests on `FreshInv`: what HA holds as "online" for a
fixture this session has marked was put there by `_pump_can` of this session, or the process
is not running. Truth rests on `TruthInv`, which follows a level from the lamp to the broker:
the last frame of a part that waits in the reader carries the lamp's level (`ReaderIsTrue`);
when none waits, what the bridge takes the part to be is that level (`LevelsAreTrue`); and
what is retained is what the bridge takes it to be, unless a publish is on its way
(`PublishedIsLevels`). The first two leave out the parts in `ours`, and a command moves the lamps of
no others (`CommandIsTrue`).

`EntityRename_proofs` proves `RunInv`, and from it `ReportIsTrue`, `EachToItsOwn` and
`NoCollision`, for any entities, names and bounds. `RunInv` says where each listed entity is
as a function of the calls that are left (`Place`), so the id in the next call is held by the
entity it was planned for, whoever registered. For `NoCollision`: a direct move leads to an
id that nobody had and no other move leads to; a park to a place of its own
(`IndexUnique`, by counting); a release to an id whose holder is parked by then.

`ModelRouter_proofs` proves `RouteInv`, and from it `PassedOverWasDown` and `RoutedWasUp`, for
any providers, capabilities, asks and TTL. An entry and an answer each tell what a provider
was at some moment since their probe began (`CacheIsHonest`, `AnswersAreHonest`). That holds
in whatever order probes end, because an entry is stamped with the beginning of its probe;
stamped with the end, it fails.

`Discovery_proofs` proves `DiscoveryInv`, and from it `ConfigsStand` and `ResetIsExact`, for any
fixtures, pairs, foreign configs, versions of the map and bounds. `SessionHolds` says what a
session without a reset beside it has at the broker: the config of each mapped fixture it has
come to, and of each pair it has discovered, unless that config is still the next to be
published. `ResetHolds` follows the reset: what it has still to clear is on its list, or was
published since by a session, whose map is one the reset has overlapped; and it never touches
another coach's configs.

`Capture_proofs` is about bytes, captures and what comes of them, for any layouts, fixtures,
requests, windows, sources and bounds:

- `ColourLevelsReturn`, `PlainLevelsHold`, `SetpointsReturn`: what rounding does to every raw value,
  from the fact that a rounded quotient is within half a step (`Half50` and its like).
- `EncodedIsSaid`: a frame the encoder puts together reads back as what was put into it, and as
  all ones elsewhere. Putting a field changes its own bits alone (`PutOther`) and reads back
  (`PutCorrect`, by the digits of a number in base 256 and by shifts), so that the order in which
  the fields are put does not matter; the induction is over how many.
- `CaptureCorrect`: the invariant of the run. Levels stay levels because every frame that was
  recorded is a whole or short one whose level is raw; the capture is in the order of time.
- `TransfersCorrect` and `MessagesCorrect`: out of doubt, an assembly has chunks of one
  transfer alone (`OneTransfer`). If the capture has all of the transfer so far, the assembly has
  all of its numbers, and the last packet completes it; if not, a number below the next is
  missing, will not come again, and, by counting, the assembly is never complete (`AllOrNever`).
- `ShownComesBack` (`LevelsReturn`): every frame of the message gives a part the level it is shown at,
  and each part that is to be told has one, so that it does not matter which comes last
  (`BroughtBack`), nor whether a fixture's channels differ. By `ColourLevelsReturn` that level is
  the raw one that was observed, up to full scale.
- `GenericSays` (`GenericIsSaid`), from `EncodedIsSaid`.
- `CommandsVerify` and `ToolsCorrect` (`ToolsAgree`): a fold passes through one state for each frame
  (`FoldExists`); by induction over the frames read, that state says what is asked of them:
  the level told last of each instance (`Latest`), and what was found so far (`Correlating`,
  `Slicing`, `Changing`, `Clustering`). For `clusters`, the last window is open at most until
  the last change and begins after all others have ended, so that the next change, being no
  earlier, falls into it or begins one of its own.

These rest on `LayoutsAssumption`. It holds of the tables but for two DGNs, which `Layouts`
therefore leaves out: the text of `TERMINAL` is wider than four bytes, and two fields of
`INVERTER_COMMAND` have the same bits (section 4). `RequestsAssumption` leaves out what the
bridge refuses before it looks at fields (a DGN it does not know, a value that is no integer).

Only model-checked: `FramesAreShown`, `Recovers` and `DevicesAppear`. They are liveness under
fairness, which is out of this prover's reach. The refutations of `single_use_two_engines`,
`bridge_exit` and `rename_after_crash` are counterexamples, and need no proof.

## 6. Not modelled

Parsing of configuration, specification tables and instance maps; units other than levels
and temperatures; telemetry payloads; `summarize` and the files of the analysis tool; HTTP
clients, formatting and read-only tools; the model behind the agent; deployment files.
`PROJECT.json` gives the reason for each part.
