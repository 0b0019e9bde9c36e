# keenetic-xray-go: TLA+ models, checks and proofs

`keenetic-xray` is a daemon for Keenetic routers. It supervises an xray-core
process that carries selected traffic through a VPN server, switches to a backup
server when the main one stops answering, keeps the router's interfaces and
routes in the shape it needs, and takes commands from a Telegram bot that runs
on the operator's own VPS (`keenetic-xray-control-server`).

This directory models the parts of it whose behaviour comes from the order in
which things happen, checks them with TLC on small instances, and proves the
most important safety properties for every value of their constants with TLAPS.

    tlc -workers 2 -config Failover_check.cfg MCFailover   # one run
    tlapm FailoverProofs.tla                                # one set of proofs

`PROJECT.json` lists every run, which definition models which lines of the
source, the mutation each property is tested against, the findings and the
hazards.

## 1. The system

### Processes

| Process | Goroutines that matter |
| --- | --- |
| router daemon, `keenetic-xray daemon` (`cmd/keenetic-xray/main.go`) | `failover.Daemon.Run`; one `xrayctl.Supervisor` goroutine per child (production xray, pretest xray, a naive sidecar for each); `tungate.Gate.Run`; the reconcile loop; the bot agent's poll loop and heartbeat; the event stream; the adaptive router; preset, known-range and self-update timers |
| xray-core and naive children | restarted by their Supervisor with a growing backoff |
| control server on the VPS | one HTTP handler goroutine per request, the Telegram long poll, the offline, stuck-on-backup and update watchers |
| CLI commands | one-shot; they save `config.json` and signal the daemon with SIGHUP |
| watchdog (cron) | restarts a daemon that is not there, verifies an update |

### Components, state, operations and what makes each correct

| Component | State | Operations | What must hold |
| --- | --- | --- | --- |
| `internal/failover` state machine (`state.go`) | state, four probe counters, cooldown, backoff deadline | one tick per state, `forcePrimary`, `forceBackup` | its state tells the truth about production; no switch on too little evidence; an operator's choice stands for the backoff; it returns to primary and finds a working backup |
| `internal/failover` daemon (`daemon.go`) | live role, override and tried set, pretest, sidecars, config, phase of `Run`, command channel, events | `SwitchLiveTo`, pretest start/stop, rotation, `ForceSwitch`, `ReloadConfig`, `RebindInbound`, `startProduction`, shutdown | nothing left running, nothing stale after a reload, no lost or undone command |
| TUN breaker (`internal/failover/tun.go`) | four atomics shared by the Run and Supervisor goroutines | note a write, note a crash, drop the inbound, refresh it | an inbound that crashes xray is taken out and stays out; no deadlock between crash callback and restart |
| `internal/xrayctl` Supervisor | command, cancel function, done channel, backoff | `Start`, `Stop`, `Restart`, supervise loop | at most one child; `Stop` returns and leaves none; a crash restarts it |
| `internal/tungate` | failure count, closed flag | one probe step, close, open | the flag agrees with the interface; a healthy tunnel is reopened; exit opens |
| reconcile (`cmd/keenetic-xray/reconcile.go`) | router interfaces, rules, WG keys | repair what is missing | everything `config.json` asks for is in place in the end; repairs never undo what another part did on purpose; a new WG key reaches xray |
| `internal/botcontrol` queue (`queue.go`, `server.go`) | per-router pending commands and results on disk | enqueue, poll, result, restart | a command is delivered at most once, in order; results are not lost while the queue says so |
| `internal/botcontrol` agent (`agent.go`) | the result not yet posted, handler | poll, execute, post | no command executed twice; a stuck post does not stop the agent |
| watchers (`events.go`, `watch.go`, `updatewatch.go`) | last-seen times, flags of what was announced | heartbeat, tick | one notice per episode, none missed |
| `internal/classifier` | TTL sets per protocol: Test, OK, Watch, Cooldown, Blocks | tick over conntrack, judge, promote, expire | a blocked address is eventually routed, one that works directly is eventually released |
| `internal/adaptiveroute` and `cmd/keenetic-xray/adaptiveroute.go` | ipset entries, exclusions, statistics | apply, rollback, restore | the kernel's sets follow the classifier's |
| SNI watcher (`cmd/keenetic-xray/l7sni_linux.go`) | a copy of the exclusions up to 2 s old | a packet in, an address into the same sets | what it adds has its reason; an exclusion holds against it too |
| `internal/config`, `subscription` | `config.json`, profile pool, the two slots and their sources | load, save, match, pick, merge, refresh | a refresh keeps the operator's choices; each writer's copy is the file |
| `internal/presets`, route lists | overlay files, manifest, index; route lists and the router's groups and routes | refresh, apply, sync, drift; push command by command | the manifest is honest, drift is told, the router catches up with the lists, open connections follow where the `conntrack` tool is there |
| Telegram bot (`telegram*.go`) | cached lists, dialogs, the long poll's offset | taps, texts, answers of routers | a button acts on the row that was seen, on its router; every tap is handled |
| `internal/selfupdate`, `install`, watchdog | update marker, lock, saved package, cron entry | start update, verify, roll back | a bad update is rolled back; what is in the air when a rollback sets out is left alone; a daemon that is down has a watchdog |
| `internal/xraycore`, `naivecore` | the cores' files, the pinned tag | install, ensure, fall back to opkg | a core that runs is never replaced by one that does not |
| Proxy0 health check (`proxy0_health.go`) | the router's ping-check profile, running and in flash | build, bind, remove, retry, purge | in place while the interface is in use, gone when disabled, never half there at a purge |
| `internal/keenetic` | the router's own configuration, over RCI | interface, rule and key changes | pure translation to requests |
| `internal/l7sni`, `l7capture` | reassembly buffers | packet in, name out | parsing; the watcher that uses it is above |
| everything else (add-ons, logs, dependency scan, disk space, DNS checks, geo and known ranges, health sweep, version, generators, packaging) | files and caches | | I/O and formatting |

### How they interact

* Everything that touches the state machine runs on `Run`'s goroutine: ticks come
  from a ticker, commands as closures over an unbuffered channel (`Daemon.do`), so
  a command never interleaves with a tick, only comes between two.
* The Supervisor calls `OnRestart` from its own goroutine. `Stop` waits for that
  goroutine, so the callback must never stop the Supervisor.
* The reconcile loop, the TUN gate and the bot handlers run beside `Run` and meet
  it through atomics, `do` and the router's configuration.
* Router agent and control server share only HTTP: a poll, a result, a heartbeat,
  each of which can be lost after it took effect.
* `config.json` is read and written whole by the CLI, the bot handlers and two of the
  daemon's loops (ready-made lists, reconcile); SIGHUP makes the daemon read it again,
  and the bot handler adopts the new copy before its next command. A save of the
  daemon's own loops reaches no other copy.
* The classify loop and the SNI watcher add to the same ipsets, each by its own copy of
  the exclusions.
* The router is changed command by command over `ndmc`, by the daemon's loops, by
  the bot's commands and by CLI processes at once; the firmware drops, at its own
  times, what it did not save.
* An update is a chain of processes (daemon, detached child, opkg with the package's
  scripts, the new daemon, cron's script and its hook) that share a marker, a lock and
  a saved package.

### What is hard here

* One command or tick of the daemon is atomic, but each ends in several router
  or process operations that can fail half way, and its counters and pool
  bookkeeping have to survive every order of commands, ticks and reloads.
* The daemon serves commands before its main loop has begun (while it is idle or
  retries its first start), with the same handlers.
* Several goroutines and other processes move the same OpkgTun interface; each
  acts on something it read a moment, or half a minute, ago.
* A request between router and server can take effect and not be answered, be
  answered too late, and be repeated; both ends restart, and only one of them
  keeps anything on disk.
* Copies of `config.json` are saved whole over each other.
* Callbacks run on goroutines that the called object waits for.

## 2. The plan

Each module is written to be proved about as well as checked: parameters are
CONSTANTS with named assumptions, there is one action per handler or step, and
no module uses RECURSIVE operators.

| # | Modules | Abstract specification | State |
| --- | --- | --- | --- |
| 1 | `Failover`: state machine, its actions on the processes, `Daemon.Run` | | checked; safety proved (`FailoverProofs`) |
| 2 | `TunGate`: the gate composed with reconcile, the CLI, the daemon's life and the router's interface | | checked; safety proved (`FailoverProofs`) |
| 3 | `BotControl`: server store, HTTP, agent | `CommandDelivery`: in order, at most once | checked; safety and the refinement proved (`BotControlProofs`) |
| 4 | `Supervisor`, `TunBreaker` composed on it | | checked; safety proved (`TunBreakerProofs`) |
| 5 | `Classifier`, `AdaptiveRoute` composed on it | | checked; safety proved (`AdaptiveRouteProofs`) |
| 6 | `RouterUpkeep`: reconcile passes, the adaptive route's health check, the WireGuard re-key, the copies of `config.json` | | checked; safety proved (`RouterUpkeepProofs`) |
| 7 | `Slots`: the pool, the two slots and their sources, subscriptions, the bot's copy and the CLI's | | checked; safety proved (`SlotsProofs`) |
| 8 | `Menus`: the Telegram bot's screens and dialogs | | checked; safety proved (`BotControlProofs`) |
| 9 | `Cores`, `Software` composed on it: installs, self-update, watchdog, rollback | | checked; safety proved (`SoftwareProofs`), but for `BadBuildIsUndone` |
| 10 | `Presets`, `Routes` composed on it: ready-made lists and what reaches the router | | checked; safety proved (`SlotsProofs`) |
| 11 | `Proxy0Health`: the ping-check command by command | | checked; safety proved (`Proxy0HealthProofs`) |
| 12 | `DaemonDo` (a command whose caller gives up after Run has taken it), `EventStream` and `OfflineWatch` (merged sources, dropped events, one notice per episode) | one notice per episode | left |
| 13 | record reassembly of `l7sni`, the bounded sweep of probes | a reference definition | left |

Every safety property a passing run checks is proved as well. Theorems still worth
proving: those of rows 12 and 13, once written.

## 3. The modules

Every definition is mapped to its source lines in `PROJECT.json`. Definitions
whose comment begins with "Mutant" are the mutations used to show that a
property notices a plausible bug; no action refers to them.

### Failover

Models `internal/failover/state.go` and `daemon.go`. Everything that touches the
machine happens on the goroutine of `Daemon.Run`, so an action is a whole tick
(`Machine.Tick` with every call it makes on `realActions`), a whole command
(`ForceSwitch`, `ReloadConfig`, the inbound re-applications) or a whole attempt of
`startProduction`.

| In the model | In the code |
| --- | --- |
| `state`, the counters, `cooldownRemaining`, `cooldownNext` | fields of `Machine` |
| `backoff` | time left until `backoffUntil`; `Elapse` is the clock |
| `liveRole`, `backupOverride`, `backupTried` | fields of `realActions` |
| `running`, `prodNaive`, `pretest`, `pretestNaive` | what the four supervised processes run |
| `phase` | where `Run` is: idle (no primary configured), `startProduction`, the branch without a backup, the full loop, returned |
| `SwitchLiveTo(..., outcome)` | all of `realActions.SwitchLiveTo`; `outcome` says how it ended, and what was done before the error stays done |
| `FailOver`, `Rotate`, `FailBack`, `RollBack`, ... | the branches of the four tick functions, early returns included |
| `Reapply` | `RebindInbound`, `RefreshTunInbound`, `dropTunInbound` as far as Run's goroutine sees them: the live role written out once more |
| `calm`, `up` | environment: until `Settle`, a probe may answer anything and a start may fail; afterwards probes tell the truth about a fixed set of working servers |
| `liveStreak`, `isoStreak`, `held` | history only |

A naive profile leaves through whichever server its sidecar on the fixed port is
connected to, so `ExitOf` tells "xray runs this profile" from "traffic leaves by
this server". Left out: the content of generated configs, event texts, the
deadline of a command's caller (`do`), the TUN breaker (it has a module of its own),
`SwitchLiveTo`'s inbound options.

### TunGate

Models `internal/tungate/tungate.go` with what else moves the interface:
`ensureTunTransport` of the reconcile loop (two goroutines can be in it, the
loop's and the SIGUSR1 handler's), `transport tun on`, `off` and `mtu` of the CLI,
the daemon's start, stop and crash, and the router, whose interface can vanish or
lose its settings. A router command is one action with three outcomes: done,
refused, or done with an error reported.

| In the model | In the code |
| --- | --- |
| `closed`, `fails` | fields of `Gate`; `fails` is compared with `FailsToClose` only and stops counting there |
| `gate` | where `Gate.Run`'s goroutine is: between steps, before or after a router command, in its last act |
| `seen`, `due` | `tunGateConfig`: its cached copy of the configuration, up to 30 s old |
| `rec[r]` | a goroutine in `reconcileOnce`: configuration read, kind of check chosen (`Closed()`), looked at, about to repair |
| `file`, `cli` | the transport in `config.json`, and what a CLI command has still to do |
| `there`, `admin` | the router's interface: absent, drifted or sound; up or down |
| `trouble` | history: an error was reported for a command that was done, or the gate was cut off |

Left out: MTU and addresses (they are `drifted`), the notifications, `ErrSkip`
steps (nothing changes), a configuration file that cannot be read (the copy stays
as it is). External: a command on an interface that is not there fails; a new
interface is up.

### CommandDelivery and BotControl

`CommandDelivery` is what the operator is promised: commands leave a line in
order, the next is not fetched before the last one's result is handed over, each
is run at most once, and some may be lost. `BotControl` is how `queue.go`,
`registry.go`, `server.go` and `agent.go` do it.

| In the model | In the code |
| --- | --- |
| `mem`, `disk` | the `Store`: one router's `Pending`, its results (`Window` = `maxRecentResults`), its registered token and the seeded flag; in memory and in the store file |
| `asked[c]` | the bot handler that asked for command `c`: registry checked, enqueued, refused, waiting for the result |
| `req[k]` | an HTTP request: sent, authenticated, answered or refused |
| `agent`, `conn`, `job` | `Agent.Run`/`pollOnce`: what it is at, the request it waits for, `unposted` |
| `issued` | tokens made by `AddRouter` so far |
| `faults` | crashes, failed saves and given-up requests so far |
| `TooLong` | commands whose result is longer than `maxResultBytes`: `RefuseResult` is the 400 |

`Save` keeps the change in memory when the file cannot be written; `SaveOrUndo`
takes it back, as `Dequeue`, `AddRouter` and `RemoveRouter` do. Any handler can
come between a request's authentication and its handling. A request the agent has
given up on stays on its way and can still be handled. Left out: what a command
does, other routers (their saves are `SetStatus`), the Telegram API, and
the answer that reaches the agent after the server has crashed, which counts
as received before.

### Supervisor and TunBreaker

`Supervisor` is `internal/xrayctl/supervisor.go`: one child, the loop that keeps it
running, `Start` and the two halves of `Stop`. It leaves open who calls them and what
`OnRestart` does. `TunBreaker` extends it with the production instance: the breaker of
`internal/failover/tun.go`, whose four atomics are written by Run's goroutine, step by
step in `SwitchLiveTo`, and by the supervisor's callback on the loop's goroutine.

| In the model | In the code |
| --- | --- |
| `cancel`, `cmd` | the Supervisor's fields, by the loop they belong to |
| `at[l]`, `cancelled[l]` | a `superviseLoop`: where it is, whether its context is done; `gone` when its channel is closed |
| `child[l]` | its process: just launched, or the configuration it has read |
| `run`, `opts`, `waits` | Run's goroutine between the accesses of `SwitchLiveTo`; the options it has read; the loop its `Stop` waits for |
| `tunLive`, `tunCrashes`, `written`, `tripped` | the four atomics; times are within or outside the window and the retry time |
| `drops` | `dropTunInbound` goroutines waiting in `do` |
| `file` | the production configuration: with the inbound, without it, or torn by a failed write |
| `sick` | xray cannot start with the inbound |
| `liveCrashes`, `holding`, `trouble` | history only |

Two names of loops suffice, because a loop that is gone gives its name back; a second
one at a time would mean that `Stop` had not waited. The model begins when
`startProduction` has written the first configuration; its retries, and what a stop
does before they succeed, are in `Failover`. Left out: the backoff's length,
`noteXrayCrash`'s crash-loop notice (it touches nothing else), the MTU.
Timing enters as order: a pause of at least 1 s is longer than the four stores in a
row; three starts of an xray that exits at once fit in the 90 s window; the window is
longer than what is left of a switch that has opened it; 30 minutes are longer than
a switch and than the 30 s a drop waits.

### Classifier and AdaptiveRoute

`Classifier` is `internal/classifier`: pure operators from a state and one scan of the
router's connections to the next state, as the package's functions are. An entry is
the time it has left, one unit of which passes between two passes of the loop; what a
scan shows of a destination is summed up as evidence, since counters matter only
through the thresholds they cross. `AdaptiveRoute` carries its decisions out on the
router's ipset, one command at a time.

| In the model | In the code |
| --- | --- |
| `st` (`test`, `ok`, `watch`, `cooldown`, `since`, `blocks`) | `classifier.State`: the TTL sets by protocol, `OKSince` |
| `Detect`, `Judge`, `Widen`, `Purge`, `Elapse` | `ClrFast` and `ClrSoft`, `ClrJudge`, `ClrBlockPromote`, `ClrPurgeExcluded`, `Expire` |
| `ipset` | the kernel's set, keyed by address, with timeouts of its own |
| `todo`, `loop` | the actions of a pass not applied yet; where `adaptiveRouteClassifyLoop` is |
| `list`, `seen` | the exclusions' file and what `ExclusionsWatcher` read last |
| `noted` | the entries the listing keeps a note about |
| `snap` | the SNI watcher's copy of the exclusions, reread at any moment after a change |
| `HandlePacket` | `l7SNIHandlePacket`: an address that serves a name of the lists (`Listed`) is put into the set for `OKTTL`, or for `SharedTTL` where other names share it |
| `saved`, `marker` | the saved state (which expires as well) and the reset marker of `flush` |
| `cli` | what an exclude or flush command has still to do |
| `sighted`, `late` | history: entries the watcher was the last to write, and those of them it added after the loop had read that they are excluded |
| `loose`, `flushed`, `missed` | history only |

The watcher's copy is arbitrarily old, which covers the two seconds of the code; a first
read that fails is the empty copy. Left out: hourly counts, the snapshot for the CLI's listing, the TTLs' settings
changing while the daemon runs, `ExclusionsWatcher`'s comparison by time and size (a
change is always seen).

### RouterUpkeep

| In the model | In the code |
| --- | --- |
| `disk`, `daemon`, `bot`, `reload` | `config.json`; the copies of `Run`, of `RouterHandler` and the one it will adopt |
| `pass[p]` | a goroutine in `reconcileOnce`: its copy of the file, where it is, and whether it read the fail-open flag in time |
| `live`, `ifkey`, `keys` | the objects in place on the router; the key of the WireGuard interface and those the firmware has handed out |
| `health`, `flag`, `egress` | `adaptiveRouteHealthCheck`'s count and `failedOpen`; the flag the passes read; whether the outbound answers |
| `op[o]` | a command of the bot or the CLI and the copy it works on |
| `process`, `hup` | the daemon's life; a SIGHUP on its way |
| `raced`, `stale` | history: why a REDIRECT may be in place while failed open, or xray may have an old key: since the start it was given a copy with an old one, or a step failed |

The pieces a pass merely re-asserts (Proxy0, the DNS interception, the MSS rule, ...)
are members of `Object` with one step for all. `stale` covers a pass as well as a
reload: of two passes that re-key one after the other, the first may push its older copy
last.

### Slots

| In the model | In the code |
| --- | --- |
| `disk`: `pool`, `at[s]`, `src[s]`, `shared` | `config.json`: `Profiles`, the slots' indices, `PrimarySource` and `BackupSource`, the shared subscription |
| `disk.http`, `disk.adaptive` | the ports `Validate` compares |
| `want[s]` | history: the server the slot was last put on |
| `bot`, `busy`, `reload`, `hup` | `RouterHandler.Config`, a command under way, `ConfigReload`, a SIGHUP |
| `cli` | the CLI process, its copy and whether its editor has saved |
| `daemon[w]`, `disk.noted` | the copies of the daemon's own writers, `runPresetRefresh` and `reconcileOnce`, and what each notes in the file: the revisions told of, a new WireGuard key |
| `ResolveSharedSlot`, `ApplyResult`, `SetSource`, ... | the functions of the same names, indices into the pool included |
| `astray` | history: why the bot's memory may differ from the file |

A profile is what `ImportKey` tells apart, a name, and whether `Validate` accepts it.
Share links, decoding and the rendering of xray's configuration are left out.

### Menus

| In the model | In the code |
| --- | --- |
| `inbox`, `fetched`, `done` | updates Telegram holds; the batch of `getUpdates`; how many of it are handled (the offset, in memory only) |
| `cached` | `routeMenus`, `presetMenus`, `adaptiveMenus`, `dnsTop`: by kind and router |
| `wizard` | the chat's dialog |
| `screen` | what each message shows: drawn from a list, of a router, with its rows |
| `jobs`, `loop` | goroutines that wait for a router's answer, and the loop's own wait |
| `has`, `queue` | what the routers hold, and the commands on their way to them |
| `offers`, `asides` | bounds: the lists this behaviour opens, and how often something else happens |

One kind of list stands for each behaviour: a plain list (routes, ready-made lists,
DNS), and two lists that share a snapshot (redirected and excluded). `MenuSpec` is the
specification; its names carry the prefix where `BotControl` has the same. The scan
sessions, documents of the diagnostics and all texts are left out.

### Cores and Software

| In the model | In the code |
| --- | --- |
| `core`, `temp`, `pin` | the binaries' files, the files being downloaded, `XrayCoreTag` |
| `job[i]` | an installer: the package's `postinst`, the bot's command, a shell |
| `inst`, `daemon` | the version installed; the running daemon's, and how far `watchPostUpdate` is |
| `marker`, `age`, `lock` | the update marker with its time, the self-update lock |
| `fetching`, `span` | detached chains that have not come to opkg yet; how long there has been one |
| `opkg` | who runs `opkg install` and how far its scripts are |
| `cron`, `proc[p]`, `ipk` | the watchdog's entry; runs of its script, its hook and of `internal self-rollback`; the saved package |
| `confirmed`, `declined`, `missed`, `proc[p].doubt` | history only |

`Tick` is two minutes of cron. Versions 1 and 2 are the old and the new build;
`Healths` says whether a build runs, dies at start, cannot run, or runs without ever
confirming. The lock is written if it can be, and the marker names the version that runs. Any
of these may fail: `prerm` may be unable to write cron's files, opkg may end after `prerm`
with or without the new files, `postinst-setup` may return early, warn only, or not run at
all; `postinst` goes on in each case (postinst:10-11) and starts the daemon unless
opkg ended before. Left out: `reconcileWatchdog`, which starts a cron daemon for an entry
that is there, and puts none back; a loss of power inside opkg.

### Presets and Routes

| In the model | In the code |
| --- | --- |
| `upstream`, `file`, `manifest`, `loaded` | what the repository serves; the overlay's lists and manifest; the daemon's index |
| `pull[r]` | a `Refresh`: the daily loop's, the bot's, a shell's |
| `lists`, `memory` | `RoutingConfig` in `config.json` and in the daemon's copy |
| `groups`, `routes` | the router's object-groups and `dns-proxy` routes of ours |
| `job[x]` | `ApplyRoutes` of the bot, a shell or the reconcile pass: read, the commands worked out, those left |
| `stale` | connections opened on another route than the present one (the flush of conntrack) |
| `site` | the router at hand: with `ndmc`, the daily loop, the bot's agent and the `conntrack` tool or without |
| `draft`, `told`, `lost` | the daily loop's copy, what it handed to the agent, what was noted as told of and will never be: the daemon died before, or has no agent |

A revision is a hash of a list's lines, here the set of its entries. Names and their
sanitised form, the cap of 256 entries a list and the operator's own groups are left
out. A flush may fail, as a whole or for some addresses, and nobody is told. The lists built
into the binary are constant, although the overlay outlives the binary: what an upgrade that
brings other ones makes of an old overlay is not modelled. Nor are an agent enabled, or a
`conntrack` installed (adaptive routing does), while the model runs.

### Proxy0Health

| In the model | In the code |
| --- | --- |
| `run`, `flash` | the router's running configuration and the one in flash: the profile's mode and settings, the interfaces that are ours, up, bound |
| `job[j]` | the daemon's start, a reconcile pass, the retrier, the CLI, `prerm --purge`: the command it is at |
| `health` | `proxy0HealthState`: unsaved, retrying, the firmware's verdict |
| `cfg` | `config.json`'s proxy0 section |
| `forgot` | history: the process that knew of an unsaved change is gone |

Host, port, interval and max-fails are one setting. `proxy0 show`, doctor's line and a
host that drifts are left out; a purge is taken to run with no CLI command under way.

## 4. The runs

| Run | Instance | What it shows |
| --- | --- | --- |
| `failover` | three servers, one naive; four configurations: with cooldown, hasty (no cooldown, thresholds 1, naive primary), without backup, empty | `NoHastyFailover`, `NoUntestedFailback`, `HonoursOperatorBackup`; in the end `FailsBack`, `FindsWorkingServer` |
| `tungate` | three failures to close, two reconcilers, four outside events | `ClosesOnEvidence`, `DownOnPurpose`, `WorkingTunnelIsOpened` |
| `botcontrol` | two commands, one with a result the server refuses, two requests at once, one fault, one new registration | `DeliveredAtMostOnce` (the refinement of `CommandDelivery`), `AnswersAreTrue`, `NothingLostWithoutFault`, `RevokedForGood`, `EveryCommandSettles` |
| `tunbreaker` | the code's limit of three crashes, two loop names, two commands, failures or changes of the device | `RunsWhatIsWritten`, `TripsOnEvidence`, `StopReturns`, `SickInboundIsTakenOut` |
| `adaptive` | three addresses in two networks and a known range, traffic by both protocols to one or to two of one network, one address with a name of the lists; two events (sightings are among them), one of them a fault | `TrustEnds`, `RedirectHasReason`, `ExcludedStaysOut` |
| `upkeep` | both passes, both operators, three objects, two failures to open, two events, one fault | `FailOpenUnlessRaced`, `KeyReachesXray`, `Converges` |
| `slots` | three servers, two names, six answers of a provider, three starting configurations, three commands or loads of the daemon's writers | `SlotsKeepTheirServer`, `MemoryIsConfig` |
| `menus` | two routers, three taps, one message, one family of screens per behaviour | `NamesItsOwnRouter`, `DoesWhatItShowed`, `EveryTapIsHandled` |
| `software` | two versions, the new one of three kinds; two runs of cron's script or the hook, two commands, one fault | `SomeoneWillLook`, `OnlyUnconfirmedIsUndone`, `BadBuildIsUndone`, `CoreKeepsRunning` |
| `routes` | a ready-made list with its companion, two states of the repository, two interfaces, `conntrack` and the agent there or not; one event, one fault | `RouterCatchesUp`, `ConnectionsMove`, `HonestAfterRefresh`, `EveryDriftIsTold` |
| `proxy0` | two interfaces, one pass, three ways the daemon may find the router; one event, one fault | `NeverBoundWithoutTLS`, `PurgeKeepsFallback`, `FollowsConfig`, `SurvivesReboot` |
| `failover_returns` | one configuration | refutes a sentence of the README (section 7) |

Bounds, and why they are enough:

* `Failover`: three servers are primary, backup and one substitute, so a pool can have
  an untried candidate, be exhausted, and lose its substitute to a reload. A naive
  server is the backup in one configuration and the primary in the other, so the
  sidecar is on either side of every switch. Thresholds of 1 and 2 give the first
  and a repeated failure; a threshold of 3 repeats the second case. The counters
  are not capped: they are bounded by the thresholds. `StreakBound` caps the
  history counters at the largest threshold; the proofs have no bound.
* `TunGate`: `FailsToClose` is the code's own 3. Two reconcilers are all there are. Four
  events allow, for instance, tunnel dead, a failed command, a crash and a CLI
  change in one behaviour; every schedule of the others is unlimited.
* `BotControl`: two commands are enough for order, for a result taken for another's and
  for a second command behind a stuck result; two connections for a late request beside
  a new one. `Window` is 1 so that results are pushed out. `MaxToken` = 1 allows one new
  registration. `BotControl_safety.cfg` checks the safety properties with two faults, a
  failed save followed by a crash.
* `TunBreaker`: two events are what its races need: a command that is reading the
  options while the crashes of the last configuration are counted, and one failure,
  reload or change of the device beside it. Crashes, callbacks, drops, refreshes,
  retries and the clock are unlimited.
* `AdaptiveRoute`: lives of 1 and 2 passes tell fresh from old, refreshable from not, and
  a cooldown after a confirmation from one after a probation. One address by both
  protocols is what the address-only set confuses; two of one network reach the
  threshold of a block; the third lies in the wider known range only, so an exclusion
  can narrow a block and forbid it. The one address with a name of the lists is among those that
  carry traffic and can be excluded. The passes and the clock are unlimited. The proofs
  have no bound.
* `RouterUpkeep`: two passes are the loop's and the signal's. Two events and a fault
  give, for instance, an outage, a command beside it and a router command that fails.
  `RouterUpkeep_long.cfg` has a third event with a single pass.
* `Slots`: the feeds exchange the names of two nodes, replace one, leave one, serve one
  that parses and does not validate, or fail. Three commands are a setup, a source or
  role, and a refresh after it, with a CLI process open beside them.
* `Menus`: three taps are opening a list, a second screen or a drift, and the press.
  A behaviour keeps to one family of screens, since families share no state but the
  dialog. `Menus_deep.cfg` has a fourth tap on one list.
* `Software`: `Proc` of two lets a script, a hook or a manual rollback overlap another.
  A process outlives one tick, not two; an update's chain takes one (`ChainTicks`), a
  rollback's download ends within one (`SlowNet` is FALSE). a build that dies has died before the next
  tick; power is not lost inside opkg, and a hook is not killed while opkg runs.
  `AgeLimit` is 5 ticks of the seven and a half that 15 minutes have: fresh, and old.
* `Routes`: `Long` is 2 instead of 8 entries. Pushes are looked at without the daily
  loop and the daily loop without a router: they share `lists` only, which one event
  changes in either.
* `Proxy0Health`: a changed interface needs two of them. With one interface and two
  events the same properties hold.
* `Failover`, `TunBreaker`, `Slots`, `Menus`, `Software`, `Routes` and `Proxy0Health` are
  not checked for deadlock: a stopped daemon or a purged package does nothing more, or a
  bound on commands ends the behaviour. The other modules never stop.

Configurations without a run: `BotControl_safety`, `RouterUpkeep_long` and
`Menus_deep` are the larger instances above and hold; `Failover_refuted`,
`BotControl_refuted`, `TunGate_refuted`, `TunBreaker_undone`, `AdaptiveRoute_confirmed`,
`RouterUpkeep_key`, `Slots_told` and `Software_norun` refute what section 7 lists.

## 5. Fairness

* `Failover`: weak fairness of `Tick`, of `RunStep` (the retry of
  `startProduction`) and of `Elapse`: the ticker fires and `Run`'s `select` takes it,
  the retry timer fires, time passes. Nothing is assumed of commands, and the
  liveness properties are asked from `Settle` on, after which commands and outages
  end (an outage for ever, or an operator who switches back each time, would defeat
  any daemon).
* `TunGate`: weak fairness of the gate's goroutine, of each reconciler, of what a
  CLI command has begun, of the cache's expiry, of the daemon's start (init script
  and watchdog) and exit. The gate never waits for a reconciler nor one of those for
  another. Events are bounded, so in the end the world is quiet.
* `TunBreaker`: weak fairness of Run's goroutine within a switch, of its taking a
  waiting drop, of each loop and its callback, and of the end of a process that was
  told to end (killed after 5 s) or cannot run its configuration. A healthy process
  need not end; commands, failures, the device and the clock are under no obligation.
  The give-up of a drop after 30 s is an event: the liveness property excuses it.
* `BotControl`: weak fairness of the agent's loop, of the HTTP handlers taken
  together, of restarts, and of the disappearance of abandoned requests. The bot's
  handlers need no fairness. `EveryCommandSettles` asks only about behaviours in
  which agent and server end up in touch.
* `RouterUpkeep`: weak fairness of each step of each pass (timer and signal), of the
  probes and the health check, of a command once begun, of the process's start and its
  reading of signals. Operators, firmware, outages and faults owe nothing.
* `Menus`: weak fairness of the loop, of each goroutine it started (every wait has a
  timeout in the code) and of each router's execution of a queued command. Offline is an
  event that is under no obligation to end.
* `Software`: weak fairness of opkg once it runs, of cron's tick, of the daemon's start
  and self-confirmation, of each script or hook begun, and of each installer.
  A download may always fail. `BadBuildIsUndone` holds with one
  fault, as in `Software_check`; with two a bad build can outlast its marker and stay, and TLC
  refutes the property.
* `Routes`: weak fairness of the daemon's reconcile loop and of its daily loop only. A
  command of the bot or a shell may stop half way for ever.
* `Proxy0Health`: weak fairness of each job's next command, of the reconcile ticker, of
  the retrier and of the hours it waits. Operator, firmware and faults owe nothing.
* `AdaptiveRoute` and `Slots` state no liveness.

## 6. What is proved

The theorems hold for every value of the constants that satisfies the named
assumptions: any profiles and configurations (thresholds positive), any number of
failures to close, any reconcilers and reconcile passes, any commands, connections,
faults and new registrations, any crash limit of three or more, any destinations,
networks and times to live, any interfaces, any routers, kinds of list, contents,
messages and taps, any number of scripts and hooks, any releases of a core, any finite
sets of lists and entries, any states of the repository.

No theorem states a hypothesis of its own.

* `FailoverProofs`. `TypeCorrect` first: each action keeps each variable in range.
  The three invariants need `Consistent`, which adds to them that a cooldown stands
  for the state it leads to, and that outside the full loop the machine's state is
  one of the two a command can set. Without it the invariants are not
  inductive: a command served before the loop has begun moves the machine too. The
  action properties need `Evidence` (each counter of the code counts no more than
  the probes in a row that history has seen, and is zero where nothing is being
  counted: this is what a forgotten reset would break) and `HeldBack` (an operator's
  hold is covered by the backoff armed with it).
* `FailoverProofs`, second part (`TunGate`; what `Failover` has as well begins with `Tun`).
  `Held` strengthens `DownOnPurpose`: the gate exists only in a daemon; it decides to close
  on evidence; the count it decides on is the history's;
  "opened" is recorded only of an interface that is up; a missing interface counts
  as up. `ClosesOnEvidence` follows because only one action takes the interface down.
* `BotControlProofs`. `TypeOK` is not inductive by itself: `Carried` adds that a
  result request carries a command and that an agent which runs or posts has one.
  `DiskBehind` is inductive as it stands: a save that fails leaves memory ahead of
  the file, never the file ahead of memory, and `Dequeue`, `AddRouter` and
  `RemoveRouter` undo in memory what they could not write. `RevokedForGood` follows from it, since a crash brings back only
  a token the file still has.
* `BotControlProofs`, the refinement. That a step of the agent or the server is a step of
  `CommandDelivery` needs `Sound`: a queue holds no command twice, only what was
  asked for is queued, and a command that is in the queue is neither on its way in
  an answer nor at the agent, nor was it run before. `Sound` is inductive with
  `DiskBehind`: after a crash the queue is the file's, a prefix of the one that was
  in memory, so nothing comes back. `AnswersAreTrue`
  needs `Truthful`: results in memory, on disk and in requests are of commands that
  were run. `NothingLostWithoutFault` needs `Intact`: while nothing has failed the server
  has started once, nothing was asked before the first registration, each request is the
  one the agent waits for, and, until a removal, what the queue has let go is in an
  answer, at the agent or among the results.
* `BotControlProofs`, last part (`Menus`). `MenuSound` is the inductive invariant. Beside
  types it says what ties the three places an answer meets: `Linked`, a command that
  somebody waits for names a job that waits, at that router and for that kind of list,
  and no two commands name the same; and `FreshTaps`, the job of a tap not handled yet
  does not exist. A command from before a restart, or of a job that gave up, names none,
  so no late answer reaches another's job, and what a job stores as the list of a router
  holds that router's rows: `NamesItsOwnRouter`. For `DoesWhatItShowed`, `Truth` adds
  that everything drawn from a cached list (a screen, a button pressed and not handled
  yet, a list read and not drawn yet) is true of that list as long as it is marked as
  drawn from it; the property is only about those, because a list may be replaced under
  a message (section 7). `Counted`: an update not handled since the last restart has
  been handled at most once by each life before. (The proof found two arms of a CASE
  in `AdaptiveButtons` that overlapped; they are in the code's order now.)
* `TunBreakerProofs`. `Supervised` says that a loop which is not gone is the one to
  cancel or the one `Stop` waits for, never one of each, and that only a loop that runs
  has a child; `OneChild` and `NothingLeftBehind` follow. `RunsWhatIsWritten` needs
  `AsRead`, what Run knows between the steps of a switch. `TripsOnEvidence` needs
  `Evidence`: the code's count is that of the live crashes, or one more, from a callback
  that had looked at the flag before the switch took it away and counts after the
  counter was cleared. That one more is why the property says "all but one", and why
  the limit must be three: with two, a late crash and one left over could trip a
  healthy inbound.
* `RouterUpkeepProofs`. The bound on keys is no type by itself: a WireGuard interface gets
  a fresh key each time it is made, so `KeysPaid` charges each key to the event that took
  the interface away, or is about to. `FailOpenStaysOpen` needs `HeldOut`: the flag is
  what the health check has decided, and a pass that is about to look at the rule read
  the flag before that. `TheKeyArrives` needs `Owed`: no copy carries a key the
  firmware has not handed out, so that a new one differs from all of them, and while
  xray's copy is out of date a pass, a command or a signal is on the way with the
  interface's. The attempt to prove it showed that two passes can re-key one after the
  other and push in the opposite order: the property had not excused that, and no
  bound TLC was run with reached it. `stale` now records it.
* `AdaptiveRouteProofs`. First what each classifier function does to one destination
  (`DetectPoint`, `JudgePoint`, ...), then what a whole pass does to the properties of
  a state. `Inv` joins four parts, none inductive alone: the types; trust that ends
  (`since + ok` below the longest life and one entry's time: a refresh adds a whole
  entry, but only before the longest life is over); `Reasons`, that each addition still
  to be carried out has its reason in the state for as long as it asks for, and each entry
  in the set has one, or its removal is among the commands to come, or it is left over or the
  SNI watcher's, which was the last to write it for a name it saw; and `Out`, that what the
  loop has read is out of the state, of the additions to come and, once swept, of the set,
  but for what the watcher added later by its older copy (`late`). The assumption that a probation is no longer than a
  confirmation (60 s against hours) is needed: a confirmation would else shorten what the
  kernel was told. `TiersStayApart` needs the same of the saved state; `NotesAreKept`
  drops the condition on the state, which a failed command would break, and asks for a
  note of every founded entry; `FlushIsFinal` needs only that a flush left the marker.
* `Proxy0HealthProofs`. `Inv` says which configurations fit a firmware, and `Able` what
  a job may hold at each place of its program: past `mode tls` only where the firmware
  has it, so the bind, which comes last, finds it. `Removal` adds that the purge runs
  alone and is past the interface only when that is down or not ours;
  `PurgeKeepsFallback` follows step by step.
* `SoftwareProofs`. The cores first: `CoresSound`, a file that passed its smoke test runs
  until it is renamed, as nobody else writes to it; so the core that is there runs,
  wherever an installer is stopped. `Watched`: the watchdog's entry is missing only on
  the operator's word, between `prerm` and the new version's setup, when opkg is at work, or
  after an install that ended without that setup. `Own`: beside a build that has been in the
  air the only marker there can be is of the version itself, left by an update away from it,
  and the daemon that runs is of it; so a hook that finds a marker of another version while
  none runs has grounds (`Grounds`), which it keeps through the download. `ConfirmedIsKept`
  says no more than that: the hook does not look again (section 7, `NeverUndone`). Of two
  chains at once nothing is proved, because there may be two (`OneChain`).
* `SlotsProofs`. `Kept(c)` says of one configuration that it has its type, that each slot
  points into the pool or is unset, and that the server there is the one it was put on.
  The lemmas go from the pool (`UpsertExtends`: a profile put in shifts no other;
  `RemoveKeeps`: those behind a removed one move up with the indices) over one slot
  (`SharedSlotMoves`, `RefreshOwnLands`) to a whole refresh (`ApplyResultLands`,
  `RefreshKeeps`), where `Wanted`, which never looks at an index, and the code's two passes
  over the pool must agree. `Copies` is `Kept` of every copy there is, the bot's, the CLI's and those of the daemon's
  writers, and inductive.
  The only assumption on a start is that `Load` leaves indices into the pool.
  `MemoryIsConfig` needs `Told`: it also holds inside a command as long as no reload has
  arrived there, and a CLI process that is not there has saved nothing unsaid. Its four
  reasons end with the bot's next save, a reload or a restart, where the copies meet again.
* `SlotsProofs`, second part (`Presets`). `HonestAfterRefresh` speaks of the one moment a
  manifest is written. Between two such moments it rests on `Honest`: the rows a refresh
  that is alone has kept so far say what the overlay serves, the rows still to come being
  absent. That a row found equal to the manifest's is honest also where the list has no
  file needs `Grounded`: whatever a crash, a refresh beside another or an old index left,
  a row of a list without a file of its own is the built-in one's, in the manifest, in the
  daemon's index and in what each refresh carries. `Undisturbed` is what being alone means.
* `SlotsProofs`, third part (`Routes`). `ConnectionsMove` speaks of the end of a push, where
  all but the connections to the present contents of its lists' groups are left in place.
  `PushesReach` says of each moment before: while nothing has failed and nobody else
  pushes, an entry that is wanted is in its group or a command for it is still to come.
  The theorem is about routers with the tool and flushes that work; of the others there is
  nothing to prove (section 7, `EveryPushMoves`).
  No command may take such an entry away again (`PushesFit`), which asks that the commands
  `ApplyRoutes` works out hold no exclusion of a wanted entry and no removal of a group
  that is wanted (`CommandsBring`, with lemmas on what is in a concatenation, a flattened
  sequence and a set put in order), and that a list which is not there holds no entries
  whatever the commands, the ready-made lists and the daily loop make of a configuration
  (`CommandsTidy`).

`PROJECT.json` names the properties that a run checks as well. The others, which are
proved and need no run of their own: the type invariants of `Failover`, `TunGate`,
`BotControl`, `Menus`, `TunBreaker`, `RouterUpkeep`, `Software` and `Slots`;
`PrimaryStatesOnPrimary`, `PretestOnlyOnBackup`, `SubstituteEndsWithEpisode`;
`DiskBehind`; `HandledOncePerLife`; `OneChild`, `NothingLeftBehind`; `OneTier`,
`NotesFollow`, `FlushForgets`, `ConfirmedAfterProbation`.

Only model-checked: every liveness property (fairness and ENABLED are out of the
prover's reach), with them `BadBuildIsUndone`, which is a leads-to. The sentences of
section 7 are refuted, which needs no proof.

## 7. What the code does not keep

`failover_returns` is a run and listed under `findings`: with the live backup dead and the
pool used up, a tick returns before it probes the primary, so a primary that works again
is not returned to.

TLC refutes the following as well, each with the configuration named (where it holds
several properties, TLC stops at the first: keep one line; a `_check` configuration is that
of the run, with its constants and the property in place of its own, under `Spec`, or under
`LiveSpec` for `NoResultBlocks`, `FairSpec` for those of `Routes`).

| Configuration | Property | What happens |
| --- | --- | --- |
| `Failover_refuted` | `ActiveBackupIsLive` | a forced switch to backup while `startProduction` waits is undone by its next retry; the machine goes on saying ACTIVE_BACKUP |
| | `PretestCatchesUp` | after a reload with a new primary, the isolated instance goes on testing the old one until the episode ends, and the daemon fails back on its word |
| | `SubstituteClearedOnSuccess` | the substitute is cleared before the switch to primary can fail, and is forgotten with it |
| | `NoHastyRotation` | `backupFailures` is not cleared by a forced switch, so the next episode may rotate after one failure |
| | `BackupStartsFullLoop` | a backup configured while Run is in its branch without one never starts health checks |
| | `StopTakesXrayDown` | `prod.Stop` is deferred only behind `startProduction`; a daemon stopped before that leaves behind the xray a command has started |
| `TunGate_refuted` | `DeadTunnelIsClosed` | the gate compares nothing with the router: an interface brought up behind it stays up for as long as the tunnel is dead |
| | `StopLeavesOpen` | `cmdDaemon` does not wait for the gate, which may leave the interface down |
| | `RepairKeepsClosed` | a reconcile that read `Closed()` before the gate closed brings the interface up again |
| `BotControl_refuted` | `RestartKeepsQueued` | a command is off the disk before it is on the wire; a crash in between loses it |
| | `RefusedNeverRuns` | an `Enqueue` that could not save is reported as refused, and the command runs all the same |
| | `AddedAfresh` | an `Enqueue` or a late request that had passed the registry check recreates the queue of a router removed meanwhile; the router added again inherits it |
| `BotControl_check` | `NoResultBlocks` | a result longer than `maxResultBytes` is refused at each post, and no command behind it is fetched until the agent restarts (agent.go: "new work waits for the next regular tick") |
| `TunBreaker_undone` | `TrippedStaysOut` | a switch that read the options before the breaker tripped writes the inbound and then clears the trip; the drop the trip started writes the inbound once more |
| `AdaptiveRoute_confirmed` | `ConfirmedIsRedirected` | a failed verdict for one protocol removes the address that the other has confirmed from the set both share |
| `AdaptiveRoute_check` | `NeverRedirected` | the SNI watcher puts an address back that has just been excluded, by a copy up to 2 s old, for its whole life: telegram_adaptive.go:353 tells the operator that neither the classifier nor l7sni ever redirects what is on the list |
| `RouterUpkeep_key` | `KeyAgrees` | a copy loaded before a re-key, saved or applied after it, brings the old key back to xray ("pushed", reconcile.go); of two passes that re-key one after the other, the first may push last |
| `Slots_told` | `BotIsTold` | a CLI command's SIGHUP arrives inside a bot command, whose save then overwrites the file, or a refused save leaves the bot's memory changed |
| `Software_norun` | `HarmlessTearDown` | an opkg that fails after `prerm`, or a setup that returns early, leaves neither a daemon nor a watchdog's entry (internal.go:189: "a harmless tear-down-and-rebuild for an upgrade") |
| `Software_check` | `NeverUndone` | a build that comes into the air while the hook downloads the other one is replaced all the same: there is no look after the download |
| | `OneChain` | the lock's write is best effort (commands.go:1459), so a second update may start beside the first |
| `Routes_check` | `EveryPushMoves` | without `conntrack`, which is not there by default, a push moves no open connection (conntrack.go:22-26 says so itself) |
| | `NotedIsTold` | a daemon without an agent notes a drift as told of and returns (presets_update.go:76-78); were the agent enabled later, that drift would not be told |

Other behaviour the models show, which no property asks about:

* Configuration. A reconcile pass saves its whole copy over a change the CLI or the bot
  saved meanwhile, and undoes fail-open or `off` if it had read the file before; the
  daily loop of ready-made lists does the same after a refresh of up to four minutes.
  Neither save reaches the bot's copy, whose next save takes the noted revisions, or the new
  key, out of the file again.
  A SIGHUP between `writeDaemonPIDFile` and `signal.Notify` ends the process.
  `setSlotSource` for one slot rewrites the other's profile when both share an
  `ImportKey`; handlers other than `setPorts` do not take a change back that could not
  be saved; a role set on a slot with a source of its own is undone by the next refresh.
* Routes. A failed `no dns-proxy route` leaves a second route hidden behind the one the
  reader keeps; a flush misses addresses of removed lists, and is not done when a command
  failed; with the last list removed while commands fail, its group stays. A crash
  between save and send loses the notice of a drift; a flush that fails leaves connections
  where they are, and only the log says so; a crash between list and manifest
  leaves the daemon's index behind.
* Update. The chain that ends first removes the lock of a second one beside it. A failed chain leaves its marker, so a restart within 15 minutes reports a
  reinstall that never was. Two runs of the script may write the saved package at once; with
  one more fault the bad build is restarted instead of undone. A confirming daemon clears
  whatever marker it finds. A daemon started more than 15 minutes after the marker was
  written clears one "kept on purpose".
* Menus. A list is cached and its message redrawn in two steps, so with two loads under
  way a message may stay whose index means something else. The offset lives in memory: a
  restart of the server hands the last batch out again.
* Proxy0. `proxy0 set --interface` on a disabled proxy0 leaves the old interface up
  without its check; the clean-up after a deadline runs in the same ended context; two
  jobs that interleave may have the check bound in its default mode until the read-back.
* TUN. When the transport is switched off, the gate clears its flag before the router has
  opened the interface; a reconcile that read the configuration before `transport tun
  off` creates the interface again after the CLI has removed it.
* Adaptive route. A failed `AddIP` is not retried before the next verdict. The SNI watcher
  checks the operator's exclusions only, not the ranges the classifier may not touch
  (`Vetoed`); a probation that lapses takes the note of a sighting of its address with it.

## 8. What is not modelled, and why

`PROJECT.json` lists every part of the repository with its state.

* Left of the plan: the command whose caller gives up (`Daemon.do`), the merge of the
  event sources with its bounded buffers, the offline, stuck-on-backup and update
  watchers, the sweep of probes, the reassembly of TLS records.
* Of modelled components: what section 3 says of each module.
* Not to be modelled: parsing and encoding (URIs, RCI requests, HTTP), downloads and
  file layout, texts and layout of the bot, generators, packaging, and tables of ranges
  and add-ons: one order of steps each, with nothing that interleaves, which the
  repository's own tests exercise better.
