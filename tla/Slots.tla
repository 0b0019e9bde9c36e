-------------------------------- MODULE Slots --------------------------------
(***************************************************************************)
(* The two failover slots, the pool of profiles they point into, and the   *)
(* writers of both (internal/config/profile.go, internal/subscription,     *)
(* internal/botcontrol/commands.go; cmd/keenetic-xray: setup.go,           *)
(* setup_edit.go, subscription.go, profile.go, daemonctl.go, main.go,      *)
(* presets_update.go, reconcile.go, wgtransport.go).                       *)
(*                                                                         *)
(* A slot is an index into a pool that a refresh replaces, a removal       *)
(* shifts and a source appends to.  The bot keeps one copy of config.json  *)
(* in memory; every CLI command, and each of two loops of the daemon that  *)
(* have something of their own to note in it, loads one, works on it while *)
(* the others may save theirs, and saves it whole.                         *)
(***************************************************************************)
EXTENDS Naturals, Sequences, SequencesExt

CONSTANTS
    Server,        \* what ImportKey tells apart
    NoServer,
    Name,          \* remarks
    Feeds,         \* what a subscription URL may serve: lists of profiles, <<>> for a failure
    Links,         \* profiles given as a link
    Selector,      \* "first", "second" (a position), and names
    Start,         \* configurations the daemon may be started with
    MaxCommands    \* commands of the bot and the CLI, loads of the daemon's, and restarts: a bound

(* The daemon's writers: the preset loop (the revisions told of) and the reconciler (the
   key of a WireGuard interface made anew). *)
Writer == {"presets", "reconcile"}
Slot == {"primary", "backup"}
Profile == [server: Server, name: Name, valid: BOOLEAN]
NoProfile == [server |-> NoServer, name |-> "", valid |-> FALSE]

ASSUME ServerAssumption == NoServer \notin Server
ASSUME NameAssumption == /\ {"first", "second", ""} \cap Name = {}
                         /\ Selector \subseteq {"first", "second"} \cup Name
ASSUME FeedsAssumption == Feeds \subseteq Seq(Profile) /\ Links \subseteq Profile
ASSUME BoundAssumption == MaxCommands \in Nat

VARIABLES
    disk,      \* config.json
    bot,       \* RouterHandler.Config
    busy,      \* the bot is inside a command
    reload,    \* RouterHandler.ConfigReload: whether there is one, and the copy
    hup,       \* a SIGHUP the daemon has not handled yet
    cli,       \* the CLI process, its copy, and whether its editor has saved something
    daemon,    \* the copy each of the daemon's writers is working on
    commands,
    astray     \* history: why the bot's memory may differ from config.json

vars == <<disk, bot, busy, reload, hup, cli, daemon, commands, astray>>

-----------------------------------------------------------------------------
(* A configuration: at[s] is 0 when the slot is unset; src[s] is its own source, with the
   anchor of the profile it resolved to; noted[w] counts what writer w has noted; want[s] is
   history, the server the slot was put on by a choice of the operator or by a refresh that
   had to choose. *)

NoSource == [link |-> NoProfile, pick |-> "", anchor |-> NoServer]
Source == [link: Links \cup {NoProfile}, pick: Selector \cup {""}, anchor: Server \cup {NoServer}]
Empty == [pool |-> <<>>, at |-> [s \in Slot |-> 0], src |-> [s \in Slot |-> NoSource],
          shared |-> FALSE, http |-> "own", adaptive |-> FALSE,
          noted |-> [w \in Writer |-> 0],
          want |-> [s \in Slot |-> NoServer]]
NoReload == [on |-> FALSE, config |-> Empty]
NoCopy == [on |-> FALSE, copy |-> Empty]

Config == [pool: Seq(Profile), at: [Slot -> Nat], src: [Slot -> Source], shared: BOOLEAN,
           http: {"own", "adaptive"}, adaptive: BOOLEAN, noted: [Writer -> Nat],
          want: [Slot -> Server \cup {NoServer}]]

At(c, s) == IF c.at[s] = 0 THEN NoProfile ELSE c.pool[c.at[s]]
Own(c, s) == c.src[s] # NoSource

(* What Load leaves: indices into the pool; the history begins with what the slots point at. *)
ASSUME StartAssumption ==
    \A c \in Start : /\ c \in Config
                     /\ \A s \in Slot : /\ c.at[s] \in 0 .. Len(c.pool)
                                        /\ c.want[s] = At(c, s).server

(* Validate: every profile, the indices, and the HTTP port against the adaptive inbound's. *)
Validate(c) ==
    /\ \A i \in DOMAIN c.pool : c.pool[i].valid
    /\ \A s \in Slot : c.at[s] \in 0 .. Len(c.pool)
    /\ ~ (c.adaptive /\ c.http = "adaptive")

(* The first profile with this ImportKey, 0 for none. *)
FindServer(pool, server) == SelectInSeq(pool, LAMBDA q : q.server = server)

UpsertProfile(pool, p) ==
    IF FindServer(pool, p.server) = 0 THEN Append(pool, p)
    ELSE [pool EXCEPT ![FindServer(pool, p.server)] = p]

(* The pool with p in it, and slot s pointing at it. *)
Put(c, s, p) ==
    LET pool == UpsertProfile(c.pool, p)
    IN  [c EXCEPT !.pool = pool, !.at[s] = FindServer(pool, p.server)]

Choose(c, s, p) == [Put(c, s, p) EXCEPT !.want[s] = p.server]

-----------------------------------------------------------------------------
(* internal/subscription *)

Named(list, name) == {i \in DOMAIN list : list[i].name = name}

(* A remark is a match when one profile of the fresh list has it, never the first of several. *)
MatchByRemark(list, name) ==
    IF \E i \in DOMAIN list : Named(list, name) = {i} THEN CHOOSE i \in Named(list, name) : TRUE ELSE 0

Pick(list, selector) ==
    CASE selector = "first" -> IF list # <<>> THEN list[1] ELSE NoProfile
      [] selector = "second" -> IF Len(list) > 1 THEN list[2] ELSE NoProfile
      [] OTHER -> IF MatchByRemark(list, selector) = 0 THEN NoProfile
                  ELSE list[MatchByRemark(list, selector)]

(* The anchored server while the source still has it, else the selector again. *)
ResolveSourcePinned(source, list) ==
    IF source.link # NoProfile THEN source.link
    ELSE LET i == FindServer(list, source.anchor)
         IN  IF source.anchor # NoServer /\ i # 0 THEN list[i] ELSE Pick(list, source.pick)

(* Mutant: a slot whose server has gone is left unset. *)
ResolveOrUnset(c, list, s, old) ==
    LET byRemark == IF old = NoProfile THEN 0 ELSE MatchByRemark(list, old.name)
        byServer == FindServer(c.pool, old.server)
    IN  [c EXCEPT !.at[s] = IF byRemark # 0 THEN byRemark ELSE IF Len(list) = 1 THEN 1 ELSE byServer]

(* One slot of the shared subscription against the fresh list: its remark, its server under
   another remark, the sole profile there is, or the server it had. *)
ResolveSharedSlot(c, list, s, old) ==
    LET byRemark == IF old = NoProfile THEN 0 ELSE MatchByRemark(list, old.name)
        byServer == FindServer(c.pool, old.server)
    IN  CASE byRemark # 0 -> [c EXCEPT !.at[s] = byRemark]
          [] byRemark = 0 /\ byServer # 0 -> [c EXCEPT !.at[s] = byServer]
          [] byRemark = 0 /\ byServer = 0 /\ Len(list) = 1 -> [c EXCEPT !.at[s] = 1]
          [] OTHER -> IF old # NoProfile THEN Put(c, s, old) ELSE [c EXCEPT !.at[s] = 0]

(* ApplyResult: the pool is replaced, the shared slots are found again in it, and the slots
   with a source of their own get their profile back, over whatever the list had for it. *)
ApplyResult(c, list) ==
    LET kept == {s \in Slot : Own(c, s) /\ At(c, s) # NoProfile}
        Resolve(d, s) == ResolveSharedSlot(d, list, s, IF Own(c, s) THEN NoProfile ELSE At(c, s))
        Restore(d, s) == IF s \in kept THEN Put(d, s, At(c, s)) ELSE d
        resolved == Resolve(Resolve([c EXCEPT !.pool = list], "primary"), "backup")
    IN  Restore(Restore(resolved, "primary"), "backup")

(* One slot's own source fetched again: a failure keeps what the slot has. *)
RefreshOwn(c, s, list) ==
    LET p == ResolveSourcePinned(c.src[s], list)
    IN  IF ~ Own(c, s) \/ p = NoProfile THEN c
        ELSE [Put(c, s, p) EXCEPT !.src[s].anchor = p.server]

(* What a refresh may make of a slot's server, whatever the pool looks like: its own source
   decides while it answers, by its anchor before its selector; a slot of the shared
   subscription follows its remark, or a list with no choice in it, or stays. *)
Wanted(c, list, own, s) ==
    LET old == At(c, s)
        source == c.src[s]
        answer == ResolveSourcePinned(source, own[s])
        pinned == source.link = NoProfile /\ \E i \in DOMAIN own[s] : own[s][i].server = source.anchor
        named == MatchByRemark(list, old.name)
    IN  CASE Own(c, s) /\ pinned -> source.anchor
          [] Own(c, s) /\ ~ pinned /\ answer # NoProfile -> answer.server
          [] OTHER -> IF ~ c.shared \/ (Own(c, s) /\ old # NoProfile) THEN c.want[s]
                      ELSE IF old # NoProfile /\ named # 0 THEN list[named].server
                      ELSE IF Len(list) = 1 THEN list[1].server
                      ELSE c.want[s]

(* The whole refresh, of the bot and of the CLI alike: a failing shared fetch ends it. *)
CanRefresh(c, list) == /\ c.shared \/ (\E s \in Slot : Own(c, s))
                       /\ c.shared <=> (list # <<>>)

Refresh(c, list, own) ==
    LET Fetched(d, s) == RefreshOwn(d, s, own[s])
        applied == IF c.shared THEN ApplyResult(c, list) ELSE c
        result == Fetched(Fetched(applied, "primary"), "backup")
    IN  [result EXCEPT !.want = [s \in Slot |-> Wanted(c, list, own, s)]]

(* The feeds a refresh of c may meet: one that is not fetched is the failing one. *)
Fetches(c) == {own \in [Slot -> Feeds] : \A s \in Slot : ~ Own(c, s) => own[s] = <<>>}

-----------------------------------------------------------------------------
(* Commands as functions of a configuration, shared by the bot and the CLI. *)

(* setSlotSource, editPrimary, editBackup: a source resolved, its profile put into the pool. *)
SetSource(c, s, source, p) ==
    [Choose(c, s, p) EXCEPT !.src[s] = [source EXCEPT !.anchor = p.server]]

(* What a source may resolve to when it is set: a link, or one profile of a list. *)
Resolved == {[source |-> [NoSource EXCEPT !.link = p], profile |-> p] : p \in Links}
            \cup {x \in {[source |-> [NoSource EXCEPT !.pick = k], profile |-> Pick(list, k)] :
                          k \in Selector, list \in Feeds} : x.profile # NoProfile}

Mirrored(c) == [c EXCEPT !.at["backup"] = c.at["primary"], !.want["backup"] = c.want["primary"]]

(* The editor keeps a backup without a source of its own on the primary. *)
EditPrimary(c, x) ==
    LET d == SetSource(c, "primary", x.source, x.profile)
    IN  IF Own(c, "backup") THEN d ELSE Mirrored(d)

SkipBackup(c) == Mirrored([c EXCEPT !.src["backup"] = NoSource])

SetRole(c, s, i) == [c EXCEPT !.at[s] = i, !.want[s] = c.pool[i].server]

ReindexAfterRemoval(current, removed) ==
    CASE current = removed -> 0
      [] current > removed -> current - 1
      [] OTHER -> current

RemoveProfile(c, i) ==
    [c EXCEPT !.pool = RemoveAt(@, i),
              !.at = [s \in Slot |-> ReindexAfterRemoval(c.at[s], i)],
              !.want = [s \in Slot |-> IF c.at[s] = i THEN NoServer ELSE c.want[s]]]

(* runSetupNonInteractive: the pool replaced, both slots picked from it; the sources stay. *)
SetupFrom(c, list, url, i, j) ==
    [c EXCEPT !.pool = list, !.shared = @ \/ url,
              !.at = [primary |-> i, backup |-> j],
              !.want = [primary |-> list[i].server, backup |-> list[j].server]]

-----------------------------------------------------------------------------
Init ==
    /\ disk \in Start /\ bot = disk /\ busy = FALSE /\ reload = NoReload /\ hup = FALSE
    /\ cli = [on |-> FALSE, copy |-> Empty, saved |-> FALSE]
    /\ daemon = [w \in Writer |-> NoCopy]
    /\ commands = 0 /\ astray = {}

Command == commands < MaxCommands /\ commands' = commands + 1

(* The bot, one command at a time: it first adopts what a SIGHUP left for it. *)
Known == IF reload.on THEN reload.config ELSE bot

BotBegin ==
    /\ Command /\ ~ busy /\ busy' = TRUE
    /\ bot' = Known
    /\ reload' = NoReload
    /\ UNCHANGED <<disk, hup, cli, daemon, astray>>

Crossed == IF reload.on THEN {"crossed"} ELSE {}

(* The end of a command that changed its copy to c: a refused save leaves the copy changed;
   one that works makes the file what the bot has. *)
BotSave(c) ==
    /\ busy /\ busy' = FALSE /\ bot' = c
    /\ disk' = IF Validate(c) THEN c ELSE disk
    /\ astray' = IF Validate(c) THEN Crossed ELSE astray \cup {"refused"}
    /\ UNCHANGED <<reload, hup, cli, daemon, commands>>

BotSetSource == \E s \in Slot, x \in Resolved : BotSave(SetSource(bot, s, x.source, x.profile))

BotSetURL == BotSave([bot EXCEPT !.shared = TRUE])

BotRefresh == \E list \in Feeds, own \in Fetches(bot) :
                  CanRefresh(bot, list) /\ BotSave(Refresh(bot, list, own))

BotSetRole == \E s \in Slot, i \in DOMAIN bot.pool : BotSave(SetRole(bot, s, i))

(* Any other setting the bot saves with its whole copy. *)
BotSaveOther == BotSave(bot)

(* A command that reads only, or whose source or refresh fails. *)
BotNothing ==
    /\ busy /\ busy' = FALSE
    /\ UNCHANGED <<disk, bot, reload, hup, cli, daemon, commands, astray>>

(* setPorts puts the ports back when the save is refused. *)
BotSetPorts ==
    \E port \in {"own", "adaptive"} :
        LET ported == [bot EXCEPT !.http = port]
        IN  IF Validate(ported) THEN BotSave(ported) ELSE BotNothing

BotAdaptive == \E on \in BOOLEAN : BotSave([bot EXCEPT !.adaptive = on])

Bot == \/ BotBegin \/ BotSetSource \/ BotSetURL \/ BotRefresh \/ BotSetRole
       \/ BotSaveOther \/ BotNothing \/ BotSetPorts \/ BotAdaptive

-----------------------------------------------------------------------------
(* A CLI process: one copy from its start to its end. *)
CliBegin ==
    /\ Command /\ ~ cli.on /\ cli' = [on |-> TRUE, copy |-> disk, saved |-> FALSE]
    /\ UNCHANGED <<disk, bot, busy, reload, hup, daemon, astray>>

(* The end of a command that saves c, and of one that tells the daemon so. *)
CliEnd(c, told) ==
    /\ cli.on /\ ~ cli.saved /\ cli' = [cli EXCEPT !.on = FALSE, !.copy = Empty]
    /\ IF Validate(c)
       THEN disk' = c /\ hup' = (hup \/ told) /\ astray' = astray \cup (IF told THEN {} ELSE {"untold"})
       ELSE UNCHANGED <<disk, hup, astray>>
    /\ UNCHANGED <<bot, busy, reload, daemon, commands>>

CliRefresh == \E list \in Feeds, own \in Fetches(cli.copy) :
                  CanRefresh(cli.copy, list) /\ CliEnd(Refresh(cli.copy, list, own), TRUE)

CliSetRole == \E s \in Slot, i \in DOMAIN cli.copy.pool : CliEnd(SetRole(cli.copy, s, i), TRUE)

CliSetup == \/ \E list \in Feeds : \E i, j \in DOMAIN list : CliEnd(SetupFrom(cli.copy, list, TRUE, i, j), TRUE)
            \/ \E p \in Links : CliEnd(SetupFrom(cli.copy, <<p>>, FALSE, 1, 1), TRUE)

CliAdaptive == \E on \in BOOLEAN : CliEnd([cli.copy EXCEPT !.adaptive = on], TRUE)

(* subscription set-url and profile add and remove save and tell nobody. *)
CliSetURL == CliEnd([cli.copy EXCEPT !.shared = TRUE], FALSE)
ProfileAdd == \E p \in Links : CliEnd([cli.copy EXCEPT !.pool = Append(@, p)], FALSE)
ProfileRemove == \E i \in DOMAIN cli.copy.pool : CliEnd(RemoveProfile(cli.copy, i), FALSE)

(* The editor saves after every field and tells the daemon when the operator leaves it. *)
CliEdit(c) ==
    /\ Command /\ cli.on
    /\ cli' = [cli EXCEPT !.copy = c, !.saved = @ \/ Validate(c)]
    /\ disk' = IF Validate(c) THEN c ELSE disk
    /\ UNCHANGED <<bot, busy, reload, hup, daemon, astray>>

EditSlots == \/ \E x \in Resolved : \/ CliEdit(EditPrimary(cli.copy, x))
                                    \/ CliEdit(SetSource(cli.copy, "backup", x.source, x.profile))
             \/ CliEdit(SkipBackup(cli.copy))

EditPorts == \E port \in {"own", "adaptive"} : CliEdit([cli.copy EXCEPT !.http = port])

CliQuit ==
    /\ cli.on /\ cli' = [cli EXCEPT !.on = FALSE, !.copy = Empty, !.saved = FALSE]
    /\ hup' = (hup \/ cli.saved)
    /\ UNCHANGED <<disk, bot, busy, reload, daemon, commands, astray>>

CliKilled ==
    /\ cli.on /\ cli.saved
    /\ cli' = [cli EXCEPT !.on = FALSE, !.copy = Empty, !.saved = FALSE]
    /\ astray' = astray \cup {"untold"}
    /\ UNCHANGED <<disk, bot, busy, reload, hup, daemon, commands>>

CLI == \/ CliBegin \/ CliRefresh \/ CliSetRole \/ CliSetup \/ CliAdaptive \/ CliSetURL
       \/ ProfileAdd \/ ProfileRemove \/ EditSlots \/ EditPorts \/ CliQuit \/ CliKilled

-----------------------------------------------------------------------------
(* Mutant: the fresh copy is for the daemon alone. *)
HangUpDaemonOnly ==
    /\ hup /\ hup' = FALSE /\ astray' = {}
    /\ UNCHANGED <<disk, bot, busy, reload, cli, daemon, commands>>

(* The daemon's answer to a SIGHUP: a fresh copy for the bot, whatever ReloadConfig said. *)
HangUp ==
    /\ hup /\ hup' = FALSE /\ reload' = [on |-> TRUE, config |-> disk]
    /\ astray' = {}
    /\ UNCHANGED <<disk, bot, busy, cli, daemon, commands>>

(* runPresetRefresh, reconcileOnce: a copy of its own, to work on for minutes. *)
WriterLoads(w) ==
    /\ Command /\ ~ daemon[w].on
    /\ daemon' = [daemon EXCEPT ![w] = [on |-> TRUE, copy |-> disk]]
    /\ UNCHANGED <<disk, bot, busy, reload, hup, cli, astray>>

(* It had something to note, and saves its copy whole: the daemon itself may be given it
   (pushRekeyedWGConfig), the bot's copy never is. *)
WriterSaves(w) ==
    LET new == [daemon[w].copy EXCEPT !.noted[w] = @ + 1]
    IN  /\ daemon[w].on /\ daemon' = [daemon EXCEPT ![w] = NoCopy]
        /\ IF Validate(new) THEN disk' = new /\ astray' = astray \cup {"unshared"}
                          ELSE UNCHANGED <<disk, astray>>
        /\ UNCHANGED <<bot, busy, reload, hup, cli, commands>>

WriterLeaves(w) ==
    /\ daemon[w].on /\ daemon' = [daemon EXCEPT ![w] = NoCopy]
    /\ UNCHANGED <<disk, bot, busy, reload, hup, cli, commands, astray>>

(* The daemon, and the bot with it, started again from config.json. *)
Restart ==
    /\ Command /\ bot' = disk /\ busy' = FALSE /\ reload' = NoReload /\ hup' = FALSE
    /\ daemon' = [w \in Writer |-> NoCopy] /\ astray' = {}
    /\ UNCHANGED <<disk, cli>>

Daemon == \/ HangUp \/ Restart
          \/ \E w \in Writer : WriterLoads(w) \/ WriterSaves(w) \/ WriterLeaves(w)

Next == Bot \/ CLI \/ Daemon

Spec == Init /\ [][Next]_vars

-----------------------------------------------------------------------------
TypeOK ==
    /\ disk \in Config /\ bot \in Config /\ reload \in [on: BOOLEAN, config: Config]
    /\ busy \in BOOLEAN /\ hup \in BOOLEAN /\ commands \in 0 .. MaxCommands
    /\ cli \in [on: BOOLEAN, copy: Config, saved: BOOLEAN]
    /\ daemon \in [Writer -> [on: BOOLEAN, copy: Config]]
    /\ astray \subseteq {"untold", "refused", "crossed", "unshared"}

(* A slot points at the server it was last put on, by the operator or by a refresh that had
   to choose, whatever a refresh, a source or a removal has made of the pool since; and it
   is unset only when its own profile was removed or it was never set. *)
SlotsKeepTheirServer ==
    \A c \in {disk, bot, cli.copy} \cup {daemon[w].copy : w \in Writer}, s \in Slot :
        At(c, s).server = c.want[s]

(* What the bot has in memory, or is about to adopt, is config.json.  It differs only after
   one of four things, and only until the bot saves again, a reload or a restart: a CLI
   command that told nobody, a refused save whose change stays in memory, a reload that
   arrived inside a command that saved, or a save of the daemon's own loops, which may also
   take out of the file what the bot saved since they loaded it. *)
MemoryIsConfig ==
    (~ busy /\ ~ hup /\ ~ cli.saved /\ astray = {}) => Known = disk

(* daemonctl.go: "Every command that changes config.json (setup, proxy0 set/off, subscription
   refresh/set-*, failover set) calls this". *)
BotIsTold ==
    (~ busy /\ ~ hup /\ ~ cli.saved /\ astray \subseteq {"untold"}) => Known = disk
=============================================================================
