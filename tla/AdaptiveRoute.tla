---------------------------- MODULE AdaptiveRoute ----------------------------
(***************************************************************************)
(* The redirect set of the adaptive route (cmd/keenetic-xray:              *)
(* adaptiveroute.go, adaptiveroute_visibility.go, l7sni_linux.go;          *)
(* internal/adaptiveroute; internal/botcontrol: adaptiveroute.go,          *)
(* adaptivelist.go).                                                       *)
(*                                                                         *)
(* The classify loop decides with Classifier's operators and then carries  *)
(* its decisions out on the router's ipset, one command at a time.  The    *)
(* set is keyed by address only and keeps its own timeouts; the state is   *)
(* keyed by protocol too, kept in memory, and saved every five minutes.    *)
(* The operator's list of exclusions is a file the CLI and the bot write   *)
(* and the loop polls; both also take excluded entries out of the ipset    *)
(* themselves.                                                             *)
(*                                                                         *)
(* The SNI watcher of the same daemon writes the set beside the loop: it   *)
(* adds an address when it sees a name of the routes' lists on it, unless  *)
(* its own copy of the exclusions, reread between packets, covers it.      *)
(***************************************************************************)
EXTENDS Classifier

CONSTANTS
    ActiveSets,     \* the destinations with traffic of each instance: a bound
    Evidence,       \* what a scan may show about one of them
    Excludable,     \* what the operator may exclude
    Unread,         \* the loop's list before its first look at the file
    Listed,         \* addresses that serve a name of the routes' lists
    SharedTTL,      \* the life of a sighting on an address other names use too
    MaxEvents,      \* commands, saves, failures and restarts: a bound
    MaxFaults       \* how many of these are failures and crashes: a bound

ASSUME EvidenceAssumption == NoFlow \in Evidence /\ Evidence \subseteq Signals
ASSUME ListAssumption == Excludable \subseteq Addr /\ \A l \in SUBSET Addr : l # Unread
ASSUME SightingAssumption == Listed \subseteq Addr /\ SharedTTL \in Nat \ {0}
ASSUME BoundsAssumption == MaxEvents \in Nat /\ MaxFaults \in Nat

Entry == Addr \cup Range
MaxTTL == CHOOSE m \in {TestTTL, OKTTL, BlockTTL, SharedTTL} :
              \A n \in {TestTTL, OKTTL, BlockTTL, SharedTTL} : n <= m

VARIABLES
    active,    \* the destinations with traffic: never changes
    st,        \* the classifier's state
    ipset,     \* ipset[e]: the time the kernel still keeps e, 0 when absent
    todo,      \* actions of the pass not carried out yet
    loop,      \* where adaptiveRouteClassifyLoop is
    seen,      \* the exclusions of its ExclusionsWatcher
    noted,     \* the entries the stats keep a note about
    list,      \* the file of exclusions
    snap,      \* the SNI watcher's copy of it
    saved,     \* the saved state; its entries expire as well
    marker,    \* a reset was asked for
    cli,       \* what the exclude or flush command has still to do
    events, faults,
    loose,     \* history: entries a failed command or a restart left behind
    sighted,   \* history: entries the SNI watcher was the last to add
    late,      \* history: of these, what the loop's list already covered
    flushed,   \* history: flushed and marked, not restarted since
    missed     \* history: a sweep of this list failed

memory == <<st, todo, loop, seen, noted>>
disk == <<saved, marker>>
sightings == <<sighted, late>>
sni == <<snap, sighted, late>>
vars == <<active, st, ipset, todo, loop, seen, noted, list, snap, saved, marker, cli,
          events, faults, loose, sighted, late, flushed, missed>>

Op == [kind: {"add"}, entry: Entry, ttl: 1 .. MaxTTL, stage: 1 .. 3]
      \cup [kind: {"del"}, entry: Entry, ttl: {0}, stage: 1 .. 3]

TypeOK == /\ active \in ActiveSets /\ st \in State
          /\ ipset \in [Entry -> 0 .. MaxTTL] /\ todo \subseteq Op
          /\ loop \in {"down", "idle", "purge", "sweep", "scan", "apply"}
          /\ seen \in (SUBSET Addr) \cup {Unread} /\ list \subseteq Addr
          /\ noted \subseteq Entry /\ loose \subseteq Entry
          /\ snap \subseteq Addr /\ sighted \subseteq Listed /\ late \subseteq sighted
          /\ saved \in State /\ marker \in BOOLEAN
          /\ cli \in {"idle", "sweep", "mark"}
          /\ events \in 0 .. MaxEvents /\ faults \in 0 .. MaxFaults
          /\ flushed \in BOOLEAN /\ missed \in BOOLEAN

Add(e, ttl, stage) == [kind |-> "add", entry |-> e, ttl |-> ttl, stage |-> stage]
Del(e, stage) == [kind |-> "del", entry |-> e, ttl |-> 0, stage |-> stage]

\* The state holds a reason to redirect e for at least as long as the kernel will.
Backed(s, ip, e) ==
    IF e \in Range THEN \E p \in Proto : s.blocks[p][e] >= ip[e]
    ELSE \E p \in Proto : s.test[p][e] >= ip[e] \/ s.ok[p][e] >= ip[e]

InSet(ip) == {e \in Entry : ip[e] > 0}

\* Entries that are not there by the loop's word.
NotOurs == loose \cup sighted

Excluded == seen \cup Vetoed

Init == /\ active \in ActiveSets
        /\ st = NewState /\ ipset = [e \in Entry |-> 0] /\ todo = {}
        /\ loop = "idle" /\ seen = Unread /\ noted = {} /\ list = {}
        /\ saved = NewState /\ marker = FALSE /\ cli = "idle" /\ snap = {}
        /\ events = 0 /\ faults = 0
        /\ loose = {} /\ sighted = {} /\ late = {} /\ flushed = FALSE /\ missed = FALSE

Event == events < MaxEvents /\ events' = events + 1
Fault == Event /\ faults < MaxFaults /\ faults' = faults + 1

TimePasses == /\ ipset' = [e \in Entry |-> Less(ipset[e])]
              /\ saved' = Elapse(saved)
              /\ loose' = {e \in loose : ipset'[e] > 0}
              /\ sighted' = {e \in sighted : ipset'[e] > 0}
              /\ late' = {e \in late : ipset'[e] > 0}

\* The sightings of entries that are removed or that the loop adds itself.
Forget(gone) == sighted' = sighted \ gone /\ late' = late \ gone

(***************************************************************************)
(* The classify loop.                                                      *)
(***************************************************************************)
\* A tick reads the list first.  When it changed, the loop takes back what it
\* covers before it scans.
BeginTick ==
    /\ loop = "idle"
    /\ TimePasses
    /\ seen' = list
    /\ LET now == Elapse(st)
           changed == list # seen /\ (list # {} \/ seen # Unread)
           covered == {e \in Entry : LiveIn(now, e) /\ Overlaps(e, list)}
       IN  /\ st' = IF changed THEN Purge(now, list) ELSE now
           /\ todo' = IF changed THEN {Del(e, 1) : e \in covered} ELSE {}
           /\ loop' = IF changed THEN "purge" ELSE "scan"
    /\ UNCHANGED <<active, noted, list, snap, marker, cli, events, faults, flushed, missed>>

\* The route is off or failed open: the tick does nothing.
SkipTick ==
    /\ loop = "idle"
    /\ TimePasses
    /\ st' = Elapse(st)
    /\ UNCHANGED <<active, todo, loop, seen, noted, list, snap, marker, cli, events, faults,
                   flushed, missed>>

\* One pass over one scan of the router's connections.  The actions follow in
\* the order of the detectors.  A lapsed entry loses its note, also when the
\* note was a sighting's; a sighting of another address keeps it.
Probations(s) == {Add(a, TestTTL, 1) : a \in {x \in Addr : \E p \in Proto : FreshProbation(s, p, x)}}

\* Mutant: an address that stopped working is not taken out.
VerdictsKeepStopped(s, ev) ==
    LET key == Proto \X Addr
    IN  {Add(k[2], OKTTL, 2) : k \in {x \in key :
            \/ Confirmed(s, ev[x[1]][x[2]], x[1], x[2])
            \/ Refreshed(s, ev[x[1]][x[2]], x[1], x[2])}}
        \cup {Del(k[2], 2) : k \in {x \in key : Dropped(s, ev[x[1]][x[2]], x[1], x[2])}}

Verdicts(s, ev) ==
    LET key == Proto \X Addr
        confirmed(k) == \/ Confirmed(s, ev[k[1]][k[2]], k[1], k[2])
                        \/ Refreshed(s, ev[k[1]][k[2]], k[1], k[2])
        failed(k) == \/ Dropped(s, ev[k[1]][k[2]], k[1], k[2])
                     \/ StoppedWorking(s, ev[k[1]][k[2]], k[1], k[2])
    IN  {Add(k[2], OKTTL, 2) : k \in {x \in key : confirmed(x)}}
        \cup {Del(k[2], 2) : k \in {x \in key : failed(x)}}

Blocks(s, excluded) == {Add(r, BlockTTL, 3) : r \in UNION {Widened(s, p, excluded) : p \in Proto}}

Scans == {[p \in Proto |-> [a \in Addr |-> IF <<p, a>> \in DOMAIN f THEN f[<<p, a>>] ELSE NoFlow]] :
             f \in [active -> Evidence]}

Scan(ev) ==
    /\ loop = "scan"
    /\ LET found == Detect(st, ev, Excluded)
           judged == Judge(found, ev)
       IN  /\ st' = Widen(judged, Excluded)
           /\ todo' = Probations(found) \cup Verdicts(found, ev) \cup Blocks(judged, Excluded)
    /\ \E kept \in SUBSET (noted \cap sighted) :
          noted' = kept \cup {e \in noted : LiveIn(st', e) \/ Del(e, 2) \in todo'}
    /\ loop' = "apply"
    /\ UNCHANGED <<active, ipset, seen, list, sni, disk, cli, events, faults, loose,
                   flushed, missed>>

NextOps == {o \in todo : \A other \in todo : o.stage <= other.stage}

\* Once the last action is done the loop goes on: from a purge to the sweep.
Proceed == loop' = IF todo' # {} THEN loop ELSE IF loop = "purge" THEN "sweep" ELSE "idle"

Carry(o) ==
    /\ loop \in {"purge", "apply"} /\ o \in NextOps
    /\ ipset' = [ipset EXCEPT ![o.entry] = o.ttl]
    /\ noted' = IF o.kind = "add" THEN noted \cup {o.entry} ELSE noted \ {o.entry}
    /\ todo' = todo \ {o}
    /\ Proceed
    /\ loose' = loose \ {o.entry} /\ Forget({o.entry})
    /\ UNCHANGED <<active, st, seen, list, snap, disk, cli, events, faults, flushed, missed>>

\* A command that fails: an added entry is not noted, a removed one is.
CarryFails(o) ==
    /\ loop \in {"purge", "apply"} /\ o \in NextOps
    /\ Fault
    /\ noted' = IF o.kind = "add" THEN noted ELSE noted \ {o.entry}
    /\ todo' = todo \ {o}
    /\ Proceed
    /\ loose' = IF o.kind = "del" /\ ipset[o.entry] > 0 THEN loose \cup {o.entry} ELSE loose
    /\ UNCHANGED <<active, st, ipset, seen, list, sni, disk, cli, flushed, missed>>

\* No action of the pass, or none of the purge.
NothingToCarry ==
    /\ loop \in {"purge", "apply"} /\ todo = {}
    /\ loop' = IF loop = "purge" THEN "sweep" ELSE "idle"
    /\ UNCHANGED <<active, st, ipset, todo, seen, noted, list, sni, disk, cli, events, faults,
                   loose, flushed, missed>>

\* Mutant: only the very entries of the list, no network around them.
SweptExactly(excluded) == InSet(ipset) \cap excluded

\* SweepExcluded on the members of the set, the state's or not.
Swept(excluded) == {e \in InSet(ipset) : Overlaps(e, excluded)}

SweepAway(gone) == /\ ipset' = [e \in Entry |-> IF e \in gone THEN 0 ELSE ipset[e]]
                   /\ loose' = loose \ gone /\ Forget(gone)

SweepTick ==
    /\ loop = "sweep"
    /\ SweepAway(Swept(seen))
    /\ noted' = noted \ Swept(seen)
    /\ loop' = "scan" /\ missed' = FALSE
    /\ UNCHANGED <<active, st, todo, seen, list, snap, disk, cli, events, faults, flushed>>

\* The members cannot be listed: the change counts as seen all the same.
SweepTickFails ==
    /\ loop = "sweep"
    /\ Fault
    /\ loop' = "scan" /\ missed' = TRUE
    /\ UNCHANGED <<active, st, ipset, todo, seen, noted, list, sni, disk, cli, loose, flushed>>

Save == /\ loop = "idle" /\ saved # Persisted(st) /\ Event
        /\ saved' = Persisted(st)
        /\ UNCHANGED <<active, st, ipset, todo, loop, seen, noted, list, sni, marker, cli,
                       faults, loose, flushed, missed>>

(***************************************************************************)
(* The SNI watcher.  Its own goroutine decides on its own copy of the list *)
(* and adds to the set at any moment of the loop's pass; an addition that  *)
(* fails changes nothing.                                                  *)
(***************************************************************************)
\* The copy is reread with the first packet after l7sniConfigRefreshInterval.
RereadSnapshot ==
    /\ loop # "down" /\ snap # list
    /\ snap' = list
    /\ UNCHANGED <<active, memory, ipset, list, sightings, disk, cli, events, faults, loose,
                   flushed, missed>>

\* l7SNIHandlePacket: a name of the lists on an address the copy does not cover.
HandlePacket(a) ==
    /\ loop # "down" /\ a \in Listed \ snap /\ Event
    /\ \E ttl \in {OKTTL, SharedTTL} : ipset' = [ipset EXCEPT ![a] = ttl]
    /\ noted' = noted \cup {a}
    /\ sighted' = sighted \cup {a}
    /\ late' = IF seen # Unread /\ a \in seen THEN late \cup {a} ELSE late
    /\ UNCHANGED <<active, st, todo, loop, seen, list, snap, disk, cli, faults, loose,
                   flushed, missed>>

(***************************************************************************)
(* The daemon's end and start.                                             *)
(***************************************************************************)
Stop == /\ loop = "idle" /\ Event
        /\ saved' = Persisted(st)
        /\ loop' = "down" /\ st' = NewState /\ noted' = {}
        /\ UNCHANGED <<active, ipset, todo, seen, list, sni, marker, cli, faults, loose,
                       flushed, missed>>

Crash == /\ loop # "down" /\ Fault
         /\ loop' = "down" /\ st' = NewState /\ noted' = {} /\ todo' = {}
         /\ UNCHANGED <<active, ipset, seen, list, sni, disk, cli, loose, flushed, missed>>

Restored == IF marker THEN NewState ELSE saved

\* The loop has not read the list yet: the first tick takes it as changed.  The
\* SNI watcher reads it before its first packet; if that fails its copy is empty.
Start == /\ loop = "down"
         /\ st' = Restored
         /\ saved' = IF marker THEN NewState ELSE saved
         /\ marker' = FALSE
         /\ noted' = {e \in Addr : LiveIn(Restored, e)}
         /\ loop' = "idle" /\ seen' = Unread /\ snap' \in {list, {}}
         /\ loose' = loose \cup {e \in InSet(ipset) : ~Backed(Restored, ipset, e)}
         /\ flushed' = FALSE
         /\ UNCHANGED <<active, ipset, todo, list, sightings, cli, events, faults, missed>>

DownTime == /\ loop = "down"
            /\ TimePasses
            /\ UNCHANGED <<active, memory, list, snap, marker, cli, events, faults, flushed, missed>>

\* The router restarts: the set is gone with its memory.
Reboot == /\ Fault
          /\ loop' = "down" /\ st' = NewState /\ noted' = {} /\ todo' = {}
          /\ ipset' = [e \in Entry |-> 0] /\ loose' = {} /\ Forget(Entry)
          /\ cli' = "idle"
          /\ UNCHANGED <<active, seen, list, snap, disk, flushed, missed>>

(***************************************************************************)
(* The operator: exclude and include, off and flush.                       *)
(***************************************************************************)
Exclude(a) == /\ cli = "idle" /\ a \notin list /\ Event
              /\ list' = list \cup {a}
              /\ cli' = "sweep"
              /\ UNCHANGED <<active, memory, ipset, sni, disk, faults, loose, flushed, missed>>

\* The bot's command runs in the daemon and forgets the notes, the CLI's does not.
SweepCommand == /\ cli = "sweep"
                /\ SweepAway(Swept(list))
                /\ noted' \in {noted, noted \ Swept(list)}
                /\ cli' = "idle"
                /\ UNCHANGED <<active, st, todo, loop, seen, list, snap, disk, events, faults,
                               flushed, missed>>

SweepCommandFails == /\ cli = "sweep" /\ Fault
                     /\ cli' = "idle"
                     /\ UNCHANGED <<active, memory, ipset, list, sni, disk, loose, flushed, missed>>

Include(a) == /\ cli = "idle" /\ a \in list /\ Event
              /\ list' = list \ {a}
              /\ UNCHANGED <<active, memory, ipset, sni, disk, cli, faults, loose, flushed, missed>>

\* off empties the set and no more; flush goes on to ask for a reset and restart.
FlushSet == /\ cli = "idle" /\ Event
            /\ SweepAway(Entry)
            /\ cli' \in {"idle", "mark"}
            /\ UNCHANGED <<active, memory, list, snap, disk, faults, flushed, missed>>

MarkReset == /\ cli = "mark"
             /\ marker' = TRUE /\ flushed' = TRUE
             /\ cli' = "idle"
             /\ UNCHANGED <<active, memory, ipset, list, sni, saved, events, faults, loose, missed>>

MarkFails == /\ cli = "mark" /\ Fault
             /\ cli' = "idle"
             /\ UNCHANGED <<active, memory, ipset, list, sni, disk, loose, flushed, missed>>

Loop == \/ BeginTick \/ SkipTick \/ (\E ev \in Scans : Scan(ev))
        \/ (\E o \in todo : Carry(o) \/ CarryFails(o)) \/ NothingToCarry
        \/ SweepTick \/ SweepTickFails \/ Save

Daemon == Stop \/ Crash \/ Start \/ DownTime \/ Reboot

Operator == \/ \E a \in Excludable : Exclude(a) \/ Include(a)
            \/ SweepCommand \/ SweepCommandFails \/ FlushSet \/ MarkReset \/ MarkFails

Watcher == RereadSnapshot \/ \E a \in Listed : HandlePacket(a)

Next == Loop \/ Watcher \/ Daemon \/ Operator

Spec == Init /\ [][Next]_vars

(***************************************************************************)
(* Properties.                                                             *)
(***************************************************************************)
\* A destination is in one tier at a time: on probation, confirmed or in
\* cooldown, and it is watched for a late stall only while it is in none of
\* them (promoteTest, judgeTest, judgeOK, watchOrConfirmLateStall).
OneTier ==
    \A p \in Proto, a \in Addr :
        /\ \A t, u \in {"test", "ok", "cooldown"} : st[t][p][a] > 0 /\ st[u][p][a] > 0 => t = u
        /\ st.watch[p][a] > 0 => CandidateOK(st, p, a)

\* A destination is confirmed only after a probation the router was told of in
\* an earlier pass: the flow that starts a probation cannot also confirm it
\* (skipFreshTestPromotion).
ConfirmedAfterProbation ==
    [][\A p \in Proto, a \in Addr :
          loop = "scan" /\ st.ok[p][a] = 0 /\ st'.ok[p][a] > 0 => st.test[p][a] > 0]_vars

\* However healthy its flows, a confirmed address is refreshed only so often:
\* counted from the confirmation its entry ends within OKLifetimeMultiple + 1
\* lives, unless the daemon restarts (judgeOK and maxOKLifetime).
TrustEnds ==
    \A p \in Proto, a \in Addr :
        st.ok[p][a] > 0 => st.since[p][a] + st.ok[p][a] < MaxOKLifetime + OKTTL

\* What the kernel redirects the classifier has a reason for, for as long as the
\* kernel will, or the removal is on its way, although the SNI watcher writes
\* the same entries.  An entry whose last writer is the watcher is there for the
\* name it saw; a failed removal and a restart leave entries over until the
\* kernel's own timeout.
RedirectHasReason ==
    loop # "down" =>
        \A e \in InSet(ipset) \ NotOurs :
            Backed(st, ipset, e) \/ \E o \in todo : o.entry = e /\ o.kind = "del"

\* Between two ticks no excluded address and no network around one is
\* redirected, once the loop has read the list and swept the set, although the
\* passes, the watcher and the commands write the same set
\* (applyExclusionChange).  The exception is an address the watcher puts back
\* after the sweep because its own copy is still the one before the exclusion,
\* until the entry's life ends.
ExcludedStaysOut ==
    loop = "idle" /\ seen = list /\ ~missed
        => \A e \in InSet(ipset) \ late : ~Overlaps(e, list)

\* "Эти адреса и сети адаптивная маршрутизация не перенаправляет никогда: ни по
\* классификатору, ни по l7sni": the same without the exception.
NeverRedirected ==
    loop = "idle" /\ seen = list /\ ~missed
        => \A e \in InSet(ipset) : ~Overlaps(e, list)

\* A restart after flush forgets what was redirected, also when the daemon saved
\* its state after the flush (the reset marker).
FlushForgets == [][flushed /\ ~flushed' => st' = NewState]_vars

\* The list on the screen says what each redirected entry is: an entry the
\* classifier stands for has its note, one that ended has none
\* (noteAdaptiveAction, recordLapsed).  A probation that lapses takes the note
\* of a sighting of its address with it.
NotesFollow ==
    loop = "idle" => \A e \in InSet(ipset) \ NotOurs : LiveIn(st, e) => e \in noted

\* "State.Test/State.OK are keyed by destination IP alone ... matching the
\* REDIRECT ipset's own IP-only membership": what the classifier has confirmed
\* is redirected.
ConfirmedIsRedirected ==
    loop = "idle" => \A p \in Proto, a \in Addr : st.ok[p][a] > 0 => ipset[a] > 0
=============================================================================
