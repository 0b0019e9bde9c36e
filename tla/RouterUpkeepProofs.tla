-------------------------- MODULE RouterUpkeepProofs --------------------------
(***************************************************************************)
(* The safety properties of RouterUpkeep, for any number of passes,        *)
(* objects, events and faults: its types, that a REDIRECT held out stays   *)
(* out, and that the key of a rebuilt WireGuard interface reaches xray.    *)
(***************************************************************************)
EXTENDS RouterUpkeep, TLAPS

PassRecord == [pc: {"idle", "rule", "rest", "save", "push"}, copy: Config, early: BOOLEAN]
OpRecord == [pc: {"idle", "router", "save", "apply"}, object: Object, want: BOOLEAN, copy: Config]

-----------------------------------------------------------------------------
(* Types.  An interface that is created gets a key of its own, so that the  *)
(* keys stay within the bound on events only because each is paid for: the *)
(* first by the command that switched WireGuard on, another by what took   *)
(* the interface away, or is about to.                                     *)

Pending(o) == IF o \in Operator /\ op[o].pc = "router" /\ op[o].object = "wg" /\ ~ op[o].want
              THEN 1 ELSE 0
Lost == IF ifkey = 0 THEN 1 ELSE 0
Spent == keys + Lost + Pending("cli") + Pending("bot")
WGKnown ==
    \/ "wg" \in disk.on \/ "wg" \in daemon.on \/ "wg" \in bot.on \/ "wg" \in reload.on
    \/ \E p \in Pass : "wg" \in pass[p].copy.on
    \/ \E o \in Operator : "wg" \in op[o].copy.on
                           \/ (op[o].pc = "router" /\ op[o].object = "wg" /\ op[o].want)
KeysPaid == Spent <= events + 1 /\ (WGKnown => Spent <= events)

Typed == TypeOK /\ KeysPaid

LEMMA InitTyped == Init => Typed
<1> SUFFICES ASSUME Init PROVE Typed
  OBVIOUS
<1> USE OperatorAssumption, ObjectAssumption, BoundsAssumption DEF Init
<1>1. [on |-> {"redirect"}, key |-> 0] \in Config /\ [on |-> {}, key |-> 0] \in Config
  BY DEF Config, Key
<1>2. IdlePass \in PassRecord /\ IdleOp \in OpRecord
  BY <1>1 DEF IdlePass, PassRecord, IdleOp, OpRecord
<1>3. TypeOK
  <2>1. /\ pass \in [Pass -> PassRecord] /\ op \in [Operator -> OpRecord]
        /\ disk \in Config /\ reload \in Config \cup {NoReload} /\ hup \in {"none", "sent", "applied"}
    BY <1>1, <1>2
  <2>2. health \in [pc: {"idle", "clear", "ensure"}, fails: 0 .. HealthFailThreshold, failedOpen: BOOLEAN]
    BY DEF IdleHealth
  <2>3. /\ live \subseteq Object /\ ifkey \in Key /\ keys \in Key
        /\ process \in {"down", "starting", "up"}
        /\ events \in 0 .. MaxEvents /\ faults \in 0 .. MaxFaults
        /\ daemon \in Config /\ bot \in Config
    BY <1>1 DEF Key
  <2>4. egress \in BOOLEAN /\ flag \in BOOLEAN /\ raced \in BOOLEAN /\ stale \in BOOLEAN
    OBVIOUS
  <2> QED BY <2>1, <2>2, <2>3, <2>4 DEF TypeOK, PassRecord, OpRecord
<1>4. Pending("cli") = 0 /\ Pending("bot") = 0
  BY DEF Pending, IdleOp
<1>5. ~ WGKnown
  BY DEF WGKnown, IdlePass, IdleOp, NoReload
<1> QED BY <1>3, <1>4, <1>5 DEF Typed, KeysPaid, Spent, Lost

\* What follows from the types of the keys an interface gets.
LEMMA KeyInRange ==
    ASSUME Typed, WGKnown
    PROVE  /\ InterfaceKey \in Key /\ InterfaceKey # 0
           /\ ifkey = 0 => keys + 1 \in Key
<1>1. Pending("cli") \in {0, 1} /\ Pending("bot") \in {0, 1}
  BY DEF Pending
<1> QED BY <1>1, BoundsAssumption DEF Typed, TypeOK, KeysPaid, Spent, Lost, InterfaceKey, Key

\* What is paid for stays so while every event pays for one key at most.
LEMMA StaysPaid ==
    ASSUME NEW before \in Nat, NEW after \in Nat, NEW spent \in Nat, NEW spends \in Nat,
           spent <= before + 1, before <= after,
           spends <= spent \/ (spends <= spent + 1 /\ after = before + 1)
    PROVE  spends <= after + 1 /\ (spent <= before => spends <= after)
OBVIOUS

LEMMA SpentNumbers ==
    ASSUME Typed, TypeOK'
    PROVE  /\ events \in Nat /\ Spent \in Nat /\ Spent <= events + 1
           /\ events' \in Nat /\ Spent' \in Nat
<1>1. events \in Nat /\ Spent \in Nat /\ Spent <= events + 1
  BY BoundsAssumption DEF Typed, TypeOK, KeysPaid, Spent, Lost, Pending, Key
<1>2. events' \in Nat /\ Spent' \in Nat
  <2>1. events' \in Nat /\ keys' \in Nat
    BY BoundsAssumption DEF TypeOK, Key
  <2>2. Pending("cli")' \in {0, 1} /\ Pending("bot")' \in {0, 1}
    BY DEF Pending
  <2> QED BY <2>1, <2>2 DEF Spent, Lost
<1> QED BY <1>1, <1>2

LEMMA Accounts ==
    ASSUME Typed, TypeOK', events' = events \/ events' = events + 1,
           Spent' <= Spent \/ (Spent' <= Spent + 1 /\ events' = events + 1),
           WGKnown' => WGKnown \/ Spent' <= events'
    PROVE  KeysPaid'
<1>1. /\ events \in Nat /\ Spent \in Nat /\ Spent <= events + 1
      /\ events' \in Nat /\ Spent' \in Nat
  BY SpentNumbers
<1>3. Spent' <= events' + 1 /\ (Spent <= events => Spent' <= events')
  <2>1. events <= events'
    BY <1>1
  <2> QED BY <2>1, <1>1, StaysPaid
<1>4. ASSUME WGKnown' PROVE Spent' <= events'
  <2>1. CASE WGKnown
    BY <2>1, <1>3 DEF Typed, KeysPaid
  <2> QED BY <2>1, <1>4
<1> QED BY <1>3, <1>4 DEF KeysPaid

\* A step that takes no key and changes no command.
LEMMA QuietStep ==
    ASSUME Typed, TypeOK', UNCHANGED <<keys, ifkey, op>>, events' = events \/ events' = events + 1,
           WGKnown' => WGKnown
    PROVE  KeysPaid'
<1>1. Pending("cli")' = Pending("cli") /\ Pending("bot")' = Pending("bot")
  BY DEF Pending
<1>2. Spent' = Spent /\ Spent \in Nat
  BY <1>1, BoundsAssumption DEF Spent, Lost, Typed, TypeOK, Key, Pending
<1> QED BY <1>2, Accounts

-----------------------------------------------------------------------------
(* The passes. *)

LEMMA BeginPassTyped == ASSUME Typed, NEW p \in Pass, BeginPass(p) PROVE Typed'
<1>1. disk \in Config /\ health.failedOpen \in BOOLEAN /\ pass \in [Pass -> PassRecord]
  BY DEF Typed, TypeOK, PassRecord
<1>2. pass' \in [Pass -> PassRecord]
  BY <1>1 DEF BeginPass, PassRecord
<1>3. TypeOK'
  BY <1>2 DEF Typed, TypeOK, BeginPass, copies, router, guard, PassRecord
<1>4. WGKnown' => WGKnown
  BY <1>1 DEF WGKnown, BeginPass, copies
<1> QED BY <1>3, <1>4, QuietStep DEF Typed, BeginPass, router

LEMMA PassRuleTyped == ASSUME Typed, NEW p \in Pass, PassRule(p) PROVE Typed'
<1>1. pass \in [Pass -> PassRecord] /\ raced \in BOOLEAN /\ live \subseteq Object
  BY DEF Typed, TypeOK, PassRecord
<1>2. pass' \in [Pass -> PassRecord] /\ \A q \in Pass : pass'[q].copy = pass[q].copy
  BY <1>1 DEF PassRule, Step, PassRecord
<1>3. raced' \in BOOLEAN
  BY <1>1 DEF PassRule
<1>4. live' \subseteq Object /\ faults' \in 0 .. MaxFaults
  BY <1>1, ObjectAssumption, BoundsAssumption DEF PassRule, Fault, Typed, TypeOK
<1>5. TypeOK'
  BY <1>2, <1>3, <1>4 DEF Typed, TypeOK, PassRule, copies, PassRecord
<1>6. WGKnown' => WGKnown
  BY <1>2 DEF WGKnown, PassRule, copies
<1> QED BY <1>5, <1>6, QuietStep DEF Typed, PassRule
LEMMA ReassertTyped ==
    ASSUME Typed, NEW p \in Pass, pass[p].pc = "rest", Reassert(p),
           UNCHANGED <<copies, egress, process, guard, op, events>>
    PROVE  Typed'
<1>1. pass \in [Pass -> PassRecord] /\ live \subseteq Object /\ pass[p].copy.on \subseteq Object
  BY DEF Typed, TypeOK, PassRecord, Config
<1>2. pass' \in [Pass -> PassRecord] /\ \A q \in Pass : pass'[q].copy = pass[q].copy
  BY <1>1 DEF Reassert, Step, PassRecord
<1>3. live' \subseteq Object /\ faults' \in 0 .. MaxFaults
  BY <1>1, BoundsAssumption DEF Reassert, Plain, Fault, Typed, TypeOK
<1>4. TypeOK'
  BY <1>2, <1>3 DEF Typed, TypeOK, Reassert, copies, guard, PassRecord
<1>5. WGKnown' => WGKnown
  BY <1>2 DEF WGKnown, copies
<1> QED BY <1>4, <1>5, QuietStep DEF Typed, Reassert

\* What building the interface does to the router, whoever does it and however it ends.
LEMMA ApplyWGTyped ==
    ASSUME Typed, WGKnown, NEW others \in SUBSET Object, ApplyWG(others) \/ ApplyWGFails(others)
    PROVE  /\ live' \subseteq Object /\ ifkey' \in Key /\ keys' \in Key
           /\ \/ ifkey' = InterfaceKey /\ keys' = (IF ifkey = 0 THEN keys + 1 ELSE keys)
              \/ UNCHANGED <<ifkey, keys>>
<1>1. live \subseteq Object /\ ifkey \in Key /\ keys \in Key /\ "wg" \in Object
  BY ObjectAssumption DEF Typed, TypeOK
<1>2. live' \subseteq Object
  BY <1>1 DEF ApplyWG, ApplyWGFails
<1>3. \/ ifkey' = InterfaceKey /\ keys' = (IF ifkey = 0 THEN keys + 1 ELSE keys)
      \/ UNCHANGED <<ifkey, keys>>
  BY DEF ApplyWG, ApplyWGFails
<1> QED BY <1>1, <1>2, <1>3, KeyInRange

LEMMA RouterPaid ==
    ASSUME Typed, \/ ifkey' = InterfaceKey /\ keys' = (IF ifkey = 0 THEN keys + 1 ELSE keys)
                  \/ UNCHANGED <<ifkey, keys>>
    PROVE  /\ keys \in Nat /\ Lost \in Nat /\ keys' \in Nat /\ Lost' \in Nat
           /\ keys' + Lost' = keys + Lost
BY BoundsAssumption DEF Typed, TypeOK, Key, InterfaceKey, Lost

LEMMA BuiltPaid ==
    ASSUME Typed, UNCHANGED op,
           \/ ifkey' = InterfaceKey /\ keys' = (IF ifkey = 0 THEN keys + 1 ELSE keys)
           \/ UNCHANGED <<ifkey, keys>>
    PROVE  Spent' = Spent /\ Spent \in Nat
<1>1. Pending("cli")' = Pending("cli") /\ Pending("bot")' = Pending("bot")
  BY DEF Pending
<1>2. Pending("cli") \in Nat /\ Pending("bot") \in Nat
  BY DEF Pending
<1>3. keys + Lost \in Nat /\ keys' + Lost' = keys + Lost
  BY RouterPaid
<1>4. Spent = (keys + Lost) + Pending("cli") + Pending("bot")
  BY DEF Spent
<1>5. Spent' = (keys' + Lost') + Pending("cli") + Pending("bot")
  BY <1>1 DEF Spent
<1> QED BY <1>2, <1>3, <1>4, <1>5

LEMMA RekeyTyped ==
    ASSUME Typed, NEW p \in Pass, pass[p].pc = "rest", Rekey(p),
           UNCHANGED <<copies, egress, process, guard, op, events>>
    PROVE  Typed'
<1>1. pass \in [Pass -> PassRecord] /\ pass[p].copy \in Config /\ Plain(p) \in SUBSET Object
  BY DEF Typed, TypeOK, PassRecord, Config, Plain
<1>2. WGKnown
  BY DEF Rekey, WGKnown
<1>3. ApplyWG(Plain(p)) \/ ApplyWGFails(Plain(p))
  BY DEF Rekey
<1>4. /\ live' \subseteq Object /\ ifkey' \in Key /\ keys' \in Key
      /\ \/ ifkey' = InterfaceKey /\ keys' = (IF ifkey = 0 THEN keys + 1 ELSE keys)
         \/ UNCHANGED <<ifkey, keys>>
  BY <1>1, <1>2, <1>3, ApplyWGTyped
<1>5. InterfaceKey \in Key
  BY <1>2, KeyInRange
<1>6. pass' \in [Pass -> PassRecord]
  <2>1. CASE pass' = [pass EXCEPT ![p].copy.key = InterfaceKey,
                          ![p].pc = IF pass[p].copy.key = InterfaceKey THEN "idle" ELSE "save"]
    <3>1. [pass[p].copy EXCEPT !.key = InterfaceKey] \in Config
      BY <1>1, <1>5 DEF Config
    <3> QED BY <1>1, <2>1, <3>1 DEF PassRecord
  <2>2. CASE Step(p, "idle")
    BY <1>1, <2>2 DEF Step, PassRecord
  <2> QED BY <2>1, <2>2 DEF Rekey
<1>7. faults' \in 0 .. MaxFaults
  BY BoundsAssumption DEF Rekey, Fault, Typed, TypeOK
<1>10. stale' \in BOOLEAN
  BY DEF Rekey, ApplyWGFails, Typed, TypeOK
<1>8. TypeOK'
  BY <1>4, <1>6, <1>7, <1>10 DEF Typed, TypeOK, copies, guard, PassRecord
<1>9. Spent' = Spent /\ Spent \in Nat
  BY <1>4, BuiltPaid
<1> QED BY <1>2, <1>8, <1>9, Accounts DEF Typed

LEMMA PassRestTyped == ASSUME Typed, NEW p \in Pass, PassRest(p) PROVE Typed'
BY ReassertTyped, RekeyTyped DEF PassRest

LEMMA PassSaveTyped == ASSUME Typed, NEW p \in Pass, PassSave(p) PROVE Typed'
<1>1. pass \in [Pass -> PassRecord] /\ pass[p].copy \in Config /\ disk \in Config
  BY DEF Typed, TypeOK, PassRecord
<1>2. pass' \in [Pass -> PassRecord] /\ \A q \in Pass : pass'[q].copy = pass[q].copy
  BY <1>1 DEF PassSave, Step, PassRecord
<1>3. disk' \in Config /\ (disk' = disk \/ disk' = pass[p].copy)
  BY <1>1 DEF PassSave
<1>4. faults' \in 0 .. MaxFaults
  BY BoundsAssumption DEF PassSave, Fault, Typed, TypeOK
<1>5. TypeOK'
  BY <1>2, <1>3, <1>4 DEF Typed, TypeOK, PassSave, router, guard, PassRecord
<1>6. WGKnown' => WGKnown
  BY <1>2, <1>3 DEF WGKnown, PassSave
<1> QED BY <1>5, <1>6, QuietStep DEF Typed, PassSave, router

LEMMA PassPushTyped == ASSUME Typed, NEW p \in Pass, PassPush(p) PROVE Typed'
<1>1. pass \in [Pass -> PassRecord] /\ pass[p].copy \in Config /\ daemon \in Config
  BY DEF Typed, TypeOK, PassRecord
<1>2. pass' \in [Pass -> PassRecord] /\ \A q \in Pass : pass'[q].copy = pass[q].copy
  BY <1>1 DEF PassPush, Step, PassRecord
<1>3. daemon' \in Config /\ (daemon' = daemon \/ daemon' = pass[p].copy)
  BY <1>1 DEF PassPush, Pushed
<1>4. faults' \in 0 .. MaxFaults
  BY BoundsAssumption DEF PassPush, Fault, Typed, TypeOK
<1>5. stale' \in BOOLEAN
  BY DEF PassPush, Typed, TypeOK
<1>6. TypeOK'
  BY <1>2, <1>3, <1>4, <1>5 DEF Typed, TypeOK, PassPush, router, guard, PassRecord
<1>7. WGKnown' => WGKnown
  BY <1>2, <1>3 DEF WGKnown, PassPush
<1> QED BY <1>6, <1>7, QuietStep DEF Typed, PassPush, router

-----------------------------------------------------------------------------
(* The health check, the firmware and the process. *)

LEMMA ProbeTyped == ASSUME Typed, Probe PROVE Typed'
<1>1. /\ health \in [pc: {"idle", "clear", "ensure"}, fails: 0 .. HealthFailThreshold,
                     failedOpen: BOOLEAN]
      /\ (IF health.fails < HealthFailThreshold THEN health.fails + 1 ELSE health.fails)
            \in 0 .. HealthFailThreshold
      /\ 0 \in 0 .. HealthFailThreshold
  BY BoundsAssumption DEF Typed, TypeOK
<1>2. health' \in [pc: {"idle", "clear", "ensure"}, fails: 0 .. HealthFailThreshold,
                   failedOpen: BOOLEAN]
  <2> DEFINE n == IF health.fails < HealthFailThreshold THEN health.fails + 1 ELSE health.fails
  <2>1. n \in 0 .. HealthFailThreshold
    BY <1>1
  <2> HIDE DEF n
  <2>2. CASE health' = [pc |-> "clear", fails |-> n, failedOpen |-> TRUE]
    BY <2>1, <2>2
  <2>3. CASE health' = [health EXCEPT !.fails = n]
    BY <1>1, <2>1, <2>3
  <2>4. CASE health' = [pc |-> "ensure", fails |-> 0, failedOpen |-> FALSE]
    BY <1>1, <2>4
  <2>5. CASE health' = [health EXCEPT !.fails = 0]
    BY <1>1, <2>5
  <2> QED BY <2>2, <2>3, <2>4, <2>5 DEF Probe, n
<1>3. flag' \in BOOLEAN /\ raced' \in BOOLEAN
  BY DEF Probe, FlagAfterRecovery, Typed, TypeOK
<1>4. TypeOK'
  BY <1>2, <1>3 DEF Typed, TypeOK, Probe, copies, router
<1>5. WGKnown' => WGKnown
  BY DEF WGKnown, Probe, copies
<1> QED BY <1>4, <1>5, QuietStep DEF Typed, Probe, router

LEMMA HealthClearTyped == ASSUME Typed, HealthClear PROVE Typed'
<1>1. health' \in [pc: {"idle", "clear", "ensure"}, fails: 0 .. HealthFailThreshold,
                   failedOpen: BOOLEAN]
  BY DEF HealthClear, Typed, TypeOK
<1>2. live' \subseteq Object /\ faults' \in 0 .. MaxFaults
  BY BoundsAssumption DEF HealthClear, Fault, Typed, TypeOK
<1>3. raced' \in BOOLEAN
  BY DEF HealthClear, Typed, TypeOK
<1>4. TypeOK'
  BY <1>1, <1>2, <1>3 DEF Typed, TypeOK, HealthClear, copies
<1>5. WGKnown' => WGKnown
  BY DEF WGKnown, HealthClear, copies
<1> QED BY <1>4, <1>5, QuietStep DEF Typed, HealthClear

LEMMA HealthEnsureTyped == ASSUME Typed, HealthEnsure PROVE Typed'
<1>1. health' \in [pc: {"idle", "clear", "ensure"}, fails: 0 .. HealthFailThreshold,
                   failedOpen: BOOLEAN]
  BY DEF HealthEnsure, Typed, TypeOK
<1>2. live' \subseteq Object /\ faults' \in 0 .. MaxFaults
  BY ObjectAssumption, BoundsAssumption DEF HealthEnsure, Fault, Typed, TypeOK
<1>3. TypeOK'
  BY <1>1, <1>2 DEF Typed, TypeOK, HealthEnsure, copies
<1>4. WGKnown' => WGKnown
  BY DEF WGKnown, HealthEnsure, copies
<1> QED BY <1>3, <1>4, QuietStep DEF Typed, HealthEnsure

LEMMA FirmwareDropsTyped ==
    ASSUME Typed, NEW dropped \in SUBSET Object, FirmwareDrops(dropped) PROVE Typed'
<1>1. live' \subseteq Object /\ ifkey' \in Key /\ events' \in 0 .. MaxEvents /\ events' = events + 1
  BY BoundsAssumption DEF FirmwareDrops, Event, Typed, TypeOK, Key
<1>2. TypeOK'
  BY <1>1 DEF Typed, TypeOK, FirmwareDrops, copies, guard
<1>3. WGKnown' => WGKnown
  BY DEF WGKnown, FirmwareDrops, copies
<1>4. Spent' <= Spent + 1
  <2>1. Pending("cli")' = Pending("cli") /\ Pending("bot")' = Pending("bot")
    BY DEF Pending, FirmwareDrops
  <2>2. /\ Pending("cli") \in {0, 1} /\ Pending("bot") \in {0, 1} /\ keys \in Nat
        /\ Lost \in {0, 1} /\ Lost' \in {0, 1} /\ keys' = keys
    BY DEF Pending, Lost, FirmwareDrops, Typed, TypeOK, Key
  <2> QED BY <2>1, <2>2 DEF Spent
<1> QED BY <1>1, <1>2, <1>3, <1>4, Accounts DEF Typed

LEMMA EgressChangesTyped == ASSUME Typed, EgressChanges PROVE Typed'
<1>1. events' \in 0 .. MaxEvents /\ events' = events + 1
  BY BoundsAssumption DEF EgressChanges, Event, Typed, TypeOK
<1>2. egress' \in BOOLEAN
  BY DEF EgressChanges
<1>3. TypeOK'
  BY <1>1, <1>2 DEF Typed, TypeOK, EgressChanges, copies, router, guard
<1>4. WGKnown' => WGKnown
  BY DEF WGKnown, EgressChanges, copies
<1> QED BY <1>1, <1>3, <1>4, QuietStep DEF Typed, EgressChanges, router

LEMMA StartLoadTyped == ASSUME Typed, StartLoad PROVE Typed'
<1>1. TypeOK'
  BY DEF Typed, TypeOK, StartLoad, router, guard
<1>2. WGKnown' => WGKnown
  BY DEF WGKnown, StartLoad
<1> QED BY <1>1, <1>2, QuietStep DEF Typed, StartLoad, router

LEMMA HangUpTyped == ASSUME Typed, HangUp PROVE Typed'
<1>1. stale' \in BOOLEAN
  BY DEF HangUp, Typed, TypeOK
<1>2. faults' \in 0 .. MaxFaults
  BY BoundsAssumption DEF HangUp, Fault, Typed, TypeOK
<1>3. /\ daemon' \in Config /\ reload' \in Config \cup {NoReload} /\ hup' \in {"none", "applied"}
      /\ daemon' \in {daemon, disk} /\ reload' \in {reload, disk}
  BY DEF HangUp, Typed, TypeOK
<1>4. TypeOK'
  BY <1>1, <1>2, <1>3 DEF Typed, TypeOK, HangUp, router, guard
<1>5. WGKnown' => WGKnown
  BY <1>3 DEF WGKnown, HangUp
<1> QED BY <1>4, <1>5, QuietStep DEF Typed, HangUp, router

LEMMA RestartTyped == ASSUME Typed, Restart PROVE Typed'
<1>1. IdlePass \in PassRecord /\ IdleOp \in OpRecord
  BY BoundsAssumption, ObjectAssumption
     DEF IdlePass, PassRecord, IdleOp, OpRecord, Config, Key
<1>2. op \in [Operator -> OpRecord] /\ daemon \in Config
  BY DEF Typed, TypeOK, OpRecord
<1>3. pass' \in [Pass -> PassRecord] /\ op' \in [Operator -> OpRecord]
  BY <1>1, <1>2 DEF Restart
<1>4. events' \in 0 .. MaxEvents /\ events' = events + 1
  BY BoundsAssumption DEF Restart, Event, Typed, TypeOK
<1>5. health' \in [pc: {"idle", "clear", "ensure"}, fails: 0 .. HealthFailThreshold,
                   failedOpen: BOOLEAN]
  BY BoundsAssumption DEF Restart, IdleHealth
<1>6. TypeOK'
  BY <1>3, <1>4, <1>5 DEF Typed, TypeOK, Restart, router, PassRecord, OpRecord
<1>7. WGKnown' => WGKnown
  BY <1>2 DEF WGKnown, Restart, IdlePass, IdleOp, NoReload
<1>8. Spent' <= Spent
  <2>1. Pending("cli")' = Pending("cli") /\ Pending("bot")' = 0
    BY DEF Pending, Restart, IdleOp
  <2>2. /\ Pending("cli") \in {0, 1} /\ Pending("bot") \in {0, 1} /\ keys \in Nat
        /\ Lost \in {0, 1} /\ Lost' = Lost /\ keys' = keys
    BY DEF Pending, Lost, Restart, router, Typed, TypeOK, Key
  <2> QED BY <2>1, <2>2 DEF Spent
<1> QED BY <1>4, <1>6, <1>7, <1>8, Accounts DEF Typed

LEMMA StartApplyTyped == ASSUME Typed, StartApply PROVE Typed'
<1> DEFINE rest == daemon.on \ {"wg"}
<1>1. daemon \in Config /\ daemon.on \subseteq Object /\ rest \in SUBSET Object
  BY DEF Typed, TypeOK, Config
<1>2. ASSUME ApplyWG(rest) \/ ApplyWGFails(rest), "wg" \in daemon.on
      PROVE  /\ live' \subseteq Object /\ ifkey' \in Key /\ keys' \in Key
             /\ \/ ifkey' = InterfaceKey /\ keys' = (IF ifkey = 0 THEN keys + 1 ELSE keys)
                \/ UNCHANGED <<ifkey, keys>>
  BY <1>1, <1>2, ApplyWGTyped DEF WGKnown
<1>3. "wg" \in daemon.on => InterfaceKey \in Key
  BY KeyInRange DEF WGKnown
<1>4. /\ live' \subseteq Object /\ ifkey' \in Key /\ keys' \in Key
      /\ \/ ifkey' = InterfaceKey /\ keys' = (IF ifkey = 0 THEN keys + 1 ELSE keys)
         \/ UNCHANGED <<ifkey, keys>>
  <2>1. CASE UNCHANGED <<ifkey, keys>> /\ live' \in {live \cup s : s \in SUBSET rest}
    BY <1>1, <2>1 DEF Typed, TypeOK
  <2> QED BY <1>2, <2>1 DEF StartApply
<1>5. /\ daemon' \in Config /\ daemon'.on = daemon.on
      /\ disk' \in {disk, daemon'} /\ disk' \in Config /\ bot' = disk'
  BY <1>1, <1>3 DEF StartApply, Typed, TypeOK, Config
<1>6. faults' \in 0 .. MaxFaults
  BY BoundsAssumption DEF StartApply, Fault, Typed, TypeOK
<1>7. stale' \in BOOLEAN
  BY DEF StartApply, ApplyWGFails
<1>8. TypeOK'
  BY <1>4, <1>5, <1>6, <1>7 DEF Typed, TypeOK, StartApply, guard
<1>9. WGKnown' => WGKnown
  BY <1>5 DEF WGKnown, StartApply
<1>10. Spent' = Spent /\ Spent \in Nat
  <2>1. UNCHANGED op
    BY DEF StartApply
  <2> QED BY <1>4, <2>1, BuiltPaid
<1>11. events' = events
  BY DEF StartApply
<1> QED BY <1>8, <1>9, <1>10, <1>11, Accounts DEF Typed

-----------------------------------------------------------------------------
(* The commands. *)

\* One command at a time changes what is pending.
LEMMA OneCommand ==
    ASSUME Typed, NEW o \in Operator, \A q \in Operator \ {o} : op'[q] = op[q],
           NEW n \in {0, 1}, keys' \in Nat,
           keys' + Lost' + Pending(o)' <= keys + Lost + Pending(o) + n
    PROVE  Spent' <= Spent + n
<1>1. \A q \in {"cli", "bot"} \ {o} : Pending(q)' = Pending(q)
  BY DEF Pending
<1>2. o = "cli" \/ o = "bot"
  BY OperatorAssumption
<1>3. /\ keys \in Nat /\ Lost \in {0, 1} /\ Lost' \in {0, 1}
      /\ Pending("cli") \in {0, 1} /\ Pending("bot") \in {0, 1}
  BY DEF Typed, TypeOK, Key, Lost, Pending
<1>4. Pending("cli")' \in {0, 1} /\ Pending("bot")' \in {0, 1}
  BY DEF Pending
<1>5. CASE o = "cli"
  <2>1. Pending("bot")' = Pending("bot")
    BY <1>1, <1>5
  <2> QED BY <1>3, <1>4, <1>5, <2>1 DEF Spent
<1>6. CASE o = "bot"
  <2>1. Pending("cli")' = Pending("cli")
    BY <1>1, <1>6
  <2> QED BY <1>3, <1>4, <1>6, <2>1 DEF Spent
<1> QED BY <1>2, <1>5, <1>6

\* The command's copy once the router side is done.
LEMMA DoneRecord ==
    ASSUME Typed, NEW o \in Operator
    PROVE  /\ Done(o) \in [Operator -> OpRecord]
           /\ \A q \in Operator \ {o} : Done(o)[q] = op[q]
           /\ Done(o)[o].pc = "save" /\ Done(o)[o].object = op[o].object
           /\ Done(o)[o].copy.key = op[o].copy.key
           /\ "wg" \in Done(o)[o].copy.on
                 => "wg" \in op[o].copy.on \/ (op[o].want /\ op[o].object = "wg")
<1> DEFINE on == op[o].copy.on
           then == IF op[o].want THEN on \cup {op[o].object} ELSE on \ {op[o].object}
<1>1. op \in [Operator -> OpRecord] /\ op[o].copy \in Config /\ op[o].object \in Object
  BY DEF Typed, TypeOK, OpRecord
<1>2. [op[o].copy EXCEPT !.on = then] \in Config
  BY <1>1 DEF Config
<1>3. Done(o) = [op EXCEPT ![o] = [@ EXCEPT !.pc = "save", !.copy = [op[o].copy EXCEPT !.on = then]]]
  BY <1>1 DEF Done, OpRecord
<1>4. [op[o] EXCEPT !.pc = "save", !.copy = [op[o].copy EXCEPT !.on = then]] \in OpRecord
  BY <1>1, <1>2 DEF OpRecord
<1>5. Done(o) \in [Operator -> OpRecord] /\ \A q \in Operator \ {o} : Done(o)[q] = op[q]
  BY <1>1, <1>3, <1>4
<1>6. Done(o)[o] = [op[o] EXCEPT !.pc = "save", !.copy = [op[o].copy EXCEPT !.on = then]]
  BY <1>1, <1>3
<1> QED BY <1>1, <1>5, <1>6 DEF OpRecord, Config

\* What every command leaves alone on the router.
LEMMA TurnsTyped ==
    ASSUME Typed, NEW o \in Operator, op' \in [Operator -> OpRecord],
           live' \subseteq Object, ifkey' \in Key, keys' \in Key, faults' \in 0 .. MaxFaults,
           raced' \in BOOLEAN, stale' \in BOOLEAN,
           UNCHANGED <<copies, egress, process, pass, health, flag, events>>
    PROVE  TypeOK'
BY DEF Typed, TypeOK, OpRecord, copies

\* One command only copies what it had: nobody learns of WireGuard by it.
LEMMA KnownByCommand ==
    ASSUME NEW o \in Operator, \A q \in Operator \ {o} : op'[q] = op[q],
           "wg" \in op'[o].copy.on => WGKnown, op'[o].pc # "router",
           UNCHANGED <<copies, pass>>
    PROVE  WGKnown' => WGKnown
BY DEF WGKnown, copies

LEMMA CommandTypes ==
    ASSUME Typed, NEW o \in Operator
    PROVE  /\ op \in [Operator -> OpRecord] /\ op[o] \in OpRecord
           /\ live \subseteq Object /\ ifkey \in Key /\ keys \in Key /\ 0 \in Key
           /\ keys \in Nat /\ Lost \in {0, 1} /\ "wg" \in Object /\ "redirect" \in Object
           /\ raced \in BOOLEAN /\ stale \in BOOLEAN /\ faults \in 0 .. MaxFaults
BY BoundsAssumption, ObjectAssumption DEF Typed, TypeOK, OpRecord, Key, Lost

LEMMA TurnOnWGTyped ==
    ASSUME Typed, NEW o \in Operator, op[o].pc = "router", TurnOnWG(o),
           UNCHANGED <<copies, egress, process, pass, health, flag, events>>
    PROVE  Typed'
<1>1. WGKnown /\ op[o].want /\ op[o].object = "wg"
  BY DEF TurnOnWG, WGKnown
<1>2. /\ live' \subseteq Object /\ ifkey' \in Key /\ keys' \in Key
      /\ \/ ifkey' = InterfaceKey /\ keys' = (IF ifkey = 0 THEN keys + 1 ELSE keys)
         \/ UNCHANGED <<ifkey, keys>>
  BY <1>1, ApplyWGTyped DEF TurnOnWG
<1>3. InterfaceKey \in Key
  BY <1>1, KeyInRange
<1>4. /\ op' \in [Operator -> OpRecord] /\ \A q \in Operator \ {o} : op'[q] = op[q]
      /\ op'[o].pc = "save"
  <2>1. Done(o)[o].copy \in Config /\ [Done(o)[o].copy EXCEPT !.key = InterfaceKey] \in Config
    BY <1>3, DoneRecord DEF OpRecord, Config
  <2>2. [Done(o)[o] EXCEPT !.copy = [Done(o)[o].copy EXCEPT !.key = InterfaceKey]] \in OpRecord
    <3>1. Done(o)[o] \in OpRecord
      BY DoneRecord
    <3> QED BY <2>1, <3>1 DEF OpRecord
  <2>3. op' = [Done(o) EXCEPT ![o] = [Done(o)[o] EXCEPT !.copy = [Done(o)[o].copy EXCEPT !.key = InterfaceKey]]]
    BY DoneRecord DEF TurnOnWG, OpRecord
  <2> QED BY <2>2, <2>3, DoneRecord DEF OpRecord
<1>5. TypeOK'
  BY <1>2, <1>4, CommandTypes, TurnsTyped DEF TurnOnWG
<1>6. Pending(o)' = 0 /\ Pending(o) = 0
  BY <1>1, <1>4 DEF Pending
<1>7. keys' + Lost' = keys + Lost /\ keys' \in Nat /\ Lost' \in Nat
  BY <1>2, RouterPaid
<1>8. Spent' <= Spent + 0
  BY <1>4, <1>6, <1>7, CommandTypes, OneCommand
<1>9. Spent' <= Spent
  BY <1>8 DEF Spent, Lost, Pending, Typed, TypeOK, Key
<1> QED BY <1>1, <1>5, <1>9, Accounts DEF Typed

LEMMA TurnOnOtherTyped ==
    ASSUME Typed, NEW o \in Operator, op[o].pc = "router", TurnOnRedirect(o) \/ TurnOnPlain(o),
           UNCHANGED <<copies, egress, process, pass, health, flag, events>>
    PROVE  Typed'
<1>1. op' = Done(o) /\ op[o].object # "wg" /\ op[o].want
  BY DEF TurnOnRedirect, TurnOnPlain
<1>2. live' \subseteq Object /\ UNCHANGED <<ifkey, keys, faults, stale>>
  BY CommandTypes DEF TurnOnRedirect, TurnOnPlain, OpRecord
<1>3. raced' \in BOOLEAN
  BY CommandTypes DEF TurnOnRedirect, TurnOnPlain
<1>4. TypeOK'
  BY <1>1, <1>2, <1>3, CommandTypes, DoneRecord, TurnsTyped
<1>5. WGKnown' => WGKnown
  <2>1. "wg" \in op'[o].copy.on => WGKnown
    BY <1>1, DoneRecord DEF WGKnown
  <2> QED BY <1>1, <2>1, DoneRecord, KnownByCommand
<1>6. Pending(o)' = 0 /\ Pending(o) = 0
  BY <1>1, DoneRecord DEF Pending
<1>7. Spent' <= Spent + 0
  <2>1. Lost' = Lost /\ keys' = keys
    BY <1>2 DEF Lost
  <2> QED BY <1>1, <1>6, <2>1, CommandTypes, DoneRecord, OneCommand
<1>8. Spent' <= Spent
  BY <1>7 DEF Spent, Lost, Pending, Typed, TypeOK, Key
<1> QED BY <1>4, <1>5, <1>8, Accounts DEF Typed

LEMMA TurnOffTyped ==
    ASSUME Typed, NEW o \in Operator, op[o].pc = "router", TurnOff(o),
           UNCHANGED <<copies, egress, process, pass, health, flag, events>>
    PROVE  Typed'
<1>1. op' = Done(o) /\ ~ op[o].want
  BY DEF TurnOff
<1>2. live' \subseteq Object /\ ifkey' \in Key /\ UNCHANGED <<keys, raced, faults, stale>>
  BY CommandTypes DEF TurnOff
<1>3. TypeOK'
  BY <1>1, <1>2, CommandTypes, DoneRecord, TurnsTyped
<1>4. WGKnown' => WGKnown
  <2>1. "wg" \in op'[o].copy.on => WGKnown
    BY <1>1, DoneRecord DEF WGKnown
  <2> QED BY <1>1, <2>1, DoneRecord, KnownByCommand
<1>5. Pending(o)' = 0 /\ (op[o].object = "wg" => Pending(o) = 1) /\ Pending(o) \in {0, 1}
  BY <1>1, DoneRecord DEF Pending
<1>6. Lost' \in {0, 1} /\ (op[o].object # "wg" => Lost' = Lost)
  BY DEF Lost, TurnOff
<1>7. keys' + Lost' + Pending(o)' <= keys + Lost + Pending(o) + 0
  BY <1>2, <1>5, <1>6, CommandTypes
<1>8. Spent' <= Spent + 0
  BY <1>1, <1>2, <1>7, CommandTypes, DoneRecord, OneCommand
<1>9. Spent' <= Spent
  BY <1>8 DEF Spent, Lost, Pending, Typed, TypeOK, Key
<1> QED BY <1>3, <1>4, <1>9, Accounts DEF Typed

LEMMA TurnFailsTyped ==
    ASSUME Typed, NEW o \in Operator, op[o].pc = "router", TurnFails(o),
           UNCHANGED <<copies, egress, process, pass, health, flag, events>>
    PROVE  Typed'
<1>1. IdleOp \in OpRecord /\ IdleOp.pc = "idle" /\ "wg" \notin IdleOp.copy.on
  BY BoundsAssumption, ObjectAssumption DEF IdleOp, OpRecord, Config, Key
<1>2. /\ op' \in [Operator -> OpRecord] /\ \A q \in Operator \ {o} : op'[q] = op[q]
      /\ op'[o].pc # "router"
      /\ "wg" \in op'[o].copy.on => "wg" \in op[o].copy.on \/ (op[o].want /\ op[o].object = "wg")
  BY <1>1, CommandTypes, DoneRecord DEF TurnFails
<1>3. faults' \in 0 .. MaxFaults
  BY BoundsAssumption DEF TurnFails, Fault, Typed, TypeOK
<1>4. /\ live' \subseteq Object /\ ifkey' \in Key /\ keys' \in Key
      /\ \/ ifkey' = InterfaceKey /\ keys' = (IF ifkey = 0 THEN keys + 1 ELSE keys)
         \/ UNCHANGED <<ifkey, keys>>
  <2>1. CASE op[o].want /\ op[o].object = "wg"
    <3>1. WGKnown /\ ApplyWGFails({})
      BY <2>1 DEF TurnFails, WGKnown
    <3> QED BY <3>1, ApplyWGTyped
  <2>2. CASE ~ (op[o].want /\ op[o].object = "wg")
    BY <2>2, CommandTypes DEF TurnFails
  <2> QED BY <2>1, <2>2
<1>5. stale' \in BOOLEAN /\ raced' \in BOOLEAN
  BY CommandTypes DEF TurnFails, ApplyWGFails
<1>6. TypeOK'
  BY <1>2, <1>3, <1>4, <1>5, TurnsTyped
<1>7. WGKnown' => WGKnown
  <2>1. "wg" \in op'[o].copy.on => WGKnown
    BY <1>2 DEF WGKnown
  <2> QED BY <1>2, <2>1, KnownByCommand
<1>8. Pending(o)' = 0 /\ Pending(o) \in {0, 1}
  BY <1>2 DEF Pending
<1>9. keys' + Lost' = keys + Lost /\ keys' \in Nat /\ Lost' \in Nat
  BY <1>4, RouterPaid
<1>10. Spent' <= Spent + 0
  <2>1. keys' + Lost' + Pending(o)' <= keys + Lost + Pending(o) + 0
    BY <1>8, <1>9, CommandTypes
  <2> QED BY <1>2, <1>9, <2>1, OneCommand
<1>11. Spent' <= Spent
  BY <1>10 DEF Spent, Lost, Pending, Typed, TypeOK, Key
<1> QED BY <1>6, <1>7, <1>11, Accounts DEF Typed

LEMMA OnRouterTyped == ASSUME Typed, NEW o \in Operator, OnRouter(o) PROVE Typed'
BY TurnOnWGTyped, TurnOnOtherTyped, TurnOffTyped, TurnFailsTyped DEF OnRouter

LEMMA BeginTyped ==
    ASSUME Typed, NEW o \in Operator, NEW obj \in Object, NEW want \in BOOLEAN, Begin(o, obj, want)
    PROVE  Typed'
<1> DEFINE own == IF reload = NoReload THEN bot ELSE reload
           copy == IF o = "cli" THEN disk ELSE own
<1>1. own \in Config /\ copy \in Config /\ copy \in {disk, bot, reload}
  BY DEF Typed, TypeOK
<1>2. [pc |-> "router", object |-> obj, want |-> want, copy |-> copy] \in OpRecord
  BY <1>1 DEF OpRecord
<1>3. /\ op' \in [Operator -> OpRecord] /\ \A q \in Operator \ {o} : op'[q] = op[q]
      /\ op'[o] = [pc |-> "router", object |-> obj, want |-> want, copy |-> copy]
  BY <1>2, CommandTypes DEF Begin
<1>4. events' \in 0 .. MaxEvents /\ events' = events + 1
  BY BoundsAssumption DEF Begin, Event, Typed, TypeOK
<1>5. bot' \in Config /\ reload' \in Config \cup {NoReload} /\ bot' \in {bot, own} /\ reload' \in {reload, NoReload}
  BY <1>1 DEF Begin, Typed, TypeOK
<1>6. TypeOK'
  BY <1>3, <1>4, <1>5 DEF Typed, TypeOK, Begin, router, guard, OpRecord
<1>7. Pending(o) = 0 /\ Pending(o)' \in {0, 1} /\ (want => Pending(o)' = 0)
  BY <1>3 DEF Pending, Begin
<1>8. UNCHANGED <<keys, Lost>>
  BY DEF Begin, router, Lost
<1>9. Spent' <= Spent + 1 /\ (want => Spent' <= Spent + 0)
  <2>1. keys' + Lost' + Pending(o)' <= keys + Lost + Pending(o) + 1
    BY <1>7, <1>8, CommandTypes
  <2>2. want => keys' + Lost' + Pending(o)' <= keys + Lost + Pending(o) + 0
    BY <1>7, <1>8, CommandTypes
  <2>3. keys' \in Nat
    BY <1>8, CommandTypes
  <2> QED BY <1>3, <2>1, <2>2, <2>3, OneCommand
\* Whoever switches WireGuard on has paid for its first key.
<1>10. Spent \in Nat /\ Spent' \in Nat /\ Spent <= events + 1 /\ events \in Nat
  BY <1>6, SpentNumbers
<1>11. WGKnown' => WGKnown \/ Spent' <= events'
  <2>1. CASE want
    BY <1>4, <1>9, <1>10, <2>1
  <2>2. CASE ~ want
    <3>1. "wg" \in copy.on \/ "wg" \in own.on => WGKnown
      BY <1>1 DEF WGKnown
    <3>2. "wg" \in op'[o].copy.on => WGKnown
      BY <1>3, <3>1
    <3>3. ~ op'[o].want
      BY <1>3, <2>2
    <3>4. UNCHANGED <<disk, daemon, pass>>
      BY DEF Begin
    <3>5. "wg" \in bot'.on \/ "wg" \in reload'.on => WGKnown
      BY <1>5, <3>1 DEF WGKnown, NoReload
    <3> QED BY <1>3, <3>2, <3>3, <3>4, <3>5 DEF WGKnown
  <2> QED BY <2>1, <2>2
<1> QED BY <1>4, <1>6, <1>9, <1>11, Accounts DEF Typed

LEMMA SaveCommandTyped == ASSUME Typed, NEW o \in Operator, SaveCommand(o) PROVE Typed'
<1>1. IdleOp \in OpRecord /\ IdleOp.pc = "idle" /\ "wg" \notin IdleOp.copy.on
  BY BoundsAssumption, ObjectAssumption DEF IdleOp, OpRecord, Config, Key
<1>2. /\ op' \in [Operator -> OpRecord] /\ \A q \in Operator \ {o} : op'[q] = op[q]
      /\ op'[o].pc # "router"
      /\ "wg" \in op'[o].copy.on => "wg" \in op[o].copy.on
  BY <1>1, CommandTypes DEF SaveCommand, OpRecord
<1>3. /\ disk' \in Config /\ bot' \in Config /\ hup' \in {"none", "sent", "applied"}
      /\ disk' = op[o].copy /\ bot' \in {bot, op[o].copy}
  BY CommandTypes DEF SaveCommand, OpRecord, Typed, TypeOK
<1>4. TypeOK'
  BY <1>2, <1>3 DEF Typed, TypeOK, SaveCommand, router, guard, OpRecord
<1>5. WGKnown' => WGKnown
  <2>1. "wg" \in op[o].copy.on => WGKnown
    BY DEF WGKnown
  <2> QED BY <1>2, <1>3, <2>1 DEF WGKnown, SaveCommand
<1>6. UNCHANGED <<keys, Lost, events>>
  BY DEF SaveCommand, router, Lost
<1>7. Pending(o)' = 0 /\ Pending(o) = 0
  BY <1>2 DEF Pending, SaveCommand
<1>8. Spent' <= Spent + 0
  <2>1. keys' + Lost' + Pending(o)' <= keys + Lost + Pending(o) + 0 /\ keys' \in Nat
    BY <1>6, <1>7, CommandTypes
  <2> QED BY <1>2, <2>1, OneCommand
<1>9. Spent' <= Spent
  BY <1>4, <1>8, SpentNumbers
<1> QED BY <1>4, <1>5, <1>6, <1>9, Accounts DEF Typed

LEMMA RebindTyped == ASSUME Typed, Rebind PROVE Typed'
<1>1. IdleOp \in OpRecord /\ IdleOp.pc = "idle" /\ "wg" \notin IdleOp.copy.on
  BY BoundsAssumption, ObjectAssumption DEF IdleOp, OpRecord, Config, Key
<1> DEFINE o == "bot"
<1>2. /\ o \in Operator /\ op' \in [Operator -> OpRecord] /\ \A q \in Operator \ {o} : op'[q] = op[q]
      /\ op'[o] = IdleOp
  BY <1>1, CommandTypes DEF Rebind
<1>3. daemon' \in Config /\ daemon' \in {daemon, bot}
  BY DEF Rebind, Typed, TypeOK
<1>4. stale' \in BOOLEAN
  BY DEF Rebind, Typed, TypeOK
<1>5. faults' \in 0 .. MaxFaults
  BY BoundsAssumption DEF Rebind, Fault, Typed, TypeOK
<1>6. TypeOK'
  BY <1>2, <1>3, <1>4, <1>5 DEF Typed, TypeOK, Rebind, router, guard, OpRecord
<1>7. WGKnown' => WGKnown
  BY <1>1, <1>2, <1>3 DEF WGKnown, Rebind
<1>8. UNCHANGED <<keys, Lost, events>>
  BY DEF Rebind, router, Lost
<1>9. Pending(o)' = 0 /\ Pending(o) = 0
  BY <1>1, <1>2 DEF Pending, Rebind
<1>10. Spent' <= Spent + 0
  <2>1. keys' + Lost' + Pending(o)' <= keys + Lost + Pending(o) + 0 /\ keys' \in Nat
    BY <1>2, <1>8, <1>9, CommandTypes
  <2> QED BY <1>2, <2>1, OneCommand
<1>11. Spent' <= Spent
  BY <1>6, <1>10, SpentNumbers
<1> QED BY <1>6, <1>7, <1>8, <1>11, Accounts DEF Typed

LEMMA StutterTyped == ASSUME Typed, UNCHANGED vars PROVE Typed'
<1>1. TypeOK'
  BY DEF Typed, TypeOK, vars
<1>2. WGKnown' => WGKnown
  BY DEF WGKnown, vars
<1> QED BY <1>1, <1>2, QuietStep DEF Typed, vars

LEMMA NextTyped == Typed /\ [Next]_vars => Typed'
BY BeginPassTyped, PassRuleTyped, PassRestTyped, PassSaveTyped, PassPushTyped, ProbeTyped,
   HealthClearTyped, HealthEnsureTyped, FirmwareDropsTyped, EgressChangesTyped, RestartTyped,
   BeginTyped, OnRouterTyped, SaveCommandTyped, RebindTyped, HangUpTyped, StartLoadTyped,
   StartApplyTyped, StutterTyped
   DEF Next, Upkeep, Commands, Environment

LEMMA AlwaysTyped == Spec => []Typed
BY InitTyped, NextTyped, PTL DEF Spec

\* Every copy of the configuration, the router and the commands keep their types, and no key is
\* handed out that no event has paid for.
THEOREM TypeCorrect == Spec => []TypeOK
<1>1. Typed => TypeOK
  BY DEF Typed
<1> QED BY <1>1, AlwaysTyped, PTL

-----------------------------------------------------------------------------
(* The REDIRECT that is held out.  The flag says what the health check has *)
(* decided, so that a pass which is about to look at the rule began before *)
(* the check tripped.                                                      *)

HeldOut ==
    /\ flag = health.failedOpen
    /\ process # "up" => ~ health.failedOpen /\ health.pc = "idle"
    /\ health.pc = "ensure" => ~ health.failedOpen
    /\ \A p \in Pass : pass[p].pc = "rule" => pass[p].early
    /\ FailOpenUnlessRaced

\* The rule is put in only by those who say so.
LEMMA RuleStays ==
    ASSUME HeldOut, UNCHANGED <<process, pass, health, flag>>,
           "redirect" \in live' => "redirect" \in live \/ raced' \/ ~ health.failedOpen,
           raced => raced'
    PROVE  HeldOut'
BY DEF HeldOut, FailOpenUnlessRaced

LEMMA PassesHoldOut ==
    ASSUME Typed, HeldOut, NEW p \in Pass,
           BeginPass(p) \/ PassRule(p) \/ PassRest(p) \/ PassSave(p) \/ PassPush(p)
    PROVE  HeldOut'
<1>1. pass \in [Pass -> PassRecord] /\ flag = health.failedOpen /\ process \in {"down", "starting", "up"}
  BY DEF Typed, TypeOK, PassRecord, HeldOut
<1>2. CASE BeginPass(p)
  <2>1. \A q \in Pass : pass'[q].pc = "rule" => pass'[q].early
    BY <1>1, <1>2 DEF BeginPass, HeldOut, PassRecord
  <2> QED BY <1>2, <2>1 DEF BeginPass, HeldOut, FailOpenUnlessRaced, guard, router
<1>3. CASE PassRule(p)
  <2>1. \A q \in Pass : pass'[q].pc = "rule" => pass'[q].early
    BY <1>1, <1>3 DEF PassRule, Step, HeldOut, PassRecord
  <2>2. pass[p].early
    BY <1>3 DEF PassRule, HeldOut
  <2>3. FailOpenUnlessRaced'
    BY <1>3, <2>2 DEF PassRule, HeldOut, FailOpenUnlessRaced
  <2> QED BY <1>3, <2>1, <2>3 DEF PassRule, HeldOut
<1>4. CASE PassRest(p)
  <2>1. \A q \in Pass : pass'[q].pc = "rule" => pass[q].pc = "rule" /\ pass'[q].early = pass[q].early
    BY <1>1, <1>4 DEF PassRest, Reassert, Rekey, Step, PassRecord
  <2>2. "redirect" \in live' => "redirect" \in live
    BY <1>4 DEF PassRest, Reassert, Rekey, ApplyWG, ApplyWGFails, Plain
  <2> QED BY <1>4, <2>1, <2>2 DEF PassRest, HeldOut, FailOpenUnlessRaced, guard
<1>5. CASE PassSave(p) \/ PassPush(p)
  <2>1. \A q \in Pass : pass'[q].pc = "rule" => pass[q].pc = "rule" /\ pass'[q].early = pass[q].early
    BY <1>1, <1>5 DEF PassSave, PassPush, Step, PassRecord
  <2> QED BY <1>5, <2>1 DEF PassSave, PassPush, HeldOut, FailOpenUnlessRaced, guard, router
<1> QED BY <1>2, <1>3, <1>4, <1>5

LEMMA HealthHoldsOut ==
    ASSUME Typed, HeldOut, Probe \/ HealthClear \/ HealthEnsure PROVE HeldOut'
<1>1. /\ health \in [pc: {"idle", "clear", "ensure"}, fails: 0 .. HealthFailThreshold,
                     failedOpen: BOOLEAN]
      /\ pass \in [Pass -> PassRecord]
  BY DEF Typed, TypeOK, PassRecord
<1>2. CASE Probe
  <2>1. pass' = pass /\ live' = live /\ process = "up" /\ process' = "up"
    BY <1>2 DEF Probe, router
  <2>2. flag' = health'.failedOpen
    <3>1. flag = health.failedOpen
      BY DEF HeldOut
    <3>2. \/ health'.failedOpen = TRUE /\ flag' = TRUE
          \/ health'.failedOpen = FALSE /\ flag' = FALSE
          \/ health'.failedOpen = health.failedOpen /\ flag' = flag
      BY <1>1, <1>2 DEF Probe, FlagAfterRecovery
    <3>3. CASE health'.failedOpen = TRUE /\ flag' = TRUE
      BY <3>3
    <3>4. CASE health'.failedOpen = FALSE /\ flag' = FALSE
      BY <3>4
    <3>5. CASE health'.failedOpen = health.failedOpen /\ flag' = flag
      BY <3>1, <3>5, Zenon
    <3> QED BY <3>2, <3>3, <3>4, <3>5
  <2>3. health'.failedOpen /\ ~ health.failedOpen => health'.pc = "clear"
    BY <1>1, <1>2 DEF Probe
  <2>4. health'.failedOpen /\ health.failedOpen => health.pc = "idle" /\ health'.pc = "idle" /\ raced' = raced
    BY <1>1, <1>2 DEF Probe, TripsAt
  <2>5. health'.pc = "ensure" => ~ health'.failedOpen
    BY <1>1, <1>2 DEF Probe
  <2> QED BY <2>1, <2>2, <2>3, <2>4, <2>5 DEF HeldOut, FailOpenUnlessRaced
<1>3. CASE HealthClear
  <2>1. health'.failedOpen = health.failedOpen /\ health'.pc = "idle"
    BY <1>1, <1>3 DEF HealthClear
  <2>2. "redirect" \in live' => raced'
    BY <1>3 DEF HealthClear
  <2> QED BY <1>3, <2>1, <2>2 DEF HealthClear, HeldOut, FailOpenUnlessRaced
<1>4. CASE HealthEnsure
  <2>1. health'.failedOpen = health.failedOpen /\ health'.pc = "idle"
    BY <1>1, <1>4 DEF HealthEnsure
  <2> QED BY <1>4, <2>1 DEF HealthEnsure, HeldOut, FailOpenUnlessRaced
<1> QED BY <1>2, <1>3, <1>4

LEMMA CommandsHoldOut ==
    ASSUME Typed, HeldOut, NEW o \in Operator, OnRouter(o) PROVE HeldOut'
<1>1. UNCHANGED <<process, pass, health, flag>>
  BY DEF OnRouter
<1>2. "redirect" \in live' => "redirect" \in live \/ raced' \/ ~ health.failedOpen
  <2>1. TurnOnWG(o) => ("redirect" \in live' => "redirect" \in live)
    BY DEF TurnOnWG, ApplyWG
  <2>2. TurnOnRedirect(o) => raced' \/ ~ health.failedOpen
    BY DEF TurnOnRedirect
  <2>3. TurnOnPlain(o) => ("redirect" \in live' => "redirect" \in live)
    BY DEF TurnOnPlain
  <2>4. TurnOff(o) => ("redirect" \in live' => "redirect" \in live)
    BY DEF TurnOff
  <2>5. TurnFails(o) => ("redirect" \in live' => "redirect" \in live)
    BY DEF TurnFails, ApplyWGFails
  <2> QED BY <2>1, <2>2, <2>3, <2>4, <2>5 DEF OnRouter
<1>3. raced => raced'
  BY DEF OnRouter, TurnOnWG, TurnOnRedirect, TurnOnPlain, TurnOff, TurnFails
<1> QED BY <1>1, <1>2, <1>3, RuleStays

LEMMA OthersHoldOut ==
    ASSUME Typed, HeldOut,
           \/ \E dropped \in SUBSET Object : FirmwareDrops(dropped)
           \/ EgressChanges \/ Rebind \/ HangUp \/ UNCHANGED vars
           \/ \E o \in Operator, obj \in Object, want \in BOOLEAN : Begin(o, obj, want)
           \/ \E o \in Operator : SaveCommand(o)
    PROVE  HeldOut'
<1>1. UNCHANGED <<process, pass, health, flag, raced>> /\ live' \subseteq live
  BY DEF FirmwareDrops, EgressChanges, Rebind, HangUp, vars, Begin, SaveCommand, guard, router
<1> QED BY <1>1, RuleStays

LEMMA ProcessHoldsOut ==
    ASSUME Typed, HeldOut, Restart \/ StartLoad \/ StartApply PROVE HeldOut'
<1>1. CASE Restart
  <2>1. \A p \in Pass : pass'[p].pc = "idle"
    BY <1>1 DEF Restart, IdlePass
  <2>2. health'.failedOpen = FALSE /\ health'.pc = "idle" /\ flag' = FALSE
    BY <1>1 DEF Restart, IdleHealth
  <2>3. flag' = health'.failedOpen
    BY <2>2
  <2> QED BY <2>1, <2>2, <2>3 DEF HeldOut, FailOpenUnlessRaced
<1>2. CASE StartLoad \/ StartApply
  <2>1. UNCHANGED <<pass, health, flag>> /\ process # "up"
    BY <1>2 DEF StartLoad, StartApply, guard
  <2>2. ~ health.failedOpen /\ health.pc = "idle"
    BY <2>1 DEF HeldOut
  <2>3. FailOpenUnlessRaced'
    BY <2>1, <2>2 DEF FailOpenUnlessRaced
  <2>4. flag' = health'.failedOpen /\ ~ health'.failedOpen /\ health'.pc = "idle"
    BY <2>1, <2>2 DEF HeldOut
  <2>5. \A p \in Pass : pass'[p].pc = "rule" => pass'[p].early
    BY <2>1 DEF HeldOut
  <2> QED BY <2>3, <2>4, <2>5 DEF HeldOut
<1> QED BY <1>1, <1>2

\* While the health check holds the REDIRECT out, no pass that began after it tripped puts it
\* back (reconcileAdaptiveRoute and adaptiveRouteHealthCheck, adaptiveroute.go), whatever ndm
\* drops and however many passes, commands and restarts interleave.
THEOREM FailOpenStaysOpen == Spec => []FailOpenUnlessRaced
<1>1. Init => HeldOut
  <2> SUFFICES ASSUME Init PROVE HeldOut
    OBVIOUS
  <2>1. health.failedOpen = FALSE /\ health.pc = "idle" /\ flag = FALSE
    BY DEF Init, IdleHealth
  <2>2. \A p \in Pass : pass[p].pc = "idle"
    BY DEF Init, IdlePass
  <2>3. flag = health.failedOpen
    BY <2>1
  <2> QED BY <2>1, <2>2, <2>3 DEF HeldOut, FailOpenUnlessRaced
<1>2. Typed /\ HeldOut /\ [Next]_vars => HeldOut'
  BY PassesHoldOut, HealthHoldsOut, CommandsHoldOut, OthersHoldOut, ProcessHoldsOut
     DEF Next, Upkeep, Commands, Environment
<1>3. HeldOut => FailOpenUnlessRaced
  BY DEF HeldOut
<1> QED BY <1>1, <1>2, <1>3, AlwaysTyped, PTL DEF Spec
-----------------------------------------------------------------------------
(* The key of a rebuilt interface.  A copy carries a key the firmware has   *)
(* handed out, so that a new key differs from every copy's and is saved;    *)
(* from then on somebody is on the way to xray with it.                     *)

KeysHandedOut ==
    /\ ifkey <= keys /\ disk.key <= keys /\ daemon.key <= keys /\ bot.key <= keys
    /\ reload # NoReload => reload.key <= keys
    /\ \A p \in Pass : pass[p].copy.key <= keys
    /\ \A o \in Operator : op[o].copy.key <= keys

Carried ==
    \/ hup = "sent"
    \/ \E p \in Pass : pass[p].pc \in {"save", "push"}
    \/ \E o \in Operator : op[o].pc \in {"save", "apply"}

KeyOnItsWay == process = "up" /\ OutOfDate(daemon) /\ ifkey # 0 /\ ~ stale => Carried

Owed == KeysHandedOut /\ KeyOnItsWay

LEMMA KeyNumbers ==
    ASSUME Typed
    PROVE  /\ keys \in Nat /\ ifkey \in Nat /\ disk.key \in Nat /\ daemon.key \in Nat
           /\ bot.key \in Nat /\ reload.key \in Nat
           /\ \A p \in Pass : pass[p].copy.key \in Nat
           /\ \A o \in Operator : op[o].copy.key \in Nat
           /\ InterfaceKey \in Nat
BY BoundsAssumption DEF Typed, TypeOK, Config, NoReload, Key, InterfaceKey

\* What a builder does to the keys.
LEMMA KeysGrow ==
    ASSUME Typed, KeysHandedOut,
           \/ ifkey' = InterfaceKey /\ keys' = (IF ifkey = 0 THEN keys + 1 ELSE keys)
           \/ UNCHANGED <<ifkey, keys>>
    PROVE  /\ keys' \in Nat /\ keys <= keys' /\ ifkey' <= keys'
           /\ ifkey' = InterfaceKey /\ keys' = (IF ifkey = 0 THEN keys + 1 ELSE keys)
                => InterfaceKey <= keys'
BY KeyNumbers DEF KeysHandedOut, InterfaceKey

\* A step that hands out no key keeps the copies it does not touch; those it makes are copies of
\* others.
LEMMA NoNewKey ==
    ASSUME Typed, KeysHandedOut, keys' = keys, ifkey' = ifkey \/ ifkey' = 0,
           disk'.key <= keys, daemon'.key <= keys, bot'.key <= keys,
           reload' # NoReload => reload'.key <= keys,
           \A p \in Pass : pass'[p].copy.key <= keys,
           \A o \in Operator : op'[o].copy.key <= keys
    PROVE  KeysHandedOut'
BY KeyNumbers DEF KeysHandedOut

LEMMA BuilderHandsOut ==
    ASSUME Typed, KeysHandedOut,
           \/ ifkey' = InterfaceKey /\ keys' = (IF ifkey = 0 THEN keys + 1 ELSE keys)
           \/ UNCHANGED <<ifkey, keys>>,
           disk'.key <= keys', daemon'.key <= keys', bot'.key <= keys', reload' = reload,
           \A p \in Pass : pass'[p].copy.key <= keys',
           \A o \in Operator : op'[o].copy.key <= keys'
    PROVE  KeysHandedOut'
<1>1. keys' \in Nat /\ keys <= keys' /\ ifkey' <= keys'
  BY KeysGrow
<1>2. reload' # NoReload => reload'.key <= keys'
  BY <1>1, KeyNumbers DEF KeysHandedOut
<1> QED BY <1>1, <1>2 DEF KeysHandedOut

\* Nobody sets out or arrives, and the key of the interface stays or is lost.
LEMMA StaysOnItsWay ==
    ASSUME KeyOnItsWay, UNCHANGED <<daemon, stale>>, process' = "up" => process = "up",
           ifkey' = ifkey \/ ifkey' = 0, Carried => Carried'
    PROVE  KeyOnItsWay'
BY DEF KeyOnItsWay, OutOfDate

LEMMA BeginPassOwes == ASSUME Typed, Owed, NEW p \in Pass, BeginPass(p) PROVE Owed'
<1>1. pass \in [Pass -> PassRecord]
  BY DEF Typed, TypeOK, PassRecord
<1>2. KeysHandedOut'
  BY <1>1, NoNewKey DEF BeginPass, Owed, KeysHandedOut, copies, router, PassRecord
<1>3. \A q \in Pass : q # p => pass'[q] = pass[q]
  BY <1>1 DEF BeginPass
<1>4. pass[p].pc = "idle"
  BY DEF BeginPass
<1>5. Carried => Carried'
  BY <1>3, <1>4 DEF BeginPass, Carried, copies
<1>6. KeyOnItsWay'
  BY <1>5, StaysOnItsWay DEF BeginPass, Owed, copies, router
<1> QED BY <1>2, <1>6 DEF Owed

LEMMA PassRuleOwes == ASSUME Typed, Owed, NEW p \in Pass, PassRule(p) PROVE Owed'
<1>1. pass \in [Pass -> PassRecord]
  BY DEF Typed, TypeOK, PassRecord
<1>2. KeysHandedOut'
  BY <1>1, NoNewKey DEF PassRule, Step, Owed, KeysHandedOut, copies, PassRecord
<1>3. \A q \in Pass : q # p => pass'[q] = pass[q]
  BY <1>1 DEF PassRule, Step
<1>4. pass[p].pc = "rule"
  BY DEF PassRule
<1>5. Carried => Carried'
  BY <1>3, <1>4 DEF PassRule, Carried, copies
<1>6. KeyOnItsWay'
  BY <1>5, StaysOnItsWay DEF PassRule, Owed, copies
<1> QED BY <1>2, <1>6 DEF Owed

\* A pass that builds the interface goes on with the new key, unless its copy had it.
LEMMA PassRestOwes == ASSUME Typed, Owed, NEW p \in Pass, PassRest(p) PROVE Owed'
<1>1. pass \in [Pass -> PassRecord] /\ pass[p].copy \in Config
  BY DEF Typed, TypeOK, PassRecord
<1>2. \A q \in Pass : q # p => pass'[q] = pass[q]
  BY <1>1 DEF PassRest, Reassert, Rekey, Step
<1>3. Carried => Carried'
  BY <1>2 DEF PassRest, Carried, copies
<1>4. CASE Reassert(p)
  <2>1. KeysHandedOut'
    BY <1>1, <1>4, NoNewKey DEF PassRest, Reassert, Step, Owed, KeysHandedOut, copies, PassRecord
  <2>2. KeyOnItsWay'
    BY <1>3, <1>4, StaysOnItsWay DEF PassRest, Reassert, Owed, copies
  <2> QED BY <2>1, <2>2 DEF Owed
<1>5. CASE Rekey(p) /\ ApplyWG(Plain(p))
  <2>1. ifkey' = InterfaceKey /\ keys' = IF ifkey = 0 THEN keys + 1 ELSE keys
    BY <1>5 DEF ApplyWG
  <2>2. keys' \in Nat /\ keys <= keys' /\ InterfaceKey <= keys'
    BY <2>1, KeysGrow DEF Owed
  <2>3. \A q \in Pass : pass'[q].copy.key \in {pass[q].copy.key, InterfaceKey}
    BY <1>1, <1>5 DEF Rekey, Step, PassRecord, Config
  <2>4. KeysHandedOut'
    BY <2>1, <2>2, <2>3, KeyNumbers, BuilderHandsOut DEF PassRest, Owed, KeysHandedOut, copies
  <2>5. stale' \/ pass'[p].pc = "save" \/ pass[p].copy.key = InterfaceKey
    BY <1>1, <1>5 DEF Rekey, ApplyWGFails, Step, PassRecord
  <2>6. pass[p].copy.key = InterfaceKey => ifkey' = ifkey
    BY <2>1, KeyNumbers DEF Owed, KeysHandedOut, InterfaceKey
  <2>7. KeyOnItsWay'
    BY <1>3, <1>5, <2>5, <2>6 DEF PassRest, Rekey, ApplyWGFails, Owed, KeyOnItsWay, Carried, OutOfDate, copies
  <2> QED BY <2>4, <2>7 DEF Owed
<1>6. CASE ApplyWGFails(Plain(p)) /\ Step(p, "idle")
  <2>1. \/ ifkey' = InterfaceKey /\ keys' = (IF ifkey = 0 THEN keys + 1 ELSE keys)
        \/ UNCHANGED <<ifkey, keys>>
    BY <1>6 DEF ApplyWGFails
  <2>2. keys' \in Nat /\ keys <= keys'
    BY <2>1, KeysGrow DEF Owed
  <2>3. \A q \in Pass : pass'[q].copy.key = pass[q].copy.key
    BY <1>1, <1>6 DEF Step, PassRecord
  <2>4. KeysHandedOut'
    BY <2>1, <2>2, <2>3, KeyNumbers, BuilderHandsOut DEF PassRest, Owed, KeysHandedOut, copies
  <2>5. stale'
    BY <1>6 DEF ApplyWGFails
  <2> QED BY <2>4, <2>5 DEF Owed, KeyOnItsWay
<1> QED BY <1>4, <1>5, <1>6 DEF PassRest, Rekey

LEMMA PassSaveOwes == ASSUME Typed, Owed, NEW p \in Pass, PassSave(p) PROVE Owed'
<1>1. pass \in [Pass -> PassRecord]
  BY DEF Typed, TypeOK, PassRecord
<1>2. KeysHandedOut'
  BY <1>1, NoNewKey DEF PassSave, Step, Owed, KeysHandedOut, router, PassRecord
<1>3. Carried'
  BY <1>1 DEF PassSave, Step, Carried, PassRecord
<1>4. KeyOnItsWay'
  BY <1>3, StaysOnItsWay DEF PassSave, Owed, router
<1> QED BY <1>2, <1>4 DEF Owed

LEMMA PassPushOwes == ASSUME Typed, Owed, NEW p \in Pass, PassPush(p) PROVE Owed'
<1>1. pass \in [Pass -> PassRecord]
  BY DEF Typed, TypeOK, PassRecord
<1>2. KeysHandedOut'
  BY <1>1, NoNewKey DEF PassPush, Pushed, Step, Owed, KeysHandedOut, router, PassRecord
<1>3. KeyOnItsWay'
  BY DEF PassPush, Pushed, KeyOnItsWay, OutOfDate, router
<1> QED BY <1>2, <1>3 DEF Owed

LEMMA HealthOwes == ASSUME Typed, Owed, Probe \/ HealthClear \/ HealthEnsure PROVE Owed'
<1>1. UNCHANGED <<disk, daemon, bot, reload, hup, ifkey, keys, process, pass, op, stale>>
  BY DEF Probe, HealthClear, HealthEnsure, copies, router
<1>2. KeysHandedOut'
  BY <1>1 DEF Owed, KeysHandedOut
<1>3. KeyOnItsWay'
  BY <1>1, StaysOnItsWay DEF Owed, Carried
<1> QED BY <1>2, <1>3 DEF Owed

LEMMA EnvironmentOwes ==
    ASSUME Typed, Owed, \/ \E dropped \in SUBSET Object : FirmwareDrops(dropped)
                        \/ EgressChanges \/ UNCHANGED vars
    PROVE  Owed'
<1>1. /\ UNCHANGED <<disk, daemon, bot, reload, hup, keys, process, pass, op, stale>>
      /\ ifkey' = ifkey \/ ifkey' = 0
  BY DEF FirmwareDrops, EgressChanges, vars, copies, router
<1>2. KeysHandedOut'
  BY <1>1, NoNewKey DEF Owed, KeysHandedOut
<1>3. KeyOnItsWay'
  BY <1>1, StaysOnItsWay DEF Owed, Carried
<1> QED BY <1>2, <1>3 DEF Owed

LEMMA RestartOwes == ASSUME Typed, Owed, Restart PROVE Owed'
<1>1. \A p \in Pass : pass'[p].copy.key = 0
  BY DEF Restart, IdlePass
<1>2. op \in [Operator -> OpRecord]
  BY DEF Typed, TypeOK, OpRecord
<1>3. \A o \in Operator : op'[o].copy.key = 0 \/ op'[o] = op[o]
  BY <1>2 DEF Restart, IdleOp
<1>4. UNCHANGED <<disk, daemon, bot, ifkey, keys>> /\ reload' = NoReload
  BY DEF Restart, router
<1>5. \A o \in Operator : op'[o].copy.key <= keys
  BY <1>3, KeyNumbers DEF Owed, KeysHandedOut
<1>6. \A p \in Pass : pass'[p].copy.key <= keys
  BY <1>1, KeyNumbers
<1>7. disk.key <= keys /\ daemon.key <= keys /\ bot.key <= keys
  BY DEF Owed, KeysHandedOut
<1>8. KeysHandedOut'
  BY <1>4, <1>5, <1>6, <1>7, NoNewKey DEF Owed
<1>9. process' = "down"
  BY DEF Restart
<1> QED BY <1>8, <1>9 DEF Owed, KeyOnItsWay

LEMMA StartLoadOwes == ASSUME Typed, Owed, StartLoad PROVE Owed'
<1>1. KeysHandedOut'
  BY NoNewKey DEF StartLoad, router, Owed, KeysHandedOut
<1> QED BY <1>1 DEF StartLoad, Owed, KeyOnItsWay

\* The daemon starts on the key it read back from the interface, unless the rebuild failed.
LEMMA StartApplyOwes == ASSUME Typed, Owed, StartApply PROVE Owed'
<1>1. daemon \in Config /\ disk \in Config
  BY DEF Typed, TypeOK
<1>2. UNCHANGED <<reload, pass, op>> /\ bot' = disk'
  BY DEF StartApply
<1>3. \/ ifkey' = InterfaceKey /\ keys' = (IF ifkey = 0 THEN keys + 1 ELSE keys)
      \/ UNCHANGED <<ifkey, keys>>
  BY DEF StartApply, ApplyWG, ApplyWGFails
<1>4. keys' \in Nat /\ keys <= keys'
  BY <1>3, KeysGrow DEF Owed
<1>5. /\ \A p \in Pass : pass'[p].copy.key <= keys'
      /\ \A o \in Operator : op'[o].copy.key <= keys'
      /\ disk.key <= keys' /\ daemon.key <= keys'
  BY <1>2, <1>4, KeyNumbers DEF Owed, KeysHandedOut
<1>6. CASE "wg" \in daemon.on /\ ApplyWG(daemon.on \ {"wg"})
           /\ daemon' = [daemon EXCEPT !.key = InterfaceKey]
           /\ disk' = IF daemon.key = InterfaceKey THEN disk ELSE daemon'
  <2>1. ifkey' = InterfaceKey /\ keys' = IF ifkey = 0 THEN keys + 1 ELSE keys
    BY <1>6 DEF ApplyWG
  <2>2. InterfaceKey <= keys'
    BY <2>1, KeysGrow DEF Owed
  <2>3. daemon'.key = ifkey' /\ (disk'.key = disk.key \/ disk'.key = InterfaceKey)
    BY <1>1, <1>6, <2>1 DEF Config
  <2>4. KeysHandedOut'
    BY <1>2, <1>3, <1>5, <2>1, <2>2, <2>3, BuilderHandsOut DEF Owed
  <2> QED BY <2>3, <2>4 DEF Owed, KeyOnItsWay, OutOfDate
<1>7. CASE UNCHANGED <<daemon, disk>> /\ ("wg" \notin daemon.on \/ stale')
  <2>1. KeysHandedOut'
    BY <1>2, <1>3, <1>5, <1>7, BuilderHandsOut DEF Owed
  <2> QED BY <1>7, <2>1 DEF Owed, KeyOnItsWay, OutOfDate
<1> QED BY <1>6, <1>7 DEF StartApply, ApplyWGFails

LEMMA OnRouterOwes == ASSUME Typed, Owed, NEW o \in Operator, OnRouter(o) PROVE Owed'
<1>1. op \in [Operator -> OpRecord] /\ op[o].pc = "router" /\ op[o].copy \in Config
  BY DEF OnRouter, Typed, TypeOK, OpRecord
<1>2. /\ \A q \in Operator : q # o => op'[q] = op[q]
      /\ op'[o].copy.key \in {op[o].copy.key, InterfaceKey, 0}
      /\ op'[o].copy.key = InterfaceKey => TurnOnWG(o) \/ op'[o].copy.key \in {op[o].copy.key, 0}
  <2>1. /\ Done(o) \in [Operator -> OpRecord] /\ \A q \in Operator \ {o} : Done(o)[q] = op[q]
        /\ Done(o)[o].copy.key = op[o].copy.key
    BY DoneRecord
  <2>2. CASE TurnOnWG(o)
    <3>1. Done(o)[o].copy \in Config
      BY <2>1 DEF OpRecord
    <3>2. op' = [Done(o) EXCEPT ![o] = [@ EXCEPT !.copy = [Done(o)[o].copy EXCEPT !.key = InterfaceKey]]]
      BY <2>1, <2>2 DEF TurnOnWG, OpRecord
    <3> QED BY <2>1, <2>2, <3>1, <3>2 DEF OpRecord, Config
  <2>3. CASE TurnOnRedirect(o) \/ TurnOnPlain(o) \/ TurnOff(o)
    BY <2>1, <2>3 DEF TurnOnRedirect, TurnOnPlain, TurnOff
  <2>4. CASE TurnFails(o)
    BY <1>1, <2>1, <2>4 DEF TurnFails, IdleOp
  <2> QED BY <2>2, <2>3, <2>4 DEF OnRouter
<1>3. Carried => Carried'
  BY <1>1, <1>2 DEF OnRouter, Carried, copies
<1>4. UNCHANGED <<disk, daemon, bot, reload, hup, process, pass>>
  BY DEF OnRouter, copies
<1>5. \/ ifkey' = InterfaceKey /\ keys' = (IF ifkey = 0 THEN keys + 1 ELSE keys)
      \/ keys' = keys /\ (ifkey' = ifkey \/ ifkey' = 0)
  BY DEF OnRouter, TurnOnWG, TurnOnRedirect, TurnOnPlain, TurnOff, TurnFails, ApplyWG, ApplyWGFails
<1>6. CASE TurnOnWG(o)
  <2>1. ifkey' = InterfaceKey /\ keys' = IF ifkey = 0 THEN keys + 1 ELSE keys
    BY <1>6 DEF TurnOnWG, ApplyWG
  <2>2. keys' \in Nat /\ keys <= keys' /\ InterfaceKey <= keys'
    BY <2>1, KeysGrow DEF Owed
  <2>3. \A q \in Operator : op'[q].copy.key <= keys'
    BY <1>2, <2>2, KeyNumbers DEF Owed, KeysHandedOut
  <2>4. KeysHandedOut'
    BY <1>4, <2>1, <2>2, <2>3, KeyNumbers, BuilderHandsOut DEF Owed, KeysHandedOut
  <2>5. op'[o].pc = "save"
    <3>1. Done(o) \in [Operator -> OpRecord] /\ Done(o)[o].pc = "save"
      BY DoneRecord
    <3> QED BY <1>6, <3>1 DEF TurnOnWG, OpRecord
  <2> QED BY <2>4, <2>5 DEF Owed, KeyOnItsWay, Carried
<1>7. CASE ~ TurnOnWG(o)
  <2>1. \A q \in Operator : op'[q].copy.key \in {op[q].copy.key, 0}
    BY <1>2, <1>7
  <2>2. CASE UNCHANGED <<keys, stale>> /\ (ifkey' = ifkey \/ ifkey' = 0)
    <3>1. KeysHandedOut'
      BY <1>4, <2>1, <2>2, KeyNumbers, NoNewKey DEF Owed, KeysHandedOut
    <3>2. KeyOnItsWay'
      BY <1>3, <1>4, <2>2, StaysOnItsWay DEF Owed
    <3> QED BY <3>1, <3>2 DEF Owed
  <2>3. CASE ApplyWGFails({})
    <3>1. \/ ifkey' = InterfaceKey /\ keys' = (IF ifkey = 0 THEN keys + 1 ELSE keys)
          \/ UNCHANGED <<ifkey, keys>>
      BY <2>3 DEF ApplyWGFails
    <3>2. keys' \in Nat /\ keys <= keys'
      BY <3>1, KeysGrow DEF Owed
    <3>3. \A q \in Operator : op'[q].copy.key <= keys'
      BY <2>1, <3>2, KeyNumbers DEF Owed, KeysHandedOut
    <3>4. KeysHandedOut'
      BY <1>4, <3>1, <3>2, <3>3, KeyNumbers, BuilderHandsOut DEF Owed, KeysHandedOut
    <3>5. stale'
      BY <2>3 DEF ApplyWGFails
    <3> QED BY <3>4, <3>5 DEF Owed, KeyOnItsWay
  <2> QED BY <1>7, <2>2, <2>3 DEF OnRouter, TurnOnRedirect, TurnOnPlain, TurnOff, TurnFails
<1> QED BY <1>6, <1>7

LEMMA BeginOwes ==
    ASSUME Typed, Owed, NEW o \in Operator, NEW obj \in Object, NEW want \in BOOLEAN, Begin(o, obj, want)
    PROVE  Owed'
<1> DEFINE own == IF reload = NoReload THEN bot ELSE reload
           copy == IF o = "cli" THEN disk ELSE own
<1>1. op \in [Operator -> OpRecord] /\ op[o].pc = "idle"
  BY DEF Begin, Typed, TypeOK, OpRecord
<1>2. own.key <= keys /\ copy.key <= keys
  BY DEF Owed, KeysHandedOut
<1>3. /\ \A q \in Operator : q # o => op'[q] = op[q]
      /\ op'[o] = [pc |-> "router", object |-> obj, want |-> want, copy |-> copy]
  BY <1>1 DEF Begin
<1>4. UNCHANGED <<disk, daemon, hup, ifkey, keys, process, pass, stale>>
  BY DEF Begin, router
<1>5. (bot' = bot \/ bot' = own) /\ (reload' = reload \/ reload' = NoReload)
  BY DEF Begin
<1>6. \A q \in Operator : op'[q].copy.key <= keys
  BY <1>2, <1>3 DEF Owed, KeysHandedOut
<1>7. KeysHandedOut'
  BY <1>2, <1>4, <1>5, <1>6, NoNewKey DEF Owed, KeysHandedOut
<1>8. Carried => Carried'
  BY <1>1, <1>3, <1>4 DEF Carried
<1>9. KeyOnItsWay'
  BY <1>4, <1>8, StaysOnItsWay DEF Owed
<1> QED BY <1>7, <1>9 DEF Owed

\* The CLI hands over to the signal, the bot to its own reload.
LEMMA SaveCommandOwes == ASSUME Typed, Owed, NEW o \in Operator, SaveCommand(o) PROVE Owed'
<1>1. op \in [Operator -> OpRecord] /\ op[o].pc = "save"
  BY DEF SaveCommand, Typed, TypeOK, OpRecord
<1>2. /\ \A q \in Operator : q # o => op'[q] = op[q]
      /\ op'[o].copy.key \in {op[o].copy.key, 0}
  BY <1>1 DEF SaveCommand, IdleOp, OpRecord
<1>3. UNCHANGED <<daemon, reload, ifkey, keys, process, pass, stale>>
  BY DEF SaveCommand, router
<1>4. disk' = op[o].copy /\ (bot' = bot \/ bot' = op[o].copy)
  BY DEF SaveCommand
<1>5. \A q \in Operator : op'[q].copy.key <= keys
  BY <1>2, KeyNumbers DEF Owed, KeysHandedOut
<1>6. KeysHandedOut'
  BY <1>3, <1>4, <1>5, NoNewKey DEF Owed, KeysHandedOut
<1>7. process = "up" => Carried'
  BY <1>1 DEF SaveCommand, Carried, OpRecord
<1> QED BY <1>3, <1>6, <1>7 DEF Owed, KeyOnItsWay

LEMMA RebindOwes == ASSUME Typed, Owed, Rebind PROVE Owed'
<1>1. op \in [Operator -> OpRecord]
  BY DEF Typed, TypeOK, OpRecord
<1>2. \A q \in Operator : op'[q].copy.key \in {op[q].copy.key, 0}
  BY <1>1 DEF Rebind, IdleOp
<1>3. \A q \in Operator : op'[q].copy.key <= keys
  BY <1>2, KeyNumbers DEF Owed, KeysHandedOut
<1>4. KeysHandedOut'
  BY <1>3, NoNewKey DEF Rebind, router, Owed, KeysHandedOut
<1>5. KeyOnItsWay'
  BY DEF Rebind, KeyOnItsWay, OutOfDate, router
<1> QED BY <1>4, <1>5 DEF Owed

LEMMA HangUpOwes == ASSUME Typed, Owed, HangUp PROVE Owed'
<1>1. UNCHANGED <<disk, bot, ifkey, keys, process, pass, op>>
  BY DEF HangUp, router
<1>2. KeysHandedOut'
  BY <1>1, NoNewKey DEF HangUp, Owed, KeysHandedOut
<1>3. CASE hup = "sent"
  BY <1>1, <1>2, <1>3 DEF HangUp, Owed, KeyOnItsWay, OutOfDate
<1>4. CASE hup = "applied"
  <2>1. UNCHANGED <<daemon, stale>>
    BY <1>4 DEF HangUp
  <2>2. Carried => Carried'
    BY <1>1, <1>4 DEF Carried
  <2> QED BY <1>1, <1>2, <2>1, <2>2, StaysOnItsWay DEF Owed
<1> QED BY <1>3, <1>4 DEF HangUp

\* Once a rebuild has run through, xray holds the key of the interface (reconcileWGTransport and
\* pushRekeyedWGConfig, reconcile.go; applyWGTransportAtStartup, main.go), unless somebody gave
\* it an older copy of config.json or a step failed.
THEOREM TheKeyArrives == Spec => []KeyReachesXray
<1>1. Init => Owed
  <2> SUFFICES ASSUME Init PROVE Owed
    OBVIOUS
  <2>1. keys = 0 /\ ifkey = 0 /\ disk.key = 0 /\ daemon.key = 0 /\ bot.key = 0 /\ reload = NoReload
    BY DEF Init
  <2>2. /\ \A p \in Pass : pass[p].copy.key = 0
        /\ \A o \in Operator : op[o].copy.key = 0
    BY DEF Init, IdlePass, IdleOp
  <2>3. KeysHandedOut
    BY <2>1, <2>2 DEF KeysHandedOut
  <2> QED BY <2>1, <2>3 DEF Owed, KeyOnItsWay
<1>2. Typed /\ Owed /\ [Next]_vars => Owed'
  BY BeginPassOwes, PassRuleOwes, PassRestOwes, PassSaveOwes, PassPushOwes, HealthOwes,
     EnvironmentOwes, RestartOwes, StartLoadOwes, StartApplyOwes, OnRouterOwes, BeginOwes,
     SaveCommandOwes, RebindOwes, HangUpOwes
     DEF Next, Upkeep, Commands, Environment
<1>3. Owed => KeyReachesXray
  BY DEF Owed, KeyOnItsWay, KeyReachesXray, OutOfDate, Settled, Carried
<1> QED BY <1>1, <1>2, <1>3, AlwaysTyped, PTL DEF Spec
=============================================================================
