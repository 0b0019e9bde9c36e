----------------------------- MODULE Classifier -----------------------------
(***************************************************************************)
(* internal/classifier: which destinations the adaptive route sends into   *)
(* the tunnel.  A destination that looks blocked is put on probation (the  *)
(* test tier); ClrJudge then confirms it (ok) or drops it (cooldown), and  *)
(* enough confirmed addresses widen to their whole network (blocks).       *)
(*                                                                         *)
(* The package is pure: each Clr* function takes the state and one scan of *)
(* the router's connections and changes the state.  So are the operators   *)
(* here.  An entry is the time it has left, 0 when absent; one unit passes *)
(* between two passes of the loop.  What a scan holds about a destination  *)
(* is summed up as evidence: the flows' counters only matter through the   *)
(* thresholds they cross.                                                  *)
(***************************************************************************)
EXTENDS Integers, FiniteSets

CONSTANTS
    Proto, Addr,     \* the two protocols; destinations
    Range,           \* networks: the naive blocks and the known ranges
    BlockOf,         \* BlockOf[a]: the naive block of an address
    KnownRange,      \* KnownRange[r]: the acceptable known range r widens to, or r
    Covers,          \* Covers[r]: the addresses of a network
    Vetoed,          \* addresses of the ranges that are never classified
    TestTTL, OKTTL, OKRefreshBelow, CooldownTTL, CooldownOKTTL,
    WatchTTL, WatchRetryBelow, BlockTTL, BlockThreshold,
    OKLifetimeMultiple

ASSUME RangesAssumption ==
    /\ BlockOf \in [Addr -> Range] /\ KnownRange \in [Range -> Range]
    /\ Covers \in [Range -> SUBSET Addr] /\ Vetoed \subseteq Addr
    /\ Range \cap Addr = {}
ASSUME TTLAssumption ==
    /\ {TestTTL, OKTTL, OKRefreshBelow, CooldownTTL, CooldownOKTTL, WatchTTL,
        WatchRetryBelow, BlockTTL, OKLifetimeMultiple} \subseteq Nat \ {0}
    /\ OKRefreshBelow < OKTTL /\ WatchRetryBelow < WatchTTL
    /\ CooldownOKTTL <= CooldownTTL /\ TestTTL <= OKTTL
ASSUME ThresholdAssumption == BlockThreshold \in Nat

(***************************************************************************)
(* The state: a tier per protocol and destination, and OKSince as the time *)
(* since the confirmation, Untracked after a restart until a refresh.      *)
(***************************************************************************)
Untracked == -1
MaxOKLifetime == OKLifetimeMultiple * OKTTL

Tier(ttl) == [Proto -> [Addr -> 0 .. ttl]]
State == [test: Tier(TestTTL), ok: Tier(OKTTL), watch: Tier(WatchTTL),
          cooldown: Tier(CooldownTTL),
          since: [Proto -> [Addr -> Int]],
          blocks: [Proto -> [Range -> 0 .. BlockTTL]]]

Nothing == [p \in Proto |-> [a \in Addr |-> 0]]
NewState == [test |-> Nothing, ok |-> Nothing, watch |-> Nothing, cooldown |-> Nothing,
             since |-> [p \in Proto |-> [a \in Addr |-> Untracked]],
             blocks |-> [p \in Proto |-> [r \in Range |-> 0]]]

Less(n) == IF n > 0 THEN n - 1 ELSE 0

\* A unit of time; an expired entry counts as absent, and Expire prunes it.
Elapse(st) ==
    [test |-> [p \in Proto |-> [a \in Addr |-> Less(st.test[p][a])]],
     ok |-> [p \in Proto |-> [a \in Addr |-> Less(st.ok[p][a])]],
     watch |-> [p \in Proto |-> [a \in Addr |-> Less(st.watch[p][a])]],
     cooldown |-> [p \in Proto |-> [a \in Addr |-> Less(st.cooldown[p][a])]],
     since |-> [p \in Proto |-> [a \in Addr |->
                  IF st.ok[p][a] > 1 /\ st.since[p][a] # Untracked
                  THEN st.since[p][a] + 1 ELSE Untracked]],
     blocks |-> [p \in Proto |-> [r \in Range |-> Less(st.blocks[p][r])]]]

(***************************************************************************)
(* Evidence: what the flows of a scan to one destination show.             *)
(*   silent   a flow that sent and got next to nothing back (ClrFast's     *)
(*            cases, ClrSoft's stall);                                     *)
(*   soft     flows whose reply side went quiet or talks since the last    *)
(*            pass, in the order of the scan;                              *)
(*   verdicts what the flows of the scan say to ClrJudge: good, failed by  *)
(*            the thresholds of both tiers, or weak: by testVerdict's only *)
(***************************************************************************)
SoftSignal == {"none", "quiet", "talks", "quietThenTalks", "talksThenQuiet"}
Signals == [silent: BOOLEAN, soft: SoftSignal, verdicts: SUBSET {"good", "weak", "failed"}]
NoFlow == [silent |-> FALSE, soft |-> "none", verdicts |-> {}]

CandidateOK(st, p, a) ==
    st.ok[p][a] = 0 /\ st.test[p][a] = 0 /\ st.cooldown[p][a] = 0

\* The second sighting of watchOrConfirmLateStall: seen again near the end of
\* the watch.
LateStall(st, e, p, a) == /\ e.soft \in {"quiet", "quietThenTalks"}
                          /\ st.watch[p][a] \in 1 .. WatchRetryBelow

\* promoteTest is called for the destination in this pass.
Promoted(st, e, p, a, excluded) ==
    /\ a \notin excluded
    /\ CandidateOK(st, p, a)
    /\ e.silent \/ LateStall(st, e, p, a)

\* The watch a pass leaves on a destination it does not promote.
Watched(st, e, p, a) ==
    LET left == IF e.soft = "talksThenQuiet" THEN 0 ELSE st.watch[p][a]
    IN  CASE e.soft = "none" -> st.watch[p][a]
          [] e.soft \in {"talks", "quietThenTalks"} -> 0
          [] OTHER -> IF left > 0 THEN left
                      ELSE IF CandidateOK(st, p, a) THEN WatchTTL ELSE 0

\* ClrFast and ClrSoft.
Detect(st, ev, excluded) ==
    [st EXCEPT
       !.test = [p \in Proto |-> [a \in Addr |->
           IF Promoted(st, ev[p][a], p, a, excluded) THEN TestTTL ELSE st.test[p][a]]],
       !.watch = [p \in Proto |-> [a \in Addr |->
           IF a \in excluded THEN st.watch[p][a]
           ELSE IF Promoted(st, ev[p][a], p, a, excluded) THEN 0
           ELSE Watched(st, ev[p][a], p, a)]]]

(***************************************************************************)
(* ClrJudge.  A probation of this very pass is not judged: its redirect    *)
(* does not exist yet.  A failed flow counts only if no flow to the same   *)
(* destination is good.                                                    *)
(***************************************************************************)
FreshProbation(st, p, a) == st.test[p][a] = TestTTL

OnTrial(st, p, a) == st.test[p][a] > 0 /\ ~FreshProbation(st, p, a)

GoodThisTick(e) == "good" \in e.verdicts

FailsTest(e) == e.verdicts \cap {"weak", "failed"} # {} /\ ~GoodThisTick(e)
FailsOK(e) == "failed" \in e.verdicts /\ ~GoodThisTick(e)

Confirmed(st, e, p, a) == OnTrial(st, p, a) /\ GoodThisTick(e)
Dropped(st, e, p, a) == OnTrial(st, p, a) /\ FailsTest(e)
StoppedWorking(st, e, p, a) == st.test[p][a] = 0 /\ st.ok[p][a] > 0 /\ FailsOK(e)

\* judgeOK looks at OKSince: a healthy flow, near the end of the entry's time.
Renewable(st, e, p, a) == /\ st.test[p][a] = 0 /\ GoodThisTick(e)
                          /\ st.ok[p][a] \in 1 .. OKRefreshBelow
\* Mutant: no end to the refreshing.
RefreshedForever(st, e, p, a) == Renewable(st, e, p, a)

Refreshed(st, e, p, a) ==
    Renewable(st, e, p, a) /\ st.since[p][a] < MaxOKLifetime

Judge(st, ev) ==
    LET confirmed(p, a) == Confirmed(st, ev[p][a], p, a)
        dropped(p, a) == Dropped(st, ev[p][a], p, a)
        stopped(p, a) == StoppedWorking(st, ev[p][a], p, a)
        judged(p, a) == confirmed(p, a) \/ dropped(p, a) \/ stopped(p, a)
    IN  [st EXCEPT
           !.test = [p \in Proto |-> [a \in Addr |->
               IF judged(p, a) THEN 0 ELSE st.test[p][a]]],
           !.watch = [p \in Proto |-> [a \in Addr |->
               IF judged(p, a) THEN 0 ELSE st.watch[p][a]]],
           !.cooldown = [p \in Proto |-> [a \in Addr |->
               CASE confirmed(p, a) -> 0
                 [] dropped(p, a) -> CooldownTTL
                 [] stopped(p, a) -> CooldownOKTTL
                 [] OTHER -> st.cooldown[p][a]]],
           !.ok = [p \in Proto |-> [a \in Addr |->
               CASE confirmed(p, a) \/ Refreshed(st, ev[p][a], p, a) -> OKTTL
                 [] stopped(p, a) -> 0
                 [] OTHER -> st.ok[p][a]]],
           !.since = [p \in Proto |-> [a \in Addr |->
               CASE confirmed(p, a) -> 0
                 [] stopped(p, a) -> Untracked
                 [] Renewable(st, ev[p][a], p, a) /\ st.since[p][a] = Untracked -> 0
                 [] OTHER -> st.since[p][a]]]]

(***************************************************************************)
(* ClrBlockPromote: a network with enough confirmed addresses is widened   *)
(* to the known range around it, back to itself if an excluded address     *)
(* lies in that range, and not at all if one lies in it too.               *)
(***************************************************************************)
Overlaps(entry, excluded) == IF entry \in Range THEN Covers[entry] \cap excluded # {}
                             ELSE entry \in excluded

Crossing(st, p) ==
    {r \in Range :
        /\ BlockThreshold > 0
        /\ Cardinality({a \in Addr : st.ok[p][a] > 0 /\ BlockOf[a] = r}) >= BlockThreshold}

Promotion(r, excluded) ==
    IF Overlaps(KnownRange[r], excluded) THEN r ELSE KnownRange[r]

Widened(st, p, excluded) ==
    {r \in {Promotion(c, excluded) : c \in Crossing(st, p)} :
        ~Overlaps(r, excluded) /\ st.blocks[p][r] = 0}

Widen(st, excluded) ==
    [st EXCEPT !.blocks = [p \in Proto |-> [r \in Range |->
        IF r \in Widened(st, p, excluded) THEN BlockTTL ELSE st.blocks[p][r]]]]

(***************************************************************************)
(* ClrPurgeExcluded: forget what the operator's list now covers.           *)
(***************************************************************************)
Purge(st, list) ==
    LET without(tier) == [p \in Proto |-> [a \in Addr |->
                             IF a \in list THEN 0 ELSE tier[p][a]]]
    IN  [st EXCEPT
           !.test = without(st.test), !.ok = without(st.ok),
           !.watch = without(st.watch), !.cooldown = without(st.cooldown),
           !.since = [p \in Proto |-> [a \in Addr |->
               IF a \in list /\ (st.test[p][a] > 0 \/ st.ok[p][a] > 0)
               THEN Untracked ELSE st.since[p][a]]],
           !.blocks = [p \in Proto |-> [r \in Range |->
               IF Overlaps(r, list) THEN 0 ELSE st.blocks[p][r]]]]

\* The state holds a reason to redirect the entry.
LiveIn(st, entry) ==
    IF entry \in Range THEN \E p \in Proto : st.blocks[p][entry] > 0
    ELSE \E p \in Proto : st.test[p][entry] > 0 \/ st.ok[p][entry] > 0

\* SaveState and LoadState: the watches, the blocks and OKSince are not kept.
Persisted(st) == [NewState EXCEPT !.test = st.test, !.ok = st.ok, !.cooldown = st.cooldown]
=============================================================================
