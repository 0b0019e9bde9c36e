-------------------------- MODULE AdaptiveRouteProofs --------------------------
(***************************************************************************)
(* The safety properties of AdaptiveRoute, for any destinations, networks, *)
(* times to live, threshold, and any number of events and faults.          *)
(***************************************************************************)
EXTENDS AdaptiveRoute, TLAPS

\* The times to live are positive, and a probation is shorter than a confirmation.
LEMMA Times ==
    /\ TestTTL \in Nat /\ OKTTL \in Nat /\ BlockTTL \in Nat /\ WatchTTL \in Nat /\ CooldownTTL \in Nat
    /\ CooldownOKTTL \in Nat /\ TestTTL > 0 /\ OKTTL > 0 /\ BlockTTL > 0 /\ WatchTTL > 0
    /\ CooldownTTL > 0 /\ CooldownOKTTL <= CooldownTTL /\ TestTTL <= OKTTL
    /\ MaxOKLifetime \in Nat /\ MaxOKLifetime > 0
<1>1. OKLifetimeMultiple \in Nat /\ OKLifetimeMultiple > 0 /\ OKTTL \in Nat /\ OKTTL > 0
  BY TTLAssumption
<1>2. OKLifetimeMultiple * OKTTL \in Nat /\ OKLifetimeMultiple * OKTTL > 0
  BY <1>1
<1> QED BY <1>2, TTLAssumption DEF MaxOKLifetime

-----------------------------------------------------------------------------
(* The classifier, point by point *)

\* Time passes for every entry.
LEMMA ElapsePoint ==
    ASSUME NEW s \in State, NEW p \in Proto, NEW a \in Addr
    PROVE  /\ Elapse(s).test[p][a] = Less(s.test[p][a])
           /\ Elapse(s).ok[p][a] = Less(s.ok[p][a])
           /\ Elapse(s).since[p][a] = IF s.ok[p][a] > 1 /\ s.since[p][a] # Untracked
                                      THEN s.since[p][a] + 1 ELSE Untracked
BY DEF Elapse, State, Tier

LEMMA ElapseBlocks ==
    ASSUME NEW s \in State, NEW p \in Proto, NEW r \in Range
    PROVE  Elapse(s).blocks[p][r] = Less(s.blocks[p][r])
BY DEF Elapse, State

LEMMA ElapseType == ASSUME NEW s \in State PROVE Elapse(s) \in State
<1>1. \A n : n \in Nat => Less(n) \in 0 .. n
  BY DEF Less
<1>2. \A ttl \in Nat : \A n \in 0 .. ttl : Less(n) \in 0 .. ttl
  BY <1>1
<1>3. \A p \in Proto, a \in Addr :
         /\ s.test[p][a] \in 0 .. TestTTL /\ s.ok[p][a] \in 0 .. OKTTL /\ s.watch[p][a] \in 0 .. WatchTTL
         /\ s.cooldown[p][a] \in 0 .. CooldownTTL /\ s.since[p][a] \in Int
  BY DEF State, Tier
<1>4. \A p \in Proto, r \in Range : s.blocks[p][r] \in 0 .. BlockTTL
  BY DEF State
<1> QED BY <1>2, <1>3, <1>4, Times DEF Elapse, State, Tier, Untracked

\* A new probation is one the state had no entry for; the rest of a destination's entries stay.
LEMMA DetectPoint ==
    ASSUME NEW s \in State, NEW ev, NEW x, NEW p \in Proto, NEW a \in Addr
    PROVE  /\ Detect(s, ev, x).test[p][a]
                = IF Promoted(s, ev[p][a], p, a, x) THEN TestTTL ELSE s.test[p][a]
BY DEF Detect, State, Tier

LEMMA DetectRest ==
    ASSUME NEW s \in State, NEW ev, NEW x
    PROVE  /\ Detect(s, ev, x).ok = s.ok /\ Detect(s, ev, x).since = s.since
           /\ Detect(s, ev, x).blocks = s.blocks
BY DEF Detect, State

LEMMA DetectType == ASSUME NEW s \in State, NEW ev, NEW x PROVE Detect(s, ev, x) \in State
<1> DEFINE t == [p \in Proto |-> [a \in Addr |->
                   IF Promoted(s, ev[p][a], p, a, x) THEN TestTTL ELSE s.test[p][a]]]
           w == [p \in Proto |-> [a \in Addr |->
                   IF a \in x THEN s.watch[p][a]
                   ELSE IF Promoted(s, ev[p][a], p, a, x) THEN 0
                   ELSE Watched(s, ev[p][a], p, a)]]
<1>1. \A p \in Proto, a \in Addr : s.test[p][a] \in 0 .. TestTTL /\ s.watch[p][a] \in 0 .. WatchTTL
  BY DEF State, Tier
<1>2. ASSUME NEW p \in Proto, NEW a \in Addr, NEW e
      PROVE  Watched(s, e, p, a) \in 0 .. WatchTTL
  BY <1>1, Times DEF Watched
<1>3. t \in Tier(TestTTL)
  BY <1>1, Times DEF Tier
<1>4. w \in Tier(WatchTTL)
  BY <1>1, <1>2, Times DEF Tier
<1>5. Detect(s, ev, x) = [s EXCEPT !.test = t, !.watch = w]
  BY DEF Detect
<1> HIDE DEF t, w
<1> QED BY <1>3, <1>4, <1>5 DEF State

\* A verdict on a destination, by its kind.
LEMMA JudgePoint ==
    ASSUME NEW s \in State, NEW ev, NEW p \in Proto, NEW a \in Addr
    PROVE  LET e == ev[p][a]
               confirmed == Confirmed(s, e, p, a)
               dropped == Dropped(s, e, p, a)
               stopped == StoppedWorking(s, e, p, a)
           IN  /\ Judge(s, ev).test[p][a] = IF confirmed \/ dropped \/ stopped THEN 0 ELSE s.test[p][a]
               /\ Judge(s, ev).ok[p][a]
                    = CASE confirmed \/ Refreshed(s, e, p, a) -> OKTTL
                        [] stopped -> 0
                        [] OTHER -> s.ok[p][a]
               /\ Judge(s, ev).since[p][a]
                    = CASE confirmed -> 0
                        [] stopped -> Untracked
                        [] Renewable(s, e, p, a) /\ s.since[p][a] = Untracked -> 0
                        [] OTHER -> s.since[p][a]
BY DEF Judge, State, Tier

LEMMA JudgeRest == ASSUME NEW s \in State, NEW ev PROVE Judge(s, ev).blocks = s.blocks
BY DEF Judge, State

LEMMA JudgeType == ASSUME NEW s \in State, NEW ev PROVE Judge(s, ev) \in State
<1>1. \A p \in Proto, a \in Addr :
         /\ s.test[p][a] \in 0 .. TestTTL /\ s.ok[p][a] \in 0 .. OKTTL /\ s.watch[p][a] \in 0 .. WatchTTL
         /\ s.cooldown[p][a] \in 0 .. CooldownTTL /\ s.since[p][a] \in Int
  BY DEF State, Tier
<1> DEFINE confirmed(p, a) == Confirmed(s, ev[p][a], p, a)
           dropped(p, a) == Dropped(s, ev[p][a], p, a)
           stopped(p, a) == StoppedWorking(s, ev[p][a], p, a)
           judged(p, a) == confirmed(p, a) \/ dropped(p, a) \/ stopped(p, a)
           t == [p \in Proto |-> [a \in Addr |-> IF judged(p, a) THEN 0 ELSE s.test[p][a]]]
           w == [p \in Proto |-> [a \in Addr |-> IF judged(p, a) THEN 0 ELSE s.watch[p][a]]]
           c == [p \in Proto |-> [a \in Addr |->
                   CASE confirmed(p, a) -> 0
                     [] dropped(p, a) -> CooldownTTL
                     [] stopped(p, a) -> CooldownOKTTL
                     [] OTHER -> s.cooldown[p][a]]]
           o == [p \in Proto |-> [a \in Addr |->
                   CASE confirmed(p, a) \/ Refreshed(s, ev[p][a], p, a) -> OKTTL
                     [] stopped(p, a) -> 0
                     [] OTHER -> s.ok[p][a]]]
           n == [p \in Proto |-> [a \in Addr |->
                   CASE confirmed(p, a) -> 0
                     [] stopped(p, a) -> Untracked
                     [] Renewable(s, ev[p][a], p, a) /\ s.since[p][a] = Untracked -> 0
                     [] OTHER -> s.since[p][a]]]
<1>2. t \in Tier(TestTTL)
  BY <1>1, Times DEF Tier
<1>3. w \in Tier(WatchTTL)
  BY <1>1, Times DEF Tier
<1>4. c \in Tier(CooldownTTL)
  <2>1. CooldownTTL \in 0 .. CooldownTTL /\ CooldownOKTTL \in 0 .. CooldownTTL /\ 0 \in 0 .. CooldownTTL
    BY Times
  <2> QED BY <1>1, <2>1 DEF Tier
<1>5. o \in Tier(OKTTL)
  <2>1. OKTTL \in 0 .. OKTTL /\ 0 \in 0 .. OKTTL
    BY Times
  <2> QED BY <1>1, <2>1 DEF Tier
<1>6. n \in [Proto -> [Addr -> Int]]
  BY <1>1 DEF Untracked
<1>7. Judge(s, ev) = [s EXCEPT !.test = t, !.watch = w, !.cooldown = c, !.ok = o, !.since = n]
  BY DEF Judge
<1> HIDE DEF t, w, c, o, n
<1> QED BY <1>2, <1>3, <1>4, <1>5, <1>6, <1>7 DEF State

\* Widening only adds networks.
LEMMA WidenPoint ==
    ASSUME NEW s \in State, NEW x
    PROVE  /\ Widen(s, x).test = s.test /\ Widen(s, x).ok = s.ok /\ Widen(s, x).since = s.since
           /\ \A p \in Proto, r \in Range :
                 Widen(s, x).blocks[p][r] = IF r \in Widened(s, p, x) THEN BlockTTL ELSE s.blocks[p][r]
BY DEF Widen, State, Tier

LEMMA WidenType == ASSUME NEW s \in State, NEW x PROVE Widen(s, x) \in State
<1>1. \A p \in Proto, r \in Range : s.blocks[p][r] \in 0 .. BlockTTL
  BY DEF State
<1> DEFINE b == [p \in Proto |-> [r \in Range |->
                   IF r \in Widened(s, p, x) THEN BlockTTL ELSE s.blocks[p][r]]]
<1>2. b \in [Proto -> [Range -> 0 .. BlockTTL]]
  BY <1>1, Times
<1>3. Widen(s, x) = [s EXCEPT !.blocks = b]
  BY DEF Widen
<1> HIDE DEF b
<1> QED BY <1>2, <1>3 DEF State

\* A purge forgets what the list covers, and nothing else.
LEMMA PurgePoint ==
    ASSUME NEW s \in State, NEW x, NEW p \in Proto
    PROVE  /\ \A a \in Addr :
                 /\ Purge(s, x).test[p][a] = IF a \in x THEN 0 ELSE s.test[p][a]
                 /\ Purge(s, x).ok[p][a] = IF a \in x THEN 0 ELSE s.ok[p][a]
                 /\ a \notin x => Purge(s, x).since[p][a] = s.since[p][a]
           /\ \A r \in Range : Purge(s, x).blocks[p][r] = IF Overlaps(r, x) THEN 0 ELSE s.blocks[p][r]
BY DEF Purge, State, Tier

LEMMA PurgeType == ASSUME NEW s \in State, NEW x PROVE Purge(s, x) \in State
<1>1. \A p \in Proto, a \in Addr :
         /\ s.test[p][a] \in 0 .. TestTTL /\ s.ok[p][a] \in 0 .. OKTTL /\ s.watch[p][a] \in 0 .. WatchTTL
         /\ s.cooldown[p][a] \in 0 .. CooldownTTL /\ s.since[p][a] \in Int
  BY DEF State, Tier
<1>2. \A p \in Proto, r \in Range : s.blocks[p][r] \in 0 .. BlockTTL
  BY DEF State
<1> DEFINE without(tier) == [p \in Proto |-> [a \in Addr |-> IF a \in x THEN 0 ELSE tier[p][a]]]
           n == [p \in Proto |-> [a \in Addr |->
                   IF a \in x /\ (s.test[p][a] > 0 \/ s.ok[p][a] > 0) THEN Untracked ELSE s.since[p][a]]]
           b == [p \in Proto |-> [r \in Range |-> IF Overlaps(r, x) THEN 0 ELSE s.blocks[p][r]]]
<1>3. /\ without(s.test) \in Tier(TestTTL) /\ without(s.ok) \in Tier(OKTTL)
      /\ without(s.watch) \in Tier(WatchTTL) /\ without(s.cooldown) \in Tier(CooldownTTL)
  BY <1>1, Times DEF Tier
<1>4. n \in [Proto -> [Addr -> Int]] /\ b \in [Proto -> [Range -> 0 .. BlockTTL]]
  BY <1>1, <1>2, Times DEF Untracked
<1>5. Purge(s, x) = [s EXCEPT !.test = without(s.test), !.ok = without(s.ok), !.watch = without(s.watch),
                       !.cooldown = without(s.cooldown), !.since = n, !.blocks = b]
  BY DEF Purge
<1> HIDE DEF without, n, b
<1> QED BY <1>3, <1>4, <1>5 DEF State

LEMMA NewStateType == NewState \in State
BY Times DEF NewState, Nothing, State, Tier, Untracked

LEMMA PersistedType ==
    ASSUME NEW s \in State
    PROVE  /\ Persisted(s) \in State
           /\ \A p \in Proto, a \in Addr : Persisted(s).since[p][a] = Untracked
BY NewStateType DEF Persisted, NewState, State, Tier

-----------------------------------------------------------------------------
(* What a pass makes of the state *)

(* The properties of a state: trust that ends, nothing a list covers, and a reason for an
   entry that lasts as long as n; a saved state knows no time of confirmation. *)
Trust(s) ==
    \A p \in Proto, a \in Addr :
        s.ok[p][a] > 0 => s.since[p][a] + s.ok[p][a] < MaxOKLifetime + OKTTL
Quiet(s) == \A p \in Proto, a \in Addr : s.since[p][a] = Untracked
Clean(s, x) == \A e \in Entry : LiveIn(s, e) => ~Overlaps(e, x)
Stands(s, e, n) ==
    IF e \in Range THEN \E p \in Proto : s.blocks[p][e] >= n
    ELSE \E p \in Proto : s.test[p][e] >= n \/ s.ok[p][e] >= n

Found(s, ev, x) == Detect(s, ev, x)
Passed(s, ev, x) == Widen(Judge(Found(s, ev, x), ev), x)

\* The range of a state's entries.
LEMMA Ranges ==
    ASSUME NEW s \in State, NEW p \in Proto
    PROVE  /\ \A a \in Addr : /\ s.test[p][a] \in Nat /\ s.test[p][a] <= TestTTL
                             /\ s.ok[p][a] \in Nat /\ s.ok[p][a] <= OKTTL /\ s.since[p][a] \in Int
           /\ \A r \in Range : s.blocks[p][r] \in Nat /\ s.blocks[p][r] <= BlockTTL
BY Times DEF State, Tier

\* Entries are addresses or networks, never both.
LEMMA Entries == ASSUME NEW e \in Entry, e \notin Range PROVE e \in Addr
BY DEF Entry

LEMMA PassType ==
    ASSUME NEW s \in State, NEW ev, NEW x
    PROVE  /\ Found(s, ev, x) \in State /\ Judge(Found(s, ev, x), ev) \in State
           /\ Passed(s, ev, x) \in State
<1>1. Found(s, ev, x) \in State
  BY DetectType DEF Found
<1>2. Judge(Found(s, ev, x), ev) \in State
  BY <1>1, JudgeType
<1> QED BY <1>1, <1>2, WidenType DEF Passed

\* Without a time of confirmation an entry ends with its own time.
LEMMA QuietTrust == ASSUME NEW s \in State, Quiet(s) PROVE Trust(s)
BY Ranges, Times DEF Quiet, Trust, Untracked

LEMMA ElapseTrust == ASSUME NEW s \in State, Trust(s) PROVE Trust(Elapse(s))
<1> SUFFICES ASSUME NEW p \in Proto, NEW a \in Addr, Elapse(s).ok[p][a] > 0
             PROVE  Elapse(s).since[p][a] + Elapse(s).ok[p][a] < MaxOKLifetime + OKTTL
  BY DEF Trust
<1> QED BY ElapsePoint, Ranges, Times DEF Trust, Less, Untracked

LEMMA PurgeTrust == ASSUME NEW s \in State, NEW x, Trust(s) PROVE Trust(Purge(s, x))
<1> SUFFICES ASSUME NEW p \in Proto, NEW a \in Addr, Purge(s, x).ok[p][a] > 0
             PROVE  Purge(s, x).since[p][a] + Purge(s, x).ok[p][a] < MaxOKLifetime + OKTTL
  BY DEF Trust
<1> QED BY PurgePoint DEF Trust

LEMMA PassTrust == ASSUME NEW s \in State, NEW ev, NEW x, Trust(s) PROVE Trust(Passed(s, ev, x))
<1> SUFFICES ASSUME NEW p \in Proto, NEW a \in Addr, Passed(s, ev, x).ok[p][a] > 0
             PROVE  Passed(s, ev, x).since[p][a] + Passed(s, ev, x).ok[p][a] < MaxOKLifetime + OKTTL
  BY DEF Trust
<1> DEFINE f == Found(s, ev, x)
           j == Judge(f, ev)
<1>1. f \in State /\ j \in State
  BY PassType
<1>2. f.ok = s.ok /\ f.since = s.since
  BY DetectRest DEF Found
<1>3. Passed(s, ev, x).ok = j.ok /\ Passed(s, ev, x).since = j.since
  BY <1>1, WidenPoint DEF Passed
<1>4. s.ok[p][a] \in Nat /\ s.ok[p][a] <= OKTTL /\ s.since[p][a] \in Int
  BY Ranges
<1>5. s.ok[p][a] > 0 => s.since[p][a] + s.ok[p][a] < MaxOKLifetime + OKTTL
  BY DEF Trust
<1> HIDE DEF f, j
<1>6. j.since[p][a] + j.ok[p][a] < MaxOKLifetime + OKTTL
  <2>1. CASE Confirmed(f, ev[p][a], p, a)
    <3>1. ~StoppedWorking(f, ev[p][a], p, a) /\ ~Renewable(f, ev[p][a], p, a)
      BY <1>1, <2>1, Ranges DEF Confirmed, OnTrial, StoppedWorking, Renewable
    <3>2. j.ok[p][a] = OKTTL /\ j.since[p][a] = 0
      BY <1>1, <2>1, <3>1, JudgePoint DEF j
    <3> QED BY <3>2, Times
  <2>2. CASE ~Confirmed(f, ev[p][a], p, a) /\ Refreshed(f, ev[p][a], p, a)
    <3>1. f.since[p][a] < MaxOKLifetime /\ Renewable(f, ev[p][a], p, a)
      BY <2>2 DEF Refreshed
    <3>2. ~StoppedWorking(f, ev[p][a], p, a)
      BY <3>1 DEF Renewable, StoppedWorking, FailsOK
    <3>3. j.ok[p][a] = OKTTL /\ j.since[p][a] \in {0, f.since[p][a]}
      BY <1>1, <2>2, <3>1, <3>2, JudgePoint DEF j
    <3> QED BY <1>2, <1>4, <3>1, <3>3, Times
  <2>3. CASE ~Confirmed(f, ev[p][a], p, a) /\ ~Refreshed(f, ev[p][a], p, a)
    <3>1. ~StoppedWorking(f, ev[p][a], p, a)
      BY <1>1, <1>3, <2>3, JudgePoint DEF j
    <3>2. j.ok[p][a] = s.ok[p][a]
      BY <1>1, <1>2, <2>3, <3>1, JudgePoint DEF j
    <3>3. j.since[p][a] = s.since[p][a] \/ (j.since[p][a] = 0 /\ s.since[p][a] = Untracked)
      BY <1>1, <1>2, <2>3, <3>1, JudgePoint DEF j
    <3>4. CASE j.since[p][a] = s.since[p][a]
      BY <1>3, <1>5, <3>2, <3>4
    <3>5. CASE j.since[p][a] = 0
      BY <1>3, <1>4, <3>2, <3>5, Times
    <3> QED BY <3>3, <3>4, <3>5
  <2> QED BY <2>1, <2>2, <2>3
<1> QED BY <1>3, <1>6

\* An entry that still has time had some before.
LEMMA ElapseLive ==
    ASSUME NEW s \in State, NEW e \in Entry, LiveIn(Elapse(s), e) PROVE LiveIn(s, e)
<1>1. CASE e \in Range
  BY <1>1, ElapsePoint, Ranges, ElapseBlocks DEF LiveIn, Less
<1>2. CASE e \notin Range
  BY <1>2, Entries, ElapsePoint, Ranges DEF LiveIn, Less
<1> QED BY <1>1, <1>2

LEMMA ElapseClean == ASSUME NEW s \in State, NEW x, Clean(s, x) PROVE Clean(Elapse(s), x)
BY ElapseLive DEF Clean

LEMMA PurgeClean == ASSUME NEW s \in State, NEW x PROVE Clean(Purge(s, x), x)
<1> SUFFICES ASSUME NEW e \in Entry, LiveIn(Purge(s, x), e) PROVE ~Overlaps(e, x)
  BY DEF Clean
<1>1. CASE e \in Range
  BY <1>1, PurgePoint DEF LiveIn
<1>2. CASE e \notin Range
  BY <1>2, Entries, PurgePoint DEF LiveIn, Overlaps
<1> QED BY <1>1, <1>2

LEMMA FoundClean ==
    ASSUME NEW s \in State, NEW ev, NEW x, NEW y, x \subseteq y, Clean(s, x)
    PROVE  Clean(Found(s, ev, y), x)
<1> SUFFICES ASSUME NEW e \in Entry, LiveIn(Found(s, ev, y), e) PROVE ~Overlaps(e, x)
  BY DEF Clean
<1>1. CASE e \in Range
  <2>1. LiveIn(s, e)
    BY <1>1, DetectRest DEF LiveIn, Found
  <2> QED BY <2>1 DEF Clean
<1>2. CASE e \notin Range
  <2>1. PICK p \in Proto : Found(s, ev, y).test[p][e] > 0 \/ Found(s, ev, y).ok[p][e] > 0
    BY <1>2 DEF LiveIn
  <2>2. CASE Promoted(s, ev[p][e], p, e, y)
    BY <1>2, <2>2 DEF Promoted, Overlaps
  <2>3. CASE ~Promoted(s, ev[p][e], p, e, y)
    <3>1. s.test[p][e] > 0 \/ s.ok[p][e] > 0
      BY <1>2, <2>1, <2>3, Entries, DetectPoint, DetectRest DEF Found
    <3> QED BY <1>2, <3>1 DEF LiveIn, Clean
  <2> QED BY <2>2, <2>3
<1> QED BY <1>1, <1>2

\* What a verdict leaves live was live, but for a renewed confirmation: that was too.
LEMMA JudgeLive ==
    ASSUME NEW s \in State, NEW ev, NEW e \in Entry, LiveIn(Judge(s, ev), e) PROVE LiveIn(s, e)
<1>1. CASE e \in Range
  BY <1>1, JudgeRest DEF LiveIn
<1>2. CASE e \notin Range
  <2>1. PICK p \in Proto : Judge(s, ev).test[p][e] > 0 \/ Judge(s, ev).ok[p][e] > 0
    BY <1>2 DEF LiveIn
  <2>2. e \in Addr
    BY <1>2, Entries
  <2>3. CASE Confirmed(s, ev[p][e], p, e) \/ Refreshed(s, ev[p][e], p, e)
    <3>1. s.test[p][e] > 0 \/ s.ok[p][e] > 0
      BY <2>2, <2>3, Ranges DEF Confirmed, OnTrial, Refreshed, Renewable
    <3> QED BY <1>2, <3>1 DEF LiveIn
  <2>4. CASE ~Confirmed(s, ev[p][e], p, e) /\ ~Refreshed(s, ev[p][e], p, e)
    <3>1. s.test[p][e] > 0 \/ s.ok[p][e] > 0
      BY <2>1, <2>2, <2>4, JudgePoint
    <3> QED BY <1>2, <3>1 DEF LiveIn
  <2> QED BY <2>3, <2>4
<1> QED BY <1>1, <1>2

LEMMA PassClean ==
    ASSUME NEW s \in State, NEW ev, NEW x, NEW y, x \subseteq y, Clean(s, x)
    PROVE  Clean(Passed(s, ev, y), x)
<1> DEFINE j == Judge(Found(s, ev, y), ev)
<1>1. j \in State /\ Found(s, ev, y) \in State
  BY PassType
<1>2. Clean(j, x)
  BY <1>1, FoundClean, JudgeLive DEF Clean
<1> SUFFICES ASSUME NEW e \in Entry, LiveIn(Passed(s, ev, y), e) PROVE ~Overlaps(e, x)
  BY DEF Clean
<1> HIDE DEF j
<1>3. CASE e \in Range
  <2>1. PICK p \in Proto : Passed(s, ev, y).blocks[p][e] > 0
    BY <1>3 DEF LiveIn
  <2>2. CASE e \in Widened(j, p, y)
    <3>1. ~Overlaps(e, y)
      BY <2>2 DEF Widened
    <3> QED BY <1>3, <3>1 DEF Overlaps
  <2>3. CASE e \notin Widened(j, p, y)
    <3>1. j.blocks[p][e] > 0
      BY <1>1, <1>3, <2>1, <2>3, WidenPoint DEF Passed, j
    <3> QED BY <1>2, <1>3, <3>1 DEF Clean, LiveIn
  <2> QED BY <2>2, <2>3
<1>4. CASE e \notin Range
  <2>1. LiveIn(j, e)
    BY <1>1, <1>4, WidenPoint DEF Passed, LiveIn, j
  <2> QED BY <1>2, <2>1 DEF Clean
<1> QED BY <1>3, <1>4

\* A reason lasts while time passes on both sides.
LEMMA ElapseStands ==
    ASSUME NEW s \in State, NEW e \in Entry, NEW n \in Nat, Stands(s, e, n)
    PROVE  Stands(Elapse(s), e, Less(n))
<1>1. \A m \in Nat : m >= n => Less(m) >= Less(n)
  BY DEF Less
<1>2. CASE e \in Range
  BY <1>1, <1>2, ElapseBlocks, Ranges DEF Stands
<1>3. CASE e \notin Range
  BY <1>1, <1>3, Entries, ElapsePoint, Ranges DEF Stands
<1> QED BY <1>2, <1>3

LEMMA StandsLive ==
    ASSUME NEW s \in State, NEW e \in Entry, NEW n \in Nat, n > 0, Stands(s, e, n) PROVE LiveIn(s, e)
<1>1. CASE e \in Range
  BY <1>1, Ranges DEF Stands, LiveIn
<1>2. CASE e \notin Range
  BY <1>2, Entries, Ranges DEF Stands, LiveIn
<1> QED BY <1>1, <1>2

\* A purge leaves the reason of what it does not cover.
LEMMA PurgeStands ==
    ASSUME NEW s \in State, NEW x, NEW e \in Entry, NEW n \in Nat, Stands(s, e, n), ~Overlaps(e, x)
    PROVE  Stands(Purge(s, x), e, n)
<1>1. CASE e \in Range
  BY <1>1, PurgePoint DEF Stands
<1>2. CASE e \notin Range
  BY <1>2, Entries, PurgePoint DEF Stands, Overlaps
<1> QED BY <1>1, <1>2

\* A pass takes a reason away only where it orders the removal.
LEMMA PassStands ==
    ASSUME NEW s \in State, NEW ev, NEW x, NEW e \in Entry, NEW n \in Nat, n > 0, Stands(s, e, n)
    PROVE  Stands(Passed(s, ev, x), e, n) \/ Del(e, 2) \in Verdicts(Found(s, ev, x), ev)
<1> DEFINE f == Found(s, ev, x)
           j == Judge(f, ev)
<1>1. f \in State /\ j \in State
  BY PassType
<1>2. CASE e \in Range
  <2>1. PICK p \in Proto : s.blocks[p][e] >= n
    BY <1>2 DEF Stands
  <2>2. j.blocks[p][e] = s.blocks[p][e]
    BY <1>1, DetectRest, JudgeRest DEF Found
  <2>3. s.blocks[p][e] <= BlockTTL /\ s.blocks[p][e] \in Nat
    BY <1>2, Ranges
  <2>4. Passed(s, ev, x).blocks[p][e] \in {j.blocks[p][e], BlockTTL}
    BY <1>1, <1>2, WidenPoint DEF Passed
  <2>5. Passed(s, ev, x).blocks[p][e] >= n
    BY <2>1, <2>2, <2>3, <2>4, Times
  <2> QED BY <1>2, <2>5 DEF Stands
<1>3. CASE e \notin Range
  <2>1. e \in Addr
    BY <1>3, Entries
  <2>2. PICK p \in Proto : s.test[p][e] >= n \/ s.ok[p][e] >= n
    BY <1>3 DEF Stands
  <2>3. /\ s.test[p][e] \in Nat /\ s.test[p][e] <= TestTTL
        /\ s.ok[p][e] \in Nat /\ s.ok[p][e] <= OKTTL
    BY <2>1, Ranges
  <2>4. ~Promoted(s, ev[p][e], p, e, x)
    BY <2>2, <2>3 DEF Promoted, CandidateOK
  <2>5. f.test[p][e] = s.test[p][e] /\ f.ok[p][e] = s.ok[p][e]
    BY <2>1, <2>4, DetectPoint, DetectRest DEF Found
  <2>6. Passed(s, ev, x).test = j.test /\ Passed(s, ev, x).ok = j.ok
    BY <1>1, WidenPoint DEF Passed
  <2> HIDE DEF f, j
  <2>7. CASE Dropped(f, ev[p][e], p, e) \/ StoppedWorking(f, ev[p][e], p, e)
    <3>1. Del(e, 2) \in Verdicts(f, ev)
      <4>1. <<p, e>> \in Proto \X Addr /\ <<p, e>>[1] = p /\ <<p, e>>[2] = e
        BY <2>1
      <4> QED BY <2>7, <4>1 DEF Verdicts
    <3> QED BY <3>1 DEF f
  <2>8. CASE /\ ~Dropped(f, ev[p][e], p, e) /\ ~StoppedWorking(f, ev[p][e], p, e)
             /\ Confirmed(f, ev[p][e], p, e) \/ Refreshed(f, ev[p][e], p, e)
    <3>1. j.ok[p][e] = OKTTL
      BY <1>1, <2>1, <2>8, JudgePoint DEF j
    <3>2. OKTTL >= n
      BY <2>2, <2>3, Times
    <3> QED BY <1>3, <2>6, <3>1, <3>2 DEF Stands
  <2>9. CASE /\ ~Dropped(f, ev[p][e], p, e) /\ ~StoppedWorking(f, ev[p][e], p, e)
             /\ ~Confirmed(f, ev[p][e], p, e) /\ ~Refreshed(f, ev[p][e], p, e)
    <3>1. j.ok[p][e] = f.ok[p][e] /\ j.test[p][e] = f.test[p][e]
      BY <1>1, <2>1, <2>9, JudgePoint DEF j
    <3> QED BY <1>3, <2>2, <2>5, <2>6, <3>1 DEF Stands
  <2> QED BY <2>7, <2>8, <2>9
<1> QED BY <1>2, <1>3

(* The actions a pass orders. *)
Ordered(s, ev, x) ==
    LET f == Found(s, ev, x) IN Probations(f) \cup Verdicts(f, ev) \cup Blocks(Judge(f, ev), x)
Ops == [kind : {"add", "del"}, entry : Entry, ttl : Nat, stage : 1 .. 3]
Sound(o) == o \in Ops /\ (o.kind = "del" => o.ttl = 0) /\ (o.kind = "add" => o.ttl > 0)

LEMMA AddsAndDels ==
    /\ \A e \in Entry, n \in Nat, k \in 1 .. 3 :
          n > 0 => Sound(Add(e, n, k)) /\ Add(e, n, k).entry = e /\ Add(e, n, k).ttl = n /\ Add(e, n, k).kind = "add"
    /\ \A e \in Entry, k \in 1 .. 3 : Sound(Del(e, k)) /\ Del(e, k).entry = e /\ Del(e, k).kind = "del"
BY DEF Add, Del, Ops, Sound

\* Each is a well-formed action, and each addition has its reason in the state the pass leaves.
LEMMA PassAdds ==
    ASSUME NEW s \in State, NEW ev, NEW x, NEW o \in Ordered(s, ev, x)
    PROVE  Sound(o) /\ (o.kind = "add" => Stands(Passed(s, ev, x), o.entry, o.ttl))
<1> DEFINE f == Found(s, ev, x)
           j == Judge(f, ev)
<1>1. f \in State /\ j \in State
  BY PassType
<1>2. Passed(s, ev, x).test = j.test /\ Passed(s, ev, x).ok = j.ok
  BY <1>1, WidenPoint DEF Passed
<1>3. \A a \in Addr : a \in Entry /\ a \notin Range
  BY RangesAssumption DEF Entry
<1> HIDE DEF f, j
<1>4. CASE o \in Probations(f)
  <2>1. PICK a \in Addr, p \in Proto : o = Add(a, TestTTL, 1) /\ FreshProbation(f, p, a)
    BY <1>4 DEF Probations
  <2>2. f.test[p][a] = TestTTL /\ f.test[p][a] > 0
    BY <2>1, Times DEF FreshProbation
  <2>3. /\ ~Confirmed(f, ev[p][a], p, a) /\ ~Dropped(f, ev[p][a], p, a)
        /\ ~StoppedWorking(f, ev[p][a], p, a)
    BY <2>1, <2>2 DEF Confirmed, Dropped, OnTrial, StoppedWorking
  <2>4. j.test[p][a] = TestTTL
    BY <1>1, <2>2, <2>3, JudgePoint DEF j
  <2>5. Sound(o) /\ o.entry = a /\ o.ttl = TestTTL
    BY <1>3, <2>1, Times, AddsAndDels
  <2> QED BY <1>2, <1>3, <2>4, <2>5, Times DEF Stands
<1>5. CASE o \in Verdicts(f, ev)
  <2>1. CASE \E k \in Proto \X Addr : o = Del(k[2], 2)
    BY <1>3, <2>1, AddsAndDels
  <2>2. CASE \E k \in Proto \X Addr :
               /\ o = Add(k[2], OKTTL, 2)
               /\ \/ Confirmed(f, ev[k[1]][k[2]], k[1], k[2])
                  \/ Refreshed(f, ev[k[1]][k[2]], k[1], k[2])
    <3>1. PICK p \in Proto, a \in Addr :
             /\ o = Add(a, OKTTL, 2)
             /\ Confirmed(f, ev[p][a], p, a) \/ Refreshed(f, ev[p][a], p, a)
      BY <2>2
    <3>2. ~StoppedWorking(f, ev[p][a], p, a)
      BY <3>1 DEF Confirmed, OnTrial, Refreshed, Renewable, StoppedWorking, FailsOK
    <3>3. j.ok[p][a] = OKTTL
      BY <1>1, <3>1, <3>2, JudgePoint DEF j
    <3>4. Sound(o) /\ o.entry = a /\ o.ttl = OKTTL
      BY <1>3, <3>1, Times, AddsAndDels
    <3> QED BY <1>2, <1>3, <3>3, <3>4, Times DEF Stands
  <2> QED BY <1>5, <2>1, <2>2 DEF Verdicts
<1>6. CASE o \in Blocks(j, x)
  <2>1. PICK p \in Proto : \E r \in Widened(j, p, x) : o = Add(r, BlockTTL, 3)
    BY <1>6 DEF Blocks
  <2> PICK r \in Widened(j, p, x) : o = Add(r, BlockTTL, 3)
    BY <2>1
  <2>2. r \in Range
    BY RangesAssumption DEF Widened, Promotion, Crossing
  <2>3. Passed(s, ev, x).blocks[p][r] = BlockTTL
    BY <1>1, <2>2, WidenPoint DEF Passed, j, f
  <2>4. Sound(o) /\ o.entry = r /\ o.ttl = BlockTTL
    BY <2>2, Times, AddsAndDels DEF Entry
  <2> QED BY <2>2, <2>3, <2>4, Times DEF Stands
<1> QED BY <1>4, <1>5, <1>6 DEF Ordered, f, j

-----------------------------------------------------------------------------
(* The invariant *)

(* Where the loop is and what it still has to carry out. *)
Types ==
    /\ st \in State /\ saved \in State /\ Quiet(saved) /\ ipset \in [Entry -> Nat]
    /\ list \subseteq Addr /\ seen \in (SUBSET Addr) \cup {Unread}
    /\ loop \in {"down", "idle", "purge", "sweep", "scan", "apply"}
    /\ \A o \in todo : Sound(o)
    /\ loop \notin {"purge", "apply"} => todo = {}
    /\ loop = "purge" => \A o \in todo : o.kind = "del"

(* Every addition to come has its reason, every entry in the set has one, is on its way out,
   is left over or is there by the SNI watcher's word. *)
OnItsWayOut(e) == \E o \in todo : o.entry = e /\ o.kind = "del"
Reasons ==
    loop # "down" =>
        /\ \A o \in todo : o.kind = "add" => Stands(st, o.entry, o.ttl)
        /\ \A e \in InSet(ipset) \ NotOurs : Stands(st, e, ipset[e]) \/ OnItsWayOut(e)

(* What the loop has read is out of the state and of what it orders, and of the set once the
   set has been swept, but for what the watcher put back since. *)
Out ==
    loop # "down" /\ seen # Unread =>
        /\ Clean(st, seen)
        /\ \A o \in todo : o.kind = "add" => ~Overlaps(o.entry, seen)
        /\ loop \in {"idle", "scan", "apply"} /\ ~missed
              => \A e \in InSet(ipset) \ late : ~Overlaps(e, seen)

Inv == Types /\ Trust(st) /\ Reasons /\ Out

\* At the start there is nothing to have a reason for.
LEMMA InitInv == Init => Inv
<1> SUFFICES ASSUME Init PROVE Inv
  OBVIOUS
<1>1. Quiet(NewState)
  BY DEF Quiet, NewState
<1>2. Types
  BY <1>1, NewStateType DEF Init, Types
<1>3. Trust(st)
  BY <1>1, NewStateType, QuietTrust DEF Init
<1>4. Reasons /\ Out
  BY DEF Init, Reasons, Out, InSet
<1> QED BY <1>2, <1>3, <1>4 DEF Inv

-----------------------------------------------------------------------------
(* The loop *)

\* Time passes for the set, the saved state and what is left over.
LEMMA TimeType ==
    ASSUME Types, TimePasses
    PROVE  /\ saved' \in State /\ Quiet(saved') /\ ipset' \in [Entry -> Nat]
           /\ \A e \in Entry : ipset'[e] = Less(ipset[e])
           /\ \A e \in InSet(ipset') \ NotOurs' : e \in InSet(ipset) \ NotOurs
           /\ InSet(ipset') \subseteq InSet(ipset)
           /\ \A e \in InSet(ipset') \ late' : e \in InSet(ipset) \ late
<1>1. \A n \in Nat : Less(n) \in Nat /\ (Less(n) > 0 => n > 0)
  BY DEF Less
<1>2. ipset \in [Entry -> Nat] /\ saved \in State /\ Quiet(saved)
  BY DEF Types
<1>3. ipset' \in [Entry -> Nat] /\ \A e \in Entry : ipset'[e] = Less(ipset[e])
  BY <1>1, <1>2 DEF TimePasses
<1>4. saved' \in State
  BY <1>2, ElapseType DEF TimePasses
<1>5. Quiet(saved')
  BY <1>2, ElapsePoint DEF TimePasses, Quiet
<1>6. InSet(ipset') \subseteq InSet(ipset)
  BY <1>1, <1>2, <1>3 DEF InSet
<1>7. \A e \in InSet(ipset') \ NotOurs' : e \notin NotOurs
  BY <1>3 DEF TimePasses, InSet, NotOurs
<1>8. \A e \in InSet(ipset') \ late' : e \notin late
  BY <1>3 DEF TimePasses, InSet
<1> QED BY <1>3, <1>4, <1>5, <1>6, <1>7, <1>8

LEMMA BeginTickKeeps == ASSUME Inv, BeginTick PROVE Inv'
<1> DEFINE now == Elapse(st)
           changed == list # seen /\ (list # {} \/ seen # Unread)
<1>1. /\ TimePasses /\ seen' = list /\ loop = "idle" /\ UNCHANGED <<list, missed>>
      /\ st' = (IF changed THEN Purge(now, list) ELSE now)
      /\ todo' = (IF changed THEN {Del(e, 1) : e \in {x \in Entry : LiveIn(now, x) /\ Overlaps(x, list)}}
                  ELSE {})
      /\ loop' = (IF changed THEN "purge" ELSE "scan")
  BY DEF BeginTick
<1>2. /\ st \in State /\ now \in State /\ list \subseteq Addr /\ todo = {} /\ ipset \in [Entry -> Nat]
      /\ Trust(now)
  BY <1>1, ElapseType, ElapseTrust DEF Inv, Types
<1>3. \A e \in InSet(ipset) \ NotOurs : Stands(st, e, ipset[e])
  BY <1>1, <1>2 DEF Inv, Reasons, OnItsWayOut
<1>4. \A e \in InSet(ipset') \ NotOurs' : e \in Entry /\ ipset'[e] \in Nat /\ ipset'[e] > 0 /\ Stands(now, e, ipset'[e])
  BY <1>1, <1>2, <1>3, TimeType, ElapseStands DEF Inv, InSet
<1> HIDE DEF now, changed
<1>5. CASE changed
  <2>1. st' = Purge(now, list) /\ st' \in State /\ Trust(st')
    BY <1>1, <1>2, <1>5, PurgeType, PurgeTrust
  <2>2. ASSUME NEW o \in todo' PROVE Sound(o) /\ o.kind = "del"
    BY <1>1, <1>5, AddsAndDels
  <2>3. Types'
    BY <1>1, <1>2, <1>5, <2>1, <2>2, TimeType DEF Inv, Types
  <2>4. Reasons'
    <3>1. ASSUME NEW e \in InSet(ipset') \ NotOurs'
          PROVE  Stands(st', e, ipset'[e]) \/ \E o \in todo' : o.entry = e /\ o.kind = "del"
      <4>1. e \in Entry /\ ipset'[e] \in Nat /\ Stands(now, e, ipset'[e]) /\ LiveIn(now, e)
        BY <1>2, <1>4, StandsLive
      <4>2. CASE Overlaps(e, list)
        <5>1. Del(e, 1) \in todo'
          BY <1>1, <1>5, <4>1, <4>2
        <5> QED BY <4>1, <5>1, AddsAndDels
      <4>3. CASE ~Overlaps(e, list)
        BY <1>2, <2>1, <4>1, <4>3, PurgeStands
      <4> QED BY <4>2, <4>3
    <3> QED BY <2>2, <3>1 DEF Reasons, OnItsWayOut
  <2>5. Out'
    BY <1>1, <1>2, <1>5, <2>1, <2>2, PurgeClean DEF Out
  <2> QED BY <2>1, <2>3, <2>4, <2>5 DEF Inv
<1>6. CASE ~changed
  <2>1. st' = now /\ todo' = {} /\ loop' = "scan"
    BY <1>1, <1>6
  <2>2. Types'
    BY <1>1, <1>2, <2>1, TimeType DEF Inv, Types
  <2>3. Reasons'
    BY <1>4, <2>1 DEF Reasons
  <2>4. Out'
    <3>1. CASE list = {}
      BY <1>1, <2>1, <3>1 DEF Out, Clean, Overlaps
    <3>2. CASE list = seen
      <4>1. seen # Unread
        BY <1>2, <3>2, ListAssumption
      <4>2. Clean(now, seen)
        BY <1>1, <1>2, <4>1, ElapseClean DEF now, Inv, Out
      <4>3. ~missed => \A e \in InSet(ipset') \ late' : ~Overlaps(e, seen)
        BY <1>1, <4>1, TimeType DEF Inv, Out
      <4> QED BY <1>1, <2>1, <3>2, <4>2, <4>3 DEF Out
    <3> QED BY <1>6, <3>1, <3>2 DEF changed
  <2> QED BY <1>2, <2>1, <2>2, <2>3, <2>4 DEF Inv
<1> QED BY <1>5, <1>6

LEMMA SkipTickKeeps == ASSUME Inv, SkipTick PROVE Inv'
<1>1. /\ TimePasses /\ st' = Elapse(st) /\ loop = "idle"
      /\ UNCHANGED <<todo, loop, seen, list, missed>>
  BY DEF SkipTick
<1>2. st \in State /\ st' \in State /\ Trust(st') /\ todo = {} /\ ipset \in [Entry -> Nat]
  BY <1>1, ElapseType, ElapseTrust DEF Inv, Types
<1>3. Types'
  BY <1>1, <1>2, TimeType DEF Inv, Types
<1>4. Reasons'
  <2>1. \A e \in InSet(ipset) \ NotOurs : Stands(st, e, ipset[e])
    BY <1>1, <1>2 DEF Inv, Reasons, OnItsWayOut
  <2>2. \A e \in InSet(ipset') \ NotOurs' : Stands(st', e, ipset'[e])
    BY <1>1, <1>2, <2>1, TimeType, ElapseStands DEF Inv, InSet
  <2> QED BY <1>1, <1>2, <2>2 DEF Reasons
<1>5. Out'
  BY <1>1, <1>2, TimeType, ElapseClean DEF Inv, Out
<1> QED BY <1>2, <1>3, <1>4, <1>5 DEF Inv

LEMMA ScanKeeps == ASSUME Inv, NEW ev, Scan(ev) PROVE Inv'
<1>1. /\ loop = "scan" /\ loop' = "apply" /\ UNCHANGED <<ipset, seen, list, saved, NotOurs, late, missed>>
      /\ st' = Passed(st, ev, Excluded) /\ todo' = Ordered(st, ev, Excluded)
  BY DEF Scan, Passed, Found, Ordered, disk, sni, NotOurs
<1>2. st \in State /\ st' \in State /\ Trust(st') /\ todo = {}
  BY <1>1, PassType, PassTrust DEF Inv, Types
<1>3. \A o \in todo' : Sound(o) /\ (o.kind = "add" => Stands(st', o.entry, o.ttl))
  BY <1>1, <1>2, PassAdds
<1>4. Types'
  BY <1>1, <1>2, <1>3 DEF Inv, Types
<1>5. Reasons'
  <2>1. ASSUME NEW e \in InSet(ipset) \ NotOurs
        PROVE  Stands(st', e, ipset[e]) \/ \E o \in todo' : o.entry = e /\ o.kind = "del"
    <3>1. e \in Entry /\ ipset[e] \in Nat /\ ipset[e] > 0 /\ Stands(st, e, ipset[e])
      BY <1>1, <1>2 DEF Inv, Types, InSet, Reasons, OnItsWayOut
    <3>2. Stands(st', e, ipset[e]) \/ Del(e, 2) \in Verdicts(Found(st, ev, Excluded), ev)
      BY <1>1, <1>2, <3>1, PassStands
    <3> QED BY <1>1, <3>1, <3>2, AddsAndDels DEF Ordered
  <2> QED BY <1>1, <1>3, <2>1 DEF Reasons, OnItsWayOut
<1>6. Out'
  <2>1. SUFFICES ASSUME seen # Unread
                 PROVE  /\ Clean(st', seen) /\ \A o \in todo' : o.kind = "add" => ~Overlaps(o.entry, seen)
                        /\ ~missed => \A e \in InSet(ipset) \ late : ~Overlaps(e, seen)
    BY <1>1 DEF Out
  <2>2. Clean(st', seen)
    BY <1>1, <1>2, <2>1, PassClean DEF Inv, Out, Excluded
  <2>3. ASSUME NEW o \in todo', o.kind = "add" PROVE ~Overlaps(o.entry, seen)
    <3>1. LiveIn(st', o.entry) /\ o.entry \in Entry
      BY <1>2, <1>3, <2>3, StandsLive DEF Sound, Ops
    <3> QED BY <2>2, <3>1 DEF Clean
  <2> QED BY <1>1, <2>1, <2>2, <2>3 DEF Inv, Out
<1> QED BY <1>2, <1>4, <1>5, <1>6 DEF Inv

\* A command carried out takes its place in the set.
LEMMA CarryKeeps == ASSUME Inv, NEW o \in todo, Carry(o) PROVE Inv'
<1>1. /\ loop \in {"purge", "apply"} /\ ipset' = [ipset EXCEPT ![o.entry] = o.ttl]
      /\ todo' = todo \ {o} /\ NotOurs' = NotOurs \ {o.entry}
      /\ loop' \in {loop, IF loop = "purge" THEN "sweep" ELSE "idle"}
      /\ (todo' # {} => loop' = loop)
      /\ late' = late \ {o.entry}
      /\ UNCHANGED <<st, seen, list, saved, missed>>
  BY DEF Carry, Proceed, disk, Forget, NotOurs
<1>2. Sound(o) /\ o.entry \in Entry /\ o.ttl \in Nat /\ o.kind \in {"add", "del"}
  BY DEF Inv, Types, Sound, Ops
<1>3. ipset \in [Entry -> Nat] /\ ipset' \in [Entry -> Nat]
  BY <1>1, <1>2 DEF Inv, Types
<1>4. \A e \in Entry : ipset'[e] = IF e = o.entry THEN o.ttl ELSE ipset[e]
  BY <1>1, <1>3
<1>5. Types'
  <2>1. \A u \in todo' : u \in todo
    BY <1>1
  <2>2. loop' \in {"down", "idle", "purge", "sweep", "scan", "apply"} /\ (loop' = "purge" => loop = "purge")
    BY <1>1
  <2>3. loop' \notin {"purge", "apply"} => todo' = {}
    BY <1>1
  <2> QED BY <1>1, <1>3, <2>1, <2>2, <2>3 DEF Inv, Types
<1>6. Reasons'
  <2>1. \A u \in todo : u.kind = "add" => Stands(st, u.entry, u.ttl)
    BY <1>1 DEF Inv, Reasons
  <2>2. ASSUME NEW e \in InSet(ipset') \ NotOurs'
        PROVE  Stands(st, e, ipset'[e]) \/ \E u \in todo' : u.entry = e /\ u.kind = "del"
    <3>1. e \in Entry /\ ipset'[e] > 0
      BY DEF InSet
    <3>2. CASE e = o.entry
      <4>1. o.kind = "add"
        BY <1>2, <1>4, <3>1, <3>2 DEF Sound
      <4> QED BY <1>4, <2>1, <3>1, <3>2, <4>1
    <3>3. CASE e # o.entry
      <4>1. ipset'[e] = ipset[e] /\ e \in InSet(ipset) \ NotOurs
        BY <1>1, <1>4, <3>1, <3>3 DEF InSet
      <4>2. Stands(st, e, ipset[e]) \/ \E u \in todo : u.entry = e /\ u.kind = "del"
        BY <1>1, <4>1 DEF Inv, Reasons, OnItsWayOut
      <4> QED BY <1>1, <3>3, <4>1, <4>2
    <3> QED BY <3>2, <3>3
  <2> QED BY <1>1, <2>1, <2>2 DEF Reasons, OnItsWayOut
<1>7. Out'
  <2>1. SUFFICES ASSUME seen # Unread
                 PROVE  /\ Clean(st, seen) /\ \A u \in todo' : u.kind = "add" => ~Overlaps(u.entry, seen)
                        /\ loop' \in {"idle", "scan", "apply"} /\ ~missed
                              => \A e \in InSet(ipset') \ late' : ~Overlaps(e, seen)
    BY <1>1 DEF Out
  <2>2. Clean(st, seen) /\ \A u \in todo : u.kind = "add" => ~Overlaps(u.entry, seen)
    BY <1>1, <2>1 DEF Inv, Out
  <2>3. ASSUME loop' \in {"idle", "scan", "apply"}, ~missed, NEW e \in InSet(ipset') \ late'
        PROVE  ~Overlaps(e, seen)
    <3>1. loop = "apply" /\ \A x \in InSet(ipset) \ late : ~Overlaps(x, seen)
      BY <1>1, <2>1, <2>3 DEF Inv, Out
    <3>2. e \in Entry /\ ipset'[e] > 0
      BY <2>3 DEF InSet
    <3>3. CASE e = o.entry
      <4>1. o.kind = "add"
        BY <1>2, <1>4, <3>2, <3>3 DEF Sound
      <4> QED BY <2>2, <3>3, <4>1
    <3>4. CASE e # o.entry
      BY <1>1, <1>4, <2>3, <3>1, <3>2, <3>4 DEF InSet
    <3> QED BY <3>3, <3>4
  <2> QED BY <1>1, <2>2, <2>3
<1> QED BY <1>1, <1>5, <1>6, <1>7 DEF Inv

\* A removal that fails leaves its entry over.
LEMMA CarryFailsKeeps == ASSUME Inv, NEW o \in todo, CarryFails(o) PROVE Inv'
<1>1. /\ loop \in {"purge", "apply"} /\ todo' = todo \ {o}
      /\ NotOurs' = (IF o.kind = "del" /\ ipset[o.entry] > 0 THEN NotOurs \cup {o.entry} ELSE NotOurs)
      /\ loop' \in {loop, IF loop = "purge" THEN "sweep" ELSE "idle"}
      /\ (todo' # {} => loop' = loop)
      /\ UNCHANGED <<st, ipset, seen, list, late, saved, missed>>
  BY DEF CarryFails, Proceed, disk, sni, NotOurs
<1>2. Types'
  <2>1. \A u \in todo' : u \in todo
    BY <1>1
  <2>2. loop' \in {"down", "idle", "purge", "sweep", "scan", "apply"} /\ (loop' = "purge" => loop = "purge")
    BY <1>1
  <2>3. loop' \notin {"purge", "apply"} => todo' = {}
    BY <1>1
  <2> QED BY <1>1, <2>1, <2>2, <2>3 DEF Inv, Types
<1>3. Reasons'
  <2>1. ASSUME NEW e \in InSet(ipset) \ NotOurs'
        PROVE  Stands(st, e, ipset[e]) \/ \E u \in todo' : u.entry = e /\ u.kind = "del"
    <3>1. e \in InSet(ipset) \ NotOurs
      BY <1>1
    <3>2. Stands(st, e, ipset[e]) \/ \E u \in todo : u.entry = e /\ u.kind = "del"
      BY <1>1, <3>1 DEF Inv, Reasons, OnItsWayOut
    <3>3. ~(o.entry = e /\ o.kind = "del")
      BY <1>1, <3>1 DEF InSet
    <3> QED BY <1>1, <3>2, <3>3
  <2> QED BY <1>1, <2>1 DEF Inv, Reasons, OnItsWayOut
<1>4. Out'
  BY <1>1 DEF Inv, Out
<1> QED BY <1>1, <1>2, <1>3, <1>4 DEF Inv

LEMMA NothingToCarryKeeps == ASSUME Inv, NothingToCarry PROVE Inv'
<1>1. /\ loop \in {"purge", "apply"} /\ todo = {} /\ todo' = {}
      /\ loop' = (IF loop = "purge" THEN "sweep" ELSE "idle")
      /\ UNCHANGED <<st, ipset, seen, list, saved, NotOurs, late, missed>>
  BY DEF NothingToCarry, disk, sni, NotOurs
<1>2. Types' /\ Trust(st')
  BY <1>1 DEF Inv, Types
<1>3. Reasons'
  BY <1>1 DEF Inv, Reasons, OnItsWayOut
<1>4. Out'
  BY <1>1 DEF Inv, Out
<1> QED BY <1>2, <1>3, <1>4 DEF Inv

\* What a sweep leaves of the set.
LEMMA SweepType ==
    ASSUME Inv, NEW gone, SweepAway(gone)
    PROVE  /\ ipset' \in [Entry -> Nat] /\ \A e \in Entry : ipset'[e] \in {0, ipset[e]}
           /\ \A e \in InSet(ipset') : e \in InSet(ipset) /\ e \notin gone
           /\ \A e \in InSet(ipset') \ NotOurs' : e \notin NotOurs
           /\ \A e \in InSet(ipset') \ late' : e \notin late
<1>1. ipset \in [Entry -> Nat]
  BY DEF Inv, Types
<1> QED BY <1>1 DEF SweepAway, InSet, Forget, NotOurs

LEMMA SweepTickKeeps == ASSUME Inv, SweepTick PROVE Inv'
<1>1. /\ loop = "sweep" /\ loop' = "scan" /\ SweepAway(Swept(seen))
      /\ UNCHANGED <<st, todo, seen, list, saved>>
  BY DEF SweepTick, disk
<1>2. todo = {} /\ todo' = {}
  BY <1>1 DEF Inv, Types
<1>3. Types' /\ Trust(st')
  BY <1>1, <1>2, SweepType DEF Inv, Types
<1>4. Reasons'
  <2>1. ASSUME NEW e \in InSet(ipset') \ NotOurs' PROVE Stands(st, e, ipset'[e])
    <3>1. e \in Entry /\ e \in InSet(ipset) \ NotOurs /\ ipset'[e] = ipset[e]
      BY <1>1, SweepType DEF InSet
    <3> QED BY <1>1, <1>2, <3>1 DEF Inv, Reasons, OnItsWayOut
  <2> QED BY <1>1, <1>2, <2>1 DEF Reasons
<1>5. Out'
  <2>1. \A e \in InSet(ipset') : ~Overlaps(e, seen)
    BY <1>1, SweepType DEF Swept
  <2> QED BY <1>1, <1>2, <2>1 DEF Inv, Out
<1> QED BY <1>3, <1>4, <1>5 DEF Inv

LEMMA SweepTickFailsKeeps == ASSUME Inv, SweepTickFails PROVE Inv'
<1>1. /\ loop = "sweep" /\ loop' = "scan" /\ missed' = TRUE
      /\ UNCHANGED <<st, ipset, todo, seen, list, saved, NotOurs, late>>
  BY DEF SweepTickFails, disk, sni, NotOurs
<1>2. todo = {}
  BY <1>1 DEF Inv, Types
<1>3. Types' /\ Trust(st')
  BY <1>1, <1>2 DEF Inv, Types
<1>4. Reasons'
  BY <1>1 DEF Inv, Reasons, OnItsWayOut
<1>5. Out'
  BY <1>1, <1>2 DEF Inv, Out
<1> QED BY <1>3, <1>4, <1>5 DEF Inv

-----------------------------------------------------------------------------
(* The operator: the set only gets smaller *)

LEMMA ShrinkKeeps ==
    ASSUME Inv, UNCHANGED <<st, todo, loop, seen, missed>>,
           list' \subseteq Addr, saved' \in State, Quiet(saved'),
           ipset' \in [Entry -> Nat], \A e \in Entry : ipset'[e] \in {0, ipset[e]},
           \A e \in InSet(ipset') \ NotOurs' : e \notin NotOurs,
           \A e \in InSet(ipset') \ late' : e \notin late
    PROVE  Inv'
<1>1. Types' /\ Trust(st')
  BY DEF Inv, Types
<1>2. \A e \in InSet(ipset') : e \in InSet(ipset) /\ ipset'[e] = ipset[e]
  BY DEF InSet
<1>3. Reasons'
  <2>1. SUFFICES ASSUME loop # "down", NEW e \in InSet(ipset') \ NotOurs'
                 PROVE  Stands(st, e, ipset'[e]) \/ OnItsWayOut(e)
    BY DEF Inv, Reasons, OnItsWayOut
  <2> QED BY <1>2, <2>1 DEF Inv, Reasons
<1>4. Out'
  BY <1>2 DEF Inv, Out
<1> QED BY <1>1, <1>3, <1>4 DEF Inv

LEMMA OperatorKeeps == ASSUME Inv, Operator PROVE Inv'
<1>1. /\ list \subseteq Addr /\ saved \in State /\ Quiet(saved) /\ ipset \in [Entry -> Nat]
  BY DEF Inv, Types
<1>2. ASSUME NEW a \in Excludable, Exclude(a) \/ Include(a) PROVE Inv'
  <2>1. UNCHANGED <<st, todo, loop, seen, missed, saved, ipset, NotOurs, late>> /\ list' \subseteq Addr
    BY <1>1, <1>2, ListAssumption DEF Exclude, Include, memory, disk, sni, NotOurs
  <2> QED BY <1>1, <2>1, ShrinkKeeps
<1>3. CASE SweepCommand
  <2>1. UNCHANGED <<st, todo, loop, seen, missed, saved, list>> /\ SweepAway(Swept(list))
    BY <1>3 DEF SweepCommand, disk
  <2> QED BY <1>1, <2>1, SweepType, ShrinkKeeps
<1>4. CASE FlushSet
  <2>1. UNCHANGED <<st, todo, loop, seen, missed, saved, list>> /\ SweepAway(Entry)
    BY <1>4 DEF FlushSet, memory, disk
  <2> QED BY <1>1, <2>1, SweepType, ShrinkKeeps
<1>5. CASE SweepCommandFails \/ MarkReset \/ MarkFails
  <2>1. UNCHANGED <<st, todo, loop, seen, missed, saved, list, ipset, NotOurs, late>>
    BY <1>5 DEF SweepCommandFails, MarkReset, MarkFails, memory, disk, sni, NotOurs
  <2> QED BY <1>1, <2>1, ShrinkKeeps
<1> QED BY <1>2, <1>3, <1>4, <1>5 DEF Operator

-----------------------------------------------------------------------------
(* The daemon's end and start *)

LEMMA SaveKeeps == ASSUME Inv, Save PROVE Inv'
<1>1. saved' = Persisted(st) /\ UNCHANGED <<st, todo, loop, seen, missed, list, ipset, NotOurs, late>>
  BY DEF Save, sni, NotOurs
<1>2. /\ list \subseteq Addr /\ st \in State /\ ipset \in [Entry -> Nat]
  BY DEF Inv, Types
<1>3. saved' \in State /\ Quiet(saved')
  BY <1>1, <1>2, PersistedType DEF Quiet
<1> QED BY <1>1, <1>2, <1>3, ShrinkKeeps

\* Nothing is asked of the state while the daemon is down.
LEMMA DownKeeps ==
    ASSUME Inv, loop' = "down", todo' = {}, st' \in {st, NewState},
           UNCHANGED <<list, seen>>, saved' \in State, Quiet(saved'), ipset' \in [Entry -> Nat]
    PROVE  Inv'
<1>1. Trust(NewState)
  BY NewStateType, QuietTrust DEF Quiet, NewState
<1>2. Types'
  BY NewStateType DEF Inv, Types
<1>3. Reasons' /\ Out'
  BY DEF Reasons, Out
<1> QED BY <1>1, <1>2, <1>3 DEF Inv

LEMMA DaemonKeeps == ASSUME Inv, Daemon PROVE Inv'
<1>1. /\ st \in State /\ list \subseteq Addr /\ saved \in State /\ Quiet(saved) /\ ipset \in [Entry -> Nat]
      /\ (loop \notin {"purge", "apply"} => todo = {})
  BY DEF Inv, Types
<1>2. CASE Stop
  <2>1. /\ loop' = "down" /\ todo' = {} /\ st' = NewState /\ saved' = Persisted(st)
        /\ UNCHANGED <<list, seen, ipset>>
    BY <1>1, <1>2 DEF Stop
  <2>2. saved' \in State /\ Quiet(saved')
    BY <1>1, <2>1, PersistedType DEF Quiet
  <2> QED BY <1>1, <2>1, <2>2, DownKeeps
<1>3. CASE Crash
  <2>1. loop' = "down" /\ todo' = {} /\ st' = NewState /\ UNCHANGED <<list, seen, ipset, saved>>
    BY <1>3 DEF Crash, disk
  <2> QED BY <1>1, <2>1, DownKeeps
<1>4. CASE Reboot
  <2>1. /\ loop' = "down" /\ todo' = {} /\ st' = NewState /\ ipset' \in [Entry -> Nat]
        /\ UNCHANGED <<list, seen, saved>>
    BY <1>4 DEF Reboot, disk
  <2> QED BY <1>1, <2>1, DownKeeps
<1>5. CASE DownTime
  <2>1. loop' = "down" /\ todo' = {} /\ st' = st /\ UNCHANGED <<list, seen>> /\ TimePasses
    BY <1>1, <1>5 DEF DownTime, memory
  <2> QED BY <2>1, TimeType, DownKeeps DEF Inv
<1>6. CASE Start
  <2>1. /\ loop = "down" /\ loop' = "idle" /\ seen' = Unread /\ st' = Restored
        /\ saved' \in {saved, NewState}
        /\ NotOurs' = NotOurs \cup {e \in InSet(ipset) : ~Backed(Restored, ipset, e)}
        /\ UNCHANGED <<ipset, todo, list>>
    BY <1>6 DEF Start, sightings, NotOurs
  <2>2. todo = {} /\ Quiet(NewState) /\ NewState \in State
    BY <1>1, <2>1, NewStateType DEF Quiet, NewState
  <2>3. st' \in State /\ Trust(st')
    BY <1>1, <2>1, <2>2, QuietTrust DEF Restored
  <2>4. Types'
    BY <1>1, <2>1, <2>2, <2>3 DEF Inv, Types
  <2>5. \A e \in InSet(ipset) \ NotOurs' : Stands(Restored, e, ipset[e])
    BY <2>1 DEF Backed, Stands
  <2>6. Reasons'
    BY <2>1, <2>2, <2>5 DEF Reasons
  <2>7. Out'
    BY <2>1 DEF Out
  <2> QED BY <2>3, <2>4, <2>6, <2>7 DEF Inv
<1> QED BY <1>2, <1>3, <1>4, <1>5, <1>6 DEF Daemon

LEMMA StutterKeeps == ASSUME Inv, UNCHANGED vars PROVE Inv'
<1>1. UNCHANGED <<st, todo, loop, seen, missed, saved, list, ipset, NotOurs, late>>
  BY DEF vars, NotOurs
<1> QED BY <1>1, ShrinkKeeps DEF Inv, Types

-----------------------------------------------------------------------------
(* The SNI watcher: it adds entries beside the loop and says so *)

LEMMA WatcherKeeps == ASSUME Inv, Watcher PROVE Inv'
<1>1. /\ list \subseteq Addr /\ saved \in State /\ Quiet(saved) /\ ipset \in [Entry -> Nat]
      /\ Listed \subseteq Entry /\ SharedTTL \in Nat /\ OKTTL \in Nat
  BY SightingAssumption, TTLAssumption DEF Inv, Types, Entry
<1>2. CASE RereadSnapshot
  <2>1. UNCHANGED <<st, todo, loop, seen, missed, saved, list, ipset, NotOurs, late>>
    BY <1>2 DEF RereadSnapshot, memory, disk, sightings, NotOurs
  <2> QED BY <1>1, <2>1, ShrinkKeeps
<1>3. ASSUME NEW a \in Listed, HandlePacket(a) PROVE Inv'
  <2>1. PICK ttl \in Nat : ipset' = [ipset EXCEPT ![a] = ttl]
    BY <1>1, <1>3 DEF HandlePacket
  <2>2. /\ NotOurs' = NotOurs \cup {a}
        /\ late' = (IF seen # Unread /\ a \in seen THEN late \cup {a} ELSE late)
        /\ UNCHANGED <<st, todo, loop, seen, missed, saved, list>>
    BY <1>3 DEF HandlePacket, disk, NotOurs
  <2>3. /\ ipset' \in [Entry -> Nat]
        /\ \A e \in InSet(ipset') : e # a => e \in InSet(ipset) /\ ipset'[e] = ipset[e]
    BY <1>1, <2>1 DEF InSet
  <2>4. Types' /\ Trust(st')
    BY <2>2, <2>3 DEF Inv, Types
  <2>5. Reasons'
    <3>1. ASSUME loop # "down", NEW e \in InSet(ipset') \ NotOurs'
          PROVE  Stands(st, e, ipset'[e]) \/ OnItsWayOut(e)
      <4>1. e # a /\ e \notin NotOurs
        BY <2>2, <3>1
      <4> QED BY <2>3, <3>1, <4>1 DEF Inv, Reasons
    <3> QED BY <2>2, <3>1 DEF Inv, Reasons, OnItsWayOut
  <2>6. Out'
    <3>1. ASSUME seen # Unread, NEW e \in InSet(ipset') \ late', e = a PROVE ~Overlaps(e, seen)
      <4>1. a \notin seen /\ a \notin Range
        BY <2>2, <3>1, SightingAssumption, RangesAssumption
      <4> QED BY <3>1, <4>1 DEF Overlaps
    <3>2. \A e \in InSet(ipset') \ late' : e # a => e \in InSet(ipset) \ late
      BY <2>2, <2>3
    <3> QED BY <2>2, <3>1, <3>2 DEF Inv, Out
  <2> QED BY <2>4, <2>5, <2>6 DEF Inv
<1> QED BY <1>2, <1>3 DEF Watcher

LEMMA NextInv == Inv /\ [Next]_vars => Inv'
<1> SUFFICES ASSUME Inv, [Next]_vars PROVE Inv'
  OBVIOUS
<1>1. CASE Loop
  <2>1. ASSUME NEW ev \in Scans, Scan(ev) PROVE Inv'
    BY <2>1, ScanKeeps
  <2>2. ASSUME NEW o \in todo, Carry(o) \/ CarryFails(o) PROVE Inv'
    BY <2>2, CarryKeeps, CarryFailsKeeps
  <2> QED BY <1>1, <2>1, <2>2, BeginTickKeeps, SkipTickKeeps, NothingToCarryKeeps, SweepTickKeeps,
             SweepTickFailsKeeps, SaveKeeps DEF Loop
<1>2. CASE Daemon
  BY <1>2, DaemonKeeps
<1>3. CASE Operator
  BY <1>3, OperatorKeeps
<1>4. CASE Watcher
  BY <1>4, WatcherKeeps
<1>5. CASE UNCHANGED vars
  BY <1>5, StutterKeeps
<1> QED BY <1>1, <1>2, <1>3, <1>4, <1>5 DEF Next

-----------------------------------------------------------------------------
(* The theorems *)

\* Every reachable state satisfies the inductive invariant.
THEOREM AlwaysInv == Spec => []Inv
<1>1. Init => Inv
  BY InitInv
<1>2. Inv /\ [Next]_vars => Inv'
  BY NextInv
<1> QED BY <1>1, <1>2, PTL DEF Spec

\* A confirmed address ends within its longest life and one entry's time, however healthy
\* its flows and whatever fails: judgeOK and maxOKLifetime.
THEOREM TrustAlwaysEnds == Spec => []TrustEnds
<1>1. Inv => TrustEnds
  BY DEF Inv, Trust, TrustEnds
<1> QED BY <1>1, AlwaysInv, PTL

\* What the kernel redirects has its reason in the classifier's state, or its removal is on
\* the way, or the SNI watcher was the last to add it, or a failed command or a restart left
\* it over: applyAdaptiveRouteActions beside l7SNIHandlePacket.
THEOREM RedirectsAreFounded == Spec => []RedirectHasReason
<1>1. Inv => RedirectHasReason
  BY DEF Inv, Reasons, RedirectHasReason, Backed, Stands, OnItsWayOut
<1> QED BY <1>1, AlwaysInv, PTL

\* Between two ticks nothing the list covers is in the set, once the list has been read and
\* the set swept, but for an address the SNI watcher put back from a copy of the list it took
\* before: applyExclusionChange, SweepExcluded, l7SNIHandlePacket.
THEOREM ExcludedAreOut == Spec => []ExcludedStaysOut
<1>1. Inv => ExcludedStaysOut
  <2> SUFFICES ASSUME Inv, loop = "idle", seen = list, ~missed
               PROVE  \A e \in InSet(ipset) \ late : ~Overlaps(e, list)
    BY DEF ExcludedStaysOut
  <2>1. seen # Unread
    BY ListAssumption DEF Inv, Types
  <2> QED BY <2>1 DEF Inv, Out
<1> QED BY <1>1, AlwaysInv, PTL

-----------------------------------------------------------------------------
(* One tier at a time *)

One(s) ==
    \A p \in Proto, a \in Addr :
        /\ s.test[p][a] > 0 => s.ok[p][a] = 0 /\ s.cooldown[p][a] = 0
        /\ s.ok[p][a] > 0 => s.cooldown[p][a] = 0
        /\ s.watch[p][a] > 0 => CandidateOK(s, p, a)

\* Every tier's entry is a number.
LEMMA Entered ==
    ASSUME NEW s \in State, NEW p \in Proto, NEW a \in Addr
    PROVE  /\ s.test[p][a] \in Nat /\ s.ok[p][a] \in Nat
           /\ s.cooldown[p][a] \in Nat /\ s.watch[p][a] \in Nat
BY Times DEF State, Tier

LEMMA NewOne == One(NewState)
BY DEF One, NewState, Nothing

LEMMA ElapseOne == ASSUME NEW s \in State, One(s) PROVE One(Elapse(s))
<1> SUFFICES ASSUME NEW p \in Proto, NEW a \in Addr
             PROVE  /\ Elapse(s).test[p][a] > 0 => Elapse(s).ok[p][a] = 0 /\ Elapse(s).cooldown[p][a] = 0
                    /\ Elapse(s).ok[p][a] > 0 => Elapse(s).cooldown[p][a] = 0
                    /\ Elapse(s).watch[p][a] > 0 => CandidateOK(Elapse(s), p, a)
  BY DEF One
<1>1. /\ Elapse(s).test[p][a] = Less(s.test[p][a]) /\ Elapse(s).ok[p][a] = Less(s.ok[p][a])
      /\ Elapse(s).cooldown[p][a] = Less(s.cooldown[p][a]) /\ Elapse(s).watch[p][a] = Less(s.watch[p][a])
  BY DEF Elapse
<1>2. \A n \in Nat : (Less(n) > 0 => n > 0) /\ (n = 0 => Less(n) = 0)
  BY DEF Less
<1> QED BY <1>1, <1>2, Entered DEF One, CandidateOK

LEMMA PurgeOne == ASSUME NEW s \in State, NEW x, One(s) PROVE One(Purge(s, x))
<1> SUFFICES ASSUME NEW p \in Proto, NEW a \in Addr
             PROVE  /\ Purge(s, x).test[p][a] > 0
                         => Purge(s, x).ok[p][a] = 0 /\ Purge(s, x).cooldown[p][a] = 0
                    /\ Purge(s, x).ok[p][a] > 0 => Purge(s, x).cooldown[p][a] = 0
                    /\ Purge(s, x).watch[p][a] > 0 => CandidateOK(Purge(s, x), p, a)
  BY DEF One
<1>1. /\ Purge(s, x).test[p][a] = (IF a \in x THEN 0 ELSE s.test[p][a])
      /\ Purge(s, x).ok[p][a] = (IF a \in x THEN 0 ELSE s.ok[p][a])
      /\ Purge(s, x).cooldown[p][a] = (IF a \in x THEN 0 ELSE s.cooldown[p][a])
      /\ Purge(s, x).watch[p][a] = (IF a \in x THEN 0 ELSE s.watch[p][a])
  BY DEF Purge, State, Tier
<1> QED BY <1>1 DEF One, CandidateOK

LEMMA PersistedOne == ASSUME NEW s \in State, One(s) PROVE One(Persisted(s))
BY DEF One, Persisted, NewState, Nothing, State

\* Only a candidate is put on probation or watched.
LEMMA DetectOne == ASSUME NEW s \in State, NEW ev, NEW x, One(s) PROVE One(Detect(s, ev, x))
<1> DEFINE d == Detect(s, ev, x)
<1> SUFFICES ASSUME NEW p \in Proto, NEW a \in Addr
             PROVE  /\ d.test[p][a] > 0 => d.ok[p][a] = 0 /\ d.cooldown[p][a] = 0
                    /\ d.ok[p][a] > 0 => d.cooldown[p][a] = 0
                    /\ d.watch[p][a] > 0 => CandidateOK(d, p, a)
  BY DEF One
<1>1. /\ d.test[p][a] = (IF Promoted(s, ev[p][a], p, a, x) THEN TestTTL ELSE s.test[p][a])
      /\ d.ok[p][a] = s.ok[p][a] /\ d.cooldown[p][a] = s.cooldown[p][a]
      /\ d.watch[p][a] = (IF a \in x THEN s.watch[p][a]
                          ELSE IF Promoted(s, ev[p][a], p, a, x) THEN 0
                          ELSE Watched(s, ev[p][a], p, a))
  BY DEF Detect, State, Tier
<1> HIDE DEF d
<1>2. CASE Promoted(s, ev[p][a], p, a, x)
  BY <1>1, <1>2 DEF Promoted, CandidateOK
<1>3. CASE ~Promoted(s, ev[p][a], p, a, x)
  <2>1. Watched(s, ev[p][a], p, a) > 0 => CandidateOK(s, p, a)
    BY Entered DEF Watched, One
  <2>2. d.watch[p][a] > 0 => CandidateOK(s, p, a)
    BY <1>1, <1>3, <2>1 DEF One
  <2> QED BY <1>1, <1>3, <2>2 DEF One, CandidateOK
<1> QED BY <1>2, <1>3

\* A verdict moves a destination from one tier to another.
LEMMA JudgeOne == ASSUME NEW s \in State, NEW ev, One(s) PROVE One(Judge(s, ev))
<1> DEFINE j == Judge(s, ev)
<1> SUFFICES ASSUME NEW p \in Proto, NEW a \in Addr
             PROVE  /\ j.test[p][a] > 0 => j.ok[p][a] = 0 /\ j.cooldown[p][a] = 0
                    /\ j.ok[p][a] > 0 => j.cooldown[p][a] = 0
                    /\ j.watch[p][a] > 0 => CandidateOK(j, p, a)
  BY DEF One
<1> DEFINE confirmed == Confirmed(s, ev[p][a], p, a)
           dropped == Dropped(s, ev[p][a], p, a)
           stopped == StoppedWorking(s, ev[p][a], p, a)
           refreshed == Refreshed(s, ev[p][a], p, a)
<1>1. /\ j.test[p][a] = (IF confirmed \/ dropped \/ stopped THEN 0 ELSE s.test[p][a])
      /\ j.watch[p][a] = (IF confirmed \/ dropped \/ stopped THEN 0 ELSE s.watch[p][a])
      /\ j.cooldown[p][a] = (CASE confirmed -> 0
                               [] dropped -> CooldownTTL
                               [] stopped -> CooldownOKTTL
                               [] OTHER -> s.cooldown[p][a])
      /\ j.ok[p][a] = (CASE confirmed \/ refreshed -> OKTTL
                         [] stopped -> 0
                         [] OTHER -> s.ok[p][a])
  BY DEF Judge, State, Tier
<1>2. /\ confirmed => s.test[p][a] > 0 /\ ~dropped /\ ~stopped
      /\ dropped => s.test[p][a] > 0 /\ ~stopped /\ ~refreshed
      /\ stopped => s.test[p][a] = 0 /\ s.ok[p][a] > 0 /\ ~refreshed
      /\ refreshed => s.ok[p][a] > 0 /\ ~confirmed
  BY Entered DEF Confirmed, Dropped, StoppedWorking, Refreshed, Renewable, OnTrial, FailsTest, FailsOK
<1> HIDE DEF j, confirmed, dropped, stopped, refreshed
<1>3. /\ s.test[p][a] > 0 => s.ok[p][a] = 0 /\ s.cooldown[p][a] = 0
      /\ s.ok[p][a] > 0 => s.cooldown[p][a] = 0
      /\ s.watch[p][a] > 0 => s.ok[p][a] = 0 /\ s.test[p][a] = 0 /\ s.cooldown[p][a] = 0
  BY DEF One, CandidateOK
<1>4. CASE confirmed
  BY <1>1, <1>2, <1>4, Times
<1>5. CASE dropped /\ ~confirmed
  BY <1>1, <1>2, <1>3, <1>5, Times
<1>6. CASE stopped /\ ~confirmed /\ ~dropped
  BY <1>1, <1>2, <1>6, Times
<1>7. CASE refreshed /\ ~confirmed /\ ~dropped /\ ~stopped
  BY <1>1, <1>2, <1>3, <1>7, Entered DEF CandidateOK
<1>8. CASE ~refreshed /\ ~confirmed /\ ~dropped /\ ~stopped
  BY <1>1, <1>3, <1>8 DEF CandidateOK
<1> QED BY <1>4, <1>5, <1>6, <1>7, <1>8

LEMMA PassOne == ASSUME NEW s \in State, NEW ev, NEW x, One(s) PROVE One(Passed(s, ev, x))
<1>1. Found(s, ev, x) \in State /\ One(Found(s, ev, x))
  BY PassType, DetectOne DEF Found
<1>2. Judge(Found(s, ev, x), ev) \in State /\ One(Judge(Found(s, ev, x), ev))
  BY <1>1, PassType, JudgeOne
<1> DEFINE j == Judge(Found(s, ev, x), ev)
<1> HIDE DEF j
<1>3. /\ Widen(j, x).test = j.test /\ Widen(j, x).ok = j.ok
      /\ Widen(j, x).cooldown = j.cooldown /\ Widen(j, x).watch = j.watch
  BY <1>2 DEF j, Widen, State
<1>4. One(Widen(j, x))
  BY <1>2, <1>3 DEF j, One, CandidateOK
<1> QED BY <1>4 DEF Passed, j

-----------------------------------------------------------------------------
(* What a step makes of the classifier's state, in memory and saved *)

LEMMA StateSteps ==
    ASSUME [Next]_vars
    PROVE  /\ \/ st' \in {st, Elapse(st), Purge(Elapse(st), list), NewState}
              \/ loop = "scan" /\ \E ev \in Scans : st' = Passed(st, ev, Excluded)
              \/ loop = "down" /\ st' = Restored
           /\ saved' \in {saved, Elapse(saved), Persisted(st), NewState}
<1>1. CASE BeginTick \/ SkipTick
  BY <1>1 DEF BeginTick, SkipTick, TimePasses
<1>2. CASE \E ev \in Scans : Scan(ev)
  BY <1>2 DEF Scan, Passed, Found, disk
<1>3. CASE \E o \in todo : Carry(o) \/ CarryFails(o)
  BY <1>3 DEF Carry, CarryFails, disk
<1>4. CASE NothingToCarry \/ SweepTick \/ SweepTickFails \/ Save
  BY <1>4 DEF NothingToCarry, SweepTick, SweepTickFails, Save, disk
<1>5. CASE Stop \/ Crash \/ Reboot
  BY <1>5 DEF Stop, Crash, Reboot, disk
<1>6. CASE Start
  BY <1>6 DEF Start
<1>7. CASE DownTime
  BY <1>7 DEF DownTime, TimePasses, memory
<1>8. CASE Operator
  BY <1>8 DEF Operator, Exclude, Include, SweepCommand, SweepCommandFails, FlushSet, MarkReset,
     MarkFails, memory, disk
<1>9. CASE UNCHANGED vars
  BY <1>9 DEF vars
<1>10. CASE Watcher
  BY <1>10 DEF Watcher, RereadSnapshot, HandlePacket, memory, disk
<1> QED BY <1>1, <1>2, <1>3, <1>4, <1>5, <1>6, <1>7, <1>8, <1>9, <1>10 DEF Next, Loop, Daemon

(* One tier in memory and in the file, which holds no network. *)
Unblocked(s) == \A p \in Proto, r \in Range : s.blocks[p][r] = 0
Tiers == One(st) /\ One(saved) /\ Unblocked(saved)

LEMMA InitTiers == Init => Tiers
BY NewOne DEF Init, Tiers, Unblocked, NewState

LEMMA TiersKept == Inv /\ Tiers /\ [Next]_vars => Tiers'
<1> SUFFICES ASSUME Inv, Tiers, [Next]_vars PROVE Tiers'
  OBVIOUS
<1>1. st \in State /\ saved \in State /\ Elapse(st) \in State
  BY ElapseType DEF Inv, Types
<1>2. One(Elapse(st)) /\ One(Purge(Elapse(st), list)) /\ One(NewState) /\ One(Restored)
  BY <1>1, ElapseOne, PurgeOne, NewOne DEF Tiers, Restored
<1>3. \A ev : One(Passed(st, ev, Excluded))
  BY <1>1, PassOne DEF Tiers
<1>4. One(st')
  BY <1>2, <1>3, StateSteps DEF Tiers
<1>5. One(Elapse(saved)) /\ One(Persisted(st))
  BY <1>1, ElapseOne, PersistedOne DEF Tiers
<1>6. Unblocked(Elapse(saved)) /\ Unblocked(Persisted(st)) /\ Unblocked(NewState)
  BY <1>1, ElapseBlocks DEF Tiers, Unblocked, Less, Persisted, NewState
<1>7. One(saved') /\ Unblocked(saved')
  BY <1>2, <1>5, <1>6, StateSteps DEF Tiers
<1> QED BY <1>4, <1>7 DEF Tiers

-----------------------------------------------------------------------------
(* The notes of the listing *)

Notes == loop # "down" => \A e \in InSet(ipset) \ NotOurs : e \in noted

LEMMA NotesKept == Inv /\ Tiers /\ Notes /\ [Next]_vars => Notes'
<1> SUFFICES ASSUME Inv, Tiers, Notes, [Next]_vars, loop' # "down" PROVE \A e \in InSet(ipset') \ NotOurs' : e \in noted'
  BY DEF Notes
<1>1. /\ st \in State /\ ipset \in [Entry -> Nat] /\ (loop = "scan" => todo = {}) /\ \A o \in todo : Sound(o)
  BY DEF Inv, Types
<1>2. CASE BeginTick \/ SkipTick
  <2>1. TimePasses /\ noted' = noted /\ loop # "down"
    BY <1>2 DEF BeginTick, SkipTick
  <2> QED BY <2>1, TimeType DEF Inv, Notes
<1>3. CASE \E ev \in Scans : Scan(ev)
  <2>1. PICK ev : Scan(ev)
    BY <1>3
  <2>2. /\ loop = "scan" /\ ipset' = ipset /\ NotOurs' = NotOurs
        /\ st' = Passed(st, ev, Excluded) /\ todo' = Ordered(st, ev, Excluded)
        /\ \A e \in noted : LiveIn(st', e) \/ Del(e, 2) \in todo' => e \in noted'
    BY <2>1 DEF Scan, Passed, Found, Ordered, sni, NotOurs
  <2>3. ASSUME NEW e \in InSet(ipset) \ NotOurs PROVE e \in noted'
    <3>1. e \in Entry /\ ipset[e] \in Nat /\ ipset[e] > 0
      BY <1>1 DEF InSet
    <3>2. e \in noted /\ Stands(st, e, ipset[e])
      BY <1>1, <2>2 DEF Notes, Inv, Reasons, OnItsWayOut
    <3>3. Stands(st', e, ipset[e]) \/ Del(e, 2) \in todo'
      BY <1>1, <2>2, <3>1, <3>2, PassStands DEF Ordered
    <3>4. st' \in State
      BY <1>1, <2>2, PassType
    <3> QED BY <2>2, <3>1, <3>2, <3>3, <3>4, StandsLive
  <2> QED BY <2>2, <2>3
<1>4. ASSUME NEW o \in todo, Carry(o) PROVE \A e \in InSet(ipset') \ NotOurs' : e \in noted'
  <2>1. /\ ipset' = [ipset EXCEPT ![o.entry] = o.ttl] /\ NotOurs' = NotOurs \ {o.entry} /\ loop # "down"
        /\ noted' = IF o.kind = "add" THEN noted \cup {o.entry} ELSE noted \ {o.entry}
    BY <1>4 DEF Carry, Forget, NotOurs
  <2>2. Sound(o) /\ o.entry \in Entry /\ o.kind \in {"add", "del"}
    BY <1>1 DEF Sound, Ops
  <2> QED BY <1>1, <2>1, <2>2 DEF Notes, InSet, Sound
<1>5. ASSUME NEW o \in todo, CarryFails(o) PROVE \A e \in InSet(ipset') \ NotOurs' : e \in noted'
  <2>1. /\ ipset' = ipset /\ loop # "down"
        /\ noted' = (IF o.kind = "add" THEN noted ELSE noted \ {o.entry})
        /\ NotOurs' = (IF o.kind = "del" /\ ipset[o.entry] > 0 THEN NotOurs \cup {o.entry} ELSE NotOurs)
    BY <1>5 DEF CarryFails, sni, NotOurs
  <2>2. o.kind \in {"add", "del"}
    BY <1>1 DEF Sound, Ops
  <2> QED BY <2>1, <2>2 DEF Notes, InSet
<1>6. CASE SweepTick
  <2>1. loop # "down" /\ SweepAway(Swept(seen)) /\ noted' = noted \ Swept(seen)
    BY <1>6 DEF SweepTick
  <2> QED BY <2>1, SweepType DEF Notes
<1>7. CASE SweepCommand
  <2>1. loop # "down" /\ SweepAway(Swept(list)) /\ noted' \in {noted, noted \ Swept(list)}
    BY <1>7 DEF SweepCommand
  <2> QED BY <2>1, SweepType DEF Notes
<1>8. CASE FlushSet
  <2>1. SweepAway(Entry)
    BY <1>8 DEF FlushSet
  <2>2. \A e \in InSet(ipset') : e \in Entry /\ e \notin Entry
    BY <2>1, SweepType DEF InSet
  <2> QED BY <2>2
<1>9. CASE Start
  <2>1. /\ ipset' = ipset /\ noted' = {e \in Addr : LiveIn(Restored, e)}
        /\ NotOurs' = NotOurs \cup {e \in InSet(ipset) : ~Backed(Restored, ipset, e)}
    BY <1>9 DEF Start, sightings, NotOurs
  <2>2. Restored \in State /\ Unblocked(Restored)
    BY NewStateType DEF Restored, Inv, Types, Tiers, Unblocked, NewState
  <2>3. ASSUME NEW e \in InSet(ipset) \ NotOurs' PROVE e \in noted'
    <3>1. e \in Entry /\ ipset[e] \in Nat /\ ipset[e] > 0 /\ Stands(Restored, e, ipset[e])
      BY <1>1, <2>1 DEF InSet, Backed, Stands
    <3>2. e \notin Range
      BY <2>2, <3>1 DEF Stands, Unblocked
    <3>3. LiveIn(Restored, e) /\ e \in Addr
      BY <2>2, <3>1, <3>2, StandsLive, Entries
    <3> QED BY <2>1, <3>3
  <2> QED BY <2>1, <2>3
<1>10. CASE Stop \/ Crash \/ Reboot \/ DownTime
  BY <1>10 DEF Stop, Crash, Reboot, DownTime, memory
<1>11. CASE NothingToCarry \/ SweepTickFails \/ Save
  BY <1>11 DEF NothingToCarry, SweepTickFails, Save, Notes, sni, NotOurs
<1>12. ASSUME UNCHANGED <<ipset, noted, NotOurs, loop>> PROVE \A e \in InSet(ipset') \ NotOurs' : e \in noted'
  BY <1>12 DEF Notes, InSet
<1>13. CASE \/ (\E a \in Excludable : Exclude(a) \/ Include(a))
            \/ SweepCommandFails \/ MarkReset \/ MarkFails \/ UNCHANGED vars
  <2>1. UNCHANGED <<ipset, noted, NotOurs, loop>>
    BY <1>13 DEF Exclude, Include, SweepCommandFails, MarkReset, MarkFails, vars, memory, sni, NotOurs
  <2> QED BY <1>12, <2>1
<1>14. CASE RereadSnapshot
  <2>1. UNCHANGED <<ipset, noted, NotOurs, loop>>
    BY <1>14 DEF RereadSnapshot, memory, sightings, NotOurs
  <2> QED BY <1>12, <2>1
<1>15. ASSUME NEW a \in Listed, HandlePacket(a) PROVE \A e \in InSet(ipset') \ NotOurs' : e \in noted'
  <2>1. PICK ttl : ipset' = [ipset EXCEPT ![a] = ttl]
    BY <1>15 DEF HandlePacket
  <2>2. loop # "down" /\ noted' = noted \cup {a} /\ NotOurs' = NotOurs \cup {a}
    BY <1>15 DEF HandlePacket, NotOurs
  <2> QED BY <1>1, <2>1, <2>2 DEF Notes, InSet
<1> QED BY <1>2, <1>3, <1>4, <1>5, <1>6, <1>7, <1>8, <1>9, <1>10, <1>11, <1>13, <1>14, <1>15
       DEF Next, Loop, Watcher, Daemon, Operator

-----------------------------------------------------------------------------
(* The reset marker *)

Marked == flushed => marker

LEMMA MarkedKept == Marked /\ [Next]_vars => Marked' /\ (flushed /\ ~flushed' => st' = NewState)
<1> SUFFICES ASSUME Marked, [Next]_vars
             PROVE  Marked' /\ (flushed /\ ~flushed' => st' = NewState)
  OBVIOUS
<1>1. CASE Start
  BY <1>1 DEF Start, Marked, Restored
<1>2. CASE MarkReset
  BY <1>2 DEF MarkReset, Marked
<1>3. CASE (\E ev \in Scans : Scan(ev)) \/ \E o \in todo : Carry(o) \/ CarryFails(o)
  <2>1. ASSUME NEW ev, Scan(ev) PROVE UNCHANGED <<flushed, marker>>
    BY <2>1 DEF Scan, disk
  <2>2. ASSUME NEW o, Carry(o) \/ CarryFails(o) PROVE UNCHANGED <<flushed, marker>>
    BY <2>2 DEF Carry, CarryFails, disk
  <2> QED BY <1>3, <2>1, <2>2 DEF Marked
<1>4. CASE \/ BeginTick \/ SkipTick \/ NothingToCarry \/ SweepTick \/ SweepTickFails \/ Save
           \/ Stop \/ Crash \/ DownTime \/ Reboot
  BY <1>4 DEF BeginTick, SkipTick, NothingToCarry, SweepTick, SweepTickFails, Save, Stop, Crash,
     DownTime, Reboot, Marked, disk
<1>5. CASE \/ (\E a \in Excludable : Exclude(a) \/ Include(a))
           \/ SweepCommand \/ SweepCommandFails \/ FlushSet \/ MarkFails \/ UNCHANGED vars
  BY <1>5 DEF Exclude, Include, SweepCommand, SweepCommandFails, FlushSet, MarkFails, vars, Marked, disk
<1>6. CASE Watcher
  BY <1>6 DEF Watcher, RereadSnapshot, HandlePacket, Marked, disk
<1> QED BY <1>1, <1>2, <1>3, <1>4, <1>5, <1>6 DEF Next, Loop, Daemon, Operator

-----------------------------------------------------------------------------
(* The theorems *)

\* A destination is in one tier at a time, also after any restart: promoteTest, judgeTest,
\* judgeOK, watchOrConfirmLateStall.
THEOREM TiersStayApart == Spec => []OneTier
<1>1. Tiers => OneTier
  <2> SUFFICES ASSUME Tiers, NEW p \in Proto, NEW a \in Addr
               PROVE  /\ \A t, u \in {"test", "ok", "cooldown"} :
                            st[t][p][a] > 0 /\ st[u][p][a] > 0 => t = u
                      /\ st.watch[p][a] > 0 => CandidateOK(st, p, a)
    BY DEF OneTier
  <2>1. /\ st.test[p][a] > 0 => ~(st.ok[p][a] > 0) /\ ~(st.cooldown[p][a] > 0)
        /\ st.ok[p][a] > 0 => ~(st.cooldown[p][a] > 0)
        /\ st.watch[p][a] > 0 => CandidateOK(st, p, a)
    BY DEF Tiers, One
  <2> QED BY <2>1
<1> QED BY <1>1, AlwaysInv, InitTiers, TiersKept, PTL DEF Spec

\* Every entry that is in the set by the loop's word has its note: noteAdaptiveAction, recordLapsed,
\* seedAdaptiveNotes.
THEOREM NotesAreKept == Spec => []NotesFollow
<1>1. Init => Notes
  BY DEF Init, Notes, InSet
<1>2. Notes => NotesFollow
  BY DEF Notes, NotesFollow
<1> QED BY <1>1, <1>2, AlwaysInv, InitTiers, TiersKept, NotesKept, PTL DEF Spec

\* A restart after a flush starts from nothing, whatever was saved meanwhile: the marker of
\* adaptiveRouteFlush.
THEOREM FlushIsFinal == Spec => FlushForgets
<1>1. Init => Marked
  BY DEF Init, Marked
<1>2. Marked /\ [Next]_vars => [flushed /\ ~flushed' => st' = NewState]_vars
  BY MarkedKept
<1>3. Marked /\ [Next]_vars => Marked'
  BY MarkedKept
<1> QED BY <1>1, <1>2, <1>3, PTL DEF Spec, FlushForgets

\* A pass confirms only what an earlier pass put on probation: skipFreshTestPromotion.
THEOREM ProbationComesFirst == Spec => ConfirmedAfterProbation
<1> DEFINE OnProbation ==
             \A p \in Proto, a \in Addr :
                loop = "scan" /\ st.ok[p][a] = 0 /\ st'.ok[p][a] > 0 => st.test[p][a] > 0
<1>1. Inv /\ [Next]_vars => OnProbation
  <2> SUFFICES ASSUME Inv, [Next]_vars, NEW p \in Proto, NEW a \in Addr,
                      loop = "scan", st.ok[p][a] = 0, st'.ok[p][a] > 0
               PROVE  st.test[p][a] > 0
    OBVIOUS
  <2>1. st \in State /\ Elapse(st) \in State
    BY ElapseType DEF Inv, Types
  <2>2. Elapse(st).ok[p][a] = 0 /\ Purge(Elapse(st), list).ok[p][a] = 0 /\ NewState.ok[p][a] = 0
    BY <2>1, ElapsePoint, PurgePoint DEF Less, NewState, Nothing
  <2>3. PICK ev : st' = Passed(st, ev, Excluded)
    BY <2>2, StateSteps
  <2> DEFINE f == Found(st, ev, Excluded)
  <2>4. f \in State /\ Judge(f, ev) \in State /\ f.ok = st.ok
    BY <2>1, PassType, DetectRest DEF Found
  <2>5. st'.ok = Judge(f, ev).ok
    BY <2>3, <2>4, WidenPoint DEF Passed
  <2>6. f.test[p][a] = IF Promoted(st, ev[p][a], p, a, Excluded) THEN TestTTL ELSE st.test[p][a]
    BY <2>1, DetectPoint DEF Found
  <2> HIDE DEF f
  <2>7. ~Refreshed(f, ev[p][a], p, a)
    BY <2>4 DEF Refreshed, Renewable
  <2>8. Confirmed(f, ev[p][a], p, a)
    BY <2>4, <2>5, <2>7, JudgePoint
  <2> QED BY <2>6, <2>8 DEF Confirmed, OnTrial, FreshProbation
<1>2. Inv /\ [Next]_vars => [OnProbation]_vars
  BY <1>1
<1> QED BY <1>2, AlwaysInv, PTL DEF Spec, ConfirmedAfterProbation
=============================================================================
