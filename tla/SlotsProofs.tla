----------------------------- MODULE SlotsProofs -----------------------------
(***************************************************************************)
(* What is proved of the configuration: its two slots (Slots) and its      *)
(* route lists (Presets and Routes).                                       *)
(*                                                                         *)
(* For any servers, names, feeds and links, whatever the bot, a CLI        *)
(* process and refreshes do to the pool: every copy of the configuration   *)
(* has its slots on the servers they were put on, and the bot's memory is  *)
(* config.json unless there is one of four reasons why not.  For any       *)
(* ready-made lists, states of the repository and route lists: a refresh   *)
(* that is alone leaves an honest manifest, and a push that goes through   *)
(* alone leaves no connection to its lists' entries on a route it left.    *)
(***************************************************************************)
EXTENDS Slots, Routes, SequenceTheorems, FiniteSetTheorems, WellFoundedInduction, TLAPS

-----------------------------------------------------------------------------
(* The pool *)

\* A pool that has grown, or had profiles replaced by others of their server.
Extends(pool, longer) ==
    /\ Len(pool) <= Len(longer)
    /\ \A i \in 1 .. Len(pool) : longer[i].server = pool[i].server

LEMMA ExtendsTransitive ==
    ASSUME NEW p \in Seq(Profile), NEW q \in Seq(Profile), NEW r \in Seq(Profile),
           Extends(p, q), Extends(q, r)
    PROVE  Extends(p, r)
<1>1. Len(p) \in Nat /\ Len(q) \in Nat /\ Len(r) \in Nat
  BY LenProperties
<1> QED BY <1>1 DEF Extends

Below == {ss \in Nat \X Nat : ss[1] < ss[2]}

\* A set of numbers has a least one.
LEMMA LeastExists ==
    ASSUME NEW S \in SUBSET Nat, S # {}
    PROVE  \E n \in S : \A m \in S : n <= m
<1>1. IsWellFoundedOn(Below, Nat)
  <2>1. Below = OpToRel(<, Nat)
    BY DEF Below, OpToRel
  <2> QED BY <2>1, NatLessThanWellFounded
<1>2. PICK n \in S : \A m \in S : ~ (<<m, n>> \in Below)
  BY <1>1, WFMin
<1>3. ASSUME NEW m \in S PROVE n <= m
  <2>1. m \in Nat /\ n \in Nat /\ ~ (<<m, n>> \in Below)
    BY <1>2
  <2>2. ~ (m < n)
    BY <2>1 DEF Below
  <2> QED BY <2>1, <2>2
<1> QED BY <1>3

LEMMA MinIsLeast ==
    ASSUME NEW S \in SUBSET Nat, S # {}
    PROVE  Min(S) \in S
BY LeastExists DEF Min

\* What is found has the server, and where nothing is found nothing has it.
LEMMA FindServerFinds ==
    ASSUME NEW pool \in Seq(Profile), NEW server
    PROVE  /\ FindServer(pool, server) \in 0 .. Len(pool)
           /\ FindServer(pool, server) # 0 => pool[FindServer(pool, server)].server = server
           /\ FindServer(pool, server) = 0 => \A i \in 1 .. Len(pool) : pool[i].server # server
<1> DEFINE I == {i \in 1 .. Len(pool) : pool[i].server = server}
<1>0. Len(pool) \in Nat
  BY LenProperties
<1>1. FindServer(pool, server) = IF I # {} THEN Min(I) ELSE 0
  BY DEF FindServer, SelectInSeq
<1>2. CASE I = {}
  BY <1>0, <1>1, <1>2
<1>3. CASE I # {}
  <2>1. I \in SUBSET Nat
    BY <1>0
  <2>2. Min(I) \in I
    BY <1>3, <2>1, MinIsLeast
  <2> QED BY <1>0, <1>1, <1>3, <2>2
<1> QED BY <1>2, <1>3

\* One profile more, or in the place of the one of its server, where it is found.
LEMMA UpsertExtends ==
    ASSUME NEW pool \in Seq(Profile), NEW p \in Profile
    PROVE  LET q == UpsertProfile(pool, p)
               i == FindServer(q, p.server)
           IN  q \in Seq(Profile) /\ Extends(pool, q) /\ i \in 1 .. Len(q) /\ q[i].server = p.server
<1> DEFINE q == UpsertProfile(pool, p)
           j == FindServer(pool, p.server)
<1>0. Len(pool) \in Nat
  BY LenProperties
<1>1. /\ q \in Seq(Profile) /\ Extends(pool, q)
      /\ \E i \in 1 .. Len(q) : q[i].server = p.server
  <2>1. CASE j = 0
    <3>1. q = Append(pool, p)
      BY <2>1 DEF UpsertProfile
    <3>2. /\ q \in Seq(Profile) /\ Len(q) = Len(pool) + 1 /\ q[Len(pool) + 1] = p
          /\ \A i \in 1 .. Len(pool) : q[i] = pool[i]
      BY <3>1, AppendProperties
    <3>3. Len(pool) + 1 \in 1 .. Len(q)
      BY <1>0, <3>2
    <3> QED BY <1>0, <3>2, <3>3 DEF Extends
  <2>2. CASE j # 0
    <3>1. j \in 1 .. Len(pool) /\ pool[j].server = p.server
      BY <1>0, <2>2, FindServerFinds
    <3>2. q = [pool EXCEPT ![j] = p]
      BY <2>2 DEF UpsertProfile
    <3>3. /\ q \in Seq(Profile) /\ Len(q) = Len(pool) /\ q[j] = p
          /\ \A i \in 1 .. Len(pool) : q[i] = IF i = j THEN p ELSE pool[i]
      BY <3>1, <3>2, ExceptSeq
    <3> HIDE DEF q, j
    <3> QED BY <1>0, <3>1, <3>3 DEF Extends
  <2> QED BY <2>1, <2>2
<1> HIDE DEF q
<1>2. FindServer(q, p.server) # 0
  BY <1>1, FindServerFinds
<1>3. FindServer(q, p.server) \in 0 .. Len(q) /\ Len(q) \in Nat
  BY <1>1, FindServerFinds, LenProperties
<1> QED BY <1>1, <1>2, <1>3, FindServerFinds DEF q

-----------------------------------------------------------------------------
(* Configurations *)

\* The server slot s of c is on, NoServer when it is unset.
ServerAt(c, s) == At(c, s).server

\* Slot s of c points into the pool or is unset.
Points(c, s) == c.at[s] \in 0 .. Len(c.pool)

\* A configuration in which each slot is on the server it was put on.
Kept(c) == /\ c \in Config
           /\ \A s \in Slot : Points(c, s) /\ c.want[s] = ServerAt(c, s)

\* The same but for the pool and where the slots point.
SameButPool(c, d) == /\ d.src = c.src /\ d.shared = c.shared /\ d.http = c.http
                     /\ d.adaptive = c.adaptive /\ d.want = c.want

\* The pool grown, slot s pointing into it, and the other slot where it was.
Moved(c, d, s) == /\ d \in Config /\ SameButPool(c, d) /\ Extends(c.pool, d.pool)
                  /\ Points(d, s)
                  /\ \A t \in Slot \ {s} : d.at[t] = c.at[t]

\* A slot that points stays on its server while the pool grows.
LEMMA StaysThere ==
    ASSUME NEW c \in Config, NEW d \in Config, NEW s \in Slot,
           Points(c, s), Extends(c.pool, d.pool), d.at[s] = c.at[s]
    PROVE  Points(d, s) /\ ServerAt(d, s) = ServerAt(c, s)
<1>1. /\ Len(c.pool) \in Nat /\ Len(d.pool) \in Nat /\ c.at[s] \in 0 .. Len(c.pool)
      /\ Len(c.pool) <= Len(d.pool)
      /\ \A i \in 1 .. Len(c.pool) : d.pool[i].server = c.pool[i].server
  BY LenProperties DEF Config, Points, Extends
<1> QED BY <1>1 DEF Points, ServerAt, At

\* A profile put into the pool.
LEMMA PutMoves ==
    ASSUME NEW c \in Config, NEW s \in Slot, NEW p \in Profile
    PROVE  Moved(c, Put(c, s, p), s) /\ ServerAt(Put(c, s, p), s) = p.server
<1> DEFINE q == UpsertProfile(c.pool, p)
           i == FindServer(q, p.server)
<1>1. q \in Seq(Profile) /\ Extends(c.pool, q) /\ i \in 1 .. Len(q) /\ q[i].server = p.server
  BY UpsertExtends DEF Config
<1>2. Put(c, s, p) = [c EXCEPT !.pool = q, !.at[s] = i]
  BY DEF Put
<1>3. Len(q) \in Nat /\ i \in Nat /\ i # 0
  BY <1>1, LenProperties
<1> HIDE DEF q, i
<1>4. /\ Put(c, s, p) \in Config /\ SameButPool(c, Put(c, s, p))
      /\ Put(c, s, p).pool = q /\ Put(c, s, p).at[s] = i
      /\ \A t \in Slot \ {s} : Put(c, s, p).at[t] = c.at[t]
  <2>1. /\ SameButPool(c, Put(c, s, p)) /\ Put(c, s, p).pool = q
        /\ Put(c, s, p).at = [c.at EXCEPT ![s] = i]
    BY <1>2 DEF Config, SameButPool
  <2>2. [c.at EXCEPT ![s] = i] \in [Slot -> Nat]
    BY <1>3 DEF Config
  <2>3. [c EXCEPT !.pool = q, !.at = [c.at EXCEPT ![s] = i]] \in Config
    BY <1>1, <2>2 DEF Config
  <2> QED BY <1>2, <2>1, <2>2, <2>3 DEF Config
<1>5. i \in 0 .. Len(q)
  BY <1>1, <1>3
<1> QED BY <1>1, <1>3, <1>4, <1>5 DEF Moved, Points, ServerAt, At

\* What is moved again has been moved.
LEMMA MovedTwice ==
    ASSUME NEW c \in Config, NEW d, NEW e, Moved(c, d, "primary"), Moved(d, e, "backup")
    PROVE  /\ e \in Config /\ SameButPool(c, e) /\ Extends(c.pool, e.pool)
           /\ \A s \in Slot : Points(e, s)
           /\ ServerAt(e, "primary") = ServerAt(d, "primary")
<1>1. /\ d \in Config /\ e \in Config /\ "primary" \in Slot /\ e.at["primary"] = d.at["primary"]
      /\ Extends(c.pool, d.pool) /\ Extends(d.pool, e.pool) /\ Points(d, "primary")
  BY DEF Moved, Slot
<1>2. Points(e, "primary") /\ ServerAt(e, "primary") = ServerAt(d, "primary")
  BY <1>1, StaysThere
<1>3. Extends(c.pool, e.pool)
  BY <1>1, ExtendsTransitive DEF Config
<1> QED BY <1>1, <1>2, <1>3 DEF Moved, SameButPool, Slot

-----------------------------------------------------------------------------
(* A refresh of the shared subscription *)

\* A match is in the list and has the remark.
LEMMA MatchIsThere ==
    ASSUME NEW list \in Seq(Profile), NEW name
    PROVE  MatchByRemark(list, name) \in 0 .. Len(list)
<1>0. Len(list) \in Nat /\ DOMAIN list = 1 .. Len(list)
  BY LenProperties
<1>1. CASE \E i \in DOMAIN list : Named(list, name) = {i}
  <2>1. PICK i \in DOMAIN list : Named(list, name) = {i}
    BY <1>1
  <2>2. MatchByRemark(list, name) = CHOOSE j \in {i} : TRUE
    BY <1>1, <2>1 DEF MatchByRemark
  <2>3. MatchByRemark(list, name) = i
    BY <2>2
  <2> QED BY <1>0, <2>1, <2>3
<1>2. CASE ~ \E i \in DOMAIN list : Named(list, name) = {i}
  BY <1>0, <1>2 DEF MatchByRemark
<1> QED BY <1>1, <1>2

\* Where a slot of the shared subscription comes to be.
Found(list, old) ==
    LET named == MatchByRemark(list, old.name)
    IN  IF old # NoProfile /\ named # 0 THEN list[named].server
        ELSE IF Len(list) = 1 THEN list[1].server
        ELSE old.server

\* A slot made to point elsewhere in the same pool.
LEMMA PointMoves ==
    ASSUME NEW c \in Config, NEW s \in Slot, NEW i \in 0 .. Len(c.pool),
           NEW d, d = [c EXCEPT !.at[s] = i]
    PROVE  /\ Moved(c, d, s) /\ d.pool = c.pool
           /\ ServerAt(d, s) = IF i = 0 THEN NoServer ELSE c.pool[i].server
<1>0. Len(c.pool) \in Nat /\ i \in Nat
  BY LenProperties DEF Config
<1>1. d = [c EXCEPT !.at = [c.at EXCEPT ![s] = i]]
  BY DEF Config
<1>2. [c.at EXCEPT ![s] = i] \in [Slot -> Nat]
  BY <1>0 DEF Config
<1>3. d \in Config /\ d.at = [c.at EXCEPT ![s] = i] /\ d.pool = c.pool /\ SameButPool(c, d)
  BY <1>1, <1>2 DEF Config, SameButPool
<1>4. d.at[s] = i /\ \A t \in Slot \ {s} : d.at[t] = c.at[t]
  BY <1>3 DEF Config
<1>5. Extends(c.pool, d.pool)
  BY <1>0, <1>3 DEF Extends
<1>6. ServerAt(d, s) = IF i = 0 THEN NoServer ELSE c.pool[i].server
  BY <1>3, <1>4 DEF ServerAt, At, NoProfile
<1>7. Points(d, s)
  BY <1>3, <1>4 DEF Points
<1> QED BY <1>3, <1>4, <1>5, <1>6, <1>7 DEF Moved

\* One slot resolved in a pool that begins with the list, and is the list
\* when that has one profile.
LEMMA SharedSlotMoves ==
    ASSUME NEW c \in Config, NEW list \in Seq(Profile), list # <<>>, NEW s \in Slot,
           NEW old \in Profile \cup {NoProfile},
           Extends(list, c.pool), Len(list) = 1 => c.pool = list,
           NEW d, d = ResolveSharedSlot(c, list, s, old)
    PROVE  /\ Moved(c, d, s) /\ ServerAt(d, s) = Found(list, old)
           /\ Len(list) = 1 => d.pool = list
<1> DEFINE byRemark == IF old = NoProfile THEN 0 ELSE MatchByRemark(list, old.name)
           byServer == FindServer(c.pool, old.server)
<1>0. /\ c.pool \in Seq(Profile) /\ Len(c.pool) \in Nat /\ Len(list) \in Nat /\ Len(list) >= 1
      /\ Len(list) <= Len(c.pool)
      /\ \A i \in 1 .. Len(list) : c.pool[i].server = list[i].server
  BY LenProperties, EmptySeq DEF Config, Extends
<1>2. byRemark \in 0 .. Len(list)
  BY <1>0, MatchIsThere
<1>3. /\ byServer \in 0 .. Len(c.pool)
      /\ byServer # 0 => c.pool[byServer].server = old.server
      /\ byServer = 0 => \A i \in 1 .. Len(c.pool) : c.pool[i].server # old.server
  BY <1>0, FindServerFinds
<1>4. old = NoProfile => byServer = 0
  <2>1. \A i \in 1 .. Len(c.pool) : c.pool[i] \in Profile
    BY <1>0, ElementOfSeq
  <2>2. \A i \in 1 .. Len(c.pool) : c.pool[i].server # NoServer
    BY <2>1, ServerAssumption DEF Profile
  <2>3. CASE old = NoProfile
    <3>1. old.server = NoServer
      BY <2>3 DEF NoProfile
    <3>2. byServer \notin 1 .. Len(c.pool)
      BY <1>3, <2>2, <3>1
    <3> HIDE DEF byServer
    <3> QED BY <1>0, <1>3, <3>2
  <2> QED BY <2>3
<1>5. d = CASE byRemark # 0 -> [c EXCEPT !.at[s] = byRemark]
            [] byRemark = 0 /\ byServer # 0 -> [c EXCEPT !.at[s] = byServer]
            [] byRemark = 0 /\ byServer = 0 /\ Len(list) = 1 -> [c EXCEPT !.at[s] = 1]
            [] OTHER -> IF old # NoProfile THEN Put(c, s, old) ELSE [c EXCEPT !.at[s] = 0]
  BY DEF ResolveSharedSlot
<1>6. Found(list, old) = IF byRemark # 0 THEN list[byRemark].server
                         ELSE IF Len(list) = 1 THEN list[1].server ELSE old.server
  BY DEF Found
<1> HIDE DEF byRemark, byServer
<1>7. CASE byRemark # 0
  <2>1. d = [c EXCEPT !.at[s] = byRemark]
    BY <1>5, <1>7
  <2>2. byRemark \in 0 .. Len(c.pool) /\ byRemark \in 1 .. Len(list)
    BY <1>0, <1>2, <1>7
  <2>3. c.pool[byRemark].server = list[byRemark].server
    BY <1>0, <2>2
  <2> QED BY <1>6, <1>7, <2>1, <2>2, <2>3, PointMoves
<1>8. CASE byRemark = 0 /\ byServer # 0
  <2>1. d = [c EXCEPT !.at[s] = byServer]
    BY <1>5, <1>8
  <2>2. Len(list) = 1 => list[1].server = old.server
    BY <1>0, <1>3, <1>8
  <2>3. Found(list, old) = old.server
    BY <1>6, <1>8, <2>2
  <2> QED BY <1>3, <1>8, <2>1, <2>3, PointMoves
<1>9. CASE byRemark = 0 /\ byServer = 0 /\ Len(list) = 1
  <2>1. d = [c EXCEPT !.at[s] = 1]
    BY <1>5, <1>9
  <2>2. 1 \in 0 .. Len(c.pool) /\ c.pool[1].server = list[1].server
    BY <1>0
  <2> QED BY <1>6, <1>9, <2>1, <2>2, PointMoves
<1>10. CASE byRemark = 0 /\ byServer = 0 /\ Len(list) # 1
  <2>1. CASE old # NoProfile
    <3>1. d = Put(c, s, old)
      BY <1>5, <1>10, <2>1
    <3> QED BY <1>6, <1>10, <2>1, <3>1, PutMoves
  <2>2. CASE old = NoProfile
    <3>1. d = [c EXCEPT !.at[s] = 0]
      BY <1>5, <1>10, <2>2
    <3>2. 0 \in 0 .. Len(c.pool)
      BY <1>0
    <3>3. old.server = NoServer
      BY <2>2 DEF NoProfile
    <3> QED BY <1>6, <1>10, <3>1, <3>2, <3>3, PointMoves
  <2> QED BY <2>1, <2>2
<1> QED BY <1>7, <1>8, <1>9, <1>10

\* A configuration whose slots point into its pool.
Pointing(c) == c \in Config /\ \A s \in Slot : Points(c, s)

LEMMA AtType ==
    ASSUME NEW c, Pointing(c), NEW s \in Slot
    PROVE  At(c, s) \in Profile \cup {NoProfile} /\ ServerAt(c, s) \in Server \cup {NoServer}
<1>1. c.pool \in Seq(Profile) /\ c.at[s] \in 0 .. Len(c.pool) /\ Len(c.pool) \in Nat
  BY LenProperties DEF Pointing, Points, Config
<1>2. c.at[s] # 0 => c.pool[c.at[s]] \in Profile
  BY <1>1, ElementOfSeq
<1> QED BY <1>2 DEF At, ServerAt, NoProfile, Profile

\* A profile put where a slot points; the other slot stays on its server.
LEMMA PutStays ==
    ASSUME NEW c, Pointing(c), NEW s \in Slot, NEW p \in Profile, NEW d, d = Put(c, s, p)
    PROVE  /\ Pointing(d) /\ SameButPool(c, d) /\ ServerAt(d, s) = p.server
           /\ \A t \in Slot \ {s} : ServerAt(d, t) = ServerAt(c, t)
<1>1. Moved(c, d, s) /\ ServerAt(d, s) = p.server
  BY PutMoves DEF Pointing
<1>2. \A t \in Slot \ {s} : Points(d, t) /\ ServerAt(d, t) = ServerAt(c, t)
  BY <1>1, StaysThere DEF Moved, Pointing
<1> QED BY <1>1, <1>2 DEF Moved, Pointing

\* After ApplyResult a slot with a source of its own is where it was, and one
\* of the shared subscription where it is found.
LEMMA ApplyResultLands ==
    ASSUME NEW c, Pointing(c), NEW list \in Seq(Profile), list # <<>>,
           NEW d, d = ApplyResult(c, list)
    PROVE  /\ Pointing(d) /\ SameButPool(c, d)
           /\ \A s \in Slot : ServerAt(d, s) = IF Own(c, s) /\ At(c, s) # NoProfile
                                               THEN ServerAt(c, s)
                                               ELSE Found(list, At(c, s))
<1> DEFINE kept == {s \in Slot : Own(c, s) /\ At(c, s) # NoProfile}
           Old(s) == IF Own(c, s) THEN NoProfile ELSE At(c, s)
           e0 == [c EXCEPT !.pool = list]
           e1 == ResolveSharedSlot(e0, list, "primary", Old("primary"))
           e2 == ResolveSharedSlot(e1, list, "backup", Old("backup"))
           e3 == IF "primary" \in kept THEN Put(e2, "primary", At(c, "primary")) ELSE e2
           e4 == IF "backup" \in kept THEN Put(e3, "backup", At(c, "backup")) ELSE e3
<1>s. "primary" \in Slot /\ "backup" \in Slot /\ Slot = {"primary", "backup"}
  BY DEF Slot
<1>1. d = e4
  BY DEF ApplyResult
<1>2. \A s \in Slot : /\ Old(s) \in Profile \cup {NoProfile}
                      /\ At(c, s) \in Profile \cup {NoProfile}
  BY AtType
<1>3. \A s \in Slot : s \notin kept => Old(s) = At(c, s)
  OBVIOUS
<1>4. e0 \in Config /\ e0.pool = list /\ SameButPool(c, e0)
  BY DEF Pointing, Config, SameButPool
<1>5. Extends(list, list)
  BY LenProperties DEF Extends
<1>6. /\ Moved(e0, e1, "primary") /\ ServerAt(e1, "primary") = Found(list, Old("primary"))
      /\ Len(list) = 1 => e1.pool = list
  <2> HIDE DEF e0, e1, Old
  <2> QED BY <1>s, <1>2, <1>4, <1>5, SharedSlotMoves DEF e1
<1>7. Moved(e1, e2, "backup") /\ ServerAt(e2, "backup") = Found(list, Old("backup"))
  <2> HIDE DEF e0, e1, e2, Old
  <2>1. e1 \in Config /\ Extends(list, e1.pool)
    BY <1>4, <1>6 DEF Moved
  <2> QED BY <1>s, <1>2, <1>6, <2>1, SharedSlotMoves DEF e2
<1> HIDE DEF e0, e1, e2, Old
<1>8. Pointing(e2) /\ SameButPool(c, e2)
  BY <1>4, <1>6, <1>7, MovedTwice DEF Pointing, SameButPool
<1>9. \A s \in Slot : ServerAt(e2, s) = Found(list, Old(s))
  BY <1>s, <1>4, <1>6, <1>7, MovedTwice
<1> HIDE DEF kept
<1>10. /\ Pointing(e3) /\ SameButPool(c, e3) /\ ServerAt(e3, "backup") = ServerAt(e2, "backup")
       /\ ServerAt(e3, "primary") = IF "primary" \in kept THEN ServerAt(c, "primary")
                                    ELSE ServerAt(e2, "primary")
  <2>1. CASE "primary" \in kept
    <3>1. At(c, "primary") \in Profile /\ e3 = Put(e2, "primary", At(c, "primary"))
      BY <1>s, <1>2, <2>1 DEF kept
    <3> HIDE DEF e3
    <3>2. /\ Pointing(e3) /\ SameButPool(e2, e3)
          /\ ServerAt(e3, "primary") = At(c, "primary").server
          /\ \A t \in Slot \ {"primary"} : ServerAt(e3, t) = ServerAt(e2, t)
      BY <1>s, <1>8, <3>1, PutStays
    <3>3. "backup" \in Slot \ {"primary"}
      BY <1>s
    <3> QED BY <1>8, <2>1, <3>2, <3>3 DEF SameButPool, ServerAt
  <2>2. CASE "primary" \notin kept
    BY <1>8, <2>2
  <2> QED BY <2>1, <2>2
<1> HIDE DEF e3
<1>11. /\ Pointing(e4) /\ SameButPool(c, e4) /\ ServerAt(e4, "primary") = ServerAt(e3, "primary")
       /\ ServerAt(e4, "backup") = IF "backup" \in kept THEN ServerAt(c, "backup")
                                   ELSE ServerAt(e3, "backup")
  <2>1. CASE "backup" \in kept
    <3>1. At(c, "backup") \in Profile /\ e4 = Put(e3, "backup", At(c, "backup"))
      BY <1>s, <1>2, <2>1 DEF kept
    <3> HIDE DEF e4
    <3>2. /\ Pointing(e4) /\ SameButPool(e3, e4)
          /\ ServerAt(e4, "backup") = At(c, "backup").server
          /\ \A t \in Slot \ {"backup"} : ServerAt(e4, t) = ServerAt(e3, t)
      BY <1>s, <1>10, <3>1, PutStays
    <3>3. "primary" \in Slot \ {"backup"}
      BY <1>s
    <3> QED BY <1>10, <2>1, <3>2, <3>3 DEF SameButPool, ServerAt
  <2>2. CASE "backup" \notin kept
    BY <1>10, <2>2
  <2> QED BY <2>1, <2>2
<1> HIDE DEF e4
<1>12. \A s \in Slot : ServerAt(e4, s) = IF s \in kept THEN ServerAt(c, s)
                                         ELSE Found(list, At(c, s))
  BY <1>s, <1>3, <1>9, <1>10, <1>11
<1> QED BY <1>1, <1>11, <1>12 DEF kept

-----------------------------------------------------------------------------
(* A whole refresh *)

\* A source resolves to a profile, or to none.
LEMMA ResolvedType ==
    ASSUME NEW source \in Source, NEW list \in Seq(Profile)
    PROVE  /\ Pick(list, source.pick) \in Profile \cup {NoProfile}
           /\ ResolveSourcePinned(source, list) \in Profile \cup {NoProfile}
<1>0. /\ Len(list) \in Nat /\ \A i \in 1 .. Len(list) : list[i] \in Profile
      /\ list # <<>> => Len(list) >= 1
  BY LenProperties, ElementOfSeq, EmptySeq
<1>1. Pick(list, source.pick) \in Profile \cup {NoProfile}
  <2> DEFINE i == MatchByRemark(list, source.pick)
  <2>1. i \in 0 .. Len(list)
    BY MatchIsThere
  <2> HIDE DEF i
  <2>2. i # 0 => list[i] \in Profile
    BY <1>0, <2>1
  <2>3. list # <<>> => list[1] \in Profile
    BY <1>0
  <2>4. Len(list) > 1 => list[2] \in Profile
    BY <1>0
  <2> QED BY <2>2, <2>3, <2>4 DEF Pick, i
<1>2. ResolveSourcePinned(source, list) \in Profile \cup {NoProfile}
  <2> DEFINE i == FindServer(list, source.anchor)
  <2>1. i \in 0 .. Len(list)
    BY FindServerFinds
  <2> HIDE DEF i
  <2>2. i # 0 => list[i] \in Profile
    BY <1>0, <2>1
  <2>3. source.link \in Profile \cup {NoProfile}
    BY FeedsAssumption DEF Source
  <2> QED BY <1>1, <2>2, <2>3 DEF ResolveSourcePinned, i
<1> QED BY <1>1, <1>2

\* One slot's own source fetched: the slot is on what it resolved to.
LEMMA RefreshOwnLands ==
    ASSUME NEW c, Pointing(c), NEW s \in Slot, NEW list \in Seq(Profile),
           NEW p, p = ResolveSourcePinned(c.src[s], list),
           NEW d, d = RefreshOwn(c, s, list)
    PROVE  /\ Pointing(d) /\ d.want = c.want
           /\ \A t \in Slot \ {s} : d.src[t] = c.src[t] /\ ServerAt(d, t) = ServerAt(c, t)
           /\ ServerAt(d, s) = IF Own(c, s) /\ p # NoProfile THEN p.server ELSE ServerAt(c, s)
<1>0. c \in Config /\ c.src[s] \in Source
  BY DEF Pointing, Config
<1>1. p \in Profile \cup {NoProfile}
  BY <1>0, ResolvedType
<1>2. CASE ~ Own(c, s) \/ p = NoProfile
  <2>1. d = c
    BY <1>2 DEF RefreshOwn
  <2> QED BY <1>2, <2>1
<1>3. CASE Own(c, s) /\ p # NoProfile
  <2> DEFINE e == Put(c, s, p)
  <2>1. d = [e EXCEPT !.src[s].anchor = p.server]
    BY <1>3 DEF RefreshOwn
  <2>2. /\ Pointing(e) /\ SameButPool(c, e) /\ ServerAt(e, s) = p.server
        /\ \A t \in Slot \ {s} : ServerAt(e, t) = ServerAt(c, t)
    BY <1>1, <1>3, PutStays
  <2> HIDE DEF e
  <2>3. [e.src EXCEPT ![s] = [e.src[s] EXCEPT !.anchor = p.server]] \in [Slot -> Source]
    <3>1. p.server \in Server
      BY <1>1, <1>3 DEF Profile
    <3>2. e.src[s] \in Source /\ e.src \in [Slot -> Source]
      BY <2>2 DEF Pointing, Config
    <3>3. [e.src[s] EXCEPT !.anchor = p.server] \in Source
      BY <3>1, <3>2 DEF Source
    <3> QED BY <3>2, <3>3
  <2>4. d = [e EXCEPT !.src = [e.src EXCEPT ![s] = [e.src[s] EXCEPT !.anchor = p.server]]]
    BY <2>1, <2>2 DEF Pointing, Config
  <2>5. /\ d \in Config /\ d.pool = e.pool /\ d.at = e.at /\ d.want = e.want
        /\ \A t \in Slot \ {s} : d.src[t] = e.src[t]
    BY <2>2, <2>3, <2>4 DEF Pointing, Config
  <2>6. Pointing(d) /\ \A t \in Slot : ServerAt(d, t) = ServerAt(e, t)
    BY <2>2, <2>5 DEF Pointing, Points, ServerAt, At
  <2> QED BY <1>3, <2>2, <2>5, <2>6 DEF SameButPool
<1> QED BY <1>2, <1>3

\* What Wanted says, in terms of what the sources resolve to.
LEMMA WantedIs ==
    ASSUME NEW c, Kept(c), NEW list, NEW own \in [Slot -> Seq(Profile)], NEW s \in Slot
    PROVE  LET p == ResolveSourcePinned(c.src[s], own[s])
               old == At(c, s)
           IN  Wanted(c, list, own, s) =
                   IF Own(c, s) /\ p # NoProfile THEN p.server
                   ELSE IF ~ c.shared \/ (Own(c, s) /\ old # NoProfile) THEN ServerAt(c, s)
                   ELSE Found(list, old)
<1> DEFINE source == c.src[s]
           p == ResolveSourcePinned(source, own[s])
           old == At(c, s)
           pinned == source.link = NoProfile /\ \E i \in DOMAIN own[s] : own[s][i].server = source.anchor
           i == FindServer(own[s], source.anchor)
           rest == IF ~ c.shared \/ (Own(c, s) /\ old # NoProfile) THEN c.want[s]
                   ELSE IF old # NoProfile /\ MatchByRemark(list, old.name) # 0
                        THEN list[MatchByRemark(list, old.name)].server
                   ELSE IF Len(list) = 1 THEN list[1].server
                   ELSE c.want[s]
<1>0. /\ own[s] \in Seq(Profile) /\ Len(own[s]) \in Nat /\ DOMAIN own[s] = 1 .. Len(own[s])
      /\ \A j \in 1 .. Len(own[s]) : own[s][j] \in Profile
  BY LenProperties, ElementOfSeq
<1>1. Wanted(c, list, own, s) = IF Own(c, s) /\ pinned THEN source.anchor
                                ELSE IF Own(c, s) /\ p # NoProfile THEN p.server
                                ELSE rest
  BY DEF Wanted
<1>2. /\ i \in 0 .. Len(own[s])
      /\ i # 0 => own[s][i].server = source.anchor
      /\ i = 0 => \A j \in 1 .. Len(own[s]) : own[s][j].server # source.anchor
  BY <1>0, FindServerFinds
<1>3. pinned => p # NoProfile /\ p.server = source.anchor
  <2>1. SUFFICES ASSUME pinned PROVE p # NoProfile /\ p.server = source.anchor
    OBVIOUS
  <2>2. i # 0 /\ source.link = NoProfile
    BY <1>0, <1>2, <2>1
  <2>3. own[s][i] \in Profile /\ own[s][i].server = source.anchor
    BY <1>0, <1>2, <2>2
  <2>4. own[s][i].server # NoServer
    BY <2>3, ServerAssumption DEF Profile
  <2>5. p = own[s][i]
    BY <2>2, <2>3, <2>4 DEF ResolveSourcePinned
  <2>6. NoProfile.server = NoServer
    BY DEF NoProfile
  <2> HIDE DEF p, i, source
  <2> QED BY <2>3, <2>4, <2>5, <2>6
<1>4. c.want[s] = ServerAt(c, s) /\ ServerAt(c, s) = old.server
  BY DEF Kept, ServerAt
<1>5. rest = IF ~ c.shared \/ (Own(c, s) /\ old # NoProfile) THEN ServerAt(c, s)
             ELSE Found(list, old)
  BY <1>4 DEF Found
<1> HIDE DEF p, pinned, rest, source, old
<1>6. Wanted(c, list, own, s) = IF Own(c, s) /\ p # NoProfile THEN p.server ELSE rest
  BY <1>1, <1>3
<1> QED BY <1>5, <1>6 DEF p, old, source

\* What the bot and the CLI may be given for a refresh.
LEMMA RefreshKeeps ==
    ASSUME NEW c, Kept(c), NEW list \in Feeds, NEW own \in [Slot -> Feeds], CanRefresh(c, list)
    PROVE  Kept(Refresh(c, list, own))
<1> DEFINE a == IF c.shared THEN ApplyResult(c, list) ELSE c
           e1 == RefreshOwn(a, "primary", own["primary"])
           e2 == RefreshOwn(e1, "backup", own["backup"])
           want == [s \in Slot |-> Wanted(c, list, own, s)]
           P(s) == ResolveSourcePinned(c.src[s], own[s])
<1>0. c.shared => list # <<>>
  BY DEF CanRefresh
<1>f. list \in Seq(Profile) /\ own \in [Slot -> Seq(Profile)]
  BY FeedsAssumption
<1>p. Pointing(c)
  BY DEF Kept, Pointing
<1>s. /\ "primary" \in Slot \ {"backup"} /\ "backup" \in Slot \ {"primary"}
      /\ Slot = {"primary", "backup"}
  BY DEF Slot
<1>t. "primary" \in Slot /\ "backup" \in Slot
  BY DEF Slot
<1>o. own["primary"] \in Seq(Profile) /\ own["backup"] \in Seq(Profile)
  BY <1>f, <1>s
<1>1. Refresh(c, list, own) = [e2 EXCEPT !.want = want]
  BY DEF Refresh
<1>2. /\ Pointing(a) /\ a.src = c.src
      /\ \A s \in Slot : ServerAt(a, s) =
            IF ~ c.shared \/ (Own(c, s) /\ At(c, s) # NoProfile) THEN ServerAt(c, s)
            ELSE Found(list, At(c, s))
  <2>1. CASE c.shared
    <3>1. a = ApplyResult(c, list)
      BY <2>1
    <3> HIDE DEF a
    <3>2. list # <<>>
      BY <1>0, <2>1
    <3>3. /\ Pointing(a) /\ SameButPool(c, a)
          /\ \A s \in Slot : ServerAt(a, s) = IF Own(c, s) /\ At(c, s) # NoProfile
                                              THEN ServerAt(c, s)
                                              ELSE Found(list, At(c, s))
      BY <1>p, <1>f, <3>1, <3>2, ApplyResultLands
    <3> QED BY <2>1, <3>3 DEF SameButPool
  <2>2. CASE ~ c.shared
    BY <1>p, <2>2
  <2> QED BY <2>1, <2>2
<1> HIDE DEF a
<1>r. /\ P("primary") = ResolveSourcePinned(a.src["primary"], own["primary"])
      /\ P("backup") = ResolveSourcePinned(c.src["backup"], own["backup"])
  BY <1>2
<1> HIDE DEF P
<1>e. /\ e1 = RefreshOwn(a, "primary", own["primary"])
      /\ e2 = RefreshOwn(e1, "backup", own["backup"])
  OBVIOUS
<1> HIDE DEF e1, e2
<1>3. /\ Pointing(e1) /\ e1.src["backup"] = c.src["backup"]
      /\ ServerAt(e1, "backup") = ServerAt(a, "backup")
      /\ ServerAt(e1, "primary") = IF Own(c, "primary") /\ P("primary") # NoProfile
                                   THEN P("primary").server ELSE ServerAt(a, "primary")
  <2>1. /\ Pointing(e1)
        /\ \A t \in Slot \ {"primary"} : e1.src[t] = a.src[t] /\ ServerAt(e1, t) = ServerAt(a, t)
        /\ ServerAt(e1, "primary") = IF Own(a, "primary") /\ P("primary") # NoProfile
                                     THEN P("primary").server ELSE ServerAt(a, "primary")
    <3> DEFINE l == own["primary"]
               p == P("primary")
    <3>1. l \in Seq(Profile) /\ p = ResolveSourcePinned(a.src["primary"], l)
          /\ e1 = RefreshOwn(a, "primary", l)
      BY <1>o, <1>r, <1>e
    <3> HIDE DEF l, p
    <3>2. Pointing(a)
      BY <1>2
    <3>3. PICK s \in Slot : s = "primary"
      BY <1>t
    <3>4. p = ResolveSourcePinned(a.src[s], l) /\ e1 = RefreshOwn(a, s, l)
      BY <3>1, <3>3
    <3>5. /\ Pointing(e1)
          /\ \A t \in Slot \ {s} : e1.src[t] = a.src[t] /\ ServerAt(e1, t) = ServerAt(a, t)
          /\ ServerAt(e1, s) = IF Own(a, s) /\ p # NoProfile THEN p.server ELSE ServerAt(a, s)
      BY <3>1, <3>2, <3>4, RefreshOwnLands
    <3> QED BY <3>3, <3>5 DEF p
  <2> QED BY <1>s, <1>2, <2>1 DEF Own
<1>4. /\ Pointing(e2) /\ ServerAt(e2, "primary") = ServerAt(e1, "primary")
      /\ ServerAt(e2, "backup") = IF Own(c, "backup") /\ P("backup") # NoProfile
                                  THEN P("backup").server ELSE ServerAt(e1, "backup")
  <2>1. P("backup") = ResolveSourcePinned(e1.src["backup"], own["backup"])
    BY <1>r, <1>3
  <2>2. /\ Pointing(e2)
        /\ \A t \in Slot \ {"backup"} : ServerAt(e2, t) = ServerAt(e1, t)
        /\ ServerAt(e2, "backup") = IF Own(e1, "backup") /\ P("backup") # NoProfile
                                    THEN P("backup").server ELSE ServerAt(e1, "backup")
    <3> DEFINE l == own["backup"]
               p == P("backup")
    <3>1. l \in Seq(Profile) /\ p = ResolveSourcePinned(e1.src["backup"], l)
          /\ e2 = RefreshOwn(e1, "backup", l)
      BY <1>o, <1>r, <1>e, <2>1
    <3> HIDE DEF l, p
    <3>2. Pointing(e1)
      BY <1>3
    <3>3. PICK s \in Slot : s = "backup"
      BY <1>t
    <3>4. p = ResolveSourcePinned(e1.src[s], l) /\ e2 = RefreshOwn(e1, s, l)
      BY <3>1, <3>3
    <3>5. /\ Pointing(e2)
          /\ \A t \in Slot \ {s} : e2.src[t] = e1.src[t] /\ ServerAt(e2, t) = ServerAt(e1, t)
          /\ ServerAt(e2, s) = IF Own(e1, s) /\ p # NoProfile THEN p.server ELSE ServerAt(e1, s)
      BY <3>1, <3>2, <3>4, RefreshOwnLands
    <3> QED BY <3>3, <3>5 DEF p
  <2> QED BY <1>s, <1>3, <2>2 DEF Own
<1>5. \A s \in Slot : want[s] = ServerAt(e2, s)
  <2>1. \A s \in Slot : ServerAt(e2, s) = IF Own(c, s) /\ P(s) # NoProfile THEN P(s).server
                                          ELSE ServerAt(a, s)
    BY <1>s, <1>3, <1>4
  <2>2. \A s \in Slot : Wanted(c, list, own, s) =
            IF Own(c, s) /\ P(s) # NoProfile THEN P(s).server
            ELSE IF ~ c.shared \/ (Own(c, s) /\ At(c, s) # NoProfile) THEN ServerAt(c, s)
            ELSE Found(list, At(c, s))
    BY <1>f, WantedIs DEF P
  <2> QED BY <1>2, <2>1, <2>2
<1>6. want \in [Slot -> Server \cup {NoServer}]
  BY <1>4, <1>5, AtType
<1> HIDE DEF want
<1> DEFINE d == [e2 EXCEPT !.want = want]
<1>7. d \in Config /\ d.want = want /\ d.pool = e2.pool /\ d.at = e2.at
  BY <1>4, <1>6 DEF Pointing, Config
<1> HIDE DEF d
<1>8. Kept(d)
  BY <1>4, <1>5, <1>7 DEF Kept, Pointing, Points, ServerAt, At
<1> QED BY <1>1, <1>8 DEF d

-----------------------------------------------------------------------------
(* The other commands *)

\* Settings beside the pool.
LEMMA SettingKeeps ==
    ASSUME NEW c, Kept(c)
    PROVE  /\ Kept([c EXCEPT !.shared = TRUE])
           /\ \A port \in {"own", "adaptive"} : Kept([c EXCEPT !.http = port])
           /\ \A on \in BOOLEAN : Kept([c EXCEPT !.adaptive = on])
<1>1. ASSUME NEW d \in Config, d.pool = c.pool, d.at = c.at, d.want = c.want
      PROVE  Kept(d)
  BY <1>1 DEF Kept, Points, ServerAt, At
<1>2. LET d == [c EXCEPT !.shared = TRUE] IN d \in Config /\ d.pool = c.pool /\ d.at = c.at /\ d.want = c.want
  BY DEF Kept, Config
<1>3. \A port \in {"own", "adaptive"} :
        LET d == [c EXCEPT !.http = port]
        IN  d \in Config /\ d.pool = c.pool /\ d.at = c.at /\ d.want = c.want
  BY DEF Kept, Config
<1>4. \A on \in BOOLEAN :
        LET d == [c EXCEPT !.adaptive = on]
        IN  d \in Config /\ d.pool = c.pool /\ d.at = c.at /\ d.want = c.want
  BY DEF Kept, Config
<1> QED BY <1>1, <1>2, <1>3, <1>4

\* A profile chosen for a slot.
LEMMA ChooseKeeps ==
    ASSUME NEW c, Kept(c), NEW s \in Slot, NEW p \in Profile, NEW d, d = Choose(c, s, p)
    PROVE  Kept(d) /\ d.src = c.src
<1> DEFINE e == Put(c, s, p)
<1>1. /\ Pointing(e) /\ SameButPool(c, e) /\ ServerAt(e, s) = p.server
      /\ \A t \in Slot \ {s} : ServerAt(e, t) = ServerAt(c, t)
  BY PutStays DEF Kept, Pointing
<1>2. d = [e EXCEPT !.want[s] = p.server]
  BY DEF Choose
<1> HIDE DEF e
<1>3. [e.want EXCEPT ![s] = p.server] \in [Slot -> Server \cup {NoServer}]
  BY <1>1 DEF Pointing, Config, Profile
<1>4. d = [e EXCEPT !.want = [e.want EXCEPT ![s] = p.server]]
  BY <1>1, <1>2 DEF Pointing, Config
<1>5. /\ d \in Config /\ d.pool = e.pool /\ d.at = e.at /\ d.src = e.src
      /\ d.want = [e.want EXCEPT ![s] = p.server]
  BY <1>1, <1>3, <1>4 DEF Pointing, Config
<1>6. \A t \in Slot : d.want[t] = ServerAt(e, t)
  BY <1>1, <1>5 DEF SameButPool, Kept, Pointing, Config
<1> QED BY <1>1, <1>5, <1>6 DEF Kept, Pointing, Points, ServerAt, At, SameButPool

\* What a source may resolve to when it is set.
LEMMA ResolvedIs ==
    ASSUME NEW x \in Resolved
    PROVE  x.source \in Source /\ x.profile \in Profile
<1>1. CASE \E p \in Links : x = [source |-> [NoSource EXCEPT !.link = p], profile |-> p]
  <2>1. PICK p \in Links : x = [source |-> [NoSource EXCEPT !.link = p], profile |-> p]
    BY <1>1
  <2>2. p \in Profile /\ [NoSource EXCEPT !.link = p] \in Source
    BY FeedsAssumption DEF NoSource, Source
  <2> QED BY <2>1, <2>2
<1>2. CASE \E k \in Selector, list \in Feeds :
              /\ x = [source |-> [NoSource EXCEPT !.pick = k], profile |-> Pick(list, k)]
              /\ x.profile # NoProfile
  <2>1. PICK k \in Selector, list \in Feeds :
              /\ x = [source |-> [NoSource EXCEPT !.pick = k], profile |-> Pick(list, k)]
              /\ x.profile # NoProfile
    BY <1>2
  <2>2. [NoSource EXCEPT !.pick = k] \in Source /\ [NoSource EXCEPT !.pick = k].pick = k
    BY DEF NoSource, Source
  <2>3. list \in Seq(Profile)
    BY FeedsAssumption
  <2>4. Pick(list, k) \in Profile \cup {NoProfile}
    BY <2>2, <2>3, ResolvedType
  <2> QED BY <2>1, <2>2, <2>4
<1> QED BY <1>1, <1>2 DEF Resolved

\* A source of its own for a slot.
LEMMA SetSourceKeeps ==
    ASSUME NEW c, Kept(c), NEW s \in Slot, NEW x \in Resolved,
           NEW d, d = SetSource(c, s, x.source, x.profile)
    PROVE  Kept(d)
<1> DEFINE e == Choose(c, s, x.profile)
           source == [x.source EXCEPT !.anchor = x.profile.server]
<1>1. x.source \in Source /\ x.profile \in Profile
  BY ResolvedIs
<1>2. Kept(e)
  BY <1>1, ChooseKeeps
<1>3. d = [e EXCEPT !.src[s] = source]
  BY DEF SetSource
<1>4. source \in Source
  BY <1>1 DEF Source, Profile
<1> HIDE DEF e, source
<1>5. d = [e EXCEPT !.src = [e.src EXCEPT ![s] = source]]
  BY <1>2, <1>3 DEF Kept, Config
<1>6. [e.src EXCEPT ![s] = source] \in [Slot -> Source]
  BY <1>2, <1>4 DEF Kept, Config
<1>7. d \in Config /\ d.pool = e.pool /\ d.at = e.at /\ d.want = e.want
  BY <1>2, <1>5, <1>6 DEF Kept, Config
<1> QED BY <1>2, <1>7 DEF Kept, Points, ServerAt, At

\* The backup put on the primary.
LEMMA MirroredKeeps ==
    ASSUME NEW c, Kept(c), NEW d, d = Mirrored(c)
    PROVE  Kept(d)
<1>s. "primary" \in Slot /\ "backup" \in Slot
  BY DEF Slot
<1>1. d = [c EXCEPT !.at = [c.at EXCEPT !["backup"] = c.at["primary"]],
                    !.want = [c.want EXCEPT !["backup"] = c.want["primary"]]]
  BY DEF Mirrored, Kept, Config
<1>2. /\ [c.at EXCEPT !["backup"] = c.at["primary"]] \in [Slot -> Nat]
      /\ [c.want EXCEPT !["backup"] = c.want["primary"]] \in [Slot -> Server \cup {NoServer}]
  BY <1>s DEF Kept, Config
<1>3. /\ d \in Config /\ d.pool = c.pool
      /\ d.at = [c.at EXCEPT !["backup"] = c.at["primary"]]
      /\ d.want = [c.want EXCEPT !["backup"] = c.want["primary"]]
  BY <1>1, <1>2 DEF Kept, Config
<1>4. \A s \in Slot : \E t \in Slot : d.at[s] = c.at[t] /\ d.want[s] = c.want[t]
  BY <1>s, <1>3 DEF Kept, Config
<1> QED BY <1>3, <1>4 DEF Kept, Points, ServerAt, At

\* The editor's two commands for the slots beside a source for the backup.
LEMMA EditKeeps ==
    ASSUME NEW c, Kept(c)
    PROVE  /\ \A x \in Resolved : Kept(EditPrimary(c, x))
           /\ Kept(SkipBackup(c))
<1>s. "primary" \in Slot /\ "backup" \in Slot
  BY DEF Slot
<1>1. ASSUME NEW x \in Resolved PROVE Kept(EditPrimary(c, x))
  BY <1>s, SetSourceKeeps, MirroredKeeps DEF EditPrimary
<1>2. Kept(SkipBackup(c))
  <2> DEFINE d == [c EXCEPT !.src["backup"] = NoSource]
  <2>1. NoSource \in Source
    BY DEF NoSource, Source
  <2>2. d = [c EXCEPT !.src = [c.src EXCEPT !["backup"] = NoSource]]
    BY DEF Kept, Config
  <2>3. d \in Config /\ d.pool = c.pool /\ d.at = c.at /\ d.want = c.want
    BY <2>1, <2>2 DEF Kept, Config
  <2>4. SkipBackup(c) = Mirrored(d)
    BY DEF SkipBackup
  <2> HIDE DEF d
  <2>5. Kept(d)
    BY <2>3 DEF Kept, Points, ServerAt, At
  <2> QED BY <2>4, <2>5, MirroredKeeps
<1> QED BY <1>1, <1>2

\* A profile of the pool given to a slot.
LEMMA SetRoleKeeps ==
    ASSUME NEW c, Kept(c), NEW s \in Slot, NEW i \in DOMAIN c.pool, NEW d, d = SetRole(c, s, i)
    PROVE  Kept(d)
<1>0. /\ Len(c.pool) \in Nat /\ i \in 1 .. Len(c.pool) /\ c.pool[i] \in Profile
  BY LenProperties, ElementOfSeq DEF Kept, Config
<1>1. d = [c EXCEPT !.at = [c.at EXCEPT ![s] = i], !.want = [c.want EXCEPT ![s] = c.pool[i].server]]
  BY DEF SetRole, Kept, Config
<1>2. /\ [c.at EXCEPT ![s] = i] \in [Slot -> Nat]
      /\ [c.want EXCEPT ![s] = c.pool[i].server] \in [Slot -> Server \cup {NoServer}]
  BY <1>0 DEF Kept, Config, Profile
<1>3. /\ d \in Config /\ d.pool = c.pool /\ d.at = [c.at EXCEPT ![s] = i]
      /\ d.want = [c.want EXCEPT ![s] = c.pool[i].server]
  BY <1>1, <1>2 DEF Kept, Config
<1>4. ASSUME NEW t \in Slot PROVE Points(d, t) /\ d.want[t] = ServerAt(d, t)
  <2>1. CASE t = s
    <3>1. d.at[t] = i /\ d.want[t] = c.pool[i].server /\ i # 0 /\ i \in 0 .. Len(c.pool)
      BY <1>0, <1>3, <2>1 DEF Kept, Config
    <3> QED BY <1>3, <3>1 DEF Points, ServerAt, At
  <2>2. CASE t # s
    <3>1. d.at[t] = c.at[t] /\ d.want[t] = c.want[t]
      BY <1>3, <2>2 DEF Kept, Config
    <3> QED BY <1>3, <3>1 DEF Kept, Points, ServerAt, At
  <2> QED BY <2>1, <2>2
<1> QED BY <1>3, <1>4 DEF Kept

\* A profile added to the pool.
LEMMA AddKeeps ==
    ASSUME NEW c, Kept(c), NEW p \in Profile, NEW d, d = [c EXCEPT !.pool = Append(@, p)]
    PROVE  Kept(d)
<1>0. c \in Config /\ c.pool \in Seq(Profile) /\ Len(c.pool) \in Nat
  BY LenProperties DEF Kept, Config
<1> DEFINE q == Append(c.pool, p)
<1>1. q \in Seq(Profile) /\ Len(q) = Len(c.pool) + 1 /\ \A i \in 1 .. Len(c.pool) : q[i] = c.pool[i]
  BY <1>0, AppendProperties
<1>2. d = [c EXCEPT !.pool = q]
  OBVIOUS
<1> HIDE DEF q
<1>3. d \in Config /\ d.pool = q /\ d.at = c.at /\ d.want = c.want
  BY <1>0, <1>1, <1>2 DEF Config
<1>4. Extends(c.pool, d.pool)
  BY <1>0, <1>1, <1>3 DEF Extends
<1>5. \A s \in Slot : Points(d, s) /\ ServerAt(d, s) = ServerAt(c, s)
  BY <1>0, <1>3, <1>4, StaysThere DEF Kept
<1> QED BY <1>3, <1>5 DEF Kept

\* A profile removed: those behind it move up, and a slot on it is unset.
LEMMA RemoveKeeps ==
    ASSUME NEW c, Kept(c), NEW i \in DOMAIN c.pool, NEW d, d = RemoveProfile(c, i)
    PROVE  Kept(d)
<1> DEFINE q == RemoveAt(c.pool, i)
           n == Len(c.pool)
<1>0. c \in Config /\ c.pool \in Seq(Profile) /\ n \in Nat /\ i \in 1 .. n
  BY LenProperties DEF Kept, Config
<1>1. /\ q \in Seq(Profile) /\ Len(q) = n - 1
      /\ \A j \in 1 .. n - 1 : q[j] = IF j < i THEN c.pool[j] ELSE c.pool[j + 1]
  <2> DEFINE l == SubSeq(c.pool, 1, i - 1)
             r == SubSeq(c.pool, i + 1, n)
  <2>1. /\ l \in Seq(Profile) /\ Len(l) = i - 1 /\ \A j \in 1 .. i - 1 : l[j] = c.pool[j]
    <3>1. i - 1 \in 0 .. n /\ \A j \in 1 .. i - 1 : j \in 1 .. n
      BY <1>0
    <3>2. \A j \in 1 .. n : c.pool[j] \in Profile
      BY <1>0, ElementOfSeq
    <3> QED BY <1>0, <3>1, <3>2, SubSeqProperties
  <2>2. /\ r \in Seq(Profile) /\ Len(r) = n - i /\ \A j \in 1 .. n - i : r[j] = c.pool[i + j]
    <3>2. \A j \in 1 .. n : c.pool[j] \in Profile
      BY <1>0, ElementOfSeq
    <3> QED BY <1>0, <3>2, SubSeqProperties
  <2>3. q = l \o r
    BY DEF RemoveAt
  <2> HIDE DEF q, l, r, n
  <2>4. /\ q \in Seq(Profile) /\ Len(q) = (i - 1) + (n - i)
        /\ \A j \in 1 .. (i - 1) + (n - i) : q[j] = IF j <= i - 1 THEN l[j] ELSE r[j - (i - 1)]
    <3>1. /\ l \o r \in Seq(Profile) /\ Len(l \o r) = Len(l) + Len(r)
          /\ \A j \in 1 .. Len(l) + Len(r) : (l \o r)[j] = IF j <= Len(l) THEN l[j] ELSE r[j - Len(l)]
      BY <2>1, <2>2, ConcatProperties
    <3> QED BY <2>1, <2>2, <2>3, <3>1
  <2>5. ASSUME NEW j \in 1 .. n - 1
        PROVE  q[j] = IF j < i THEN c.pool[j] ELSE c.pool[j + 1]
    <3>1. CASE j < i
      <4>1. j \in 1 .. i - 1 /\ j \in 1 .. (i - 1) + (n - i) /\ j <= i - 1
        BY <1>0, <3>1
      <4> QED BY <2>1, <2>4, <3>1, <4>1
    <3>2. CASE ~ (j < i)
      <4>1. /\ j - (i - 1) \in 1 .. n - i /\ j \in 1 .. (i - 1) + (n - i) /\ ~ (j <= i - 1)
            /\ i + (j - (i - 1)) = j + 1
        BY <1>0, <3>2
      <4>2. q[j] = r[j - (i - 1)]
        BY <2>4, <4>1
      <4>3. r[j - (i - 1)] = c.pool[i + (j - (i - 1))]
        BY <2>2, <4>1
      <4> QED BY <3>2, <4>1, <4>2, <4>3
    <3> QED BY <3>1, <3>2
  <2>6. (i - 1) + (n - i) = n - 1
    BY <1>0
  <2> QED BY <2>4, <2>5, <2>6
<1> DEFINE at == [s \in Slot |-> ReindexAfterRemoval(c.at[s], i)]
           want == [s \in Slot |-> IF c.at[s] = i THEN NoServer ELSE c.want[s]]
<1>2. d = [c EXCEPT !.pool = q, !.at = at, !.want = want]
  BY DEF RemoveProfile
<1>3. ASSUME NEW s \in Slot
      PROVE  /\ at[s] \in 0 .. n - 1
             /\ at[s] = 0 => want[s] = NoServer
             /\ at[s] # 0 => want[s] = q[at[s]].server
  <2> DEFINE k == c.at[s]
  <2>1. /\ k \in 0 .. n /\ c.want[s] = IF k = 0 THEN NoServer ELSE c.pool[k].server
    BY DEF Kept, Points, ServerAt, At, NoProfile
  <2>2. at[s] = ReindexAfterRemoval(k, i) /\ want[s] = IF k = i THEN NoServer ELSE c.want[s]
    OBVIOUS
  <2> HIDE DEF k, at, want, q, n
  <2>3. CASE k = i
    <3>1. at[s] = 0
      BY <1>0, <2>1, <2>2, <2>3 DEF ReindexAfterRemoval
    <3> QED BY <1>0, <2>2, <2>3, <3>1
  <2>4. CASE k > i
    <3>1. at[s] = k - 1 /\ want[s] = c.want[s]
      BY <1>0, <2>1, <2>2, <2>4 DEF ReindexAfterRemoval
    <3>2. k - 1 \in 1 .. n - 1 /\ ~ (k - 1 < i) /\ (k - 1) + 1 = k /\ k # 0 /\ k - 1 \in 0 .. n - 1
      BY <1>0, <2>1, <2>4
    <3>3. q[k - 1] = c.pool[k]
      BY <1>1, <3>2
    <3>4. k - 1 # 0
      BY <3>2
    <3> QED BY <2>1, <3>1, <3>2, <3>3, <3>4
  <2>5. CASE k < i
    <3>1. at[s] = k /\ want[s] = c.want[s]
      BY <1>0, <2>1, <2>2, <2>5 DEF ReindexAfterRemoval
    <3>2. k \in 0 .. n - 1
      BY <1>0, <2>1, <2>5
    <3>3. k # 0 => k \in 1 .. n - 1
      BY <1>0, <3>2
    <3>4. k # 0 => q[k] = c.pool[k]
      BY <1>1, <2>5, <3>3
    <3> QED BY <2>1, <3>1, <3>2, <3>4
  <2> QED BY <1>0, <2>1, <2>3, <2>4, <2>5
<1>4. at \in [Slot -> Nat] /\ want \in [Slot -> Server \cup {NoServer}]
  <2>1. \A s \in Slot : at[s] \in Nat
    BY <1>0, <1>3
  <2>2. \A s \in Slot : want[s] \in Server \cup {NoServer}
    BY <1>0 DEF Config
  <2> QED BY <2>1, <2>2
<1> HIDE DEF q, at, want
<1>5. d \in Config /\ d.pool = q /\ d.at = at /\ d.want = want
  BY <1>0, <1>1, <1>2, <1>4 DEF Config
<1>6. \A s \in Slot : Points(d, s) /\ d.want[s] = ServerAt(d, s)
  <2>1. Len(d.pool) = n - 1
    BY <1>1, <1>5
  <2> HIDE DEF n
  <2> QED BY <1>3, <1>5, <2>1 DEF Points, ServerAt, At, NoProfile
<1> QED BY <1>5, <1>6 DEF Kept

\* The pool replaced by the setup, and both slots picked from it.
LEMMA SetupKeeps ==
    ASSUME NEW c, Kept(c), NEW list \in Seq(Profile), NEW url \in BOOLEAN,
           NEW i \in DOMAIN list, NEW j \in DOMAIN list, NEW d, d = SetupFrom(c, list, url, i, j)
    PROVE  Kept(d)
<1>0. /\ Len(list) \in Nat /\ i \in 1 .. Len(list) /\ j \in 1 .. Len(list)
      /\ list[i] \in Profile /\ list[j] \in Profile
  BY LenProperties, ElementOfSeq
<1> DEFINE at == [primary |-> i, backup |-> j]
           want == [primary |-> list[i].server, backup |-> list[j].server]
<1>2. /\ at \in [Slot -> Nat] /\ want \in [Slot -> Server \cup {NoServer}]
      /\ at["primary"] = i /\ at["backup"] = j
      /\ want["primary"] = list[i].server /\ want["backup"] = list[j].server
  BY <1>0 DEF Slot, Profile
<1>3. d = [c EXCEPT !.pool = list, !.shared = @ \/ url, !.at = at, !.want = want]
  BY DEF SetupFrom
<1> HIDE DEF at, want
<1>4. d \in Config /\ d.pool = list /\ d.at = at /\ d.want = want
  BY <1>2, <1>3 DEF Kept, Config
<1>5. i # 0 /\ j # 0 /\ i \in 0 .. Len(list) /\ j \in 0 .. Len(list)
  BY <1>0
<1>6. \A s \in Slot : Points(d, s) /\ d.want[s] = ServerAt(d, s)
  BY <1>2, <1>4, <1>5 DEF Slot, Points, ServerAt, At
<1> QED BY <1>4, <1>6 DEF Kept

-----------------------------------------------------------------------------
(* The slots, in every copy *)

\* Every copy of the configuration there is has its slots where they were put.
Copies == /\ TypeOK /\ Kept(disk) /\ Kept(bot) /\ Kept(reload.config) /\ Kept(cli.copy)
          /\ \A w \in Writer : Kept(daemon[w].copy)

LEMMA EmptyKept == Kept(Empty)
<1>1. NoSource \in Source /\ Empty.at \in [Slot -> Nat] /\ Empty.want \in [Slot -> Server \cup {NoServer}]
  BY DEF Empty, NoSource, Source
<1>2. Empty \in Config
  <2>1. [w \in Writer |-> 0] \in [Writer -> Nat]
    OBVIOUS
  <2> QED BY <1>1, <2>1 DEF Empty, Config
<1>3. /\ Empty.pool = <<>> /\ Len(Empty.pool) \in Nat
      /\ \A s \in Slot : Empty.at[s] = 0 /\ Empty.want[s] = NoServer
  BY EmptySeq DEF Empty
<1> QED BY <1>2, <1>3 DEF Kept, Points, ServerAt, At, NoProfile

\* What a loop of the daemon notes moves no slot.
LEMMA NotedKeeps ==
    ASSUME NEW c, Kept(c), NEW w \in Writer
    PROVE  Kept([c EXCEPT !.noted[w] = @ + 1])
<1>1. c \in Config /\ c.noted \in [Writer -> Nat] /\ c.noted[w] \in Nat
  BY DEF Kept, Config
<1>2. PICK k \in Nat : k = c.noted[w] + 1
  BY <1>1
<1>3. PICK n : n = [c.noted EXCEPT ![w] = k]
  OBVIOUS
<1>4. n \in [Writer -> Nat]
  BY <1>1, <1>2, <1>3
<1>5. PICK d : d = [c EXCEPT !.noted = n]
  OBVIOUS
<1>6. /\ d \in Config /\ d.pool = c.pool /\ d.at = c.at /\ d.want = c.want
  BY <1>1, <1>4, <1>5 DEF Config
<1>7. [c EXCEPT !.noted[w] = @ + 1] = d
  BY <1>1, <1>2, <1>3, <1>5 DEF Config
<1>8. Kept(d)
  BY <1>6 DEF Kept, Points, ServerAt, At
<1> QED BY <1>7, <1>8

LEMMA InitCopies == Init => Copies
<1> SUFFICES ASSUME Init PROVE Copies
  OBVIOUS
<1>1. Kept(disk) /\ bot = disk
  BY StartAssumption DEF Init, Kept, Points, ServerAt
<1>2. reload = [on |-> FALSE, config |-> Empty] /\ cli = [on |-> FALSE, copy |-> Empty, saved |-> FALSE]
  BY DEF Init, NoReload
<1>3. Empty \in Config
  BY EmptyKept DEF Kept
<1>4. busy = FALSE /\ hup = FALSE /\ commands = 0 /\ astray = {} /\ 0 \in 0 .. MaxCommands
  BY BoundAssumption DEF Init
<1>5. daemon \in [Writer -> [on: BOOLEAN, copy: Config]] /\ \A w \in Writer : daemon[w].copy = Empty
  BY <1>3 DEF Init, NoCopy
<1>6. TypeOK
  BY <1>1, <1>2, <1>3, <1>4, <1>5 DEF TypeOK, Kept
<1> QED BY <1>1, <1>2, <1>5, <1>6, EmptyKept DEF Copies

\* The end of a command of the bot, of a CLI command, and one save of the editor.
LEMMA SavesKeep ==
    ASSUME Copies, NEW c, Kept(c), NEW said \in BOOLEAN, BotSave(c) \/ CliEnd(c, said) \/ CliEdit(c)
    PROVE  Copies'
<1>c. c \in Config
  BY DEF Kept
<1>1. CASE BotSave(c)
  <2>1. (disk' = c \/ disk' = disk) /\ bot' = c /\ reload' = reload /\ cli' = cli
    BY <1>1 DEF BotSave
  <2>0. daemon' = daemon
    BY <1>1 DEF BotSave
  <2>2. astray' \subseteq {"untold", "refused", "crossed", "unshared"}
    BY <1>1 DEF BotSave, Copies, TypeOK, Crossed
  <2>3. TypeOK'
    BY <1>1, <1>c, <2>0, <2>1, <2>2 DEF BotSave, Copies, TypeOK
  <2> QED BY <2>0, <2>1, <2>3 DEF Copies
<1>2. CASE CliEnd(c, said)
  <2>1. /\ (disk' = c \/ disk' = disk) /\ bot' = bot /\ reload' = reload
        /\ cli' = [cli EXCEPT !.on = FALSE, !.copy = Empty]
        /\ busy' = busy /\ daemon' = daemon /\ commands' = commands
    BY <1>2 DEF CliEnd
  <2>2. cli'.copy = Empty /\ cli' \in [on: BOOLEAN, copy: Config, saved: BOOLEAN]
    BY <2>1, EmptyKept DEF Copies, TypeOK, Kept
  <2>3. astray' \subseteq {"untold", "refused", "crossed", "unshared"} /\ hup' \in BOOLEAN
    BY <1>2 DEF CliEnd, Copies, TypeOK
  <2>4. TypeOK'
    BY <1>c, <2>1, <2>2, <2>3 DEF Copies, TypeOK
  <2> QED BY <2>1, <2>2, <2>4, EmptyKept DEF Copies
<1>3. CASE CliEdit(c)
  <2>1. /\ (disk' = c \/ disk' = disk) /\ bot' = bot /\ reload' = reload
        /\ cli' = [cli EXCEPT !.copy = c, !.saved = cli.saved \/ Validate(c)]
        /\ commands' = commands + 1 /\ commands < MaxCommands
        /\ busy' = busy /\ hup' = hup /\ daemon' = daemon /\ astray' = astray
    BY <1>3 DEF CliEdit, Command
  <2>2. Validate(c) \in BOOLEAN
    BY DEF Validate
  <2>3. cli'.copy = c /\ cli' \in [on: BOOLEAN, copy: Config, saved: BOOLEAN]
    BY <1>c, <2>1, <2>2 DEF Copies, TypeOK
  <2>4. commands' \in 0 .. MaxCommands
    BY <2>1, BoundAssumption DEF Copies, TypeOK
  <2>5. TypeOK'
    BY <1>c, <2>1, <2>3, <2>4 DEF Copies, TypeOK
  <2> QED BY <2>1, <2>3, <2>5 DEF Copies
<1> QED BY <1>1, <1>2, <1>3

\* A command of the bot leaves every copy well.
LEMMA BotCopies == ASSUME Copies, Bot PROVE Copies'
<1>k. Kept(bot) /\ bot \in Config
  BY DEF Copies, Kept
<1>1. CASE BotBegin
  <2>1. /\ bot' = Known /\ reload' = NoReload /\ disk' = disk /\ cli' = cli /\ busy' = TRUE
        /\ hup' = hup /\ daemon' = daemon /\ astray' = astray
        /\ commands < MaxCommands /\ commands' = commands + 1
    BY <1>1 DEF BotBegin, Command
  <2>2. Kept(bot')
    BY <2>1 DEF Known, Copies
  <2>3. Kept(reload'.config) /\ reload' \in [on: BOOLEAN, config: Config]
    BY <2>1, EmptyKept DEF NoReload, Kept
  <2>4. commands' \in 0 .. MaxCommands
    BY <2>1, BoundAssumption DEF Copies, TypeOK
  <2>5. TypeOK'
    BY <2>1, <2>2, <2>3, <2>4 DEF Copies, TypeOK, Kept
  <2> QED BY <2>1, <2>2, <2>3, <2>5 DEF Copies
<1>2. CASE BotSetSource
  <2>1. PICK s \in Slot, x \in Resolved : BotSave(SetSource(bot, s, x.source, x.profile))
    BY <1>2 DEF BotSetSource
  <2>2. Kept(SetSource(bot, s, x.source, x.profile))
    BY <1>k, SetSourceKeeps
  <2> QED BY <2>1, <2>2, SavesKeep
<1>3. CASE BotSetURL
  BY <1>3, <1>k, SettingKeeps, SavesKeep DEF BotSetURL
<1>4. CASE BotRefresh
  <2>1. PICK list \in Feeds, own \in Fetches(bot) :
            CanRefresh(bot, list) /\ BotSave(Refresh(bot, list, own))
    BY <1>4 DEF BotRefresh
  <2>2. own \in [Slot -> Feeds]
    BY DEF Fetches
  <2>3. Kept(Refresh(bot, list, own))
    BY <1>k, <2>1, <2>2, RefreshKeeps
  <2> QED BY <2>1, <2>3, SavesKeep
<1>5. CASE BotSetRole
  <2>1. PICK s \in Slot, i \in DOMAIN bot.pool : BotSave(SetRole(bot, s, i))
    BY <1>5 DEF BotSetRole
  <2>2. Kept(SetRole(bot, s, i))
    BY <1>k, SetRoleKeeps
  <2> QED BY <2>1, <2>2, SavesKeep
<1>6. CASE BotSaveOther
  BY <1>6, <1>k, SavesKeep DEF BotSaveOther
<1>7. CASE BotNothing
  <2>1. /\ disk' = disk /\ bot' = bot /\ reload' = reload /\ cli' = cli /\ hup' = hup
        /\ daemon' = daemon /\ commands' = commands /\ busy' = FALSE /\ astray' = astray
    BY <1>7 DEF BotNothing
  <2>2. TypeOK'
    BY <2>1 DEF Copies, TypeOK
  <2> QED BY <2>1, <2>2 DEF Copies
<1>8. CASE BotSetPorts
  <2>1. PICK port \in {"own", "adaptive"} : BotSave([bot EXCEPT !.http = port]) \/ BotNothing
    BY <1>8 DEF BotSetPorts
  <2>2. Kept([bot EXCEPT !.http = port])
    BY <1>k, SettingKeeps
  <2> QED BY <1>7, <2>1, <2>2, SavesKeep
<1>9. CASE BotAdaptive
  BY <1>9, <1>k, SettingKeeps, SavesKeep DEF BotAdaptive
<1> QED BY <1>1, <1>2, <1>3, <1>4, <1>5, <1>6, <1>7, <1>8, <1>9 DEF Bot

\* So does a step of the CLI process.
LEMMA CliCopies == ASSUME Copies, CLI PROVE Copies'
<1>k. Kept(cli.copy)
  BY DEF Copies
<1>1. CASE CliBegin
  <2>1. /\ cli' = [on |-> TRUE, copy |-> disk, saved |-> FALSE] /\ disk' = disk /\ bot' = bot
        /\ reload' = reload /\ busy' = busy /\ hup' = hup /\ daemon' = daemon /\ astray' = astray
        /\ commands < MaxCommands /\ commands' = commands + 1
    BY <1>1 DEF CliBegin, Command
  <2>2. commands' \in 0 .. MaxCommands
    BY <2>1, BoundAssumption DEF Copies, TypeOK
  <2>3. TypeOK'
    BY <2>1, <2>2 DEF Copies, TypeOK
  <2> QED BY <2>1, <2>3 DEF Copies
<1>2. CASE CliRefresh
  <2>1. PICK list \in Feeds, own \in Fetches(cli.copy) :
            CanRefresh(cli.copy, list) /\ CliEnd(Refresh(cli.copy, list, own), TRUE)
    BY <1>2 DEF CliRefresh
  <2>2. own \in [Slot -> Feeds]
    BY DEF Fetches
  <2>3. Kept(Refresh(cli.copy, list, own))
    BY <1>k, <2>1, <2>2, RefreshKeeps
  <2> QED BY <2>1, <2>3, SavesKeep
<1>3. CASE CliSetRole
  <2>1. PICK s \in Slot, i \in DOMAIN cli.copy.pool : CliEnd(SetRole(cli.copy, s, i), TRUE)
    BY <1>3 DEF CliSetRole
  <2>2. Kept(SetRole(cli.copy, s, i))
    BY <1>k, SetRoleKeeps
  <2> QED BY <2>1, <2>2, SavesKeep
<1>4. CASE CliSetup
  <2>1. CASE \E list \in Feeds : \E i, j \in DOMAIN list :
                 CliEnd(SetupFrom(cli.copy, list, TRUE, i, j), TRUE)
    <3>1. PICK list \in Feeds : \E i, j \in DOMAIN list :
                 CliEnd(SetupFrom(cli.copy, list, TRUE, i, j), TRUE)
      BY <2>1
    <3>2. PICK i \in DOMAIN list, j \in DOMAIN list :
                 CliEnd(SetupFrom(cli.copy, list, TRUE, i, j), TRUE)
      BY <3>1
    <3>3. Kept(SetupFrom(cli.copy, list, TRUE, i, j))
      BY <1>k, FeedsAssumption, SetupKeeps
    <3> QED BY <3>2, <3>3, SavesKeep
  <2>2. CASE \E p \in Links : CliEnd(SetupFrom(cli.copy, <<p>>, FALSE, 1, 1), TRUE)
    <3>1. PICK p \in Links : CliEnd(SetupFrom(cli.copy, <<p>>, FALSE, 1, 1), TRUE)
      BY <2>2
    <3>2. <<p>> \in Seq(Profile) /\ 1 \in DOMAIN <<p>>
      BY FeedsAssumption
    <3>3. Kept(SetupFrom(cli.copy, <<p>>, FALSE, 1, 1))
      BY <1>k, <3>2, SetupKeeps
    <3> QED BY <3>1, <3>3, SavesKeep
  <2> QED BY <1>4, <2>1, <2>2 DEF CliSetup
<1>5. CASE CliAdaptive
  BY <1>5, <1>k, SettingKeeps, SavesKeep DEF CliAdaptive
<1>6. CASE CliSetURL
  BY <1>6, <1>k, SettingKeeps, SavesKeep DEF CliSetURL
<1>7. CASE ProfileAdd
  <2>1. PICK p \in Links : CliEnd([cli.copy EXCEPT !.pool = Append(@, p)], FALSE)
    BY <1>7 DEF ProfileAdd
  <2>2. Kept([cli.copy EXCEPT !.pool = Append(@, p)])
    BY <1>k, FeedsAssumption, AddKeeps
  <2> QED BY <2>1, <2>2, SavesKeep
<1>8. CASE ProfileRemove
  <2>1. PICK i \in DOMAIN cli.copy.pool : CliEnd(RemoveProfile(cli.copy, i), FALSE)
    BY <1>8 DEF ProfileRemove
  <2>2. Kept(RemoveProfile(cli.copy, i))
    BY <1>k, RemoveKeeps
  <2> QED BY <2>1, <2>2, SavesKeep
<1>9. CASE EditSlots
  <2>1. CASE \E x \in Resolved : CliEdit(EditPrimary(cli.copy, x))
    BY <2>1, <1>k, EditKeeps, SavesKeep
  <2>2. CASE \E x \in Resolved : CliEdit(SetSource(cli.copy, "backup", x.source, x.profile))
    <3>1. PICK x \in Resolved : CliEdit(SetSource(cli.copy, "backup", x.source, x.profile))
      BY <2>2
    <3>2. PICK s \in Slot : s = "backup"
      BY DEF Slot
    <3>3. Kept(SetSource(cli.copy, s, x.source, x.profile))
      BY <1>k, SetSourceKeeps
    <3> QED BY <3>1, <3>2, <3>3, SavesKeep
  <2>3. CASE CliEdit(SkipBackup(cli.copy))
    BY <2>3, <1>k, EditKeeps, SavesKeep
  <2> QED BY <1>9, <2>1, <2>2, <2>3 DEF EditSlots
<1>10. CASE EditPorts
  BY <1>10, <1>k, SettingKeeps, SavesKeep DEF EditPorts
<1>11. CASE CliQuit \/ CliKilled
  <2>1. /\ cli' = [cli EXCEPT !.on = FALSE, !.copy = Empty, !.saved = FALSE] /\ disk' = disk
        /\ bot' = bot /\ reload' = reload /\ busy' = busy /\ daemon' = daemon
        /\ commands' = commands
    BY <1>11 DEF CliQuit, CliKilled
  <2>2. cli'.copy = Empty /\ cli' \in [on: BOOLEAN, copy: Config, saved: BOOLEAN]
    BY <2>1, EmptyKept DEF Copies, TypeOK, Kept
  <2>3. hup' \in BOOLEAN /\ astray' \subseteq {"untold", "refused", "crossed", "unshared"}
    BY <1>11 DEF CliQuit, CliKilled, Copies, TypeOK
  <2>4. TypeOK'
    BY <2>1, <2>2, <2>3 DEF Copies, TypeOK
  <2> QED BY <2>1, <2>2, <2>4, EmptyKept DEF Copies
<1> QED BY <1>1, <1>2, <1>3, <1>4, <1>5, <1>6, <1>7, <1>8, <1>9, <1>10, <1>11 DEF CLI

\* And one of the daemon.
LEMMA DaemonCopies == ASSUME Copies, Daemon PROVE Copies'
<1>1. CASE HangUp
  <2>1. /\ reload' = [on |-> TRUE, config |-> disk] /\ hup' = FALSE /\ disk' = disk /\ bot' = bot
        /\ cli' = cli /\ busy' = busy /\ daemon' = daemon /\ commands' = commands /\ astray' = {}
    BY <1>1 DEF HangUp
  <2>2. TypeOK'
    BY <2>1 DEF Copies, TypeOK
  <2> QED BY <2>1, <2>2 DEF Copies
<1>2. CASE Restart
  <2>1. /\ reload' = NoReload /\ hup' = FALSE /\ disk' = disk /\ bot' = disk /\ cli' = cli
        /\ busy' = FALSE /\ astray' = {} /\ commands < MaxCommands /\ commands' = commands + 1
    BY <1>2 DEF Restart, Command
  <2>2. commands' \in 0 .. MaxCommands
    BY <2>1, BoundAssumption DEF Copies, TypeOK
  <2>3. Kept(reload'.config) /\ reload' \in [on: BOOLEAN, config: Config]
    BY <2>1, EmptyKept DEF NoReload, Kept
  <2>4. /\ daemon' \in [Writer -> [on: BOOLEAN, copy: Config]]
        /\ \A w \in Writer : daemon'[w].copy = Empty
    BY <1>2, EmptyKept DEF Restart, NoCopy, Kept
  <2>5. TypeOK'
    BY <2>1, <2>2, <2>3, <2>4 DEF Copies, TypeOK
  <2> QED BY <2>1, <2>3, <2>4, <2>5, EmptyKept DEF Copies
<1>3. ASSUME NEW w \in Writer, WriterLoads(w) PROVE Copies'
  <2>1. /\ UNCHANGED <<disk, bot, busy, reload, hup, cli, astray>>
        /\ daemon' = [daemon EXCEPT ![w] = [on |-> TRUE, copy |-> disk]]
        /\ commands < MaxCommands /\ commands' = commands + 1
    BY <1>3 DEF WriterLoads, Command
  <2>2. /\ daemon' \in [Writer -> [on: BOOLEAN, copy: Config]]
        /\ \A v \in Writer : daemon'[v].copy = disk \/ daemon'[v] = daemon[v]
    BY <2>1 DEF Copies, TypeOK
  <2>3. commands' \in 0 .. MaxCommands
    BY <2>1, BoundAssumption DEF Copies, TypeOK
  <2>4. TypeOK'
    BY <2>1, <2>2, <2>3 DEF Copies, TypeOK
  <2> QED BY <2>1, <2>2, <2>4 DEF Copies
<1>4. ASSUME NEW w \in Writer, WriterSaves(w) \/ WriterLeaves(w) PROVE Copies'
  <2> DEFINE c == [daemon[w].copy EXCEPT !.noted[w] = @ + 1]
  <2>1. /\ UNCHANGED <<bot, busy, reload, hup, cli, commands>>
        /\ daemon' = [daemon EXCEPT ![w] = NoCopy]
        /\ disk' = c \/ disk' = disk
        /\ astray' = astray \cup {"unshared"} \/ astray' = astray
    BY <1>4 DEF WriterSaves, WriterLeaves
  <2>2. Kept(c)
    BY NotedKeeps DEF Copies
  <2> HIDE DEF c
  <2>3. /\ daemon' \in [Writer -> [on: BOOLEAN, copy: Config]]
        /\ \A v \in Writer : daemon'[v].copy = Empty \/ daemon'[v] = daemon[v]
    BY <2>1, EmptyKept DEF Copies, TypeOK, NoCopy, Kept
  <2>4. TypeOK'
    BY <2>1, <2>2, <2>3 DEF Copies, TypeOK, Kept
  <2> QED BY <2>1, <2>2, <2>3, <2>4, EmptyKept DEF Copies
<1> QED BY <1>1, <1>2, <1>3, <1>4 DEF Daemon

LEMMA NextCopies == ASSUME Copies, [Next]_vars PROVE Copies'
<1>1. CASE Next
  BY <1>1, BotCopies, CliCopies, DaemonCopies DEF Next
<1>2. CASE UNCHANGED vars
  BY <1>2 DEF vars, Copies, TypeOK
<1> QED BY <1>1, <1>2

LEMMA CopiesAlways == Spec => []Copies
<1>1. Init => Copies
  BY InitCopies
<1>2. Copies /\ [Next]_vars => Copies'
  BY NextCopies
<1> QED BY <1>1, <1>2, PTL DEF Spec

\* Type correctness: config.json, and each copy of it that the bot, a reload or
\* a CLI process holds, is a configuration.
THEOREM TypeCorrect == Spec => []TypeOK
<1>1. Copies => TypeOK
  BY DEF Copies
<1> QED BY <1>1, CopiesAlways, PTL

\* A slot stays on the server the operator, or a refresh that had to choose,
\* put it on: no refresh of a reordered or shrunken list, no source of the
\* other slot, no added or removed profile leaves its index on another server.
THEOREM SlotsStayOnTheirServer == Spec => []SlotsKeepTheirServer
<1>1. Copies => SlotsKeepTheirServer
  BY DEF Copies, Kept, ServerAt, SlotsKeepTheirServer
<1> QED BY <1>1, CopiesAlways, PTL

-----------------------------------------------------------------------------
(* The bot's memory *)

\* Why the bot's memory is config.json: every change of the file is on its way to it or
\* among the reasons, and a process that is not there has nothing unsaid.
Told == /\ cli \in [on: BOOLEAN, copy: Config, saved: BOOLEAN]
        /\ ~ cli.on => ~ cli.saved
        /\ (~ hup /\ ~ cli.saved /\ astray = {}) => Known = disk

LEMMA ToldInit == Init => Told
BY EmptyKept DEF Init, Told, Known, NoReload, Kept

LEMMA ToldNext == ASSUME Copies, Told, [Next]_vars PROVE Told'
<1>t. cli' \in [on: BOOLEAN, copy: Config, saved: BOOLEAN]
  BY NextCopies DEF Copies, TypeOK
<1>f. NoReload.on = FALSE
  BY DEF NoReload
<1>1. ASSUME NEW c, BotSave(c) PROVE Told'
  <2>1. /\ bot' = c /\ reload' = reload /\ cli' = cli /\ hup' = hup /\ busy
        /\ disk' = IF Validate(c) THEN c ELSE disk
        /\ astray' = IF Validate(c) THEN Crossed ELSE astray \cup {"refused"}
    BY <1>1 DEF BotSave
  <2>2. astray' = {} => Validate(c) /\ ~ reload.on
    BY <2>1 DEF Crossed
  <2> QED BY <1>t, <2>1, <2>2 DEF Told, Known
<1>2. ASSUME BotNothing PROVE Told'
  BY <1>t, <1>2 DEF BotNothing, Told, Known
<1>3. CASE Bot
  <2>1. CASE BotBegin
    BY <1>t, <1>f, <2>1 DEF BotBegin, Told, Known
  <2>2. CASE ~ BotBegin
    BY <1>1, <1>2, <1>3, <2>2
       DEF Bot, BotSetSource, BotSetURL, BotRefresh, BotSetRole, BotSaveOther, BotSetPorts, BotAdaptive
  <2> QED BY <2>1, <2>2
<1>4. ASSUME NEW c, NEW said \in BOOLEAN, CliEnd(c, said) PROVE Told'
  <2>1. /\ UNCHANGED <<bot, busy, reload>> /\ cli.on /\ ~ cli.saved
        /\ cli' = [cli EXCEPT !.on = FALSE, !.copy = Empty]
        /\ IF Validate(c)
           THEN hup' = (hup \/ said) /\ astray' = astray \cup (IF said THEN {} ELSE {"untold"})
           ELSE UNCHANGED <<disk, hup, astray>>
    BY <1>4 DEF CliEnd
  <2>2. ~ cli'.saved
    BY <2>1 DEF Told
  <2>3. CASE Validate(c)
    <3>1. hup' \/ astray' # {}
      BY <2>1, <2>3
    <3> QED BY <1>t, <2>2, <3>1 DEF Told
  <2>4. CASE ~ Validate(c)
    BY <1>t, <2>1, <2>2, <2>4 DEF Told, Known
  <2> QED BY <2>3, <2>4
<1>5. ASSUME NEW c, CliEdit(c) PROVE Told'
  <2>1. /\ UNCHANGED <<bot, busy, reload, hup, astray>> /\ cli.on
        /\ cli' = [cli EXCEPT !.copy = c, !.saved = cli.saved \/ Validate(c)]
        /\ disk' = IF Validate(c) THEN c ELSE disk
    BY <1>5 DEF CliEdit
  <2>2. cli'.on = cli.on /\ cli'.saved = (cli.saved \/ Validate(c))
    BY <2>1 DEF Told
  <2> QED BY <1>t, <2>1, <2>2 DEF Told, Known
<1>6. CASE CLI
  <2>1. CASE CliBegin
    BY <1>t, <2>1 DEF CliBegin, Told, Known
  <2>2. CASE CliQuit \/ CliKilled
    <3>1. /\ UNCHANGED <<disk, bot, busy, reload>> /\ ~ cli'.saved
          /\ (~ hup' /\ astray' = {}) => (~ hup /\ astray = {} /\ ~ cli.saved)
      BY <2>2 DEF CliQuit, CliKilled, Told
    <3> QED BY <1>t, <3>1 DEF Told, Known
  <2>3. CASE ~ (CliBegin \/ CliQuit \/ CliKilled)
    BY <1>4, <1>5, <1>6, <2>3
       DEF CLI, CliRefresh, CliSetRole, CliSetup, CliAdaptive, CliSetURL, ProfileAdd,
           ProfileRemove, EditSlots, EditPorts
  <2> QED BY <2>1, <2>2, <2>3
<1>7. CASE Daemon
  <2>1. CASE HangUp
    <3>1. reload'.on /\ reload'.config = disk /\ disk' = disk /\ cli' = cli
      BY <2>1 DEF HangUp
    <3> QED BY <1>t, <3>1 DEF Told, Known
  <2>2. CASE Restart
    <3>1. bot' = disk' /\ ~ reload'.on /\ cli' = cli
      BY <1>f, <2>2 DEF Restart
    <3> QED BY <1>t, <3>1 DEF Told, Known
  <2>3. ASSUME NEW w \in Writer, WriterLoads(w) \/ WriterLeaves(w) PROVE Told'
    BY <1>t, <2>3 DEF WriterLoads, WriterLeaves, Told, Known
  <2>4. ASSUME NEW w \in Writer, WriterSaves(w) PROVE Told'
    <3>1. /\ UNCHANGED <<bot, reload, hup, cli>>
          /\ UNCHANGED <<disk, astray>> \/ "unshared" \in astray'
      BY <2>4 DEF WriterSaves
    <3> QED BY <1>t, <3>1 DEF Told, Known
  <2> QED BY <1>7, <2>1, <2>2, <2>3, <2>4 DEF Daemon
<1>8. CASE UNCHANGED vars
  BY <1>8 DEF vars, Told, Known
<1> QED BY <1>3, <1>6, <1>7, <1>8 DEF Next

\* What the bot has in memory between its commands, or is about to adopt, is
\* config.json, unless since its last save that worked, the last reload and the
\* last restart a CLI command told nobody, a save was refused, a reload arrived
\* inside a command that saved, or a loop of the daemon saved a copy of its own:
\* whatever the order of all their loads and saves and of the signals.
THEOREM MemoryIsTheFile == Spec => []MemoryIsConfig
<1>1. Init => Told
  BY ToldInit
<1>2. Copies /\ Told /\ [Next]_vars => Told'
  BY ToldNext
<1>3. Told => MemoryIsConfig
  BY DEF Told, MemoryIsConfig
<1> QED BY <1>1, <1>2, <1>3, CopiesAlways, PTL DEF Spec
-----------------------------------------------------------------------------
(* Refreshes of the ready-made lists *)

PresetsTyped ==
    /\ upstream \in 1 .. Len(Repo) /\ file \in [Preset -> Lines]
    /\ manifest \in {None} \cup [Preset -> Lines] /\ loaded \in {None} \cup [Preset -> Lines]
    /\ pull \in [Refresher -> Pull] /\ \A r \in Refresher : pull[r].stage = "write" => pull[r].left # <<>>

\* A row of a list that has no file of its own is the built-in one's.
BuiltIn(rows) == \A p \in Preset : file[p] = None => rows[p] \in {None, Embed[p]}
Grounded ==
    /\ BuiltIn(Rows) /\ (loaded # None => BuiltIn(loaded))
    /\ \A r \in Refresher : BuiltIn(pull[r].index) /\ BuiltIn(pull[r].kept)

\* Nobody refreshes beside a refresh that is alone.
Undisturbed ==
    \A r \in Refresher : pull[r].alone => Pulling(r) /\ \A x \in Refresher \ {r} : ~ Pulling(x)
\* The rows a refresh keeps say what is served.
KeptHonest(r) == \A p \in Preset \ pull[r].missed : pull[r].kept[p] \in {None, Served(p)}
Honest == \A r \in Refresher : pull[r].alone /\ pull[r].stage \in {"rows", "write"} => KeptHonest(r)

PresetsSound == PresetsTyped /\ Grounded /\ Undisturbed /\ Honest

LEMMA EmbedRows == Embed \in [Preset -> Lines] /\ \A lines \in SUBSET Entry : lines # None
BY PresetsAssumption DEF Lines

LEMMA RowsTyped ==
    ASSUME PresetsTyped, NEW x
    PROVE  Rows \in [Preset -> Lines] /\ snapshot(x) \in [Preset -> Lines]
BY EmbedRows DEF PresetsTyped, Rows, snapshot

LEMMA RowsGrounded ==
    ASSUME Grounded, NEW x
    PROVE  BuiltIn(Rows) /\ BuiltIn(snapshot(x))
BY DEF Grounded, snapshot

LEMMA NoPullTyped ==
    NoPull \in Pull /\ ~ NoPull.alone /\ NoPull.stage = "idle" /\ NoPull.index = Embed /\ NoPull.kept = Embed
<1>1. <<>> \in Seq(Preset)
  BY EmptySeq
<1> QED BY <1>1, EmbedRows DEF NoPull, Pull

\* A set's elements, each once.
LEMMA ElementsOnce ==
    ASSUME NEW S, IsFiniteSet(S)
    PROVE  /\ SetToSeq(S) \in Seq(S) /\ Len(SetToSeq(S)) = Cardinality(S) /\ Cardinality(S) \in Nat
           /\ SetToSeq(S) \in [1 .. Cardinality(S) -> S]
           /\ \A e \in S : \E k \in 1 .. Cardinality(S) : SetToSeq(S)[k] = e
<1> DEFINE n == Cardinality(S)
<1>1. n \in Nat /\ ExistsBijection(1 .. n, S)
  BY FS_CardinalityType
<1>2. PICK g \in Bijection(1 .. n, S) : TRUE
  BY <1>1 DEF ExistsBijection
<1>3. g \in [1 .. n -> S] /\ IsInjective(g)
  BY <1>2 DEF Bijection, Injection, IsInjective
<1>4. SetToSeq(S) \in [1 .. n -> S] /\ IsInjective(SetToSeq(S))
  BY <1>3 DEF SetToSeq
<1>5. SetToSeq(S) \in Injection(1 .. n, S)
  BY <1>4 DEF Injection, IsInjective
<1>6. IsFiniteSet(1 .. n) /\ Cardinality(1 .. n) = n
  <2>1. Cardinality(1 .. n) = IF 1 > n THEN 0 ELSE n - 1 + 1
    BY <1>1, FS_Interval
  <2> QED BY <1>1, <2>1, FS_Interval
<1>7. SetToSeq(S) \in Surjection(1 .. n, S)
  BY <1>5, <1>6, FS_Injection
<1>8. \A e \in S : \E k \in 1 .. n : SetToSeq(S)[k] = e
  BY <1>7 DEF Surjection
<1>9. SetToSeq(S) \in Seq(S) /\ Len(SetToSeq(S)) = n
  BY <1>1, <1>4, IsASeq, LenProperties
<1> QED BY <1>1, <1>4, <1>8, <1>9

LEMMA InitPresets == PresetsInit => PresetsSound
<1> SUFFICES ASSUME PresetsInit PROVE PresetsSound
  OBVIOUS
<1>1. PresetsTyped
  <2>1. Len(Repo) \in Nat /\ 1 \in 1 .. Len(Repo)
    BY PresetsAssumption, LenProperties
  <2> QED BY <2>1, NoPullTyped DEF PresetsInit, PresetsTyped, Lines
<1>2. Grounded
  BY NoPullTyped DEF PresetsInit, Grounded, BuiltIn, Rows
<1>3. Undisturbed /\ Honest
  BY NoPullTyped DEF PresetsInit, Undisturbed, Honest
<1> QED BY <1>1, <1>2, <1>3 DEF PresetsSound

\* A refresh begins.
LEMMA BeginsSound ==
    ASSUME PresetsSound, NEW r \in Refresher, Begins(r), UNCHANGED <<upstream, file, manifest, loaded>>
    PROVE  PresetsSound'
<1> DEFINE new == [NoPull EXCEPT !.stage = "manifest", !.alone = \A y \in Refresher : ~ Pulling(y)]
<1>1. new \in Pull /\ new.index = Embed /\ new.kept = Embed /\ new.stage = "manifest"
      /\ new.alone = (\A y \in Refresher : ~ Pulling(y))
  BY NoPullTyped DEF Pull, NoPull
<1>2. /\ DOMAIN pull' = Refresher /\ pull'[r] = new
      /\ \A x \in Refresher \ {r} : pull'[x] = [pull[x] EXCEPT !.alone = FALSE]
  BY DEF Begins
<1> HIDE DEF new
<1>3. \A x \in Refresher \ {r} : /\ pull'[x] \in Pull /\ pull'[x].alone = FALSE
                                 /\ pull'[x].index = pull[x].index /\ pull'[x].kept = pull[x].kept
                                 /\ pull'[x].stage = pull[x].stage /\ pull'[x].left = pull[x].left
  <2> SUFFICES ASSUME NEW x \in Refresher \ {r}
               PROVE  /\ pull'[x] \in Pull /\ pull'[x].alone = FALSE
                      /\ pull'[x].index = pull[x].index /\ pull'[x].kept = pull[x].kept
                      /\ pull'[x].stage = pull[x].stage /\ pull'[x].left = pull[x].left
    OBVIOUS
  <2>1. pull[x] \in Pull /\ pull'[x] = [pull[x] EXCEPT !.alone = FALSE]
    BY <1>2 DEF PresetsSound, PresetsTyped
  <2>2. [pull[x] EXCEPT !.alone = FALSE] \in Pull
    BY <2>1 DEF Pull
  <2> QED BY <2>1, <2>2 DEF Pull
<1>4. PresetsTyped'
  <2>1. pull' \in [Refresher -> Pull]
    BY <1>1, <1>2, <1>3 DEF Begins
  <2> QED BY <1>1, <1>2, <1>3, <2>1 DEF PresetsSound, PresetsTyped
<1>5. Grounded'
  <2>1. \A x \in Refresher : BuiltIn(pull'[x].index) /\ BuiltIn(pull'[x].kept)
    BY <1>1, <1>2, <1>3 DEF PresetsSound, Grounded, BuiltIn
  <2> QED BY <2>1 DEF PresetsSound, Grounded, BuiltIn, Rows
<1>6. Undisturbed'
  BY <1>1, <1>2, <1>3 DEF Undisturbed, Pulling
<1>7. Honest'
  BY <1>1, <1>2, <1>3 DEF Honest
<1> QED BY <1>4, <1>5, <1>6, <1>7 DEF PresetsSound

\* The process of refresh r has no other to mind if r is alone, and minds no other if it is not.
LEMMA OnlyAlone ==
    ASSUME PresetsSound, NEW r \in Refresher, NEW x \in Refresher \ {r}, Pulling(r)
    PROVE  ~ pull[x].alone
BY DEF PresetsSound, Undisturbed

\* One refresh moves on; a list's file may be replaced by lines.
LEMMA PullMoves ==
    ASSUME PresetsSound, NEW r \in Refresher, Pulling(r),
           pull' \in [Refresher -> Pull], \A x \in Refresher \ {r} : pull'[x] = pull[x],
           pull'[r].stage = "write" => pull'[r].left # <<>>,
           pull'[r].alone => pull[r].alone /\ pull'[r].stage \in {"manifest", "rows", "write"},
           file' \in [Preset -> Lines], \A p \in Preset : file'[p] = file[p] \/ file'[p] # None,
           UNCHANGED <<upstream, manifest>>,
           loaded' \in {loaded, snapshot("daily")},
           \A p \in Preset : file'[p] = None => /\ pull'[r].index[p] \in {None, Embed[p]}
                                               /\ pull'[r].kept[p] \in {None, Embed[p]},
           pull'[r].alone /\ pull'[r].stage \in {"rows", "write"} => KeptHonest(r)'
    PROVE  PresetsSound'
<1>2. PresetsTyped'
  <2>2. loaded' \in {None} \cup [Preset -> Lines]
    BY RowsTyped DEF PresetsSound, PresetsTyped
  <2> QED BY <2>2 DEF PresetsSound, PresetsTyped
<1>4. Grounded'
  <2>1. BuiltIn(Rows)'
    BY DEF PresetsSound, Grounded, BuiltIn, Rows
  <2>2. (loaded # None => BuiltIn(loaded))'
    BY RowsGrounded DEF PresetsSound, Grounded, BuiltIn
  <2>3. \A x \in Refresher : BuiltIn(pull[x].index)' /\ BuiltIn(pull[x].kept)'
    BY DEF PresetsSound, Grounded, BuiltIn
  <2> QED BY <2>1, <2>2, <2>3 DEF Grounded
<1>5. Undisturbed'
  BY OnlyAlone DEF PresetsSound, Undisturbed, Pulling
<1>6. Honest'
  <2> SUFFICES ASSUME NEW x \in Refresher \ {r}, pull'[x].alone PROVE FALSE
    BY DEF Honest
  <2> QED BY OnlyAlone
<1> QED BY <1>2, <1>4, <1>5, <1>6 DEF PresetsSound

LEMMA ManifestSound == ASSUME PresetsSound, NEW r \in Refresher, Manifest(r) PROVE PresetsSound'
<1> DEFINE rem == Repo[upstream]
           S == {p \in Preset : rem[p] # None}
           new == [pull[r] EXCEPT !.stage = "rows", !.remote = rem, !.index = snapshot(r),
                                  !.kept = [p \in Preset |-> None], !.left = SetToSeq(S)]
<1>1. pull[r] \in Pull /\ pull[r].stage = "manifest" /\ Pulling(r) /\ DOMAIN pull = Refresher
  BY DEF Manifest, Pulling, PresetsSound, PresetsTyped
<1>2. rem \in [Preset -> Lines]
  BY PresetsAssumption, ElementOfSeq DEF PresetsSound, PresetsTyped, Lines
<1>3. SetToSeq(S) \in Seq(Preset)
  <2>1. IsFiniteSet(S) /\ S \subseteq Preset
    BY PresetsAssumption, FS_Subset
  <2> HIDE DEF S
  <2>2. SetToSeq(S) \in Seq(S)
    BY <2>1, ElementsOnce
  <2> QED BY <2>1, <2>2, SeqMonotonic
<1>4. pull' = [pull EXCEPT ![r] = new] /\ UNCHANGED <<upstream, file, manifest>>
      /\ loaded' \in {loaded, snapshot("daily")}
  BY DEF Manifest, Loads, snapshot
<1>5. new \in Pull /\ new.alone = pull[r].alone /\ new.stage = "rows"
      /\ new.index = snapshot(r) /\ new.kept = [p \in Preset |-> None] /\ new.missed = pull[r].missed
  <2>1. [p \in Preset |-> None] \in [Preset -> Lines]
    BY DEF Lines
  <2> HIDE DEF S, rem
  <2> QED BY <1>1, <1>2, <1>3, <2>1, RowsTyped DEF Pull, PresetsSound
<1> HIDE DEF new, rem, S
<1>6. pull'[r] = new /\ pull' \in [Refresher -> Pull] /\ \A x \in Refresher \ {r} : pull'[x] = pull[x]
  BY <1>1, <1>4, <1>5 DEF PresetsSound, PresetsTyped
<1>7. \A p \in Preset : file'[p] = None => /\ pull'[r].index[p] \in {None, Embed[p]}
                                          /\ pull'[r].kept[p] \in {None, Embed[p]}
  BY <1>4, <1>5, <1>6, RowsGrounded DEF BuiltIn, PresetsSound
<1>8. KeptHonest(r)'
  BY <1>5, <1>6 DEF KeptHonest
<1> QED BY <1>1, <1>4, <1>5, <1>6, <1>7, <1>8, PullMoves DEF PresetsSound, PresetsTyped

\* What becomes of refresh r when row q is kept as rev, or missed.
Row(r, q, rev, gone) ==
    /\ pull' \in [Refresher -> Pull] /\ \A x \in Refresher \ {r} : pull'[x] = pull[x]
    /\ pull'[r].alone = pull[r].alone /\ pull'[r].stage = "rows" /\ pull'[r].index = pull[r].index
    /\ pull'[r].kept = [pull[r].kept EXCEPT ![q] = rev] /\ pull'[r].missed = pull[r].missed \cup gone

LEMMA RowShape ==
    ASSUME PresetsSound, NEW r \in Refresher, pull[r].left # <<>>
    PROVE  /\ Head(pull[r].left) \in Preset
           /\ \A rev \in Lines : Keep(r, rev) => Row(r, Head(pull[r].left), rev, {})
           /\ Missed(r) => Row(r, Head(pull[r].left), pull[r].index[Head(pull[r].left)], {Head(pull[r].left)})
<1> DEFINE q == Head(pull[r].left)
<1>1. pull[r] \in Pull /\ DOMAIN pull = Refresher
  BY DEF PresetsSound, PresetsTyped
<1>2. /\ pull[r].left \in Seq(Preset) /\ pull[r].kept \in [Preset -> Lines] /\ pull[r].missed \in SUBSET Preset
      /\ pull[r].index \in [Preset -> Lines]
  BY <1>1 DEF Pull
<1>3. q \in Preset /\ Tail(pull[r].left) \in Seq(Preset)
  BY <1>2, HeadTailProperties
<1>4. ASSUME NEW rev \in Lines, Keep(r, rev) PROVE Row(r, q, rev, {})
  <2> DEFINE new == [pull[r] EXCEPT !.stage = "rows", !.left = Tail(pull[r].left), !.body = {}, !.kept[q] = rev]
  <2>1. pull' = [pull EXCEPT ![r] = new]
    BY <1>1, <1>4 DEF Keep
  <2>2. new \in Pull /\ new.alone = pull[r].alone /\ new.stage = "rows" /\ new.index = pull[r].index
        /\ new.kept = [pull[r].kept EXCEPT ![q] = rev] /\ new.missed = pull[r].missed
    BY <1>1, <1>2, <1>3 DEF Pull
  <2> HIDE DEF new, q
  <2>3. pull'[r] = new /\ pull' \in [Refresher -> Pull] /\ \A x \in Refresher \ {r} : pull'[x] = pull[x]
    BY <1>1, <2>1, <2>2 DEF PresetsSound, PresetsTyped
  <2> QED BY <2>2, <2>3 DEF Row
<1>5. ASSUME Missed(r) PROVE Row(r, q, pull[r].index[q], {q})
  <2> DEFINE new == [pull[r] EXCEPT !.stage = "rows", !.left = Tail(pull[r].left), !.body = {},
                                    !.kept[q] = pull[r].index[q], !.missed = pull[r].missed \cup {q}]
  <2>0. pull' = [pull EXCEPT ![r].stage = "rows", ![r].left = Tail(@), ![r].body = {},
                             ![r].kept[q] = pull[r].index[q], ![r].missed = @ \cup {q}]
    BY <1>5, Zenon DEF Missed
  <2>1. pull' = [pull EXCEPT ![r] = new]
    <3>1. \A x \in Refresher : pull'[x] = IF x = r THEN new ELSE pull[x]
      BY <1>1, <2>0
    <3> QED BY <1>1, <2>0, <3>1
  <2>2. new \in Pull /\ new.alone = pull[r].alone /\ new.stage = "rows" /\ new.index = pull[r].index
        /\ new.kept = [pull[r].kept EXCEPT ![q] = pull[r].index[q]] /\ new.missed = pull[r].missed \cup {q}
    BY <1>1, <1>2, <1>3 DEF Pull
  <2> HIDE DEF new, q
  <2>3. pull'[r] = new /\ pull' \in [Refresher -> Pull] /\ \A x \in Refresher \ {r} : pull'[x] = pull[x]
    BY <1>1, <2>1, <2>2 DEF PresetsSound, PresetsTyped
  <2> QED BY <2>2, <2>3 DEF Row
<1> QED BY <1>3, <1>4, <1>5

LEMMA RowDone ==
    ASSUME PresetsSound, NEW r \in Refresher, Pulling(r), UNCHANGED <<upstream, manifest, loaded>>,
           NEW q \in Preset, NEW rev \in Lines, NEW gone \in {{}, {q}}, Row(r, q, rev, gone),
           pull[r].alone => pull[r].stage \in {"rows", "write"},
           file' \in [Preset -> Lines], \A p \in Preset : file'[p] = file[p] \/ (p = q /\ file'[p] # None),
           file'[q] = None => rev \in {None, Embed[q]},
           gone = {} => rev \in {None, Served(q)'}
    PROVE  PresetsSound'
<1>1. pull[r] \in Pull /\ pull[r].kept \in [Preset -> Lines]
  BY DEF PresetsSound, PresetsTyped, Pull
<1>2. \A p \in Preset : pull'[r].kept[p] = IF p = q THEN rev ELSE pull[r].kept[p]
  BY <1>1 DEF Row
<1>3. \A p \in Preset : file'[p] = None => /\ pull'[r].index[p] \in {None, Embed[p]}
                                          /\ pull'[r].kept[p] \in {None, Embed[p]}
  BY <1>2 DEF Row, BuiltIn, PresetsSound, Grounded
<1>4. pull'[r].alone => KeptHonest(r)'
  <2>1. SUFFICES ASSUME pull'[r].alone, NEW p \in Preset \ pull'[r].missed
                 PROVE  pull'[r].kept[p] \in {None, Served(p)'}
    BY DEF KeptHonest
  <2>2. CASE p = q
    BY <1>2, <2>1, <2>2 DEF Row
  <2>3. CASE p # q
    <3>1. pull[r].kept[p] \in {None, Served(p)}
      BY <2>1 DEF Row, PresetsSound, Honest, KeptHonest
    <3> QED BY <1>2, <2>3, <3>1 DEF Served
  <2> QED BY <2>2, <2>3
<1> QED BY <1>3, <1>4, PullMoves DEF Row, PresetsSound, PresetsTyped

LEMMA MissedSound ==
    ASSUME PresetsSound, NEW r \in Refresher, pull[r].stage \in {"rows", "write"}, pull[r].left # <<>>,
           Missed(r), UNCHANGED <<upstream, file, manifest, loaded>>
    PROVE  PresetsSound'
<1> DEFINE q == Head(pull[r].left)
<1>1. q \in Preset /\ Row(r, q, pull[r].index[q], {q})
  BY RowShape
<1>2. pull[r].index \in [Preset -> Lines]
  BY DEF PresetsSound, PresetsTyped, Pull
<1>3. file[q] = None => pull[r].index[q] \in {None, Embed[q]}
  BY <1>1 DEF PresetsSound, Grounded, BuiltIn
<1> HIDE DEF q
<1> QED BY <1>1, <1>2, <1>3, RowDone DEF PresetsSound, PresetsTyped, Pulling

LEMMA CompareSound == ASSUME PresetsSound, NEW r \in Refresher, Compare(r) PROVE PresetsSound'
<1>1. pull[r].stage = "rows" /\ pull[r].left # <<>> /\ Pulling(r)
  BY DEF Compare, Pulling
<1>2. PICK q \in Preset : q = Head(pull[r].left)
  BY <1>1, RowShape
<1>3. /\ pull[r] \in Pull /\ DOMAIN pull = Refresher /\ file \in [Preset -> Lines]
      /\ pull[r].remote \in [Preset -> Lines] /\ pull[r].index \in [Preset -> Lines]
      /\ UNCHANGED <<upstream, file, manifest, loaded>>
  BY DEF Compare, PresetsSound, PresetsTyped, Pull
<1>4. PICK row \in Lines : row = pull[r].remote[q]
  BY <1>3
<1>5. \/ localRevOf(pull[r].index, q) = row /\ Keep(r, row)
      \/ Missed(r)
      \/ /\ Repo[upstream][q] # None
         /\ pull' = [pull EXCEPT ![r].stage = "write", ![r].body = validateList(Repo[upstream][q])]
  BY <1>2, <1>4 DEF Compare
<1>6. CASE localRevOf(pull[r].index, q) = row /\ Keep(r, row)
  <2>1. Row(r, q, row, {})
    BY <1>1, <1>2, <1>6, RowShape
  <2>2. file[q] = None => row \in {None, Embed[q]}
    BY <1>6 DEF localRevOf, PresetsSound, Grounded, BuiltIn
  <2>3. row \in {None, Served(q)'}
    BY <1>3, <1>6, <2>2 DEF localRevOf, Served
  <2> QED BY <1>1, <1>3, <2>1, <2>2, <2>3, RowDone
<1>7. CASE Missed(r)
  BY <1>1, <1>3, <1>7, MissedSound
<1>8. CASE Repo[upstream][q] # None
           /\ pull' = [pull EXCEPT ![r].stage = "write", ![r].body = validateList(Repo[upstream][q])]
  <2> DEFINE body == validateList(Repo[upstream][q])
             new == [pull[r] EXCEPT !.stage = "write", !.body = body]
  <2>1. body \in SUBSET Entry
    <3>1. Repo[upstream] \in [Preset -> {None} \cup SUBSET Entry]
      BY PresetsAssumption, ElementOfSeq DEF PresetsSound, PresetsTyped
    <3>2. Repo[upstream][q] \in SUBSET Entry
      BY <1>8, <3>1
    <3> QED BY <3>2 DEF validateList
  <2>2. pull' = [pull EXCEPT ![r] = new]
    BY <1>3, <1>8
  <2> HIDE DEF body
  <2>3. new \in Pull /\ new.stage = "write" /\ new.alone = pull[r].alone /\ new.index = pull[r].index
        /\ new.kept = pull[r].kept /\ new.missed = pull[r].missed /\ new.left = pull[r].left
    BY <1>3, <2>1 DEF Pull
  <2> HIDE DEF new
  <2>4. pull'[r] = new /\ pull' \in [Refresher -> Pull] /\ \A x \in Refresher \ {r} : pull'[x] = pull[x]
    BY <1>3, <2>2, <2>3 DEF PresetsSound, PresetsTyped
  <2>5. \A p \in Preset : file'[p] = None => /\ pull'[r].index[p] \in {None, Embed[p]}
                                            /\ pull'[r].kept[p] \in {None, Embed[p]}
    BY <1>3, <2>3, <2>4 DEF BuiltIn, PresetsSound, Grounded
  <2>6. pull'[r].alone => KeptHonest(r)'
    BY <1>1, <1>3, <2>3, <2>4 DEF KeptHonest, Served, PresetsSound, Honest
  <2> QED BY <1>1, <1>3, <2>3, <2>4, <2>5, <2>6, PullMoves
<1> QED BY <1>5, <1>6, <1>7, <1>8

LEMMA WriteFileSound ==
    ASSUME PresetsSound, NEW r \in Refresher, WriteFileAtomic(r)
    PROVE  PresetsSound'
<1>1. pull[r].stage = "write" /\ pull[r].left # <<>> /\ Pulling(r) /\ UNCHANGED <<upstream, manifest, loaded>>
  BY DEF WriteFileAtomic, Pulling, PresetsSound, PresetsTyped
<1>2. pull[r] \in Pull /\ file \in [Preset -> Lines]
  BY DEF PresetsSound, PresetsTyped
<1>3. PICK body \in SUBSET Entry : body = pull[r].body
  BY <1>2 DEF Pull
<1>4. body \in Lines /\ body # None
  BY EmbedRows DEF Lines
<1>5. PICK q \in Preset : q = Head(pull[r].left)
  BY <1>1, RowShape
<1>6. Row(r, q, body, {})
  BY <1>1, <1>3, <1>4, <1>5, RowShape DEF WriteFileAtomic, RevWritten
<1>7. file' = [file EXCEPT ![q] = body]
  BY <1>3, <1>5 DEF WriteFileAtomic
<1>8. /\ file' \in [Preset -> Lines] /\ file'[q] = body
      /\ \A p \in Preset : file'[p] = file[p] \/ (p = q /\ file'[p] # None)
  BY <1>2, <1>4, <1>7
<1>9. body = Served(q)'
  BY <1>4, <1>8 DEF Served
<1> QED BY <1>1, <1>4, <1>6, <1>8, <1>9, RowDone

\* Refreshes end, or something else happens.
LEMMA PullsEnd ==
    ASSUME PresetsSound, upstream' \in 1 .. Len(Repo), UNCHANGED file,
           pull' \in [Refresher -> Pull],
           \A x \in Refresher :
               \/ pull'[x] = pull[x]
               \/ /\ ~ pull'[x].alone /\ pull'[x].stage \in {"idle", "note", "send"}
                  /\ BuiltIn(pull'[x].index) /\ BuiltIn(pull'[x].kept),
           manifest' \in {None} \cup [Preset -> Lines], BuiltIn(Rows'),
           loaded' \in {None, loaded, snapshot("daily")}
    PROVE  PresetsSound'
<1>1. PresetsTyped'
  <2>1. loaded' \in {None} \cup [Preset -> Lines]
    BY RowsTyped DEF PresetsSound, PresetsTyped
  <2> QED BY <2>1 DEF PresetsSound, PresetsTyped
<1>2. Grounded'
  <2>1. loaded' # None => BuiltIn(loaded')
    BY RowsGrounded DEF PresetsSound, Grounded
  <2>2. \A x \in Refresher : BuiltIn(pull'[x].index) /\ BuiltIn(pull'[x].kept)
    BY DEF PresetsSound, Grounded
  <2> QED BY <2>1, <2>2 DEF Grounded, BuiltIn
<1>3. Undisturbed'
  BY DEF PresetsSound, Undisturbed, Pulling
<1>4. Honest'
  BY DEF PresetsSound, Honest, KeptHonest, Served
<1> QED BY <1>1, <1>2, <1>3, <1>4 DEF PresetsSound

LEMMA WriteManifestSound ==
    ASSUME PresetsSound, NEW r \in Refresher, NEW next \in {"idle", "note"}, WriteManifest(r, next)
    PROVE  PresetsSound'
<1> DEFINE new == [NoPull EXCEPT !.stage = next]
<1>1. new \in Pull /\ ~ new.alone /\ new.stage = next /\ new.index = Embed /\ new.kept = Embed
  BY NoPullTyped DEF Pull, NoPull
<1> HIDE DEF new
<1>2. pull' = [pull EXCEPT ![r] = new] /\ UNCHANGED <<upstream, file>> /\ manifest' = pull[r].kept
      /\ loaded' \in {None, loaded}
  BY DEF WriteManifest, Reindex, new
<1>3. pull[r].kept \in [Preset -> Lines] /\ BuiltIn(pull[r].kept)
  BY DEF PresetsSound, PresetsTyped, Pull, Grounded
<1>4. BuiltIn(Embed)
  BY DEF BuiltIn
<1>5. pull' \in [Refresher -> Pull] /\ pull'[r] = new /\ \A x \in Refresher \ {r} : pull'[x] = pull[x]
  BY <1>1, <1>2 DEF PresetsSound, PresetsTyped
<1>6. BuiltIn(Rows')
  BY <1>2, <1>3, <1>4 DEF Rows
<1> QED BY <1>1, <1>2, <1>3, <1>4, <1>5, <1>6, PullsEnd DEF PresetsSound, PresetsTyped

\* A refresh that is no more.
LEMMA Stopped ==
    ASSUME PresetsSound, NEW r \in Refresher, pull' = [pull EXCEPT ![r] = NoPull],
           UNCHANGED <<upstream, file, manifest>>, loaded' \in {None, loaded, snapshot("daily")}
    PROVE  PresetsSound'
<1>1. BuiltIn(Embed) /\ BuiltIn(Rows')
  BY DEF BuiltIn, PresetsSound, Grounded, Rows
<1>2. pull' \in [Refresher -> Pull] /\ pull'[r] = NoPull /\ \A x \in Refresher \ {r} : pull'[x] = pull[x]
  BY NoPullTyped DEF PresetsSound, PresetsTyped
<1> QED BY <1>1, <1>2, NoPullTyped, PullsEnd DEF PresetsSound, PresetsTyped

LEMMA OthersSound ==
    ASSUME PresetsSound, [RoutesNext]_allVars,
           ~ \E r \in Refresher : Refreshes(r) \/ RefreshWorks(r) \/ RefreshEnds(r) \/ RefreshFails(r),
           ~ DailyBegins, ~ DailyRefreshed
    PROVE  UNCHANGED file /\ PresetsSound'
<1>1. BuiltIn(Embed) /\ (manifest' = manifest => BuiltIn(Rows'))
  BY DEF BuiltIn, PresetsSound, Grounded, Rows
<1>2. CASE UNCHANGED presetVars
  BY <1>1, <1>2, PullsEnd DEF presetVars, PresetsSound, PresetsTyped
<1>3. CASE BotCommand
  <2>1. UNCHANGED <<upstream, file, manifest, pull>> /\ loaded' = snapshot("daily")
    BY <1>3 DEF BotCommand, Loads, snapshot
  <2> QED BY <1>1, <2>1, PullsEnd DEF PresetsSound, PresetsTyped
<1>4. CASE SaveFails \/ Send
  <2>1. pull' = [pull EXCEPT !["daily"] = NoPull] /\ UNCHANGED <<upstream, file, manifest>>
        /\ loaded' \in {None, loaded, snapshot("daily")}
    BY <1>4 DEF SaveFails, Send, Loads, snapshot
  <2> QED BY <2>1, Stopped DEF Refresher
<1>5. CASE DailyNotes
  <2>1. /\ UNCHANGED <<upstream, file, manifest>> /\ loaded' = snapshot("daily") /\ pull["daily"].stage = "note"
        /\ \/ pull' = [pull EXCEPT !["daily"] = NoPull]
           \/ pull' = [pull EXCEPT !["daily"].stage = "send"]
    BY <1>5 DEF DailyNotes, Loads, snapshot
  <2>2. CASE pull' = [pull EXCEPT !["daily"] = NoPull]
    BY <2>1, <2>2, Stopped DEF Refresher
  <2>3. CASE pull' = [pull EXCEPT !["daily"].stage = "send"]
    <3> DEFINE new == [pull["daily"] EXCEPT !.stage = "send"]
    <3>1. "daily" \in Refresher /\ pull["daily"] \in Pull /\ ~ pull["daily"].alone
      BY <2>1 DEF Refresher, PresetsSound, PresetsTyped, Undisturbed, Pulling
    <3>2. pull' = [pull EXCEPT !["daily"] = new]
      BY <2>3
    <3>3. new \in Pull /\ new.alone = pull["daily"].alone /\ new.stage = "send"
          /\ new.index = pull["daily"].index /\ new.kept = pull["daily"].kept
      BY <3>1 DEF Pull
    <3> HIDE DEF new
    <3>4. pull' \in [Refresher -> Pull] /\ pull'["daily"] = new /\ \A x \in Refresher \ {"daily"} : pull'[x] = pull[x]
      BY <3>1, <3>2, <3>3 DEF PresetsSound, PresetsTyped
    <3>5. BuiltIn(new.index) /\ BuiltIn(new.kept)
      BY <3>1, <3>3 DEF PresetsSound, Grounded
    <3> QED BY <1>1, <2>1, <3>1, <3>3, <3>4, <3>5, PullsEnd DEF PresetsSound, PresetsTyped
  <2> QED BY <2>1, <2>2, <2>3
<1>6. CASE News
  <2>1. Len(Repo) \in Nat /\ upstream' \in 1 .. Len(Repo)
    BY <1>6, PresetsAssumption, LenProperties DEF News, Publishes, PresetsSound, PresetsTyped
  <2> QED BY <1>1, <1>6, <2>1, PullsEnd DEF News, Publishes, PresetsSound, PresetsTyped
<1>7. CASE DaemonDies
  <2>1. /\ UNCHANGED <<upstream, file, manifest>> /\ loaded' = None /\ pull' \in [Refresher -> Pull]
        /\ \A x \in Refresher : pull'[x] = pull[x] \/ pull'[x] = NoPull
    BY <1>7, NoPullTyped DEF DaemonDies, PresetsSound, PresetsTyped
  <2> QED BY <1>1, <2>1, NoPullTyped, PullsEnd DEF PresetsSound, PresetsTyped
<1>8. CASE CliDies
  BY <1>8, Stopped DEF CliDies, Refresher
<1>9. CASE (\E x \in Pusher : Pushes(x)) \/ CliLoads \/ CliCommand \/ ReconcileBegins \/ Reload \/ FirmwareDrops
  BY <1>2, <1>9 DEF Pushes, Read, Run, CommandFails, Ends, CliLoads, CliCommand, ReconcileBegins, Reload, FirmwareDrops
<1>10. CASE UNCHANGED allVars
  BY <1>2, <1>10 DEF allVars
<1> QED BY <1>2, <1>3, <1>4, <1>5, <1>6, <1>7, <1>8, <1>9, <1>10 DEF RoutesNext, Daily, SaveFails, Send

LEMMA RefreshSound ==
    ASSUME PresetsSound,
           \/ \E r \in Refresher : Refreshes(r) \/ RefreshWorks(r) \/ RefreshEnds(r) \/ RefreshFails(r)
           \/ DailyBegins \/ DailyRefreshed
    PROVE  PresetsSound'
<1>1. ASSUME NEW r \in Refresher, Refreshes(r) \/ RefreshWorks(r) \/ RefreshEnds(r) \/ RefreshFails(r)
      PROVE  PresetsSound'
  <2>1. CASE Refreshes(r)
    BY <2>1, BeginsSound DEF Refreshes
  <2>2. CASE RefreshWorks(r)
    BY <2>2, ManifestSound, CompareSound, WriteFileSound DEF RefreshWorks, PullStep
  <2>3. CASE RefreshEnds(r)
    BY <2>3, WriteManifestSound DEF RefreshEnds
  <2>4. CASE RefreshFails(r)
    BY <2>4, MissedSound, Stopped DEF RefreshFails, PullFails, PullGivesUp
  <2> QED BY <1>1, <2>1, <2>2, <2>3, <2>4
<1>2. CASE DailyBegins
  BY <1>2, BeginsSound DEF DailyBegins, Refresher
<1>3. CASE DailyRefreshed
  BY <1>3, WriteManifestSound DEF DailyRefreshed, Refresher
<1> QED BY <1>1, <1>2, <1>3

LEMMA AlwaysPresets == RoutesSpec => []PresetsSound
<1>1. RoutesInit => PresetsSound
  BY InitPresets DEF RoutesInit
<1>2. PresetsSound /\ [RoutesNext]_allVars => PresetsSound'
  BY RefreshSound, OthersSound
<1> QED BY <1>1, <1>2, PTL DEF RoutesSpec

\* A refresh with nobody beside it writes a manifest that says of every list it did not miss what
\* the overlay serves (Refresh, internal/presets/refresh.go), whatever other processes, crashes
\* and older refreshes left in the directory and in the index.
THEOREM RefreshIsHonest == RoutesSpec => HonestAfterRefresh
<1> DEFINE Ended(r) == pull[r].alone /\ pull[r].stage = "rows" /\ ~ Pulling(r)' /\ manifest' = pull[r].kept
           A == \A r \in Refresher : Ended(r) => \A p \in Preset \ pull[r].missed : manifest'[p] \in {None, Served(p)'}
<1>1. PresetsSound /\ [RoutesNext]_allVars => A
  <2> SUFFICES ASSUME PresetsSound, [RoutesNext]_allVars, NEW r \in Refresher, Ended(r),
                      NEW p \in Preset \ pull[r].missed
               PROVE  manifest'[p] \in {None, Served(p)'}
    OBVIOUS
  <2>1. pull[r].kept[p] \in {None, Served(p)}
    BY DEF PresetsSound, Honest, KeptHonest
  <2>2. UNCHANGED file
    <3>1. ASSUME NEW x \in Refresher, WriteFileAtomic(x) PROVE FALSE
      <4>1. x = r
        BY <3>1 DEF WriteFileAtomic, PresetsSound, Undisturbed, Pulling
      <4> QED BY <3>1, <4>1 DEF WriteFileAtomic
    <3>2. CASE \E x \in Refresher : Refreshes(x) \/ RefreshWorks(x) \/ RefreshEnds(x) \/ RefreshFails(x)
      BY <3>1, <3>2 DEF Refreshes, RefreshWorks, PullStep, Manifest, Compare, RefreshEnds, WriteManifest, RefreshFails,
                        PullFails, PullGivesUp
    <3>3. CASE DailyBegins \/ DailyRefreshed
      BY <3>3 DEF DailyBegins, DailyRefreshed, WriteManifest
    <3> QED BY <3>2, <3>3, OthersSound
  <2> QED BY <2>1, <2>2 DEF Served
<1>2. PresetsSound /\ [RoutesNext]_allVars => [A]_presetVars
  BY <1>1
<1>3. RoutesSpec => [][A]_presetVars
  BY <1>2, AlwaysPresets, PTL DEF RoutesSpec
<1> QED BY <1>3 DEF HonestAfterRefresh

-----------------------------------------------------------------------------
(* Pushes of the route lists to the router *)

Tidy == {l \in List : l.there \/ l = NoList}
TidyLists == [ListName -> Tidy]

\* A finite sequence, and what is in it.
IsSeq(s) == \E T : s \in Seq(T)
Has(s, v) == \E k \in 1 .. Len(s) : s[k] = v
Table(s, n) == s = [k \in 1 .. n |-> s[k]]

\* A job is a record of NoJob's kind.
IsJob(j) == j = [stage |-> j.stage, want |-> j.want, cmds |-> j.cmds, changed |-> j.changed, failed |-> j.failed,
                 alone |-> j.alone]

RoutesTyped ==
    /\ lists \in TidyLists /\ memory \in TidyLists /\ draft \in TidyLists /\ faults \in Nat
    /\ groups \in [ListName -> {None} \cup SUBSET Entry]
    /\ job = [x \in Pusher |-> job[x]]
    /\ \A x \in Pusher : IsJob(job[x]) /\ job[x].want \in TidyLists
                         /\ (job[x].changed # "nothing" => job[x].stage = "run")

\* While a command's push is alone the others do not touch the router.
PushesAlone ==
    \A x \in Pusher : job[x].alone => /\ job[x].stage \in {"read", "run"}
                                      /\ \A y \in Pusher \ {x} : job[y].stage \in {"idle", "scan"}

\* No command of a push takes an entry from a group that is to have it.
Fits(want, cmd) ==
    /\ cmd.n \in ListName /\ (cmd.op = "include" => cmd.arg \in Entry)
    /\ (cmd.op = "exclude" => cmd.arg \notin want[cmd.n].entries)
    /\ (cmd.op = "ungroup" => want[cmd.n].entries = {})
PushesFit ==
    \A x \in Pusher : job[x].stage = "run" =>
        IsSeq(job[x].cmds) /\ \A k \in 1 .. Len(job[x].cmds) : Fits(job[x].want, job[x].cmds[k])

\* What is to be in a group is there, or a command for it is to come.
Reaches(x) ==
    \A n \in ListName : \A e \in job[x].want[n].entries : e \in In(n) \/ Has(job[x].cmds, Cmd("include", n, e))
PushesReach == \A x \in Pusher : job[x].stage = "run" /\ job[x].alone /\ ~ job[x].failed => Reaches(x)

RoutesSound == RoutesTyped /\ PushesAlone /\ PushesFit /\ PushesReach

LEMMA ConcatHas ==
    ASSUME NEW s, NEW t, IsSeq(s), IsSeq(t)
    PROVE  IsSeq(s \o t) /\ \A v : Has(s \o t, v) <=> Has(s, v) \/ Has(t, v)
<1>1. PICK A : s \in Seq(A)
  BY DEF IsSeq
<1>2. PICK B : t \in Seq(B)
  BY DEF IsSeq
<1>3. s \in Seq(A \cup B) /\ t \in Seq(A \cup B)
  BY <1>1, <1>2, SeqMonotonic
<1>4. /\ s \o t \in Seq(A \cup B) /\ Len(s \o t) = Len(s) + Len(t) /\ Len(s) \in Nat /\ Len(t) \in Nat
      /\ \A i \in 1 .. Len(s) + Len(t) : (s \o t)[i] = IF i <= Len(s) THEN s[i] ELSE t[i - Len(s)]
  BY <1>3, ConcatProperties, LenProperties
<1>5. ASSUME NEW v, Has(s \o t, v) PROVE Has(s, v) \/ Has(t, v)
  <2>1. PICK i \in 1 .. Len(s) + Len(t) : (s \o t)[i] = v
    BY <1>4, <1>5 DEF Has
  <2>2. CASE i <= Len(s)
    <3>1. i \in 1 .. Len(s) /\ s[i] = v
      BY <1>4, <2>1, <2>2
    <3> QED BY <3>1 DEF Has
  <2>3. CASE ~ (i <= Len(s))
    <3>1. i - Len(s) \in 1 .. Len(t) /\ t[i - Len(s)] = v
      BY <1>4, <2>1, <2>3
    <3> QED BY <3>1 DEF Has
  <2> QED BY <2>2, <2>3
<1>6. ASSUME NEW v, Has(s, v) PROVE Has(s \o t, v)
  <2>1. PICK i \in 1 .. Len(s) : s[i] = v
    BY <1>6 DEF Has
  <2>2. i \in 1 .. Len(s \o t) /\ (s \o t)[i] = v
    BY <1>4, <2>1
  <2> QED BY <2>2 DEF Has
<1>7. ASSUME NEW v, Has(t, v) PROVE Has(s \o t, v)
  <2>1. PICK i \in 1 .. Len(t) : t[i] = v
    BY <1>7 DEF Has
  <2>2. i + Len(s) \in 1 .. Len(s \o t) /\ (s \o t)[i + Len(s)] = v
    BY <1>4, <2>1
  <2> QED BY <2>2 DEF Has
<1>8. IsSeq(s \o t)
  BY <1>4, Zenon DEF IsSeq
<1> QED BY <1>5, <1>6, <1>7, <1>8

\* The sequences laid end to end up to the i-th.
Flat(seqs, n, f) == f = [i \in 1 .. n |-> IF i = 1 THEN seqs[i] ELSE f[i - 1] \o seqs[i]]

LEMMA FlatStep ==
    ASSUME NEW seqs, NEW n, NEW f, Flat(seqs, n, f), NEW i \in 1 .. n
    PROVE  f[i] = IF i = 1 THEN seqs[i] ELSE f[i - 1] \o seqs[i]
<1> DEFINE g == [k \in 1 .. n |-> IF k = 1 THEN seqs[k] ELSE f[k - 1] \o seqs[k]]
<1>1. f = g
  BY DEF Flat
<1>2. g[i] = IF i = 1 THEN seqs[i] ELSE f[i - 1] \o seqs[i]
  OBVIOUS
<1> HIDE DEF g
<1> QED BY <1>1, <1>2, Zenon

LEMMA FlatExists ==
    ASSUME NEW seqs, NEW n \in Nat, n # 0
    PROVE  \E f : Flat(seqs, n, f)
<1> DEFINE Fails == {m \in 1 .. n : ~ \E f : Flat(seqs, m, f)}
<1>1. SUFFICES ASSUME Fails # {} PROVE FALSE
  BY <1>1
<1>2. Fails \in SUBSET Nat
  OBVIOUS
<1>3. PICK m \in Fails : \A i \in Fails : m <= i
  <2> HIDE DEF Fails
  <2> QED BY <1>1, <1>2, LeastExists
<1>4. m \in 1 .. n /\ ~ \E f : Flat(seqs, m, f)
  OBVIOUS
<1>5. CASE m = 1
  <2>1. Flat(seqs, m, [i \in 1 .. 1 |-> seqs[1]])
    BY <1>5 DEF Flat
  <2> QED BY <1>4, <2>1
<1>6. CASE m # 1
  <2>1. m - 1 \in 1 .. n /\ m - 1 \in Nat /\ ~ (m <= m - 1)
    BY <1>4, <1>6
  <2>2. PICK f : Flat(seqs, m - 1, f)
    BY <1>3, <2>1
  <2> DEFINE g == [i \in 1 .. m |-> IF i = m THEN f[m - 1] \o seqs[m] ELSE f[i]]
  <2>3. \A i \in 1 .. m : g[i] = IF i = 1 THEN seqs[i] ELSE g[i - 1] \o seqs[i]
    <3> SUFFICES ASSUME NEW i \in 1 .. m PROVE g[i] = IF i = 1 THEN seqs[i] ELSE g[i - 1] \o seqs[i]
      OBVIOUS
    <3>1. CASE i = m
      <4>1. i - 1 \in 1 .. m /\ i - 1 # m /\ i # 1
        BY <1>4, <1>6, <3>1
      <4>2. g[i] = f[m - 1] \o seqs[m] /\ g[i - 1] = f[i - 1]
        BY <3>1, <4>1
      <4> HIDE DEF g
      <4> QED BY <3>1, <4>1, <4>2
    <3>2. CASE i # m
      <4>1. i \in 1 .. m - 1 /\ g[i] = f[i] /\ (i # 1 => i - 1 \in 1 .. m - 1 /\ g[i - 1] = f[i - 1])
        BY <1>4, <1>6, <3>2
      <4>2. f[i] = IF i = 1 THEN seqs[i] ELSE f[i - 1] \o seqs[i]
        BY <2>2, <4>1, FlatStep
      <4> HIDE DEF g
      <4> QED BY <4>1, <4>2
    <3> QED BY <3>1, <3>2
  <2>4. Flat(seqs, m, g)
    BY <2>3 DEF Flat
  <2> HIDE DEF g
  <2> QED BY <1>4, <2>4
<1> QED BY <1>5, <1>6

LEMMA FlattenHas ==
    ASSUME NEW seqs, NEW n \in Nat, Table(seqs, n), \A i \in 1 .. n : IsSeq(seqs[i])
    PROVE  IsSeq(FlattenSeq(seqs)) /\ \A v : Has(FlattenSeq(seqs), v) <=> \E i \in 1 .. n : Has(seqs[i], v)
<1>1. Len(seqs) = n /\ (n = 0 => seqs = <<>>)
  BY DEF Table
<1>2. CASE n = 0
  <2>1. FlattenSeq(seqs) = seqs
    BY <1>1, <1>2 DEF FlattenSeq
  <2>2. seqs = <<>>
    BY <1>1, <1>2
  <2>3. seqs \in Seq({}) /\ Len(seqs) = 0
    BY <2>2, EmptySeq
  <2>4. IsSeq(seqs) /\ \A v : ~ Has(seqs, v)
    BY <2>3 DEF IsSeq, Has
  <2> QED BY <1>2, <2>1, <2>4
<1>3. CASE n # 0
  <2>1. PICK f : FlattenSeq(seqs) = f[n] /\ Flat(seqs, n, f)
    <3> DEFINE flatten == CHOOSE f : f = [i \in 1 .. n |-> IF i = 1 THEN seqs[i] ELSE f[i - 1] \o seqs[i]]
    <3>1. FlattenSeq(seqs) = flatten[n]
      BY <1>1, <1>3 DEF FlattenSeq
    <3>2. flatten = CHOOSE f : Flat(seqs, n, f)
      BY DEF Flat
    <3>3. Flat(seqs, n, flatten)
      BY <1>3, <3>2, FlatExists
    <3> QED BY <3>1, <3>3
  <2> DEFINE Whole(i) == /\ IsSeq(f[i]) /\ \A v : Has(f[i], v) <=> \E j \in 1 .. i : Has(seqs[j], v)
             Fails == {i \in 1 .. n : ~ Whole(i)}
  <2>2. f[1] = seqs[1] /\ \A i \in 1 .. n : i # 1 => f[i] = f[i - 1] \o seqs[i]
    <3>1. 1 \in 1 .. n
      BY <1>3
    <3>2. \A i \in 1 .. n : f[i] = IF i = 1 THEN seqs[i] ELSE f[i - 1] \o seqs[i]
      <4> HIDE DEF Fails, Whole
      <4> TAKE i \in 1 .. n
      <4>1. Flat(seqs, n, f)
        BY <2>1
      <4> QED BY <4>1, FlatStep
    <3> QED BY <3>1, <3>2
  <2>3. Fails = {}
    <3>1. SUFFICES ASSUME Fails # {} PROVE FALSE
      BY <3>1
    <3>2. Fails \in SUBSET Nat
      OBVIOUS
    <3>3. PICK m \in Fails : \A i \in Fails : m <= i
      <4> HIDE DEF Fails
      <4> QED BY <3>1, <3>2, LeastExists
    <3>4. m \in 1 .. n /\ ~ Whole(m)
      OBVIOUS
    <3>5. CASE m = 1
      BY <2>2, <3>4, <3>5
    <3>6. CASE m # 1
      <4>1. m - 1 \in 1 .. n /\ ~ (m <= m - 1) /\ 1 .. m = (1 .. m - 1) \cup {m}
        BY <3>4, <3>6
      <4>2. Whole(m - 1)
        BY <3>3, <4>1
      <4>3. f[m] = f[m - 1] \o seqs[m] /\ IsSeq(seqs[m])
        BY <2>2, <3>4, <3>6
      <4>4. IsSeq(f[m]) /\ \A v : Has(f[m], v) <=> Has(f[m - 1], v) \/ Has(seqs[m], v)
        BY <4>2, <4>3, ConcatHas
      <4> QED BY <3>4, <4>1, <4>2, <4>4
    <3> QED BY <3>5, <3>6
  <2>4. Whole(n)
    <3>1. n \in 1 .. n /\ n \notin Fails
      BY <1>3, <2>3
    <3> HIDE DEF Whole
    <3> QED BY <3>1
  <2> QED BY <2>1, <2>4
<1> QED BY <1>2, <1>3

LEMMA SeqsOfFew ==
    /\ IsSeq(<<>>) /\ \A v : ~ Has(<<>>, v)
    /\ \A c : IsSeq(<<c>>) /\ \A v : Has(<<c>>, v) <=> v = c
<1>1. <<>> \in Seq({}) /\ Len(<<>>) = 0
  BY EmptySeq
<1>2. IsSeq(<<>>) /\ \A v : ~ Has(<<>>, v)
  BY <1>1 DEF IsSeq, Has
<1>3. ASSUME NEW c PROVE IsSeq(<<c>>) /\ \A v : Has(<<c>>, v) <=> v = c
  <2>1. <<c>> \in Seq({c}) /\ Len(<<c>>) = 1 /\ <<c>>[1] = c /\ 1 .. 1 = {1}
    OBVIOUS
  <2>2. IsSeq(<<c>>)
    BY <2>1, Zenon DEF IsSeq
  <2>3. \A v : Has(<<c>>, v) <=> v = c
    BY <2>1 DEF Has
  <2> QED BY <2>2, <2>3
<1> QED BY <1>2, <1>3

\* What is left of a sequence without its head.
LEMMA TailHas ==
    ASSUME NEW s, IsSeq(s), s # <<>>
    PROVE  /\ IsSeq(Tail(s)) /\ Has(s, Head(s)) /\ \A v : Has(Tail(s), v) => Has(s, v)
           /\ \A v : Has(s, v) => v = Head(s) \/ Has(Tail(s), v)
<1>1. PICK T : s \in Seq(T)
  BY DEF IsSeq
<1>2. /\ Len(s) \in Nat /\ Len(s) # 0 /\ Tail(s) \in Seq(T) /\ Len(Tail(s)) = Len(s) - 1 /\ Head(s) = s[1]
      /\ \A i \in 1 .. Len(Tail(s)) : Tail(s)[i] = s[i + 1]
  BY <1>1, HeadTailProperties, LenProperties, EmptySeq
<1>3. IsSeq(Tail(s))
  BY <1>2, Zenon DEF IsSeq
<1>4. Has(s, Head(s))
  BY <1>2 DEF Has
<1>5. ASSUME NEW v, Has(Tail(s), v) PROVE Has(s, v)
  <2>1. PICK i \in 1 .. Len(Tail(s)) : Tail(s)[i] = v
    BY <1>5 DEF Has
  <2>2. i + 1 \in 1 .. Len(s) /\ s[i + 1] = v
    BY <1>2, <2>1
  <2> QED BY <2>2 DEF Has
<1>6. ASSUME NEW v, Has(s, v), v # Head(s) PROVE Has(Tail(s), v)
  <2>1. PICK i \in 1 .. Len(s) : s[i] = v
    BY <1>6 DEF Has
  <2>2. i - 1 \in 1 .. Len(Tail(s)) /\ Tail(s)[i - 1] = s[(i - 1) + 1] /\ (i - 1) + 1 = i
    BY <1>2, <1>6, <2>1
  <2> QED BY <2>1, <2>2 DEF Has
<1> QED BY <1>3, <1>4, <1>5, <1>6

LEMMA TableHas ==
    ASSUME NEW g, NEW m \in Nat, Table(g, m)
    PROVE  IsSeq(g) /\ \A v : Has(g, v) <=> \E k \in 1 .. m : g[k] = v
<1> DEFINE T == {g[k] : k \in 1 .. m}
<1>1. g \in [1 .. m -> T]
  BY DEF Table
<1> HIDE DEF T
<1>2. g \in Seq(T) /\ Len(g) = m
  BY <1>1, IsASeq, LenProperties
<1> QED BY <1>2 DEF IsSeq, Has

\* A command for each of a finite set.
LEMMA EachHas ==
    ASSUME NEW op, NEW n, NEW S, IsFiniteSet(S),
           NEW s, Table(s, Cardinality(S)),
           \A k \in 1 .. Cardinality(S) : s[k] = Cmd(op, n, SetToSeq(S)[k])
    PROVE  IsSeq(s) /\ \A v : Has(s, v) <=> \E e \in S : v = Cmd(op, n, e)
<1>1. PICK m : m = Cardinality(S)
  OBVIOUS
<1>2. PICK q : q = SetToSeq(S)
  OBVIOUS
<1>3. m \in Nat /\ q \in [1 .. m -> S] /\ \A e \in S : \E k \in 1 .. m : q[k] = e
  BY <1>1, <1>2, ElementsOnce
<1>4. Table(s, m) /\ \A k \in 1 .. m : s[k] = Cmd(op, n, q[k])
  BY <1>1, <1>2
<1>5. IsSeq(s) /\ \A v : Has(s, v) <=> \E k \in 1 .. m : s[k] = v
  BY <1>3, <1>4, TableHas
<1>6. ASSUME NEW v, Has(s, v) PROVE \E e \in S : v = Cmd(op, n, e)
  <2>1. PICK k \in 1 .. m : s[k] = v
    BY <1>5, <1>6
  <2>2. q[k] \in S /\ v = Cmd(op, n, q[k])
    BY <1>3, <1>4, <2>1
  <2> QED BY <2>2
<1>7. ASSUME NEW e \in S PROVE Has(s, Cmd(op, n, e))
  <2>1. PICK k \in 1 .. m : q[k] = e
    BY <1>3
  <2>2. s[k] = Cmd(op, n, e)
    BY <1>4, <2>1
  <2> QED BY <1>5, <2>2
<1> QED BY <1>5, <1>6, <1>7, Zenon

\* Commands that do no harm to the contents of a group.
LEMMA UnrouteHas ==
    ASSUME NEW n
    PROVE  IsSeq(Unroute(n)) /\ \A v : Has(Unroute(n), v) => v.n = n /\ v.op = "unroute"
<1>1. \A arg : Cmd("unroute", n, arg).n = n /\ Cmd("unroute", n, arg).op = "unroute"
  BY DEF Cmd
<1> QED BY <1>1, SeqsOfFew DEF Unroute

LEMMA RoutingHas ==
    ASSUME NEW l, NEW n
    PROVE  IsSeq(Routing(l, n)) /\ \A v : Has(Routing(l, n), v) => v.n = n /\ v.op \in {"route", "unroute"}
<1>1. IsSeq(Unroute(n)) /\ \A v : Has(Unroute(n), v) => v.n = n /\ v.op = "unroute"
  BY UnrouteHas
<1>2. PICK r : r = Cmd("route", n, RouteOf(l))
  OBVIOUS
<1>3. r.n = n /\ r.op = "route" /\ IsSeq(<<r>>) /\ \A v : Has(<<r>>, v) <=> v = r
  BY <1>2, SeqsOfFew DEF Cmd
<1>4. IsSeq(Unroute(n) \o <<r>>) /\ \A v : Has(Unroute(n) \o <<r>>, v) => v.n = n /\ v.op \in {"route", "unroute"}
  BY <1>1, <1>3, ConcatHas
<1>5. Routing(l, n) \in {Unroute(n), <<>>, Unroute(n) \o <<r>>}
  BY <1>2 DEF Routing
<1> QED BY <1>1, <1>4, <1>5, SeqsOfFew

LEMMA ContentsHas ==
    ASSUME NEW l, NEW n, IsFiniteSet(l.entries), IsFiniteSet(In(n))
    PROVE  /\ IsSeq(Contents(l, n))
           /\ \A v : Has(Contents(l, n), v) =>
                  v.n = n /\ \/ v.op = "group" \/ (v.op = "include" /\ v.arg \in l.entries)
                             \/ (v.op = "exclude" /\ v.arg \notin l.entries)
           /\ \A e \in l.entries \ In(n) : Has(Contents(l, n), Cmd("include", n, e))
<1>1. PICK A : A = l.entries \ In(n)
  OBVIOUS
<1>2. PICK B : B = In(n) \ l.entries
  OBVIOUS
<1>3. IsFiniteSet(A) /\ IsFiniteSet(B)
  BY <1>1, <1>2, FS_Difference
<1>4. PICK a : a = [k \in 1 .. Cardinality(A) |-> Cmd("include", n, SetToSeq(A)[k])]
  OBVIOUS
<1>5. PICK b : b = [k \in 1 .. Cardinality(B) |-> Cmd("exclude", n, SetToSeq(B)[k])]
  OBVIOUS
<1>6. IsSeq(a) /\ \A v : Has(a, v) <=> \E e \in A : v = Cmd("include", n, e)
  <2>1. PICK op : op = "include"
    OBVIOUS
  <2>2. Table(a, Cardinality(A)) /\ \A k \in 1 .. Cardinality(A) : a[k] = Cmd(op, n, SetToSeq(A)[k])
    BY <1>4, <2>1 DEF Table
  <2>3. IsSeq(a) /\ \A v : Has(a, v) <=> \E e \in A : v = Cmd(op, n, e)
    BY <1>3, <2>2, EachHas
  <2> QED BY <2>1, <2>3
<1>7. IsSeq(b) /\ \A v : Has(b, v) <=> \E e \in B : v = Cmd("exclude", n, e)
  <2>1. PICK op : op = "exclude"
    OBVIOUS
  <2>2. Table(b, Cardinality(B)) /\ \A k \in 1 .. Cardinality(B) : b[k] = Cmd(op, n, SetToSeq(B)[k])
    BY <1>5, <2>1 DEF Table
  <2>3. IsSeq(b) /\ \A v : Has(b, v) <=> \E e \in B : v = Cmd(op, n, e)
    BY <1>3, <2>2, EachHas
  <2> QED BY <2>1, <2>3
<1>8. PICK g : g = Cmd("group", n, "")
  OBVIOUS
<1>9. g.op = "group" /\ g.n = n
  BY <1>8 DEF Cmd
<1>10. PICK o : o = IF groups[n] = None THEN <<g>> ELSE <<>>
  OBVIOUS
<1>11. IsSeq(o) /\ \A v : Has(o, v) => v = g
  BY <1>10, SeqsOfFew
<1>12. Contents(l, n) = o \o a \o b
  BY <1>1, <1>2, <1>4, <1>5, <1>8, <1>10, Zenon DEF Contents
<1>13. IsSeq(o \o a \o b) /\ \A v : Has(o \o a \o b, v) <=> Has(o, v) \/ Has(a, v) \/ Has(b, v)
  BY <1>6, <1>7, <1>11, ConcatHas
<1>14. \A op, e : Cmd(op, n, e).op = op /\ Cmd(op, n, e).n = n /\ Cmd(op, n, e).arg = e
  BY DEF Cmd
<1> QED BY <1>1, <1>2, <1>6, <1>7, <1>9, <1>11, <1>12, <1>13, <1>14

\* What a push sets out to do takes nothing from a group that the group is to have, and brings all
\* that it is to have and has not.
LEMMA CommandsBring ==
    ASSUME NEW c \in TidyLists, groups \in [ListName -> {None} \cup SUBSET Entry]
    PROVE  /\ IsSeq(CommandsFor(c)) /\ \A v : Has(CommandsFor(c), v) => Fits(c, v)
           /\ \A n \in ListName : \A e \in c[n].entries : e \in In(n) \/ Has(CommandsFor(c), Cmd("include", n, e))
<1>1. \A n \in ListName : /\ c[n] \in List /\ c[n].entries \subseteq Entry /\ In(n) \subseteq Entry
                          /\ (c[n].there \/ c[n].entries = {})
  BY DEF TidyLists, Tidy, List, NoList, In
<1>2. \A S \in SUBSET Entry : IsFiniteSet(S)
  BY PresetsAssumption, FS_Subset
<1>3. \A S \in SUBSET ListName : IsFiniteSet(S)
  BY PresetsAssumption, FS_Subset DEF ListName
<1>4. PICK d : d = Desired(c)
  OBVIOUS
<1>5. /\ Len(d) \in Nat /\ d \in [1 .. Len(d) -> {n \in ListName : c[n].there}]
      /\ \A n \in ListName : c[n].there => \E k \in 1 .. Len(d) : d[k] = n
  <2> DEFINE S == {n \in ListName : c[n].there}
  <2>1. IsFiniteSet(S)
    BY <1>3
  <2>2. d = SetToSeq(S) /\ \A n \in ListName : c[n].there => n \in S
    BY <1>4 DEF Desired
  <2> HIDE DEF S
  <2>3. Len(d) \in Nat /\ d \in [1 .. Len(d) -> S] /\ \A n \in S : \E k \in 1 .. Len(d) : d[k] = n
    BY <2>1, <2>2, ElementsOnce
  <2> QED BY <2>2, <2>3 DEF S
<1>6. PICK u : u = Unwanted(c)
  OBVIOUS
<1>7. Len(u) \in Nat /\ u \in [1 .. Len(u) -> ListName]
  <2> DEFINE S == {n \in ListName : ~ c[n].there}
  <2>1. IsFiniteSet(S) /\ S \subseteq ListName
    BY <1>3
  <2>2. u = SetToSeq(S)
    BY <1>6 DEF Unwanted
  <2> HIDE DEF S
  <2> QED BY <2>1, <2>2, ElementsOnce
<1>8. PICK w : w = Left(c)
  OBVIOUS
<1>9. Len(w) \in Nat /\ \A k \in 1 .. Len(w) : w[k] \in ListName /\ c[w[k]].entries = {}
  <2> DEFINE S == {n \in ListName : ~ c[n].there /\ groups[n] # None}
  <2>1. IsFiniteSet(S) /\ \A n \in S : n \in ListName /\ c[n].entries = {}
    BY <1>1, <1>3
  <2>2. w = SetToSeq(S)
    BY <1>8 DEF Left
  <2> HIDE DEF S
  <2> QED BY <2>1, <2>2, ElementsOnce
<1>10. PICK ds : ds = [k \in 1 .. Len(d) |-> Contents(c[d[k]], d[k]) \o Routing(c[d[k]], d[k])]
  OBVIOUS
<1>11. PICK us : us = [k \in 1 .. Len(u) |-> Unroute(u[k])]
  OBVIOUS
<1>12. PICK ws : ws = [k \in 1 .. Len(w) |-> Cmd("ungroup", w[k], "")]
  OBVIOUS
<1>13. CommandsFor(c) = FlattenSeq(ds) \o (FlattenSeq(us) \o ws)
  BY <1>4, <1>6, <1>8, <1>10, <1>11, <1>12, Zenon DEF CommandsFor, Orphans
<1>14. \A k \in 1 .. Len(d) : /\ IsSeq(ds[k]) /\ \A v : Has(ds[k], v) => Fits(c, v)
                              /\ \A e \in c[d[k]].entries \ In(d[k]) : Has(ds[k], Cmd("include", d[k], e))
  <2> TAKE k \in 1 .. Len(d)
  <2>1. PICK n \in ListName : n = d[k]
    BY <1>5
  <2>2. PICK l : l = c[n]
    OBVIOUS
  <2>3. PICK p : p = Contents(l, n)
    OBVIOUS
  <2>4. PICK q : q = Routing(l, n)
    OBVIOUS
  <2>5. ds[k] = p \o q
    BY <1>10, <2>1, <2>2, <2>3, <2>4
  <2>6. /\ IsSeq(p)
        /\ \A v : Has(p, v) => v.n = n /\ \/ v.op = "group" \/ (v.op = "include" /\ v.arg \in l.entries)
                                          \/ (v.op = "exclude" /\ v.arg \notin l.entries)
        /\ \A e \in l.entries \ In(n) : Has(p, Cmd("include", n, e))
    BY <1>1, <1>2, <2>2, <2>3, ContentsHas
  <2>7. IsSeq(q) /\ \A v : Has(q, v) => v.n = n /\ v.op \in {"route", "unroute"}
    BY <2>4, RoutingHas
  <2>8. IsSeq(p \o q) /\ \A v : Has(p \o q, v) <=> Has(p, v) \/ Has(q, v)
    BY <2>6, <2>7, ConcatHas
  <2>9. \A v : Has(p \o q, v) => Fits(c, v)
    BY <1>1, <2>2, <2>6, <2>7, <2>8 DEF Fits
  <2> QED BY <2>1, <2>2, <2>5, <2>6, <2>8, <2>9
<1>15. /\ IsSeq(FlattenSeq(ds))
       /\ \A v : Has(FlattenSeq(ds), v) <=> \E k \in 1 .. Len(d) : Has(ds[k], v)
  <2>1. Table(ds, Len(d))
    BY <1>10 DEF Table
  <2> QED BY <1>5, <1>14, <2>1, FlattenHas
<1>16. \A k \in 1 .. Len(u) : IsSeq(us[k]) /\ \A v : Has(us[k], v) => Fits(c, v)
  <2> TAKE k \in 1 .. Len(u)
  <2>1. us[k] = Unroute(u[k]) /\ u[k] \in ListName
    BY <1>7, <1>11
  <2>2. IsSeq(us[k]) /\ \A v : Has(us[k], v) => v.n = u[k] /\ v.op = "unroute"
    BY <2>1, UnrouteHas
  <2>3. \A v : v.n = u[k] /\ v.op = "unroute" => Fits(c, v)
    BY <2>1 DEF Fits
  <2> QED BY <2>2, <2>3
<1>17. /\ IsSeq(FlattenSeq(us))
       /\ \A v : Has(FlattenSeq(us), v) <=> \E k \in 1 .. Len(u) : Has(us[k], v)
  <2>1. Table(us, Len(u))
    BY <1>11 DEF Table
  <2> QED BY <1>7, <1>16, <2>1, FlattenHas
<1>18. IsSeq(ws) /\ \A v : Has(ws, v) => Fits(c, v)
  <2>1. IsSeq(ws) /\ \A v : Has(ws, v) <=> \E k \in 1 .. Len(w) : ws[k] = v
    <3>1. Table(ws, Len(w))
      BY <1>12 DEF Table
    <3> QED BY <1>9, <3>1, TableHas
  <2>2. \A k \in 1 .. Len(w) : ws[k].n = w[k] /\ ws[k].op = "ungroup"
    BY <1>12 DEF Cmd
  <2>3. \A k \in 1 .. Len(w) : Fits(c, ws[k])
    BY <1>9, <2>2 DEF Fits
  <2> QED BY <2>1, <2>3
<1>19. PICK fd : fd = FlattenSeq(ds)
  OBVIOUS
<1>20. PICK fu : fu = FlattenSeq(us)
  OBVIOUS
<1>21. IsSeq(fu \o ws) /\ \A v : Has(fu \o ws, v) => Fits(c, v)
  BY <1>16, <1>17, <1>18, <1>20, ConcatHas
<1>22. /\ IsSeq(fd \o (fu \o ws)) /\ \A v : Has(fd \o (fu \o ws), v) => Fits(c, v)
       /\ \A v : Has(fd, v) => Has(fd \o (fu \o ws), v)
  BY <1>14, <1>15, <1>19, <1>21, ConcatHas
<1>23. \A n \in ListName : \A e \in c[n].entries \ In(n) : Has(fd, Cmd("include", n, e))
  <2> TAKE n \in ListName
  <2> TAKE e \in c[n].entries \ In(n)
  <2>1. PICK k \in 1 .. Len(d) : d[k] = n
    BY <1>1, <1>5
  <2>2. Has(ds[k], Cmd("include", n, e))
    BY <1>14, <2>1
  <2> QED BY <1>15, <1>19, <2>2
<1> QED BY <1>13, <1>19, <1>20, <1>22, <1>23

LEMMA NoListTidy == NoList \in Tidy /\ NoLists \in TidyLists /\ \A l \in List : l.there => l \in Tidy
BY RoutesAssumption DEF NoList, NoLists, List, Tidy, TidyLists, Lines

LEMMA PutTidy ==
    ASSUME NEW c \in TidyLists, NEW n \in ListName, NEW l \in Tidy
    PROVE  [c EXCEPT ![n] = l] \in TidyLists
BY DEF TidyLists

LEMMA HandTidy ==
    ASSUME NEW c \in TidyLists, NEW n \in ListName
    PROVE  c[n] \in List /\ (c[n].bound => c[n].there) /\ Hand(c, n) \in List /\ Hand(c, n).there
<1>1. c[n] \in List /\ (c[n].bound => c[n].there)
  BY DEF TidyLists, Tidy, NoList
<1>2. [NoList EXCEPT !.there = TRUE] \in List /\ [NoList EXCEPT !.there = TRUE].there
  BY RoutesAssumption DEF NoList, List, Lines
<1> QED BY <1>1, <1>2 DEF Hand

LEMMA EditsTidy == ASSUME NEW c \in TidyLists, NEW out, out \in Edits(c) PROVE out.cfg \in TidyLists
<1>1. CASE \E n \in ListName, e \in Typed : out = Done(AddEntries(c, n, e))
  <2>1. PICK n \in ListName, e \in Typed : out = Done(AddEntries(c, n, e))
    BY <1>1
  <2>2. PICK h : h = Hand(c, n)
    OBVIOUS
  <2>3. h \in List /\ h.there /\ e \in Entry
    BY <2>2, HandTidy, RoutesAssumption
  <2>4. PICK l : l = [h EXCEPT !.entries = @ \cup {e}]
    OBVIOUS
  <2>5. l \in List /\ l.there
    BY <2>3, <2>4 DEF List
  <2>6. out.cfg = [c EXCEPT ![n] = l]
    BY <2>1, <2>2, <2>4 DEF AddEntries, Done
  <2>7. [c EXCEPT ![n] = l] \in TidyLists
    BY <2>5, NoListTidy, PutTidy
  <2> QED BY <2>6, <2>7
<1>2. ASSUME NEW n \in ListName, c[n].there,
             NEW k \in {[c[n] EXCEPT !.entries = @ \ {e}] : e \in c[n].entries}
                       \cup {[c[n] EXCEPT !.iface = i] : i \in Iface}
                       \cup {[c[n] EXCEPT !.disabled = ~ @], [c[n] EXCEPT !.reject = ~ @], NoList}
      PROVE  k \in Tidy
  <2>1. PICK l \in List : l = c[n] /\ l.there
    BY <1>2, HandTidy
  <2>2. /\ \A e \in l.entries : [l EXCEPT !.entries = @ \ {e}] \in List /\ [l EXCEPT !.entries = @ \ {e}].there
        /\ \A i \in Iface : [l EXCEPT !.iface = i] \in List /\ [l EXCEPT !.iface = i].there
    BY <2>1 DEF List
  <2>3. /\ [l EXCEPT !.disabled = ~ @] \in List /\ [l EXCEPT !.disabled = ~ @].there
        /\ [l EXCEPT !.reject = ~ @] \in List /\ [l EXCEPT !.reject = ~ @].there
    BY <2>1 DEF List
  <2> QED BY <1>2, <2>1, <2>2, <2>3, NoListTidy
<1>3. CASE \E n \in {m \in ListName : c[m].there} :
              \E k \in {[c[n] EXCEPT !.entries = @ \ {e}] : e \in c[n].entries}
                       \cup {[c[n] EXCEPT !.iface = i] : i \in Iface}
                       \cup {[c[n] EXCEPT !.disabled = ~ @], [c[n] EXCEPT !.reject = ~ @], NoList} :
                 out = Done([c EXCEPT ![n] = k])
  <2>1. PICK n \in ListName, k \in Tidy : out = Done([c EXCEPT ![n] = k])
    BY <1>2, <1>3
  <2>2. out.cfg = [c EXCEPT ![n] = k] /\ [c EXCEPT ![n] = k] \in TidyLists
    BY <2>1, PutTidy DEF Done
  <2> QED BY <2>2
<1> QED BY <1>1, <1>3 DEF Edits

LEMMA CompanionsTidy == ASSUME NEW c \in TidyLists, NEW out, out \in Companions(c) PROVE out.cfg \in TidyLists
<1>1. PICK n \in DOMAIN Companion, e \in Typed : c[n].there /\ out = Done(AddCompanion(c, n, e))
  BY DEF Companions
<1>2. PICK m \in ListName : m = Companion[n]
  BY RoutesAssumption DEF ListName
<1>3. PICK h : h = Base(c, n)
  OBVIOUS
<1>4. n \in ListName /\ e \in Entry
  BY RoutesAssumption DEF ListName
<1>5. h \in List /\ h.there
  <2>1. c[n] \in List /\ c[m] \in List
    BY <1>2, <1>4, HandTidy
  <2> QED BY <1>1, <1>2, <1>3, <2>1 DEF Base, List, Lines
<1>6. PICK l : l = [h EXCEPT !.entries = @ \cup {e}]
  OBVIOUS
<1>7. l \in List /\ l.there
  BY <1>4, <1>5, <1>6 DEF List
<1>8. out.cfg = [c EXCEPT ![m] = l]
  BY <1>1, <1>2, <1>3, <1>6 DEF AddCompanion, Done
<1>9. [c EXCEPT ![m] = l] \in TidyLists
  BY <1>7, NoListTidy, PutTidy
<1> QED BY <1>8, <1>9

LEMMA SeedTidy ==
    ASSUME NEW c \in TidyLists, NEW n \in ListName, NEW i \in Iface, Served(n) \in SUBSET Entry
    PROVE  Seed(c, n, i) \in TidyLists
<1>1. PICK h : h = Hand(c, n)
  OBVIOUS
<1>2. h \in List /\ h.there
  BY <1>1, HandTidy
<1>3. PICK e \in SUBSET Entry : e = Served(n)
  OBVIOUS
<1>4. PICK l : l = [h EXCEPT !.bound = TRUE, !.entries = e, !.iface = i]
  OBVIOUS
<1>5. l \in List /\ l.there
  BY <1>2, <1>4 DEF List
<1> QED BY <1>1, <1>3, <1>4, <1>5, NoListTidy, PutTidy DEF Seed

LEMMA ServedLines ==
    ASSUME PresetsSound, NEW x, NEW n \in ListName, Entries(x, n) # None
    PROVE  Served(n) \in SUBSET Entry
BY EmbedRows, PresetsAssumption DEF Entries, Served, Lines, ListName, PresetsSound, PresetsTyped

LEMMA ApplyTidy ==
    ASSUME PresetsSound, NEW c \in TidyLists, NEW x, NEW n \in ListName, NEW i \in Iface, NEW ip \in BOOLEAN
    PROVE  Apply(c, x, n, i, ip).cfg \in TidyLists
<1>1. ASSUME NEW d \in TidyLists, NEW m \in ListName, Seedable(d, x, m) PROVE Seed(d, m, i) \in TidyLists
  BY <1>1, ServedLines, SeedTidy DEF Seedable
<1>2. CASE ~ Seedable(c, x, n)
  BY <1>2 DEF Apply, Refused
<1>3. CASE Seedable(c, x, n)
  <2>1. PICK first \in TidyLists : first = Seed(c, n, i)
    BY <1>1, <1>3
  <2>2. CASE ~ ip \/ n \notin DOMAIN Companion
    BY <1>3, <2>1, <2>2 DEF Apply, Done
  <2>3. CASE ip /\ n \in DOMAIN Companion
    <3>1. PICK m \in ListName : m = Companion[n]
      BY <2>3, RoutesAssumption DEF ListName
    <3>2. Apply(c, x, n, i, ip) = IF snapshot(x)[m] = None THEN Done(first)
                                  ELSE IF Seedable(first, x, m) THEN Done(Seed(first, m, i))
                                  ELSE Refused(first)
      BY <1>3, <2>1, <2>3, <3>1 DEF Apply
    <3>3. Seedable(first, x, m) => Seed(first, m, i) \in TidyLists
      BY <1>1
    <3> QED BY <3>2, <3>3 DEF Done, Refused
  <2> QED BY <2>2, <2>3
<1> QED BY <1>2, <1>3

LEMMA SyncTidy ==
    ASSUME PresetsSound, NEW c \in TidyLists, NEW x, NEW S \in SUBSET BoundIn(c), NEW out, out \in Sync(c, x, S)
    PROVE  out.cfg \in TidyLists
<1>1. ASSUME NEW T \in SUBSET S, \A n \in T : Entries(x, n) # None PROVE Synced(c, T) \in TidyLists
  <2>1. ASSUME NEW n \in T PROVE [c[n] EXCEPT !.entries = Served(n)] \in Tidy
    <3>1. n \in ListName /\ c[n].bound
      BY DEF BoundIn
    <3>2. c[n] \in List /\ c[n].there
      BY <3>1, HandTidy
    <3>3. PICK e \in SUBSET Entry : e = Served(n)
      BY <1>1, <3>1, ServedLines
    <3>4. PICK l : l = [c[n] EXCEPT !.entries = e]
      OBVIOUS
    <3>5. l \in List /\ l.there
      BY <3>2, <3>4 DEF List
    <3> QED BY <3>3, <3>4, <3>5, NoListTidy
  <2> QED BY <2>1 DEF Synced, TidyLists
<1>2. \E T \in SUBSET S : (\A n \in T : Entries(x, n) # None) /\ out.cfg = Synced(c, T)
  <2>1. CASE \A n \in S : Entries(x, n) # None
    <3>1. out = Done(Synced(c, S))
      BY <2>1 DEF Sync
    <3>2. out.cfg = Synced(c, S)
      BY <3>1 DEF Done
    <3> QED BY <2>1, <3>2
  <2>2. CASE ~ \A n \in S : Entries(x, n) # None
    <3>1. PICK T \in SUBSET {n \in S : Entries(x, n) # None} : out = Refused(Synced(c, T))
      BY <2>2 DEF Sync
    <3>2. out.cfg = Synced(c, T)
      BY <3>1 DEF Refused
    <3> QED BY <3>2
  <2> QED BY <2>1, <2>2
<1> QED BY <1>1, <1>2

\* A command makes a configuration of a configuration, and lists a list that is not there leaves empty.
LEMMA CommandsTidy ==
    ASSUME PresetsSound, NEW c \in TidyLists, NEW x, NEW out, out \in Commands(c, x)
    PROVE  out.cfg \in TidyLists
<1>1. CASE out \in Edits(c) \/ out \in Companions(c)
  BY <1>1, EditsTidy, CompanionsTidy
<1>2. CASE \E n \in ListName, i \in Iface, ip \in BOOLEAN : out = Apply(c, x, n, i, ip)
  BY <1>2, ApplyTidy
<1>3. CASE \E S \in SUBSET BoundIn(c) : out \in Sync(c, x, S)
  BY <1>3, SyncTidy
<1>4. \/ out \in Edits(c) \/ out \in Companions(c)
      \/ \E n \in ListName, i \in Iface, ip \in BOOLEAN : out = Apply(c, x, n, i, ip)
      \/ out \in Sync(c, x, BoundIn(c)) \/ \E n \in BoundIn(c) : out \in Sync(c, x, {n})
  <2>1. PICK S : S = UNION {Sync(c, x, {n}) : n \in BoundIn(c)}
    OBVIOUS
  <2>2. Commands(c, x) = Edits(c) \cup Companions(c) \cup Applied(c, x) \cup Sync(c, x, BoundIn(c)) \cup S
    BY <2>1 DEF Commands
  <2>3. out \in S => \E n \in BoundIn(c) : out \in Sync(c, x, {n})
    BY <2>1
  <2>4. out \in Applied(c, x) => \E n \in ListName, i \in Iface, ip \in BOOLEAN : out = Apply(c, x, n, i, ip)
    BY DEF Applied
  <2> QED BY <2>2, <2>3, <2>4
<1> QED BY <1>1, <1>2, <1>3, <1>4

\* A pusher that has nothing to do with the router.
Rests(j) == /\ IsJob(j) /\ j.want \in TidyLists /\ j.changed = "nothing" /\ ~ j.alone
            /\ j.stage \in {"idle", "scan"}

LEMMA NoJobRests == Rests(NoJob) /\ \A c \in TidyLists : Rests([NoJob EXCEPT !.stage = "scan", !.want = c])
<1>1. NoLists \in TidyLists
  BY NoListTidy
<1>2. Rests(NoJob)
  BY <1>1 DEF Rests, IsJob, NoJob
<1>3. ASSUME NEW c \in TidyLists PROVE Rests([NoJob EXCEPT !.stage = "scan", !.want = c])
  <2>1. PICK j : j = [NoJob EXCEPT !.stage = "scan", !.want = c]
    OBVIOUS
  <2>2. IsJob(j) /\ j.want = c /\ j.changed = "nothing" /\ j.alone = FALSE /\ j.stage = "scan"
    BY <2>1 DEF IsJob, NoJob
  <2> QED BY <2>1, <2>2 DEF Rests
<1> QED BY <1>2, <1>3

LEMMA InitRoutes == RoutesInit => RoutesSound
<1> SUFFICES ASSUME RoutesInit PROVE RoutesSound
  OBVIOUS
<1>1. lists \in TidyLists
  BY SitesAssumption DEF RoutesInit, TidyLists, Tidy
<1>2. groups \in [ListName -> {None} \cup SUBSET Entry]
  <2>1. \A n \in ListName : lists[n].entries \in SUBSET Entry
    BY <1>1 DEF TidyLists, Tidy, List
  <2> QED BY <2>1 DEF RoutesInit
<1>3. job = [x \in Pusher |-> job[x]] /\ \A x \in Pusher : Rests(job[x])
  BY NoJobRests DEF RoutesInit
<1>4. memory \in TidyLists /\ draft \in TidyLists /\ faults \in Nat
  BY <1>1, NoListTidy DEF RoutesInit
<1>5. RoutesTyped
  BY <1>1, <1>2, <1>3, <1>4 DEF RoutesTyped, Rests
<1>6. PushesAlone /\ PushesFit /\ PushesReach
  BY <1>3 DEF Rests, PushesAlone, PushesFit, PushesReach
<1> QED BY <1>5, <1>6 DEF RoutesSound

\* Pushers go on as they are or come to rest.
LEMMA RestSound ==
    ASSUME RoutesSound, UNCHANGED groups, job' = [x \in Pusher |-> job'[x]],
           \A x \in Pusher : job'[x] = job[x] \/ Rests(job'[x]),
           lists' \in TidyLists, memory' \in TidyLists, draft' \in TidyLists, faults' \in Nat
    PROVE  RoutesSound'
<1>1. RoutesTyped'
  BY DEF RoutesSound, RoutesTyped, Rests, IsJob
<1>2. PushesAlone'
  BY DEF RoutesSound, PushesAlone, Rests
<1>3. PushesFit'
  BY DEF RoutesSound, PushesFit, Rests, Fits
<1>4. PushesReach'
  <2> SUFFICES ASSUME NEW x \in Pusher, job'[x].stage = "run", job'[x].alone, ~ job'[x].failed PROVE Reaches(x)'
    BY DEF PushesReach
  <2>1. job'[x] = job[x]
    BY DEF Rests
  <2>2. Reaches(x)
    BY <2>1 DEF RoutesSound, PushesReach
  <2> QED BY <2>1, <2>2 DEF Reaches, In
<1> QED BY <1>1, <1>2, <1>3, <1>4 DEF RoutesSound

LEMMA OneRests ==
    ASSUME RoutesSound, UNCHANGED groups, NEW x \in Pusher, NEW j, Rests(j), job' = [job EXCEPT ![x] = j],
           lists' \in TidyLists, memory' \in TidyLists, draft' \in TidyLists, faults' \in Nat
    PROVE  RoutesSound'
<1>1. job = [y \in Pusher |-> job[y]]
  BY DEF RoutesSound, RoutesTyped
<1>2. DOMAIN job = Pusher
  BY <1>1
<1>3. job'[x] = j /\ \A y \in Pusher \ {x} : job'[y] = job[y]
  BY <1>2
<1>4. job' = [y \in Pusher |-> job'[y]]
  BY <1>2
<1> QED BY <1>3, <1>4, RestSound

\* A push begins; whoever was alone no longer is.
LEMMA StartsSound ==
    ASSUME RoutesSound, UNCHANGED groups, NEW x \in Pusher, NEW c \in TidyLists, Starts(x, c),
           lists' \in TidyLists, memory' \in TidyLists, draft' \in TidyLists, faults' \in Nat
    PROVE  RoutesSound'
<1>1. CASE ~ site.ndmc
  BY <1>1, NoJobRests, OneRests DEF Starts, Leaves
<1>2. CASE site.ndmc
  <2>1. PICK a : a = (\A z \in Pusher \ {x} : Idle(z))
    OBVIOUS
  <2>2. PICK j : j = [NoJob EXCEPT !.stage = "read", !.want = c, !.alone = a]
    OBVIOUS
  <2>3. IsJob(j) /\ j.want = c /\ j.changed = "nothing" /\ j.stage = "read" /\ j.alone = a
    BY <2>2 DEF NoJob, IsJob
  <2>4. job' = [y \in Pusher |-> IF y # x THEN [job[y] EXCEPT !.alone = FALSE] ELSE j]
    BY <1>2, <2>1, <2>2 DEF Starts
  <2>5. job'[x] = j /\ job' = [y \in Pusher |-> job'[y]]
    BY <2>4
  <2>6. ASSUME NEW y \in Pusher \ {x}
        PROVE  /\ IsJob(job'[y]) /\ job'[y].want = job[y].want /\ job'[y].changed = job[y].changed
               /\ job'[y].stage = job[y].stage /\ job'[y].alone = FALSE /\ job'[y].cmds = job[y].cmds
    <3>1. job'[y] = [job[y] EXCEPT !.alone = FALSE] /\ IsJob(job[y])
      BY <2>4 DEF RoutesSound, RoutesTyped
    <3> QED BY <3>1 DEF IsJob
  <2>7. RoutesTyped'
    BY <2>3, <2>5, <2>6 DEF RoutesSound, RoutesTyped
  <2>8. PushesAlone'
    BY <2>1, <2>3, <2>5, <2>6 DEF PushesAlone, Idle
  <2>9. PushesFit'
    BY <2>3, <2>5, <2>6 DEF RoutesSound, PushesFit
  <2>10. PushesReach'
    BY <2>3, <2>5, <2>6 DEF PushesReach
  <2> QED BY <2>7, <2>8, <2>9, <2>10 DEF RoutesSound
<1> QED BY <1>1, <1>2


LEMMA ReadSound == ASSUME RoutesSound, NEW x \in Pusher, Read(x) PROVE RoutesSound'
<1>1. PICK cmds : cmds = CommandsFor(job[x].want)
  OBVIOUS
<1>2. /\ job[x].stage = "read" /\ UNCHANGED <<lists, memory, groups, draft, faults>>
      /\ job' = [job EXCEPT ![x] = IF cmds = <<>> THEN NoJob
                                   ELSE [job[x] EXCEPT !.stage = "run", !.cmds = cmds, !.changed = Change(cmds)]]
  BY <1>1 DEF Read, router, daily, counts, RoutesSound, RoutesTyped
<1>3. DOMAIN job = Pusher /\ IsJob(job[x]) /\ job[x].want \in TidyLists
  <2>1. job = [y \in Pusher |-> job[y]]
    BY DEF RoutesSound, RoutesTyped
  <2>2. DOMAIN job = Pusher
    BY <2>1
  <2> QED BY <2>2 DEF RoutesSound, RoutesTyped
<1>4. CASE cmds = <<>>
  BY <1>2, <1>4, NoJobRests, OneRests DEF RoutesSound, RoutesTyped
<1>5. CASE cmds # <<>>
  <2>1. PICK j : j = [job[x] EXCEPT !.stage = "run", !.cmds = cmds, !.changed = Change(cmds)]
    OBVIOUS
  <2>2. IsJob(j) /\ j.want = job[x].want /\ j.stage = "run" /\ j.alone = job[x].alone /\ j.cmds = cmds
    BY <1>3, <2>1 DEF IsJob
  <2>3. job' = [job EXCEPT ![x] = j]
    BY <1>2, <1>5, <2>1
  <2>4. job'[x] = j /\ (\A y \in Pusher \ {x} : job'[y] = job[y]) /\ job' = [y \in Pusher |-> job'[y]]
    BY <1>3, <2>3
  <2>5. RoutesTyped'
    BY <1>2, <2>2, <2>4 DEF RoutesSound, RoutesTyped
  <2>6. PushesAlone'
    BY <1>2, <2>2, <2>4 DEF RoutesSound, PushesAlone
  <2>7. /\ IsSeq(cmds) /\ \A v : Has(cmds, v) => Fits(j.want, v)
        /\ \A n \in ListName : \A e \in j.want[n].entries : e \in In(n) \/ Has(cmds, Cmd("include", n, e))
    BY <1>1, <1>3, <2>2, CommandsBring DEF RoutesSound, RoutesTyped
  <2>8. PushesFit'
    <3>1. \A k \in 1 .. Len(cmds) : Fits(j.want, cmds[k])
      BY <2>7 DEF Has
    <3> QED BY <2>2, <2>4, <2>7, <3>1 DEF RoutesSound, PushesFit
  <2>9. PushesReach'
    <3>1. Reaches(x)'
      BY <1>2, <2>2, <2>4, <2>7 DEF Reaches, In
    <3>2. ASSUME NEW y \in Pusher \ {x}, job'[y].stage = "run", job'[y].alone, ~ job'[y].failed PROVE Reaches(y)'
      <4>1. Reaches(y)
        BY <2>4, <3>2 DEF RoutesSound, PushesReach
      <4> QED BY <1>2, <2>4, <3>2, <4>1 DEF Reaches, In
    <3> QED BY <3>1, <3>2 DEF PushesReach
  <2> QED BY <2>5, <2>6, <2>8, <2>9 DEF RoutesSound
<1> QED BY <1>4, <1>5

\* A command that is carried out takes no entry from a group whose list has it.
LEMMA FillKeeps ==
    ASSUME groups \in [ListName -> {None} \cup SUBSET Entry], NEW cmd, NEW want, Fits(want, cmd)
    PROVE  /\ Fill(cmd.n, cmd) \in {None} \cup SUBSET Entry
           /\ \A e \in want[cmd.n].entries :
                  e \in In(cmd.n) \/ cmd = Cmd("include", cmd.n, e)
                  => Fill(cmd.n, cmd) # None /\ e \in Fill(cmd.n, cmd)
<1>1. PICK n \in ListName : n = cmd.n
  BY DEF Fits
<1>2. PICK w : w = want[n].entries
  OBVIOUS
<1>3. /\ (cmd.op = "include" => cmd.arg \in Entry) /\ (cmd.op = "exclude" => cmd.arg \notin w)
      /\ (cmd.op = "ungroup" => w = {})
  BY <1>1, <1>2 DEF Fits
<1>4. PICK in \in SUBSET Entry : in = In(n) /\ (groups[n] # None => groups[n] = in) /\ (groups[n] = None => in = {})
  BY DEF In
<1>5. \A lines \in SUBSET Entry : lines # None
  BY EmbedRows
<1>6. PICK g : g = groups[n]
  OBVIOUS
<1>7. Fill(n, cmd) = CASE cmd.op = "group" -> in
                       [] cmd.op = "include" -> in \cup {cmd.arg}
                       [] cmd.op = "exclude" /\ g # None -> in \ {cmd.arg}
                       [] cmd.op = "ungroup" -> None
                       [] OTHER -> g
  BY <1>4, <1>6 DEF Fill
<1>8. Fill(n, cmd) \in {None} \cup SUBSET Entry
  BY <1>3, <1>4, <1>6, <1>7
<1>9. ASSUME NEW e \in w, e \in in PROVE Fill(n, cmd) # None /\ e \in Fill(n, cmd)
  <2>1. g # None /\ g = in
    BY <1>4, <1>6, <1>9
  <2>2. in \cup {cmd.arg} \in SUBSET Entry \/ cmd.op # "include"
    BY <1>3
  <2> QED BY <1>3, <1>5, <1>7, <1>9, <2>1, <2>2
<1>10. ASSUME NEW e \in w, cmd = Cmd("include", n, e) PROVE Fill(n, cmd) # None /\ e \in Fill(n, cmd)
  <2>1. cmd.op = "include" /\ cmd.arg = e
    BY <1>10 DEF Cmd
  <2>2. in \cup {cmd.arg} \in SUBSET Entry
    BY <1>3, <2>1
  <2> QED BY <1>5, <1>7, <2>1, <2>2
<1> QED BY <1>1, <1>2, <1>4, <1>8, <1>9, <1>10

LEMMA RunSound == ASSUME RoutesSound, NEW x \in Pusher, Run(x) PROVE RoutesSound'
<1>1. DOMAIN job = Pusher /\ IsJob(job[x]) /\ job[x].want \in TidyLists /\ groups \in [ListName -> {None} \cup SUBSET Entry]
  <2>1. job = [y \in Pusher |-> job[y]]
    BY DEF RoutesSound, RoutesTyped
  <2>2. DOMAIN job = Pusher
    BY <2>1
  <2> QED BY <2>2 DEF RoutesSound, RoutesTyped
<1>2. PICK cmds : cmds = job[x].cmds
  OBVIOUS
<1>3. PICK want : want = job[x].want
  OBVIOUS
<1>4. PICK cmd : cmd = Head(cmds)
  OBVIOUS
<1>5. PICK n : n = cmd.n
  OBVIOUS
<1>6. /\ job[x].stage = "run" /\ cmds # <<>> /\ UNCHANGED <<lists, memory, draft, faults>>
      /\ groups' = [groups EXCEPT ![n] = Fill(n, cmd)]
      /\ job' = [job EXCEPT ![x].cmds = Tail(cmds)]
  BY <1>1, <1>2, <1>4, <1>5 DEF Run, Becomes, daily, counts
<1>7. IsSeq(cmds) /\ (\A v : Has(cmds, v) => Fits(want, v))
  BY <1>2, <1>3, <1>6 DEF RoutesSound, PushesFit, Has
<1>8. /\ IsSeq(Tail(cmds)) /\ Fits(want, cmd) /\ \A v : Has(Tail(cmds), v) => Fits(want, v)
      /\ \A v : Has(cmds, v) => v = cmd \/ Has(Tail(cmds), v)
  BY <1>4, <1>6, <1>7, TailHas
<1>9. PICK j : j = [job[x] EXCEPT !.cmds = Tail(cmds)]
  OBVIOUS
<1>10. /\ IsJob(j) /\ j.want = want /\ j.stage = "run" /\ j.alone = job[x].alone /\ j.cmds = Tail(cmds)
       /\ j.failed = job[x].failed /\ j.changed = job[x].changed
  BY <1>1, <1>3, <1>6, <1>9 DEF IsJob
<1>11. job' = [job EXCEPT ![x] = j]
  BY <1>1, <1>6, <1>9
<1>12. job'[x] = j /\ (\A y \in Pusher \ {x} : job'[y] = job[y]) /\ job' = [y \in Pusher |-> job'[y]]
  BY <1>1, <1>11
<1>13. /\ n \in ListName /\ Fill(n, cmd) \in {None} \cup SUBSET Entry
       /\ \A e \in want[n].entries : e \in In(n) \/ cmd = Cmd("include", n, e) => Fill(n, cmd) # None /\ e \in Fill(n, cmd)
  BY <1>1, <1>5, <1>8, FillKeeps DEF Fits
<1>14. groups' \in [ListName -> {None} \cup SUBSET Entry]
  BY <1>1, <1>6, <1>13
<1>15. RoutesTyped'
  BY <1>3, <1>6, <1>10, <1>12, <1>14 DEF RoutesSound, RoutesTyped
<1>16. PushesAlone'
  BY <1>6, <1>10, <1>12 DEF RoutesSound, PushesAlone
<1>17. PushesFit'
  <2>1. \A k \in 1 .. Len(Tail(cmds)) : Fits(want, Tail(cmds)[k])
    BY <1>8 DEF Has
  <2> QED BY <1>8, <1>10, <1>12, <2>1 DEF RoutesSound, PushesFit
<1>18. PushesReach'
  <2>1. ASSUME NEW y \in Pusher \ {x}, job'[y].stage = "run", job'[y].alone PROVE FALSE
    BY <1>6, <1>12, <2>1 DEF RoutesSound, PushesAlone
  <2>2. ASSUME job'[x].alone, ~ job'[x].failed, NEW m \in ListName, NEW e \in want[m].entries
        PROVE  e \in In(m)' \/ Has(Tail(cmds), Cmd("include", m, e))
    <3>1. e \in In(m) \/ Has(cmds, Cmd("include", m, e))
      BY <1>2, <1>3, <1>6, <1>10, <1>12, <2>2 DEF RoutesSound, PushesReach, Reaches
    <3>2. CASE m # n
      <4>1. groups'[m] = groups[m] /\ cmd # Cmd("include", m, e)
        BY <1>1, <1>5, <1>6, <3>2 DEF Cmd
      <4> QED BY <1>8, <3>1, <4>1 DEF In
    <3>3. CASE m = n
      <4>1. groups'[n] = Fill(n, cmd)
        BY <1>1, <1>6, <1>13
      <4>2. In(n)' = IF groups'[n] = None THEN {} ELSE groups'[n]
        BY DEF In
      <4> QED BY <1>8, <1>13, <3>1, <3>3, <4>1, <4>2
    <3> QED BY <3>2, <3>3
  <2>3. job'[x].alone /\ ~ job'[x].failed => Reaches(x)'
    BY <1>10, <1>12, <2>2 DEF Reaches
  <2> QED BY <2>1, <2>3 DEF PushesReach
<1> QED BY <1>15, <1>16, <1>17, <1>18 DEF RoutesSound

LEMMA FailsSound == ASSUME RoutesSound, NEW x \in Pusher, CommandFails(x) PROVE RoutesSound'
<1>1. DOMAIN job = Pusher /\ IsJob(job[x])
  <2>1. job = [y \in Pusher |-> job[y]]
    BY DEF RoutesSound, RoutesTyped
  <2>2. DOMAIN job = Pusher
    BY <2>1
  <2> QED BY <2>2 DEF RoutesSound, RoutesTyped
<1>2. PICK cmds : cmds = job[x].cmds
  OBVIOUS
<1>3. PICK left \in {Tail(cmds), <<>>} : job' = [job EXCEPT ![x].cmds = left, ![x].failed = TRUE]
  BY <1>2 DEF CommandFails
<1>4. /\ job[x].stage = "run" /\ cmds # <<>> /\ UNCHANGED <<lists, memory, draft, groups>> /\ faults' = faults + 1
  BY <1>2 DEF CommandFails, Fault, router, daily
<1>5. PICK want : want = job[x].want
  OBVIOUS
<1>6. IsSeq(cmds) /\ (\A v : Has(cmds, v) => Fits(want, v))
  BY <1>2, <1>4, <1>5 DEF RoutesSound, PushesFit, Has
<1>7. IsSeq(left) /\ (\A v : Has(left, v) => Fits(want, v))
  <2>1. CASE left = Tail(cmds)
    BY <1>4, <1>6, <2>1, TailHas
  <2>2. CASE left = <<>>
    BY <2>2, SeqsOfFew
  <2> QED BY <1>3, <2>1, <2>2
<1>8. PICK j : j = [job[x] EXCEPT !.cmds = left, !.failed = TRUE]
  OBVIOUS
<1>9. /\ IsJob(j) /\ j.want = want /\ j.stage = "run" /\ j.alone = job[x].alone /\ j.cmds = left /\ j.failed
      /\ j.changed = job[x].changed
  BY <1>1, <1>4, <1>5, <1>8 DEF IsJob
<1>10. job' = [job EXCEPT ![x] = j]
  BY <1>1, <1>3, <1>8
<1>11. job'[x] = j /\ (\A y \in Pusher \ {x} : job'[y] = job[y]) /\ job' = [y \in Pusher |-> job'[y]]
  BY <1>1, <1>10
<1>12. RoutesTyped'
  BY <1>4, <1>5, <1>9, <1>11 DEF RoutesSound, RoutesTyped
<1>13. PushesAlone'
  BY <1>4, <1>9, <1>11 DEF RoutesSound, PushesAlone
<1>14. PushesFit'
  <2>1. \A k \in 1 .. Len(left) : Fits(want, left[k])
    BY <1>7 DEF Has
  <2> QED BY <1>7, <1>9, <1>11, <2>1 DEF RoutesSound, PushesFit
<1>15. PushesReach'
  <2> SUFFICES ASSUME NEW y \in Pusher \ {x}, job'[y].stage = "run", job'[y].alone PROVE FALSE
    BY <1>9, <1>11 DEF PushesReach
  <2> QED BY <1>4, <1>11 DEF RoutesSound, PushesAlone
<1> QED BY <1>12, <1>13, <1>14, <1>15 DEF RoutesSound

LEMMA JobsTable == ASSUME RoutesSound PROVE DOMAIN job = Pusher /\ job = [x \in Pusher |-> job[x]]
<1>1. job = [x \in Pusher |-> job[x]]
  BY DEF RoutesSound, RoutesTyped
<1> QED BY <1>1

LEMMA PushesSound ==
    ASSUME RoutesSound, NEW x \in Pusher, Pushes(x)
    PROVE  RoutesSound'
<1>1. CASE Ends(x)
  <2>1. job' = [job EXCEPT ![x] = NoJob] /\ UNCHANGED <<lists, memory, groups, draft>> /\ faults' \in {faults, faults + 1}
    BY <1>1 DEF Ends, Fault, daily, counts
  <2>2. /\ lists' \in TidyLists /\ memory' \in TidyLists /\ draft' \in TidyLists /\ faults' \in Nat
        /\ UNCHANGED groups
    BY <2>1 DEF RoutesSound, RoutesTyped
  <2> QED BY <2>1, <2>2, NoJobRests, OneRests
<1> QED BY <1>1, ReadSound, RunSound, FailsSound DEF Pushes

LEMMA BotSound == ASSUME RoutesSound, PresetsSound, BotCommand PROVE RoutesSound'
<1>1. PICK out \in Commands(memory, "bot") :
          /\ memory' = out.cfg
          /\ IF out.ok THEN lists' = out.cfg /\ Starts("bot", out.cfg) ELSE UNCHANGED <<lists, job>>
  BY DEF BotCommand
<1>2. /\ out.cfg \in TidyLists /\ lists \in TidyLists /\ draft' \in TidyLists /\ UNCHANGED groups /\ faults' \in Nat
      /\ "bot" \in Pusher
  BY CommandsTidy DEF BotCommand, RoutesSound, RoutesTyped, router, daily, Event, Pusher
<1>3. CASE out.ok
  BY <1>1, <1>2, <1>3, StartsSound
<1>4. CASE ~ out.ok
  <2>1. UNCHANGED <<lists, job>>
    BY <1>1, <1>4
  <2> QED BY <1>1, <1>2, <2>1, JobsTable, RestSound
<1> QED BY <1>3, <1>4

LEMMA CliSound == ASSUME RoutesSound, PresetsSound, CliLoads \/ CliCommand PROVE RoutesSound'
<1>1. "cli" \in Pusher /\ UNCHANGED <<memory, groups, draft>> /\ faults' \in Nat
  BY DEF CliLoads, CliCommand, router, daily, counts, Event, Pusher, RoutesSound, RoutesTyped
<1>2. lists \in TidyLists /\ memory \in TidyLists /\ draft \in TidyLists /\ job["cli"].want \in TidyLists
  BY <1>1 DEF RoutesSound, RoutesTyped
<1>3. CASE CliLoads
  <2>1. PICK j : j = [NoJob EXCEPT !.stage = "scan", !.want = lists]
    OBVIOUS
  <2>2. job' = [job EXCEPT !["cli"] = j] /\ UNCHANGED lists
    BY <1>3, <2>1 DEF CliLoads
  <2>3. Rests(j)
    BY <1>2, <2>1, NoJobRests
  <2> QED BY <1>1, <1>2, <2>2, <2>3, OneRests
<1>4. CASE CliCommand
  <2>1. PICK out \in Commands(job["cli"].want, "cli") :
            IF out.ok THEN lists' = out.cfg /\ Starts("cli", out.cfg)
            ELSE Leaves("cli") /\ UNCHANGED lists
    BY <1>4 DEF CliCommand
  <2>2. out.cfg \in TidyLists
    BY <1>2, CommandsTidy
  <2>3. CASE out.ok
    BY <1>1, <1>2, <2>1, <2>2, <2>3, StartsSound
  <2>4. CASE ~ out.ok
    <3>1. job' = [job EXCEPT !["cli"] = NoJob] /\ UNCHANGED lists
      BY <2>1, <2>4 DEF Leaves
    <3> QED BY <1>1, <1>2, <3>1, NoJobRests, OneRests
  <2> QED BY <2>3, <2>4
<1> QED BY <1>3, <1>4

\* What the daily loop notes are revisions, in lists that are there.
LEMMA NotesSound == ASSUME RoutesSound, PresetsSound, DailyNotes PROVE RoutesSound'
<1>1. PICK notes : notes = NewDrift(draft)
  OBVIOUS
<1>2. PICK stamped : stamped = [n \in ListName |-> IF n \in notes THEN [draft[n] EXCEPT !.noted = CurRev(n)] ELSE draft[n]]
  OBVIOUS
<1>3. /\ UNCHANGED <<memory, groups, job, faults>>
      /\ \/ draft' = NoLists /\ lists' \in {lists, stamped}
         \/ lists' = stamped /\ draft' = [n \in ListName |-> IF n \in notes THEN stamped[n] ELSE NoList]
  BY <1>1, <1>2 DEF DailyNotes, router, counts
<1>4. stamped \in TidyLists
  <2>1. ASSUME NEW n \in ListName, n \in notes PROVE [draft[n] EXCEPT !.noted = CurRev(n)] \in Tidy
    <3>1. draft[n].bound
      BY <1>1, <2>1 DEF NewDrift, Drifted, BoundIn
    <3>2. draft[n] \in List /\ draft[n].there
      BY <3>1, HandTidy DEF RoutesSound, RoutesTyped
    <3>3. PICK rev \in Lines : rev = CurRev(n)
      BY RowsTyped DEF PresetsSound, CurRev, ListName
    <3>4. [draft[n] EXCEPT !.noted = rev] \in List /\ [draft[n] EXCEPT !.noted = rev].there
      BY <3>2 DEF List
    <3> QED BY <3>3, <3>4, NoListTidy
  <2>2. \A n \in ListName : draft[n] \in Tidy
    BY DEF RoutesSound, RoutesTyped, TidyLists
  <2> QED BY <1>2, <2>1, <2>2 DEF TidyLists
<1>5. lists' \in TidyLists /\ draft' \in TidyLists
  BY <1>3, <1>4, NoListTidy DEF TidyLists, RoutesSound, RoutesTyped
<1> QED BY <1>3, <1>5, JobsTable, RestSound DEF RoutesSound, RoutesTyped

LEMMA DropSound == ASSUME RoutesSound, FirmwareDrops PROVE RoutesSound'
<1>1. /\ groups' = [n \in ListName |-> None] /\ job' = [x \in Pusher |-> [job[x] EXCEPT !.alone = FALSE]]
      /\ UNCHANGED <<lists, memory, draft>> /\ faults' = faults + 1
  BY DEF FirmwareDrops, Becomes, Fault, daily
<1>2. ASSUME NEW x \in Pusher
      PROVE  /\ IsJob(job'[x]) /\ job'[x].want = job[x].want /\ job'[x].changed = job[x].changed
             /\ job'[x].stage = job[x].stage /\ job'[x].alone = FALSE /\ job'[x].cmds = job[x].cmds
  <2>1. job'[x] = [job[x] EXCEPT !.alone = FALSE] /\ IsJob(job[x])
    BY <1>1 DEF RoutesSound, RoutesTyped
  <2> QED BY <2>1 DEF IsJob
<1>3. job' = [x \in Pusher |-> job'[x]]
  BY <1>1
<1>4. RoutesTyped'
  <2>1. groups' \in [ListName -> {None} \cup SUBSET Entry]
    BY <1>1
  <2>2. \A x \in Pusher : /\ IsJob(job'[x]) /\ job'[x].want \in TidyLists
                          /\ (job'[x].changed # "nothing" => job'[x].stage = "run")
    BY <1>2 DEF RoutesSound, RoutesTyped
  <2>3. lists' \in TidyLists /\ memory' \in TidyLists /\ draft' \in TidyLists /\ faults' \in Nat
    BY <1>1 DEF RoutesSound, RoutesTyped
  <2> QED BY <1>3, <2>1, <2>2, <2>3 DEF RoutesTyped
<1>5. PushesAlone' /\ PushesReach'
  BY <1>2 DEF PushesAlone, PushesReach
<1>6. PushesFit'
  BY <1>2 DEF RoutesSound, PushesFit
<1> QED BY <1>4, <1>5, <1>6 DEF RoutesSound

\* What touches neither the router nor a pusher.
LEMMA AsideSound ==
    ASSUME RoutesSound,
           \/ \E r \in Refresher : Refreshes(r) \/ RefreshWorks(r) \/ RefreshEnds(r) \/ RefreshFails(r)
           \/ Reload \/ DailyBegins \/ DailyRefreshed \/ SaveFails \/ Send \/ News \/ UNCHANGED allVars
    PROVE  RoutesSound'
<1>1. UNCHANGED <<lists, job, groups>> /\ memory' \in {memory, lists} /\ draft' \in {draft, lists, NoLists}
      /\ faults' \in {faults, faults + 1}
  <2>1. CASE \E r \in Refresher : Refreshes(r) \/ RefreshWorks(r) \/ RefreshEnds(r) \/ RefreshFails(r)
    BY <2>1 DEF Refreshes, RefreshWorks, RefreshEnds, RefreshFails, Event, Fault, routeVars, router, daily, counts
  <2>2. CASE Reload \/ DailyBegins \/ DailyRefreshed \/ SaveFails \/ Send \/ News \/ UNCHANGED allVars
    BY <2>2 DEF Reload, DailyBegins, DailyRefreshed, SaveFails, Send, News, allVars, routeVars, router, daily, counts,
                Event, Fault
  <2> QED BY <2>1, <2>2
<1> QED BY <1>1, NoListTidy, JobsTable, RestSound DEF RoutesSound, RoutesTyped

LEMMA DeathSound == ASSUME RoutesSound, DaemonDies \/ CliDies PROVE RoutesSound'
<1>1. /\ UNCHANGED <<lists, groups>> /\ memory' \in {memory, lists} /\ draft' \in {draft, NoLists} /\ faults' = faults + 1
      /\ \/ job' = [x \in Pusher |-> IF x = "cli" THEN job[x] ELSE NoJob]
         \/ job' = [job EXCEPT !["cli"] = NoJob]
  BY DEF DaemonDies, CliDies, Fault, router, daily
<1>2. CASE job' = [x \in Pusher |-> IF x = "cli" THEN job[x] ELSE NoJob]
  <2>1. job' = [x \in Pusher |-> job'[x]] /\ \A x \in Pusher : job'[x] = job[x] \/ Rests(job'[x])
    BY <1>2, NoJobRests
  <2> QED BY <1>1, <2>1, NoListTidy, RestSound DEF RoutesSound, RoutesTyped
<1>3. CASE job' = [job EXCEPT !["cli"] = NoJob]
  <2>1. "cli" \in Pusher /\ Rests(NoJob)
    BY NoJobRests DEF Pusher
  <2>2. memory' \in TidyLists /\ draft' \in TidyLists /\ lists' \in TidyLists /\ faults' \in Nat
    BY <1>1, NoListTidy DEF RoutesSound, RoutesTyped
  <2> QED BY <1>1, <1>3, <2>1, <2>2, OneRests
<1> QED BY <1>1, <1>2, <1>3

LEMMA ReconcileSound == ASSUME RoutesSound, ReconcileBegins PROVE RoutesSound'
BY StartsSound DEF ReconcileBegins, RoutesSound, RoutesTyped, Pusher, router, daily, counts

LEMMA AlwaysRoutes == RoutesSpec => []RoutesSound
<1>1. RoutesInit => RoutesSound
  BY InitRoutes
<1>2. RoutesSound /\ PresetsSound /\ [RoutesNext]_allVars => RoutesSound'
  BY PushesSound, BotSound, CliSound, NotesSound, DropSound, AsideSound, DeathSound, ReconcileSound DEF RoutesNext, Daily
<1> QED BY <1>1, <1>2, AlwaysPresets, PTL DEF RoutesSpec

\* A push that has changed something ends, without a fault, only when it has seen its commands through.
LEMMA OnlyEnds ==
    ASSUME RoutesSound, [RoutesNext]_allVars, NEW x \in Pusher, job[x].stage = "run", Idle(x)', faults' = faults
    PROVE  Ends(x)
<1>0. DOMAIN job = Pusher /\ faults + 1 # faults /\ (\A y \in Pusher : IsJob(job[y]))
  BY JobsTable DEF RoutesSound, RoutesTyped
<1>1. job'[x].stage # job[x].stage
  BY DEF Idle
<1>2. ASSUME NEW y \in Pusher, Pushes(y) PROVE Ends(x)
  <2>1. CASE x = y
    <3>1. ~ Read(x)
      BY DEF Read
    <3>2. ~ CommandFails(x)
      BY <1>0 DEF CommandFails, Fault
    <3>3. ASSUME Run(x) PROVE FALSE
      <4>1. job' = [job EXCEPT ![x].cmds = Tail(@)] /\ IsJob(job[x])
        BY <1>0, <3>3 DEF Run
      <4>2. job'[x].stage = job[x].stage
        BY <1>0, <4>1 DEF IsJob
      <4> QED BY <1>1, <4>2
    <3> QED BY <1>2, <2>1, <3>1, <3>2, <3>3 DEF Pushes
  <2>2. CASE x # y
    <3>1. job'[x] = job[x]
      BY <1>0, <1>2, <2>2 DEF Pushes, Read, Run, CommandFails, Ends
    <3> QED BY <1>1, <3>1
  <2> QED BY <2>1, <2>2
<1>3. ASSUME NEW y \in Pusher, NEW c, Starts(y, c), job[y].stage # "run" PROVE FALSE
  <2>1. job'[x] = job[x] \/ job'[x] = [job[x] EXCEPT !.alone = FALSE]
    BY <1>0, <1>3 DEF Starts, Leaves
  <2>2. job'[x].stage = job[x].stage
    BY <1>0, <2>1 DEF IsJob
  <2> QED BY <1>1, <2>2
<1>4. ~ BotCommand
  <2>1. SUFFICES ASSUME BotCommand PROVE FALSE
    OBVIOUS
  <2>2. "bot" \in Pusher /\ job["bot"].stage # "run" /\ (UNCHANGED job \/ \E c : Starts("bot", c))
    BY <2>1 DEF BotCommand, Idle, Pusher
  <2> QED BY <1>1, <1>3, <2>2
<1>5. ~ CliCommand
  <2>1. SUFFICES ASSUME CliCommand PROVE FALSE
    OBVIOUS
  <2>2. "cli" \in Pusher /\ job["cli"].stage # "run" /\ (Leaves("cli") \/ \E c : Starts("cli", c))
    BY <2>1 DEF CliCommand, Pusher
  <2>3. ~ Leaves("cli")
    BY <1>0, <1>1, <2>2 DEF Leaves
  <2> QED BY <1>3, <2>2, <2>3
<1>6. ~ ReconcileBegins
  BY <1>3 DEF ReconcileBegins, Idle, Pusher
<1>7. ~ CliLoads
  BY <1>0, <1>1 DEF CliLoads, Idle, Pusher
<1>8. ~ FirmwareDrops /\ ~ DaemonDies /\ ~ CliDies
  BY <1>0 DEF FirmwareDrops, DaemonDies, CliDies, Fault
<1>9. ASSUME UNCHANGED job PROVE FALSE
  BY <1>1, <1>9
<1>10. ~ \E r \in Refresher : Refreshes(r) \/ RefreshWorks(r) \/ RefreshEnds(r) \/ RefreshFails(r)
  BY <1>9 DEF Refreshes, RefreshWorks, RefreshEnds, RefreshFails, routeVars
<1>11. ~ Reload /\ ~ Daily /\ ~ News /\ ~ UNCHANGED allVars
  BY <1>9 DEF Reload, Daily, DailyBegins, DailyRefreshed, DailyNotes, SaveFails, Send, News, allVars, routeVars
<1> QED BY <1>2, <1>4, <1>5, <1>6, <1>7, <1>8, <1>10, <1>11 DEF RoutesNext

\* With the conntrack tool there and working, a command's push that nobody disturbed and that
\* failed in nothing has its lists' entries in their groups when it moves the open connections
\* (flushConntrackAfterRoutes, routes.go), so none of them is left on a route it left.
THEOREM ConnectionsFollow == RoutesSpec => ConnectionsMove
<1> DEFINE A == \A x \in {"bot", "cli"} :
                    site.conntrack /\ job[x].alone /\ ~ job[x].failed /\ job[x].changed # "nothing" /\ Idle(x)'
                    /\ faults' = faults
                    => stale' \cap UNION {job[x].want[n].entries : n \in ListName} = {}
<1>1. RoutesSound /\ [RoutesNext]_allVars => A
  <2> SUFFICES ASSUME RoutesSound, [RoutesNext]_allVars, NEW x \in {"bot", "cli"},
                      site.conntrack, job[x].alone, ~ job[x].failed, job[x].changed # "nothing", Idle(x)', faults' = faults,
                      NEW n \in ListName, NEW e \in job[x].want[n].entries, e \in stale'
               PROVE  FALSE
    OBVIOUS
  <2>1. x \in Pusher /\ job[x].stage = "run"
    BY DEF Pusher, RoutesSound, RoutesTyped
  <2>2. Ends(x)
    BY <2>1, OnlyEnds
  <2>3. job[x].cmds = <<>> /\ stale' \in Flushed(job[x].want)
    <3>1. faults' # faults + 1
      BY DEF RoutesSound, RoutesTyped
    <3> QED BY <2>2, <3>1 DEF Ends, Flushes, Fault
  <2>4. e \in In(n)
    <3>1. ~ Has(job[x].cmds, Cmd("include", n, e))
      BY <2>3, SeqsOfFew
    <3> QED BY <2>1, <3>1 DEF RoutesSound, PushesReach, Reaches
  <2>5. job[x].want[n].there
    <3>1. job[x].want[n] \in Tidy
      BY <2>1 DEF RoutesSound, RoutesTyped, TidyLists
    <3> QED BY <3>1 DEF Tidy, NoList
  <2>6. e \in UNION {groups[m] : m \in {k \in ListName : job[x].want[k].there /\ groups[k] # None}}
    BY <2>4, <2>5 DEF In
  <2> QED BY <2>3, <2>6 DEF Flushed
<1>2. RoutesSound /\ [RoutesNext]_allVars => [A]_allVars
  BY <1>1
<1>3. RoutesSpec => [][A]_allVars
  BY <1>2, AlwaysRoutes, PTL DEF RoutesSpec
<1> QED BY <1>3, PTL DEF ConnectionsMove
=============================================================================
