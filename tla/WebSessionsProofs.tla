--------------------------- MODULE WebSessionsProofs ---------------------------
(***************************************************************************)
(* Proofs about linked phones for every number of processes, connections,  *)
(* attempts and requests, and for faults and lapses without end.           *)
(***************************************************************************)
EXTENDS WebSessions, FiniteSetTheorems, WellFoundedInduction, TLAPS

-----------------------------------------------------------------------------
(* Counting the reconnects that are left. *)

\* f[c]: the attempts that connection c has used; what is left, attempt by attempt.
Left(f) == {u \in Connections \X (1..MaxAttempts) : f[u[1]] < u[2]}

LEMMA LeftFinite ==
  ASSUME NEW f
  PROVE  IsFiniteSet(Left(f)) /\ Cardinality(Left(f)) \in Nat
<1>1. IsFiniteSet(1..MaxConnects) /\ IsFiniteSet(1..MaxAttempts)
  BY SessionAssumption, FS_Interval
<1>2. IsFiniteSet(Connections \X (1..MaxAttempts))
  BY <1>1, FS_Product DEF Connections
<1>3. Left(f) \in SUBSET (Connections \X (1..MaxAttempts))
  BY DEF Left
<1>4. IsFiniteSet(Left(f))
  BY <1>2, <1>3, FS_Subset
<1> QED BY <1>4, FS_CardinalityType

LEMMA RowSize ==
  ASSUME NEW c, NEW a \in Nat
  PROVE  /\ IsFiniteSet({c} \X ((a + 1)..MaxAttempts))
         /\ Cardinality({c} \X ((a + 1)..MaxAttempts)) =
              IF a + 1 > MaxAttempts THEN 0 ELSE MaxAttempts - a
<1> DEFINE S == {c}
           T == (a + 1)..MaxAttempts
           n == IF a + 1 > MaxAttempts THEN 0 ELSE MaxAttempts - a
<1>1. IsFiniteSet(S) /\ Cardinality(S) = 1
  BY FS_Singleton
<1>2. IsFiniteSet(T) /\ Cardinality(T) = n /\ n \in Nat
  <2>1. a + 1 \in Int /\ MaxAttempts \in Int
    BY SessionAssumption
  <2>2. IsFiniteSet(T) /\ Cardinality(T) = IF a + 1 > MaxAttempts THEN 0 ELSE MaxAttempts - (a + 1) + 1
    BY <2>1, FS_Interval
  <2> QED BY <2>2, SessionAssumption
<1> HIDE DEF S, T, n
<1>3. IsFiniteSet(S \X T) /\ Cardinality(S \X T) = Cardinality(S) * Cardinality(T)
  BY <1>1, <1>2, FS_Product
<1>4. Cardinality(S \X T) = n
  BY <1>1, <1>2, <1>3
<1> QED BY <1>3, <1>4 DEF S, T, n

LEMMA LeftLess ==
  ASSUME NEW f, NEW g, \A d \in Connections : f[d] \in Nat /\ g[d] \in Nat /\ g[d] >= f[d]
  PROVE  Cardinality(Left(g)) <= Cardinality(Left(f))
<1>1. Left(g) \in SUBSET Left(f)
  BY DEF Left
<1> QED BY <1>1, LeftFinite, FS_Subset

LEMMA LeftOneFewer ==
  ASSUME NEW f, NEW g, \A d \in Connections : f[d] \in Nat /\ g[d] \in Nat,
         NEW c \in Connections, f[c] < MaxAttempts, g[c] >= f[c] + 1,
         \A d \in Connections \ {c} : g[d] >= f[d]
  PROVE  Cardinality(Left(g)) <= Cardinality(Left(f)) - 1
<1> DEFINE x == <<c, f[c] + 1>>
<1>1. x \in Left(f)
  BY SessionAssumption DEF Left
<1>2. Left(g) \in SUBSET (Left(f) \ {x})
  BY SessionAssumption DEF Left
<1> HIDE DEF x
<1>3. /\ IsFiniteSet(Left(f) \ {x})
      /\ Cardinality(Left(f) \ {x}) = Cardinality(Left(f)) - 1
  BY <1>1, LeftFinite, FS_RemoveElement
<1> QED BY <1>2, <1>3, LeftFinite, FS_Subset

\* A set of which a part is replaced by something of at most n elements.
LEMMA Replaced ==
  ASSUME NEW S, IsFiniteSet(S), NEW A, A \subseteq S, NEW B, IsFiniteSet(B), NEW T,
         T \subseteq (S \ A) \cup B
  PROVE  Cardinality(T) <= Cardinality(S) - Cardinality(A) + Cardinality(B)
<1>1. S \cap A = A
  OBVIOUS
<1>2. IsFiniteSet(S \ A) /\ Cardinality(S \ A) = Cardinality(S) - Cardinality(A)
  BY <1>1, FS_Difference
<1>3. /\ IsFiniteSet((S \ A) \cup B)
      /\ Cardinality((S \ A) \cup B) =
           Cardinality(S \ A) + Cardinality(B) - Cardinality((S \ A) \cap B)
  BY <1>2, FS_Union
<1>4. Cardinality((S \ A) \cap B) \in Nat
  BY <1>2, FS_Intersection, FS_CardinalityType
<1>5. IsFiniteSet(T) /\ Cardinality(T) <= Cardinality((S \ A) \cup B)
  BY <1>3, FS_Subset
<1>6. /\ Cardinality(S) \in Nat /\ Cardinality(B) \in Nat /\ Cardinality(T) \in Nat
      /\ Cardinality(S \ A) \in Nat /\ Cardinality((S \ A) \cup B) \in Nat
  BY <1>2, <1>3, <1>5, FS_CardinalityType
<1>7. IsFiniteSet(A) /\ Cardinality(A) \in Nat
  BY FS_Subset, FS_CardinalityType
<1> QED BY <1>2, <1>3, <1>4, <1>5, <1>6, <1>7

LEMMA LeftRefill ==
  ASSUME NEW f, NEW g, \A d \in Connections : f[d] \in Nat /\ g[d] \in Nat,
         NEW c \in Connections, \A d \in Connections \ {c} : g[d] >= f[d]
  PROVE  Cardinality(Left(g)) <= Cardinality(Left(f)) + MaxAttempts
<1> DEFINE B == {c} \X ((0 + 1)..MaxAttempts)
<1>1. Left(g) \subseteq (Left(f) \ {}) \cup B
  BY SessionAssumption DEF Left
<1>2. IsFiniteSet(B) /\ Cardinality(B) = MaxAttempts
  <2>1. Cardinality(B) = IF 0 + 1 > MaxAttempts THEN 0 ELSE MaxAttempts - 0
    BY RowSize
  <2>2. IsFiniteSet(B)
    BY RowSize
  <2> QED BY <2>1, <2>2, SessionAssumption
<1> HIDE DEF B
<1>3. Cardinality({}) = 0
  BY FS_EmptySet
<1>4. Cardinality(Left(g)) <= Cardinality(Left(f)) - Cardinality({}) + Cardinality(B)
  BY <1>1, <1>2, LeftFinite, Replaced
<1>5. Cardinality(Left(f)) \in Nat /\ Cardinality(Left(g)) \in Nat
  BY LeftFinite
<1> QED BY <1>2, <1>3, <1>4, <1>5, SessionAssumption

\* What was left to c is left to d instead.
LEMMA LeftHandOver ==
  ASSUME NEW f, NEW g, \A e \in Connections : f[e] \in Nat /\ g[e] \in Nat,
         NEW c \in Connections, NEW d \in Connections \ {c},
         g[c] >= MaxAttempts, g[d] >= f[c],
         \A e \in Connections \ {c, d} : g[e] >= f[e]
  PROVE  Cardinality(Left(g)) <= Cardinality(Left(f))
<1> DEFINE A == {c} \X ((f[c] + 1)..MaxAttempts)
           B == {d} \X ((f[c] + 1)..MaxAttempts)
<1>1. A \subseteq Left(f)
  BY SessionAssumption DEF Left
<1>2. Left(g) \subseteq (Left(f) \ A) \cup B
  <2> SUFFICES ASSUME NEW u \in Left(g) PROVE u \in (Left(f) \ A) \cup B
    OBVIOUS
  <2>1. PICK e \in Connections, k \in 1..MaxAttempts : u = <<e, k>> /\ g[e] < k
    BY DEF Left
  <2>2. e # c
    BY <2>1, SessionAssumption
  <2>3. CASE e = d
    BY <2>1, <2>3, SessionAssumption
  <2>4. CASE e # d
    BY <2>1, <2>2, <2>4, SessionAssumption DEF Left
  <2> QED BY <2>3, <2>4
<1>3. IsFiniteSet(B) /\ Cardinality(A) = Cardinality(B) /\ Cardinality(A) \in Nat
  <2>1. f[c] \in Nat
    OBVIOUS
  <2> QED BY <2>1, RowSize, FS_CardinalityType
<1> HIDE DEF A, B
<1>4. Cardinality(Left(g)) <= Cardinality(Left(f)) - Cardinality(A) + Cardinality(B)
  BY <1>1, <1>2, <1>3, LeftFinite, Replaced
<1>5. Cardinality(Left(f)) \in Nat /\ Cardinality(Left(g)) \in Nat
  BY LeftFinite
<1> QED BY <1>3, <1>4, <1>5

-----------------------------------------------------------------------------
(* The first unused connection is one. *)

LEMMA NextFreeIsUnused == ASSUME Unused # {} PROVE NextFree \in Unused
<1> DEFINE less == {p \in Nat \X Nat : p[1] < p[2]}
<1>1. IsWellFoundedOn(less, Nat)
  BY NatLessThanWellFounded DEF OpToRel
<1>2. Unused \subseteq Nat
  BY DEF Unused, Connections
<1>3. PICK x \in Unused : \A y \in Unused : ~(<<y, x>> \in less)
  <2> HIDE DEF less
  <2> QED BY <1>1, <1>2, WFMin
<1>4. ASSUME NEW y \in Unused PROVE x <= y
  <2>1. x \in Nat /\ y \in Nat /\ <<y, x>> \notin less
    BY <1>2, <1>3
  <2>2. ~(y < x)
    BY <2>1
  <2> QED BY <2>1, <2>2
<1> QED BY <1>4 DEF NextFree

-----------------------------------------------------------------------------
(* The invariant. *)

Steps == {"free", "claim", "load", "start", "live", "write", "flush", "timer", "done"}

Conn == [step: Steps, instance: Instances \cup {"none"}, carry: 0..MaxAttempts,
         attempts: 0..MaxAttempts, once: BOOLEAN, keys: {"none", "scanned", "loaded"},
         heartbeat: BOOLEAN, opening: {"no", "write", "flush"},
         outcome: Statuses \cup {"none"}, expects: BOOLEAN]

Request == [step: {"new", "connect", "disconnect", "logout", "end", "unlink",
                   "writeDisconnect", "writeLogout", "done"},
            instance: Instances \cup {"none"}, conn: 0..MaxConnects]

\* What is true of a call n of connect(), p being whether the row has keys.
Fits(n, p) ==
  /\ n.step \notin {"free", "done"} => n.instance \in Instances
  /\ n.step \in {"free", "claim", "load", "start"} => n.opening = "no" /\ ~n.once
  /\ n.heartbeat => n.step = "live"
  /\ n.step = "write" => n.outcome # "none"
  /\ n.step = "write" /\ n.outcome = "RECONNECTING" => n.attempts < MaxAttempts /\ n.keys # "none"
  /\ n.step \in {"flush", "timer"} => n.attempts < MaxAttempts /\ n.keys # "none"
  /\ n.opening # "no" => n.keys # "none"
  /\ n.once => n.keys = "loaded"
  /\ n.expects => /\ p
                  /\ n.step \notin {"claim", "load"} => n.keys # "none"
                  /\ n.step = "start" => n.keys = "loaded"

\* The attempts used by n and by the connections before it.
Used(n) ==
  IF n.step \in {"claim", "load", "start"} THEN (IF n.carry = 0 THEN MaxAttempts ELSE n.carry)
  ELSE IF n.step = "live" \/ (n.step = "write" /\ n.outcome = "RECONNECTING") THEN n.attempts
  ELSE IF n.step \in {"flush", "timer"} THEN n.attempts + 1
  ELSE MaxAttempts

UsedUp == [c \in Connections |-> Used(conn[c])]

\* The entry in the map of a process is a live socket of its own.
ActiveOK(i) ==
  active[i] # 0 => /\ active[i] \in Connections
                   /\ Live(active[i]) /\ conn[active[i]].instance = i

\* A socket that is alive or has been.
Past == {"live", "write", "flush", "timer", "done"}

\* The connection that a request waits for.
RequestOK(q) ==
  request[q].step \in {"end", "unlink"} =>
    /\ request[q].instance \in Instances /\ request[q].conn \in Connections
    /\ conn[request[q].conn].step \in Past
    /\ Live(request[q].conn) => conn[request[q].conn].instance = request[q].instance

SessionInvariant ==
  /\ SessionTypeOK
  /\ \A c \in Connections : Fits(conn[c], paired)
  /\ \A i \in Instances : ActiveOK(i)
  /\ \A q \in Requests : RequestOK(q)
  /\ spare >= Cardinality(Left(UsedUp))

LEMMA Shape ==
  ASSUME SessionInvariant
  PROVE  /\ status \in Statuses /\ paired \in BOOLEAN /\ fresh \in BOOLEAN
         /\ owner \in Instances \cup {"none"}
         /\ process \in [Instances -> {"new", "restoring", "running", "stopping", "gone"}]
         /\ active \in [Instances -> 0..MaxConnects]
         /\ conn \in [Connections -> Conn] /\ request \in [Requests -> Request]
         /\ spare \in Int /\ lapses \in 0..MaxLapses /\ faults \in 0..MaxFaults
         /\ \A c \in Connections : conn[c] \in Conn /\ Fits(conn[c], paired)
  BY DEF SessionInvariant, SessionTypeOK, Conn, Request, Steps

LEMMA UsedType == ASSUME NEW n \in Conn PROVE Used(n) \in Nat
  BY SessionAssumption DEF Used, Conn

LEMMA SessionInitially == Init => SessionInvariant
<1> SUFFICES ASSUME Init PROVE SessionInvariant
  OBVIOUS
<1>1. NoConn \in Conn /\ NoConn.step = "free" /\ Fits(NoConn, FALSE) /\ Used(NoConn) = MaxAttempts
  BY SessionAssumption DEF NoConn, Conn, Steps, Fits, Used
<1>2. \A c \in Connections : conn[c] = NoConn
  BY DEF Init
<1>3. conn \in [Connections -> Conn] /\ request \in [Requests -> Request]
  BY <1>1, SessionAssumption DEF Init, Request
<1>4. SessionTypeOK
  <2>1. /\ status \in Statuses /\ paired \in BOOLEAN /\ fresh \in BOOLEAN
        /\ owner \in Instances \cup {"none"}
        /\ process \in [Instances -> {"new", "restoring", "running", "stopping", "gone"}]
    BY DEF Init, Statuses
  <2>2. /\ active \in [Instances -> 0..MaxConnects]
        /\ spare \in Int /\ lapses \in 0..MaxLapses /\ faults \in 0..MaxFaults
    BY SessionAssumption DEF Init
  <2> QED BY <1>3, <2>1, <2>2 DEF SessionTypeOK, Conn, Request, Steps
<1>5. \A c \in Connections : UsedUp[c] = MaxAttempts
  BY <1>1, <1>2 DEF UsedUp
<1>6. Left(UsedUp) = {}
  BY <1>5, SessionAssumption DEF Left
<1>7. spare >= Cardinality(Left(UsedUp))
  BY <1>6, FS_EmptySet DEF Init
<1>8. \A c \in Connections : Fits(conn[c], paired)
  BY <1>1, <1>2 DEF Init
<1>9. \A i \in Instances : ActiveOK(i)
  BY DEF Init, ActiveOK
<1>10. \A q \in Requests : RequestOK(q)
  BY DEF Init, RequestOK
<1> QED BY <1>4, <1>7, <1>8, <1>9, <1>10 DEF SessionInvariant

-----------------------------------------------------------------------------
(* What a step has to show. *)

\* A socket that is alive stays where it is, and none comes back.
Follows(old, new) ==
  old.step \in Past =>
    /\ new.step \in Past
    /\ new.step = "live" => old.step = "live" /\ new.instance = old.instance

Good(d) == conn'[d] \in Conn /\ Fits(conn'[d], paired') /\ Follows(conn[d], conn'[d])

\* The step does nothing to d, but it may no longer count on its keys.
Keeps(d) ==
  /\ conn'[d] = conn[d] \/ conn'[d] = [conn[d] EXCEPT !.expects = FALSE]
  /\ conn'[d].expects => paired'

RestTyped ==
  /\ status' \in Statuses /\ paired' \in BOOLEAN /\ fresh' \in BOOLEAN
  /\ owner' \in Instances \cup {"none"}
  /\ process' \in [Instances -> {"new", "restoring", "running", "stopping", "gone"}]
  /\ active' \in [Instances -> 0..MaxConnects]
  /\ conn' = [d \in Connections |-> conn'[d]]
  /\ request' = [q \in Requests |-> request'[q]]
  /\ spare' \in Int /\ lapses' \in 0..MaxLapses /\ faults' \in 0..MaxFaults

ActiveGoes ==
  \A i \in Instances :
    \/ active'[i] = 0
    \/ active'[i] = active[i] /\ conn'[active[i]].step = "live"
    \/ ActiveOK(i)'

RequestsGo ==
  \A q \in Requests :
    \/ request'[q] = request[q]
    \/ request'[q] \in Request /\ RequestOK(q)'

LEMMA KeptIsGood ==
  ASSUME SessionInvariant, NEW d \in Connections, Keeps(d)
  PROVE  /\ Good(d) /\ Used(conn'[d]) = Used(conn[d])
         /\ conn'[d].step = conn[d].step /\ conn'[d].instance = conn[d].instance
<1>1. conn[d] \in Conn /\ Fits(conn[d], paired)
  BY Shape
<1>2. /\ conn'[d] \in Conn /\ conn'[d].step = conn[d].step
      /\ conn'[d].instance = conn[d].instance /\ conn'[d].carry = conn[d].carry
      /\ conn'[d].attempts = conn[d].attempts /\ conn'[d].once = conn[d].once
      /\ conn'[d].keys = conn[d].keys /\ conn'[d].heartbeat = conn[d].heartbeat
      /\ conn'[d].opening = conn[d].opening /\ conn'[d].outcome = conn[d].outcome
      /\ conn'[d].expects => conn[d].expects
  BY <1>1 DEF Keeps, Conn
<1>3. Used(conn'[d]) = Used(conn[d]) /\ Follows(conn[d], conn'[d])
  BY <1>2 DEF Used, Follows
<1>4. Fits(conn'[d], paired')
  BY <1>1, <1>2 DEF Fits, Keeps
<1> QED BY <1>2, <1>3, <1>4 DEF Good

LEMMA Assembled ==
  ASSUME SessionInvariant, RestTyped, ActiveGoes, RequestsGo,
         \A d \in Connections : Good(d),
         spare' >= Cardinality(Left(UsedUp'))
  PROVE  SessionInvariant'
<1>1. conn' \in [Connections -> Conn]
  BY DEF RestTyped, Good
<1>2. request' \in [Requests -> Request]
  BY Shape DEF RequestsGo, RestTyped
<1>3. SessionTypeOK'
  BY <1>1, <1>2 DEF RestTyped, SessionTypeOK, Conn, Request, Steps
<1>4. ASSUME NEW i \in Instances PROVE ActiveOK(i)'
  <2>1. CASE active'[i] = active[i] /\ active[i] # 0 /\ conn'[active[i]].step = "live"
    <3>1. active[i] \in Connections /\ Live(active[i]) /\ conn[active[i]].instance = i
      BY <2>1 DEF SessionInvariant, ActiveOK
    <3>2. Follows(conn[active[i]], conn'[active[i]])
      BY <3>1 DEF Good
    <3> QED BY <2>1, <3>1, <3>2 DEF ActiveOK, Follows, Live, Past
  <2> QED BY <2>1 DEF ActiveGoes, ActiveOK
<1>5. ASSUME NEW q \in Requests PROVE RequestOK(q)'
  <2>1. CASE request'[q] = request[q] /\ request[q].step \in {"end", "unlink"}
    <3>1. /\ request[q].conn \in Connections /\ request[q].instance \in Instances
          /\ conn[request[q].conn].step \in Past
          /\ Live(request[q].conn) => conn[request[q].conn].instance = request[q].instance
      BY <2>1 DEF SessionInvariant, RequestOK
    <3>2. Follows(conn[request[q].conn], conn'[request[q].conn])
      BY <3>1 DEF Good
    <3> QED BY <2>1, <3>1, <3>2 DEF RequestOK, Follows, Live
  <2> QED BY <2>1 DEF RequestsGo, RequestOK
<1> QED BY <1>3, <1>4, <1>5 DEF SessionInvariant, Good

\* How a step that is about one connection, or about none, pays for it.
Pays(c) ==
  \/ spare' = spare /\ (c \in Connections => Used(conn'[c]) >= Used(conn[c]))
  \/ spare' = spare + MaxAttempts
  \/ /\ spare' = spare - 1 /\ c \in Connections
     /\ Used(conn[c]) < MaxAttempts /\ Used(conn'[c]) >= Used(conn[c]) + 1

LEMMA OneConnection ==
  ASSUME SessionInvariant, NEW c, RestTyped, ActiveGoes, RequestsGo, Pays(c),
         \A d \in Connections \ {c} : Keeps(d),
         c \in Connections => Good(c)
  PROVE  SessionInvariant'
<1>1. \A d \in Connections : Good(d)
  BY KeptIsGood
<1>2. \A d \in Connections \ {c} : Used(conn'[d]) = Used(conn[d])
  BY KeptIsGood
<1>3. \A d \in Connections : UsedUp[d] = Used(conn[d]) /\ UsedUp'[d] = Used(conn'[d])
  BY DEF UsedUp
<1>4. \A d \in Connections : UsedUp[d] \in Nat /\ UsedUp'[d] \in Nat
  BY <1>1, <1>3, Shape, UsedType DEF Good
<1> DEFINE f == UsedUp
           g == UsedUp'
<1>5. /\ Cardinality(Left(f)) \in Nat /\ Cardinality(Left(g)) \in Nat
      /\ spare \in Int /\ spare >= Cardinality(Left(f)) /\ MaxAttempts \in Nat
  BY LeftFinite, Shape, SessionAssumption DEF SessionInvariant
<1>6. spare' >= Cardinality(Left(g))
  <2>1. CASE spare' = spare /\ (c \in Connections => Used(conn'[c]) >= Used(conn[c]))
    <3>1. \A d \in Connections : f[d] \in Nat /\ g[d] \in Nat /\ g[d] >= f[d]
      BY <1>2, <1>3, <1>4, <2>1
    <3> HIDE DEF f, g
    <3>2. Cardinality(Left(g)) <= Cardinality(Left(f))
      BY <3>1, LeftLess
    <3> QED BY <1>5, <2>1, <3>2
  <2>2. CASE spare' = spare + MaxAttempts
    <3>1. \A d \in Connections : f[d] \in Nat /\ g[d] \in Nat
      BY <1>4
    <3>2. \A d \in Connections \ {c} : g[d] >= f[d]
      BY <1>2, <1>3, <1>4
    <3> HIDE DEF f, g
    <3>3. Cardinality(Left(g)) <= Cardinality(Left(f)) + MaxAttempts
      <4>1. CASE c \in Connections
        BY <3>1, <3>2, <4>1, LeftRefill
      <4>2. CASE c \notin Connections
        <5>1. Cardinality(Left(g)) <= Cardinality(Left(f))
          BY <3>1, <3>2, <4>2, LeftLess
        <5> QED BY <1>5, <5>1
      <4> QED BY <4>1, <4>2
    <3> QED BY <1>5, <2>2, <3>3
  <2>3. CASE /\ spare' = spare - 1 /\ c \in Connections
             /\ Used(conn[c]) < MaxAttempts /\ Used(conn'[c]) >= Used(conn[c]) + 1
    <3>1. \A d \in Connections : f[d] \in Nat /\ g[d] \in Nat
      BY <1>4
    <3>2. \A d \in Connections \ {c} : g[d] >= f[d]
      BY <1>2, <1>3, <1>4
    <3>3. c \in Connections /\ f[c] < MaxAttempts /\ g[c] >= f[c] + 1
      BY <1>3, <2>3
    <3> HIDE DEF f, g
    <3>4. Cardinality(Left(g)) <= Cardinality(Left(f)) - 1
      BY <3>1, <3>2, <3>3, LeftOneFewer
    <3> QED BY <1>5, <2>3, <3>4
  <2> QED BY <2>1, <2>2, <2>3 DEF Pays
<1> QED BY <1>1, <1>6, Assembled

\* Steps that take nothing back.
LEMMA NothingGained ==
  ASSUME SessionInvariant, RestTyped, ActiveGoes, RequestsGo, UNCHANGED spare,
         \A d \in Connections : Good(d) /\ Used(conn'[d]) >= Used(conn[d])
  PROVE  SessionInvariant'
<1> DEFINE f == UsedUp
           g == UsedUp'
<1>1. \A d \in Connections : f[d] = Used(conn[d]) /\ g[d] = Used(conn'[d])
  BY DEF UsedUp
<1>2. \A d \in Connections : f[d] \in Nat /\ g[d] \in Nat /\ g[d] >= f[d]
  BY <1>1, Shape, UsedType DEF Good
<1>3. spare' >= Cardinality(Left(g))
  <2>1. /\ Cardinality(Left(f)) \in Nat /\ Cardinality(Left(g)) \in Nat
        /\ spare \in Int /\ spare >= Cardinality(Left(f))
    BY LeftFinite, Shape DEF SessionInvariant
  <2> HIDE DEF f, g
  <2>2. Cardinality(Left(g)) <= Cardinality(Left(f))
    BY <1>2, LeftLess
  <2> QED BY <2>1, <2>2
<1> QED BY <1>3, Assembled

\* A connection that is over leaves its attempts to another one.
LEMMA TwoConnections ==
  ASSUME SessionInvariant, RestTyped, ActiveGoes, RequestsGo, UNCHANGED spare,
         NEW c \in Connections, NEW d \in Connections \ {c}, Good(c), Good(d),
         Used(conn'[c]) >= MaxAttempts, Used(conn'[d]) >= Used(conn[c]),
         \A e \in Connections \ {c, d} : Keeps(e)
  PROVE  SessionInvariant'
<1> DEFINE f == UsedUp
           g == UsedUp'
<1>1. \A e \in Connections : f[e] = Used(conn[e]) /\ g[e] = Used(conn'[e])
  BY DEF UsedUp
<1>2. \A e \in Connections : Good(e)
  BY KeptIsGood
<1>3. \A e \in Connections : f[e] \in Nat /\ g[e] \in Nat
  BY <1>1, <1>2, Shape, UsedType DEF Good
<1>4. g[c] >= MaxAttempts /\ g[d] >= f[c]
  BY <1>1
<1>5. \A e \in Connections \ {c, d} : g[e] >= f[e]
  BY <1>1, <1>3, KeptIsGood
<1>6. spare' >= Cardinality(Left(g))
  <2>1. /\ Cardinality(Left(f)) \in Nat /\ Cardinality(Left(g)) \in Nat
        /\ spare \in Int /\ spare >= Cardinality(Left(f))
    BY LeftFinite, Shape DEF SessionInvariant
  <2> HIDE DEF f, g
  <2>2. Cardinality(Left(g)) <= Cardinality(Left(f))
    BY <1>3, <1>4, <1>5, LeftHandOver
  <2> QED BY <2>1, <2>2
<1> QED BY <1>2, <1>6, Assembled

LEMMA Unmoved ==
  ASSUME SessionInvariant, UNCHANGED <<conn, paired>>
  PROVE  conn' = [d \in Connections |-> conn'[d]] /\ \A d \in Connections : Keeps(d)
<1>1. conn \in [Connections -> Conn] /\ \A d \in Connections : conn[d].expects => paired
  BY Shape DEF Fits
<1> QED BY <1>1 DEF Keeps

\* One connection changes, and the row keeps its keys.
LEMMA Changed ==
  ASSUME SessionInvariant, NEW c \in Connections, NEW new, UNCHANGED paired,
         conn' = [conn EXCEPT ![c] = new]
  PROVE  /\ conn' = [d \in Connections |-> conn'[d]] /\ conn'[c] = new
         /\ \A d \in Connections \ {c} : Keeps(d)
<1>1. conn \in [Connections -> Conn] /\ \A d \in Connections : conn[d].expects => paired
  BY Shape DEF Fits
<1> QED BY <1>1 DEF Keeps

\* The keys are replaced by those of c.
LEMMA KeysReplaced ==
  ASSUME SessionInvariant, NEW c \in Connections, NEW cs,
         \A d \in Connections \ {c} : cs[d] = conn[d], Replace(c, cs)
  PROVE  /\ conn' = [d \in Connections |-> conn'[d]] /\ conn'[c] = cs[c]
         /\ \A d \in Connections \ {c} : Keeps(d)
         /\ paired' \in BOOLEAN /\ (paired' <=> conn[c].keys # "none")
<1>1. /\ paired' = (conn[c].keys # "none")
      /\ conn' = [d \in Connections |-> IF d = c THEN cs[d] ELSE [cs[d] EXCEPT !.expects = FALSE]]
  BY DEF Replace
<1>2. conn' = [d \in Connections |-> conn'[d]] /\ conn'[c] = cs[c]
  BY <1>1
<1>3. ASSUME NEW d \in Connections \ {c} PROVE Keeps(d)
  <2>1. conn'[d] = [conn[d] EXCEPT !.expects = FALSE] /\ conn[d] \in Conn
    BY <1>1, Shape
  <2>2. ~conn'[d].expects
    BY <2>1 DEF Conn
  <2> QED BY <2>1, <2>2 DEF Keeps
<1> QED BY <1>1, <1>2, <1>3

LEMMA ActiveStays ==
  ASSUME SessionInvariant, NEW c, \A d \in Connections \ {c} : Keeps(d), UNCHANGED active,
         c \in Connections /\ Live(c) => conn'[c].step = "live"
  PROVE  ActiveGoes
<1> SUFFICES ASSUME NEW i \in Instances, active[i] # 0 PROVE conn'[active[i]].step = "live"
  BY DEF ActiveGoes
<1>1. active[i] \in Connections /\ Live(active[i])
  BY DEF SessionInvariant, ActiveOK
<1> QED BY <1>1, KeptIsGood DEF Live

LEMMA ActiveCleared ==
  ASSUME SessionInvariant, NEW c \in Connections, NEW i \in Instances,
         \A d \in Connections \ {c} : Keeps(d), active' = [active EXCEPT ![i] = 0],
         Live(c) => conn'[c].step = "live" \/ conn[c].instance = i
  PROVE  ActiveGoes
<1>0. active \in [Instances -> 0..MaxConnects]
  BY Shape
<1> SUFFICES ASSUME NEW j \in Instances \ {i}, active[j] # 0
             PROVE  active'[j] = active[j] /\ conn'[active[j]].step = "live"
  BY <1>0 DEF ActiveGoes
<1>1. active[j] \in Connections /\ Live(active[j]) /\ conn[active[j]].instance = j
  BY DEF SessionInvariant, ActiveOK
<1> QED BY <1>0, <1>1, KeptIsGood DEF Live

\* A request that waits for no connection.
LEMMA RequestGone ==
  ASSUME SessionInvariant, NEW q \in Requests, NEW new \in Request,
         request' = [request EXCEPT ![q] = new], new.step \notin {"end", "unlink"}
  PROVE  RequestsGo /\ request' = [p \in Requests |-> request'[p]]
<1>1. request \in [Requests -> Request]
  BY Shape
<1> QED BY <1>1 DEF RequestsGo, RequestOK

LEMMA GotoGone ==
  ASSUME SessionInvariant, NEW q \in Requests, NEW step, Goto(q, step),
         step \in {"new", "connect", "disconnect", "logout", "writeDisconnect", "writeLogout", "done"}
  PROVE  RequestsGo /\ request' = [p \in Requests |-> request'[p]]
<1> DEFINE new == [request[q] EXCEPT !.step = step]
<1>1. request \in [Requests -> Request]
  BY Shape
<1>2. new \in Request /\ new.step = step
  BY <1>1 DEF Request
<1>3. request' = [request EXCEPT ![q] = new]
  BY <1>1 DEF Goto
<1> HIDE DEF new
<1> QED BY <1>2, <1>3, RequestGone

LEMMA RequestsStay ==
  ASSUME SessionInvariant, UNCHANGED request
  PROVE  RequestsGo /\ request' = [p \in Requests |-> request'[p]]
  BY Shape DEF RequestsGo

LEMMA ClosingOK ==
  ASSUME SessionInvariant, NEW c \in Connections, Live(c), NEW reason,
         reason = "restartRequired" => conn[c].keys # "none",
         reason \in {"loggedOut", "restartRequired", "lost"}
  PROVE  /\ Closing(c, reason) \in Conn /\ Closing(c, reason).step = "write"
         /\ \A p \in BOOLEAN : (conn[c].expects => p) => Fits(Closing(c, reason), p)
         /\ Follows(conn[c], Closing(c, reason))
         /\ Used(Closing(c, reason)) >= Used(conn[c])
<1> DEFINE out == Outcome(c, reason)
           new == [conn[c] EXCEPT !.step = "write", !.heartbeat = FALSE, !.outcome = out]
<1>1. conn[c] \in Conn /\ Fits(conn[c], paired) /\ conn[c].step = "live"
  BY Shape DEF Live
<1>2. out \in {"LOGGED_OUT", "QR_EXPIRED", "ERROR", "RECONNECTING"}
  BY DEF Outcome
<1>3. out = "RECONNECTING" => conn[c].attempts < MaxAttempts /\ conn[c].keys # "none"
  BY <1>1, SessionAssumption DEF Outcome, Fits, Conn
<1> HIDE DEF out
<1>4. /\ new \in Conn /\ new.step = "write" /\ new.outcome = out /\ ~new.heartbeat
      /\ new.instance = conn[c].instance /\ new.carry = conn[c].carry
      /\ new.attempts = conn[c].attempts /\ new.once = conn[c].once
      /\ new.keys = conn[c].keys /\ new.opening = conn[c].opening
      /\ new.expects = conn[c].expects
  BY <1>1, <1>2 DEF Conn, Steps, Statuses
<1> HIDE DEF new
<1>5. \A p \in BOOLEAN : (conn[c].expects => p) => Fits(new, p)
  BY <1>1, <1>2, <1>3, <1>4 DEF Fits
<1>6. Used(new) >= Used(conn[c])
  BY <1>1, <1>4, SessionAssumption DEF Used, Conn
<1>7. Follows(conn[c], new)
  BY <1>4 DEF Follows, Past
<1> QED BY <1>4, <1>5, <1>6, <1>7 DEF Closing, new, out

LEMMA AfterCloseOK ==
  ASSUME SessionInvariant, NEW c \in Connections
  PROVE  /\ AfterClose(c) \in Conn /\ AfterClose(c).step = "done"
         /\ \A p : Fits(AfterClose(c), p)
         /\ Used(AfterClose(c)) = MaxAttempts /\ ~AfterClose(c).expects
         /\ [AfterClose(c) EXCEPT !.expects = FALSE] = AfterClose(c)
<1>1. conn[c] \in Conn /\ Fits(conn[c], paired)
  BY Shape
<1>2. /\ Over \in Conn /\ Over.step = "done" /\ ~Over.expects /\ ~Over.heartbeat
      /\ ~Over.once /\ Over.opening = "no"
  <2>1. NoConn \in Conn /\ ~NoConn.expects /\ ~NoConn.heartbeat /\ ~NoConn.once /\ NoConn.opening = "no"
    BY SessionAssumption DEF NoConn, Conn, Steps
  <2> QED BY <2>1 DEF Over, Conn, Steps
<1> DEFINE new == [Over EXCEPT !.instance = conn[c].instance, !.keys = conn[c].keys,
                               !.opening = conn[c].opening]
<1>3. /\ new \in Conn /\ new.step = "done" /\ ~new.expects /\ ~new.heartbeat /\ ~new.once
      /\ new.keys = conn[c].keys /\ new.opening = conn[c].opening
  BY <1>1, <1>2 DEF Conn
<1>4. AfterClose(c) = IF conn[c].opening = "no" THEN Over ELSE new
  BY DEF AfterClose
<1> HIDE DEF new
<1> DEFINE n == AfterClose(c)
<1>5. n \in Conn /\ n.step = "done" /\ ~n.expects /\ ~n.heartbeat /\ ~n.once /\ (n.opening # "no" => n.keys # "none")
  BY <1>1, <1>2, <1>3, <1>4 DEF Fits
<1> HIDE DEF n
<1>6. (\A p : Fits(n, p)) /\ Used(n) = MaxAttempts
  BY <1>5 DEF Fits, Used
<1>7. [n EXCEPT !.expects = FALSE] = n
  BY <1>5 DEF Conn
<1> QED BY <1>5, <1>6, <1>7 DEF n

LEMMA OverOK ==
  /\ Over \in Conn /\ Over.step = "done" /\ Used(Over) = MaxAttempts
  /\ \A p : Fits(Over, p)
<1>1. /\ NoConn \in Conn /\ ~NoConn.expects /\ ~NoConn.heartbeat /\ ~NoConn.once
      /\ NoConn.opening = "no"
  BY SessionAssumption DEF NoConn, Conn, Steps
<1>2. /\ Over \in Conn /\ Over.step = "done" /\ ~Over.expects /\ ~Over.heartbeat
      /\ ~Over.once /\ Over.opening = "no"
  BY <1>1 DEF Over, Conn, Steps
<1> QED BY <1>2 DEF Fits, Used

\* The entry in the map gets the attempts of another connection.
LEMMA GivenOK ==
  ASSUME SessionInvariant, NEW d \in Connections, Live(d), NEW k \in 0..MaxAttempts
  PROVE  LET new == [conn[d] EXCEPT !.attempts = k]
         IN  /\ new \in Conn /\ Fits(new, paired) /\ Follows(conn[d], new)
             /\ new.step = "live" /\ Used(new) = k
<1> DEFINE new == [conn[d] EXCEPT !.attempts = k]
<1>1. conn[d] \in Conn /\ Fits(conn[d], paired) /\ conn[d].step = "live"
  BY Shape DEF Live
<1>2. /\ new \in Conn /\ new.step = "live" /\ new.attempts = k
      /\ new.instance = conn[d].instance /\ new.once = conn[d].once
      /\ new.heartbeat = conn[d].heartbeat /\ new.keys = conn[d].keys
      /\ new.opening = conn[d].opening /\ new.expects = conn[d].expects
  BY <1>1 DEF Conn
<1> HIDE DEF new
<1>3. Fits(new, paired) /\ Follows(conn[d], new) /\ Used(new) = k
  BY <1>1, <1>2 DEF Fits, Follows, Past, Used
<1> QED BY <1>2, <1>3 DEF new

\* As ActiveStays, for a step of two connections, of which d stays alive and c was not.
LEMMA GivenGoes ==
  ASSUME SessionInvariant, NEW c \in Connections, NEW d, UNCHANGED active,
         conn[c].step # "live", conn'[d].step = "live",
         \A e \in Connections \ {c, d} : Keeps(e)
  PROVE  ActiveGoes
<1> SUFFICES ASSUME NEW j \in Instances, active[j] # 0 PROVE conn'[active[j]].step = "live"
  BY DEF ActiveGoes
<1>1. active[j] \in Connections /\ conn[active[j]].step = "live"
  BY DEF SessionInvariant, ActiveOK, Live
<1> QED BY <1>1, KeptIsGood

-----------------------------------------------------------------------------
(* The steps of a call of connect(). *)

LEMMA ReturnType ==
  ASSUME SessionInvariant, NEW i, Return(i)
  PROVE  process' \in [Instances -> {"new", "restoring", "running", "stopping", "gone"}]
  BY Shape DEF Return

LEMMA LoadAuthStep ==
  ASSUME SessionInvariant, NEW c \in Connections, LoadAuth(c)
  PROVE  SessionInvariant'
<1> DEFINE keys == IF paired THEN "loaded" ELSE "none"
           new == [conn[c] EXCEPT !.step = "start", !.keys = keys]
<1>1. conn[c] \in Conn /\ Fits(conn[c], paired) /\ conn[c].step = "load"
  BY Shape DEF LoadAuth, At
<1>2. conn' = [conn EXCEPT ![c] = new]
  BY Shape DEF LoadAuth
<1>3. /\ new \in Conn /\ new.step = "start" /\ new.keys = keys
      /\ new.instance = conn[c].instance /\ new.once = conn[c].once
      /\ new.heartbeat = conn[c].heartbeat /\ new.opening = conn[c].opening
      /\ new.expects = conn[c].expects /\ new.carry = conn[c].carry
  BY <1>1 DEF Conn, Steps
<1> HIDE DEF new
<1>4. UNCHANGED <<row, process, active, request, history>>
  BY DEF LoadAuth
<1>5. /\ conn' = [d \in Connections |-> conn'[d]] /\ conn'[c] = new
      /\ \A d \in Connections \ {c} : Keeps(d)
  BY <1>2, <1>4, Changed DEF row
<1>6. Fits(new, paired) /\ Follows(conn[c], new) /\ Used(new) = Used(conn[c])
  BY <1>1, <1>3 DEF Fits, Follows, Past, Used
<1>7. Good(c) /\ Pays(c)
  <2>1. Used(conn[c]) \in Nat
    BY <1>1, UsedType
  <2> QED BY <1>3, <1>4, <1>5, <1>6, <2>1 DEF Good, Pays, row, history
<1>8. RestTyped /\ ActiveGoes /\ RequestsGo
  BY <1>1, <1>4, <1>5, Shape, ActiveStays, RequestsStay DEF RestTyped, row, history, Live
<1> QED BY <1>5, <1>7, <1>8, OneConnection

LEMMA OpenSocketStep ==
  ASSUME SessionInvariant, NEW c \in Connections, OpenSocket(c)
  PROVE  SessionInvariant'
<1> DEFINE i == conn[c].instance
           new == [conn[c] EXCEPT !.step = "live", !.heartbeat = TRUE,
                                  !.attempts = conn[c].carry, !.carry = 0]
<1>1. conn[c] \in Conn /\ Fits(conn[c], paired) /\ conn[c].step = "start"
  BY Shape DEF OpenSocket, At
<1>2. i \in Instances
  BY <1>1 DEF Fits
<1>3. conn' = [conn EXCEPT ![c] = new]
  BY Shape DEF OpenSocket
<1>4. /\ new \in Conn /\ new.step = "live" /\ new.instance = i
      /\ new.keys = conn[c].keys /\ new.attempts = conn[c].carry /\ new.once = conn[c].once
      /\ new.opening = conn[c].opening /\ new.expects = conn[c].expects
  <2>1. 0 \in 0..MaxAttempts /\ conn[c].carry \in 0..MaxAttempts
    BY <1>1, SessionAssumption DEF Conn
  <2> QED BY <1>1, <2>1 DEF Conn, Steps
<1> HIDE DEF new
<1>5. /\ UNCHANGED <<row, request, lapses, faults>> /\ active' = [active EXCEPT ![i] = c]
      /\ spare' = spare + IF conn[c].carry = 0 THEN MaxAttempts ELSE 0
      /\ Return(i)
  BY DEF OpenSocket
<1>6. /\ conn' = [d \in Connections |-> conn'[d]] /\ conn'[c] = new
      /\ \A d \in Connections \ {c} : Keeps(d)
  BY <1>3, <1>5, Changed DEF row
<1>7. Fits(new, paired) /\ Follows(conn[c], new)
  BY <1>1, <1>4 DEF Fits, Follows, Past
<1>8. Pays(c) /\ spare' \in Int
  <2>1. CASE conn[c].carry = 0
    BY <1>5, <2>1, Shape, SessionAssumption DEF Pays
  <2>2. CASE conn[c].carry # 0
    <3>1. Used(new) = Used(conn[c]) /\ Used(new) \in Nat
      BY <1>1, <1>4, <2>2, UsedType DEF Used
    <3>2. spare' = spare
      BY <1>5, <2>2, Shape
    <3> QED BY <1>6, <3>1, <3>2, Shape DEF Pays
  <2> QED BY <2>1, <2>2
<1>9. ActiveGoes
  <2> SUFFICES ASSUME NEW j \in Instances, active'[j] # 0
               PROVE  \/ active'[j] = active[j] /\ conn'[active[j]].step = "live"
                      \/ ActiveOK(j)'
    BY DEF ActiveGoes
  <2>1. active \in [Instances -> 0..MaxConnects]
    BY Shape
  <2>2. CASE j = i
    BY <1>4, <1>5, <1>6, <2>1, <2>2 DEF ActiveOK, Live
  <2>3. CASE j # i
    <3>1. active'[j] = active[j]
      BY <1>5, <2>1, <2>3
    <3>2. active[j] \in Connections /\ conn[active[j]].step = "live"
      BY <3>1 DEF SessionInvariant, ActiveOK, Live
    <3>3. active[j] # c
      BY <1>1, <3>2
    <3> QED BY <1>6, <3>1, <3>2, <3>3, KeptIsGood
  <2> QED BY <2>2, <2>3
<1>10. active' \in [Instances -> 0..MaxConnects]
  <2>1. c \in 0..MaxConnects /\ active \in [Instances -> 0..MaxConnects]
    BY Shape, SessionAssumption DEF Connections
  <2> QED BY <1>5, <2>1
<1>11. RestTyped /\ RequestsGo
  BY <1>5, <1>6, <1>8, <1>10, Shape, ReturnType, RequestsStay DEF RestTyped, row
<1> QED BY <1>4, <1>5, <1>6, <1>7, <1>8, <1>9, <1>11, OneConnection DEF Good, row

\* The timer's call, or one that may not claim the lease, gives its attempts to the entry there is.
LEMMA ClaimLeaseStep ==
  ASSUME SessionInvariant, NEW c \in Connections, ClaimLease(c)
  PROVE  SessionInvariant'
<1> DEFINE i == conn[c].instance
           k == conn[c].carry
<1>1. conn[c] \in Conn /\ Fits(conn[c], paired) /\ conn[c].step = "claim"
  BY Shape DEF ClaimLease, At
<1>2. i \in Instances
  BY <1>1 DEF Fits
<1>3. UNCHANGED <<status, paired, active, request, history>>
  BY DEF ClaimLease
<1>4. CASE MayClaim(i)
  <2> DEFINE new == [conn[c] EXCEPT !.step = "load"]
  <2>1. owner' = i /\ fresh' = TRUE /\ UNCHANGED process /\ conn' = [conn EXCEPT ![c] = new]
    BY <1>4, Shape DEF ClaimLease
  <2>2. /\ new \in Conn /\ new.step = "load"
        /\ new.instance = i /\ new.once = conn[c].once /\ new.carry = conn[c].carry
        /\ new.heartbeat = conn[c].heartbeat /\ new.opening = conn[c].opening
        /\ new.keys = conn[c].keys /\ new.expects = conn[c].expects
    BY <1>1 DEF Conn, Steps
  <2> HIDE DEF new
  <2>3. /\ conn' = [d \in Connections |-> conn'[d]] /\ conn'[c] = new
        /\ \A d \in Connections \ {c} : Keeps(d)
    BY <1>3, <2>1, Changed
  <2>4. Fits(new, paired) /\ Follows(conn[c], new) /\ Used(new) = Used(conn[c]) /\ Used(new) \in Nat
    BY <1>1, <2>2, UsedType DEF Fits, Follows, Past, Used
  <2>5. Good(c) /\ Pays(c)
    BY <1>3, <2>2, <2>3, <2>4 DEF Good, Pays, history
  <2>6. RestTyped /\ ActiveGoes /\ RequestsGo
    BY <1>1, <1>2, <1>3, <2>1, <2>3, Shape, ActiveStays, RequestsStay DEF RestTyped, history, Live
  <2> QED BY <2>3, <2>5, <2>6, OneConnection
<1>5. CASE ~MayClaim(i)
  <2>1. /\ conn' = [d \in Connections |->
             IF d = c THEN Over
             ELSE IF d = active[i] /\ k > 0 THEN [conn[d] EXCEPT !.attempts = k] ELSE conn[d]]
        /\ Return(i) /\ UNCHANGED <<owner, fresh>>
    BY <1>5 DEF ClaimLease
  <2>2. conn' = [d \in Connections |-> conn'[d]] /\ conn'[c] = Over
    BY <2>1
  <2>3. /\ Over \in Conn /\ Fits(Over, paired) /\ Used(Over) = MaxAttempts
        /\ Follows(conn[c], Over)
    BY <1>1, OverOK DEF Follows, Past
  <2>4. Good(c)
    BY <1>3, <2>2, <2>3 DEF Good
  <2>5. active[i] # 0 => active[i] \in Connections \ {c} /\ Live(active[i])
    BY <1>1, <1>2 DEF SessionInvariant, ActiveOK, Live
  <2>6. ASSUME NEW d \in Connections \ {c}, ~(d = active[i] /\ k > 0) PROVE Keeps(d)
    BY <1>3, <2>1, <2>6, Shape DEF Keeps, Fits
  <2>7. RestTyped /\ RequestsGo /\ UNCHANGED spare
    BY <1>3, <2>1, <2>2, Shape, ReturnType, RequestsStay DEF RestTyped, history
  <2>8. CASE active[i] # 0 /\ k > 0
    <3> DEFINE d == active[i]
               new == [conn[d] EXCEPT !.attempts = k]
    <3>1. conn'[d] = new /\ d \in Connections \ {c}
      BY <2>1, <2>5, <2>8
    <3>2. /\ new \in Conn /\ Fits(new, paired) /\ Follows(conn[d], new)
          /\ new.step = "live" /\ Used(new) = k
      BY <1>1, <2>5, <2>8, GivenOK DEF Conn
    <3> HIDE DEF new
    <3>3. Good(d)
      BY <1>3, <3>1, <3>2 DEF Good
    <3>4. Used(conn[c]) = k /\ k \in Nat
      BY <1>1, <2>8 DEF Used, Conn
    <3>5. ActiveGoes
      BY <1>1, <1>2, <1>3, <2>6, <3>1, <3>2, GivenGoes
    <3> HIDE DEF d, k
    <3>6. Used(conn'[d]) >= Used(conn[c]) /\ Used(conn'[c]) >= MaxAttempts
      BY <2>2, <2>3, <3>1, <3>2, <3>4, SessionAssumption
    <3>7. \A e \in Connections \ {c, d} : Keeps(e)
      BY <2>6 DEF d
    <3> QED BY <2>4, <2>7, <3>1, <3>3, <3>5, <3>6, <3>7, TwoConnections
  <2>9. CASE ~(active[i] # 0 /\ k > 0)
    <3>1. \A d \in Connections \ {c} : Keeps(d)
      BY <2>6, <2>9 DEF Connections
    <3>2. Pays(c)
      <4>1. Used(conn[c]) <= MaxAttempts
        BY <1>1, SessionAssumption DEF Used, Conn
      <4>2. Used(conn[c]) \in Nat
        BY <1>1, UsedType
      <4> QED BY <2>2, <2>3, <2>7, <4>1, <4>2, SessionAssumption DEF Pays
    <3>3. ActiveGoes
      BY <1>1, <1>3, <3>1, ActiveStays DEF Live
    <3> QED BY <2>4, <2>7, <3>1, <3>2, <3>3, OneConnection
  <2> QED BY <2>8, <2>9
<1> QED BY <1>4, <1>5

-----------------------------------------------------------------------------
(* Events of a socket. *)

\* Steps that change one connection and leave map, requests and the count alone.
LEMMA LocalStep ==
  ASSUME SessionInvariant, NEW c \in Connections, NEW new \in Conn,
         conn' = [conn EXCEPT ![c] = new],
         UNCHANGED <<paired, process, active, request, spare, lapses>>,
         status' \in Statuses, fresh' \in BOOLEAN, owner' \in Instances \cup {"none"},
         faults' \in 0..MaxFaults,
         Fits(new, paired), Follows(conn[c], new), Live(c) => new.step = "live",
         Used(new) >= Used(conn[c])
  PROVE  SessionInvariant'
<1>1. /\ conn' = [d \in Connections |-> conn'[d]] /\ conn'[c] = new
      /\ \A d \in Connections \ {c} : Keeps(d)
  BY Changed
<1>2. Good(c) /\ Pays(c)
  BY <1>1 DEF Good, Pays
<1>3. RestTyped /\ ActiveGoes /\ RequestsGo
  BY <1>1, Shape, ActiveStays, RequestsStay DEF RestTyped
<1> QED BY <1>1, <1>2, <1>3, OneConnection

\* The same with a write of the keys of this connection.
LEMMA FlushStep ==
  ASSUME SessionInvariant, NEW c \in Connections, NEW cs, Replace(c, cs),
         \A d \in Connections \ {c} : cs[d] = conn[d], cs[c] \in Conn,
         conn[c].keys # "none",
         UNCHANGED <<status, owner, fresh, process, active, request, spare, lapses>>,
         faults' \in 0..MaxFaults,
         Fits(cs[c], TRUE), Follows(conn[c], cs[c]), Live(c) => cs[c].step = "live",
         Used(cs[c]) >= Used(conn[c])
  PROVE  SessionInvariant'
<1>1. /\ conn' = [d \in Connections |-> conn'[d]] /\ conn'[c] = cs[c]
      /\ \A d \in Connections \ {c} : Keeps(d)
      /\ paired' \in BOOLEAN /\ paired'
  BY KeysReplaced
<1>2. Fits(cs[c], paired')
  BY <1>1 DEF Fits
<1>3. Good(c) /\ Pays(c)
  BY <1>1, <1>2 DEF Good, Pays
<1>4. RestTyped /\ ActiveGoes /\ RequestsGo
  BY <1>1, Shape, ActiveStays, RequestsStay DEF RestTyped
<1> QED BY <1>1, <1>3, <1>4, OneConnection

LEMMA QuietStep ==
  ASSUME SessionInvariant, UNCHANGED <<paired, conn, process, active, spare>>,
         status' \in Statuses, fresh' \in BOOLEAN, owner' \in Instances \cup {"none"},
         lapses' \in 0..MaxLapses, faults' \in 0..MaxFaults,
         RequestsGo, request' = [q \in Requests |-> request'[q]]
  PROVE  SessionInvariant'
<1>1. conn' = [d \in Connections |-> conn'[d]] /\ \A d \in Connections : Keeps(d)
  BY Unmoved
<1>2. \A d \in Connections : Good(d) /\ Used(conn'[d]) >= Used(conn[d])
  <2>1. ASSUME NEW d \in Connections PROVE Used(conn[d]) \in Nat
    BY Shape, UsedType
  <2> QED BY <1>1, <2>1, KeptIsGood
<1>3. ActiveGoes
  <2>1. 0 \notin Connections /\ \A d \in Connections \ {0} : Keeps(d)
    BY <1>1 DEF Connections
  <2> QED BY <2>1, ActiveStays
<1>4. RestTyped
  BY <1>1, Shape DEF RestTyped
<1> QED BY <1>2, <1>3, <1>4, NothingGained

LEMMA ShowQrStep ==
  ASSUME SessionInvariant, NEW c \in Connections, ShowQr(c)
  PROVE  SessionInvariant'
<1>1. status' \in Statuses
  BY DEF ShowQr, Statuses
<1> QED BY <1>1, Shape, QuietStep, RequestsStay DEF ShowQr, history

LEMMA ScanStep ==
  ASSUME SessionInvariant, NEW c \in Connections, Scan(c)
  PROVE  SessionInvariant'
<1> DEFINE new == [conn[c] EXCEPT !.keys = "scanned"]
<1>1. conn[c] \in Conn /\ Fits(conn[c], paired) /\ conn[c].step = "live" /\ conn[c].keys = "none"
  BY Shape DEF Scan, Live
<1>2. conn' = [conn EXCEPT ![c] = new]
  BY Shape DEF Scan
<1>3. /\ new \in Conn /\ new.step = "live" /\ new.keys = "scanned"
      /\ new.instance = conn[c].instance /\ new.once = conn[c].once
      /\ new.heartbeat = conn[c].heartbeat /\ new.opening = conn[c].opening
      /\ new.attempts = conn[c].attempts /\ new.expects = conn[c].expects
  BY <1>1 DEF Conn
<1> HIDE DEF new
<1>4. Fits(new, paired) /\ Follows(conn[c], new) /\ Used(new) = Used(conn[c]) /\ Used(new) \in Nat
  BY <1>1, <1>3, UsedType DEF Fits, Follows, Past, Used
<1>5. Used(new) >= Used(conn[c])
  BY <1>4
<1>6. /\ UNCHANGED <<paired, process, active, request, spare, lapses>>
      /\ status' \in Statuses /\ fresh' \in BOOLEAN /\ owner' \in Instances \cup {"none"}
      /\ faults' \in 0..MaxFaults
  BY Shape DEF Scan, row, history
<1> QED BY <1>2, <1>3, <1>4, <1>5, <1>6, LocalStep

LEMMA FlushLaterStep ==
  ASSUME SessionInvariant, NEW c \in Connections, FlushLater(c)
  PROVE  SessionInvariant'
<1>1. /\ conn[c] \in Conn /\ Fits(conn[c], paired) /\ conn[c].keys # "none"
      /\ conn[c].step \in {"live", "write", "flush"}
  BY Shape DEF FlushLater
<1>2. Fits(conn[c], TRUE) /\ Follows(conn[c], conn[c])
  BY <1>1 DEF Fits, Follows
<1>3. Used(conn[c]) >= Used(conn[c])
  <2>1. Used(conn[c]) \in Nat
    BY <1>1, UsedType
  <2> QED BY <2>1
<1>4. /\ Replace(c, conn) /\ faults' \in 0..MaxFaults
      /\ UNCHANGED <<status, owner, fresh, process, active, request, spare, lapses>>
  BY Shape DEF FlushLater, history
<1>5. Live(c) => conn[c].step = "live"
  BY DEF Live
<1> QED BY <1>1, <1>2, <1>3, <1>4, <1>5, FlushStep

LEMMA OpenedStep ==
  ASSUME SessionInvariant, NEW c \in Connections, Opened(c)
  PROVE  SessionInvariant'
<1> DEFINE new == [conn[c] EXCEPT !.attempts = 0, !.once = TRUE, !.opening = "write"]
<1>1. conn[c] \in Conn /\ Fits(conn[c], paired) /\ conn[c].step = "live" /\ conn[c].keys = "loaded"
  BY Shape DEF Opened, Live
<1>2. conn' = [conn EXCEPT ![c] = new] /\ spare' = spare + MaxAttempts
      /\ UNCHANGED <<row, process, active, request, lapses, faults>>
  BY Shape DEF Opened
<1>3. /\ new \in Conn /\ new.step = "live" /\ new.keys = "loaded"
      /\ new.instance = conn[c].instance /\ new.expects = conn[c].expects
  <2>1. 0 \in 0..MaxAttempts
    BY SessionAssumption
  <2> QED BY <1>1, <2>1 DEF Conn
<1> HIDE DEF new
<1>4. Fits(new, paired) /\ Follows(conn[c], new)
  BY <1>1, <1>3 DEF Fits, Follows, Past
<1>5. /\ conn' = [d \in Connections |-> conn'[d]] /\ conn'[c] = new
      /\ \A d \in Connections \ {c} : Keeps(d)
  BY <1>2, Changed DEF row
<1>6. Good(c) /\ Pays(c) /\ spare' \in Int
  BY <1>2, <1>3, <1>4, <1>5, Shape, SessionAssumption DEF Good, Pays, row
<1>7. RestTyped /\ ActiveGoes /\ RequestsGo
  BY <1>2, <1>3, <1>5, <1>6, Shape, ActiveStays, RequestsStay DEF RestTyped, row
<1> QED BY <1>5, <1>6, <1>7, OneConnection

LEMMA FaultType == ASSUME SessionInvariant, UNCHANGED faults \/ Fault PROVE faults' \in 0..MaxFaults
  BY Shape, SessionAssumption DEF Fault

LEMMA WriteConnectedStep ==
  ASSUME SessionInvariant, NEW c \in Connections, WriteConnected(c)
  PROVE  SessionInvariant'
<1> DEFINE new == [conn[c] EXCEPT !.opening = "flush"]
<1>1. conn[c] \in Conn /\ Fits(conn[c], paired) /\ conn[c].opening = "write"
  BY Shape DEF WriteConnected
<1>2. conn' = [conn EXCEPT ![c] = new]
  BY Shape DEF WriteConnected
<1>3. /\ new \in Conn /\ new.opening = "flush" /\ new.step = conn[c].step
      /\ new.instance = conn[c].instance /\ new.once = conn[c].once /\ new.carry = conn[c].carry
      /\ new.heartbeat = conn[c].heartbeat /\ new.keys = conn[c].keys
      /\ new.attempts = conn[c].attempts /\ new.outcome = conn[c].outcome
      /\ new.expects = conn[c].expects
  BY <1>1 DEF Conn
<1> HIDE DEF new
<1>4. Fits(new, paired) /\ Follows(conn[c], new) /\ Used(new) = Used(conn[c]) /\ Used(new) \in Nat
  BY <1>1, <1>3, UsedType DEF Fits, Follows, Past, Used
<1>5. status' \in Statuses /\ faults' \in 0..MaxFaults
  BY Shape, FaultType DEF WriteConnected, Statuses
<1>6. Used(new) >= Used(conn[c]) /\ (Live(c) => new.step = "live")
  BY <1>3, <1>4 DEF Live
<1>7. /\ UNCHANGED <<paired, process, active, request, spare, lapses>>
      /\ fresh' \in BOOLEAN /\ owner' \in Instances \cup {"none"}
  BY Shape DEF WriteConnected
<1> QED BY <1>2, <1>3, <1>4, <1>5, <1>6, <1>7, LocalStep

LEMMA FlushOpenedStep ==
  ASSUME SessionInvariant, NEW c \in Connections, FlushOpened(c)
  PROVE  SessionInvariant'
<1> DEFINE open == [conn[c] EXCEPT !.opening = "no"]
           new == IF At(c, "done") THEN Over ELSE open
           cs == [conn EXCEPT ![c] = IF At(c, "done") THEN Over ELSE [@ EXCEPT !.opening = "no"]]
<1>1. conn \in [Connections -> Conn] /\ conn[c] \in Conn /\ Fits(conn[c], paired) /\ conn[c].opening = "flush"
  BY Shape DEF FlushOpened
<1>2. Replace(c, cs) /\ cs[c] = new /\ \A d \in Connections \ {c} : cs[d] = conn[d]
  BY <1>1 DEF FlushOpened
<1>3. /\ open \in Conn /\ open.opening = "no" /\ open.step = conn[c].step
      /\ open.instance = conn[c].instance /\ open.once = conn[c].once /\ open.carry = conn[c].carry
      /\ open.heartbeat = conn[c].heartbeat /\ open.keys = conn[c].keys
      /\ open.attempts = conn[c].attempts /\ open.outcome = conn[c].outcome
      /\ open.expects = conn[c].expects
  BY <1>1 DEF Conn
<1> HIDE DEF open
<1>4. /\ new \in Conn /\ Fits(new, TRUE) /\ Follows(conn[c], new) /\ Used(new) >= Used(conn[c])
      /\ new.step = conn[c].step
  <2>1. CASE At(c, "done")
    <3>1. Used(conn[c]) = MaxAttempts
      BY <2>1 DEF At, Used
    <3>2. Used(Over) >= Used(conn[c])
      BY <3>1, OverOK, SessionAssumption
    <3>3. new = Over /\ conn[c].step = "done"
      BY <2>1 DEF At
    <3>4. Follows(conn[c], Over)
      BY OverOK DEF Follows, Past
    <3> HIDE DEF new
    <3> QED BY <3>2, <3>3, <3>4, OverOK
  <2>2. CASE ~At(c, "done")
    <3>1. Fits(open, TRUE) /\ Follows(conn[c], open)
      BY <1>1, <1>3 DEF Fits, Follows, Past
    <3>2. Used(open) = Used(conn[c]) /\ Used(open) \in Nat
      BY <1>3, UsedType DEF Used
    <3>3. Used(open) >= Used(conn[c]) /\ new = open
      BY <2>2, <3>2
    <3> HIDE DEF new
    <3> QED BY <1>3, <3>1, <3>3
  <2> QED BY <2>1, <2>2
<1>5. conn[c].keys # "none"
  BY <1>1 DEF Fits
<1>6. UNCHANGED <<status, owner, fresh, process, active, request, spare, lapses, faults>>
  BY DEF FlushOpened, history
<1> HIDE DEF new, cs
<1> QED BY <1>2, <1>4, <1>5, <1>6, Shape, FlushStep DEF Live

\* A socket that was in the map, or not, closes.
LEMMA ClosesStep ==
  ASSUME SessionInvariant, NEW c \in Connections, Live(c), NEW reason,
         reason \in {"loggedOut", "restartRequired"} => conn[c].keys # "none",
         reason \in {"loggedOut", "restartRequired", "lost"},
         conn' = [conn EXCEPT ![c] = Closing(c, reason)],
         active' = [active EXCEPT ![conn[c].instance] = 0],
         UNCHANGED <<row, process, spare, lapses>>, faults' \in 0..MaxFaults,
         RequestsGo, request' = [q \in Requests |-> request'[q]]
  PROVE  SessionInvariant'
<1>1. conn[c] \in Conn /\ Fits(conn[c], paired) /\ conn[c].instance \in Instances /\ paired \in BOOLEAN
  BY Shape DEF Live, Fits
<1>2. /\ Closing(c, reason) \in Conn
      /\ Fits(Closing(c, reason), paired) /\ Follows(conn[c], Closing(c, reason))
      /\ Used(Closing(c, reason)) >= Used(conn[c])
  BY <1>1, ClosingOK DEF Fits
<1>3. /\ conn' = [d \in Connections |-> conn'[d]] /\ conn'[c] = Closing(c, reason)
      /\ \A d \in Connections \ {c} : Keeps(d)
  BY Changed DEF row
<1>4. Good(c) /\ Pays(c)
  BY <1>2, <1>3 DEF Good, Pays, row
<1>5. ActiveGoes
  BY <1>1, <1>3, ActiveCleared
<1>6. active' \in [Instances -> 0..MaxConnects]
  BY <1>1, Shape, SessionAssumption
<1>7. RestTyped
  BY <1>3, <1>6, Shape DEF RestTyped, row
<1> QED BY <1>3, <1>4, <1>5, <1>7, OneConnection

LEMMA ClosedStep ==
  ASSUME SessionInvariant, NEW c \in Connections, Closed(c)
  PROVE  SessionInvariant'
<1>1. PICK reason \in {"lost"} \cup
                   (IF conn[c].keys = "none" THEN {} ELSE {"loggedOut", "restartRequired"}) :
        conn' = [conn EXCEPT ![c] = Closing(c, reason)]
  BY DEF Closed
<1>2. /\ reason \in {"loggedOut", "restartRequired"} => conn[c].keys # "none"
      /\ reason \in {"loggedOut", "restartRequired", "lost"}
  BY DEF Closed
<1> QED BY <1>1, <1>2, Shape, ClosesStep, RequestsStay DEF Closed, history

LEMMA HeartbeatStep ==
  ASSUME SessionInvariant, NEW c \in Connections, Heartbeat(c)
  PROVE  SessionInvariant'
<1> DEFINE i == conn[c].instance
<1>1. i \in Instances
  BY Shape DEF Heartbeat, Fits
<1>2. CASE MayClaim(i)
  <2>1. owner' = i /\ fresh' = TRUE /\ UNCHANGED <<active, conn, status, paired, process, request, history>>
    BY <1>2 DEF Heartbeat
  <2> QED BY <1>1, <2>1, Shape, QuietStep, RequestsStay DEF history
<1>3. CASE ~MayClaim(i)
  <2> DEFINE d == active[i]
  <2>1. /\ d # 0 /\ conn' = [conn EXCEPT ![d] = Closing(d, "lost")]
        /\ active' = [active EXCEPT ![i] = 0]
        /\ UNCHANGED <<row, process, request, history>>
    BY <1>3 DEF Heartbeat, row
  <2>2. d \in Connections /\ Live(d) /\ conn[d].instance = i
    BY <1>1, <2>1 DEF SessionInvariant, ActiveOK
  <2> HIDE DEF d, i
  <2> QED BY <2>1, <2>2, Shape, ClosesStep, RequestsStay DEF history
<1> QED BY <1>2, <1>3

-----------------------------------------------------------------------------
(* The handler of 'close', and the timer. *)

LEMMA WriteOutcomeStep ==
  ASSUME SessionInvariant, NEW c \in Connections, WriteOutcome(c)
  PROVE  SessionInvariant'
<1> DEFINE out == conn[c].outcome
           again == [conn[c] EXCEPT !.step = "flush", !.outcome = "none"]
           new == IF out = "RECONNECTING" THEN again ELSE AfterClose(c)
           cs == [conn EXCEPT ![c] = IF out = "RECONNECTING"
                                     THEN [@ EXCEPT !.step = "flush", !.outcome = "none"]
                                     ELSE AfterClose(c)]
<1>1. /\ conn \in [Connections -> Conn] /\ conn[c] \in Conn /\ Fits(conn[c], paired)
      /\ conn[c].step = "write" /\ out \in Statuses
  <2>1. conn[c] \in Conn /\ Fits(conn[c], paired) /\ conn[c].step = "write"
    BY Shape DEF WriteOutcome, At
  <2> QED BY <2>1, Shape DEF Fits, Conn
<1>2. /\ UNCHANGED <<process, active, request, lapses>>
      /\ spare' = spare - IF out = "RECONNECTING" THEN 1 ELSE 0
      /\ faults' \in 0..MaxFaults
  BY FaultType DEF WriteOutcome
<1>3. /\ again \in Conn /\ again.step = "flush" /\ again.attempts = conn[c].attempts
      /\ again.instance = conn[c].instance /\ again.once = conn[c].once
      /\ again.heartbeat = conn[c].heartbeat /\ again.keys = conn[c].keys
      /\ again.opening = conn[c].opening /\ again.expects = conn[c].expects
  BY <1>1 DEF Conn, Steps
<1> HIDE DEF again
<1>4. cs = [conn EXCEPT ![c] = new]
  BY <1>1 DEF again
<1>5. new \in Conn /\ new.step \in {"flush", "done"} /\ Follows(conn[c], new)
  BY <1>3, AfterCloseOK DEF Follows, Past
<1>6. Fits(new, paired)
  <2>1. CASE out = "RECONNECTING"
    <3>1. Fits(again, paired)
      BY <1>1, <1>3, <2>1 DEF Fits
    <3> QED BY <2>1, <3>1
  <2> QED BY <2>1, AfterCloseOK
<1>7. /\ out = "RECONNECTING" => Used(conn[c]) < MaxAttempts /\ Used(new) >= Used(conn[c]) + 1
      /\ out # "RECONNECTING" => Used(new) >= Used(conn[c])
  <2>1. CASE out = "RECONNECTING"
    <3>1. conn[c].attempts < MaxAttempts /\ conn[c].attempts \in Nat
      BY <1>1, <2>1, SessionAssumption DEF Fits, Conn
    <3>2. Used(conn[c]) = conn[c].attempts
      BY <1>1, <2>1 DEF Used
    <3>3. Used(again) = conn[c].attempts + 1
      BY <1>3 DEF Used
    <3> QED BY <2>1, <3>1, <3>2, <3>3
  <2>2. CASE out # "RECONNECTING"
    <3>1. Used(conn[c]) = MaxAttempts /\ Used(new) = MaxAttempts
      BY <1>1, <2>2, AfterCloseOK DEF Used
    <3> QED BY <2>2, <3>1, SessionAssumption
  <2> QED BY <2>1, <2>2
<1>8. spare' \in Int /\ (conn'[c] = new => Pays(c))
  <2>1. spare \in Int
    BY Shape
  <2>2. CASE out = "RECONNECTING"
    BY <1>2, <1>7, <2>1, <2>2 DEF Pays
  <2>3. CASE out # "RECONNECTING"
    BY <1>2, <1>7, <2>1, <2>3 DEF Pays
  <2> QED BY <2>2, <2>3
<1>9. ~Live(c)
  BY <1>1 DEF Live
\* The keys of a phone that was unlinked are dropped.
<1>10. CASE /\ out = "LOGGED_OUT" /\ paired' = FALSE
            /\ conn' = [d \in Connections |-> [cs[d] EXCEPT !.expects = FALSE]]
            /\ status' = out /\ owner' = "none" /\ fresh' = FALSE
  <2>1. new = AfterClose(c) /\ conn'[c] = [AfterClose(c) EXCEPT !.expects = FALSE]
    BY <1>1, <1>4, <1>10
  <2>2. conn'[c] = new
    BY <2>1, AfterCloseOK
  <2>3. ASSUME NEW d \in Connections \ {c} PROVE Keeps(d)
    <3>1. conn'[d] = [conn[d] EXCEPT !.expects = FALSE] /\ conn[d] \in Conn
      BY <1>1, <1>10
    <3>2. ~conn'[d].expects
      BY <3>1 DEF Conn
    <3> QED BY <3>1, <3>2 DEF Keeps
  <2>4. Fits(new, paired')
    BY <2>1, AfterCloseOK
  <2>5. Good(c) /\ Pays(c)
    BY <1>5, <1>8, <2>2, <2>4 DEF Good
  <2>6. conn' = [d \in Connections |-> conn'[d]]
    BY <1>10
  <2>7. status' \in Statuses
    BY <1>1, <1>10
  <2> HIDE DEF new, cs, out
  <2>8. RestTyped /\ ActiveGoes /\ RequestsGo
    BY <1>2, <1>8, <1>9, <1>10, <2>3, <2>6, <2>7, Shape, ActiveStays, RequestsStay DEF RestTyped
  <2> QED BY <2>3, <2>5, <2>8, OneConnection
\* In all other cases the row keeps them.
<1>11. CASE conn' = cs /\ UNCHANGED paired
  <2>1. /\ conn' = [d \in Connections |-> conn'[d]] /\ conn'[c] = new
        /\ \A d \in Connections \ {c} : Keeps(d)
    BY <1>4, <1>11, Changed
  <2>2. Good(c) /\ Pays(c)
    BY <1>5, <1>6, <1>8, <1>11, <2>1 DEF Good
  <2>3. status' \in Statuses /\ fresh' \in BOOLEAN /\ owner' \in Instances \cup {"none"}
    <3>1. \/ UNCHANGED row
          \/ /\ status' = out /\ owner' = IF out = "RECONNECTING" THEN owner ELSE "none"
             /\ fresh' = (out = "RECONNECTING" /\ fresh)
      BY DEF WriteOutcome
    <3>2. fresh \in BOOLEAN /\ owner \in Instances \cup {"none"} /\ status \in Statuses
      BY Shape
    <3>3. CASE UNCHANGED row
      BY <3>2, <3>3 DEF row
    <3>4. CASE /\ status' = out /\ owner' = IF out = "RECONNECTING" THEN owner ELSE "none"
               /\ fresh' = (out = "RECONNECTING" /\ fresh)
      BY <1>1, <3>2, <3>4
    <3> QED BY <3>1, <3>3, <3>4
  <2> HIDE DEF new, cs, out
  <2>4. RestTyped /\ ActiveGoes /\ RequestsGo
    BY <1>2, <1>8, <1>9, <1>11, <2>1, <2>3, Shape, ActiveStays, RequestsStay DEF RestTyped
  <2> QED BY <2>1, <2>2, <2>4, OneConnection
<1> QED BY <1>10, <1>11 DEF WriteOutcome, row

LEMMA FlushBeforeReconnectStep ==
  ASSUME SessionInvariant, NEW c \in Connections, FlushBeforeReconnect(c)
  PROVE  SessionInvariant'
<1> DEFINE new == [conn[c] EXCEPT !.step = "timer", !.expects = TRUE]
           failed == [conn[c] EXCEPT !.step = "timer"]
           cs == [conn EXCEPT ![c].step = "timer", ![c].expects = TRUE]
<1>1. /\ conn \in [Connections -> Conn] /\ conn[c] \in Conn /\ Fits(conn[c], paired)
      /\ conn[c].step = "flush"
  BY Shape DEF FlushBeforeReconnect, At
<1>2. conn[c].keys # "none" /\ conn[c].attempts < MaxAttempts
  BY <1>1 DEF Fits
<1>3. UNCHANGED <<status, owner, fresh, process, active, request, spare, lapses>>
  BY DEF FlushBeforeReconnect
<1>4. faults' \in 0..MaxFaults
  BY FaultType DEF FlushBeforeReconnect
<1>5. CASE Replace(c, cs)
  <2>1. /\ new \in Conn /\ new.step = "timer" /\ new.attempts = conn[c].attempts
        /\ new.instance = conn[c].instance /\ new.once = conn[c].once
        /\ new.heartbeat = conn[c].heartbeat /\ new.keys = conn[c].keys
        /\ new.opening = conn[c].opening
    BY <1>1 DEF Conn, Steps
  <2>2. cs[c] = new /\ \A d \in Connections \ {c} : cs[d] = conn[d]
    BY <1>1
  <2> HIDE DEF new, cs
  <2>3. Fits(new, TRUE) /\ Follows(conn[c], new) /\ (Live(c) => new.step = "live")
    BY <1>1, <1>2, <2>1 DEF Fits, Follows, Past, Live
  <2>4. Used(new) = Used(conn[c]) /\ Used(new) \in Nat
    BY <1>1, <2>1, UsedType DEF Used
  <2>5. Used(new) >= Used(conn[c])
    BY <2>4
  <2> QED BY <1>2, <1>3, <1>4, <1>5, <2>1, <2>2, <2>3, <2>5, FlushStep
<1>6. CASE conn' = [conn EXCEPT ![c].step = "timer"] /\ UNCHANGED paired
  <2>1. /\ failed \in Conn /\ failed.step = "timer" /\ failed.attempts = conn[c].attempts
        /\ failed.instance = conn[c].instance /\ failed.once = conn[c].once
        /\ failed.heartbeat = conn[c].heartbeat /\ failed.keys = conn[c].keys
        /\ failed.opening = conn[c].opening /\ failed.expects = conn[c].expects
    BY <1>1 DEF Conn, Steps
  <2>2. conn' = [conn EXCEPT ![c] = failed]
    BY <1>1, <1>6
  <2> HIDE DEF failed
  <2>3. Fits(failed, paired) /\ Follows(conn[c], failed) /\ (Live(c) => failed.step = "live")
    BY <1>1, <1>2, <2>1 DEF Fits, Follows, Past, Live
  <2>4. Used(failed) = Used(conn[c]) /\ Used(failed) \in Nat
    BY <1>1, <2>1, UsedType DEF Used
  <2>5. Used(failed) >= Used(conn[c])
    BY <2>4
  <2> QED BY <1>3, <1>4, <1>6, <2>1, <2>2, <2>3, <2>5, Shape, LocalStep
<1> QED BY <1>5, <1>6 DEF FlushBeforeReconnect

\* A call of connect() that is new.
Claiming(i, k, e) ==
  [NoConn EXCEPT !.step = "claim", !.instance = i, !.carry = k, !.expects = e]

LEMMA ClaimingOK ==
  ASSUME SessionInvariant, NEW n \in Connections, conn[n].step = "free", NEW i \in Instances,
         NEW k \in 0..MaxAttempts, NEW e \in BOOLEAN, e => paired
  PROVE  /\ Claiming(i, k, e) \in Conn /\ Fits(Claiming(i, k, e), paired)
         /\ Follows(conn[n], Claiming(i, k, e)) /\ Claiming(i, k, e).step = "claim"
         /\ Used(Claiming(i, k, e)) = IF k = 0 THEN MaxAttempts ELSE k
<1> DEFINE new == Claiming(i, k, e)
<1>1. /\ NoConn \in Conn /\ ~NoConn.heartbeat /\ ~NoConn.once /\ NoConn.opening = "no"
  BY SessionAssumption DEF NoConn, Conn, Steps
<1>2. /\ new \in Conn /\ new.step = "claim" /\ new.instance = i /\ new.carry = k /\ new.expects = e
      /\ ~new.heartbeat /\ ~new.once /\ new.opening = "no"
  BY <1>1 DEF Claiming, Conn, Steps
<1> HIDE DEF new
<1>3. Fits(new, paired) /\ Follows(conn[n], new) /\ Used(new) = IF k = 0 THEN MaxAttempts ELSE k
  BY <1>2 DEF Fits, Follows, Past, Used
<1> QED BY <1>2, <1>3 DEF new

LEMMA ReconnectStep ==
  ASSUME SessionInvariant, NEW c \in Connections, Reconnect(c)
  PROVE  SessionInvariant'
<1> DEFINE i == conn[c].instance
           k == conn[c].attempts + 1
           e == conn[c].expects
           cs == [conn EXCEPT ![c] = AfterClose(c)]
<1>1. /\ conn \in [Connections -> Conn] /\ conn[c] \in Conn /\ Fits(conn[c], paired)
      /\ conn[c].step = "timer"
  BY Shape DEF Reconnect, At
<1>2. /\ i \in Instances /\ k \in 1..MaxAttempts /\ k \in 0..MaxAttempts /\ k # 0 /\ e \in BOOLEAN
      /\ e => paired
  <2>1. conn[c].attempts \in 0..MaxAttempts /\ conn[c].attempts < MaxAttempts
    BY <1>1 DEF Fits, Conn
  <2>2. i \in Instances /\ e \in BOOLEAN /\ (e => paired)
    BY <1>1 DEF Fits, Conn
  <2> QED BY <2>1, <2>2, SessionAssumption
<1>3. Call(i, k, e, cs) /\ UNCHANGED <<row, process, active, request, history>>
  BY DEF Reconnect
<1>4. Used(conn[c]) = k
  BY <1>1 DEF Used
<1>5. cs[c] = AfterClose(c) /\ \A d \in Connections \ {c} : cs[d] = conn[d]
  BY <1>1
<1>6. /\ AfterClose(c) \in Conn /\ Fits(AfterClose(c), paired) /\ Follows(conn[c], AfterClose(c))
      /\ Used(AfterClose(c)) >= MaxAttempts
  BY AfterCloseOK, SessionAssumption DEF Follows, Past
\* The other connection: the entry in the map, or a new call.
<1>7. PICK d \in Connections \ {c} : \E new \in Conn :
        /\ conn' = [cs EXCEPT ![d] = new]
        /\ Fits(new, paired) /\ Follows(conn[d], new) /\ Used(new) = k
        /\ Live(d) => new.step = "live"
  <2>1. CASE active[i] # 0
    <3> DEFINE d == active[i]
               new == [conn[d] EXCEPT !.attempts = k]
    <3>1. d \in Connections /\ Live(d) /\ d # c
      BY <1>1, <1>2, <2>1 DEF SessionInvariant, ActiveOK, Live
    <3>2. conn' = [cs EXCEPT ![d].attempts = k]
      BY <1>2, <1>3, <2>1 DEF Call
    <3>3. new \in Conn /\ Fits(new, paired) /\ Follows(conn[d], new) /\ Used(new) = k /\ new.step = "live"
      BY <1>2, <3>1, GivenOK
    <3>4. conn' = [cs EXCEPT ![d] = new]
      BY <1>1, <1>5, <3>1, <3>2
    <3> HIDE DEF d, new, cs
    <3> QED BY <3>1, <3>3, <3>4
  <2>2. CASE active[i] = 0
    <3> DEFINE d == NextFree
               new == Claiming(i, k, e)
    <3>1. Unused # {} /\ conn' = [cs EXCEPT ![d] = new]
      BY <1>3, <2>2 DEF Call, Claiming
    <3>2. d \in Connections /\ conn[d].step = "free"
      BY <3>1, NextFreeIsUnused DEF Unused
    <3>3. d # c /\ ~Live(d)
      BY <1>1, <3>2 DEF Live
    <3>4. new \in Conn /\ Fits(new, paired) /\ Follows(conn[d], new) /\ Used(new) = k
      <4> HIDE DEF d, k, e, i
      <4>1. /\ new \in Conn /\ Fits(new, paired) /\ Follows(conn[d], new)
            /\ Used(new) = IF k = 0 THEN MaxAttempts ELSE k
        BY <1>2, <3>2, ClaimingOK
      <4> QED BY <1>2, <4>1
    <3> HIDE DEF d, new, cs
    <3> QED BY <3>1, <3>2, <3>3, <3>4
  <2> QED BY <2>1, <2>2
<1>8. PICK new \in Conn : /\ conn' = [cs EXCEPT ![d] = new]
                          /\ Fits(new, paired) /\ Follows(conn[d], new) /\ Used(new) = k
                          /\ Live(d) => new.step = "live"
  BY <1>7
<1>9. /\ conn' = [x \in Connections |-> conn'[x]] /\ conn'[c] = AfterClose(c) /\ conn'[d] = new
      /\ \A x \in Connections \ {c, d} : conn'[x] = conn[x]
  BY <1>1, <1>5, <1>8
<1>10. paired' = paired /\ UNCHANGED spare
  BY <1>3 DEF row, history
<1> HIDE DEF cs, k, e, i
<1>11. \A x \in Connections \ {c, d} : Keeps(x)
  BY <1>9, <1>10, Shape DEF Keeps, Fits
<1>12. Good(c) /\ Good(d)
  BY <1>6, <1>8, <1>9, <1>10 DEF Good
<1>13. ActiveGoes
  <2> SUFFICES ASSUME NEW j \in Instances, active[j] # 0 PROVE conn'[active[j]].step = "live"
    BY <1>3 DEF ActiveGoes
  <2>1. active[j] \in Connections /\ conn[active[j]].step = "live"
    BY DEF SessionInvariant, ActiveOK, Live
  <2> QED BY <1>1, <1>8, <1>9, <2>1 DEF Live
<1>14. RestTyped /\ RequestsGo
  BY <1>3, <1>9, Shape, RequestsStay DEF RestTyped, row, history
<1>15. Used(conn'[d]) >= Used(conn[c]) /\ Used(conn'[c]) >= MaxAttempts
  BY <1>2, <1>4, <1>6, <1>8, <1>9 DEF k
<1> QED BY <1>10, <1>11, <1>12, <1>13, <1>14, <1>15, TwoConnections

-----------------------------------------------------------------------------
(* Processes and time. *)

LEMMA StaleStep == ASSUME SessionInvariant, Stale PROVE SessionInvariant'
<1>1. lapses' \in 0..MaxLapses
  BY Shape, SessionAssumption DEF Stale
<1>2. fresh' = FALSE /\ UNCHANGED <<status, paired, owner, process, active, conn, request, spare, faults>>
  BY DEF Stale
<1> QED BY <1>1, <1>2, Shape, QuietStep, RequestsStay

\* A call that counts on nothing: the map has an entry, or a new call begins.
LEMMA FreshCall ==
  ASSUME SessionInvariant, NEW i \in Instances, Call(i, 0, FALSE, conn),
         UNCHANGED <<row, active, history>>,
         process' \in [Instances -> {"new", "restoring", "running", "stopping", "gone"}],
         RequestsGo, request' = [q \in Requests |-> request'[q]]
  PROVE  SessionInvariant'
<1>1. CASE UNCHANGED conn
  <2>1. conn' = [d \in Connections |-> conn'[d]] /\ \A d \in Connections : Keeps(d)
    BY <1>1, Unmoved DEF row
  <2>2. 0 \notin Connections /\ \A d \in Connections \ {0} : Keeps(d)
    BY <2>1 DEF Connections
  <2>3. Pays(0)
    BY <2>2 DEF Pays, history
  <2>4. RestTyped /\ ActiveGoes
    BY <2>1, <2>2, Shape, ActiveStays DEF RestTyped, row, history
  <2> QED BY <2>2, <2>3, <2>4, OneConnection
<1>2. CASE active[i] = 0
  <2> DEFINE d == NextFree
             new == Claiming(i, 0, FALSE)
  <2>1. Unused # {} /\ conn' = [conn EXCEPT ![d] = new]
    BY <1>2 DEF Call, Claiming
  <2>2. d \in Connections /\ conn[d].step = "free"
    BY <2>1, NextFreeIsUnused DEF Unused
  <2>3. new \in Conn /\ Fits(new, paired) /\ Follows(conn[d], new) /\ Used(new) = MaxAttempts
    <3>1. 0 \in 0..MaxAttempts
      BY SessionAssumption
    <3>2. FALSE \in BOOLEAN
      OBVIOUS
    <3> HIDE DEF d
    <3>3. /\ new \in Conn /\ Fits(new, paired) /\ Follows(conn[d], new)
          /\ Used(new) = IF 0 = 0 THEN MaxAttempts ELSE 0
      BY <2>2, <3>1, <3>2, ClaimingOK
    <3> QED BY <3>3
  <2> HIDE DEF d, new
  <2>4. /\ conn' = [x \in Connections |-> conn'[x]] /\ conn'[d] = new
        /\ \A x \in Connections \ {d} : Keeps(x)
    BY <2>1, <2>2, Changed DEF row
  <2>5. Good(d) /\ ~Live(d)
    BY <2>2, <2>3, <2>4 DEF Good, Live, row
  <2>6. Used(conn[d]) = MaxAttempts
    BY <2>2 DEF Used
  <2>7. Pays(d)
    BY <2>3, <2>4, <2>6, SessionAssumption DEF Pays, history
  <2>8. RestTyped /\ ActiveGoes
    BY <2>4, <2>5, Shape, ActiveStays DEF RestTyped, row, history
  <2> QED BY <2>4, <2>5, <2>7, <2>8, OneConnection
<1> QED BY <1>1, <1>2 DEF Call

LEMMA StartProcessStep ==
  ASSUME SessionInvariant, NEW i \in Instances, StartProcess(i)
  PROVE  SessionInvariant'
<1>1. UNCHANGED <<row, active, request, history>>
  BY DEF StartProcess
<1>2. process' \in [Instances -> {"new", "restoring", "running", "stopping", "gone"}]
  BY Shape DEF StartProcess
<1>3. RequestsGo /\ request' = [q \in Requests |-> request'[q]]
  BY <1>1, RequestsStay
<1>4. CASE Call(i, 0, FALSE, conn)
  BY <1>1, <1>2, <1>3, <1>4, FreshCall
<1>5. CASE UNCHANGED conn
  <2>1. conn' = [d \in Connections |-> conn'[d]] /\ \A d \in Connections : Keeps(d)
    BY <1>1, <1>5, Unmoved DEF row
  <2>2. 0 \notin Connections /\ \A d \in Connections \ {0} : Keeps(d)
    BY <2>1 DEF Connections
  <2>3. Pays(0)
    BY <1>1, <2>2 DEF Pays, history
  <2>4. RestTyped /\ ActiveGoes
    BY <1>1, <1>2, <1>3, <2>1, <2>2, Shape, ActiveStays DEF RestTyped, row, history
  <2> QED BY <1>3, <2>2, <2>3, <2>4, OneConnection
<1> QED BY <1>4, <1>5 DEF StartProcess

LEMMA ShutdownStep ==
  ASSUME SessionInvariant, NEW i \in Instances, Shutdown(i)
  PROVE  SessionInvariant'
<1> DEFINE c == active[i]
<1>1. UNCHANGED <<status, active, request, history>>
  BY DEF Shutdown
<1>2. process' \in [Instances -> {"new", "restoring", "running", "stopping", "gone"}]
  BY Shape DEF Shutdown
<1>3. fresh' \in BOOLEAN /\ owner' \in Instances \cup {"none"}
  BY Shape DEF Shutdown
<1>4. RequestsGo /\ request' = [q \in Requests |-> request'[q]]
  BY <1>1, RequestsStay
<1>5. CASE c # 0
  <2>1. c \in Connections /\ Live(c) /\ conn[c] \in Conn /\ Fits(conn[c], paired)
    BY <1>5, Shape DEF SessionInvariant, ActiveOK
  <2>2. Replace(c, conn)
    BY <1>5 DEF Shutdown
  <2>3. /\ conn' = [d \in Connections |-> conn'[d]] /\ conn'[c] = conn[c]
        /\ \A d \in Connections \ {c} : Keeps(d)
        /\ paired' \in BOOLEAN /\ (paired' <=> conn[c].keys # "none")
    BY <2>1, <2>2, KeysReplaced
  <2> HIDE DEF c
  <2>4. Fits(conn[c], paired') /\ Follows(conn[c], conn[c])
    BY <2>1, <2>3 DEF Fits, Follows, Live
  <2>5. Used(conn[c]) >= Used(conn[c])
    <3>1. Used(conn[c]) \in Nat
      BY <2>1, UsedType
    <3> QED BY <3>1
  <2>6. Good(c) /\ Pays(c)
    BY <1>1, <2>1, <2>3, <2>4, <2>5 DEF Good, Pays, history
  <2>7. RestTyped /\ ActiveGoes
    BY <1>1, <1>2, <1>3, <1>4, <2>1, <2>3, Shape, ActiveStays DEF RestTyped, history, Live
  <2> QED BY <1>4, <2>3, <2>6, <2>7, OneConnection
<1>6. CASE c = 0
  <2>1. UNCHANGED <<paired, conn, owner, fresh>>
    BY <1>6 DEF Shutdown
  <2>2. conn' = [d \in Connections |-> conn'[d]] /\ \A d \in Connections : Keeps(d)
    BY <2>1, Unmoved
  <2>3. 0 \notin Connections /\ \A d \in Connections \ {0} : Keeps(d)
    BY <2>2 DEF Connections
  <2>4. Pays(0)
    BY <1>1, <2>3 DEF Pays, history
  <2>5. RestTyped /\ ActiveGoes
    BY <1>1, <1>2, <1>3, <1>4, <2>1, <2>2, <2>3, Shape, ActiveStays DEF RestTyped, history
  <2> QED BY <1>4, <2>3, <2>4, <2>5, OneConnection
<1> QED BY <1>5, <1>6

LEMMA ExitStep ==
  ASSUME SessionInvariant, NEW i \in Instances, Exit(i)
  PROVE  SessionInvariant'
<1>1. /\ UNCHANGED <<row, request, history>>
      /\ active' = [active EXCEPT ![i] = 0]
      /\ conn' = [c \in Connections |-> IF conn[c].instance = i THEN Over ELSE conn[c]]
      /\ process' = [process EXCEPT ![i] = "gone"]
  BY DEF Exit
<1>2. conn' = [c \in Connections |-> conn'[c]]
  BY <1>1
<1>3. ASSUME NEW c \in Connections PROVE Good(c) /\ Used(conn'[c]) >= Used(conn[c])
  <2>1. conn[c] \in Conn /\ Fits(conn[c], paired) /\ Used(conn[c]) \in Nat /\ paired' = paired
    BY <1>1, Shape, UsedType DEF row
  <2>2. CASE conn[c].instance = i
    <3>1. conn'[c] = Over
      BY <1>1, <2>2
    <3>2. Used(conn[c]) <= MaxAttempts
      BY <2>1, SessionAssumption DEF Used, Conn, Fits
    <3> QED BY <2>1, <3>1, <3>2, OverOK, SessionAssumption DEF Good, Follows, Past
  <2>3. CASE conn[c].instance # i
    <3>1. conn'[c] = conn[c]
      BY <1>1, <2>3
    <3> QED BY <2>1, <3>1 DEF Good, Follows
  <2> QED BY <2>2, <2>3
<1>4. active' \in [Instances -> 0..MaxConnects]
  BY <1>1, Shape, SessionAssumption
<1>5. process' \in [Instances -> {"new", "restoring", "running", "stopping", "gone"}]
  BY <1>1, Shape
<1>6. ActiveGoes
  <2> SUFFICES ASSUME NEW j \in Instances \ {i}, active[j] # 0
               PROVE  active'[j] = active[j] /\ conn'[active[j]].step = "live"
    BY <1>1, Shape DEF ActiveGoes
  <2>1. active[j] \in Connections /\ conn[active[j]].step = "live" /\ conn[active[j]].instance = j
    BY DEF SessionInvariant, ActiveOK, Live
  <2>2. active'[j] = active[j]
    BY <1>1, Shape
  <2> QED BY <1>1, <2>1, <2>2
<1>7. RestTyped /\ RequestsGo /\ UNCHANGED spare
  BY <1>1, <1>2, <1>4, <1>5, Shape, RequestsStay DEF RestTyped, row, history
<1> QED BY <1>3, <1>6, <1>7, NothingGained

-----------------------------------------------------------------------------
(* Requests. *)

LEMMA AskStep ==
  ASSUME SessionInvariant, NEW q \in Requests, AskReconnect(q) \/ AskDisconnect(q) \/ AskLogout(q)
  PROVE  SessionInvariant'
<1>1. PICK step \in {"connect", "disconnect", "logout"} : Goto(q, step)
  BY DEF AskReconnect, AskDisconnect, AskLogout, Ask
<1>2. UNCHANGED <<row, process, active, conn, history>>
  BY DEF AskReconnect, AskDisconnect, AskLogout, Ask
<1>3. RequestsGo /\ request' = [p \in Requests |-> request'[p]]
  BY <1>1, GotoGone
<1> QED BY <1>2, <1>3, Shape, QuietStep DEF row, history

LEMMA ServeConnectStep ==
  ASSUME SessionInvariant, NEW q \in Requests, ServeConnect(q)
  PROVE  SessionInvariant'
<1>1. PICK i \in Instances : Call(i, 0, FALSE, conn)
  BY DEF ServeConnect
<1>2. Goto(q, "done") /\ UNCHANGED <<row, process, active, history>>
  BY DEF ServeConnect
<1>3. RequestsGo /\ request' = [p \in Requests |-> request'[p]]
  BY <1>2, GotoGone
<1> QED BY <1>1, <1>2, <1>3, Shape, FreshCall

LEMMA ServeStopStep ==
  ASSUME SessionInvariant, NEW q \in Requests, ServeStop(q)
  PROVE  SessionInvariant'
<1>1. UNCHANGED <<row, process, active, history>> /\ request \in [Requests -> Request]
  BY Shape DEF ServeStop
<1>2. PICK i \in Instances :
        \/ /\ active[i] = 0 /\ UNCHANGED conn
           /\ request' = [request EXCEPT ![q].step =
                IF @ = "disconnect" THEN "writeDisconnect" ELSE "writeLogout"]
        \/ /\ active[i] # 0
           /\ request' = [request EXCEPT ![q] =
                [step |-> [disconnect |-> "end", logout |-> "unlink"][request[q].step],
                 instance |-> i, conn |-> active[i]]]
           /\ conn' = [conn EXCEPT ![active[i]].heartbeat = FALSE]
  BY DEF ServeStop
<1>3. CASE UNCHANGED conn /\ request' = [request EXCEPT ![q].step =
                IF @ = "disconnect" THEN "writeDisconnect" ELSE "writeLogout"]
  <2>1. \E step \in {"writeDisconnect", "writeLogout"} : Goto(q, step)
    BY <1>1, <1>3 DEF Goto
  <2>2. RequestsGo /\ request' = [p \in Requests |-> request'[p]]
    BY <2>1, GotoGone
  <2> QED BY <1>1, <1>3, <2>2, Shape, QuietStep DEF row, history
<1>4. CASE /\ active[i] # 0
           /\ request' = [request EXCEPT ![q] =
                [step |-> [disconnect |-> "end", logout |-> "unlink"][request[q].step],
                 instance |-> i, conn |-> active[i]]]
           /\ conn' = [conn EXCEPT ![active[i]].heartbeat = FALSE]
  <2> DEFINE c == active[i]
             new == [conn[c] EXCEPT !.heartbeat = FALSE]
             step == [disconnect |-> "end", logout |-> "unlink"][request[q].step]
             asked == [step |-> step, instance |-> i, conn |-> c]
  <2>1. c \in Connections /\ Live(c) /\ conn[c].instance = i
    BY <1>4 DEF SessionInvariant, ActiveOK
  <2>2. conn[c] \in Conn /\ Fits(conn[c], paired)
    BY <2>1, Shape
  <2>3. conn' = [conn EXCEPT ![c] = new]
    BY <1>4, <2>1, Shape
  <2>4. /\ new \in Conn /\ new.step = "live" /\ ~new.heartbeat
        /\ new.instance = i /\ new.once = conn[c].once /\ new.keys = conn[c].keys
        /\ new.opening = conn[c].opening /\ new.expects = conn[c].expects
        /\ new.attempts = conn[c].attempts
    BY <2>1, <2>2 DEF Conn, Live
  <2>5. step \in {"end", "unlink"}
    BY DEF ServeStop
  <2>6. asked \in Request /\ asked.conn = c /\ asked.instance = i
    <3>1. c \in 0..MaxConnects
      BY Shape
    <3> HIDE DEF c, step
    <3> QED BY <2>5, <3>1 DEF Request
  <2>7. request' = [request EXCEPT ![q] = asked]
    BY <1>4
  <2> HIDE DEF c, new, step, asked
  <2>8. /\ conn' = [d \in Connections |-> conn'[d]] /\ conn'[c] = new
        /\ \A d \in Connections \ {c} : Keeps(d)
    BY <1>1, <2>1, <2>3, Changed DEF row
  <2>9. Fits(new, paired) /\ Follows(conn[c], new)
    BY <2>1, <2>2, <2>4 DEF Fits, Follows, Past, Live
  <2>10. Used(new) >= Used(conn[c])
    <3>1. Used(new) = Used(conn[c]) /\ Used(new) \in Nat
      BY <2>1, <2>4, UsedType DEF Used, Live
    <3> QED BY <3>1
  <2>11. Good(c) /\ Pays(c)
    BY <1>1, <2>4, <2>8, <2>9, <2>10 DEF Good, Pays, row, history
  <2>12. RequestsGo /\ request' = [p \in Requests |-> request'[p]]
    <3>1. request'[q] = asked /\ \A p \in Requests \ {q} : request'[p] = request[p]
      BY <1>1, <2>7
    <3>2. RequestOK(q)'
      BY <2>1, <2>4, <2>6, <2>8, <3>1 DEF RequestOK, Past, Live
    <3> QED BY <1>1, <2>6, <2>7, <3>1, <3>2 DEF RequestsGo
  <2>13. RestTyped /\ ActiveGoes
    BY <1>1, <2>4, <2>8, <2>12, Shape, ActiveStays DEF RestTyped, row, history
  <2> QED BY <2>8, <2>11, <2>12, <2>13, OneConnection
<1> QED BY <1>2, <1>3, <1>4

LEMMA CallFailsStep ==
  ASSUME SessionInvariant, NEW q \in Requests, CallFails(q)
  PROVE  SessionInvariant'
<1> DEFINE step == CASE request[q].step = "connect" -> "done"
                     [] request[q].step \in {"disconnect", "end"} -> "writeDisconnect"
                     [] OTHER -> "writeLogout"
           new == [step |-> step, instance |-> "none", conn |-> 0]
<1>1. UNCHANGED <<row, process, active, conn, history>> /\ request \in [Requests -> Request]
  BY Shape DEF CallFails
<1>2. request' = [request EXCEPT ![q] = new]
  BY <1>1 DEF CallFails
<1>3. step \in {"done", "writeDisconnect", "writeLogout"}
  OBVIOUS
<1> HIDE DEF step
<1>4. new \in Request /\ new.step \notin {"end", "unlink"}
  BY <1>3, SessionAssumption DEF Request
<1> HIDE DEF new
<1>5. RequestsGo /\ request' = [p \in Requests |-> request'[p]]
  BY <1>2, <1>4, RequestGone
<1> QED BY <1>1, <1>5, Shape, QuietStep DEF row, history

LEMMA EndSocketStep ==
  ASSUME SessionInvariant, NEW q \in Requests, EndSocket(q)
  PROVE  SessionInvariant'
<1> DEFINE c == request[q].conn
           i == request[q].instance
           new == IF Live(c) THEN Closing(c, "lost") ELSE conn[c]
           cs == [conn EXCEPT ![c] = IF Live(c) THEN Closing(c, "lost") ELSE @]
           gone == [step |-> "writeDisconnect", instance |-> "none", conn |-> 0]
<1>1. /\ i \in Instances /\ c \in Connections /\ conn[c].step \in Past
      /\ Live(c) => conn[c].instance = i
  BY DEF SessionInvariant, RequestOK, EndSocket
<1>2. /\ Replace(c, cs) /\ active' = [active EXCEPT ![i] = 0]
      /\ request' = [request EXCEPT ![q] = gone]
      /\ UNCHANGED <<status, owner, fresh, process, history>>
  BY DEF EndSocket
<1>3. /\ conn \in [Connections -> Conn] /\ conn[c] \in Conn /\ Fits(conn[c], paired)
  BY <1>1, Shape
<1>4. cs[c] = new /\ \A d \in Connections \ {c} : cs[d] = conn[d]
  BY <1>1, <1>3
<1> HIDE DEF c, i, cs, new, gone
<1>5. /\ conn' = [d \in Connections |-> conn'[d]] /\ conn'[c] = new
      /\ \A d \in Connections \ {c} : Keeps(d)
      /\ paired' \in BOOLEAN /\ (paired' <=> conn[c].keys # "none")
  BY <1>1, <1>2, <1>4, KeysReplaced
<1>6. conn[c].expects => paired'
  BY <1>1, <1>3, <1>5 DEF Fits, Past
<1>7. /\ new \in Conn /\ Fits(new, paired') /\ Follows(conn[c], new)
      /\ Used(new) >= Used(conn[c])
  <2>1. CASE Live(c)
    BY <1>1, <1>5, <1>6, <2>1, ClosingOK DEF new
  <2>2. CASE ~Live(c)
    <3>1. Fits(conn[c], paired') /\ Follows(conn[c], conn[c])
      BY <1>3, <1>5, <1>6 DEF Fits, Follows
    <3>2. Used(conn[c]) >= Used(conn[c])
      <4>1. Used(conn[c]) \in Nat
        BY <1>3, UsedType
      <4> QED BY <4>1
    <3> QED BY <1>3, <2>2, <3>1, <3>2 DEF new
  <2> QED BY <2>1, <2>2
<1>8. Good(c) /\ Pays(c)
  BY <1>2, <1>5, <1>7 DEF Good, Pays, history
<1>9. ActiveGoes
  BY <1>1, <1>2, <1>5, ActiveCleared
<1>10. active' \in [Instances -> 0..MaxConnects]
  BY <1>1, <1>2, Shape, SessionAssumption
<1>11. RequestsGo /\ request' = [p \in Requests |-> request'[p]]
  <2>1. gone \in Request /\ gone.step \notin {"end", "unlink"}
    BY SessionAssumption DEF gone, Request
  <2> QED BY <1>2, <2>1, RequestGone
<1>12. RestTyped
  BY <1>2, <1>5, <1>10, <1>11, Shape DEF RestTyped, history
<1> QED BY <1>5, <1>8, <1>9, <1>11, <1>12, OneConnection

LEMMA UnlinkStep ==
  ASSUME SessionInvariant, NEW q \in Requests, Unlink(q)
  PROVE  SessionInvariant'
<1> DEFINE c == request[q].conn
           i == request[q].instance
           gone == [step |-> "writeLogout", instance |-> "none", conn |-> 0]
<1>1. /\ i \in Instances /\ c \in Connections /\ conn[c].step \in Past
      /\ Live(c) => conn[c].instance = i
  BY DEF SessionInvariant, RequestOK, Unlink
<1>2. /\ \/ conn' = [conn EXCEPT ![c] = IF Live(c) THEN Closing(c, "loggedOut") ELSE @]
         \/ UNCHANGED conn
      /\ active' = [active EXCEPT ![i] = 0]
      /\ request' = [request EXCEPT ![q] = gone]
      /\ UNCHANGED <<row, process, spare, lapses>>
  BY DEF Unlink
<1>3. faults' \in 0..MaxFaults
  BY FaultType DEF Unlink
<1>4. /\ conn \in [Connections -> Conn] /\ conn[c] \in Conn /\ Fits(conn[c], paired)
      /\ paired \in BOOLEAN /\ UNCHANGED paired
  BY <1>1, <1>2, Shape DEF row
<1>5. PICK new \in {conn[c], IF Live(c) THEN Closing(c, "loggedOut") ELSE conn[c]} :
        conn' = [conn EXCEPT ![c] = new]
  BY <1>1, <1>2, <1>4
<1> HIDE DEF c, i, gone
<1>6. /\ conn' = [d \in Connections |-> conn'[d]] /\ conn'[c] = new
      /\ \A d \in Connections \ {c} : Keeps(d)
  BY <1>1, <1>4, <1>5, Changed
<1>7. /\ new \in Conn /\ Fits(new, paired) /\ Follows(conn[c], new)
      /\ Used(new) >= Used(conn[c])
  <2>1. CASE Live(c) /\ new = Closing(c, "loggedOut")
    <3>1. /\ Closing(c, "loggedOut") \in Conn
          /\ \A p \in BOOLEAN : (conn[c].expects => p) => Fits(Closing(c, "loggedOut"), p)
          /\ Follows(conn[c], Closing(c, "loggedOut"))
          /\ Used(Closing(c, "loggedOut")) >= Used(conn[c])
      BY <1>1, <2>1, ClosingOK
    <3>2. conn[c].expects => paired
      BY <1>4 DEF Fits
    <3> QED BY <1>4, <2>1, <3>1, <3>2
  <2>2. CASE new = conn[c]
    <3>1. Follows(conn[c], conn[c])
      BY DEF Follows
    <3>2. Used(conn[c]) >= Used(conn[c])
      <4>1. Used(conn[c]) \in Nat
        BY <1>4, UsedType
      <4> QED BY <4>1
    <3> QED BY <1>4, <2>2, <3>1, <3>2
  <2> QED BY <1>5, <2>1, <2>2
<1>8. Good(c) /\ Pays(c)
  BY <1>2, <1>4, <1>6, <1>7 DEF Good, Pays
<1>9. ActiveGoes
  BY <1>1, <1>2, <1>6, ActiveCleared
<1>10. active' \in [Instances -> 0..MaxConnects]
  BY <1>1, <1>2, Shape, SessionAssumption
<1>11. RequestsGo /\ request' = [p \in Requests |-> request'[p]]
  <2>1. gone \in Request /\ gone.step \notin {"end", "unlink"}
    BY SessionAssumption DEF gone, Request
  <2> QED BY <1>2, <2>1, RequestGone
<1>12. RestTyped
  BY <1>2, <1>3, <1>6, <1>10, <1>11, Shape DEF RestTyped, row
<1> QED BY <1>6, <1>8, <1>9, <1>11, <1>12, OneConnection

LEMMA WriteDisconnectedStep ==
  ASSUME SessionInvariant, NEW q \in Requests, WriteDisconnected(q)
  PROVE  SessionInvariant'
<1>1. /\ status' = "RECONNECTING" /\ Goto(q, "done")
      /\ UNCHANGED <<paired, owner, fresh, process, active, conn, history>>
  BY DEF WriteDisconnected
<1>2. RequestsGo /\ request' = [p \in Requests |-> request'[p]]
  BY <1>1, GotoGone
<1>3. status' \in Statuses
  BY <1>1 DEF Statuses
<1> QED BY <1>1, <1>2, <1>3, Shape, QuietStep DEF history

LEMMA WriteLoggedOutStep ==
  ASSUME SessionInvariant, NEW q \in Requests, WriteLoggedOut(q)
  PROVE  SessionInvariant'
<1>1. /\ status' = "LOGGED_OUT" /\ paired' = FALSE /\ Goto(q, "done")
      /\ conn' = [d \in Connections |-> [conn[d] EXCEPT !.expects = FALSE]]
      /\ UNCHANGED <<owner, fresh, process, active, history>>
  BY DEF WriteLoggedOut
<1>2. ASSUME NEW d \in Connections PROVE Keeps(d)
  <2>1. conn'[d] = [conn[d] EXCEPT !.expects = FALSE] /\ conn[d] \in Conn
    BY <1>1, Shape
  <2>2. ~conn'[d].expects
    BY <2>1 DEF Conn
  <2> QED BY <2>1, <2>2 DEF Keeps
<1>3. 0 \notin Connections
  BY DEF Connections
<1>4. Pays(0)
  BY <1>1, <1>3 DEF Pays, history
<1>5. ActiveGoes
  BY <1>1, <1>2, <1>3, ActiveStays
<1>6. RequestsGo /\ request' = [p \in Requests |-> request'[p]]
  BY <1>1, GotoGone
<1>7. conn' = [d \in Connections |-> conn'[d]]
  BY <1>1
<1>8. status' \in Statuses
  BY <1>1 DEF Statuses
<1>9. RestTyped
  BY <1>1, <1>6, <1>7, <1>8, Shape DEF RestTyped, history
<1> QED BY <1>2, <1>3, <1>4, <1>5, <1>6, <1>9, OneConnection

-----------------------------------------------------------------------------
(* The theorems. *)

LEMMA SessionStep == ASSUME SessionInvariant, [Next]_vars PROVE SessionInvariant'
<1>1. ASSUME NEW c \in Connections, Handle(c) \/ Event(c) \/ Heartbeat(c) PROVE SessionInvariant'
  <2>1. CASE Handle(c)
    BY <2>1, ClaimLeaseStep, LoadAuthStep, OpenSocketStep, WriteConnectedStep, FlushOpenedStep,
       WriteOutcomeStep, FlushBeforeReconnectStep, ReconnectStep DEF Handle
  <2>2. CASE Event(c)
    BY <2>2, ShowQrStep, ScanStep, FlushLaterStep, OpenedStep, ClosedStep DEF Event
  <2>3. CASE Heartbeat(c)
    BY <2>3, HeartbeatStep
  <2> QED BY <1>1, <2>1, <2>2, <2>3
<1>2. CASE Stale
  BY <1>2, StaleStep
<1>3. ASSUME NEW i \in Instances, StartProcess(i) \/ Shutdown(i) \/ Exit(i) PROVE SessionInvariant'
  BY <1>3, StartProcessStep, ShutdownStep, ExitStep
<1>4. ASSUME NEW q \in Requests, AskReconnect(q) \/ AskDisconnect(q) \/ AskLogout(q) \/ Serve(q)
      PROVE  SessionInvariant'
  <2>1. CASE Serve(q)
    BY <2>1, ServeConnectStep, ServeStopStep, CallFailsStep, EndSocketStep, UnlinkStep,
       WriteDisconnectedStep, WriteLoggedOutStep DEF Serve
  <2> QED BY <1>4, <2>1, AskStep
<1>5. CASE UNCHANGED vars
  <2>1. RequestsGo /\ request' = [p \in Requests |-> request'[p]]
    BY <1>5, RequestsStay DEF vars
  <2> QED BY <1>5, <2>1, Shape, QuietStep DEF vars, row, history
<1> QED BY <1>1, <1>2, <1>3, <1>4, <1>5 DEF Next

LEMMA SessionInvariance == Spec => []SessionInvariant
<1>1. SessionInvariant /\ [Next]_vars => SessionInvariant'
  BY SessionStep
<1> QED BY <1>1, SessionInitially, PTL DEF Spec

\* Type correctness: in particular no entry of a map ever has more than
\* RECONNECT_MAX_ATTEMPTS attempts, also not one that a timer of another connection has
\* written its own count into.
THEOREM SessionTypeCorrect == Spec => []SessionTypeOK
<1>1. SessionInvariant => SessionTypeOK
  BY DEF SessionInvariant
<1> QED BY <1>1, SessionInvariance, PTL

\* There is no infinite reconnect loop: the reconnects decided on are at most
\* RECONNECT_MAX_ATTEMPTS for each socket opened by a start or a request and for each
\* connection that succeeded, for any number of processes, requests and connections.
THEOREM ReconnectsAreBounded == Spec => []RetriesAreBounded
<1>1. SessionInvariant => RetriesAreBounded
  <2> SUFFICES ASSUME SessionInvariant PROVE spare >= 0
    BY DEF RetriesAreBounded
  <2>1. \A c \in Connections : UsedUp[c] \in Nat
    BY Shape, UsedType DEF UsedUp
  <2>2. Cardinality(Left(UsedUp)) \in Nat
    BY <2>1, LeftFinite
  <2> QED BY <2>2, Shape DEF SessionInvariant
<1> QED BY <1>1, SessionInvariance, PTL

\* A socket that the reconnect timer opens, to go on with the keys that its predecessor has
\* flushed, is opened with the keys of a paired phone: no crash, claim or lease in between
\* makes it begin without.
THEOREM KeysAreThere == Spec => []ReconnectsWithItsKeys
<1>1. SessionInvariant => ReconnectsWithItsKeys
  BY Shape DEF ReconnectsWithItsKeys, Fits
<1> QED BY <1>1, SessionInvariance, PTL

-----------------------------------------------------------------------------
(* Every socket in use is watched. *)

\* A request has stopped the heartbeat of process i's socket and will take it out of the map.
Stopping(i) ==
  \E q \in Requests : request[q].step \in {"end", "unlink"} /\ request[q].instance = i

Watched(i) == active[i] # 0 => conn[active[i]].heartbeat \/ Stopping(i)

\* A process that is gone has left nothing behind.
LeavesNothing(i) ==
  process[i] = "gone" => active[i] = 0 /\ \A c \in Connections : conn[c].instance # i

\* A request waits for a process that served it; it may have gone since.
ServedBy(q) ==
  request[q].step \in {"end", "unlink"} =>
    process[request[q].instance] \in {"running", "stopping", "gone"}

WatchInv ==
  /\ \A i \in Instances : Watched(i) /\ LeavesNothing(i)
  /\ \A q \in Requests : ServedBy(q)

\* The connection goes on beating, and with the process it has, if it does not end.
Beats(d) ==
  /\ conn[d].heartbeat => conn'[d].heartbeat
  /\ conn'[d].instance \in {conn[d].instance, "none"}

\* Process i goes on, if it was not gone.
GoesOn(i) ==
  \/ process'[i] = process[i]
  \/ /\ process[i] # "gone" /\ process'[i] # "gone"
     /\ process[i] \in {"running", "stopping"} => process'[i] \in {"running", "stopping"}

\* Its entry stays, and its heartbeat with it, goes, or is a new one.
EntryWatched(i) ==
  \/ active'[i] = 0
  \/ active'[i] = active[i] /\ (conn[active[i]].heartbeat => conn'[active[i]].heartbeat \/ Stopping(i)')
  \/ process[i] # "gone" /\ conn'[active'[i]].heartbeat

\* A request that ends its wait has taken the session out of the map.
RequestDone(q) ==
  \/ request'[q] = request[q]
  \/ /\ request'[q].step \notin {"end", "unlink"}
     /\ request[q].step \in {"end", "unlink"} => active'[request[q].instance] = 0
  \/ request[q].step \notin {"end", "unlink"} /\ process'[request'[q].instance] = "running"

LEMMA WatchGoesOn ==
  ASSUME SessionInvariant, WatchInv,
         \A i \in Instances : GoesOn(i) /\ EntryWatched(i),
         \A d \in Connections : \/ conn'[d].instance \in {conn[d].instance, "none"}
                                \/ process'[conn'[d].instance] # "gone",
         \A q \in Requests : RequestDone(q)
  PROVE  WatchInv'
<1>1. ASSUME NEW i \in Instances, active'[i] # 0 PROVE conn'[active'[i]].heartbeat \/ Stopping(i)'
  <2>1. CASE active'[i] = active[i] /\ conn[active[i]].heartbeat
    BY <1>1, <2>1 DEF EntryWatched
  <2>2. CASE active'[i] = active[i] /\ ~conn[active[i]].heartbeat
    <3>1. PICK q \in Requests : request[q].step \in {"end", "unlink"} /\ request[q].instance = i
      BY <1>1, <2>2 DEF WatchInv, Watched, Stopping
    <3>2. request'[q] = request[q]
      BY <1>1, <3>1 DEF RequestDone
    <3> QED BY <3>1, <3>2 DEF Stopping
  <2> QED BY <1>1, <2>1, <2>2 DEF EntryWatched
<1>2. ASSUME NEW i \in Instances, process'[i] = "gone"
      PROVE  active'[i] = 0 /\ \A d \in Connections : conn'[d].instance # i
  <2>1. process[i] = "gone"
    BY <1>2 DEF GoesOn
  <2>2. active[i] = 0 /\ \A d \in Connections : conn[d].instance # i
    BY <2>1 DEF WatchInv, LeavesNothing
  <2>3. active'[i] = 0
    BY <2>1, <2>2 DEF EntryWatched
  <2>4. ASSUME NEW d \in Connections PROVE conn'[d].instance # i
    BY <1>2, <2>2, SessionAssumption
  <2> QED BY <2>3, <2>4
<1>3. ASSUME NEW q \in Requests, request'[q].step \in {"end", "unlink"}
      PROVE  process'[request'[q].instance] \in {"running", "stopping", "gone"}
  <2>1. CASE request'[q] = request[q]
    <3>1. request[q].instance \in Instances
      BY <1>3, <2>1 DEF SessionInvariant, RequestOK
    <3>2. process[request[q].instance] \in {"running", "stopping", "gone"}
      BY <1>3, <2>1 DEF WatchInv, ServedBy
    <3> QED BY <2>1, <3>1, <3>2 DEF GoesOn
  <2> QED BY <1>3, <2>1 DEF RequestDone
<1> QED BY <1>1, <1>2, <1>3 DEF WatchInv, Watched, LeavesNothing, ServedBy

LEMMA KeepsBeats == ASSUME SessionInvariant, NEW d \in Connections, Keeps(d) PROVE Beats(d)
<1>1. conn[d] \in Conn
  BY Shape
<1> QED BY <1>1 DEF Keeps, Beats, Conn

\* What becomes of one connection when the map, the processes and the requests stay.
LEMMA MapStays ==
  ASSUME SessionInvariant, WatchInv, UNCHANGED <<process, active, request>>,
         \A d \in Connections : Beats(d)
  PROVE  WatchInv'
<1>1. ASSUME NEW i \in Instances PROVE GoesOn(i) /\ EntryWatched(i)
  <2>1. active[i] # 0 => active[i] \in Connections
    BY DEF SessionInvariant, ActiveOK
  <2> QED BY <2>1 DEF GoesOn, EntryWatched, Beats
<1>2. \A q \in Requests : RequestDone(q)
  BY DEF RequestDone
<1>3. \A d \in Connections : conn'[d].instance \in {conn[d].instance, "none"}
  BY DEF Beats
<1> QED BY <1>1, <1>2, <1>3, WatchGoesOn

\* The keys are replaced, and c may change besides.
LEMMA ReplaceBeats ==
  ASSUME SessionInvariant, NEW c \in Connections, NEW cs, Replace(c, cs),
         \A d \in Connections \ {c} : cs[d] = conn[d],
         conn[c].heartbeat => cs[c].heartbeat,
         cs[c].instance \in {conn[c].instance, "none"}
  PROVE  \A d \in Connections : Beats(d)
<1>1. conn'[c] = cs[c] /\ \A d \in Connections \ {c} : Keeps(d)
  BY KeysReplaced
<1>2. Beats(c)
  BY <1>1 DEF Beats
<1> QED BY <1>1, <1>2, KeepsBeats

LEMMA UnchangedBeats ==
  ASSUME UNCHANGED conn PROVE \A d \in Connections : Beats(d)
  BY DEF Beats

LEMMA OverIsNobodys == Over.instance = "none"
  BY DEF Over, NoConn

LEMMA AfterCloseBeats ==
  ASSUME SessionInvariant, NEW c \in Connections
  PROVE  AfterClose(c).instance \in {conn[c].instance, "none"}
<1>1. conn[c] \in Conn
  BY Shape
<1> QED BY <1>1 DEF AfterClose, Over, NoConn

-----------------------------------------------------------------------------
(* What a process does. *)

LEMMA ClaimWatched ==
  ASSUME SessionInvariant, WatchInv, NEW c \in Connections, ClaimLease(c)
  PROVE  WatchInv'
<1> DEFINE i == conn[c].instance
<1>1. conn \in [Connections -> Conn] /\ conn[c] \in Conn /\ ~conn[c].heartbeat /\ i \in Instances
  BY Shape DEF ClaimLease, At, Fits
<1>2. \A d \in Connections : Beats(d)
  <2>1. CASE MayClaim(i)
    <3>1. conn' = [conn EXCEPT ![c].step = "load"]
      BY <2>1 DEF ClaimLease
    <3>2. \A d \in Connections : conn[d] \in Conn
      BY Shape
    <3> QED BY <1>1, <3>1, <3>2 DEF Beats, Conn
  <2>2. CASE ~MayClaim(i)
    <3>1. conn' = [d \in Connections |->
               IF d = c THEN Over
               ELSE IF d = active[i] /\ conn[c].carry > 0
               THEN [conn[d] EXCEPT !.attempts = conn[c].carry]
               ELSE conn[d]]
      BY <2>2 DEF ClaimLease
    <3>2. \A d \in Connections : conn[d] \in Conn
      BY Shape
    <3> HIDE DEF i
    <3> QED BY <1>1, <3>1, <3>2, OverIsNobodys DEF Beats, Conn
  <2> QED BY <2>1, <2>2
<1>3. UNCHANGED <<active, request>> /\ (UNCHANGED process \/ Return(i))
  BY DEF ClaimLease
<1>4. ASSUME NEW j \in Instances PROVE GoesOn(j) /\ EntryWatched(j)
  <2>1. active[j] # 0 => active[j] \in Connections
    BY DEF SessionInvariant, ActiveOK
  <2>2. process'[j] = process[j] \/ (process[j] = "restoring" /\ process'[j] = "running")
    BY <1>1, <1>3, Shape DEF Return
  <2> QED BY <1>2, <1>3, <2>1, <2>2 DEF GoesOn, EntryWatched, Beats
<1>5. \A q \in Requests : RequestDone(q)
  BY <1>3 DEF RequestDone
<1>6. \A d \in Connections : conn'[d].instance \in {conn[d].instance, "none"}
  BY <1>2 DEF Beats
<1> QED BY <1>4, <1>5, <1>6, WatchGoesOn

LEMMA OpenWatched ==
  ASSUME SessionInvariant, WatchInv, NEW c \in Connections, OpenSocket(c)
  PROVE  WatchInv'
<1> DEFINE i == conn[c].instance
<1>1. /\ conn \in [Connections -> Conn] /\ conn[c] \in Conn /\ i \in Instances
      /\ active \in [Instances -> 0..MaxConnects]
  BY Shape DEF OpenSocket, At, Fits
<1>2. /\ conn' = [conn EXCEPT ![c].step = "live", ![c].heartbeat = TRUE,
                              ![c].attempts = conn[c].carry, ![c].carry = 0]
      /\ active' = [active EXCEPT ![i] = c] /\ Return(i) /\ UNCHANGED request
  BY DEF OpenSocket
<1>3. conn'[c].heartbeat /\ conn'[c].instance = i
  BY <1>1, <1>2 DEF Conn
<1>4. \A d \in Connections : Beats(d)
  BY <1>1, <1>2, <1>3 DEF Beats
<1>5. process[i] # "gone"
  BY <1>1 DEF WatchInv, LeavesNothing
<1>6. ASSUME NEW j \in Instances PROVE GoesOn(j) /\ EntryWatched(j)
  <2>1. process'[j] = process[j] \/ (process[j] = "restoring" /\ process'[j] = "running")
    BY <1>1, <1>2, Shape DEF Return
  <2>2. CASE j = i
    <3>1. active'[j] = c
      BY <1>1, <1>2, <2>2
    <3> QED BY <1>3, <1>5, <2>1, <2>2, <3>1 DEF GoesOn, EntryWatched
  <2>3. CASE j # i
    <3>1. active'[j] = active[j] /\ (active[j] # 0 => active[j] \in Connections)
      BY <1>1, <1>2, <2>3 DEF SessionInvariant, ActiveOK
    <3> QED BY <1>4, <2>1, <3>1 DEF GoesOn, EntryWatched, Beats
  <2> QED BY <2>2, <2>3
<1>7. \A q \in Requests : RequestDone(q)
  BY <1>2 DEF RequestDone
<1>8. \A d \in Connections : conn'[d].instance \in {conn[d].instance, "none"}
  BY <1>4 DEF Beats
<1> QED BY <1>6, <1>7, <1>8, WatchGoesOn

\* Steps of a connection that leave the map alone.
LEMMA LocalWatched ==
  ASSUME SessionInvariant, WatchInv, NEW c \in Connections,
         \/ LoadAuth(c) \/ ShowQr(c) \/ Scan(c) \/ FlushLater(c) \/ Opened(c)
         \/ WriteConnected(c) \/ FlushOpened(c)
         \/ WriteOutcome(c) \/ FlushBeforeReconnect(c)
  PROVE  WatchInv'
<1>1. /\ conn \in [Connections -> Conn] /\ conn[c] \in Conn /\ Fits(conn[c], paired)
      /\ \A d \in Connections : conn[d] \in Conn
  BY Shape
<1>2. UNCHANGED <<process, active, request>>
  BY DEF LoadAuth, ShowQr, Scan, FlushLater, Opened, WriteConnected, FlushOpened, WriteOutcome,
         FlushBeforeReconnect, history
<1>3. \A d \in Connections : Beats(d)
  <2>1. CASE LoadAuth(c)
    BY <1>1, <2>1 DEF LoadAuth, Beats, Conn
  <2>2. CASE ShowQr(c)
    BY <2>2, UnchangedBeats DEF ShowQr
  <2>3. CASE Scan(c)
    BY <1>1, <2>3 DEF Scan, Beats, Conn
  <2>4. CASE FlushLater(c)
    BY <2>4, ReplaceBeats DEF FlushLater
  <2>5. CASE Opened(c)
    BY <1>1, <2>5 DEF Opened, Beats, Conn
  <2>6. CASE WriteConnected(c)
    BY <1>1, <2>6 DEF WriteConnected, Beats, Conn
  <2>7. CASE FlushOpened(c)
    <3> DEFINE cs == [conn EXCEPT ![c] = IF At(c, "done") THEN Over ELSE [@ EXCEPT !.opening = "no"]]
    <3>1. Replace(c, cs)
      BY <2>7 DEF FlushOpened
    <3>2. \A d \in Connections \ {c} : cs[d] = conn[d]
      BY <1>1
    <3>3. /\ conn[c].heartbeat => cs[c].heartbeat
          /\ cs[c].instance \in {conn[c].instance, "none"}
      BY <1>1, OverIsNobodys DEF At, Fits, Conn
    <3> HIDE DEF cs
    <3> QED BY <3>1, <3>2, <3>3, ReplaceBeats
  <2>8. CASE WriteOutcome(c)
    <3> DEFINE out == conn[c].outcome
               new == IF out = "RECONNECTING"
                      THEN [conn[c] EXCEPT !.step = "flush", !.outcome = "none"]
                      ELSE AfterClose(c)
               cs == [conn EXCEPT ![c] = IF out = "RECONNECTING"
                                         THEN [@ EXCEPT !.step = "flush", !.outcome = "none"]
                                         ELSE AfterClose(c)]
    <3>1. cs = [conn EXCEPT ![c] = new] /\ ~conn[c].heartbeat
      BY <1>1, <2>8 DEF WriteOutcome, At, Fits
    <3>2. new \in Conn /\ new.instance \in {conn[c].instance, "none"}
      BY <1>1, AfterCloseOK, AfterCloseBeats DEF Conn, Steps
    <3>3. conn' = cs \/ conn' = [d \in Connections |-> [cs[d] EXCEPT !.expects = FALSE]]
      BY <2>8 DEF WriteOutcome
    <3> HIDE DEF new, cs
    <3>4. \A d \in Connections : cs[d] = IF d = c THEN new ELSE conn[d]
      BY <1>1, <3>1
    <3> QED BY <1>1, <3>1, <3>2, <3>3, <3>4 DEF Beats, Conn
  <2>9. CASE FlushBeforeReconnect(c)
    <3> DEFINE cs == [conn EXCEPT ![c].step = "timer", ![c].expects = TRUE]
    <3>1. CASE Replace(c, cs)
      <4>1. \A d \in Connections \ {c} : cs[d] = conn[d]
        BY <1>1
      <4>2. /\ conn[c].heartbeat => cs[c].heartbeat
            /\ cs[c].instance \in {conn[c].instance, "none"}
        BY <1>1 DEF Conn
      <4> HIDE DEF cs
      <4> QED BY <3>1, <4>1, <4>2, ReplaceBeats
    <3>2. CASE conn' = [conn EXCEPT ![c].step = "timer"]
      BY <1>1, <3>2 DEF Beats, Conn
    <3> QED BY <2>9, <3>1, <3>2 DEF FlushBeforeReconnect
  <2> QED BY <2>1, <2>2, <2>3, <2>4, <2>5, <2>6, <2>7, <2>8, <2>9
<1> QED BY <1>2, <1>3, MapStays

\* A call of connect(), by a process that is there afterwards: nobody's heartbeat stops.
LEMMA CallBeats ==
  ASSUME SessionInvariant, NEW i \in Instances, NEW k, NEW e, NEW cs,
         cs \in [Connections -> Conn], Call(i, k, e, cs),
         \A d \in Connections : /\ conn[d].heartbeat => cs[d].heartbeat
                                /\ cs[d].instance \in {conn[d].instance, "none"}
  PROVE  \A d \in Connections : /\ conn[d].heartbeat => conn'[d].heartbeat
                                /\ conn'[d].instance \in {conn[d].instance, "none", i}
<1>1. CASE active[i] # 0
  <2>1. active[i] \in Connections
    BY <1>1 DEF SessionInvariant, ActiveOK
  <2>2. conn' = cs \/ conn' = [cs EXCEPT ![active[i]].attempts = k]
    BY <1>1 DEF Call
  <2>3. \A d \in Connections : cs[d] \in Conn
    OBVIOUS
  <2> QED BY <2>1, <2>2, <2>3 DEF Conn
<1>2. CASE active[i] = 0
  <2> DEFINE n == NextFree
  <2>1. Unused # {} /\ conn' = [cs EXCEPT ![n] = Claiming(i, k, e)]
    BY <1>2 DEF Call, Claiming
  <2>2. n \in Connections /\ conn[n].step = "free"
    BY <2>1, NextFreeIsUnused DEF Unused
  <2> HIDE DEF n
  <2>3. ~conn[n].heartbeat
    BY <2>2, Shape DEF Fits
  <2>4. Claiming(i, k, e).instance = i
    BY DEF Claiming, NoConn
  <2> QED BY <2>1, <2>2, <2>3, <2>4
<1> QED BY <1>1, <1>2

\* A step that calls connect() in a process that is there.
LEMMA CallWatched ==
  ASSUME SessionInvariant, WatchInv, NEW i \in Instances, NEW k, NEW e, NEW cs,
         cs \in [Connections -> Conn], Call(i, k, e, cs),
         \A d \in Connections : /\ conn[d].heartbeat => cs[d].heartbeat
                                /\ cs[d].instance \in {conn[d].instance, "none"},
         UNCHANGED active, process'[i] # "gone",
         \A j \in Instances : GoesOn(j),
         \A q \in Requests : RequestDone(q)
  PROVE  WatchInv'
<1>1. \A d \in Connections : /\ conn[d].heartbeat => conn'[d].heartbeat
                             /\ conn'[d].instance \in {conn[d].instance, "none", i}
  BY CallBeats
<1>2. ASSUME NEW j \in Instances PROVE EntryWatched(j)
  <2>1. active[j] # 0 => active[j] \in Connections
    BY DEF SessionInvariant, ActiveOK
  <2> QED BY <1>1, <2>1 DEF EntryWatched
<1>3. \A d \in Connections : \/ conn'[d].instance \in {conn[d].instance, "none"}
                             \/ process'[conn'[d].instance] # "gone"
  BY <1>1
<1> QED BY <1>2, <1>3, WatchGoesOn

LEMMA ReconnectWatched ==
  ASSUME SessionInvariant, WatchInv, NEW c \in Connections, Reconnect(c)
  PROVE  WatchInv'
<1> DEFINE i == conn[c].instance
           cs == [conn EXCEPT ![c] = AfterClose(c)]
<1>1. /\ conn \in [Connections -> Conn] /\ conn[c] \in Conn /\ i \in Instances /\ ~conn[c].heartbeat
  BY Shape DEF Reconnect, At, Fits
<1>2. cs \in [Connections -> Conn]
  BY <1>1, AfterCloseOK
<1>3. \A d \in Connections : /\ conn[d].heartbeat => cs[d].heartbeat
                             /\ cs[d].instance \in {conn[d].instance, "none"}
  BY <1>1, AfterCloseBeats
<1>4. /\ Call(i, conn[c].attempts + 1, conn[c].expects, cs)
      /\ UNCHANGED <<process, active, request>>
  BY DEF Reconnect
<1>5. process'[i] # "gone"
  BY <1>1, <1>4 DEF WatchInv, LeavesNothing
<1>6. (\A j \in Instances : GoesOn(j)) /\ \A q \in Requests : RequestDone(q)
  BY <1>4 DEF GoesOn, RequestDone
<1>7. UNCHANGED active
  BY <1>4
<1> HIDE DEF i, cs
<1> QED BY <1>1, <1>2, <1>3, <1>4, <1>5, <1>6, <1>7, CallWatched

\* Socket c of process i closes; c was its entry in the map, or is not in the map.
LEMMA EntryGoes ==
  ASSUME SessionInvariant, WatchInv, NEW c \in Connections, NEW i \in Instances,
         active' = [active EXCEPT ![i] = 0], UNCHANGED process,
         \A d \in Connections \ {c} : Beats(d),
         Beats(c) \/ (Live(c) /\ conn[c].instance = i /\ conn'[c].instance = i),
         \A q \in Requests : RequestDone(q)
  PROVE  WatchInv'
<1>1. ASSUME NEW j \in Instances PROVE GoesOn(j) /\ EntryWatched(j)
  <2>1. CASE j = i
    BY <2>1, Shape DEF GoesOn, EntryWatched
  <2>2. CASE j # i
    <3>1. active'[j] = active[j]
      BY <2>2, Shape
    <3>2. active[j] # 0 => active[j] \in Connections /\ conn[active[j]].instance = j
      BY DEF SessionInvariant, ActiveOK
    <3> QED BY <2>2, <3>1, <3>2 DEF GoesOn, EntryWatched, Beats
  <2> QED BY <2>1, <2>2
<1>2. \A d \in Connections : conn'[d].instance \in {conn[d].instance, "none"}
  BY DEF Beats
<1> QED BY <1>1, <1>2, WatchGoesOn

LEMMA ClosingStays ==
  ASSUME SessionInvariant, NEW c \in Connections, NEW reason
  PROVE  Closing(c, reason).instance = conn[c].instance
<1>1. conn[c] \in Conn
  BY Shape
<1> QED BY <1>1 DEF Closing, Conn

\* A socket of process i that is alive closes and the entry of the process goes.
LEMMA ClosesWatched ==
  ASSUME SessionInvariant, WatchInv, NEW c \in Connections, Live(c), NEW reason,
         conn' = [conn EXCEPT ![c] = Closing(c, reason)],
         active' = [active EXCEPT ![conn[c].instance] = 0],
         UNCHANGED <<process, request>>
  PROVE  WatchInv'
<1>1. conn \in [Connections -> Conn] /\ conn[c].instance \in Instances
  BY Shape DEF Live, Fits
<1>2. \A d \in Connections \ {c} : Beats(d)
  BY <1>1 DEF Beats
<1>3. conn'[c].instance = conn[c].instance
  BY <1>1, ClosingStays
<1>4. \A q \in Requests : RequestDone(q)
  BY DEF RequestDone
<1> QED BY <1>1, <1>2, <1>3, <1>4, EntryGoes

LEMMA ClosedWatched ==
  ASSUME SessionInvariant, WatchInv, NEW c \in Connections, Closed(c)
  PROVE  WatchInv'
  BY ClosesWatched DEF Closed

LEMMA HeartbeatWatched ==
  ASSUME SessionInvariant, WatchInv, NEW c \in Connections, Heartbeat(c)
  PROVE  WatchInv'
<1> DEFINE i == conn[c].instance
<1>1. i \in Instances
  BY Shape DEF Heartbeat, Fits
<1>2. CASE MayClaim(i)
  <2>1. UNCHANGED <<process, active, request, conn>>
    BY <1>2 DEF Heartbeat
  <2> QED BY <2>1, UnchangedBeats, MapStays
<1>3. CASE ~MayClaim(i)
  <2> DEFINE d == active[i]
  <2>1. /\ d # 0 /\ conn' = [conn EXCEPT ![d] = Closing(d, "lost")]
        /\ active' = [active EXCEPT ![i] = 0]
        /\ UNCHANGED <<process, request>>
    BY <1>3 DEF Heartbeat
  <2>2. d \in Connections /\ Live(d) /\ conn[d].instance = i
    BY <1>1, <2>1 DEF SessionInvariant, ActiveOK
  <2> HIDE DEF d, i
  <2> QED BY <2>1, <2>2, ClosesWatched
<1> QED BY <1>2, <1>3

-----------------------------------------------------------------------------
(* Processes, time and requests. *)

LEMMA StartWatched ==
  ASSUME SessionInvariant, WatchInv, NEW i \in Instances, StartProcess(i)
  PROVE  WatchInv'
<1>1. /\ UNCHANGED <<active, request>> /\ process[i] = "new"
      /\ process' = [process EXCEPT ![i] = "restoring"] \/ process' = [process EXCEPT ![i] = "running"]
  BY DEF StartProcess
<1>2. process'[i] # "gone" /\ (\A j \in Instances : GoesOn(j)) /\ \A q \in Requests : RequestDone(q)
  BY <1>1, Shape DEF GoesOn, RequestDone
<1>3. conn \in [Connections -> Conn] /\ UNCHANGED active
  BY <1>1, Shape
<1>4. CASE Call(i, 0, FALSE, conn)
  BY <1>2, <1>3, <1>4, CallWatched
<1>5. CASE UNCHANGED conn
  <2>1. \A j \in Instances : EntryWatched(j)
    BY <1>1, <1>5 DEF EntryWatched
  <2> QED BY <1>2, <1>5, <2>1, WatchGoesOn
<1> QED BY <1>4, <1>5 DEF StartProcess

LEMMA ShutdownWatched ==
  ASSUME SessionInvariant, WatchInv, NEW i \in Instances, Shutdown(i)
  PROVE  WatchInv'
<1>1. /\ UNCHANGED <<active, request>> /\ process[i] = "running"
      /\ process' = [process EXCEPT ![i] = "stopping"]
  BY DEF Shutdown
<1>2. \A d \in Connections : Beats(d)
  <2>1. CASE active[i] # 0
    <3>1. active[i] \in Connections /\ Replace(active[i], conn)
      BY <2>1 DEF Shutdown, SessionInvariant, ActiveOK
    <3> QED BY <3>1, ReplaceBeats
  <2>2. CASE active[i] = 0
    BY <2>2, UnchangedBeats DEF Shutdown
  <2> QED BY <2>1, <2>2
<1>3. ASSUME NEW j \in Instances PROVE GoesOn(j) /\ EntryWatched(j)
  <2>1. active[j] # 0 => active[j] \in Connections
    BY DEF SessionInvariant, ActiveOK
  <2>2. GoesOn(j)
    BY <1>1, Shape DEF GoesOn
  <2> QED BY <1>1, <1>2, <2>1, <2>2 DEF EntryWatched, Beats
<1>4. \A q \in Requests : RequestDone(q)
  BY <1>1 DEF RequestDone
<1>5. \A d \in Connections : conn'[d].instance \in {conn[d].instance, "none"}
  BY <1>2 DEF Beats
<1> QED BY <1>3, <1>4, <1>5, WatchGoesOn

LEMMA ExitWatched ==
  ASSUME SessionInvariant, WatchInv, NEW i \in Instances, Exit(i)
  PROVE  WatchInv'
<1>1. /\ process' = [process EXCEPT ![i] = "gone"] /\ active' = [active EXCEPT ![i] = 0]
      /\ conn' = [c \in Connections |-> IF conn[c].instance = i THEN Over ELSE conn[c]]
      /\ UNCHANGED request
  BY DEF Exit
<1>2. /\ process \in [Instances -> {"new", "restoring", "running", "stopping", "gone"}]
      /\ active \in [Instances -> 0..MaxConnects]
  BY Shape
<1>3. ASSUME NEW j \in Instances PROVE Watched(j)' /\ LeavesNothing(j)'
  <2>1. CASE j = i
    <3>1. active'[i] = 0
      BY <1>1, <1>2
    <3>2. \A c \in Connections : conn'[c].instance # i
      BY <1>1, OverIsNobodys, SessionAssumption
    <3> QED BY <2>1, <3>1, <3>2 DEF Watched, LeavesNothing
  <2>2. CASE j # i
    <3>1. active'[j] = active[j] /\ process'[j] = process[j]
      BY <1>1, <1>2, <2>2
    <3>2. active[j] # 0 => active[j] \in Connections /\ conn[active[j]].instance = j
      BY DEF SessionInvariant, ActiveOK
    <3>3. Watched(j)'
      BY <1>1, <2>2, <3>1, <3>2 DEF WatchInv, Watched, Stopping
    <3>4. LeavesNothing(j)'
      BY <1>1, <3>1, OverIsNobodys, SessionAssumption DEF WatchInv, LeavesNothing
    <3> QED BY <3>3, <3>4
  <2> QED BY <2>1, <2>2
<1>4. ASSUME NEW q \in Requests PROVE ServedBy(q)'
  <2>1. request[q].step \in {"end", "unlink"} => request[q].instance \in Instances
    BY DEF SessionInvariant, RequestOK
  <2> QED BY <1>1, <1>2, <2>1 DEF WatchInv, ServedBy
<1> QED BY <1>3, <1>4 DEF WatchInv

\* A request that waits for no socket goes on.
LEMMA GotoDone ==
  ASSUME SessionInvariant, NEW q \in Requests, NEW step, Goto(q, step),
         request[q].step \notin {"end", "unlink"}, step \notin {"end", "unlink"}
  PROVE  \A p \in Requests : RequestDone(p)
<1>1. request \in [Requests -> Request] /\ request[q] \in Request
  BY Shape
<1>2. request'[q].step = step /\ \A p \in Requests \ {q} : request'[p] = request[p]
  BY <1>1 DEF Goto, Request
<1> QED BY <1>2 DEF RequestDone

\* Requests that leave the sockets alone, or change no more than whose keys can be counted on.
LEMMA RequestWatched ==
  ASSUME SessionInvariant, WatchInv, UNCHANGED <<process, active>>,
         \A d \in Connections : Beats(d),
         \A q \in Requests : RequestDone(q)
  PROVE  WatchInv'
<1>1. ASSUME NEW i \in Instances PROVE GoesOn(i) /\ EntryWatched(i)
  <2>1. active[i] # 0 => active[i] \in Connections
    BY DEF SessionInvariant, ActiveOK
  <2> QED BY <2>1 DEF GoesOn, EntryWatched, Beats
<1>2. \A d \in Connections : conn'[d].instance \in {conn[d].instance, "none"}
  BY DEF Beats
<1> QED BY <1>1, <1>2, WatchGoesOn

LEMMA AskWatched ==
  ASSUME SessionInvariant, WatchInv, NEW q \in Requests,
         AskReconnect(q) \/ AskDisconnect(q) \/ AskLogout(q)
  PROVE  WatchInv'
<1>1. PICK step \in {"connect", "disconnect", "logout"} : Goto(q, step)
  BY DEF AskReconnect, AskDisconnect, AskLogout, Ask
<1>2. UNCHANGED <<process, active, conn>> /\ request[q].step = "new"
  BY DEF AskReconnect, AskDisconnect, AskLogout, Ask
<1>3. \A p \in Requests : RequestDone(p)
  BY <1>1, <1>2, GotoDone
<1> QED BY <1>2, <1>3, UnchangedBeats, RequestWatched

LEMMA ServeConnectWatched ==
  ASSUME SessionInvariant, WatchInv, NEW q \in Requests, ServeConnect(q)
  PROVE  WatchInv'
<1>1. PICK i \in Instances : Serves(i) /\ Call(i, 0, FALSE, conn)
  BY DEF ServeConnect
<1>2. /\ UNCHANGED <<process, active>> /\ UNCHANGED active /\ Goto(q, "done")
      /\ request[q].step = "connect"
  BY DEF ServeConnect
<1>3. \A p \in Requests : RequestDone(p)
  BY <1>2, GotoDone
<1>4. process'[i] # "gone" /\ \A j \in Instances : GoesOn(j)
  BY <1>1, <1>2 DEF Serves, GoesOn
<1>5. conn \in [Connections -> Conn]
  BY Shape
<1> QED BY <1>1, <1>2, <1>3, <1>4, <1>5, CallWatched

LEMMA ServeStopWatched ==
  ASSUME SessionInvariant, WatchInv, NEW q \in Requests, ServeStop(q)
  PROVE  WatchInv'
<1>1. /\ UNCHANGED <<process, active>> /\ request \in [Requests -> Request]
      /\ conn \in [Connections -> Conn] /\ request[q].step \in {"disconnect", "logout"}
  BY Shape DEF ServeStop
<1>2. PICK i \in Instances :
        /\ Serves(i)
        /\ \/ /\ active[i] = 0 /\ UNCHANGED conn
              /\ request' = [request EXCEPT ![q].step =
                   IF @ = "disconnect" THEN "writeDisconnect" ELSE "writeLogout"]
           \/ /\ active[i] # 0
              /\ request' = [request EXCEPT ![q] =
                   [step |-> [disconnect |-> "end", logout |-> "unlink"][request[q].step],
                    instance |-> i, conn |-> active[i]]]
              /\ conn' = [conn EXCEPT ![active[i]].heartbeat = FALSE]
  BY DEF ServeStop
<1>3. CASE UNCHANGED conn /\ request' = [request EXCEPT ![q].step =
                IF @ = "disconnect" THEN "writeDisconnect" ELSE "writeLogout"]
  <2>1. \E step \in {"writeDisconnect", "writeLogout"} : Goto(q, step)
    BY <1>1, <1>3 DEF Goto
  <2>2. \A p \in Requests : RequestDone(p)
    BY <1>1, <2>1, GotoDone
  <2> QED BY <1>1, <1>3, <2>2, UnchangedBeats, RequestWatched
<1>4. CASE /\ active[i] # 0
           /\ request' = [request EXCEPT ![q] =
                [step |-> [disconnect |-> "end", logout |-> "unlink"][request[q].step],
                 instance |-> i, conn |-> active[i]]]
           /\ conn' = [conn EXCEPT ![active[i]].heartbeat = FALSE]
  <2> DEFINE c == active[i]
  <2>1. c \in Connections /\ conn[c] \in Conn /\ conn[c].instance = i
    BY <1>4, Shape DEF SessionInvariant, ActiveOK
  <2>2. /\ request'[q].step \in {"end", "unlink"} /\ request'[q].instance = i
        /\ \A p \in Requests \ {q} : request'[p] = request[p]
    BY <1>1, <1>4
  <2>3. conn'[c].instance = i /\ \A d \in Connections \ {c} : conn'[d] = conn[d]
    BY <1>1, <1>4, <2>1 DEF Conn
  <2>4. Stopping(i)'
    BY <2>2 DEF Stopping
  <2>5. ASSUME NEW j \in Instances PROVE GoesOn(j) /\ EntryWatched(j)
    <3>1. CASE j = i
      BY <1>1, <2>4, <3>1 DEF GoesOn, EntryWatched
    <3>2. CASE j # i
      <4>1. active[j] # 0 => active[j] \in Connections /\ conn[active[j]].instance = j
        BY DEF SessionInvariant, ActiveOK
      <4>2. active[j] # 0 => conn'[active[j]] = conn[active[j]]
        BY <2>1, <2>3, <3>2, <4>1
      <4> QED BY <1>1, <4>2 DEF GoesOn, EntryWatched
    <3> QED BY <3>1, <3>2
  <2>6. ASSUME NEW p \in Requests PROVE RequestDone(p)
    <3>1. process'[i] = "running"
      BY <1>1, <1>2 DEF Serves
    <3> QED BY <1>1, <2>2, <3>1 DEF RequestDone
  <2>7. \A d \in Connections : conn'[d].instance \in {conn[d].instance, "none"}
    BY <2>1, <2>3
  <2> QED BY <2>5, <2>6, <2>7, WatchGoesOn
<1> QED BY <1>2, <1>3, <1>4

\* A request may be dropped while it waits only when its process is gone, with its map.
LEMMA CallFailsWatched ==
  ASSUME SessionInvariant, WatchInv, NEW q \in Requests, CallFails(q)
  PROVE  WatchInv'
<1> DEFINE step == CASE request[q].step = "connect" -> "done"
                     [] request[q].step \in {"disconnect", "end"} -> "writeDisconnect"
                     [] OTHER -> "writeLogout"
           new == [step |-> step, instance |-> "none", conn |-> 0]
<1>1. UNCHANGED <<process, active, conn>> /\ request \in [Requests -> Request]
  BY Shape DEF CallFails
<1>2. request' = [request EXCEPT ![q] = new]
  BY <1>1 DEF CallFails
<1>3. step \in {"done", "writeDisconnect", "writeLogout"}
  OBVIOUS
<1> HIDE DEF step
<1>4. request'[q].step \notin {"end", "unlink"} /\ \A p \in Requests \ {q} : request'[p] = request[p]
  BY <1>1, <1>2, <1>3
<1>5. ASSUME request[q].step \in {"end", "unlink"} PROVE active[request[q].instance] = 0
  <2>1. ~Lives(request[q].instance) /\ request[q].instance \in Instances
    BY <1>5 DEF CallFails, SessionInvariant, RequestOK
  <2>2. process[request[q].instance] = "gone"
    BY <1>5, <2>1 DEF Lives, WatchInv, ServedBy
  <2> QED BY <2>1, <2>2 DEF WatchInv, LeavesNothing
<1>6. \A p \in Requests : RequestDone(p)
  BY <1>1, <1>4, <1>5 DEF RequestDone
<1> QED BY <1>1, <1>6, UnchangedBeats, RequestWatched

LEMMA TakenOut ==
  ASSUME SessionInvariant, NEW q \in Requests, NEW i, i = request[q].instance, i \in Instances,
         active' = [active EXCEPT ![i] = 0], NEW new,
         request' = [request EXCEPT ![q] = new], new.step \notin {"end", "unlink"}
  PROVE  \A p \in Requests : RequestDone(p)
<1>1. request'[q] = new /\ \A p \in Requests \ {q} : request'[p] = request[p]
  BY Shape
<1>2. active'[i] = 0
  BY Shape
<1> QED BY <1>1, <1>2 DEF RequestDone

LEMMA EndSocketWatched ==
  ASSUME SessionInvariant, WatchInv, NEW q \in Requests, EndSocket(q)
  PROVE  WatchInv'
<1> DEFINE c == request[q].conn
           i == request[q].instance
           cs == [conn EXCEPT ![c] = IF Live(c) THEN Closing(c, "lost") ELSE @]
           gone == [step |-> "writeDisconnect", instance |-> "none", conn |-> 0]
<1>1. /\ i \in Instances /\ c \in Connections
      /\ Live(c) => conn[c].instance = i
  BY DEF SessionInvariant, RequestOK, EndSocket
<1>2. /\ Replace(c, cs) /\ active' = [active EXCEPT ![i] = 0]
      /\ request' = [request EXCEPT ![q] = gone] /\ UNCHANGED process
  BY DEF EndSocket
<1>3. \A p \in Requests : RequestDone(p)
  <2>1. gone.step \notin {"end", "unlink"}
    OBVIOUS
  <2> HIDE DEF gone
  <2> QED BY <1>1, <1>2, <2>1, TakenOut
<1>4. conn \in [Connections -> Conn]
  BY Shape
<1>5. /\ cs[c] = IF Live(c) THEN Closing(c, "lost") ELSE conn[c]
      /\ \A d \in Connections \ {c} : cs[d] = conn[d]
  BY <1>1, <1>4
<1> HIDE DEF c, i, cs, gone
<1>6. conn'[c] = cs[c] /\ \A d \in Connections \ {c} : Keeps(d)
  BY <1>1, <1>2, <1>5, KeysReplaced
<1>7. \A d \in Connections \ {c} : Beats(d)
  BY <1>6, KeepsBeats
<1>8. Beats(c) \/ (Live(c) /\ conn[c].instance = i /\ conn'[c].instance = i)
  BY <1>1, <1>5, <1>6, ClosingStays DEF Beats
<1> QED BY <1>1, <1>2, <1>3, <1>7, <1>8, EntryGoes

LEMMA UnlinkWatched ==
  ASSUME SessionInvariant, WatchInv, NEW q \in Requests, Unlink(q)
  PROVE  WatchInv'
<1> DEFINE c == request[q].conn
           i == request[q].instance
           gone == [step |-> "writeLogout", instance |-> "none", conn |-> 0]
<1>1. /\ i \in Instances /\ c \in Connections
      /\ Live(c) => conn[c].instance = i
  BY DEF SessionInvariant, RequestOK, Unlink
<1>2. /\ \/ conn' = [conn EXCEPT ![c] = IF Live(c) THEN Closing(c, "loggedOut") ELSE @]
         \/ UNCHANGED conn
      /\ active' = [active EXCEPT ![i] = 0]
      /\ request' = [request EXCEPT ![q] = gone] /\ UNCHANGED process
  BY DEF Unlink
<1>3. \A p \in Requests : RequestDone(p)
  <2>1. gone.step \notin {"end", "unlink"}
    OBVIOUS
  <2> HIDE DEF gone
  <2> QED BY <1>1, <1>2, <2>1, TakenOut
<1>4. conn \in [Connections -> Conn]
  BY Shape
<1> HIDE DEF c, i, gone
<1>5. /\ conn'[c] \in {conn[c], IF Live(c) THEN Closing(c, "loggedOut") ELSE conn[c]}
      /\ \A d \in Connections \ {c} : conn'[d] = conn[d]
  BY <1>1, <1>2, <1>4
<1>6. \A d \in Connections \ {c} : Beats(d)
  BY <1>5 DEF Beats
<1>7. Beats(c) \/ (Live(c) /\ conn[c].instance = i /\ conn'[c].instance = i)
  BY <1>1, <1>5, ClosingStays DEF Beats
<1> QED BY <1>1, <1>2, <1>3, <1>6, <1>7, EntryGoes

LEMMA RowWrittenWatched ==
  ASSUME SessionInvariant, WatchInv, NEW q \in Requests, WriteDisconnected(q) \/ WriteLoggedOut(q)
  PROVE  WatchInv'
<1>1. /\ UNCHANGED <<process, active>> /\ Goto(q, "done")
      /\ request[q].step \in {"writeDisconnect", "writeLogout"}
  BY DEF WriteDisconnected, WriteLoggedOut
<1>2. \A d \in Connections : conn[d] \in Conn
  BY Shape
<1>3. \A d \in Connections : Beats(d)
  BY <1>2 DEF WriteDisconnected, WriteLoggedOut, Beats, Conn
<1>4. \A p \in Requests : RequestDone(p)
  BY <1>1, GotoDone
<1> QED BY <1>1, <1>3, <1>4, RequestWatched

LEMMA WatchStep == ASSUME SessionInvariant, WatchInv, [Next]_vars PROVE WatchInv'
<1>1. ASSUME NEW c \in Connections, Handle(c) \/ Event(c) \/ Heartbeat(c) PROVE WatchInv'
  <2>1. CASE Handle(c)
    BY <2>1, ClaimWatched, OpenWatched, LocalWatched, ReconnectWatched DEF Handle
  <2>2. CASE Event(c)
    BY <2>2, LocalWatched, ClosedWatched DEF Event
  <2>3. CASE Heartbeat(c)
    BY <2>3, HeartbeatWatched
  <2> QED BY <1>1, <2>1, <2>2, <2>3
<1>2. CASE Stale
  <2>1. UNCHANGED <<process, active, request, conn>>
    BY <1>2 DEF Stale
  <2> QED BY <2>1, UnchangedBeats, MapStays
<1>3. ASSUME NEW i \in Instances, StartProcess(i) \/ Shutdown(i) \/ Exit(i) PROVE WatchInv'
  BY <1>3, StartWatched, ShutdownWatched, ExitWatched
<1>4. ASSUME NEW q \in Requests, AskReconnect(q) \/ AskDisconnect(q) \/ AskLogout(q) \/ Serve(q)
      PROVE  WatchInv'
  <2>1. CASE Serve(q)
    BY <2>1, ServeConnectWatched, ServeStopWatched, CallFailsWatched, EndSocketWatched,
       UnlinkWatched, RowWrittenWatched DEF Serve
  <2> QED BY <1>4, <2>1, AskWatched
<1>5. CASE UNCHANGED vars
  <2>1. UNCHANGED <<process, active, request, conn>>
    BY <1>5 DEF vars
  <2> QED BY <2>1, UnchangedBeats, MapStays
<1> QED BY <1>1, <1>2, <1>3, <1>4, <1>5 DEF Next

LEMMA WatchInvariance == Spec => [](SessionInvariant /\ WatchInv)
<1>1. Init => SessionInvariant /\ WatchInv
  <2>1. Init => WatchInv
    BY DEF Init, WatchInv, Watched, LeavesNothing, ServedBy
  <2> QED BY <2>1, SessionInitially
<1>2. SessionInvariant /\ WatchInv /\ [Next]_vars => (SessionInvariant /\ WatchInv)'
  BY SessionStep, WatchStep
<1> QED BY <1>1, <1>2, PTL DEF Spec

\* Every socket in use is watched, for any number of processes, connections and requests: the
\* one in a process's map has a heartbeat that asks for the lease, or a request has stopped it
\* and is still about to take the socket out.  No crossing of events, timers, requests and
\* crashes leaves a socket that nobody would take down when the lease is lost.
THEOREM SocketsHaveTheirWatch == Spec => []SocketsAreWatched
<1>1. WatchInv => SocketsAreWatched
  BY DEF WatchInv, Watched, Stopping, SocketsAreWatched
<1> QED BY <1>1, WatchInvariance, PTL

=============================================================================
