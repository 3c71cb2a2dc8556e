-------------------------- MODULE TopSQLSource_proofs --------------------------
(***************************************************************************)
(* Proofs about TopSQLSource, for every number of proxies and whatever a    *)
(* server sends.                                                            *)
(***************************************************************************)
EXTENDS TopSQLSource, FiniteSetTheorems, SequenceTheorems, WellFoundedInduction, TLAPS

LEMMA Constants ==
  /\ MaxDelay \in Nat /\ MaxFailures \in Nat \ {0} /\ MaxProxies \in Nat
  /\ \A d \in InitDelays : d \in Nat /\ (d = 0 \/ d * PowerOf2[MaxFailures] >= MaxDelay)
  /\ \A r \in Responses["tidb"] \cup Responses["tikv"] \cup {InstanceTick} : r # None
  /\ NoProxy \notin Proxies
BY SourceAssumption DEF SourceAssumption, NoProxy, Proxies

(* TypeOK, without the numbers and without the proxies.                     *)
Shape ==
  /\ tls \in BOOLEAN /\ instance_type \in {"tidb", "tikv"} /\ init_retry_delay \in InitDelays
  /\ pc \in {"endpoint", "connect", "subscribe", "stream", "send", "sleep", "ended", "panicked"}
  /\ response \in Responses[instance_type] \cup {InstanceTick, None}
  /\ response # None <=> pc \in {"send", "panicked"}
  /\ reachable \in BOOLEAN /\ accepting \in BOOLEAN /\ told \in BOOLEAN

Delays == retry_delay \in Nat /\ failures \in 0..MaxFailures

Owned ==
  /\ proxies \in [Proxies -> ProxyState]
  /\ mine \in Proxies \cup {NoProxy}
  /\ mine # NoProxy <=> tls /\ pc \in {"connect", "subscribe", "stream", "send"}

LEMMA TypesByPart == TypeOK <=> Shape /\ Delays /\ Owned
BY Zenon DEF TypeOK, Shape, Delays, Owned

(* What moves the delay, and what moves the proxies.                        *)
LEMMA DelayMoves ==
  ASSUME Next
  PROVE  UNCHANGED delay \/ Subscribe \/ RetryDelay
BY DEF Next, ChangeServer, ChangeRoom, Tell, SourceStep, BuildEndpoint, Connect, WakeUp, RetryNow, Handle,
       Sent, SourceExits, ProxyStep, ClientCloses, ServerCloses, TransferFails, ProxyTold, SetProxy

LEMMA ShapeKept ==
  ASSUME Shape, Next
  PROVE  Shape'
<1> USE Constants
<1>1. CASE ChangeServer \/ ChangeRoom \/ Tell
  BY <1>1 DEF Shape, ChangeServer, ChangeRoom, Tell, config, sending
<1>2. CASE BuildEndpoint \/ Connect \/ Subscribe \/ RetryDelay \/ WakeUp
  BY <1>2 DEF Shape, BuildEndpoint, Connect, Subscribe, RetryDelay, WakeUp, config, sending, environment
<1>3. CASE RetryNow \/ SourceExits
  BY <1>3 DEF Shape, RetryNow, SourceExits, Alive, config, sending, environment
<1>4. CASE Sent
  BY <1>4 DEF Shape, Sent, config, environment
<1>5. CASE \E r \in Responses[instance_type] \cup {InstanceTick} : Handle(r)
  <2> PICK r \in Responses[instance_type] \cup {InstanceTick} : Handle(r)  BY <1>5
  <2>1. r # None  BY DEF Shape
  <2>2. CASE parse_panics(r)  BY <2>2 DEF Shape, Handle, config, sending, environment
  <2>3. CASE ~parse_panics(r)  BY <2>1, <2>3 DEF Shape, Handle, config, environment
  <2> QED  BY <2>2, <2>3
<1>6. CASE \E p \in Proxies : ProxyStep(p)
  BY <1>6 DEF Shape, ProxyStep, ClientCloses, ServerCloses, TransferFails, ProxyTold, SetProxy, config,
              sending, environment
<1> QED  BY <1>1, <1>2, <1>3, <1>4, <1>5, <1>6 DEF Next, SourceStep

LEMMA DelaysKept ==
  ASSUME Shape, Delays, Next
  PROVE  Delays'
<1> USE Constants
<1>1. CASE UNCHANGED delay  BY <1>1 DEF Delays, delay
<1>2. CASE Subscribe
  <2>1. retry_delay' = init_retry_delay /\ failures' = 0  BY <1>2 DEF Subscribe
  <2> QED  BY <2>1 DEF Delays, Shape
<1>3. CASE RetryDelay
  <2>1. /\ retry_delay' = Lesser(2 * retry_delay, MaxDelay)
        /\ failures' = Lesser(failures + 1, MaxFailures)
    BY <1>3 DEF RetryDelay
  <2> QED  BY <2>1 DEF Delays, Lesser
<1> QED  BY <1>1, <1>2, <1>3, DelayMoves

LEMMA OwnedKept ==
  ASSUME Shape, Owned, Next
  PROVE  Owned'
<1> USE Constants
<1>1. CASE ChangeServer \/ ChangeRoom \/ Tell
  BY <1>1 DEF Owned, ChangeServer, ChangeRoom, Tell, config
<1>2. CASE BuildEndpoint
  <2>1. CASE tls
    <3>1. PICK p \in Proxies : proxies' = [proxies EXCEPT ![p] = "listening"] /\ mine' = p
      BY <1>2, <2>1 DEF BuildEndpoint
    <3>2. proxies' \in [Proxies -> ProxyState]  BY <3>1 DEF Owned, ProxyState
    <3> QED  BY <1>2, <2>1, <3>1, <3>2 DEF Owned, BuildEndpoint, config
  <2>2. CASE ~tls  BY <1>2, <2>2 DEF Owned, BuildEndpoint, config
  <2> QED  BY <2>1, <2>2
<1>3. CASE Connect
  <2>1. proxies' \in [Proxies -> ProxyState]  BY <1>3 DEF Owned, Connect, ProxyState
  <2> QED  BY <1>3, <2>1 DEF Owned, Connect, config
<1>4. CASE Subscribe \/ RetryDelay \/ WakeUp \/ RetryNow \/ Sent \/ SourceExits
  BY <1>4 DEF Owned, Subscribe, RetryDelay, WakeUp, RetryNow, Sent, SourceExits, config
<1>5. CASE \E r \in Responses[instance_type] \cup {InstanceTick} : Handle(r)
  BY <1>5 DEF Owned, Handle, config
<1>6. CASE \E p \in Proxies : ProxyStep(p)
  <2> PICK p \in Proxies : ProxyStep(p)  BY <1>6
  <2>1. UNCHANGED <<tls, pc, mine>> /\ \E state \in ProxyState : proxies' = [proxies EXCEPT ![p] = state]
    BY DEF ProxyStep, ClientCloses, ServerCloses, TransferFails, ProxyTold, SetProxy, ProxyState, config
  <2>2. proxies' \in [Proxies -> ProxyState]  BY <2>1 DEF Owned
  <2> QED  BY <2>1, <2>2 DEF Owned
<1> QED  BY <1>1, <1>2, <1>3, <1>4, <1>5, <1>6 DEF Next, SourceStep

LEMMA TypesInit == Init => TypeOK
<1> SUFFICES ASSUME Init PROVE Shape /\ Delays /\ Owned  BY TypesByPart
<1>1. Shape  BY DEF Init, Shape
<1>2. Delays  BY Constants DEF Init, Delays
<1>3. Owned  BY DEF Init, Owned, ProxyState
<1> QED  BY <1>1, <1>2, <1>3

LEMMA TypesKept == TypeOK /\ [Next]_vars => TypeOK'
<1> SUFFICES ASSUME TypeOK, [Next]_vars PROVE TypeOK'  OBVIOUS
<1>1. CASE Next
  <2>1. Shape' /\ Delays' /\ Owned'  BY <1>1, TypesByPart, ShapeKept, DelaysKept, OwnedKept
  <2> QED  BY <2>1, Zenon DEF TypeOK, Shape, Delays, Owned
<1>2. CASE UNCHANGED vars
  BY <1>2, Zenon DEF TypeOK, vars, config, delay, sending, environment
<1> QED  BY <1>1, <1>2

(* A source is well typed, and has a proxy of its own exactly while it is   *)
(* connected over TLS, whatever it receives and whenever it is dropped.     *)
THEOREM SourceTypeCorrect == Spec => []TypeOK
BY TypesInit, TypesKept, PTL DEF Spec

-----------------------------------------------------------------------------
(* SourceLife: a source and its proxies begin and end one at a time.        *)
Live == {p \in Proxies : proxies[p] # "none"}

LEMMA FewProxies ==
  ASSUME NEW S \in SUBSET Proxies
  PROVE  /\ IsFiniteSet(S) /\ Cardinality(S) \in Nat /\ Cardinality(S) <= MaxProxies
         /\ S # Proxies => Cardinality(S) < MaxProxies
<1>1. IsFiniteSet(Proxies) /\ Cardinality(Proxies) = MaxProxies
  BY FS_Interval, Constants DEF Proxies
<1>2. /\ IsFiniteSet(S) /\ Cardinality(S) <= Cardinality(Proxies)
      /\ Cardinality(S) = Cardinality(Proxies) => S = Proxies
  BY <1>1, FS_Subset
<1>3. Cardinality(S) \in Nat  BY <1>2, FS_CardinalityType
<1> QED  BY <1>1, <1>2, <1>3, Constants

(* One proxy changes its state: it is spawned, it ends, or it goes on.      *)
LEMMA OneProxyMoves ==
  ASSUME Owned, NEW p \in Proxies, NEW state \in ProxyState, proxies' = [proxies EXCEPT ![p] = state]
  PROVE  /\ proxies[p] = "none" /\ state # "none" =>
              /\ Cardinality(Live) < MaxProxies
              /\ Cardinality(Live') = Cardinality(Live) + 1
         /\ proxies[p] # "none" /\ state = "none" =>
              /\ Cardinality(Live) > 0
              /\ Cardinality(Live') = Cardinality(Live) - 1
         /\ proxies[p] # "none" /\ state # "none" => Cardinality(Live') = Cardinality(Live)
<1>1. \A q \in Proxies : proxies'[q] = IF q = p THEN state ELSE proxies[q]  BY DEF Owned
<1>2. /\ IsFiniteSet(Live) /\ Cardinality(Live) \in Nat
      /\ Live # Proxies => Cardinality(Live) < MaxProxies
  BY FewProxies DEF Live
<1>3. CASE proxies[p] = "none" /\ state # "none"
  <2>1. Live' = Live \cup {p} /\ p \notin Live  BY <1>1, <1>3 DEF Live
  <2>2. Cardinality(Live \cup {p}) = Cardinality(Live) + 1  BY <1>2, <2>1, FS_AddElement
  <2> QED  BY <1>2, <1>3, <2>1, <2>2
<1>4. CASE proxies[p] # "none" /\ state = "none"
  <2>1. Live' = Live \ {p} /\ p \in Live  BY <1>1, <1>4 DEF Live
  <2>2. Cardinality(Live \ {p}) = Cardinality(Live) - 1  BY <1>2, <2>1, FS_RemoveElement
  <2>3. Cardinality(Live) # 0  BY <1>2, <2>1, FS_EmptySet
  <2> QED  BY <1>2, <1>4, <2>1, <2>2, <2>3
<1>5. CASE proxies[p] # "none" /\ state # "none"
  <2>1. Live' = Live  BY <1>1, <1>5 DEF Live
  <2> QED  BY <1>5, <2>1
<1>6. CASE proxies[p] = "none" /\ state = "none"  BY <1>6
<1> QED  BY <1>3, <1>4, <1>5, <1>6

LEMMA LifeInit == Init => Life!Init
<1> SUFFICES ASSUME Init PROVE Life!Init  OBVIOUS
<1>1. told = FALSE /\ Alive  BY DEF Init, Alive
<1>2. Live = {}  BY DEF Init, Live
<1>3. Cardinality(Live) = 0  BY <1>2, FS_EmptySet
<1> QED  BY <1>1, <1>3, Zenon DEF Life!Init, Live

LEMMA LifeNext == TypeOK /\ [Next]_vars => [Life!Next]_(Life!vars)
<1> SUFFICES ASSUME TypeOK, [Next]_vars PROVE [Life!Next]_(Life!vars)  OBVIOUS
<1>t. Shape /\ Owned  BY TypesByPart
<1> DEFINE Still == UNCHANGED <<told, Alive, Cardinality(Live)>>
<1>s. ASSUME Still  PROVE UNCHANGED Life!vars  BY <1>s, Zenon DEF Life!vars, Live
<1>a. ASSUME pc' = pc  PROVE Alive' = Alive  BY <1>a DEF Alive
<1>b. ASSUME UNCHANGED proxies  PROVE Cardinality(Live') = Cardinality(Live)
  <2>1. Live' = Live  BY <1>b DEF Live
  <2> QED  BY <2>1
<1>0. CASE UNCHANGED vars
  <2>1. pc' = pc /\ told' = told /\ UNCHANGED proxies  BY <1>0 DEF vars, environment
  <2> QED  BY <1>s, <1>a, <1>b, <2>1
<1>1. CASE ChangeServer \/ ChangeRoom
  <2>1. pc' = pc /\ told' = told /\ UNCHANGED proxies  BY <1>1 DEF ChangeServer, ChangeRoom
  <2> QED  BY <1>s, <1>a, <1>b, <2>1
<1>2. CASE Tell
  <2>1. pc' = pc /\ ~told /\ told' = TRUE /\ UNCHANGED proxies  BY <1>2 DEF Tell
  <2>2. Life!Tell  BY <1>a, <1>b, <2>1, Zenon DEF Life!Tell, Live
  <2> QED  BY <2>2 DEF Life!Next
<1>3. CASE BuildEndpoint
  <2>1. Alive /\ Alive' /\ told' = told  BY <1>3 DEF BuildEndpoint, Alive, environment
  <2>2. CASE tls
    <3>1. PICK p \in Proxies : proxies[p] = "none" /\ proxies' = [proxies EXCEPT ![p] = "listening"]
      BY <1>3, <2>2 DEF BuildEndpoint
    <3>2. Cardinality(Live) < MaxProxies /\ Cardinality(Live') = Cardinality(Live) + 1
      BY <1>t, <3>1, OneProxyMoves DEF ProxyState
    <3>3. Life!SpawnProxy  BY <2>1, <3>2, Zenon DEF Life!SpawnProxy, Live
    <3> QED  BY <3>3 DEF Life!Next
  <2>3. CASE ~tls
    <3>1. UNCHANGED proxies  BY <1>3, <2>3 DEF BuildEndpoint
    <3> QED  BY <1>s, <1>b, <2>1, <3>1
  <2> QED  BY <2>2, <2>3
<1>4. CASE Connect
  <2>1. Alive /\ Alive' /\ told' = told  BY <1>4 DEF Connect, Alive, environment
  <2>2. CASE tls
    <3>1. /\ proxies[mine] = "listening" /\ proxies' = [proxies EXCEPT ![mine] = "open"] /\ mine \in Proxies
      BY <1>4, <2>2, <1>t DEF Connect, Owned
    <3>2. Cardinality(Live') = Cardinality(Live)  BY <1>t, <3>1, OneProxyMoves DEF ProxyState
    <3> QED  BY <1>s, <2>1, <3>2
  <2>3. CASE ~tls
    <3>1. UNCHANGED proxies  BY <1>4, <2>3 DEF Connect
    <3> QED  BY <1>s, <1>b, <2>1, <3>1
  <2> QED  BY <2>2, <2>3
<1>5. CASE Subscribe \/ RetryDelay \/ WakeUp \/ RetryNow \/ Sent
  <2>1. Alive /\ Alive' /\ told' = told /\ UNCHANGED proxies
    BY <1>5 DEF Subscribe, RetryDelay, WakeUp, RetryNow, Sent, Alive, environment
  <2> QED  BY <1>s, <1>b, <2>1
<1>6. CASE \E r \in Responses[instance_type] \cup {InstanceTick} : Handle(r)
  <2> PICK r \in Responses[instance_type] \cup {InstanceTick} : Handle(r)  BY <1>6
  <2>1. Alive /\ told' = told /\ UNCHANGED proxies  BY DEF Handle, Alive, environment
  <2>2. CASE parse_panics(r)
    <3>1. Alive' = FALSE  BY <2>2 DEF Handle, Alive
    <3>2. Life!SourcePanics  BY <1>b, <2>1, <3>1, Zenon DEF Life!SourcePanics, Live
    <3> QED  BY <3>2 DEF Life!Next
  <2>3. CASE ~parse_panics(r)
    <3>1. Alive'  BY <2>3 DEF Handle, Alive
    <3> QED  BY <1>s, <1>b, <2>1, <3>1
  <2> QED  BY <2>2, <2>3
<1>7. CASE SourceExits
  <2>1. Alive /\ told /\ told' = told /\ UNCHANGED proxies  BY <1>7 DEF SourceExits, environment
  <2>2. Alive' = FALSE  BY <1>7 DEF SourceExits, Alive
  <2>3. Life!SourceExits  BY <1>b, <2>1, <2>2, Zenon DEF Life!SourceExits, Live
  <2> QED  BY <2>3 DEF Life!Next
<1>8. CASE \E p \in Proxies : ProxyStep(p)
  <2>1. PICK p \in Proxies, state \in ProxyState :
          proxies[p] # "none" /\ proxies' = [proxies EXCEPT ![p] = state]
    BY <1>8 DEF ProxyStep, ClientCloses, ServerCloses, TransferFails, ProxyTold, SetProxy, ProxyState
  <2>2. pc' = pc /\ told' = told
    BY <1>8 DEF ProxyStep, ClientCloses, ServerCloses, TransferFails, ProxyTold, SetProxy, environment
  <2>3. CASE state = "none"
    <3>1. Cardinality(Live) > 0 /\ Cardinality(Live') = Cardinality(Live) - 1
      BY <1>t, <2>1, <2>3, OneProxyMoves
    <3>2. Life!ProxyEnds  BY <1>a, <2>2, <3>1, Zenon DEF Life!ProxyEnds, Live
    <3> QED  BY <3>2 DEF Life!Next
  <2>4. CASE state # "none"
    <3>1. Cardinality(Live') = Cardinality(Live)  BY <1>t, <2>1, <2>4, OneProxyMoves
    <3> QED  BY <1>s, <1>a, <2>2, <3>1
  <2> QED  BY <2>3, <2>4
<1> QED  BY <1>0, <1>1, <1>2, <1>3, <1>4, <1>5, <1>6, <1>7, <1>8 DEF Next, SourceStep

(* A source is one SourceLife at a time: it spawns proxies only while it is *)
(* there and no more than there may be, ends only when it is told to or     *)
(* panics, and neither it nor a proxy ever comes back.                      *)
THEOREM SourceLivesOnce == Spec => Life!Spec
<1>1. Spec => []TypeOK  BY SourceTypeCorrect
<1> QED  BY <1>1, LifeInit, LifeNext, PTL DEF Spec, Life!Spec

-----------------------------------------------------------------------------
(* Induction over Nat, for sets instead of operators, and what it says of   *)
(* functions defined by recursion.                                          *)
(* A set of numbers that is not empty has a least one.                      *)
LEMMA Least ==
  ASSUME NEW T, T \subseteq Nat, T # {}
  PROVE  \E n \in T : \A m \in T : n <= m
<1> DEFINE R == {p \in Nat \X Nat : p[1] < p[2]}
<1>1. IsWellFoundedOn(R, Nat)
  BY NatLessThanWellFounded DEF OpToRel
<1> HIDE DEF R
<1>2. PICK x \in T : \A y \in T : <<y, x>> \notin R
  BY <1>1, WFMin
<1>3. ASSUME NEW y \in T PROVE x <= y
  <2>1. y \in Nat /\ x \in Nat
    OBVIOUS
  <2>2. y < x => <<y, x>> \in R
    BY <2>1 DEF R
  <2> QED
    BY <1>2, <2>1, <2>2
<1> QED  BY <1>3

(* A set that has 0 and, with a number, the next one, has every number.     *)
LEMMA Induct ==
  ASSUME NEW S, 0 \in S, \A n \in Nat : n \in S => n + 1 \in S
  PROVE  Nat \subseteq S
<1> SUFFICES ASSUME Nat \ S # {} PROVE FALSE
  OBVIOUS
<1>1. PICK n \in Nat \ S : \A m \in Nat \ S : n <= m
  BY Least
<1>2. n # 0
  OBVIOUS
<1>3. n - 1 \in Nat /\ n - 1 \in S
  BY <1>1, <1>2
<1> QED  BY <1>3

(* f starts a recursion of n steps.                                         *)
Starts(f, n, base, step) ==
  /\ DOMAIN f = 0..n
  /\ f[0] = base
  /\ \A i \in 0..n : i # n => f[i + 1] = step[i][f[i]]

Recurs(f, base, step) == f[0] = base /\ \A n \in Nat : f[n + 1] = step[n][f[n]]

(* Every recursion over Nat has a function that follows it.                 *)
LEMMA Recursion ==
  ASSUME NEW S, NEW base \in S, NEW step \in [Nat -> [S -> S]]
  PROVE  \E f \in [Nat -> S] : Recurs(f, base, step)
<1> DEFINE Good == {n \in Nat : \E f \in [0..n -> S] : Starts(f, n, base, step)}
<1>1. 0 \in Good
  <2> DEFINE f == [i \in 0..0 |-> base]
  <2>1. f \in [0..0 -> S] /\ Starts(f, 0, base, step)
    BY DEF Starts
  <2> QED  BY <2>1
<1>2. ASSUME NEW n \in Nat, n \in Good PROVE n + 1 \in Good
  <2>1. PICK f \in [0..n -> S] : Starts(f, n, base, step)
    BY <1>2
  <2> DEFINE g == [i \in 0..n+1 |-> IF i = n + 1 THEN step[n][f[n]] ELSE f[i]]
  <2>2. g \in [0..n+1 -> S]
    BY <2>1
  <2>3. g[0] = base /\ DOMAIN g = 0..n+1
    BY <2>1 DEF Starts
  <2>4. ASSUME NEW i \in 0..n+1, i # n+1 PROVE g[i+1] = step[i][g[i]]
    <3>1. i \in 0..n /\ g[i] = f[i]
      BY <2>4
    <3>2. CASE i = n
      <4>1. n + 1 \in 0..n+1  OBVIOUS
      <4>2. g[n+1] = step[n][f[n]]  BY <4>1
      <4> HIDE DEF g
      <4> QED  BY <3>1, <3>2, <4>2
    <3>3. CASE i # n
      <4>1. i + 1 \in 0..n /\ i + 1 # n + 1 /\ f[i+1] = step[i][f[i]]
        BY <2>1, <3>1, <3>3 DEF Starts
      <4>2. i + 1 \in 0..n+1
        BY <4>1
      <4>3. g[i+1] = f[i+1]
        BY <4>1, <4>2
      <4> QED  BY <3>1, <4>1, <4>3
    <3> QED  BY <3>2, <3>3
  <2> HIDE DEF g
  <2>5. Starts(g, n+1, base, step)
    BY <2>3, <2>4 DEF Starts
  <2> QED  BY <2>2, <2>5
<1>3. \A n \in Nat : \E f \in [0..n -> S] : Starts(f, n, base, step)
  <2> HIDE DEF Good
  <2>1. Nat \subseteq Good  BY <1>1, <1>2, Induct
  <2> QED  BY <2>1 DEF Good
<1> DEFINE a == [n \in Nat |-> CHOOSE f \in [0..n -> S] : Starts(f, n, base, step)]
<1>4. ASSUME NEW n \in Nat PROVE a[n] \in [0..n -> S] /\ Starts(a[n], n, base, step)
  BY <1>3
<1> HIDE DEF a
<1>5. ASSUME NEW n \in Nat
      PROVE \A i \in Nat : i <= n => a[n][i] = a[n+1][i]
  <2> DEFINE Same == {i \in Nat : i <= n => a[n][i] = a[n+1][i]}
  <2>a. Starts(a[n], n, base, step) /\ Starts(a[n+1], n+1, base, step)
    BY <1>4
  <2>1. 0 \in Same  BY <2>a DEF Starts
  <2>2. ASSUME NEW i \in Nat, i \in Same PROVE i + 1 \in Same
    <3> SUFFICES ASSUME i + 1 <= n PROVE a[n][i+1] = a[n+1][i+1]
      OBVIOUS
    <3>1. i \in 0..n /\ i # n /\ i \in 0..n+1 /\ i # n+1 /\ a[n][i] = a[n+1][i]
      BY <2>2
    <3>2. a[n][i+1] = step[i][a[n][i]]  BY <2>a, <3>1 DEF Starts
    <3>3. a[n+1][i+1] = step[i][a[n+1][i]]  BY <2>a, <3>1 DEF Starts
    <3> QED  BY <3>1, <3>2, <3>3
  <2>3. Nat \subseteq Same
    <3> HIDE DEF Same
    <3> QED  BY <2>1, <2>2, Induct
  <2> QED  BY <2>3
<1> DEFINE f == [n \in Nat |-> a[n][n]]
<1>6. f \in [Nat -> S]
  <2>1. \A n \in Nat : n \in 0..n /\ a[n][n] \in S  BY <1>4
  <2> QED  BY <2>1
<1>7. f[0] = base
  BY <1>4 DEF Starts
<1>8. ASSUME NEW n \in Nat PROVE f[n+1] = step[n][f[n]]
  <2>1. Starts(a[n+1], n+1, base, step)  BY <1>4
  <2>2. n \in 0..n+1 /\ n # n+1  OBVIOUS
  <2>3. a[n+1][n+1] = step[n][a[n+1][n]]  BY <2>1, <2>2 DEF Starts
  <2>4. a[n][n] = a[n+1][n]  BY <1>5
  <2> QED  BY <2>3, <2>4
<1> QED
  <2> HIDE DEF f
  <2> QED  BY <1>6, <1>7, <1>8 DEF Recurs

-----------------------------------------------------------------------------
(* DelayFollowsFailures.                                                    *)
(* PowerOf2 is what its name says.                                          *)
LEMMA PowersOfTwo == PowerOf2[0] = 1 /\ \A n \in Nat : PowerOf2[n] \in Nat /\ PowerOf2[n + 1] = 2 * PowerOf2[n]
<1> DEFINE step == [n \in Nat |-> [x \in Nat |-> 2 * x]]
<1>1. PICK f \in [Nat -> Nat] : f[0] = 1 /\ \A n \in Nat : f[n + 1] = step[n][f[n]]
  <2>1. step \in [Nat -> [Nat -> Nat]]  OBVIOUS
  <2>2. 1 \in Nat  OBVIOUS
  <2> HIDE DEF step
  <2>4. \E f \in [Nat -> Nat] : Recurs(f, 1, step)
    BY <2>1, <2>2, Recursion, Zenon
  <2> QED  BY <2>4 DEF Recurs
<1>2. \A n \in Nat : f[n+1] = 2 * f[n]
  BY <1>1
<1>3. f = [n \in Nat |-> IF n = 0 THEN 1 ELSE 2 * f[n-1]]
  <2>1. ASSUME NEW n \in Nat PROVE f[n] = IF n = 0 THEN 1 ELSE 2 * f[n-1]
    <3>1. CASE n = 0  BY <1>1, <3>1
    <3>2. CASE n # 0
      <4>1. n - 1 \in Nat /\ (n-1)+1 = n  BY <3>2
      <4> QED  BY <1>2, <3>2, <4>1
    <3> QED  BY <3>1, <3>2
  <2> QED  BY <1>1, <2>1
<1>4. PowerOf2 = [n \in Nat |-> IF n = 0 THEN 1 ELSE 2 * PowerOf2[n-1]]
  BY <1>3 DEF PowerOf2
<1> HIDE DEF step
<1> DEFINE Typed == {n \in Nat : PowerOf2[n] \in Nat}
<1>5. PowerOf2[0] = 1  BY <1>4
<1>6. \A n \in Nat : PowerOf2[n+1] = 2 * PowerOf2[n]
  <2>1. ASSUME NEW n \in Nat PROVE PowerOf2[n+1] = 2 * PowerOf2[n]
    <3>1. n + 1 \in Nat /\ n + 1 # 0 /\ (n+1)-1 = n  OBVIOUS
    <3> QED  BY <1>4, <3>1
  <2> QED  BY <2>1
<1>7. Nat \subseteq Typed
  <2>1. 0 \in Typed  BY <1>5
  <2>2. \A n \in Nat : n \in Typed => n + 1 \in Typed  BY <1>6
  <2> HIDE DEF Typed
  <2> QED  BY <2>1, <2>2, Induct
<1> QED  BY <1>5, <1>6, <1>7

(* A source keeps the configuration it was made with.                       *)
LEMMA ConfigStays ==
  ASSUME Next
  PROVE  UNCHANGED config
BY DEF Next, ChangeServer, ChangeRoom, Tell, SourceStep, BuildEndpoint, Connect, Subscribe, RetryDelay,
       WakeUp, RetryNow, Handle, Sent, SourceExits, ProxyStep, ClientCloses, ServerCloses, TransferFails,
       ProxyTold, SetProxy

(* Twice a delay cut at the limit, cut again, is twice the delay, cut once. *)
LEMMA CutTwice ==
  ASSUME NEW x \in Nat
  PROVE  Lesser(2 * Lesser(x, MaxDelay), MaxDelay) = Lesser(2 * x, MaxDelay)
BY Constants DEF Lesser

(* One more failure, in terms of the number of failures.                    *)
LEMMA FailureDoubles ==
  ASSUME NEW d \in InitDelays, NEW n \in 0..MaxFailures
  PROVE  Lesser(2 * (IF n = 0 THEN d ELSE Lesser(d * PowerOf2[n], MaxDelay)), MaxDelay)
           = Lesser(d * PowerOf2[Lesser(n + 1, MaxFailures)], MaxDelay)
<1>t. n \in Nat /\ d \in Nat /\ MaxFailures \in Nat \ {0} /\ MaxDelay \in Nat  BY Constants
<1>p. PowerOf2[n] \in Nat /\ PowerOf2[n + 1] = 2 * PowerOf2[n]  BY <1>t, PowersOfTwo
<1> DEFINE x == d * PowerOf2[n]
<1>x. x \in Nat  BY <1>t, <1>p
<1>d. d * PowerOf2[n + 1] = 2 * x
  <2>1. \A y \in Nat : d * (2 * y) = 2 * (d * y)  BY <1>t
  <2> QED  BY <1>p, <2>1
<1>1. CASE n = 0
  <2>1. Lesser(n + 1, MaxFailures) = n + 1  BY <1>t, <1>1 DEF Lesser
  <2>2. x = d  BY <1>t, <1>1, PowersOfTwo
  <2> HIDE DEF x
  <2> QED  BY <1>1, <1>d, <2>1, <2>2
<1>2. CASE n # 0 /\ n < MaxFailures
  <2>1. Lesser(n + 1, MaxFailures) = n + 1  BY <1>t, <1>2 DEF Lesser
  <2>2. Lesser(2 * Lesser(x, MaxDelay), MaxDelay) = Lesser(2 * x, MaxDelay)  BY <1>x, CutTwice
  <2> QED  BY <1>2, <1>d, <2>1, <2>2
<1>3. CASE n = MaxFailures
  <2>1. Lesser(n + 1, MaxFailures) = n /\ n # 0  BY <1>t, <1>3 DEF Lesser
  <2>2. x = 0 \/ x >= MaxDelay
    <3>1. CASE d = 0
      <4>1. \A y \in Nat : 0 * y = 0  OBVIOUS
      <4> QED  BY <1>p, <3>1, <4>1
    <3>2. CASE d # 0  BY <1>3, <3>2, Constants
    <3> QED  BY <3>1, <3>2
  <2>3. Lesser(2 * Lesser(x, MaxDelay), MaxDelay) = Lesser(x, MaxDelay)
    <3> HIDE DEF x
    <3> QED  BY <1>t, <1>x, <2>2 DEF Lesser
  <2> QED  BY <2>1, <2>3
<1> QED  BY <1>t, <1>1, <1>2, <1>3

(* Every step keeps the delay in step with the failures.                    *)
LEMMA DelayStep ==
  ASSUME TypeOK, DelayFollowsFailures, [Next]_vars
  PROVE  DelayFollowsFailures'
<1>t. failures \in 0..MaxFailures /\ init_retry_delay \in InitDelays
  BY TypesByPart DEF Shape, Delays
<1>1. CASE UNCHANGED vars  BY <1>1 DEF DelayFollowsFailures, vars, delay, config
<1>2. CASE Next
  <2>1. init_retry_delay' = init_retry_delay  BY <1>2, ConfigStays DEF config
  <2>2. CASE UNCHANGED delay  BY <2>1, <2>2 DEF DelayFollowsFailures, delay
  <2>3. CASE Subscribe  BY <2>1, <2>3 DEF DelayFollowsFailures, Subscribe
  <2>4. CASE RetryDelay
    <3>1. /\ retry_delay' = Lesser(2 * retry_delay, MaxDelay)
          /\ failures' = Lesser(failures + 1, MaxFailures)
      BY <2>4 DEF RetryDelay
    <3>2. failures' # 0  BY <1>t, <3>1, Constants DEF Lesser
    <3>3. retry_delay' = Lesser(init_retry_delay * PowerOf2[failures'], MaxDelay)
      BY <1>t, <3>1, FailureDoubles DEF DelayFollowsFailures
    <3> QED  BY <2>1, <3>2, <3>3 DEF DelayFollowsFailures
  <2> QED  BY <1>2, <2>2, <2>3, <2>4, DelayMoves
<1> QED  BY <1>1, <1>2

(* The delay before an attempt is the first one doubled for every failure   *)
(* in a row, cut at the limit, whatever happens in between.                 *)
THEOREM DelayDoubles == Spec => []DelayFollowsFailures
<1>1. Init => DelayFollowsFailures  BY DEF Init, DelayFollowsFailures
<1>2. TypeOK /\ DelayFollowsFailures /\ [Next]_vars => DelayFollowsFailures'  BY DelayStep
<1> QED  BY SourceTypeCorrect, <1>1, <1>2, PTL DEF Spec

-----------------------------------------------------------------------------
(* LinesFaithful.  First Kept: what is kept of a sequence is what is at the    *)
(* places, each at its rank among them.                                     *)

(* Keeping(s, S) is the recursion it is written as.                         *)
KeepsStep(s, S) ==
  \A i \in Nat : Keeping(s, S)[i + 1]
    = IF i + 1 \in S THEN Append(Keeping(s, S)[i], s[i + 1]) ELSE Keeping(s, S)[i]

LEMMA KeepingEquation ==
  ASSUME NEW R, NEW s \in Seq(R), NEW S \in SUBSET (DOMAIN s)
  PROVE  /\ Keeping(s, S) \in [Nat -> Seq(R)]
         /\ Keeping(s, S)[0] = <<>>
         /\ KeepsStep(s, S)
<1> DEFINE step == [i \in Nat |-> [q \in Seq(R) |-> IF i + 1 \in S THEN Append(q, s[i + 1]) ELSE q]]
           Solves(f) == f = [i \in Nat |->
             IF i = 0 THEN <<>> ELSE IF i \in S THEN Append(f[i - 1], s[i]) ELSE f[i - 1]]
<1>1. step \in [Nat -> [Seq(R) -> Seq(R)]]
  <2>1. ASSUME NEW i \in Nat, NEW q \in Seq(R), i + 1 \in S PROVE Append(q, s[i + 1]) \in Seq(R)
    <3>1. s[i + 1] \in R  BY <2>1, ElementOfSeq
    <3> QED  BY <3>1, AppendProperties
  <2> QED  BY <2>1
<1>2. PICK f \in [Nat -> Seq(R)] : Recurs(f, <<>>, step)
  <2>1. <<>> \in Seq(R)  OBVIOUS
  <2> HIDE DEF step
  <2> QED  BY <1>1, <2>1, Recursion, Zenon
<1>3. ASSUME NEW i \in Nat PROVE f[i + 1] = IF i + 1 \in S THEN Append(f[i], s[i + 1]) ELSE f[i]
  BY <1>2 DEF Recurs
<1>4. Solves(f)
  <2> HIDE DEF step
  <2>1. ASSUME NEW i \in Nat
        PROVE f[i] = IF i = 0 THEN <<>> ELSE IF i \in S THEN Append(f[i - 1], s[i]) ELSE f[i - 1]
    <3>1. CASE i = 0  BY <1>2, <3>1 DEF Recurs
    <3>2. CASE i # 0
      <4>1. i - 1 \in Nat /\ (i - 1) + 1 = i  BY <3>2
      <4>2. f[(i - 1) + 1] = IF (i - 1) + 1 \in S THEN Append(f[i - 1], s[(i - 1) + 1]) ELSE f[i - 1]
        BY <4>1, <1>3
      <4> QED  BY <3>2, <4>1, <4>2
    <3> QED  BY <3>1, <3>2
  <2> QED  BY <2>1
<1>5. Solves(Keeping(s, S))
  <2>1. Keeping(s, S) = CHOOSE g : Solves(g)  BY DEF Keeping
  <2> HIDE DEF Solves
  <2> QED  BY <1>4, <2>1
<1> HIDE DEF step
<1> DEFINE K == Keeping(s, S)
<1>6. K = [i \in Nat |-> IF i = 0 THEN <<>> ELSE IF i \in S THEN Append(K[i - 1], s[i]) ELSE K[i - 1]]
  BY <1>5
<1> HIDE DEF K, Solves
<1>7. K[0] = <<>>  BY <1>6
<1>8. ASSUME NEW i \in Nat PROVE K[i + 1] = IF i + 1 \in S THEN Append(K[i], s[i + 1]) ELSE K[i]
  <2>1. i + 1 \in Nat /\ i + 1 # 0 /\ (i + 1) - 1 = i  OBVIOUS
  <2> QED  BY <1>6, <2>1
<1> DEFINE Typed == {i \in Nat : K[i] \in Seq(R)}
<1>9. Nat \subseteq Typed
  <2>1. 0 \in Typed
    <3>1. <<>> \in Seq(R)  OBVIOUS
    <3> QED  BY <1>7, <3>1
  <2>2. ASSUME NEW i \in Nat, i \in Typed PROVE i + 1 \in Typed
    <3>1. K[i] \in Seq(R) /\ i + 1 \in Nat  BY <2>2
    <3>2. ASSUME i + 1 \in S PROVE Append(K[i], s[i + 1]) \in Seq(R)
      <4>1. s[i + 1] \in R  BY <3>2, ElementOfSeq
      <4> QED  BY <3>1, <4>1, AppendProperties
    <3>3. K[i + 1] \in Seq(R)  BY <1>8, <3>1, <3>2, Zenon
    <3> QED  BY <3>1, <3>3
  <2> HIDE DEF Typed
  <2> QED  BY <2>1, <2>2, Induct
<1>10. K \in [Nat -> Seq(R)]  BY <1>6, <1>9
<1> QED  BY <1>7, <1>8, <1>10 DEF K, KeepsStep

Rank(S, i) == Cardinality({k \in S : k <= i})

(* Ranks grow by one at every place and nowhere else.                       *)
LEMMA RankStep ==
  ASSUME NEW S, S \subseteq Nat, NEW n \in Nat
  PROVE  /\ Rank(S, n) \in Nat
         /\ Rank(S, n + 1) = IF n + 1 \in S THEN Rank(S, n) + 1 ELSE Rank(S, n)
<1> DEFINE Upto(i) == {k \in S : k <= i}
<1>1. IsFiniteSet(Upto(n))
  <2>1. IsFiniteSet(0..n)  BY FS_Interval
  <2>2. \A k \in S : k <= n => k \in 0..n  OBVIOUS
  <2>3. Upto(n) \subseteq 0..n  BY <2>2, Zenon
  <2> QED  BY <2>1, <2>3, FS_Subset
<1>2. CASE n + 1 \in S
  <2>a. \A k \in S : k <= n + 1 <=> (k <= n \/ k = n + 1)  OBVIOUS
  <2>b. n + 1 <= n + 1 /\ ~(n + 1 <= n)  OBVIOUS
  <2>1. Upto(n + 1) = Upto(n) \cup {n + 1} /\ n + 1 \notin Upto(n)  BY <1>2, <2>a, <2>b, Zenon
  <2> HIDE DEF Upto
  <2>2. Cardinality(Upto(n + 1)) = Cardinality(Upto(n)) + 1  BY <1>1, <2>1, FS_AddElement
  <2>3. Cardinality(Upto(n)) \in Nat  BY <1>1, FS_CardinalityType
  <2> QED  BY <1>2, <2>2, <2>3 DEF Rank, Upto
<1>3. CASE n + 1 \notin S
  <2>a. \A k \in S : k <= n + 1 <=> k <= n  BY <1>3
  <2>1. Upto(n + 1) = Upto(n)  BY <2>a, Zenon
  <2> HIDE DEF Upto
  <2>3. Cardinality(Upto(n)) \in Nat  BY <1>1, FS_CardinalityType
  <2> QED  BY <1>3, <2>1, <2>3 DEF Rank, Upto
<1> QED  BY <1>2, <1>3

(* Nothing is at or before place 0.                                         *)
LEMMA RankZero == ASSUME NEW S, S \subseteq Nat \ {0} PROVE Rank(S, 0) = 0
<1>a. \A k \in S : ~(k <= 0)  OBVIOUS
<1>1. {k \in S : k <= 0} = {}  BY <1>a, Zenon
<1> QED  BY <1>1, FS_EmptySet DEF Rank

(* What is kept of a prefix.                                                *)
KeptSoFar(s, S, n) ==
  LET kept == Keeping(s, S)[n]
  IN  /\ Len(kept) = Rank(S, n)
      /\ \A i \in S : i <= n => Rank(S, i) \in 1..Rank(S, n) /\ kept[Rank(S, i)] = s[i]
      /\ \A j \in 1..Rank(S, n) : \E i \in S : i <= n /\ Rank(S, i) = j

(* What is kept of every prefix is right, by induction on its length.       *)
LEMMA KeptOfPrefix ==
  ASSUME NEW R, NEW s \in Seq(R), NEW S \in SUBSET (DOMAIN s), NEW n \in Nat
  PROVE  KeptSoFar(s, S, n)
<1> DEFINE K == Keeping(s, S)
           Good == {i \in Nat : KeptSoFar(s, S, i)}
<1>0. DOMAIN s \subseteq Nat \ {0} /\ S \subseteq Nat \ {0} /\ S \in SUBSET Nat
  OBVIOUS
<1>e. KeepsStep(s, S)  BY KeepingEquation
<1>1. 0 \in Good
  <2>1. K[0] = <<>> /\ Rank(S, 0) = 0  BY <1>0, KeepingEquation, RankZero
  <2>2. \A i \in S : ~(i <= 0)  BY <1>0
  <2> QED  BY <2>1, <2>2 DEF KeptSoFar
<1>2. ASSUME NEW m \in Nat, m \in Good PROVE m + 1 \in Good
  <2>0. KeptSoFar(s, S, m)  BY <1>2
  <2>a. K[m] \in Seq(R)  BY KeepingEquation
  <2>b. Rank(S, m) \in Nat  BY <1>0, RankStep
  <2>c. /\ Len(K[m]) = Rank(S, m)
        /\ \A i \in S : i <= m => Rank(S, i) \in 1..Rank(S, m) /\ K[m][Rank(S, i)] = s[i]
        /\ \A j \in 1..Rank(S, m) : \E i \in S : i <= m /\ Rank(S, i) = j
    BY <2>0 DEF KeptSoFar
  <2>1. CASE m + 1 \in S
    <3>1. Rank(S, m + 1) = Rank(S, m) + 1  BY <1>0, <2>1, RankStep
    <3>2. K[m + 1] = Append(K[m], s[m + 1])
      <4> QED  BY <1>e, <2>1 DEF KeepsStep
    <3>3. s[m + 1] \in R  BY <2>1, ElementOfSeq
    <3>4. /\ Len(K[m + 1]) = Rank(S, m) + 1
          /\ K[m + 1][Rank(S, m) + 1] = s[m + 1]
          /\ \A j \in 1..Rank(S, m) : K[m + 1][j] = K[m][j]
      BY <2>a, <2>b, <2>c, <3>2, <3>3, AppendProperties
    <3>5. ASSUME NEW i \in S, i <= m + 1
          PROVE  Rank(S, i) \in 1..Rank(S, m + 1) /\ K[m + 1][Rank(S, i)] = s[i]
      <4>1. CASE i = m + 1  BY <2>b, <3>1, <3>4, <4>1
      <4>2. CASE i # m + 1
        <5>1. i <= m  BY <1>0, <3>5, <4>2
        <5>2. Rank(S, i) \in 1..Rank(S, m) /\ K[m][Rank(S, i)] = s[i]  BY <2>c, <5>1
        <5> QED  BY <2>b, <3>1, <3>4, <5>2
      <4> QED  BY <4>1, <4>2
    <3>6. ASSUME NEW j \in 1..Rank(S, m + 1)
          PROVE  \E i \in S : i <= m + 1 /\ Rank(S, i) = j
      <4>1. CASE j = Rank(S, m + 1)  BY <1>0, <2>1, <4>1
      <4>2. CASE j # Rank(S, m + 1)
        <5>1. j \in 1..Rank(S, m)  BY <2>b, <3>1, <3>6, <4>2
        <5>2. PICK i \in S : i <= m /\ Rank(S, i) = j  BY <2>c, <5>1
        <5>3. i <= m + 1  BY <1>0, <5>2
        <5> QED  BY <5>2, <5>3
      <4> QED  BY <4>1, <4>2
    <3> HIDE DEF K
    <3>7. KeptSoFar(s, S, m + 1)  BY <3>1, <3>4, <3>5, <3>6 DEF KeptSoFar, K
    <3> QED  BY <3>7
  <2>2. CASE m + 1 \notin S
    <3>1. Rank(S, m + 1) = Rank(S, m) /\ K[m + 1] = K[m]  BY <1>0, <1>e, <2>2, RankStep DEF KeepsStep
    <3>2. \A i \in S : i <= m + 1 <=> i <= m  BY <1>0, <2>2
    <3> HIDE DEF K
    <3>3. KeptSoFar(s, S, m + 1)  BY <2>c, <3>1, <3>2 DEF KeptSoFar, K
    <3> QED  BY <3>3
  <2> QED  BY <2>1, <2>2
<1>3. Nat \subseteq Good
  <2> HIDE DEF Good
  <2> QED  BY <1>1, <1>2, Induct
<1> QED  BY <1>3

(* What is kept is what is at the places, in their order.                   *)
LEMMA KeptPlaces ==
  ASSUME NEW R, NEW s \in Seq(R), NEW S \in SUBSET (DOMAIN s)
  PROVE  /\ Kept(s, S) \in Seq(R)
         /\ Cardinality(S) \in Nat /\ DOMAIN Kept(s, S) = 1..Cardinality(S)
         /\ \A i \in S : Rank(S, i) \in DOMAIN Kept(s, S) /\ Kept(s, S)[Rank(S, i)] = s[i]
         /\ \A j \in DOMAIN Kept(s, S) : \E i \in S : Rank(S, i) = j /\ Kept(s, S)[j] = s[i]
<1> DEFINE n == Len(s)
           k == Kept(s, S)
<1>0. n \in Nat /\ S \subseteq 1..n /\ S \in SUBSET Nat  OBVIOUS
<1>1. KeptSoFar(s, S, n) /\ k = Keeping(s, S)[n] /\ k \in Seq(R)
  BY <1>0, KeptOfPrefix, KeepingEquation DEF Kept
<1>2. {i \in S : i <= n} = S  BY <1>0
<1>3. Rank(S, n) = Cardinality(S) /\ Rank(S, n) \in Nat
  BY <1>0, <1>2, RankStep DEF Rank
<1>4. Len(k) = Rank(S, n) /\ DOMAIN k = 1..Len(k)  BY <1>1 DEF KeptSoFar
<1>5. \A i \in S : Rank(S, i) \in 1..Rank(S, n) /\ k[Rank(S, i)] = s[i]
  BY <1>0, <1>1 DEF KeptSoFar
<1>6. \A j \in 1..Rank(S, n) : \E i \in S : Rank(S, i) = j
  BY <1>1 DEF KeptSoFar
<1> QED  BY <1>1, <1>3, <1>4, <1>5, <1>6

(* As a set; and what differs among the places differs in what is kept.     *)
LEMMA KeptSet ==
  ASSUME NEW R, NEW s \in Seq(R), NEW S \in SUBSET (DOMAIN s)
  PROVE  /\ {Kept(s, S)[j] : j \in DOMAIN Kept(s, S)} = {s[i] : i \in S}
         /\ (\A i, j \in S : s[i] = s[j] => i = j)
              => \A i, j \in DOMAIN Kept(s, S) : Kept(s, S)[i] = Kept(s, S)[j] => i = j
BY KeptPlaces

-----------------------------------------------------------------------------
(* The buffer between two series: empty but for its labels; and the event   *)
(* of a series.                                                             *)
Buf(labels) == [labels |-> labels, timestamps |-> <<>>, values |-> <<>>]
Relabel(l, new) == [x \in DOMAIN l |-> IF x \in DOMAIN new THEN new[x] ELSE l[x]]
Times(points) == [i \in DOMAIN points |-> AsI64(points[i].timestamp_sec)]
Values(points) == [i \in DOMAIN points |-> points[i].value]
Event(l, points) == make_metric_like_log_event(l, Times(points), Values(points))

(* WithLabels changes the labels of an empty buffer and nothing else.       *)
LEMMA Relabelling == ASSUME NEW l, NEW new PROVE WithLabels(Buf(l), new) = Buf(Relabel(l, new))
BY DEF WithLabels, Buf, Relabel

(* The times and the values of points are as many as the points.            *)
LEMMA Mapped ==
  ASSUME NEW P, NEW points \in Seq(P)
  PROVE /\ Times(points) \in Seq({AsI64(p.timestamp_sec) : p \in P})
        /\ Values(points) \in Seq({p.value : p \in P})
        /\ Len(Times(points)) = Len(points) /\ Len(Values(points)) = Len(points)
<1> DEFINE T == {AsI64(p.timestamp_sec) : p \in P}
           V == {p.value : p \in P}
<1>1. DOMAIN points = 1..Len(points) /\ Len(points) \in Nat /\ \A i \in 1..Len(points) : points[i] \in P
  OBVIOUS
<1>2. \A i \in 1..Len(points) : AsI64(points[i].timestamp_sec) \in T /\ points[i].value \in V
  BY <1>1
<1> HIDE DEF T, V
<1>3. [i \in 1..Len(points) |-> AsI64(points[i].timestamp_sec)] \in Seq(T)  BY <1>1, <1>2
<1>4. [i \in 1..Len(points) |-> points[i].value] \in Seq(V)  BY <1>1, <1>2
<1>5. Times(points) = [i \in 1..Len(points) |-> AsI64(points[i].timestamp_sec)]  BY <1>1 DEF Times
<1>6. Values(points) = [i \in 1..Len(points) |-> points[i].value]  BY <1>1 DEF Values
<1>7. Times(points) \in Seq(T) /\ Len(Times(points)) = Len(points)  BY <1>1, <1>3, <1>5
<1>8. Values(points) \in Seq(V) /\ Len(Values(points)) = Len(points)  BY <1>1, <1>4, <1>6
<1> QED  BY <1>7, <1>8 DEF T, V

(* Points added to an empty buffer are all it holds.                        *)
LEMMA PointsAdded ==
  ASSUME NEW l, NEW P, NEW points \in Seq(P)
  PROVE  WithPoints(Buf(l), points) = [labels |-> l, timestamps |-> Times(points), values |-> Values(points)]
<1>3. WithPoints(Buf(l), points) = [labels |-> l, timestamps |-> <<>> \o Times(points), values |-> <<>> \o Values(points)]
  <2>1. Times(points) = MapSeq(LAMBDA p : AsI64(p.timestamp_sec), points)  BY DEF Times, MapSeq
  <2>2. Values(points) = MapSeq(LAMBDA p : p.value, points)  BY DEF Values, MapSeq
  <2>3. Buf(l).labels = l /\ Buf(l).timestamps = <<>> /\ Buf(l).values = <<>>  BY DEF Buf
  <2>  QED  BY <2>1, <2>2, <2>3, Zenon DEF WithPoints
<1>4. <<>> \o Times(points) = Times(points)  BY Mapped
<1>5. <<>> \o Values(points) = Values(points)  BY Mapped
<1> QED  BY <1>3, <1>4, <1>5

(* A series makes at most one event, and leaves an empty buffer.            *)
LEMMA OneSeries ==
  ASSUME NEW l, NEW P, NEW points \in Seq(P), NEW new, NEW logs
  PROVE  Append1([buf |-> Buf(l), logs |-> logs], new, points)
           = [buf |-> Buf(Relabel(l, new)),
              logs |-> logs \o (IF points = <<>> THEN <<>> ELSE <<Event(Relabel(l, new), points)>>)]
<1> DEFINE m == Relabel(l, new)
           full == [labels |-> m, timestamps |-> Times(points), values |-> Values(points)]
           acc == [buf |-> Buf(l), logs |-> logs]
<1>1. acc.buf = Buf(l) /\ acc.logs = logs  OBVIOUS
<1>2. WithPoints(WithLabels(acc.buf, new), points) = full
  BY <1>1, Relabelling, PointsAdded
<1>3. Times(points) = <<>> <=> points = <<>>
  <2>1. Times(points) \in Seq({AsI64(p.timestamp_sec) : p \in P}) /\ Len(Times(points)) = Len(points)  BY Mapped
  <2>2. Len(points) = 0 <=> points = <<>>  BY EmptySeq
  <2>3. Len(Times(points)) = 0 <=> Times(points) = <<>>  BY <2>1, EmptySeq
  <2> QED  BY <2>1, <2>2, <2>3
<1>4. Values(points) = <<>> <=> points = <<>>
  <2>1. Values(points) \in Seq({p.value : p \in P}) /\ Len(Values(points)) = Len(points)  BY Mapped
  <2>2. Len(points) = 0 <=> points = <<>>  BY EmptySeq
  <2>3. Len(Values(points)) = 0 <=> Values(points) = <<>>  BY <2>1, EmptySeq
  <2> QED  BY <2>1, <2>2, <2>3
<1>5. full.labels = m /\ full.timestamps = Times(points) /\ full.values = Values(points)  OBVIOUS
<1> HIDE DEF full, m, acc
<1>6. build_event(full).event = IF points = <<>> THEN <<>> ELSE <<Event(m, points)>>
  BY <1>3, <1>4, <1>5 DEF build_event, Event
<1>7. build_event(full).buf = Buf(m)
  BY <1>5 DEF build_event, Buf
<1> QED  BY <1>1, <1>2, <1>6, <1>7 DEF Append1, acc, m

-----------------------------------------------------------------------------
(* The log of one series after the other.                                   *)

(* f is what the buffer and the log are after each of the first n series.   *)
Follows(f, acc, series, n) ==
  f = [i \in 0..n |-> IF i = 0 THEN acc
                               ELSE Append1(f[i - 1], series[i].labels, series[i].points)]

(* There is such an f, by induction on n.                                   *)
LEMMA ChainExists ==
  ASSUME NEW acc, NEW series, NEW n \in Nat
  PROVE  \E f : Follows(f, acc, series, n)
<1> DEFINE Good == {k \in Nat : \E f : Follows(f, acc, series, k)}
<1>1. 0 \in Good
  <2> DEFINE f == [i \in 0..0 |-> acc]
  <2>1. f = [i \in 0..0 |-> IF i = 0 THEN acc
                               ELSE Append1(f[i - 1], series[i].labels, series[i].points)]
    <3>1. \A i \in 0..0 : i = 0  OBVIOUS
    <3> QED  BY <3>1
  <2>2. Follows(f, acc, series, 0)
    BY <2>1, Zenon DEF Follows
  <2> QED  BY <2>2
<1>2. ASSUME NEW k \in Nat, k \in Good PROVE k + 1 \in Good
  <2>1. PICK f : Follows(f, acc, series, k)  BY <1>2
  <2> DEFINE g == [i \in 0..k+1 |-> IF i = k + 1 THEN Append1(f[k], series[k + 1].labels, series[k + 1].points)
                                                 ELSE f[i]]
             next(h, i) == IF i = 0 THEN acc ELSE Append1(h[i - 1], series[i].labels, series[i].points)
  <2>2. f = [i \in 0..k |-> next(f, i)]
    BY <2>1 DEF Follows
  <2>3. \A i \in 0..k+1 : g[i] = IF i = k + 1 THEN Append1(f[k], series[k + 1].labels, series[k + 1].points)
                                                 ELSE f[i]
    OBVIOUS
  <2>4. DOMAIN g = 0..k+1  OBVIOUS
  <2>f. g = [i \in 0..k+1 |-> g[i]]  OBVIOUS
  <2> HIDE DEF g
  <2>5. ASSUME NEW i \in 0..k+1 PROVE g[i] = next(g, i)
    <3>1. CASE i = k + 1
      <4>1. k \in 0..k+1 /\ k # k + 1 /\ i - 1 = k /\ i # 0  BY <3>1
      <4>2. g[k] = f[k]  BY <2>3, <4>1
      <4>3. g[i] = Append1(f[k], series[i].labels, series[i].points)  BY <2>3, <3>1
      <4> QED  BY <4>1, <4>2, <4>3
    <3>2. CASE i # k + 1 /\ i # 0
      <4>1. i \in 0..k /\ i - 1 \in 0..k+1 /\ i - 1 # k + 1  BY <3>2
      <4>2. g[i - 1] = f[i - 1] /\ g[i] = f[i]  BY <2>3, <3>2, <4>1
      <4>3. f[i] = Append1(f[i - 1], series[i].labels, series[i].points)  BY <2>2, <3>2, <4>1
      <4> QED  BY <3>2, <4>2, <4>3
    <3>3. CASE i = 0
      <4>1. i # k + 1 /\ 0 \in 0..k  BY <3>3
      <4>2. g[i] = f[i]  BY <2>3, <4>1
      <4>3. f[0] = acc  BY <2>2, <4>1
      <4> QED  BY <3>3, <4>2, <4>3
    <3> QED  BY <3>1, <3>2, <3>3
  <2>6. g = [i \in 0..k+1 |-> next(g, i)]
    <3> HIDE DEF next
    <3> QED  BY <2>f, <2>5
  <2>7. Follows(g, acc, series, k + 1)  BY <2>6 DEF Follows
  <2> QED  BY <2>7
<1>3. Nat \subseteq Good
  <2> HIDE DEF Good
  <2> QED  BY <1>1, <1>2, Induct
<1> QED  BY <1>3

(* AppendAll ends where such an f ends.                                     *)
LEMMA Chain ==
  ASSUME NEW acc, NEW R, NEW series \in Seq(R)
  PROVE  \E f : Follows(f, acc, series, Len(series)) /\ AppendAll(acc, series) = f[Len(series)]
<1> DEFINE n == Len(series)
<1>1. n \in Nat  OBVIOUS
<1>2. \E f : Follows(f, acc, series, n)
  <2> HIDE DEF n
  <2> QED  BY <1>1, ChainExists
<1> DEFINE f == CHOOSE g : Follows(g, acc, series, n)
<1>3. Follows(f, acc, series, n)  BY <1>2
<1>4. AppendAll(acc, series) = f[n]  BY Zenon DEF AppendAll, Follows
<1> HIDE DEF f, n
<1>5. Follows(f, acc, series, n) /\ AppendAll(acc, series) = f[n]  BY <1>3, <1>4
<1> QED  BY <1>5 DEF n

(* The events of a log are good, make the lines of L, and each makes one of its own. *)
Emits(logs, L) ==
  /\ \E T : logs \in Seq(T)
  /\ \A i \in DOMAIN logs : Encodable(logs[i]) /\ encode_log(logs[i]) \in L
  /\ \A l \in L : \E i \in DOMAIN logs : encode_log(logs[i]) = l
  /\ \A i, j \in DOMAIN logs : encode_log(logs[i]) = encode_log(logs[j]) => i = j

(* The empty log makes no line.                                             *)
LEMMA EmitsNone == Emits(<<>>, {})
BY DEF Emits

(* One more good event, of a line that is new.                              *)
LEMMA EmitsOneMore ==
  ASSUME NEW logs, NEW L, Emits(logs, L), NEW e, Encodable(e), encode_log(e) \notin L
  PROVE  Emits(logs \o <<e>>, L \cup {encode_log(e)})
<1>1. PICK T : logs \in Seq(T)  BY DEF Emits
<1> DEFINE n == Len(logs)
           after == logs \o <<e>>
<1>2. n \in Nat /\ DOMAIN logs = 1..n  BY <1>1
<1>3. /\ after \in Seq(T \cup {e})
      /\ DOMAIN after = 1..(n + 1) /\ after[n + 1] = e
      /\ \A i \in 1..n : after[i] = logs[i]
  <2>0. T \subseteq T \cup {e} /\ e \in T \cup {e}  OBVIOUS
  <2>1. logs \in Seq(T \cup {e})  BY <1>1, <2>0
  <2>2. after = Append(logs, e)  BY <2>0, <2>1, AppendIsConcat
  <2>3. /\ Append(logs, e) \in Seq(T \cup {e}) /\ Len(Append(logs, e)) = n + 1
        /\ \A i \in 1..n : Append(logs, e)[i] = logs[i]
        /\ Append(logs, e)[n + 1] = e
    BY <2>0, <2>1, AppendProperties
  <2>4. DOMAIN Append(logs, e) = 1..Len(Append(logs, e))  BY <2>3
  <2> QED  BY <2>2, <2>3, <2>4
<1> HIDE DEF after, n
<1>4. \A i \in 1..(n+1) : i \in 1..n \/ i = n + 1  BY <1>2
<1>4a. n + 1 \in 1..(n+1) /\ 1..n \subseteq 1..(n+1)  BY <1>2
<1>5. /\ \A i \in 1..n : Encodable(logs[i]) /\ encode_log(logs[i]) \in L
      /\ \A l \in L : \E i \in 1..n : encode_log(logs[i]) = l
      /\ \A i, j \in 1..n : encode_log(logs[i]) = encode_log(logs[j]) => i = j
  BY <1>2 DEF Emits
<1>6. \A i \in DOMAIN after : Encodable(after[i]) /\ encode_log(after[i]) \in L \cup {encode_log(e)}
  BY <1>3, <1>4, <1>5, Zenon
<1>7. \A l \in L \cup {encode_log(e)} : \E i \in DOMAIN after : encode_log(after[i]) = l
  <2>1. \A l \in L : \E i \in DOMAIN after : encode_log(after[i]) = l
     BY <1>3, <1>4a, <1>5
  <2>2. encode_log(after[n + 1]) = encode_log(e) /\ n + 1 \in DOMAIN after  BY <1>3, <1>4a
  <2> QED  BY <2>1, <2>2, Zenon
<1>8. \A i, j \in DOMAIN after : encode_log(after[i]) = encode_log(after[j]) => i = j
  BY <1>3, <1>4, <1>5, Zenon
<1>9. \E S : after \in Seq(S)  BY <1>3
<1> QED  BY <1>6, <1>7, <1>8, <1>9 DEF Emits, after

-----------------------------------------------------------------------------
(* An event and the line the sink makes of it.                              *)
(* What parser.rs makes is what encoder.rs takes, and this is its line.     *)
LEMMA EventLine ==
  ASSUME NEW l, NEW times, NEW values
  PROVE  /\ Encodable(make_metric_like_log_event(l, times, values))
         /\ encode_log(make_metric_like_log_event(l, times, values))
              = [metric |-> [x \in DOMAIN l |-> l[x]],
                 timestamps |-> [i \in DOMAIN times |-> 1000 * times[i]],
                 values |-> [i \in DOMAIN values |-> values[i]]]
<1> DEFINE e == make_metric_like_log_event(l, times, values)
<1>1. /\ e.labels = Object([x \in DOMAIN l |-> Bytes(l[x])])
      /\ e.timestamps = Array([i \in DOMAIN times |-> Timestamp(times[i])])
      /\ e.values = Array([i \in DOMAIN values |-> Float(values[i])])
      /\ {"labels", "timestamps", "values"} \subseteq DOMAIN e
  <2> DEFINE b == MapRange(Bytes, l)
             t == MapSeq(Timestamp, times)
             v == MapSeq(Float, values)
  <2>1. e = [labels |-> Object(b), timestamps |-> Array(t), values |-> Array(v)]
    BY DEF make_metric_like_log_event
  <2>2. b = [x \in DOMAIN l |-> Bytes(l[x])]  BY DEF MapRange
  <2>3. t = [i \in DOMAIN times |-> Timestamp(times[i])]  BY DEF MapSeq
  <2>4. v = [i \in DOMAIN values |-> Float(values[i])]  BY DEF MapSeq
  <2> HIDE DEF b, t, v, e
  <2>5. /\ e.labels = Object(b) /\ e.timestamps = Array(t) /\ e.values = Array(v)
        /\ {"labels", "timestamps", "values"} \subseteq DOMAIN e
    BY <2>1
  <2> QED  BY <2>2, <2>3, <2>4, <2>5
<1> DEFINE b == [x \in DOMAIN l |-> Bytes(l[x])]
           t == [i \in DOMAIN times |-> Timestamp(times[i])]
           v == [i \in DOMAIN values |-> Float(values[i])]
<1>b. DOMAIN b = DOMAIN l /\ \A x \in DOMAIN l : b[x].type = "bytes" /\ b[x].value = l[x]
  BY DEF Bytes
<1>t. DOMAIN t = DOMAIN times /\ \A x \in DOMAIN times : t[x].type = "timestamp" /\ t[x].value = times[x]
  BY DEF Timestamp
<1>v. DOMAIN v = DOMAIN values /\ \A x \in DOMAIN values : v[x].type = "float" /\ v[x].value = values[x]
  BY DEF Float
<1>o. /\ Object(b).type = "object" /\ Object(b).value = b
      /\ Array(t).type = "array" /\ Array(t).value = t /\ Array(v).type = "array" /\ Array(v).value = v
  BY DEF Object, Array
<1>e. e.labels = Object(b) /\ e.timestamps = Array(t) /\ e.values = Array(v)  BY <1>1
<1> HIDE DEF b, t, v, e
<1>2. Encodable(e)
  <2>1. AllOf(e.labels, "bytes")  BY <1>e, <1>b, <1>o DEF AllOf
  <2>2. AllOf(e.timestamps, "timestamp")  BY <1>e, <1>t, <1>o DEF AllOf
  <2>3. AllOf(e.values, "float")  BY <1>e, <1>v, <1>o DEF AllOf
  <2>4. e.labels.type = "object" /\ e.timestamps.type = "array" /\ e.values.type = "array"
    BY <1>e, <1>o
  <2> QED  BY <1>1, <2>1, <2>2, <2>3, <2>4 DEF Encodable
<1>3. MapRange(LAMBDA w : w.value, e.labels.value) = [x \in DOMAIN l |-> l[x]]
  <2>1. MapRange(LAMBDA w : w.value, e.labels.value) = [x \in DOMAIN b |-> b[x].value]
    BY <1>e, <1>o DEF MapRange
  <2> QED  BY <1>b, <2>1
<1>4. MapSeq(LAMBDA w : 1000 * w.value, e.timestamps.value) = [i \in DOMAIN times |-> 1000 * times[i]]
  <2> DEFINE milli(x) == 1000 * x
  <2>1. MapSeq(LAMBDA w : 1000 * w.value, e.timestamps.value) = [i \in DOMAIN t |-> milli(t[i].value)]
    BY <1>e, <1>o DEF MapSeq
  <2> HIDE DEF milli
  <2>2. [i \in DOMAIN t |-> milli(t[i].value)] = [i \in DOMAIN times |-> milli(times[i])]
    BY <1>t
  <2>3. MapSeq(LAMBDA w : 1000 * w.value, e.timestamps.value) = [i \in DOMAIN times |-> milli(times[i])]
    BY <2>1, <2>2
  <2> QED  BY <2>3 DEF milli
<1>5. MapSeq(LAMBDA w : w.value, e.values.value) = [i \in DOMAIN values |-> values[i]]
  <2>1. MapSeq(LAMBDA w : w.value, e.values.value) = [i \in DOMAIN v |-> v[i].value]
    BY <1>e, <1>o DEF MapSeq
  <2> QED  BY <1>v, <2>1
<1>6. encode_log(e) = [metric |-> [x \in DOMAIN l |-> l[x]],
                 timestamps |-> [i \in DOMAIN times |-> 1000 * times[i]],
                 values |-> [i \in DOMAIN values |-> values[i]]]
  BY <1>3, <1>4, <1>5, Zenon DEF encode_log
<1> QED  BY <1>2, <1>6 DEF e

(* The line the code writes for a series, cast by cast.                     *)
Coded(one) ==
  [metric |-> one.metric,
   timestamps |-> [j \in DOMAIN one.times |-> 1000 * AsI64(one.times[j])],
   values |-> [j \in DOMAIN one.counts |-> AsF64(one.counts[j])]]
Line(labels, items, counts) == Coded(Series(labels, items, counts))

(* The event of the positive points is the line of their series.            *)
LEMMA SeriesOfItems ==
  ASSUME NEW R, NEW items \in Seq(R), NEW counts, DOMAIN counts = DOMAIN items,
         NEW l, l = [x \in DOMAIN l |-> l[x]]
  PROVE  LET points == PositivePoints(items, counts)
         IN  /\ \E P : points \in Seq(P)
             /\ points = <<>> <=> Positive(counts) = {}
             /\ encode_log(Event(l, points)) = Line(l, items, counts)
<1> DEFINE s == [i \in DOMAIN items |-> Point(items[i].timestamp_sec, AsF64(counts[i]))]
           S == Positive(counts)
           points == PositivePoints(items, counts)
           P == {s[i] : i \in DOMAIN s}
<1>1. /\ DOMAIN s = DOMAIN items /\ DOMAIN items = 1..Len(items) /\ Len(items) \in Nat
      /\ \A i \in DOMAIN items : s[i].timestamp_sec = items[i].timestamp_sec /\ s[i].value = AsF64(counts[i])
  BY DEF Point
<1>2. s \in Seq(P)
  <2>1. s = [i \in 1..Len(items) |-> s[i]]  BY <1>1
  <2>2. \A i \in 1..Len(items) : s[i] \in P  BY <1>1
  <2> HIDE DEF s, P
  <2> QED  BY <1>1, <2>1, <2>2
<1>3. S = {i \in DOMAIN items : counts[i] > 0}  BY DEF Positive
<1>4. S \in SUBSET (DOMAIN s) /\ points = Kept(s, S)
  BY <1>1, <1>3, Zenon DEF PositivePoints
<1> HIDE DEF s, S, P
<1>5. /\ points \in Seq(P)
      /\ Cardinality(S) \in Nat /\ DOMAIN points = 1..Cardinality(S)
      /\ \A i \in S : Rank(S, i) \in DOMAIN points /\ points[Rank(S, i)] = s[i]
      /\ \A j \in DOMAIN points : \E i \in S : Rank(S, i) = j /\ points[j] = s[i]
  BY <1>2, <1>4, KeptPlaces
<1> HIDE DEF points
<1>6. points = <<>> <=> S = {}
  <2>1. points = <<>> => DOMAIN points = {}  OBVIOUS
  <2>2. DOMAIN points = {} => points = <<>>  BY <1>5
  <2>3. S = {} => DOMAIN points = {}  BY <1>5
  <2>4. DOMAIN points = {} => S = {}  BY <1>5
  <2> QED  BY <2>1, <2>2, <2>3, <2>4
<1> DEFINE at(j) == CHOOSE i \in S : Rank(S, i) = j
           places == 1..Cardinality(S)
<1>7. ASSUME NEW j \in places PROVE at(j) \in S /\ points[j] = s[at(j)]
  <2>1. \E i \in S : Rank(S, i) = j  BY <1>5
  <2>2. at(j) \in S /\ Rank(S, at(j)) = j  BY <2>1
  <2> QED  BY <1>5, <2>2
<1>8. ASSUME NEW j \in places
      PROVE points[j].timestamp_sec = items[at(j)].timestamp_sec /\ points[j].value = AsF64(counts[at(j)])
  <2>1. at(j) \in DOMAIN items /\ points[j] = s[at(j)]  BY <1>1, <1>4, <1>7
  <2> HIDE DEF at
  <2> QED  BY <1>1, <2>1
<1>9. Line(l, items, counts)
        = [metric |-> l, timestamps |-> [j \in places |-> 1000 * AsI64(items[at(j)].timestamp_sec)],
           values |-> [j \in places |-> AsF64(counts[at(j)])]]
  <2> DEFINE times == [j \in places |-> items[at(j)].timestamp_sec]
             numbers == [j \in places |-> counts[at(j)]]
  <2>1. Series(l, items, counts) = [metric |-> l, times |-> times, counts |-> numbers]
    BY DEF Series, Rank, S
  <2>2. DOMAIN times = places /\ \A j \in places : times[j] = items[at(j)].timestamp_sec  OBVIOUS
  <2>3. DOMAIN numbers = places /\ \A j \in places : numbers[j] = counts[at(j)]  OBVIOUS
  <2> HIDE DEF times, numbers, at, places
  <2>4. Line(l, items, counts) = [metric |-> l, timestamps |-> [j \in DOMAIN times |-> 1000 * AsI64(times[j])],
                                  values |-> [j \in DOMAIN numbers |-> AsF64(numbers[j])]]
    BY <2>1 DEF Line, Coded
  <2>5. [j \in DOMAIN times |-> 1000 * AsI64(times[j])] = [j \in places |-> 1000 * AsI64(items[at(j)].timestamp_sec)]
    <3> DEFINE milli(t) == 1000 * AsI64(t)
    <3> HIDE DEF milli
    <3>1. [j \in DOMAIN times |-> milli(times[j])] = [j \in places |-> milli(items[at(j)].timestamp_sec)]
      BY <2>2, Zenon
    <3> QED  BY <3>1 DEF milli
  <2>6. [j \in DOMAIN numbers |-> AsF64(numbers[j])] = [j \in places |-> AsF64(counts[at(j)])]
    BY <2>3, Zenon
  <2> QED  BY <2>4, <2>5, <2>6, Zenon
<1>10. encode_log(Event(l, points))
         = [metric |-> l, timestamps |-> [j \in DOMAIN Times(points) |-> 1000 * Times(points)[j]],
            values |-> [j \in DOMAIN Values(points) |-> Values(points)[j]]]
  BY EventLine DEF Event
<1>11. DOMAIN Times(points) = places /\ DOMAIN Values(points) = places  BY <1>5 DEF Times, Values
<1>12. [j \in DOMAIN Times(points) |-> 1000 * Times(points)[j]]
         = [j \in places |-> 1000 * AsI64(items[at(j)].timestamp_sec)]
  <2>1. ASSUME NEW j \in places PROVE Times(points)[j] = AsI64(items[at(j)].timestamp_sec)
    <3>1. Times(points)[j] = AsI64(points[j].timestamp_sec)  BY <1>5 DEF Times
    <3> HIDE DEF at
    <3> QED  BY <1>8, <3>1
  <2> HIDE DEF at, places
  <2> QED  BY <1>11, <2>1
<1>13. [j \in DOMAIN Values(points) |-> Values(points)[j]] = [j \in places |-> AsF64(counts[at(j)])]
  <2>1. ASSUME NEW j \in places PROVE Values(points)[j] = AsF64(counts[at(j)])
    <3>1. Values(points)[j] = points[j].value  BY <1>5 DEF Values
    <3> HIDE DEF at
    <3> QED  BY <1>8, <3>1
  <2> HIDE DEF at, places
  <2> QED  BY <1>11, <2>1
<1>14. encode_log(Event(l, points)) = Line(l, items, counts)
  <2> HIDE DEF at, places
  <2> QED  BY <1>9, <1>10, <1>12, <1>13
<1>15. \E T : points \in Seq(T)  BY <1>5
<1> QED  BY <1>6, <1>14, <1>15 DEF points, s, S

-----------------------------------------------------------------------------
(* All the series of a record.                                              *)

(* Labels that differ from l in D at most.                                  *)
Like(m, l, D) == /\ m = [x \in DOMAIN l |-> m[x]]
                 /\ \A x \in DOMAIN l : x \notin D => m[x] = l[x]

(* Labels that are set again do not remember what they were.                *)
LEMMA RelabelLike ==
  ASSUME NEW l, NEW m, NEW D, Like(m, l, D), NEW new, D \subseteq DOMAIN new
  PROVE  Relabel(m, new) = Relabel(l, new)
<1>1. DOMAIN m = DOMAIN l /\ \A x \in DOMAIN l : x \notin D => m[x] = l[x]  BY DEF Like
<1>2. \A x \in DOMAIN l : (IF x \in DOMAIN new THEN new[x] ELSE m[x]) = (IF x \in DOMAIN new THEN new[x] ELSE l[x])
  BY <1>1
<1> QED  BY <1>1, <1>2 DEF Relabel

(* Setting the labels of D changes those of D at most.                      *)
LEMMA LikeRelabel ==
  ASSUME NEW l, NEW D, NEW new, DOMAIN new = D
  PROVE  Like(Relabel(l, new), l, D)
BY DEF Relabel, Like

(* No event leaves the log as it is.                                        *)
LEMMA AppendNothing ==
  ASSUME NEW logs, NEW L, Emits(logs, L) PROVE logs \o <<>> = logs
<1>1. PICK T : logs \in Seq(T)  BY DEF Emits
<1> QED  BY <1>1

LineOf(l, one) == encode_log(Event(Relabel(l, one.labels), one.points))

(* A log and a buffer that are right after i of the series.                 *)
RightAfter(acc, l, D, L, series, i) ==
  /\ \E m : Like(m, l, D) /\ acc = [buf |-> Buf(m), logs |-> acc.logs]
  /\ Emits(acc.logs, L \cup {LineOf(l, series[k]) : k \in {n \in 1..i : series[n].points # <<>>}})

(* The next series is added rightly: nothing of the last one shows in it.   *)
LEMMA RightNext ==
  ASSUME NEW l, NEW D, NEW L, NEW series, NEW i \in Nat, NEW acc, RightAfter(acc, l, D, L, series, i),
         DOMAIN series[i + 1].labels = D, NEW P, series[i + 1].points \in Seq(P),
         series[i + 1].points # <<>> =>
           /\ LineOf(l, series[i + 1]) \notin L
           /\ \A k \in 1..i : series[k].points # <<>> => LineOf(l, series[k]) # LineOf(l, series[i + 1])
  PROVE  RightAfter(Append1(acc, series[i + 1].labels, series[i + 1].points), l, D, L, series, i + 1)
<1> DEFINE one == series[i + 1]
           made(n) == {LineOf(l, series[k]) : k \in {j \in 1..n : series[j].points # <<>>}}
           after == Append1(acc, one.labels, one.points)
           M == Relabel(l, one.labels)
<1>1. PICK m : Like(m, l, D) /\ acc = [buf |-> Buf(m), logs |-> acc.logs]  BY DEF RightAfter
<1>2. Emits(acc.logs, L \cup made(i))  BY DEF RightAfter
<1> HIDE DEF made
<1>3. Relabel(m, one.labels) = M  BY <1>1, RelabelLike
<1>4. Like(M, l, D)  BY LikeRelabel
<1>5. after = [buf |-> Buf(M), logs |-> acc.logs \o (IF one.points = <<>> THEN <<>> ELSE <<Event(M, one.points)>>)]
  <2>1. one.points \in Seq(P)  OBVIOUS
  <2>2. Append1([buf |-> Buf(m), logs |-> acc.logs], one.labels, one.points)
          = [buf |-> Buf(Relabel(m, one.labels)),
             logs |-> acc.logs \o (IF one.points = <<>> THEN <<>> ELSE <<Event(Relabel(m, one.labels), one.points)>>)]
    BY <2>1, OneSeries
  <2> HIDE DEF M
  <2> QED  BY <1>1, <1>3, <2>2
<1> HIDE DEF after, M
<1>6. after = [buf |-> Buf(M), logs |-> after.logs]  BY <1>5
<1>7. CASE one.points = <<>>
  <2>1. after.logs = acc.logs  BY <1>2, <1>5, <1>7, AppendNothing
  <2>2. made(i + 1) = made(i)
    <3>1. \A j \in 1..(i + 1) : series[j].points # <<>> => j \in 1..i  BY <1>7
    <3>2. \A j \in 1..i : j \in 1..(i + 1)  OBVIOUS
    <3>3. {j \in 1..(i + 1) : series[j].points # <<>>} = {j \in 1..i : series[j].points # <<>>}
      BY <3>1, <3>2, Zenon
    <3> QED  BY <3>3 DEF made
  <2>3. Emits(after.logs, L \cup made(i + 1))  BY <1>2, <2>1, <2>2
  <2> QED  BY <1>4, <1>6, <2>3 DEF RightAfter, made, after
<1>8. CASE one.points # <<>>
  <2> DEFINE e == Event(M, one.points)
  <2>1. after.logs = acc.logs \o <<e>>  BY <1>5, <1>8
  <2>2. encode_log(e) = LineOf(l, one)  BY DEF LineOf, M
  <2>3. Encodable(e)  BY EventLine DEF Event
  <2>4. encode_log(e) \notin L \cup made(i)
    <3>1. LineOf(l, one) \notin L  BY <1>8
    <3>2. \A k \in {j \in 1..i : series[j].points # <<>>} : LineOf(l, series[k]) # LineOf(l, one)
      BY <1>8
    <3> QED  BY <2>2, <3>1, <3>2 DEF made
  <2> HIDE DEF e
  <2>5. Emits(acc.logs \o <<e>>, (L \cup made(i)) \cup {encode_log(e)})  BY <1>2, <2>3, <2>4, EmitsOneMore
  <2>6. (L \cup made(i)) \cup {encode_log(e)} = L \cup made(i + 1)
    <3>1. \A j : (j \in 1..(i + 1) /\ series[j].points # <<>>)
                   <=> (j \in 1..i /\ series[j].points # <<>>) \/ j = i + 1
      BY <1>8
    <3>2. {j \in 1..(i + 1) : series[j].points # <<>>} = {j \in 1..i : series[j].points # <<>>} \cup {i + 1}
      BY <3>1, Zenon
    <3>3. made(i + 1) = made(i) \cup {LineOf(l, one)}  BY <3>2 DEF made
    <3> QED  BY <2>2, <3>3
  <2>7. Emits(after.logs, L \cup made(i + 1))  BY <2>1, <2>5, <2>6
  <2> QED  BY <1>4, <1>6, <2>7 DEF RightAfter, made, after
<1> QED  BY <1>7, <1>8

(* All of them are, by induction on their number, if their lines differ.    *)
LEMMA AllSeries ==
  ASSUME NEW l, l = [x \in DOMAIN l |-> l[x]], NEW D, NEW R, NEW series \in Seq(R),
         NEW logs, NEW L, Emits(logs, L),
         \A i \in DOMAIN series : DOMAIN series[i].labels = D /\ \E P : series[i].points \in Seq(P),
         \A i \in DOMAIN series : series[i].points # <<>> => LineOf(l, series[i]) \notin L,
         \A i, j \in DOMAIN series :
           series[i].points # <<>> /\ series[j].points # <<>> /\ i # j => LineOf(l, series[i]) # LineOf(l, series[j])
  PROVE  RightAfter(AppendAll([buf |-> Buf(l), logs |-> logs], series), l, D, L, series, Len(series))
<1> DEFINE n == Len(series)
           acc == [buf |-> Buf(l), logs |-> logs]
<1>1. n \in Nat /\ DOMAIN series = 1..n  OBVIOUS
<1>2. PICK f : Follows(f, acc, series, n) /\ AppendAll(acc, series) = f[n]  BY Chain
<1> HIDE DEF n
<1>3. f[0] = acc /\ \A i \in 0..n : i # n => f[i + 1] = Append1(f[i], series[i + 1].labels, series[i + 1].points)
  <2> HIDE DEF acc
  <2>1. 0 \in 0..n  BY <1>1
  <2>2. f[0] = acc  BY <1>2, <2>1 DEF Follows
  <2>3. ASSUME NEW i \in 0..n, i # n PROVE f[i + 1] = Append1(f[i], series[i + 1].labels, series[i + 1].points)
    <3>1. i + 1 \in 0..n /\ i + 1 # 0 /\ (i + 1) - 1 = i  BY <1>1, <2>3
    <3> QED  BY <1>2, <3>1 DEF Follows
  <2> QED  BY <2>2, <2>3
<1> DEFINE Good == {i \in Nat : i <= n => RightAfter(f[i], l, D, L, series, i)}
<1>4. 0 \in Good
  <2>1. Like(l, l, D)  BY DEF Like
  <2>2. {LineOf(l, series[k]) : k \in {j \in 1..0 : series[j].points # <<>>}} = {}
    <3>1. 1..0 = {}  OBVIOUS
    <3> QED  BY <3>1
  <2>3. f[0] = [buf |-> Buf(l), logs |-> f[0].logs] /\ f[0].logs = logs  BY <1>3
  <2>4. RightAfter(f[0], l, D, L, series, 0)
    <3>1. L \cup {LineOf(l, series[k]) : k \in {j \in 1..0 : series[j].points # <<>>}} = L  BY <2>2
    <3> QED  BY <2>1, <2>3, <3>1 DEF RightAfter
  <2> QED  BY <2>4
<1>5. ASSUME NEW i \in Nat, i \in Good PROVE i + 1 \in Good
  <2> SUFFICES ASSUME i + 1 <= n PROVE RightAfter(f[i + 1], l, D, L, series, i + 1)
    OBVIOUS
  <2>1. i <= n /\ i \in 0..n /\ i # n /\ i + 1 \in DOMAIN series  BY <1>1
  <2>2. RightAfter(f[i], l, D, L, series, i)  BY <1>5, <2>1
  <2>3. f[i + 1] = Append1(f[i], series[i + 1].labels, series[i + 1].points)  BY <1>3, <2>1
  <2>4. PICK P : series[i + 1].points \in Seq(P)  BY <2>1
  <2>5. DOMAIN series[i + 1].labels = D  BY <2>1
  <2>6. series[i + 1].points # <<>> => LineOf(l, series[i + 1]) \notin L  BY <2>1
  <2>7. ASSUME series[i + 1].points # <<>>, NEW k \in 1..i, series[k].points # <<>>
        PROVE LineOf(l, series[k]) # LineOf(l, series[i + 1])
    <3>1. k \in DOMAIN series /\ k # i + 1  BY <1>1, <2>1
    <3> QED  BY <2>1, <2>7, <3>1
  <2>8. RightAfter(Append1(f[i], series[i + 1].labels, series[i + 1].points), l, D, L, series, i + 1)
    BY <2>2, <2>4, <2>5, <2>6, <2>7, RightNext
  <2> QED  BY <2>3, <2>8
<1>6. Nat \subseteq Good
  <2> HIDE DEF Good
  <2> QED  BY <1>4, <1>5, Induct
<1>7. RightAfter(f[n], l, D, L, series, n)
  <2>1. n \in Good /\ n <= n  BY <1>1, <1>6
  <2> QED  BY <2>1
<1> QED  BY <1>2, <1>7 DEF n

(* A line has the labels it is made with.                                   *)
LEMMA LineMetric == ASSUME NEW l, NEW items, NEW counts PROVE Line(l, items, counts).metric = l
BY DEF Line, Coded, Series

(* The lines of the series of a record.                                     *)
RecordLines(items, metrics, labels) ==
  {Line([labels EXCEPT !.__name__ = m.name], items, Counts(items, m.field)) :
     m \in {n \in Range(metrics) : Positive(Counts(items, n.field)) # {}}}
KvLines(items, labels) ==
  {Line([labels EXCEPT !.instance = k], items, KvCounts(items, k)) :
     k \in {n \in NamedInstances(items) : Positive(KvCounts(items, n)) # {}}}
ExpectedLines(r, instance, type) ==
  IF r.kind \in {"tidb_record", "tikv_record"}
    THEN {Coded(one) : one \in ExpectedSeries(r, instance, type)}
    ELSE {[metric |-> one.metric, timestamps |-> <<1000 * Now>>, values |-> <<1>>] :
            one \in ExpectedSeries(r, instance, type)}

LEMMA CodedLines ==
  ASSUME NEW items, NEW labels
  PROVE  /\ \A metrics : {Coded(one) : one \in RecordSeries(items, metrics, labels)}
                            = RecordLines(items, metrics, labels)
         /\ {Coded(one) : one \in InstanceSeries(items, labels)} = KvLines(items, labels)
BY DEF RecordSeries, RecordLines, InstanceSeries, KvLines, Line

IsFcn(f) == f = [x \in DOMAIN f |-> f[x]]

(* Setting one label is EXCEPT.                                             *)
LEMMA RenamedLabels ==
  ASSUME NEW l, IsFcn(l), NEW new
  PROVE  /\ IsFcn(Relabel(l, new))
         /\ DOMAIN new = {"__name__"} => Relabel(l, new) = [l EXCEPT !.__name__ = new.__name__]
         /\ DOMAIN new = {"instance"} => Relabel(l, new) = [l EXCEPT !.instance = new.instance]
<1>1. IsFcn(Relabel(l, new))
  BY DEF Relabel, IsFcn
<1>2. ASSUME DOMAIN new = {"__name__"} PROVE Relabel(l, new) = [l EXCEPT !.__name__ = new.__name__]
  BY <1>2 DEF Relabel, IsFcn
<1>3. ASSUME DOMAIN new = {"instance"} PROVE Relabel(l, new) = [l EXCEPT !.instance = new.instance]
  BY <1>3 DEF Relabel, IsFcn
<1> QED  BY <1>1, <1>2, <1>3

(* The series of a record's metrics are the expected lines.                 *)
LEMMA MetricLines ==
  ASSUME NEW R, NEW items \in Seq(R), NEW T, NEW metrics \in Seq(T),
         \A i, j \in DOMAIN metrics : metrics[i].name = metrics[j].name => i = j,
         NEW l, l = [x \in DOMAIN l |-> l[x]], "__name__" \in DOMAIN l
  PROVE  LET after == AppendAll(Logging(Buf(l)), MetricSeries(items, metrics))
         IN  /\ \E m : Like(m, l, {"__name__"}) /\ after = [buf |-> Buf(m), logs |-> after.logs]
             /\ Emits(after.logs, RecordLines(items, metrics, l))
<1> DEFINE series == MetricSeries(items, metrics)
           D == {"__name__"}
           after == AppendAll(Logging(Buf(l)), series)
           named(i) == [l EXCEPT !.__name__ = metrics[i].name]
           counts(i) == Counts(items, metrics[i].field)
<1>1. /\ DOMAIN metrics = 1..Len(metrics) /\ Len(metrics) \in Nat
      /\ series \in Seq({series[i] : i \in DOMAIN metrics})
      /\ DOMAIN series = DOMAIN metrics /\ Len(series) = Len(metrics)
  <2>1. DOMAIN metrics = 1..Len(metrics) /\ Len(metrics) \in Nat  OBVIOUS
  <2>2. series = [i \in 1..Len(metrics) |-> series[i]] /\ DOMAIN series = DOMAIN metrics
    BY <2>1 DEF MetricSeries
  <2> HIDE DEF series
  <2> DEFINE S == {series[i] : i \in DOMAIN metrics}
  <2>3. \A i \in 1..Len(metrics) : series[i] \in S  BY <2>1
  <2> HIDE DEF S
  <2>4. series \in Seq(S) /\ Len(series) = Len(metrics)  BY <2>1, <2>2, <2>3
  <2> QED  BY <2>1, <2>2, <2>4 DEF S
<1>2. ASSUME NEW i \in DOMAIN metrics
      PROVE  /\ series[i].labels = [__name__ |-> metrics[i].name]
             /\ series[i].points = PositivePoints(items, counts(i))
  <2>1. /\ series[i].labels = [__name__ |-> metrics[i].name]
        /\ series[i].points = MetricPoints(items, metrics[i].field)
    BY DEF MetricSeries
  <2> QED  BY <2>1 DEF MetricPoints, Counts
<1>3. ASSUME NEW i \in DOMAIN metrics
      PROVE  /\ DOMAIN series[i].labels = D
             /\ \E P : series[i].points \in Seq(P)
             /\ series[i].points = <<>> <=> Positive(counts(i)) = {}
             /\ LineOf(l, series[i]) = Line(named(i), items, counts(i))
  <2>1. DOMAIN counts(i) = DOMAIN items  BY DEF Counts
  <2> DEFINE new == [__name__ |-> metrics[i].name]
             points == PositivePoints(items, counts(i))
             m == Relabel(l, new)
  <2>2. DOMAIN new = D /\ new.__name__ = metrics[i].name  OBVIOUS
  <2>3. series[i].labels = new /\ series[i].points = points  BY <1>2
  <2> HIDE DEF series, counts, new
  <2>4. m = [l EXCEPT !.__name__ = new.__name__] /\ m = [x \in DOMAIN m |-> m[x]]
    <3> HIDE DEF points, named, after
    <3>1. IsFcn(l)  BY DEF IsFcn
    <3>2. IsFcn(m) /\ m = [l EXCEPT !.__name__ = new.__name__]  BY <2>2, <3>1, RenamedLabels, Zenon
    <3> QED  BY <3>2, Zenon DEF IsFcn
  <2> HIDE DEF m
  <2>5. /\ \E P : points \in Seq(P)
        /\ points = <<>> <=> Positive(counts(i)) = {}
        /\ encode_log(Event(m, points)) = Line(m, items, counts(i))
    BY <2>1, <2>4, SeriesOfItems
  <2> HIDE DEF points
  <2>6. LineOf(l, series[i]) = encode_log(Event(m, points))  BY <2>3 DEF LineOf, m
  <2> QED  BY <2>2, <2>3, <2>4, <2>5, <2>6
<1>4. ASSUME NEW i \in DOMAIN metrics, NEW j \in DOMAIN metrics, LineOf(l, series[i]) = LineOf(l, series[j])
      PROVE i = j
  <2>1. named(i) = named(j)
    <3> HIDE DEF named, counts, series
    <3>1. Line(named(i), items, counts(i)) = Line(named(j), items, counts(j))  BY <1>3, <1>4
    <3> QED  BY <3>1, LineMetric
  <2>2. named(i).__name__ = metrics[i].name /\ named(j).__name__ = metrics[j].name  OBVIOUS
  <2> QED  BY <2>1, <2>2
<1>5. Emits(<<>>, {})  BY EmitsNone
<1>6. RightAfter(after, l, D, {}, series, Len(series))
  <2>1. \A i \in DOMAIN series : DOMAIN series[i].labels = D /\ \E P : series[i].points \in Seq(P)
    BY <1>1, <1>3
  <2>2. \A i, j \in DOMAIN series : i # j => LineOf(l, series[i]) # LineOf(l, series[j])
    BY <1>1, <1>4
  <2>3. Logging(Buf(l)) = [buf |-> Buf(l), logs |-> <<>>]  BY DEF Logging
  <2> HIDE DEF series, D
  <2>4. RightAfter(AppendAll([buf |-> Buf(l), logs |-> <<>>], series), l, D, {}, series, Len(series))
    BY <1>1, <1>5, <2>1, <2>2, AllSeries
  <2> QED  BY <2>3, <2>4
<1>7. {LineOf(l, series[k]) : k \in {n \in 1..Len(series) : series[n].points # <<>>}} = RecordLines(items, metrics, l)
  <2> DEFINE Left == {LineOf(l, series[k]) : k \in {n \in 1..Len(series) : series[n].points # <<>>}}
  <2>1. ASSUME NEW x \in Left PROVE x \in RecordLines(items, metrics, l)
    <3>1. PICK k \in 1..Len(series) : series[k].points # <<>> /\ x = LineOf(l, series[k])
      OBVIOUS
    <3>2. k \in DOMAIN metrics /\ metrics[k] \in Range(metrics)  BY <1>1 DEF Range
    <3>3. Positive(counts(k)) # {} /\ x = Line(named(k), items, counts(k))  BY <1>3, <3>1, <3>2
    <3> QED  BY <3>2, <3>3 DEF RecordLines
  <2>2. ASSUME NEW x \in RecordLines(items, metrics, l) PROVE x \in Left
    <3>1. PICK m \in Range(metrics) : /\ Positive(Counts(items, m.field)) # {}
                                      /\ x = Line([l EXCEPT !.__name__ = m.name], items, Counts(items, m.field))
      BY DEF RecordLines
    <3>2. PICK k \in DOMAIN metrics : m = metrics[k]  BY DEF Range
    <3>3. k \in 1..Len(series) /\ series[k].points # <<>> /\ x = LineOf(l, series[k])
      BY <1>1, <1>3, <3>1, <3>2
    <3> QED  BY <3>3
  <2> QED  BY <2>1, <2>2
<1>8. /\ \E m : Like(m, l, D) /\ after = [buf |-> Buf(m), logs |-> after.logs]
      /\ Emits(after.logs, RecordLines(items, metrics, l))
  <2> HIDE DEF after, series, D
  <2>1. {} \cup {LineOf(l, series[k]) : k \in {n \in 1..Len(series) : series[n].points # <<>>}} = RecordLines(items, metrics, l)
    BY <1>7
  <2> QED  BY <1>6, <2>1, Zenon DEF RightAfter
<1> QED  BY <1>8

(* KvInstances lists each TiKV instance an item names, once.                *)
LEMMA InstancesNamed ==
  ASSUME NEW items, NamedInstances(items) \subseteq Range(InstanceOrder)
  PROVE  /\ \E T : KvInstances(items) \in Seq(T)
         /\ {KvInstances(items)[n] : n \in DOMAIN KvInstances(items)} = NamedInstances(items)
         /\ \A i, j \in DOMAIN KvInstances(items) : KvInstances(items)[i] = KvInstances(items)[j] => i = j
<1> DEFINE places == {n \in DOMAIN InstanceOrder : \E i \in DOMAIN items :
                         InstanceOrder[n] \in DOMAIN items[i].stmt_kv_exec_count}
           k == Kept(InstanceOrder, places)
<1>1. /\ InstanceOrder \in Seq(Range(InstanceOrder))
      /\ \A i, j \in DOMAIN InstanceOrder : InstanceOrder[i] = InstanceOrder[j] => i = j
  BY EventsAssumption DEF IsInjective
<1>2. places \in SUBSET (DOMAIN InstanceOrder)  OBVIOUS
<1>3. {InstanceOrder[i] : i \in places} = NamedInstances(items)
  <2>1. ASSUME NEW x \in NamedInstances(items) PROVE \E i \in places : InstanceOrder[i] = x
    <3>1. PICK i \in DOMAIN items : x \in DOMAIN items[i].stmt_kv_exec_count  BY DEF NamedInstances
    <3>2. PICK n \in DOMAIN InstanceOrder : InstanceOrder[n] = x  BY DEF Range
    <3> QED  BY <3>1, <3>2
  <2>2. ASSUME NEW n \in places PROVE InstanceOrder[n] \in NamedInstances(items)
    BY DEF NamedInstances
  <2> HIDE DEF places
  <2> QED  BY <2>1, <2>2
<1> HIDE DEF places
<1>4. k \in Seq(Range(InstanceOrder))
  BY <1>1, <1>2, KeptPlaces
<1>5. {k[j] : j \in DOMAIN k} = {InstanceOrder[i] : i \in places}
  BY <1>1, <1>2, KeptSet
<1>6. \A i, j \in DOMAIN k : k[i] = k[j] => i = j
  <2>1. \A i, j \in places : InstanceOrder[i] = InstanceOrder[j] => i = j  BY <1>1, <1>2
  <2> QED  BY <1>1, <1>2, <2>1, KeptSet
<1>7. KvInstances(items) = k  BY DEF KvInstances, places
<1> HIDE DEF k
<1>8. \E T : KvInstances(items) \in Seq(T)  BY <1>4, <1>7, Zenon
<1>9. {KvInstances(items)[n] : n \in DOMAIN KvInstances(items)} = NamedInstances(items)
  <2>1. {k[j] : j \in DOMAIN k} = NamedInstances(items)  BY <1>3, <1>5, Zenon
  <2> QED  BY <2>1, <1>7, Zenon
<1>10. \A i, j \in DOMAIN KvInstances(items) : KvInstances(items)[i] = KvInstances(items)[j] => i = j
  BY <1>6, <1>7, Zenon
<1> QED  BY <1>8, <1>9, <1>10, Zenon

(* The series of the TiKV instances are the expected lines, and new ones.   *)
LEMMA KvLinesEmitted ==
  ASSUME NEW R, NEW items \in Seq(R), NamedInstances(items) \subseteq Range(InstanceOrder),
         NEW l, l = [x \in DOMAIN l |-> l[x]], "instance" \in DOMAIN l,
         NEW logs, NEW L, Emits(logs, L), \A one \in KvLines(items, l) : one \notin L
  PROVE  Emits(AppendAll([buf |-> Buf(l), logs |-> logs], KvSeries(items)).logs, L \cup KvLines(items, l))
<1> DEFINE series == KvSeries(items)
           inst == KvInstances(items)
           D == {"instance"}
           after == AppendAll([buf |-> Buf(l), logs |-> logs], series)
           named(i) == [l EXCEPT !.instance = inst[i]]
           counts(i) == KvCounts(items, inst[i])
<1>0. /\ \E T : inst \in Seq(T)
      /\ {inst[n] : n \in DOMAIN inst} = NamedInstances(items)
      /\ \A i, j \in DOMAIN inst : inst[i] = inst[j] => i = j
  BY InstancesNamed
<1>1. /\ DOMAIN inst = 1..Len(inst) /\ Len(inst) \in Nat
      /\ \E T : series \in Seq(T)
      /\ DOMAIN series = DOMAIN inst /\ Len(series) = Len(inst)
  <2>1. DOMAIN inst = 1..Len(inst) /\ Len(inst) \in Nat
    <3>1. PICK T : inst \in Seq(T)  BY <1>0
    <3> HIDE DEF inst
    <3> QED  BY <3>1
  <2>2. series = [i \in 1..Len(inst) |-> series[i]] /\ DOMAIN series = DOMAIN inst
    BY <2>1 DEF KvSeries
  <2> HIDE DEF series, inst
  <2> DEFINE S == {series[i] : i \in DOMAIN inst}
  <2>3. \A i \in 1..Len(inst) : series[i] \in S  BY <2>1
  <2> HIDE DEF S
  <2>4. series \in Seq(S) /\ Len(series) = Len(inst)  BY <2>1, <2>2, <2>3
  <2> QED  BY <2>1, <2>2, <2>4
<1>2. ASSUME NEW i \in DOMAIN inst
      PROVE  /\ series[i].labels = [instance |-> inst[i]]
             /\ series[i].points = PositivePoints(items, counts(i))
  <2>1. /\ series[i].labels = [instance |-> inst[i]]
        /\ series[i].points = KvPoints(items, inst[i])
    BY DEF KvSeries
  <2> HIDE DEF inst
  <2> QED  BY <2>1 DEF KvPoints, KvCounts
<1> HIDE DEF inst
<1>3. ASSUME NEW i \in DOMAIN inst
      PROVE  /\ DOMAIN series[i].labels = D
             /\ \E P : series[i].points \in Seq(P)
             /\ series[i].points = <<>> <=> Positive(counts(i)) = {}
             /\ LineOf(l, series[i]) = Line(named(i), items, counts(i))
  <2>1. DOMAIN counts(i) = DOMAIN items  BY DEF KvCounts
  <2> DEFINE new == [instance |-> inst[i]]
             points == PositivePoints(items, counts(i))
             m == Relabel(l, new)
  <2>2. DOMAIN new = D /\ new.instance = inst[i]  OBVIOUS
  <2>3. series[i].labels = new /\ series[i].points = points  BY <1>2
  <2> HIDE DEF series, counts, new
  <2>4. m = [l EXCEPT !.instance = new.instance] /\ m = [x \in DOMAIN m |-> m[x]]
    <3> HIDE DEF points, named, after
    <3>1. IsFcn(l)  BY DEF IsFcn
    <3>2. IsFcn(m) /\ m = [l EXCEPT !.instance = new.instance]  BY <2>2, <3>1, RenamedLabels, Zenon
    <3> QED  BY <3>2, Zenon DEF IsFcn
  <2> HIDE DEF m
  <2>5. /\ \E P : points \in Seq(P)
        /\ points = <<>> <=> Positive(counts(i)) = {}
        /\ encode_log(Event(m, points)) = Line(m, items, counts(i))
    BY <2>1, <2>4, SeriesOfItems
  <2> HIDE DEF points
  <2>6. LineOf(l, series[i]) = encode_log(Event(m, points))  BY <2>3 DEF LineOf, m
  <2> QED  BY <2>2, <2>3, <2>4, <2>5, <2>6
<1>4. ASSUME NEW i \in DOMAIN inst, NEW j \in DOMAIN inst, LineOf(l, series[i]) = LineOf(l, series[j])
      PROVE i = j
  <2>1. named(i) = named(j)
    <3> HIDE DEF named, counts, series
    <3>1. Line(named(i), items, counts(i)) = Line(named(j), items, counts(j))  BY <1>3, <1>4
    <3> QED  BY <3>1, LineMetric
  <2>2. named(i).instance = inst[i] /\ named(j).instance = inst[j]  OBVIOUS
  <2> QED  BY <1>0, <2>1, <2>2
<1>7. {LineOf(l, series[k]) : k \in {n \in 1..Len(series) : series[n].points # <<>>}} = KvLines(items, l)
  <2> DEFINE Left == {LineOf(l, series[k]) : k \in {n \in 1..Len(series) : series[n].points # <<>>}}
  <2>1. ASSUME NEW x \in Left PROVE x \in KvLines(items, l)
    <3>1. PICK k \in 1..Len(series) : series[k].points # <<>> /\ x = LineOf(l, series[k])
      OBVIOUS
    <3>2. k \in DOMAIN inst /\ inst[k] \in NamedInstances(items)  BY <1>0, <1>1
    <3>3. Positive(counts(k)) # {} /\ x = Line(named(k), items, counts(k))  BY <1>3, <3>1, <3>2
    <3> QED  BY <3>2, <3>3 DEF KvLines, NamedInstances
  <2>2. ASSUME NEW x \in KvLines(items, l) PROVE x \in Left
    <3>1. PICK y \in NamedInstances(items) : /\ Positive(KvCounts(items, y)) # {}
                                      /\ x = Line([l EXCEPT !.instance = y], items, KvCounts(items, y))
      BY DEF KvLines, NamedInstances
    <3>2. PICK k \in DOMAIN inst : y = inst[k]  BY <1>0
    <3>3. k \in 1..Len(series) /\ series[k].points # <<>> /\ x = LineOf(l, series[k])
      BY <1>1, <1>3, <3>1, <3>2
    <3> QED  BY <3>3
  <2> QED  BY <2>1, <2>2
<1>6. RightAfter(after, l, D, L, series, Len(series))
  <2>1. \A i \in DOMAIN series : DOMAIN series[i].labels = D /\ \E P : series[i].points \in Seq(P)
    BY <1>1, <1>3
  <2>2. \A i, j \in DOMAIN series : i # j => LineOf(l, series[i]) # LineOf(l, series[j])
    BY <1>1, <1>4
  <2>3. \A i \in DOMAIN series : series[i].points # <<>> => LineOf(l, series[i]) \notin L
    BY <1>1, <1>7
  <2>4. PICK T : series \in Seq(T)  BY <1>1
  <2> HIDE DEF series, D
  <2>5. RightAfter(AppendAll([buf |-> Buf(l), logs |-> logs], series), l, D, L, series, Len(series))
    BY <2>1, <2>2, <2>3, <2>4, AllSeries
  <2> QED  BY <2>5
<1>8. Emits(after.logs, L \cup KvLines(items, l))
  <2> HIDE DEF after, series, D
  <2> QED  BY <1>6, <1>7, Zenon DEF RightAfter
<1> QED  BY <1>8

-----------------------------------------------------------------------------
(* All the responses there are.                                             *)

Names == {"__name__", "instance", "instance_type", "sql_digest", "plan_digest", "tag_label"}
IsLabels(l) == l = [x \in Names |-> l[x]]

(* Labels has all six labels and no other.                                  *)
LEMMA LabelsNamed ==
  ASSUME NEW a, NEW b, NEW c, NEW d, NEW e, NEW f PROVE IsLabels(Labels(a, b, c, d, e, f))
BY DEF IsLabels, Labels, Names

(* The labels l of the buffer become m.                                     *)
RelabelsTo(l, new, m) ==
  /\ IsLabels(l) /\ IsLabels(m)
  /\ m.__name__ = IF "__name__" \in DOMAIN new THEN new.__name__ ELSE l.__name__
  /\ m.instance = IF "instance" \in DOMAIN new THEN new.instance ELSE l.instance
  /\ m.instance_type = IF "instance_type" \in DOMAIN new THEN new.instance_type ELSE l.instance_type
  /\ m.sql_digest = IF "sql_digest" \in DOMAIN new THEN new.sql_digest ELSE l.sql_digest
  /\ m.plan_digest = IF "plan_digest" \in DOMAIN new THEN new.plan_digest ELSE l.plan_digest
  /\ m.tag_label = IF "tag_label" \in DOMAIN new THEN new.tag_label ELSE l.tag_label

LEMMA Relabelled ==
  ASSUME NEW l, NEW m, NEW new, RelabelsTo(l, new, m) PROVE Relabel(l, new) = m
<1>1. DOMAIN l = Names /\ DOMAIN m = Names  BY DEF IsLabels, RelabelsTo
<1>2. \A x \in Names : m[x] = IF x \in DOMAIN new THEN new[x] ELSE l[x]  BY DEF Names, RelabelsTo
<1>3. Relabel(l, new) = [x \in Names |-> m[x]]  BY <1>1, <1>2 DEF Relabel
<1> QED  BY <1>3 DEF IsLabels, RelabelsTo

(* One point, in milliseconds and as it is.                                 *)
LEMMA OnePoint ==
  ASSUME NEW x
  PROVE  /\ [i \in DOMAIN <<x>> |-> 1000 * <<x>>[i]] = <<1000 * x>>
         /\ [i \in DOMAIN <<x>> |-> <<x>>[i]] = <<x>>
<1>1. [i \in DOMAIN <<x>> |-> <<x>>[i]] = <<x>>  OBVIOUS
<1>2. ASSUME NEW y PROVE [i \in {1} |-> y] = <<y>>  OBVIOUS
<1>3. DOMAIN <<x>> = {1} /\ <<x>>[1] = x  OBVIOUS
<1>4. [i \in DOMAIN <<x>> |-> 1000 * <<x>>[i]] = [i \in {1} |-> 1000 * x]
  <2>1. ASSUME NEW f, DOMAIN f = {1}, f[1] = x
        PROVE  [i \in DOMAIN f |-> 1000 * f[i]] = [i \in {1} |-> 1000 * x]
    BY <2>1
  <2> QED  BY <1>3, <2>1
<1>5. [i \in {1} |-> 1000 * x] = <<1000 * x>>  BY <1>2
<1> QED  BY <1>1, <1>4, <1>5

(* An event with one point, at the time of Now.                             *)
LEMMA MetaEmits ==
  ASSUME NEW l, l = [x \in DOMAIN l |-> l[x]]
  PROVE  Emits(<<make_metric_like_log_event(l, <<Now>>, <<1>>)>>,
               {[metric |-> l, timestamps |-> <<1000 * Now>>, values |-> <<1>>]})
<1> DEFINE e == make_metric_like_log_event(l, <<Now>>, <<1>>)
           line == [metric |-> l, timestamps |-> <<1000 * Now>>, values |-> <<1>>]
           with(t, v) == [metric |-> l, timestamps |-> t, values |-> v]
           times == [i \in DOMAIN <<Now>> |-> 1000 * <<Now>>[i]]
           values == [i \in DOMAIN <<1>> |-> <<1>>[i]]
<1>1. Encodable(e) /\ encode_log(e) = with(times, values)
  BY EventLine
<1>2. times = <<1000 * Now>>  BY OnePoint
<1>3. values = <<1>>  BY OnePoint
<1> HIDE DEF e, times, values, with
<1>4. encode_log(e) = line
  <2>1. encode_log(e) = with(<<1000 * Now>>, <<1>>)  BY <1>1, <1>2, <1>3
  <2> QED  BY <2>1 DEF with
<1> HIDE DEF line
<1>5. Emits(<<>> \o <<e>>, {} \cup {line})
  <2>1. Emits(<<>>, {}) /\ encode_log(e) \notin {}  BY EmitsNone
  <2>2. Emits(<<>> \o <<e>>, {} \cup {encode_log(e)})  BY <1>1, <2>1, EmitsOneMore
  <2> QED  BY <1>4, <2>2
<1>6. <<>> \o <<e>> = <<e>>  OBVIOUS
<1>7. {} \cup {line} = {line}  OBVIOUS
<1> QED
  <2>1. Emits(<<e>>, {line})  BY <1>5, <1>6, <1>7, Zenon
  <2> QED  BY <2>1 DEF e, line

(* A TiKV record makes the expected lines; none, if its tag is of no use.   *)
LEMMA TiKVEmits ==
  ASSUME NEW r, NEW R, r.items \in Seq(R), r.kind = "tikv_record", NEW instance, NEW type
  PROVE  Emits(parse_tikv_record(r, instance), ExpectedLines(r, instance, type))
<1> DEFINE tag == decode_tag(r.resource_group_tag)
<1>1. CASE tag = None
  <2>1. parse_tikv_record(r, instance) = <<>>  BY <1>1 DEF parse_tikv_record
  <2>2. ExpectedLines(r, instance, type) = {}  BY <1>1 DEF ExpectedLines, ExpectedSeries
  <2> QED  BY <2>1, <2>2, EmitsNone
<1>2. CASE tag # None
  <2> DEFINE l == Labels("", instance, "tikv", tag.sql_digest, tag.plan_digest, tag.tag_label)
             first == [instance |-> instance, instance_type |-> "tikv"]
             buf == WithLabels(WithLabels(DefaultBuf, first), tag)
  <2>1. DOMAIN tag = {"sql_digest", "plan_digest", "tag_label"}
    BY <1>2 DEF decode_tag
  <2>2. buf = Buf(l)
    <3> DEFINE l0 == DefaultBuf.labels
    <3>1. DefaultBuf = Buf(l0)  BY DEF DefaultBuf, Buf
    <3>2. buf = Buf(Relabel(Relabel(l0, first), tag))
      <4> HIDE DEF l0, tag, first
      <4> QED  BY <3>1, Relabelling
    <3>3. l0 = Labels("", "", "", "", "", "")  BY DEF DefaultBuf, Labels
    <3> HIDE DEF l0, tag
    <3>4. Relabel(l0, first) = Labels("", instance, "tikv", "", "", "")
      <4>1. IsLabels(l0) /\ IsLabels(Labels("", instance, "tikv", "", "", ""))  BY <3>3, LabelsNamed
      <4>2. RelabelsTo(l0, first, Labels("", instance, "tikv", "", "", ""))
        BY <3>3, <4>1 DEF RelabelsTo, Labels
      <4> HIDE DEF first
      <4> QED  BY <4>2, Relabelled
    <3>5. Relabel(Labels("", instance, "tikv", "", "", ""), tag) = l
      <4> DEFINE l1 == Labels("", instance, "tikv", "", "", "")
      <4>1. IsLabels(l1) /\ IsLabels(l)  BY LabelsNamed
      <4>2. RelabelsTo(l1, tag, l)  BY <2>1, <4>1 DEF RelabelsTo, Labels
      <4> HIDE DEF l1, l
      <4>3. Relabel(l1, tag) = l  BY <4>2, Relabelled
      <4> QED  BY <4>3 DEF l1
    <3> QED  BY <3>2, <3>4, <3>5
  <2>3. parse_tikv_record(r, instance) = AppendAll(Logging(buf), MetricSeries(r.items, TiKVMetrics)).logs
    BY <1>2 DEF parse_tikv_record
  <2>4. ExpectedLines(r, instance, type) = RecordLines(r.items, TiKVMetrics, l)
    <3>1. ExpectedSeries(r, instance, type) = RecordSeries(r.items, TiKVMetrics, l)
      BY <1>2 DEF ExpectedSeries
    <3> HIDE DEF l
    <3>2. ExpectedLines(r, instance, type) = {Coded(one) : one \in RecordSeries(r.items, TiKVMetrics, l)}
      BY <3>1 DEF ExpectedLines
    <3> QED  BY <3>2, CodedLines, Zenon
  <2>5. TiKVMetrics \in Seq({Metric("topsql_cpu_time_ms", "cpu_time_ms"),
                 Metric("topsql_read_keys", "read_keys"),
                 Metric("topsql_write_keys", "write_keys")})
        /\ \A i, j \in DOMAIN TiKVMetrics : TiKVMetrics[i].name = TiKVMetrics[j].name => i = j
    BY DEF TiKVMetrics, Metric
  <2>6. l = [x \in DOMAIN l |-> l[x]] /\ "__name__" \in DOMAIN l  BY DEF Labels
  <2> HIDE DEF l, buf
  <2>7. Emits(AppendAll(Logging(Buf(l)), MetricSeries(r.items, TiKVMetrics)).logs, RecordLines(r.items, TiKVMetrics, l))
    BY <2>5, <2>6, MetricLines
  <2> QED  BY <2>2, <2>3, <2>4, <2>7
<1> QED  BY <1>1, <1>2

(* A line has the type of instance of the labels it is made with.           *)
LEMMA OwnLineType ==
  ASSUME NEW items, NEW metrics, NEW l, "instance_type" \in DOMAIN l, NEW one \in RecordLines(items, metrics, l)
  PROVE  one.metric.instance_type = l.instance_type
<1>1. PICK k : one = Line([l EXCEPT !.__name__ = k.name], items, Counts(items, k.field))  BY DEF RecordLines
<1>2. one.metric = [l EXCEPT !.__name__ = k.name]  BY <1>1, LineMetric
<1> QED  BY <1>2

LEMMA KvLineType ==
  ASSUME NEW items, NEW l, "instance_type" \in DOMAIN l, NEW one \in KvLines(items, l)
  PROVE  one.metric.instance_type = l.instance_type
<1>1. PICK k : one = Line([l EXCEPT !.instance = k], items, KvCounts(items, k))  BY DEF KvLines
<1>2. one.metric = [l EXCEPT !.instance = k]  BY <1>1, LineMetric
<1> QED  BY <1>2

(* A TiDB record makes the expected lines, TiDB's and each TiKV instance's. *)
LEMMA TiDBEmits ==
  ASSUME NEW r, NEW R, r.items \in Seq(R), NamedInstances(r.items) \subseteq Range(InstanceOrder),
         r.kind = "tidb_record", NEW instance, NEW type
  PROVE  Emits(parse_tidb_record(r, instance), ExpectedLines(r, instance, type))
<1> DEFINE sql == encode_upper[r.sql_digest]
           plan == encode_upper[r.plan_digest]
           l == Labels("", instance, "tidb", sql, plan, "")
           first == [instance |-> instance, instance_type |-> "tidb", sql_digest |-> sql, plan_digest |-> plan]
           second == [__name__ |-> "topsql_stmt_exec_count", instance_type |-> "tikv"]
           kl == Labels("topsql_stmt_exec_count", instance, "tikv", sql, plan, "")
           kl0 == Labels("topsql_stmt_exec_count", "", "tikv", sql, plan, "")
           own == AppendAll(Logging(Buf(l)), MetricSeries(r.items, TiDBMetrics))
           L == RecordLines(r.items, TiDBMetrics, l)
<1> HIDE DEF sql, plan
<1>1. WithLabels(DefaultBuf, first) = Buf(l)
  <2> DEFINE l0 == DefaultBuf.labels
  <2>1. DefaultBuf = Buf(l0)  BY DEF DefaultBuf, Buf
  <2>2. l0 = Labels("", "", "", "", "", "")  BY DEF DefaultBuf, Labels
  <2> HIDE DEF l0
  <2>3. Relabel(l0, first) = l
    <3>1. IsLabels(l0) /\ IsLabels(l)  BY <2>2, LabelsNamed
    <3>2. RelabelsTo(l0, first, l)  BY <2>2, <3>1 DEF RelabelsTo, Labels
    <3> HIDE DEF first, l
    <3> QED  BY <3>2, Relabelled
  <2> HIDE DEF first, l
  <2> QED  BY <2>1, <2>3, Relabelling
<1>2. parse_tidb_record(r, instance)
        = AppendAll([own EXCEPT !.buf = WithLabels(@, second)], KvSeries(r.items)).logs
  BY <1>1 DEF parse_tidb_record, sql, plan
<1>3. TiDBMetrics \in Seq({Metric("topsql_cpu_time_ms", "cpu_time_ms"),
                 Metric("topsql_stmt_exec_count", "stmt_exec_count"),
                 Metric("topsql_stmt_duration_sum_ns", "stmt_duration_sum_ns"),
                 Metric("topsql_stmt_duration_count", "stmt_duration_count")})
      /\ \A i, j \in DOMAIN TiDBMetrics : TiDBMetrics[i].name = TiDBMetrics[j].name => i = j
  BY DEF TiDBMetrics, Metric
<1>4. l = [x \in DOMAIN l |-> l[x]] /\ "__name__" \in DOMAIN l  BY DEF Labels
<1>5. /\ \E m : Like(m, l, {"__name__"}) /\ own = [buf |-> Buf(m), logs |-> own.logs]
      /\ Emits(own.logs, L)
  <2> HIDE DEF l
  <2> QED  BY <1>3, <1>4, MetricLines
<1> HIDE DEF own, L
<1>6. PICK m : Like(m, l, {"__name__"}) /\ own = [buf |-> Buf(m), logs |-> own.logs]  BY <1>5
<1>7. Relabel(m, second) = kl
  <2>1. Relabel(m, second) = Relabel(l, second)
    <3>1. {"__name__"} \subseteq DOMAIN second  OBVIOUS
    <3> HIDE DEF l, second
    <3> QED  BY <1>6, <3>1, RelabelLike
  <2>2. Relabel(l, second) = kl
    <3>1. IsLabels(l) /\ IsLabels(kl)  BY LabelsNamed
    <3>2. RelabelsTo(l, second, kl)  BY <3>1 DEF RelabelsTo, Labels
    <3> HIDE DEF second, l, kl
    <3> QED  BY <3>2, Relabelled
  <2> QED  BY <2>1, <2>2
<1>8. [own EXCEPT !.buf = WithLabels(@, second)] = [buf |-> Buf(kl), logs |-> own.logs]
  <2> HIDE DEF second, kl, l
  <2>1. WithLabels(Buf(m), second) = Buf(kl)  BY <1>7, Relabelling
  <2>2. own.buf = Buf(m)  BY <1>6
  <2> QED  BY <1>6, <2>1, <2>2
<1>9. KvLines(r.items, kl) = KvLines(r.items, kl0)
  <2>1. ASSUME NEW k PROVE [kl EXCEPT !.instance = k] = [kl0 EXCEPT !.instance = k]
    <3> DEFINE name == "topsql_stmt_exec_count"
               type0 == "tikv"
               none == ""
    <3> HIDE DEF name, type0, none
    <3>1. [Labels(name, instance, type0, sql, plan, none) EXCEPT !.instance = k]
            = Labels(name, k, type0, sql, plan, none)
      BY DEF Labels
    <3>2. [Labels(name, none, type0, sql, plan, none) EXCEPT !.instance = k]
            = Labels(name, k, type0, sql, plan, none)
      BY DEF Labels
    <3> QED  BY <3>1, <3>2, Zenon DEF name, type0, none
  <2> HIDE DEF kl, kl0
  <2> QED  BY <2>1, Zenon DEF KvLines
<1>10. \A one \in KvLines(r.items, kl) : one \notin L
  <2>0. /\ "instance_type" \in DOMAIN kl /\ kl.instance_type = "tikv"
        /\ "instance_type" \in DOMAIN l /\ l.instance_type = "tidb"
    BY DEF Labels
  <2> HIDE DEF kl, l
  <2>1. \A one \in KvLines(r.items, kl) : one.metric.instance_type = "tikv"  BY <2>0, KvLineType
  <2>2. \A one \in L : one.metric.instance_type = "tidb"  BY <2>0, OwnLineType DEF L
  <2> QED  BY <2>1, <2>2
<1>11. kl = [x \in DOMAIN kl |-> kl[x]] /\ "instance" \in DOMAIN kl  BY DEF Labels
<1> HIDE DEF kl, kl0, l
<1>12. Emits(AppendAll([buf |-> Buf(kl), logs |-> own.logs], KvSeries(r.items)).logs, L \cup KvLines(r.items, kl))
  BY <1>5, <1>10, <1>11, KvLinesEmitted
<1>13. ExpectedLines(r, instance, type) = L \cup KvLines(r.items, kl0)
  <2>1. ExpectedSeries(r, instance, type)
          = RecordSeries(r.items, TiDBMetrics, l) \cup InstanceSeries(r.items, kl0)
    BY DEF ExpectedSeries, kl0, l, sql, plan
  <2>2. ExpectedLines(r, instance, type)
          = {Coded(one) : one \in RecordSeries(r.items, TiDBMetrics, l)}
            \cup {Coded(one) : one \in InstanceSeries(r.items, kl0)}
    BY <2>1 DEF ExpectedLines
  <2> QED  BY <2>2, CodedLines, Zenon DEF L
<1> QED  BY <1>2, <1>8, <1>9, <1>12, <1>13

(* Every response makes the expected lines.                                 *)
LEMMA ParseEmits ==
  ASSUME NEW r, IsResponse(r) \/ r = InstanceTick, NEW instance, NEW type
  PROVE  Emits(parse(r, instance, type), ExpectedLines(r, instance, type))
<1>1. r.kind \in {"tidb_record", "sql_meta", "plan_meta", "tikv_record", "empty", "instance"}
  BY DEF IsResponse, InstanceTick
<1>2. CASE r.kind = "tidb_record"
  <2>1. IsResponse(r)  BY <1>2 DEF InstanceTick
  <2>2. r.items \in Seq(Range(r.items)) /\ NamedInstances(r.items) \subseteq Range(InstanceOrder)
    BY <1>2, <2>1 DEF IsResponse, AreItems, NamedInstances
  <2>3. parse(r, instance, type) = parse_tidb_record(r, instance)  BY <1>2 DEF parse
  <2> QED  BY <1>2, <2>2, <2>3, TiDBEmits
<1>3. CASE r.kind = "tikv_record"
  <2>1. IsResponse(r)  BY <1>3 DEF InstanceTick
  <2>2. r.items \in Seq(Range(r.items))  BY <1>3, <2>1 DEF IsResponse, AreItems
  <2>3. parse(r, instance, type) = parse_tikv_record(r, instance)  BY <1>3 DEF parse
  <2> QED  BY <1>3, <2>2, <2>3, TiKVEmits
<1>4. CASE r.kind = "sql_meta"
  <2> DEFINE l == [__name__ |-> "topsql_sql_meta", sql_digest |-> encode_upper[r.sql_digest],
                   normalized_sql |-> r.normalized_sql, is_internal_sql |-> r.is_internal_sql]
  <2>1. l = [x \in DOMAIN l |-> l[x]]  OBVIOUS
  <2>2. parse(r, instance, type) = <<make_metric_like_log_event(l, <<Now>>, <<1>>)>>
    BY <1>4 DEF parse, parse_tidb_sql_meta
  <2>3. ExpectedLines(r, instance, type) = {[metric |-> l, timestamps |-> <<1000 * Now>>, values |-> <<1>>]}
    BY <1>4 DEF ExpectedLines, ExpectedSeries
  <2> HIDE DEF l
  <2> QED  BY <2>1, <2>2, <2>3, MetaEmits
<1>5. CASE r.kind = "plan_meta"
  <2> DEFINE l == [__name__ |-> "topsql_plan_meta", plan_digest |-> encode_upper[r.plan_digest],
                   normalized_plan |-> r.normalized_plan,
                   encoded_normalized_plan |-> r.encoded_normalized_plan]
  <2>1. l = [x \in DOMAIN l |-> l[x]]  OBVIOUS
  <2>2. parse(r, instance, type) = <<make_metric_like_log_event(l, <<Now>>, <<1>>)>>
    BY <1>5 DEF parse, parse_tidb_plan_meta
  <2>3. ExpectedLines(r, instance, type) = {[metric |-> l, timestamps |-> <<1000 * Now>>, values |-> <<1>>]}
    BY <1>5 DEF ExpectedLines, ExpectedSeries
  <2> HIDE DEF l
  <2> QED  BY <2>1, <2>2, <2>3, MetaEmits
<1>6. CASE r.kind = "instance"
  <2> DEFINE l == [__name__ |-> "topsql_instance", instance |-> instance, instance_type |-> type]
  <2>1. l = [x \in DOMAIN l |-> l[x]]  OBVIOUS
  <2>2. parse(r, instance, type) = <<make_metric_like_log_event(l, <<Now>>, <<1>>)>>
    BY <1>6 DEF parse, instance_event
  <2>3. ExpectedLines(r, instance, type) = {[metric |-> l, timestamps |-> <<1000 * Now>>, values |-> <<1>>]}
    BY <1>6 DEF ExpectedLines, ExpectedSeries
  <2> HIDE DEF l
  <2> QED  BY <2>1, <2>2, <2>3, MetaEmits
<1>7. CASE r.kind = "empty"
  <2>1. parse(r, instance, type) = <<>>  BY <1>7 DEF parse
  <2>2. ExpectedLines(r, instance, type) = {}  BY <1>7 DEF ExpectedLines, ExpectedSeries
  <2> QED  BY <2>1, <2>2, EmitsNone
<1> QED  BY <1>1, <1>2, <1>3, <1>4, <1>5, <1>6, <1>7

-----------------------------------------------------------------------------
(* The requests the sink makes.                                             *)

(* The lines for an endpoint.                                               *)
At(template, endpoint, lines) == {l \in Placed(template, lines) : Endpoint(template, l.metric) = endpoint}

(* The requests made of a log: one for each endpoint that a line has and    *)
(* that is a URI, with each line for that endpoint, once.                   *)
LEMMA RequestsOfLog ==
  ASSUME NEW template, NEW logs, NEW L, Emits(logs, L)
  PROVE  LET requests == build_request(encode_event(template, logs))
         IN  /\ DOMAIN requests = {Endpoint(template, l.metric) : l \in Placed(template, L)} \ NotUris
             /\ \A e \in DOMAIN requests :
                  Range(requests[e]) = At(template, e, L) /\ IsInjective(requests[e])
<1> DEFINE places == {i \in DOMAIN logs : Renders(template, logs[i]) /\ Encodable(logs[i])}
           kept == Kept(logs, places)
           encoded == encode_event(template, logs)
           endpoints == {encoded[i].endpoint : i \in DOMAIN encoded} \ NotUris
           of(e) == {i \in DOMAIN encoded : encoded[i].endpoint = e}
           requests == build_request(encoded)
<1>1. PICK T : logs \in Seq(T)  BY DEF Emits
<1>2. /\ places \in SUBSET (DOMAIN logs)
      /\ \A i \in DOMAIN logs : i \in places <=> Renders(template, logs[i])
  BY DEF Emits
<1>3. /\ \A i \in DOMAIN logs : encode_log(logs[i]) \in L
      /\ \A l \in L : \E i \in DOMAIN logs : encode_log(logs[i]) = l
      /\ \A i, j \in DOMAIN logs : encode_log(logs[i]) = encode_log(logs[j]) => i = j
  BY DEF Emits
<1>4. encoded = MapSeq(LAMBDA e : [endpoint |-> Render(template, e), line |-> encode_log(e)], kept)
  BY Zenon DEF encode_event
<1> HIDE DEF places
<1>5. kept \in Seq(T) /\ {kept[j] : j \in DOMAIN kept} = {logs[i] : i \in places}
  BY <1>1, <1>2, KeptPlaces, KeptSet
<1>6. \A i, j \in DOMAIN kept : kept[i] = kept[j] => i = j
  <2>1. \A i, j \in places : logs[i] = logs[j] => i = j  BY <1>2, <1>3
  <2> QED  BY <1>1, <1>2, <2>1, KeptSet
<1> HIDE DEF kept, encoded
<1>7. /\ DOMAIN encoded = DOMAIN kept
      /\ \A j \in DOMAIN kept : encoded[j].endpoint = Render(template, kept[j])
                                /\ encoded[j].line = encode_log(kept[j])
  <2>1. encoded = [j \in DOMAIN kept |-> [endpoint |-> Render(template, kept[j]), line |-> encode_log(kept[j])]]
    BY <1>4 DEF MapSeq
  <2> QED  BY <2>1
<1>8. \E U : encoded \in Seq(U)
  <2> DEFINE U == {encoded[j] : j \in DOMAIN kept}
  <2>1. DOMAIN kept = 1..Len(kept) /\ Len(kept) \in Nat  BY <1>5
  <2>2. encoded = [j \in 1..Len(kept) |-> encoded[j]]
    BY <1>4, <1>7, <2>1 DEF MapSeq
  <2>3. \A j \in 1..Len(kept) : encoded[j] \in U  BY <2>1
  <2> HIDE DEF U
  <2>4. encoded \in Seq(U)  BY <2>1, <2>2, <2>3
  <2> QED  BY <2>4

(* Every encoded event is a log event that renders, and the converse.       *)
<1>9. ASSUME NEW j \in DOMAIN encoded
      PROVE \E i \in places : encoded[j].endpoint = Render(template, logs[i]) /\ encoded[j].line = encode_log(logs[i])
  <2>1. \E i \in places : kept[j] = logs[i]  BY <1>5, <1>7
  <2> QED  BY <1>7, <2>1
<1>10. ASSUME NEW i \in places
       PROVE \E j \in DOMAIN encoded : encoded[j].endpoint = Render(template, logs[i]) /\ encoded[j].line = encode_log(logs[i])
  <2>1. \E j \in DOMAIN kept : kept[j] = logs[i]  BY <1>5
  <2> QED  BY <1>7, <2>1
<1>11. ASSUME NEW i \in DOMAIN encoded, NEW j \in DOMAIN encoded, encoded[i].line = encoded[j].line PROVE i = j
  <2>1. encode_log(kept[i]) = encode_log(kept[j])  BY <1>7, <1>11
  <2>2. PICK m \in places : kept[i] = logs[m]  BY <1>5, <1>7
  <2>3. PICK n \in places : kept[j] = logs[n]  BY <1>5, <1>7
  <2>4. m = n  BY <1>2, <1>3, <2>1, <2>2, <2>3
  <2> QED  BY <1>6, <1>7, <2>2, <2>3, <2>4
<1>12. DOMAIN requests = endpoints  BY DEF build_request
<1>13. ASSUME NEW e \in endpoints
       PROVE  /\ Range(requests[e]) = {encoded[i].line : i \in of(e)}
              /\ IsInjective(requests[e])
  <2> DEFINE q == Kept(encoded, of(e))
  <2>1. requests[e] = MapSeq(LAMBDA x : x.line, q)  BY DEF build_request
  <2>2. requests[e] = [j \in DOMAIN q |-> q[j].line]  BY <2>1 DEF MapSeq
  <2>3. PICK U : encoded \in Seq(U)  BY <1>8
  <2>4. of(e) \in SUBSET (DOMAIN encoded)  OBVIOUS
  <2> HIDE DEF of, requests
  <2>5. {q[j] : j \in DOMAIN q} = {encoded[i] : i \in of(e)}  BY <2>3, <2>4, KeptSet
  <2>6. \A i, j \in DOMAIN q : q[i] = q[j] => i = j
    <3>1. \A i, j \in of(e) : encoded[i] = encoded[j] => i = j  BY <1>11, <2>4
    <3> QED  BY <2>3, <2>4, <3>1, KeptSet
  <2> HIDE DEF q
  <2>7. Range(requests[e]) = {encoded[i].line : i \in of(e)}
    <3>1. ASSUME NEW x \in Range(requests[e]) PROVE \E i \in of(e) : x = encoded[i].line
      <4>1. PICK j \in DOMAIN q : x = q[j].line  BY <2>2 DEF Range
      <4>2. PICK i \in of(e) : q[j] = encoded[i]  BY <2>5
      <4> QED  BY <4>1, <4>2
    <3>2. ASSUME NEW i \in of(e) PROVE encoded[i].line \in Range(requests[e])
      <4>1. PICK j \in DOMAIN q : q[j] = encoded[i]  BY <2>5
      <4> QED  BY <2>2, <4>1 DEF Range
    <3> QED  BY <3>1, <3>2
  <2>8. IsInjective(requests[e])
    <3>1. ASSUME NEW i \in DOMAIN q, NEW j \in DOMAIN q, q[i].line = q[j].line PROVE i = j
      <4>1. PICK m \in of(e) : q[i] = encoded[m]  BY <2>5
      <4>2. PICK n \in of(e) : q[j] = encoded[n]  BY <2>5
      <4>3. m \in DOMAIN encoded /\ n \in DOMAIN encoded  BY <2>4
      <4>4. m = n  BY <1>11, <3>1, <4>1, <4>2, <4>3
      <4> QED  BY <2>6, <4>1, <4>2, <4>4
    <3> QED  BY <2>2, <3>1 DEF IsInjective
  <2> QED  BY <2>7, <2>8

(* The label of the template in an event is the one in its line.            *)
<1>14. ASSUME NEW i \in DOMAIN logs
       PROVE  /\ DOMAIN encode_log(logs[i]).metric = DOMAIN logs[i].labels.value
              /\ \A x \in DOMAIN logs[i].labels.value : encode_log(logs[i]).metric[x] = logs[i].labels.value[x].value
  <2>1. encode_log(logs[i]).metric = MapRange(LAMBDA v : v.value, logs[i].labels.value)  BY DEF encode_log
  <2>2. encode_log(logs[i]).metric = [x \in DOMAIN logs[i].labels.value |-> logs[i].labels.value[x].value]
    BY <2>1 DEF MapRange
  <2> QED  BY <2>2
<1>15. ASSUME NEW i \in DOMAIN logs, NEW e
       PROVE  encode_log(logs[i]) \in At(template, e, L) <=> i \in places /\ Render(template, logs[i]) = e
  <2>1. encode_log(logs[i]) \in L  BY <1>3
  <2>2. CASE template.label = None
    BY <1>2, <2>1, <2>2 DEF At, Placed, Endpoint, Renders, Render
  <2>3. CASE template.label # None
    BY <1>2, <1>14, <2>1, <2>3 DEF At, Placed, Endpoint, Renders, Render
  <2> QED  BY <2>2, <2>3
<1> HIDE DEF requests, endpoints
<1>16. ASSUME NEW e \in DOMAIN requests
       PROVE Range(requests[e]) = At(template, e, L) /\ IsInjective(requests[e])
  <2>1. Range(requests[e]) = {encoded[i].line : i \in of(e)} /\ IsInjective(requests[e])  BY <1>12, <1>13
  <2>2. ASSUME NEW i \in of(e) PROVE encoded[i].line \in At(template, e, L)
    <3>1. PICK k \in places : encoded[i].endpoint = Render(template, logs[k]) /\ encoded[i].line = encode_log(logs[k])
      BY <1>9
    <3> QED  BY <1>2, <1>15, <3>1
  <2>3. ASSUME NEW x \in At(template, e, L) PROVE \E i \in of(e) : encoded[i].line = x
    <3>1. x \in L  BY DEF At, Placed
    <3>2. PICK k \in DOMAIN logs : encode_log(logs[k]) = x  BY <1>3, <3>1
    <3>3. k \in places /\ Render(template, logs[k]) = e  BY <1>15, <3>2
    <3>4. PICK j \in DOMAIN encoded : encoded[j].endpoint = Render(template, logs[k]) /\ encoded[j].line = encode_log(logs[k])
      BY <1>10, <3>3
    <3> QED  BY <3>2, <3>3, <3>4
  <2> HIDE DEF of
  <2>4. {encoded[i].line : i \in of(e)} = At(template, e, L)  BY <2>2, <2>3
  <2> QED  BY <2>1, <2>4
<1>17. DOMAIN requests = {Endpoint(template, l.metric) : l \in Placed(template, L)} \ NotUris
  <2>1. ASSUME NEW j \in DOMAIN encoded
        PROVE \E l \in Placed(template, L) : Endpoint(template, l.metric) = encoded[j].endpoint
    <3>1. PICK i \in places : encoded[j].endpoint = Render(template, logs[i])  BY <1>9
    <3>2. encode_log(logs[i]) \in At(template, Render(template, logs[i]), L)  BY <1>2, <1>15
    <3> QED  BY <3>1, <3>2 DEF At
  <2>2. ASSUME NEW l \in Placed(template, L)
        PROVE \E j \in DOMAIN encoded : encoded[j].endpoint = Endpoint(template, l.metric)
    <3>1. l \in L /\ l \in At(template, Endpoint(template, l.metric), L)  BY DEF At, Placed
    <3>2. PICK i \in DOMAIN logs : encode_log(logs[i]) = l  BY <1>3, <3>1
    <3>3. i \in places /\ Render(template, logs[i]) = Endpoint(template, l.metric)  BY <1>15, <3>1, <3>2
    <3> QED  BY <1>10, <3>3
  <2>3. {encoded[j].endpoint : j \in DOMAIN encoded} = {Endpoint(template, l.metric) : l \in Placed(template, L)}
    BY <2>1, <2>2
  <2> QED  BY <1>12, <2>3 DEF endpoints
<1> QED  BY <1>16, <1>17 DEF requests, encoded

-----------------------------------------------------------------------------
-----------------------------------------------------------------------------
(* What the casts do to a time and to a count.                              *)

(* The powers of two that the casts depend on.                              *)
LEMMA WordPowers ==
  /\ \A n \in Nat : PowerOf2[n] \in Nat \ {0}
  /\ PowerOf2[WordBits] = 2 * PowerOf2[WordBits - 1]
  /\ WordBits \in Nat /\ FloatBits \in Nat /\ WordBits - 1 \in Nat
<1> DEFINE S == {n \in Nat : PowerOf2[n] \in Nat \ {0}}
<1>1. 0 \in S  BY PowersOfTwo
<1>2. \A n \in Nat : n \in S => n + 1 \in S  BY PowersOfTwo
<1>3. Nat \subseteq S
  <2> HIDE DEF S
  <2> QED  BY <1>1, <1>2, Induct
<1>4. WordBits \in Nat /\ FloatBits \in Nat /\ WordBits - 1 \in Nat /\ (WordBits - 1) + 1 = WordBits
  <2>1. WordBits \in Nat \ {0} /\ FloatBits \in Nat  BY EventsAssumption, Zenon DEF EventsAssumption
  <2> QED  BY <2>1
<1>5. PowerOf2[WordBits] = 2 * PowerOf2[WordBits - 1]  BY <1>4, PowersOfTwo
<1> QED  BY <1>3, <1>4, <1>5

(* Multiplication is monotone.                                              *)
LEMMA Monotone ==
  ASSUME NEW a \in Nat, NEW b \in Nat, NEW c \in Nat, a <= b PROVE a * c <= b * c
<1>1. PICK d \in Nat : b = a + d  BY b - a \in Nat
<1>2. (a + d) * c = a * c + d * c /\ d * c \in Nat /\ a * c \in Nat  OBVIOUS
<1> QED  BY <1>1, <1>2

(* A word has a last place: the least that the word fits above.             *)
LEMMA LastPlaceOfWord ==
  ASSUME NEW n \in Word
  PROVE  /\ n \in Nat /\ LastPlace(n) \in Nat \ {0}
         /\ LastPlace(n) = 1 \/ LastPlace(n) * PowerOf2[FloatBits] <= 2 * n
<1> DEFINE Q == PowerOf2[FloatBits]
           Fits == {e \in Nat : n < PowerOf2[e] * Q}
<1>1. n \in Nat /\ n < PowerOf2[WordBits] /\ Q \in Nat \ {0}  BY WordPowers DEF Word
<1> HIDE DEF Q
<1>2. WordBits \in Fits
  <2>1. PowerOf2[WordBits] \in Nat /\ 1 <= Q  BY <1>1, WordPowers
  <2>2. 1 * PowerOf2[WordBits] <= Q * PowerOf2[WordBits]  BY <1>1, <2>1, Monotone
  <2>3. Q * PowerOf2[WordBits] = PowerOf2[WordBits] * Q  BY <1>1, <2>1
  <2>4. n < PowerOf2[WordBits] * Q  BY <1>1, <2>1, <2>2, <2>3
  <2> QED  BY <2>4, WordPowers
<1>3. PICK e \in Fits : \A d \in Fits : e <= d
  <2>1. Fits \subseteq Nat /\ Fits # {}  BY <1>2
  <2> HIDE DEF Fits
  <2> QED  BY <2>1, Least
<1>4. e \in 0..WordBits  BY <1>2, <1>3, WordPowers
<1>5. PowerOf2[e] = 1 \/ PowerOf2[e] * Q <= 2 * n
  <2>1. CASE e = 0  BY <2>1, PowersOfTwo
  <2>2. CASE e # 0
    <3>1. e - 1 \in Nat /\ (e - 1) + 1 = e /\ e - 1 \notin Fits  BY <1>3, <2>2
    <3>2. PowerOf2[e] = 2 * PowerOf2[e - 1] /\ PowerOf2[e - 1] \in Nat  BY <3>1, PowersOfTwo
    <3>3. PowerOf2[e - 1] * Q <= n /\ PowerOf2[e - 1] * Q \in Nat  BY <1>1, <3>1, <3>2
    <3>4. PowerOf2[e] * Q = 2 * (PowerOf2[e - 1] * Q)  BY <1>1, <3>2
    <3> QED  BY <1>1, <3>3, <3>4
  <2> QED  BY <2>1, <2>2
<1> DEFINE Good(u) == n < u * Q /\ (u = 1 \/ u * Q <= 2 * n)
           places == {PowerOf2[d] : d \in 0..WordBits}
<1>6. \E u \in places : Good(u)  BY <1>3, <1>4, <1>5
<1>7. LastPlace(n) = CHOOSE u \in places : Good(u)  BY Zenon DEF LastPlace, Q
<1> HIDE DEF Good, places
<1>8. LastPlace(n) \in places /\ Good(LastPlace(n))  BY <1>6, <1>7
<1>9. LastPlace(n) \in Nat \ {0}  BY <1>8, WordPowers DEF places
<1> QED  BY <1>1, <1>8, <1>9 DEF Good, Q

(* Rounding moves a count by half its last place at most.                   *)
LEMMA CountsApproximate == ASSUME NEW n \in Word PROVE Approximates(AsF64(n), n)
<1> DEFINE u == LastPlace(n)
           Q == PowerOf2[FloatBits]
           rest == n % u
           v == AsF64(n)
           off == IF v < n THEN n - v ELSE v - n
<1>1. n \in Nat /\ u \in Nat \ {0} /\ (u = 1 \/ u * Q <= 2 * n)  BY LastPlaceOfWord
<1>2. Q \in Nat  BY WordPowers
<1>3. v = IF 2 * rest < u \/ (2 * rest = u /\ (n \div u) % 2 = 0) THEN n - rest ELSE n - rest + u
  BY DEF AsF64
<1> HIDE DEF u, v, Q
<1>4. rest \in 0..(u - 1)  BY <1>1
<1> HIDE DEF rest
<1>5. off \in Nat /\ 2 * off <= u  BY <1>1, <1>3, <1>4
<1> HIDE DEF off
<1>6. off * Q <= n
  <2>1. CASE u = 1
    <3>1. off = 0  BY <1>5, <2>1
    <3>2. off * Q = 0  BY <1>2, <3>1
    <3> QED  BY <1>1, <3>2
  <2>2. CASE u * Q <= 2 * n
    <3>1. (2 * off) * Q <= u * Q  BY <1>1, <1>2, <1>5, Monotone
    <3>2. (2 * off) * Q = 2 * (off * Q) /\ off * Q \in Nat /\ u * Q \in Nat  BY <1>1, <1>2, <1>5
    <3> QED  BY <1>1, <2>2, <3>1, <3>2
  <2> QED  BY <1>1, <2>1, <2>2
<1> QED  BY <1>6 DEF Approximates, off, v, Q

(* The cast of a time is its date, if there is one.                         *)
LEMMA OneDate ==
  ASSUME NEW t \in Word
  PROVE  /\ IsDate(t) => AsI64(t) \in Dates(t)
         /\ ~IsDate(t) => Dates(t) = {}
<1> DEFINE H == PowerOf2[WordBits - 1]
           W == PowerOf2[WordBits]
<1>1. H \in Nat /\ W = 2 * H /\ t \in 0..(W - 1)  BY WordPowers DEF Word
<1>2. LastTime \in Nat /\ LastTime < H  BY EventsAssumption DEF EventsAssumption
<1>3. Dates(t) = {d \in {t, t - W} : -LastTime <= d /\ d <= LastTime}  BY DEF Dates
<1>4. AsI64(t) = IF t < H THEN t ELSE t - W  BY DEF AsI64
<1>5. IsDate(t) <=> -LastTime <= AsI64(t) /\ AsI64(t) <= LastTime  BY DEF IsDate
<1> HIDE DEF H, W
<1> QED  BY <1>1, <1>2, <1>3, <1>4, <1>5

-----------------------------------------------------------------------------
(* The lines show the series.                                               *)

(* The points of a series are those of the positive counts, each of them.   *)
LEMMA SeriesPoints ==
  ASSUME NEW R, NEW items \in Seq(R), NEW counts, DOMAIN counts = DOMAIN items, NEW labels
  PROVE  LET one == Series(labels, items, counts)
         IN  /\ one.metric = labels
             /\ DOMAIN one.counts = DOMAIN one.times
             /\ \A j \in DOMAIN one.times : \E i \in Positive(counts) :
                  one.times[j] = items[i].timestamp_sec /\ one.counts[j] = counts[i]
             /\ \A i \in Positive(counts) : \E j \in DOMAIN one.times : one.times[j] = items[i].timestamp_sec
<1> DEFINE S == Positive(counts)
           s == [i \in DOMAIN items |-> i]
           places == 1..Cardinality(S)
           at(j) == CHOOSE i \in S : Rank(S, i) = j
<1>1. s \in Seq(Nat) /\ DOMAIN s = DOMAIN items
  <2>1. DOMAIN items = 1..Len(items) /\ Len(items) \in Nat  OBVIOUS
  <2>2. s = [i \in 1..Len(items) |-> i]  BY <2>1
  <2> HIDE DEF s
  <2>3. ASSUME NEW n \in Nat PROVE [i \in 1..n |-> i] \in Seq(Nat)  OBVIOUS
  <2> QED  BY <2>1, <2>2, <2>3
<1>2. S \in SUBSET (DOMAIN s)  BY <1>1 DEF Positive
<1> HIDE DEF S
<1>3. \A i \in S : s[i] = i  BY <1>1, <1>2
<1> HIDE DEF s
<1>4. /\ DOMAIN Kept(s, S) = places
      /\ \A i \in S : Rank(S, i) \in DOMAIN Kept(s, S) /\ Kept(s, S)[Rank(S, i)] = s[i]
      /\ \A j \in DOMAIN Kept(s, S) : \E i \in S : Rank(S, i) = j /\ Kept(s, S)[j] = s[i]
  <2> HIDE DEF at
  <2> QED  BY <1>1, <1>2, KeptPlaces
<1>5. ASSUME NEW j \in places PROVE at(j) \in S /\ Rank(S, at(j)) = j
  <2>1. \E i \in S : Rank(S, i) = j  BY <1>4
  <2> QED  BY <2>1
<1>6. ASSUME NEW i \in S PROVE Rank(S, i) \in places /\ at(Rank(S, i)) = i
  <2>1. Rank(S, i) \in places  BY <1>4
  <2>2. at(Rank(S, i)) \in S /\ Rank(S, at(Rank(S, i))) = Rank(S, i)  BY <1>5, <2>1
  <2> QED  BY <1>3, <1>4, <2>1, <2>2
<1> DEFINE times == [j \in places |-> items[at(j)].timestamp_sec]
           numbers == [j \in places |-> counts[at(j)]]
<1>7. Series(labels, items, counts) = [metric |-> labels, times |-> times, counts |-> numbers]
  BY DEF Series, Rank, S
<1>8. \A j \in places : times[j] = items[at(j)].timestamp_sec /\ numbers[j] = counts[at(j)]  OBVIOUS
<1>9. DOMAIN times = places /\ DOMAIN numbers = places  OBVIOUS
<1> HIDE DEF times, numbers, at, places
<1>10. ASSUME NEW j \in places PROVE \E i \in S : times[j] = items[i].timestamp_sec /\ numbers[j] = counts[i]
  BY <1>5, <1>8
<1>11. ASSUME NEW i \in S PROVE \E j \in places : times[j] = items[i].timestamp_sec
  BY <1>6, <1>8
<1> QED  BY <1>7, <1>9, <1>10, <1>11 DEF S

(* The line of a series whose points are words and dates shows the series.  *)
LEMMA CodedShows ==
  ASSUME NEW R, NEW items \in Seq(R), NEW counts, DOMAIN counts = DOMAIN items, NEW labels,
         \A i \in Positive(counts) : /\ items[i].timestamp_sec \in Word /\ IsDate(items[i].timestamp_sec)
                                     /\ counts[i] \in Word
  PROVE  Shows(Coded(Series(labels, items, counts)), Series(labels, items, counts))
<1> DEFINE one == Series(labels, items, counts)
<1>1. /\ one.metric = labels
      /\ DOMAIN one.counts = DOMAIN one.times
      /\ \A j \in DOMAIN one.times : \E i \in Positive(counts) :
           one.times[j] = items[i].timestamp_sec /\ one.counts[j] = counts[i]
  BY SeriesPoints
<1> HIDE DEF one
<1>2. \A j \in DOMAIN one.times :
        one.times[j] \in Word /\ IsDate(one.times[j]) /\ one.counts[j] \in Word
  BY <1>1
<1> DEFINE stamps == [j \in DOMAIN one.times |-> 1000 * AsI64(one.times[j])]
           floats == [j \in DOMAIN one.counts |-> AsF64(one.counts[j])]
<1>3. Coded(one).metric = one.metric /\ Coded(one).timestamps = stamps /\ Coded(one).values = floats
  BY DEF Coded
<1>4. \A j \in DOMAIN one.times : \E d \in Dates(one.times[j]) : stamps[j] = 1000 * d
  BY <1>2, OneDate
<1>5. \A j \in DOMAIN one.counts : Approximates(floats[j], one.counts[j])
  BY <1>1, <1>2, CountsApproximate
<1>6. DOMAIN stamps = DOMAIN one.times /\ DOMAIN floats = DOMAIN one.counts  OBVIOUS
<1> HIDE DEF stamps, floats
<1>7. Shows(Coded(one), one)  BY <1>3, <1>4, <1>5, <1>6 DEF Shows
<1> QED  BY <1>7 DEF one

(* The same of a series of a record.                                        *)
LEMMA RecordShows ==
  ASSUME NEW items, NEW metrics, AreItems(items, metrics), NEW labels,
         \A i \in DOMAIN items : (\E m \in Range(metrics) : items[i][m.field] > 0) => IsDate(items[i].timestamp_sec),
         NEW one \in RecordSeries(items, metrics, labels)
  PROVE  Shows(Coded(one), one)
<1>1. PICK m \in Range(metrics) :
        one = Series([labels EXCEPT !.__name__ = m.name], items, Counts(items, m.field))
  BY DEF RecordSeries
<1> DEFINE counts == Counts(items, m.field)
<1>2. DOMAIN counts = DOMAIN items /\ \A i \in DOMAIN items : counts[i] = items[i][m.field]  BY DEF Counts
<1>3. items \in Seq(Range(items))  BY DEF AreItems
<1>4. ASSUME NEW i \in Positive(counts)
      PROVE  items[i].timestamp_sec \in Word /\ IsDate(items[i].timestamp_sec) /\ counts[i] \in Word
  <2>1. i \in DOMAIN items /\ items[i][m.field] > 0 /\ counts[i] = items[i][m.field]
    <3> HIDE DEF counts
    <3> QED  BY <1>2 DEF Positive
  <2> QED  BY <2>1 DEF AreItems
<1> HIDE DEF counts
<1>5. Shows(Coded(Series([labels EXCEPT !.__name__ = m.name], items, counts)),
            Series([labels EXCEPT !.__name__ = m.name], items, counts))
  BY <1>2, <1>3, <1>4, CodedShows
<1> QED  BY <1>1, <1>5 DEF counts

(* And of a series of a TiKV instance.                                      *)
LEMMA InstanceShows ==
  ASSUME NEW R, NEW items \in Seq(R), NEW labels,
         \A i \in DOMAIN items :
           /\ items[i].timestamp_sec \in Word
           /\ \A k \in DOMAIN items[i].stmt_kv_exec_count :
                /\ items[i].stmt_kv_exec_count[k] \in Word
                /\ KvCount(items[i], k) > 0 => IsDate(items[i].timestamp_sec),
         NEW one \in InstanceSeries(items, labels)
  PROVE  Shows(Coded(one), one)
<1>1. PICK k : one = Series([labels EXCEPT !.instance = k], items, KvCounts(items, k))
  BY DEF InstanceSeries
<1> DEFINE counts == KvCounts(items, k)
<1>2. DOMAIN counts = DOMAIN items /\ \A i \in DOMAIN items : counts[i] = KvCount(items[i], k)  BY DEF KvCounts
<1>3. ASSUME NEW i \in Positive(counts)
      PROVE  items[i].timestamp_sec \in Word /\ IsDate(items[i].timestamp_sec) /\ counts[i] \in Word
  <2>1. i \in DOMAIN items /\ KvCount(items[i], k) > 0 /\ counts[i] = KvCount(items[i], k)
    <3> HIDE DEF counts
    <3> QED  BY <1>2 DEF Positive
  <2>2. k \in DOMAIN items[i].stmt_kv_exec_count /\ KvCount(items[i], k) = items[i].stmt_kv_exec_count[k]
    BY <2>1 DEF KvCount
  <2> QED  BY <2>1, <2>2
<1> HIDE DEF counts
<1>4. Shows(Coded(Series([labels EXCEPT !.instance = k], items, counts)),
            Series([labels EXCEPT !.instance = k], items, counts))
  BY <1>2, <1>3, CodedShows
<1> QED  BY <1>1, <1>4 DEF counts

(* What does not panic: each positive count has a time that is a date.      *)
LEMMA PanicsWhen ==
  ASSUME NEW r, r.kind = "tidb_record" \/ (r.kind = "tikv_record" /\ decode_tag(r.resource_group_tag) # None)
  PROVE  LET positive(i) ==
               IF r.kind = "tikv_record"
                 THEN \E m \in Range(TiKVMetrics) : r.items[i][m.field] > 0
                 ELSE \/ \E m \in Range(TiDBMetrics) : r.items[i][m.field] > 0
                      \/ \E k \in DOMAIN r.items[i].stmt_kv_exec_count : KvCount(r.items[i], k) > 0
         IN  parse_panics(r) <=> \E i \in DOMAIN r.items : ~IsDate(r.items[i].timestamp_sec) /\ positive(i)
BY Zenon DEF parse_panics

(* The line of each series of a record shows it, if parse does not panic.   *)
LEMMA SeriesShown ==
  ASSUME NEW r, IsResponse(r), r.kind \in {"tidb_record", "tikv_record"}, ~parse_panics(r),
         NEW instance, NEW type, NEW one \in ExpectedSeries(r, instance, type)
  PROVE  Shows(Coded(one), one)
<1>1. CASE r.kind = "tikv_record"
  <2> DEFINE tag == decode_tag(r.resource_group_tag)
             labels == Labels("", instance, "tikv", tag.sql_digest, tag.plan_digest, tag.tag_label)
  <2>1. tag # None /\ one \in RecordSeries(r.items, TiKVMetrics, labels)
    BY <1>1 DEF ExpectedSeries
  <2>2. AreItems(r.items, TiKVMetrics)  BY <1>1 DEF IsResponse
  <2>3. \A i \in DOMAIN r.items :
          (\E m \in Range(TiKVMetrics) : r.items[i][m.field] > 0) => IsDate(r.items[i].timestamp_sec)
    BY <1>1, <2>1, PanicsWhen
  <2> HIDE DEF labels
  <2> QED  BY <2>1, <2>2, <2>3, RecordShows
<1>2. CASE r.kind = "tidb_record"
  <2> DEFINE sql == encode_upper[r.sql_digest]
             plan == encode_upper[r.plan_digest]
             l == Labels("", instance, "tidb", sql, plan, "")
             kl == Labels("topsql_stmt_exec_count", "", "tikv", sql, plan, "")
  <2>1. one \in RecordSeries(r.items, TiDBMetrics, l) \cup InstanceSeries(r.items, kl)
    BY <1>2 DEF ExpectedSeries
  <2> HIDE DEF l, kl
  <2>2. /\ AreItems(r.items, TiDBMetrics)
        /\ \A i \in DOMAIN r.items : \A k \in DOMAIN r.items[i].stmt_kv_exec_count :
             r.items[i].stmt_kv_exec_count[k] \in Word
    BY <1>2 DEF IsResponse
  <2>3. /\ \A i \in DOMAIN r.items :
             (\E m \in Range(TiDBMetrics) : r.items[i][m.field] > 0) => IsDate(r.items[i].timestamp_sec)
        /\ \A i \in DOMAIN r.items : \A k \in DOMAIN r.items[i].stmt_kv_exec_count :
             KvCount(r.items[i], k) > 0 => IsDate(r.items[i].timestamp_sec)
    BY <1>2, PanicsWhen
  <2>4. CASE one \in RecordSeries(r.items, TiDBMetrics, l)  BY <2>2, <2>3, <2>4, RecordShows
  <2>5. CASE one \in InstanceSeries(r.items, kl)
    <3>1. r.items \in Seq(Range(r.items)) /\ \A i \in DOMAIN r.items : r.items[i].timestamp_sec \in Word
      BY <2>2 DEF AreItems
    <3> QED  BY <2>2, <2>3, <2>5, <3>1, InstanceShows
  <2> QED  BY <2>1, <2>4, <2>5
<1> QED  BY <1>1, <1>2

(* No two lines have the same labels.                                       *)
LEMMA RecordLinesDiffer ==
  ASSUME NEW items, NEW T, NEW metrics \in Seq(T),
         \A i, j \in DOMAIN metrics : metrics[i].name = metrics[j].name => i = j,
         NEW labels, "__name__" \in DOMAIN labels,
         NEW x \in RecordLines(items, metrics, labels), NEW y \in RecordLines(items, metrics, labels),
         x.metric = y.metric
  PROVE  x = y
<1>1. PICK m \in Range(metrics) : x = Line([labels EXCEPT !.__name__ = m.name], items, Counts(items, m.field))
  BY DEF RecordLines
<1>2. PICK n \in Range(metrics) : y = Line([labels EXCEPT !.__name__ = n.name], items, Counts(items, n.field))
  BY DEF RecordLines
<1>3. [labels EXCEPT !.__name__ = m.name] = [labels EXCEPT !.__name__ = n.name]  BY <1>1, <1>2, LineMetric
<1>4. m.name = n.name
  <2>1. [labels EXCEPT !.__name__ = m.name].__name__ = m.name  OBVIOUS
  <2>2. [labels EXCEPT !.__name__ = n.name].__name__ = n.name  OBVIOUS
  <2> QED  BY <1>3, <2>1, <2>2
<1>5. m = n  BY <1>4 DEF Range
<1> QED  BY <1>1, <1>2, <1>5

LEMMA KvLinesDiffer ==
  ASSUME NEW items, NEW labels, "instance" \in DOMAIN labels,
         NEW x \in KvLines(items, labels), NEW y \in KvLines(items, labels), x.metric = y.metric
  PROVE  x = y
<1>1. PICK m : x = Line([labels EXCEPT !.instance = m], items, KvCounts(items, m))  BY DEF KvLines
<1>2. PICK n : y = Line([labels EXCEPT !.instance = n], items, KvCounts(items, n))  BY DEF KvLines
<1>3. [labels EXCEPT !.instance = m] = [labels EXCEPT !.instance = n]  BY <1>1, <1>2, LineMetric
<1>4. m = n
  <2>1. [labels EXCEPT !.instance = m].instance = m  OBVIOUS
  <2>2. [labels EXCEPT !.instance = n].instance = n  OBVIOUS
  <2> QED  BY <1>3, <2>1, <2>2
<1> QED  BY <1>1, <1>2, <1>4

(* The names of metrics.                                                    *)
LEMMA MetricsDiffer ==
  /\ \E T : TiKVMetrics \in Seq(T)
  /\ \A i, j \in DOMAIN TiKVMetrics : TiKVMetrics[i].name = TiKVMetrics[j].name => i = j
  /\ \E T : TiDBMetrics \in Seq(T)
  /\ \A i, j \in DOMAIN TiDBMetrics : TiDBMetrics[i].name = TiDBMetrics[j].name => i = j
<1>1. TiKVMetrics \in Seq({Metric("topsql_cpu_time_ms", "cpu_time_ms"),
                           Metric("topsql_read_keys", "read_keys"),
                           Metric("topsql_write_keys", "write_keys")})
      /\ \A i, j \in DOMAIN TiKVMetrics : TiKVMetrics[i].name = TiKVMetrics[j].name => i = j
  BY DEF TiKVMetrics, Metric
<1>2. TiDBMetrics \in Seq({Metric("topsql_cpu_time_ms", "cpu_time_ms"),
                           Metric("topsql_stmt_exec_count", "stmt_exec_count"),
                           Metric("topsql_stmt_duration_sum_ns", "stmt_duration_sum_ns"),
                           Metric("topsql_stmt_duration_count", "stmt_duration_count")})
      /\ \A i, j \in DOMAIN TiDBMetrics : TiDBMetrics[i].name = TiDBMetrics[j].name => i = j
  BY DEF TiDBMetrics, Metric
<1> QED  BY <1>1, <1>2

LEMMA LinesDiffer ==
  ASSUME NEW r, IsResponse(r) \/ r = InstanceTick, NEW instance, NEW type,
         NEW x \in ExpectedLines(r, instance, type), NEW y \in ExpectedLines(r, instance, type),
         x.metric = y.metric
  PROVE  x = y
<1>1. CASE r.kind = "tikv_record"
  <2> DEFINE tag == decode_tag(r.resource_group_tag)
             l == Labels("", instance, "tikv", tag.sql_digest, tag.plan_digest, tag.tag_label)
  <2>1. ExpectedSeries(r, instance, type) = RecordSeries(r.items, TiKVMetrics, l)
        \/ ExpectedSeries(r, instance, type) = {}
    BY <1>1 DEF ExpectedSeries
  <2>2. "__name__" \in DOMAIN l  BY DEF Labels
  <2> HIDE DEF l
  <2>3. ExpectedLines(r, instance, type) = {Coded(one) : one \in ExpectedSeries(r, instance, type)}
    BY <1>1 DEF ExpectedLines
  <2>4. x \in RecordLines(r.items, TiKVMetrics, l) /\ y \in RecordLines(r.items, TiKVMetrics, l)
    BY <2>1, <2>3, CodedLines
  <2> QED  BY <2>2, <2>4, MetricsDiffer, RecordLinesDiffer
<1>2. CASE r.kind = "tidb_record"
  <2> DEFINE sql == encode_upper[r.sql_digest]
             plan == encode_upper[r.plan_digest]
             l == Labels("", instance, "tidb", sql, plan, "")
             kl == Labels("topsql_stmt_exec_count", "", "tikv", sql, plan, "")
             own == RecordLines(r.items, TiDBMetrics, l)
             kv == KvLines(r.items, kl)
  <2>1. ExpectedSeries(r, instance, type) = RecordSeries(r.items, TiDBMetrics, l) \cup InstanceSeries(r.items, kl)
    BY <1>2 DEF ExpectedSeries
  <2>2. /\ {"__name__", "instance_type"} \subseteq DOMAIN l /\ l.instance_type = "tidb"
        /\ {"instance", "instance_type"} \subseteq DOMAIN kl /\ kl.instance_type = "tikv"
    BY DEF Labels
  <2> HIDE DEF l, kl
  <2>3. /\ \A one \in own : one.metric.instance_type = "tidb"
        /\ \A one \in kv : one.metric.instance_type = "tikv"
    BY <2>2, OwnLineType, KvLineType
  <2>4. ExpectedLines(r, instance, type) = {Coded(one) : one \in ExpectedSeries(r, instance, type)}
    BY <1>2 DEF ExpectedLines
  <2>5. x \in own \cup kv /\ y \in own \cup kv
    <3>1. {Coded(one) : one \in RecordSeries(r.items, TiDBMetrics, l)} = own  BY CodedLines, Zenon
    <3>2. {Coded(one) : one \in InstanceSeries(r.items, kl)} = kv  BY CodedLines, Zenon
    <3> HIDE DEF own, kv
    <3> QED  BY <2>1, <2>4, <3>1, <3>2
  <2>6. CASE x \in own /\ y \in own  BY <2>2, <2>6, MetricsDiffer, RecordLinesDiffer
  <2>7. CASE x \in kv /\ y \in kv  BY <2>2, <2>7, KvLinesDiffer
  <2> HIDE DEF own, kv
  <2> QED  BY <2>3, <2>5, <2>6, <2>7
<1>3. CASE r.kind \in {"sql_meta", "plan_meta", "empty", "instance"}
  <2>1. \E one : ExpectedSeries(r, instance, type) \subseteq {one}  BY <1>3 DEF ExpectedSeries
  <2>2. ExpectedLines(r, instance, type)
          = {[metric |-> one.metric, timestamps |-> <<1000 * Now>>, values |-> <<1>>] :
               one \in ExpectedSeries(r, instance, type)}
    BY <1>3 DEF ExpectedLines
  <2> QED  BY <2>1, <2>2
<1> QED  BY <1>1, <1>2, <1>3 DEF IsResponse, InstanceTick

(* A line for a fact of now.                                                *)
LEMMA MetaShows ==
  ASSUME NEW l
  PROVE  Shows([metric |-> l, timestamps |-> <<1000 * Now>>, values |-> <<1>>],
               [metric |-> l, times |-> <<Now>>, counts |-> <<1>>])
<1> DEFINE stamps == <<1000 * Now>>
           floats == <<1>>
           times == <<Now>>
           counts == <<1>>
<1>1. DOMAIN stamps = {1} /\ DOMAIN floats = {1} /\ DOMAIN times = {1} /\ DOMAIN counts = {1}  OBVIOUS
<1>2. stamps[1] = 1000 * Now /\ floats[1] = 1 /\ times[1] = Now /\ counts[1] = 1  OBVIOUS
<1>3. Now \in Dates(Now)
  <2>1. Now \in 0..LastTime /\ LastTime \in Nat  BY EventsAssumption, Zenon DEF EventsAssumption
  <2>2. -LastTime <= Now /\ Now <= LastTime  BY <2>1
  <2> QED  BY <2>2 DEF Dates
<1>4. Approximates(1, 1)
  <2>1. (1 - 1) * PowerOf2[FloatBits] = 0  BY WordPowers
  <2> QED  BY <2>1 DEF Approximates
<1> HIDE DEF stamps, floats, times, counts
<1>5. Shows([metric |-> l, timestamps |-> stamps, values |-> floats], [metric |-> l, times |-> times, counts |-> counts])
  BY <1>1, <1>2, <1>3, <1>4 DEF Shows
<1> QED  BY <1>5 DEF stamps, floats, times, counts

(* Lines and series show one another, if parse does not panic.              *)
LEMMA LinesShow ==
  ASSUME NEW r, IsResponse(r) \/ r = InstanceTick, ~parse_panics(r), NEW instance, NEW type
  PROVE  LET L == ExpectedLines(r, instance, type)
             S == ExpectedSeries(r, instance, type)
         IN  /\ \A l \in L : \E s \in S : Shows(l, s)
             /\ \A s \in S : \E l \in L : Shows(l, s)
<1>1. CASE r.kind \in {"tidb_record", "tikv_record"}
  <2>1. IsResponse(r)  BY <1>1 DEF InstanceTick
  <2>2. ExpectedLines(r, instance, type) = {Coded(one) : one \in ExpectedSeries(r, instance, type)}
    BY <1>1 DEF ExpectedLines
  <2>3. \A one \in ExpectedSeries(r, instance, type) : Shows(Coded(one), one)  BY <1>1, <2>1, SeriesShown
  <2> QED  BY <2>2, <2>3
<1>2. CASE r.kind \notin {"tidb_record", "tikv_record"}
  <2> DEFINE line(one) == [metric |-> one.metric, timestamps |-> <<1000 * Now>>, values |-> <<1>>]
  <2>1. \A one \in ExpectedSeries(r, instance, type) : \E l : one = [metric |-> l, times |-> <<Now>>, counts |-> <<1>>]
    <3>1. r.kind \in {"sql_meta", "plan_meta", "empty", "instance"}  BY <1>2 DEF IsResponse, InstanceTick
    <3> QED  BY <3>1 DEF ExpectedSeries
  <2>2. ASSUME NEW one \in ExpectedSeries(r, instance, type) PROVE Shows(line(one), one)
    <3>1. PICK l : one = [metric |-> l, times |-> <<Now>>, counts |-> <<1>>]  BY <2>1
    <3>2. one.metric = l  BY <3>1
    <3> QED  BY <3>1, <3>2, MetaShows
  <2>3. ExpectedLines(r, instance, type) = {line(one) : one \in ExpectedSeries(r, instance, type)}
    BY <1>2 DEF ExpectedLines
  <2> HIDE DEF line
  <2> QED  BY <2>2, <2>3
<1> QED  BY <1>1, <1>2

-----------------------------------------------------------------------------
(* What is being sent is what parse makes of the response, and what the     *)
(* source has panicked on is what parse panics on.                          *)
Parsed ==
  /\ pc = "send" => batch = parse(response, Instance, instance_type) /\ ~parse_panics(response)
  /\ pc = "panicked" => parse_panics(response)

(* Every step keeps it so.                                                  *)
LEMMA ParsedStays ==
  ASSUME TypeOK, Parsed, [Next]_vars
  PROVE  Parsed'
<1>1. CASE UNCHANGED vars  BY <1>1 DEF Parsed, vars, config, sending
<1>2. CASE Next
  <2>1. instance_type' = instance_type  BY <1>2, ConfigStays DEF config
  <2>2. CASE \E r \in Responses[instance_type] \cup {InstanceTick} : Handle(r)
    <3>1. PICK r \in Responses[instance_type] \cup {InstanceTick} : Handle(r)  BY <2>2
    <3>2. CASE parse_panics(r)
      <4>1. response' = r /\ pc' = "panicked"  BY <3>1, <3>2 DEF Handle
      <4> QED  BY <3>2, <4>1, Zenon DEF Parsed
    <3>3. CASE ~parse_panics(r)
      <4>1. response' = r /\ pc' = "send" /\ batch' = parse(r, Instance, instance_type)  BY <3>1, <3>3 DEF Handle
      <4> QED  BY <2>1, <3>3, <4>1, Zenon DEF Parsed
    <3> QED  BY <3>2, <3>3
  <2>3. CASE (pc' = pc /\ UNCHANGED sending) \/ pc' \notin {"send", "panicked"}
    BY <2>1, <2>3 DEF Parsed, sending
  <2>4. (\E r \in Responses[instance_type] \cup {InstanceTick} : Handle(r))
          \/ (pc' = pc /\ UNCHANGED sending) \/ pc' \notin {"send", "panicked"}
    BY <1>2 DEF Next, ChangeServer, ChangeRoom, Tell, SourceStep, BuildEndpoint, Connect, Subscribe,
                RetryDelay, WakeUp, RetryNow, Sent, SourceExits, ProxyStep, ClientCloses, ServerCloses,
                TransferFails, ProxyTold, SetProxy
  <2> QED  BY <2>2, <2>3, <2>4
<1> QED  BY <1>1, <1>2

(* The requests for a response deliver its series.                          *)
LEMMA ResponseDelivered ==
  ASSUME NEW r, IsResponse(r) \/ r = InstanceTick, ~parse_panics(r), NEW instance, NEW type, NEW template
  PROVE  Delivers(ExpectedSeries(r, instance, type), template, parse(r, instance, type))
<1> DEFINE L == ExpectedLines(r, instance, type)
           S == ExpectedSeries(r, instance, type)
           requests == build_request(encode_event(template, parse(r, instance, type)))
           for(e) == {s \in Placed(template, S) : Endpoint(template, s.metric) = e}
<1>1. Emits(parse(r, instance, type), L)  BY ParseEmits
<1>2. (\A l \in L : \E s \in S : Shows(l, s)) /\ (\A s \in S : \E l \in L : Shows(l, s))  BY LinesShow
<1>3. \A x, y \in L : x.metric = y.metric => x = y  BY LinesDiffer
<1> HIDE DEF L
<1>4. /\ DOMAIN requests = {Endpoint(template, l.metric) : l \in Placed(template, L)} \ NotUris
      /\ \A e \in DOMAIN requests : Range(requests[e]) = At(template, e, L) /\ IsInjective(requests[e])
  BY <1>1, RequestsOfLog
<1> HIDE DEF S, requests
<1>5. \A l, s : Shows(l, s) => l.metric = s.metric  BY DEF Shows
<1>6. ASSUME NEW l \in Placed(template, L) PROVE \E s \in for(Endpoint(template, l.metric)) : Shows(l, s)
  BY <1>2, <1>5 DEF Placed
<1>7. ASSUME NEW s \in Placed(template, S) PROVE \E l \in At(template, Endpoint(template, s.metric), L) : Shows(l, s)
  BY <1>2, <1>5 DEF Placed, At
<1>8. DOMAIN requests = {Endpoint(template, s.metric) : s \in Placed(template, S)} \ NotUris
  <2>1. {Endpoint(template, l.metric) : l \in Placed(template, L)}
          = {Endpoint(template, s.metric) : s \in Placed(template, S)}
    BY <1>6, <1>7 DEF At
  <2> QED  BY <1>4, <2>1
<1>9. ASSUME NEW e \in DOMAIN requests PROVE OneLineEach(requests[e], for(e))
  <2> DEFINE lines == requests[e]
  <2>1. Range(lines) = At(template, e, L) /\ IsInjective(lines)  BY <1>4
  <2> HIDE DEF lines
  <2>2. ASSUME NEW j \in DOMAIN lines
        PROVE  /\ lines[j] \in Placed(template, L) /\ lines[j] \in L
               /\ Endpoint(template, lines[j].metric) = e
    <3>1. lines[j] \in At(template, e, L)  BY <2>1 DEF Range
    <3> QED  BY <3>1 DEF At, Placed
  <2>3. ASSUME NEW j \in DOMAIN lines PROVE \E s \in for(e) : Shows(lines[j], s)  BY <1>6, <2>2
  <2>4. ASSUME NEW s \in for(e)
        PROVE  \E j \in DOMAIN lines : \A k \in DOMAIN lines : Shows(lines[k], s) <=> k = j
    <3>1. PICK l \in At(template, e, L) : Shows(l, s)  BY <1>7
    <3>2. PICK j \in DOMAIN lines : lines[j] = l  BY <2>1 DEF Range
    <3>3. ASSUME NEW k \in DOMAIN lines, Shows(lines[k], s) PROVE k = j
      <4>1. lines[k].metric = lines[j].metric  BY <1>5, <3>1, <3>2, <3>3
      <4>2. lines[k] = lines[j]  BY <1>3, <2>2, <4>1
      <4> QED  BY <2>1, <4>2 DEF IsInjective
    <3> QED  BY <3>1, <3>2, <3>3
  <2> HIDE DEF for
  <2>5. OneLineEach(lines, for(e))  BY <2>3, <2>4, Zenon DEF OneLineEach
  <2> QED  BY <2>5 DEF lines
<1> QED  BY <1>8, <1>9, Zenon DEF Delivers, requests, S

(* What parse panics on has a series with a time that is no date.           *)
LEMMA PanicHasCause ==
  ASSUME NEW r, IsResponse(r) \/ r = InstanceTick, parse_panics(r), NEW instance, NEW type
  PROVE  \E s \in ExpectedSeries(r, instance, type) : \E j \in DOMAIN s.times : Dates(s.times[j]) = {}
<1>1. /\ r.kind = "tidb_record" \/ (r.kind = "tikv_record" /\ decode_tag(r.resource_group_tag) # None)
      /\ IsResponse(r)
  BY DEF parse_panics, InstanceTick
<1>2. r.items \in Seq(Range(r.items)) /\ \A i \in DOMAIN r.items : r.items[i].timestamp_sec \in Word
  BY <1>1 DEF IsResponse, AreItems
<1>3. ASSUME NEW i \in DOMAIN r.items, ~IsDate(r.items[i].timestamp_sec),
             NEW counts, DOMAIN counts = DOMAIN r.items, counts[i] > 0, NEW labels
      PROVE  Positive(counts) # {} /\ \E j \in DOMAIN Series(labels, r.items, counts).times :
                                        Dates(Series(labels, r.items, counts).times[j]) = {}
  <2>1. i \in Positive(counts)  BY <1>3 DEF Positive
  <2>2. PICK j \in DOMAIN Series(labels, r.items, counts).times :
          Series(labels, r.items, counts).times[j] = r.items[i].timestamp_sec
    <3>1. r.items \in Seq(Range(r.items)) /\ DOMAIN counts = DOMAIN r.items  BY <1>2, <1>3
    <3>2. \A k \in Positive(counts) : \E j \in DOMAIN Series(labels, r.items, counts).times :
            Series(labels, r.items, counts).times[j] = r.items[k].timestamp_sec
      BY <3>1, SeriesPoints
    <3> QED  BY <2>1, <3>2
  <2>3. Dates(r.items[i].timestamp_sec) = {}  BY <1>2, <1>3, OneDate
  <2> QED  BY <2>1, <2>2, <2>3
<1>4. ASSUME NEW i \in DOMAIN r.items, ~IsDate(r.items[i].timestamp_sec), NEW metrics,
             NEW m \in Range(metrics), r.items[i][m.field] > 0, NEW labels
      PROVE  \E s \in RecordSeries(r.items, metrics, labels) : \E j \in DOMAIN s.times : Dates(s.times[j]) = {}
  <2> DEFINE counts == Counts(r.items, m.field)
             s == Series([labels EXCEPT !.__name__ = m.name], r.items, counts)
  <2>1. DOMAIN counts = DOMAIN r.items /\ counts[i] > 0  BY <1>4 DEF Counts
  <2> HIDE DEF counts
  <2>2. Positive(counts) # {} /\ \E j \in DOMAIN s.times : Dates(s.times[j]) = {}  BY <1>3, <1>4, <2>1
  <2>3. s \in RecordSeries(r.items, metrics, labels)  BY <2>2 DEF RecordSeries, counts
  <2> HIDE DEF s
  <2> QED  BY <2>2, <2>3
<1>5. ASSUME NEW i \in DOMAIN r.items, ~IsDate(r.items[i].timestamp_sec),
             NEW k \in DOMAIN r.items[i].stmt_kv_exec_count, KvCount(r.items[i], k) > 0, NEW labels
      PROVE  \E s \in InstanceSeries(r.items, labels) : \E j \in DOMAIN s.times : Dates(s.times[j]) = {}
  <2> DEFINE counts == KvCounts(r.items, k)
             s == Series([labels EXCEPT !.instance = k], r.items, counts)
  <2>1. DOMAIN counts = DOMAIN r.items /\ counts[i] > 0  BY <1>5 DEF KvCounts
  <2>2. k \in NamedInstances(r.items)  BY DEF NamedInstances
  <2> HIDE DEF counts
  <2>3. Positive(counts) # {} /\ \E j \in DOMAIN s.times : Dates(s.times[j]) = {}  BY <1>3, <1>5, <2>1
  <2>4. s \in InstanceSeries(r.items, labels)  BY <2>2, <2>3 DEF InstanceSeries, counts
  <2> HIDE DEF s
  <2> QED  BY <2>3, <2>4
<1>6. CASE r.kind = "tikv_record"
  <2> DEFINE tag == decode_tag(r.resource_group_tag)
             l == Labels("", instance, "tikv", tag.sql_digest, tag.plan_digest, tag.tag_label)
  <2>1. ExpectedSeries(r, instance, type) = RecordSeries(r.items, TiKVMetrics, l)
    BY <1>1, <1>6 DEF ExpectedSeries
  <2>2. PICK i \in DOMAIN r.items : /\ ~IsDate(r.items[i].timestamp_sec)
                                    /\ \E m \in Range(TiKVMetrics) : r.items[i][m.field] > 0
    BY <1>1, <1>6, PanicsWhen
  <2>3. PICK m \in Range(TiKVMetrics) : r.items[i][m.field] > 0  BY <2>2
  <2> HIDE DEF l
  <2>4. \E s \in RecordSeries(r.items, TiKVMetrics, l) : \E j \in DOMAIN s.times : Dates(s.times[j]) = {}
    BY <1>4, <2>2, <2>3
  <2> QED  BY <2>1, <2>4
<1>7. CASE r.kind = "tidb_record"
  <2> DEFINE sql == encode_upper[r.sql_digest]
             plan == encode_upper[r.plan_digest]
             l == Labels("", instance, "tidb", sql, plan, "")
             kl == Labels("topsql_stmt_exec_count", "", "tikv", sql, plan, "")
  <2>1. ExpectedSeries(r, instance, type) = RecordSeries(r.items, TiDBMetrics, l) \cup InstanceSeries(r.items, kl)
    BY <1>7 DEF ExpectedSeries
  <2>2. PICK i \in DOMAIN r.items :
          /\ ~IsDate(r.items[i].timestamp_sec)
          /\ \/ \E m \in Range(TiDBMetrics) : r.items[i][m.field] > 0
             \/ \E k \in DOMAIN r.items[i].stmt_kv_exec_count : KvCount(r.items[i], k) > 0
    BY <1>1, <1>7, PanicsWhen
  <2> HIDE DEF l, kl
  <2>3. CASE \E m \in Range(TiDBMetrics) : r.items[i][m.field] > 0  BY <1>4, <2>1, <2>2, <2>3
  <2>4. CASE \E k \in DOMAIN r.items[i].stmt_kv_exec_count : KvCount(r.items[i], k) > 0
    BY <1>5, <2>1, <2>2, <2>4
  <2> QED  BY <2>2, <2>3, <2>4
<1> QED  BY <1>1, <1>6, <1>7

(* Whatever a server sends, a response whose times are all dates leaves one *)
(* line for each series of it: its labels, the dates that the 64 bits of    *)
(* its times stand for, and its counts within one part in 2^FloatBits, the  *)
(* precision of a float.  The line is in the request for its own endpoint,  *)
(* once, unless that is no URI.  A source that has panicked did so on a     *)
(* series with a time that is no date, and on nothing else.                 *)
THEOREM LinesAreFaithful == Spec => []LinesFaithful
<1>1. Init => Parsed  BY DEF Init, Parsed
<1>2. TypeOK /\ Parsed /\ [Next]_vars => Parsed'  BY ParsedStays
<1>3. TypeOK /\ Parsed => LinesFaithful
  <2> SUFFICES ASSUME TypeOK, Parsed PROVE LinesFaithful  OBVIOUS
  <2> DEFINE series == ExpectedSeries(response, Instance, instance_type)
  <2>1. /\ response # None <=> pc \in {"send", "panicked"}
        /\ instance_type \in {"tidb", "tikv"} /\ response \in Responses[instance_type] \cup {InstanceTick, None}
    BY TypesByPart DEF Shape
  <2>2. ASSUME pc \in {"send", "panicked"} PROVE IsResponse(response) \/ response = InstanceTick
    BY <2>1, <2>2, SourceAssumption DEF SourceAssumption
  <2>3. ASSUME pc = "send", NEW template \in Templates PROVE Delivers(series, template, batch)
    <3>1. batch = parse(response, Instance, instance_type) /\ ~parse_panics(response)  BY <2>3 DEF Parsed
    <3> QED  BY <2>2, <2>3, <3>1, ResponseDelivered
  <2>4. ASSUME pc = "panicked" PROVE \E s \in series : \E j \in DOMAIN s.times : Dates(s.times[j]) = {}
    <3>1. parse_panics(response)  BY <2>4 DEF Parsed
    <3> QED  BY <2>2, <2>4, <3>1, PanicHasCause
  <2> QED  BY <2>3, <2>4, Zenon DEF LinesFaithful
<1> QED  BY SourceTypeCorrect, <1>1, <1>2, <1>3, PTL DEF Spec
===============================================================================
