---------------------------- MODULE Layout_proofs ----------------------------
(***************************************************************************)
(* The layout of the shared segment, for every network of at most MaxDevice *)
(* devices: the variables keep their types, both ends of every link name   *)
(* the same queue, and no two purposes share a byte.                       *)
(*                                                                         *)
(* The argument: what m2m_dbp_init is to compute can be written in terms of *)
(* the topology file alone (Start, Base and the definitions whose names    *)
(* begin with Ref).  The inductive invariant says how far a device has got *)
(* with its lines and what these have given, and that the devices that had *)
(* their turn hold exactly the reference values.  The theorems are then    *)
(* about the reference values: as many neighbours come before the j-th as  *)
(* its number says (Rank), and the spaces of the devices follow each other *)
(* (StartOrder).                                                           *)
(***************************************************************************)
EXTENDS Layout, TLAPS, InductionFacts, FiniteSetTheorems, SequenceTheorems, Functions
-----------------------------------------------------------------------------
(* Sets in ascending order. *)

\* A function on 1 .. n is a sequence of length n.
LEMMA FunctionIsSeq ==
    ASSUME NEW n \in Nat, NEW S, NEW f \in [1 .. n -> S]
    PROVE  f \in Seq(S) /\ Len(f) = n /\ DOMAIN f = 1 .. n
  OBVIOUS

\* A set of numbers can be put in order.
LEMMA SortedExists ==
    ASSUME NEW n \in Nat, NEW S \in SUBSET (1 .. n)
    PROVE  \E s \in [1 .. Cardinality(S) -> S] : Ascending(s)
<1> DEFINE HasOrder(T) == \E s \in [1 .. Cardinality(T) -> T] : Ascending(s)
           M == {m \in 0 .. n : \A T \in SUBSET (1 .. m) : HasOrder(T)}
<1>1. 0 \in M
  <2>1. ASSUME NEW T \in SUBSET (1 .. 0) PROVE HasOrder(T)
    <3>0. T = {}
      OBVIOUS
    <3>1. T = {} /\ Cardinality(T) = 0
      BY <3>0, FS_EmptySet
    <3> DEFINE e == [k \in 1 .. 0 |-> k]
    <3>2. e \in [1 .. 0 -> T]
      OBVIOUS
    <3> HIDE DEF e
    <3>3. Len(e) = 0
      BY <3>2, FunctionIsSeq
    <3>4. Ascending(e)
      BY <3>3 DEF Ascending
    <3> QED
      BY <3>1, <3>2, <3>4
  <2> QED
    BY <2>1
<1>2. ASSUME NEW m \in 0 .. n - 1, m \in M PROVE m + 1 \in M
  <2>1. ASSUME NEW T \in SUBSET (1 .. m + 1) PROVE HasOrder(T)
    <3> DEFINE R == T \ {m + 1}
               c == Cardinality(R)
    <3>1. R \in SUBSET (1 .. m)
      OBVIOUS
    <3>2. PICK r \in [1 .. c -> R] : Ascending(r)
      BY <3>1, <1>2
    <3>3. IsFiniteSet(R) /\ c \in Nat
      <4>1. IsFiniteSet(1 .. m)
        BY FS_Interval
      <4> QED
        BY <4>1, <3>1, FS_Subset, FS_CardinalityType
    <3>4. CASE m + 1 \in T
      <4>1. T = R \cup {m + 1} /\ m + 1 \notin R
        BY <3>4
      <4>2. Cardinality(T) = c + 1
        BY <4>1, <3>3, FS_AddElement
      <4> HIDE DEF R, c
      <4> DEFINE s == [k \in 1 .. c + 1 |-> IF k = c + 1 THEN m + 1 ELSE r[k]]
      <4>3. s \in [1 .. c + 1 -> T]
        BY <4>1, <3>2, <3>3
      <4>4. Len(s) = c + 1 /\ Len(r) = c
        <5> HIDE DEF s
        <5>1. c + 1 \in Nat
          BY <3>3
        <5>2. Len(s) = c + 1
          BY <5>1, <4>3, FunctionIsSeq
        <5>3. Len(r) = c
          BY <3>2, <3>3, FunctionIsSeq
        <5> QED
          BY <5>2, <5>3
      <4>5. \A k \in 1 .. c : r[k] \in Nat /\ r[k] < m + 1
        <5>1. \A x \in R : x \in Nat /\ x < m + 1
          BY <3>1
        <5> QED
          BY <5>1, <3>2
      <4>6. Ascending(s)
        <5> SUFFICES ASSUME NEW i \in 1 .. c + 1, NEW j \in 1 .. c + 1, i < j
                     PROVE  s[i] < s[j]
          BY <4>4 DEF Ascending
        <5>1. i \in 1 .. c /\ s[i] = r[i]
          BY <3>3
        <5>2. CASE j = c + 1
          BY <5>1, <5>2, <4>5
        <5>3. CASE j # c + 1
          <6>1. j \in 1 .. c /\ s[j] = r[j]
            BY <5>3, <3>3
          <6> QED
            BY <5>1, <6>1, <3>2, <4>4 DEF Ascending
        <5> QED
          BY <5>2, <5>3
      <4> HIDE DEF s
      <4> QED
        BY <4>2, <4>3, <4>6
    <3>5. CASE m + 1 \notin T
      <4>1. T = R
        BY <3>5
      <4> QED
        BY <4>1, <3>2
    <3> QED
      BY <3>4, <3>5
  <2> HIDE DEF HasOrder
  <2> QED
    BY <2>1
<1>3. 0 .. n \subseteq M
  <2> HIDE DEF M
  <2> QED
    BY <1>1, <1>2, Induction
<1> HIDE DEF HasOrder
<1>4. HasOrder(S)
  BY <1>3
<1> QED
  BY <1>4 DEF HasOrder

\* Sorted lists the elements of the set, each once, in order.
LEMMA SortedFacts ==
    ASSUME NEW n \in Nat, NEW S \in SUBSET (1 .. n)
    PROVE  /\ Sorted(S) \in Seq(S) /\ Len(Sorted(S)) = Cardinality(S)
           /\ Ascending(Sorted(S))
           /\ S = {Sorted(S)[k] : k \in 1 .. Len(Sorted(S))}
<1> DEFINE s == Sorted(S)
           c == Cardinality(S)
<1>1. s \in [1 .. c -> S] /\ Ascending(s)
  BY SortedExists DEF Sorted
<1>2. IsFiniteSet(S) /\ c \in Nat
  <2>1. IsFiniteSet(1 .. n)
    BY FS_Interval
  <2> QED
    BY <2>1, FS_Subset, FS_CardinalityType
<1> HIDE DEF s, c
<1>3. s \in Seq(S) /\ Len(s) = c
  BY <1>1, <1>2, FunctionIsSeq
<1>4. \A i, j \in 1 .. c : i # j => s[i] # s[j]
  <2> SUFFICES ASSUME NEW i \in 1 .. c, NEW j \in 1 .. c, i # j PROVE s[i] # s[j]
    OBVIOUS
  <2>1. s[i] \in Nat /\ s[j] \in Nat /\ (i < j => s[i] < s[j]) /\ (j < i => s[j] < s[i])
    <3>1. s[i] \in S /\ s[j] \in S /\ \A x \in S : x \in Nat
      BY <1>1
    <3>2. (i < j => s[i] < s[j]) /\ (j < i => s[j] < s[i])
      BY <1>1, <1>3 DEF Ascending
    <3> QED
      BY <3>1, <3>2
  <2> QED
    BY <2>1, <1>2
<1>5. s \in Injection(1 .. c, S)
  BY <1>1, <1>4 DEF Injection, IsInjective
<1>6. Cardinality(1 .. c) = c
  BY <1>2, FS_Interval
<1>7. s \in Surjection(1 .. c, S)
  BY <1>5, <1>6, <1>2, FS_Injection DEF c
<1>8. S = {s[k] : k \in 1 .. c}
  BY <1>1, <1>7 DEF Surjection
<1> QED
  BY <1>1, <1>3, <1>8 DEF s, c

\* As many elements come before the j-th as its number says.
LEMMA Rank ==
    ASSUME NEW s \in Seq(Nat), Ascending(s), NEW j \in 1 .. Len(s)
    PROVE  Cardinality({e \in {s[k] : k \in 1 .. Len(s)} : e < s[j]}) = j - 1
<1> DEFINE T == {e \in {s[k] : k \in 1 .. Len(s)} : e < s[j]}
           f == [k \in 1 .. j - 1 |-> s[k]]
<1>1. \A i, k \in 1 .. Len(s) : i < k => s[i] < s[k]
  BY DEF Ascending
<1>2. \A k \in 1 .. Len(s) : s[k] \in Nat
  OBVIOUS
<1>3. f \in [1 .. j - 1 -> T]
  BY <1>1
<1>4. \A i, k \in 1 .. j - 1 : f[i] = f[k] => i = k
  <2> SUFFICES ASSUME NEW i \in 1 .. j - 1, NEW k \in 1 .. j - 1, i # k PROVE f[i] # f[k]
    OBVIOUS
  <2>1. f[i] = s[i] /\ f[k] = s[k] /\ i \in 1 .. Len(s) /\ k \in 1 .. Len(s)
    OBVIOUS
  <2>2. i < k \/ k < i
    OBVIOUS
  <2> QED
    BY <2>1, <2>2, <1>1, <1>2
<1>5. \A t \in T : \E k \in 1 .. j - 1 : f[k] = t
  <2> SUFFICES ASSUME NEW t \in T PROVE \E k \in 1 .. j - 1 : f[k] = t
    OBVIOUS
  <2>1. PICK k \in 1 .. Len(s) : t = s[k] /\ s[k] < s[j]
    OBVIOUS
  <2>2. k < j
    BY <2>1, <1>1, <1>2
  <2> QED
    BY <2>1, <2>2
<1> HIDE DEF f, T
<1>6. f \in Bijection(1 .. j - 1, T)
  BY <1>3, <1>4, <1>5 DEF Bijection, Injection, Surjection, IsInjective
<1>7. IsFiniteSet(1 .. j - 1) /\ Cardinality(1 .. j - 1) = j - 1
  BY FS_Interval
<1>8. Cardinality(T) = j - 1
  BY <1>6, <1>7, FS_Bijection DEF ExistsBijection
<1> QED
  BY <1>8 DEF T
-----------------------------------------------------------------------------
(* Networks. *)

\* What the definitions of m2m.h and m2m_mm.h come to.
LEMMA Sizes ==
    /\ MAX_NODE_NUM = 100 /\ NODE_MAX_LINKS = 8 /\ LocaltimeSize = 800
    /\ HEADER_QUEUE_SIZE = 512 /\ HEADER_QUEUE_METADATA_SIZE = 32
    /\ TOTAL_HEADER_QUEUE_SIZE = 544 /\ HEADER_QUEUE_CONTRLFLAG = 12
    /\ TOTAL_DATA_BUFFER_SIZE = 16432
    /\ DOMAIN SizeOf = {"ZC", "ZR", "ZED"}
    /\ SizeOf["ZC"] = 21884 /\ SizeOf["ZR"] = 4352 /\ SizeOf["ZED"] = 16988
  BY DEF MAX_NODE_NUM, NODE_MAX_LINKS, LocaltimeSize, HEADER_QUEUE_SIZE,
         HEADER_QUEUE_METADATA_SIZE, TOTAL_HEADER_QUEUE_SIZE, HEADER_QUEUE_CONTRLFLAG,
         TOTAL_DATA_BUFFER_SIZE, DATA_BUFFER_SIZE, DATA_BUFFER_METADATA_SIZE,
         SizeOf, COORDINATOR_SIZE, ROUTER_SIZE, END_DEVICE_SIZE

\* What a file that describes a network is.
DeviceKind == {"ZC", "ZR", "ZED"}
Line == [type : DeviceKind, links : Seq(Nat)]
Network ==
    /\ Len(conf) \in 2 .. MaxDevice
    /\ conf \in Seq(Line)
    /\ \A d \in Device : /\ conf[d].links \in Seq(Device)
                         /\ Len(conf[d].links) \in 1 .. NODE_MAX_LINKS
                         /\ Ascending(conf[d].links)
                         /\ conf[d].type = "ZED" => Len(conf[d].links) = 1
                         /\ d \notin Linked(d)
    /\ \A d, e \in Device : e \in Linked(d) => d \in Linked(e)

\* The files that Networks describes are networks in this sense.
LEMMA NetworkFacts ==
    ASSUME NEW n \in 2 .. MaxDevice, conf \in Networks(n)
    PROVE  Network
<1> DEFINE Adj(links, d) == {e \in 1 .. n : {d, e} \in links}
           Pairs == {l \in SUBSET (1 .. n) : Cardinality(l) = 2}
           Possible(type, links) ==
               \A d \in 1 .. n :
                   /\ type[d] = "ZC" <=> d = 1
                   /\ Cardinality(Adj(links, d)) \in 1 .. NODE_MAX_LINKS
                   /\ type[d] = "ZED" => \E e \in 1 .. n : /\ Adj(links, d) = {e}
                                                           /\ type[e] # "ZED"
<1>n. n \in Nat /\ n >= 2
  BY LayoutAssumption, Sizes
<1>1. PICK w \in {v \in [1 .. n -> DOMAIN SizeOf] \X SUBSET Pairs : Possible(v[1], v[2])} :
          conf = [d \in 1 .. n |-> [type |-> w[1][d], links |-> Sorted(Adj(w[2], d))]]
  BY DEF Networks
<1> DEFINE A(d) == Adj(w[2], d)
           ty == w[1]
<1>2. ty \in [1 .. n -> DeviceKind] /\ w[2] \in SUBSET Pairs
  BY <1>1, Sizes DEF DeviceKind
<1>3. conf = [d \in 1 .. n |-> [type |-> ty[d], links |-> Sorted(A(d))]]
  BY <1>1
<1>4. \A d \in 1 .. n : /\ Cardinality(A(d)) \in 1 .. NODE_MAX_LINKS
                        /\ ty[d] = "ZED" => \E e \in 1 .. n : A(d) = {e}
  BY <1>1
<1>5. \A d, e \in 1 .. n : e \in A(d) => d \in A(e)
  <2> SUFFICES ASSUME NEW d \in 1 .. n, NEW e \in 1 .. n, {d, e} \in w[2] PROVE {e, d} \in w[2]
    OBVIOUS
  <2>1. {d, e} = {e, d}
    OBVIOUS
  <2> QED
    BY <2>1
<1>6. \A d \in 1 .. n : d \notin A(d)
  <2> SUFFICES ASSUME NEW d \in 1 .. n, {d, d} \in w[2] PROVE FALSE
    OBVIOUS
  <2>1. {d} \in w[2]
    <3>1. {d, d} = {d}
      OBVIOUS
    <3> QED
      BY <3>1
  <2>2. Cardinality({d}) = 2
    BY <2>1, <1>2
  <2>3. Cardinality({d}) = 1
    BY FS_Singleton
  <2> QED
    BY <2>2, <2>3
<1>7. \A d \in 1 .. n : A(d) \in SUBSET (1 .. n)
  OBVIOUS
<1> HIDE DEF A, ty
<1>8. \A d \in 1 .. n : /\ Sorted(A(d)) \in Seq(A(d)) /\ Len(Sorted(A(d))) = Cardinality(A(d))
                        /\ Ascending(Sorted(A(d)))
                        /\ A(d) = {Sorted(A(d))[k] : k \in 1 .. Len(Sorted(A(d)))}
  BY <1>7, <1>n, SortedFacts
<1>9. \A d \in 1 .. n : Sorted(A(d)) \in Seq(1 .. n) /\ Sorted(A(d)) \in Seq(Nat)
  <2> SUFFICES ASSUME NEW d \in 1 .. n PROVE Sorted(A(d)) \in Seq(1 .. n) /\ Sorted(A(d)) \in Seq(Nat)
    OBVIOUS
  <2>1. A(d) \subseteq 1 .. n /\ A(d) \subseteq Nat
    BY <1>7
  <2> QED
    BY <2>1, <1>8, SeqMonotonic
<1>10. \A d \in 1 .. n : conf[d] = [type |-> ty[d], links |-> Sorted(A(d))] /\ conf[d] \in Line
  BY <1>2, <1>3, <1>9 DEF Line
<1>11. conf \in Seq(Line) /\ Len(conf) = n
  <2>1. conf \in [1 .. n -> Line]
    BY <1>3, <1>10
  <2> QED
    BY <2>1, <1>n, FunctionIsSeq
<1>12. Device = 1 .. n
  BY <1>11 DEF Device
<1>13. \A d \in Device : conf[d].type = ty[d] /\ conf[d].links = Sorted(A(d))
  <2> SUFFICES ASSUME NEW d \in Device PROVE conf[d].type = ty[d] /\ conf[d].links = Sorted(A(d))
    OBVIOUS
  <2>1. conf[d] = [type |-> ty[d], links |-> Sorted(A(d))]
    BY <1>10, <1>12
  <2> QED
    BY <2>1
<1>14. ASSUME NEW d \in Device PROVE Linked(d) = A(d)
  <2>1. Linked(d) = {Sorted(A(d))[k] : k \in 1 .. Len(Sorted(A(d)))}
    BY <1>13 DEF Linked
  <2>2. A(d) = {Sorted(A(d))[k] : k \in 1 .. Len(Sorted(A(d)))}
    BY <1>8, <1>12
  <2> QED
    BY <2>1, <2>2
<1>15. \A d \in Device : conf[d].type = "ZED" => Len(conf[d].links) = 1
  <2> SUFFICES ASSUME NEW d \in Device, conf[d].type = "ZED" PROVE Len(conf[d].links) = 1
    OBVIOUS
  <2>1. ty[d] = "ZED" /\ conf[d].links = Sorted(A(d))
    BY <1>13
  <2>2. Len(Sorted(A(d))) = Cardinality(A(d))
    BY <1>8, <1>12
  <2>3. PICK e : A(d) = {e}
    BY <2>1, <1>4, <1>12
  <2>4. Cardinality(A(d)) = 1
    BY <2>3, FS_Singleton
  <2> QED
    BY <2>1, <2>2, <2>4
<1>16. \A d \in Device : /\ conf[d].links \in Seq(Device)
                         /\ Len(conf[d].links) \in 1 .. NODE_MAX_LINKS
                         /\ Ascending(conf[d].links)
                         /\ d \notin Linked(d)
  <2> SUFFICES ASSUME NEW d \in 1 .. n
               PROVE  /\ Sorted(A(d)) \in Seq(1 .. n)
                      /\ Len(Sorted(A(d))) \in 1 .. NODE_MAX_LINKS
                      /\ Ascending(Sorted(A(d)))
                      /\ d \notin A(d)
    BY <1>12, <1>13, <1>14
  <2>1. Len(Sorted(A(d))) = Cardinality(A(d)) /\ Ascending(Sorted(A(d)))
    BY <1>8
  <2> QED
    BY <2>1, <1>4, <1>6, <1>9
<1>17. \A d, e \in Device : e \in Linked(d) => d \in Linked(e)
  BY <1>5, <1>12, <1>14
<1> QED
  BY <1>11, <1>15, <1>16, <1>17 DEF Network
-----------------------------------------------------------------------------
(* What is to be computed, and the inductive invariant. *)

\* Where the space of each device begins, and behind the last where it ends.
Start == LET start[d \in 1 .. Len(conf) + 1] ==
                 IF d = 1 THEN 0 ELSE start[d - 1] + SizeOf[conf[d - 1].type]
         IN  start

\* What m2m_dbp_init is to compute, in terms of the file.
Base(d) == Start[d] + LocaltimeSize
Behind(d) == Base(d) + NODE_MAX_LINKS * TOTAL_HEADER_QUEUE_SIZE + TOTAL_DATA_BUFFER_SIZE

RefConflag(d) ==
    IF conf[d].type = "ZED" THEN Base(d) + TOTAL_HEADER_QUEUE_SIZE
    ELSE Base(d) + (NODE_MAX_LINKS + 2) * TOTAL_HEADER_QUEUE_SIZE + TOTAL_DATA_BUFFER_SIZE

RefLocal(d) ==
    CASE conf[d].type = "ZED" -> LinkQueues(Base(d), 1)
      [] conf[d].type = "ZR"  -> LinkQueues(Base(d), NODE_MAX_LINKS)
      [] conf[d].type = "ZC"  -> LinkQueues(Base(d), NODE_MAX_LINKS) \o LinkQueues(Behind(d), 2)

RefData(d) ==
    IF conf[d].type = "ZED"
    THEN Base(d) + TOTAL_HEADER_QUEUE_SIZE + HEADER_QUEUE_CONTRLFLAG
    ELSE Base(d) + TOTAL_HEADER_QUEUE_SIZE * NODE_MAX_LINKS

RefOffset(n, d) == Cardinality({e \in Linked(n) : e < d})

RefRemote(n, d) ==
    IF conf[n].type = "ZED"
    THEN [buffer |-> Base(n), meta |-> Base(n) + HEADER_QUEUE_SIZE]
    ELSE [buffer |-> Base(n) + HEADER_QUEUE_SIZE * RefOffset(n, d),
          meta   |-> Base(n) + HEADER_QUEUE_SIZE * NODE_MAX_LINKS
                     + HEADER_QUEUE_METADATA_SIZE * RefOffset(n, d)]

RefSize == Start[Len(conf) + 1] + LocaltimeSize

RefAddresses(d) ==
    [ready     |-> TRUE,
     local     |-> RefLocal(d),
     remote    |-> [i \in 1 .. Len(conf[d].links) |-> RefRemote(conf[d].links[i], d)],
     conflag   |-> [e \in {f \in Device : conf[f].type # "ZR"} |-> RefConflag(e)],
     localtime |-> [e \in Device |-> e * 8],
     data      |-> IF conf[d].type = "ZR" THEN {} ELSE {RefData(d)},
     size      |-> RefSize]

\* Whose turn it is, and how far it has got.
TurnInv ==
    /\ turn \in Device
    /\ pc \in {"fetch", "dbp", "done"}
    /\ index \in 1 .. Len(conf) + 1
    /\ pc # "fetch" => index = Len(conf) + 1
    /\ pc = "done" => turn = Len(conf)

\* What the lines read so far have given.
PlaceInv ==
    /\ shm_location = Start[index]
    /\ NODE_SHM_LOCATION = [d \in Device |-> IF d < index THEN Start[d] ELSE 0]
    /\ NODE_TYPE = [d \in Device |-> IF d < index THEN conf[d].type ELSE ""]
    /\ Neighbors = IF turn < index THEN conf[turn].links ELSE << >>

TotalInv ==
    /\ TotalNetworkTypeDevice \in [DeviceKind -> 0 .. index - 1]
    /\ TotalNetworkTypeDevice["ZC"] * 21884 + TotalNetworkTypeDevice["ZR"] * 4352
       + TotalNetworkTypeDevice["ZED"] * 16988 = Start[index]
    /\ SHM_SIZE \in Nat
    /\ pc = "dbp" => SHM_SIZE = RefSize

\* The map is complete but for the device's own row.
MapInv ==
    /\ NODE_MAP \in [Device -> SUBSET Device]
    /\ \A j \in Device : NODE_MAP[j] \subseteq Linked(j)
    /\ \A j \in Device : j < index /\ j # turn => Linked(j) \subseteq NODE_MAP[j]

\* The devices that have had their turn have computed what they should.
AddressInv ==
    addresses = [d \in Device |-> IF d < turn \/ pc = "done" THEN RefAddresses(d)
                                  ELSE NoAddresses]

IInv == Network /\ TurnInv /\ PlaceInv /\ TotalInv /\ MapInv /\ AddressInv
-----------------------------------------------------------------------------
(* The space of each device. *)

SizeAt(d) == SizeOf[conf[d].type]
IsStart(f, b) == f = [d \in 1 .. b + 1 |-> IF d = 1 THEN 0 ELSE f[d - 1] + SizeAt(d - 1)]

\* The recursive function Start is well defined.
LEMMA StartExists ==
    ASSUME NEW b \in Nat
    PROVE  \E f : IsStart(f, b)
<1> DEFINE S == {m \in Nat : \E f : IsStart(f, m)}
<1>1. 0 \in S
  <2>1. IsStart([n \in 1 .. 0 + 1 |-> 0], 0)
    BY DEF IsStart
  <2> QED
    BY <2>1
<1>2. ASSUME NEW m \in 0 .. b - 1, m \in S PROVE m + 1 \in S
  <2>1. PICK f : IsStart(f, m)
    BY <1>2
  <2> DEFINE g == [n \in 1 .. (m + 1) + 1 |->
                      IF n = (m + 1) + 1 THEN f[m + 1] + SizeAt(m + 1) ELSE f[n]]
  <2>2. IsStart(g, m + 1)
    <3>1. \A n \in 1 .. (m + 1) + 1 : g[n] = IF n = 1 THEN 0 ELSE g[n - 1] + SizeAt(n - 1)
      <4> SUFFICES ASSUME NEW n \in 1 .. (m + 1) + 1
                   PROVE  g[n] = IF n = 1 THEN 0 ELSE g[n - 1] + SizeAt(n - 1)
        OBVIOUS
      <4>1. CASE n = (m + 1) + 1
        <5>1. n # 1 /\ n - 1 = m + 1 /\ g[m + 1] = f[m + 1]
          BY <4>1
        <5>2. g[n] = f[m + 1] + SizeAt(m + 1)
          BY <4>1
        <5> QED
          BY <5>1, <5>2
      <4>2. CASE n \in 1 .. m + 1
        <5>1. g[n] = f[n] /\ (n # 1 => g[n - 1] = f[n - 1])
          BY <4>2
        <5>2. f[n] = IF n = 1 THEN 0 ELSE f[n - 1] + SizeAt(n - 1)
          BY <2>1, <4>2 DEF IsStart
        <5> QED
          BY <5>1, <5>2
      <4> QED
        BY <4>1, <4>2
    <3> QED
      BY <3>1 DEF IsStart
  <2>3. \E h : IsStart(h, m + 1)
    <3> HIDE DEF g
    <3> QED
      BY <2>2
  <2> QED
    BY <2>3
<1>3. 0 .. b \subseteq S
  <2> HIDE DEF S
  <2> QED
    BY <1>1, <1>2, Induction
<1>4. b \in S
  BY <1>3
<1> QED
  BY <1>4

\* Each device begins where the one before it ends.
LEMMA StartDef ==
    ASSUME Network
    PROVE  /\ Start[1] = 0
           /\ \A d \in Device : Start[d + 1] = Start[d] + SizeAt(d)
<1>1. Len(conf) \in Nat
  BY DEF Network
<1>2. Start = CHOOSE f : IsStart(f, Len(conf))
  BY DEF Start, IsStart, SizeAt
<1>3. IsStart(Start, Len(conf))
  <2>1. \E f : IsStart(f, Len(conf))
    BY <1>1, StartExists
  <2> QED
    BY <1>2, <2>1
<1>4. Start[1] = 0
  BY <1>1, <1>3 DEF IsStart
<1>5. ASSUME NEW d \in Device PROVE Start[d + 1] = Start[d] + SizeAt(d)
  <2>1. d + 1 \in 1 .. Len(conf) + 1 /\ d + 1 # 1 /\ (d + 1) - 1 = d
    BY <1>1 DEF Device
  <2>2. Start[d + 1] = Start[(d + 1) - 1] + SizeAt((d + 1) - 1)
    BY <2>1, <1>3 DEF IsStart
  <2> QED
    BY <2>1, <2>2
<1> QED
  BY <1>4, <1>5

\* The size of the space of a device, by its type.
LEMMA SizeAtFacts ==
    ASSUME Network, NEW d \in Device
    PROVE  /\ conf[d].type \in DeviceKind
           /\ conf[d].type = "ZC" => SizeAt(d) = 21884
           /\ conf[d].type = "ZR" => SizeAt(d) = 4352
           /\ conf[d].type = "ZED" => SizeAt(d) = 16988
           /\ SizeAt(d) \in Nat
<1>1. conf[d].type \in DeviceKind
  <2>1. conf[d] \in Line
    BY DEF Network, Device
  <2> QED
    BY <2>1 DEF Line
<1>2. /\ conf[d].type = "ZC" => SizeAt(d) = 21884
      /\ conf[d].type = "ZR" => SizeAt(d) = 4352
      /\ conf[d].type = "ZED" => SizeAt(d) = 16988
  BY Sizes DEF SizeAt
<1> QED
  BY <1>1, <1>2 DEF DeviceKind

\* Where a space begins is a number.
LEMMA StartType ==
    ASSUME Network
    PROVE  \A d \in 1 .. Len(conf) + 1 : Start[d] \in Nat
<1> DEFINE S == {m \in 0 .. Len(conf) : Start[m + 1] \in Nat}
<1>1. Len(conf) \in Nat
  BY DEF Network
<1>2. 0 \in S
  BY <1>1, StartDef
<1>3. ASSUME NEW m \in 0 .. Len(conf) - 1, m \in S PROVE m + 1 \in S
  <2>1. m + 1 \in Device /\ m + 1 \in 0 .. Len(conf)
    BY <1>1 DEF Device
  <2>2. Start[(m + 1) + 1] = Start[m + 1] + SizeAt(m + 1) /\ SizeAt(m + 1) \in Nat
    BY <2>1, StartDef, SizeAtFacts
  <2> QED
    BY <2>1, <2>2, <1>3
<1>4. 0 .. Len(conf) \subseteq S
  <2> HIDE DEF S
  <2> QED
    BY <1>1, <1>2, <1>3, Induction
<1>5. ASSUME NEW d \in 1 .. Len(conf) + 1 PROVE Start[d] \in Nat
  <2>1. d - 1 \in 0 .. Len(conf) /\ (d - 1) + 1 = d
    BY <1>1
  <2> QED
    BY <2>1, <1>4
<1> QED
  BY <1>5

\* The spaces follow each other.
LEMMA StartOrder ==
    ASSUME Network, NEW d \in Device
    PROVE  \A e \in 1 .. Len(conf) + 1 : d < e => Start[d] + SizeAt(d) <= Start[e]
<1> DEFINE S == {m \in 0 .. Len(conf) - d : Start[d] + SizeAt(d) <= Start[(d + m) + 1]}
<1>1. Len(conf) \in Nat /\ d \in 1 .. Len(conf)
  BY DEF Network, Device
<1>2. SizeAt(d) \in Nat /\ Start[d] \in Nat
  BY <1>1, StartType, SizeAtFacts
<1>3. 0 \in S
  <2>1. Start[d + 1] = Start[d] + SizeAt(d) /\ (d + 0) + 1 = d + 1
    BY <1>1, StartDef
  <2> QED
    BY <2>1, <1>1, <1>2
<1>4. ASSUME NEW m \in 0 .. (Len(conf) - d) - 1, m \in S PROVE m + 1 \in S
  <2> DEFINE k == (d + m) + 1
  <2>1. k \in Device /\ k \in 1 .. Len(conf) + 1 /\ (d + (m + 1)) + 1 = k + 1 /\ m + 1 \in 0 .. Len(conf) - d
    BY <1>1 DEF Device
  <2>2. Start[d] + SizeAt(d) <= Start[k]
    BY <1>4
  <2> HIDE DEF k
  <2>3. Start[k + 1] = Start[k] + SizeAt(k) /\ SizeAt(k) \in Nat /\ Start[k] \in Nat
    BY <2>1, StartDef, StartType, SizeAtFacts
  <2>4. Start[d] + SizeAt(d) <= Start[k + 1]
    BY <2>2, <2>3, <1>2
  <2> QED
    BY <2>1, <2>4
<1>5. 0 .. Len(conf) - d \subseteq S
  <2>1. Len(conf) - d \in Nat
    BY <1>1
  <2> HIDE DEF S
  <2> QED
    BY <2>1, <1>3, <1>4, Induction
<1>6. ASSUME NEW e \in 1 .. Len(conf) + 1, d < e PROVE Start[d] + SizeAt(d) <= Start[e]
  <2>1. (e - d) - 1 \in 0 .. Len(conf) - d /\ (d + ((e - d) - 1)) + 1 = e
    BY <1>1, <1>6
  <2> QED
    BY <2>1, <1>5
<1> QED
  BY <1>6
-----------------------------------------------------------------------------
(* The steps. *)

\* What is to be computed depends on the file only, which nobody changes.
LEMMA Frame ==
    ASSUME conf' = conf
    PROVE  /\ Device' = Device /\ Start' = Start /\ RefSize' = RefSize
           /\ Network' = Network
           /\ \A d : Linked(d)' = Linked(d)
           /\ \A d : RefAddresses(d)' = RefAddresses(d)
<1>1. Device' = Device
  BY DEF Device
<1>2. Start' = Start
  BY DEF Start
<1>3. RefSize' = RefSize
  BY <1>2 DEF RefSize
<1>4. \A d : Linked(d)' = Linked(d)
  BY DEF Linked
<1>5. Network' = Network
  BY <1>1, <1>4 DEF Network
<1>6. \A d : Base(d)' = Base(d) /\ Behind(d)' = Behind(d)
  BY <1>2 DEF Base, Behind
<1>7. \A d : RefConflag(d)' = RefConflag(d) /\ RefData(d)' = RefData(d)
  BY <1>6 DEF RefConflag, RefData
<1>8. \A d : RefLocal(d)' = RefLocal(d)
  BY <1>6 DEF RefLocal
<1>9. \A n, d : RefRemote(n, d)' = RefRemote(n, d)
  BY <1>4, <1>6 DEF RefRemote, RefOffset
<1>10. \A d : RefAddresses(d)' = RefAddresses(d)
  BY <1>1, <1>3, <1>7, <1>8, <1>9 DEF RefAddresses
<1> QED
  BY <1>1, <1>2, <1>3, <1>4, <1>5, <1>10

\* The invariant holds when the first device begins to read.
LEMMA InitIInv == Init => IInv
<1> SUFFICES ASSUME Init PROVE IInv
  OBVIOUS
<1>1. PICK n \in 2 .. MaxDevice : conf \in Networks(n)
  BY DEF Init
<1>2. Network
  BY <1>1, NetworkFacts
<1>3. Device = 1 .. Len(conf) /\ Len(conf) \in Nat /\ Len(conf) >= 2
  BY <1>2 DEF Network, Device
<1>i. /\ turn = 1 /\ pc = "fetch" /\ index = 1 /\ shm_location = 0
      /\ NODE_SHM_LOCATION = [d \in Device |-> 0]
      /\ TotalNetworkTypeDevice = [t \in DOMAIN SizeOf |-> 0]
      /\ Neighbors = << >> /\ SHM_SIZE = 0
  BY DEF Init
<1>4. TurnInv
  <2>1. turn \in Device /\ index \in 1 .. Len(conf) + 1
    BY <1>3, <1>i
  <2> QED
    BY <2>1, <1>i DEF TurnInv
<1>5. \A d \in Device : ~(d < 1)
  BY <1>3
<1>6. PlaceInv
  <2>1. Start[1] = 0
    BY <1>2, StartDef
  <2>2. ~(turn < index)
    BY <1>i
  <2>3. NODE_TYPE = [d \in Device |-> IF d < index THEN conf[d].type ELSE ""]
    <3>1. NODE_TYPE = [d \in Device |-> ""] /\ \A d \in Device : ~(d < index)
      BY <1>5 DEF Init
    <3> QED
      BY <3>1
  <2> QED
    BY <2>1, <2>2, <2>3, <1>5, <1>i DEF PlaceInv
<1>7. TotalInv
  <2>1. TotalNetworkTypeDevice = [t \in DeviceKind |-> 0]
    <3>1. DOMAIN SizeOf = DeviceKind
      BY Sizes DEF DeviceKind
    <3> QED
      BY <3>1, <1>i
  <2>2. Start[1] = 0
    BY <1>2, StartDef
  <2> QED
    BY <2>1, <2>2, <1>i DEF TotalInv, DeviceKind
<1>8. MapInv
  BY <1>5 DEF Init, MapInv
<1>9. AddressInv
  BY <1>5 DEF Init, AddressInv
<1> QED
  BY <1>2, <1>4, <1>6, <1>7, <1>8, <1>9 DEF IInv

\* node_infofetch: a line of the file.
LEMMA FetchLineIInv ==
    ASSUME IInv, FetchLine
    PROVE  IInv'
<1> DEFINE t == conf[index].type
<1>1. Network /\ TurnInv /\ PlaceInv /\ TotalInv /\ MapInv /\ AddressInv
  BY DEF IInv
<1>2. Device = 1 .. Len(conf) /\ Len(conf) \in Nat /\ index \in Device /\ turn \in Device
  BY <1>1 DEF Network, Device, TurnInv, FetchLine
<1>3. pc = "fetch" /\ index' = index + 1 /\ UNCHANGED <<conf, turn, pc, SHM_SIZE, addresses>>
  BY DEF FetchLine
<1>4. /\ Device' = Device /\ Start' = Start /\ RefSize' = RefSize /\ Network'
      /\ \A d : Linked(d)' = Linked(d)
      /\ \A d : RefAddresses(d)' = RefAddresses(d)
  BY <1>1, <1>3, Frame
<1>5. t \in DeviceKind /\ SizeOf[t] = SizeAt(index) /\ Start[index + 1] = Start[index] + SizeAt(index)
  BY <1>1, <1>2, SizeAtFacts, StartDef DEF SizeAt
<1>6. TurnInv'
  BY <1>1, <1>2, <1>3, <1>4 DEF TurnInv
<1>7. PlaceInv'
  <2>1. shm_location' = Start[index + 1]
    BY <1>1, <1>5 DEF FetchLine, PlaceInv
  <2>2. NODE_SHM_LOCATION' = [d \in Device |-> IF d < index + 1 THEN Start[d] ELSE 0]
    <3>1. NODE_SHM_LOCATION' = [NODE_SHM_LOCATION EXCEPT ![index] = Start[index]]
      BY <1>1 DEF FetchLine, PlaceInv
    <3>2. NODE_SHM_LOCATION = [d \in Device |-> IF d < index THEN Start[d] ELSE 0]
      BY <1>1 DEF PlaceInv
    <3>3. \A d \in Device : d < index + 1 <=> (d < index \/ d = index)
      BY <1>2
    <3> QED
      BY <3>1, <3>2, <3>3
  <2>3. NODE_TYPE' = [d \in Device |-> IF d < index + 1 THEN conf[d].type ELSE ""]
    <3>1. NODE_TYPE' = [NODE_TYPE EXCEPT ![index] = conf[index].type]
      BY DEF FetchLine
    <3>2. NODE_TYPE = [d \in Device |-> IF d < index THEN conf[d].type ELSE ""]
      BY <1>1 DEF PlaceInv
    <3>3. \A d \in Device : d < index + 1 <=> (d < index \/ d = index)
      BY <1>2
    <3> QED
      BY <3>1, <3>2, <3>3
  <2>4. Neighbors' = IF turn < index + 1 THEN conf[turn].links ELSE << >>
    <3>1. CASE index = turn
      <4>1. Neighbors' = conf[index].links /\ turn < index + 1
        BY <3>1, <1>2 DEF FetchLine
      <4> QED
        BY <4>1, <3>1
    <3>2. CASE index # turn
      <4>1. Neighbors' = Neighbors /\ (turn < index + 1 <=> turn < index)
        BY <3>2, <1>2 DEF FetchLine
      <4> QED
        BY <4>1, <1>1 DEF PlaceInv
    <3> QED
      BY <3>1, <3>2
  <2> QED
    BY <2>1, <2>2, <2>3, <2>4, <1>3, <1>4 DEF PlaceInv
<1>8. TotalInv'
  <2> DEFINE T == TotalNetworkTypeDevice
             U == TotalNetworkTypeDevice'
  <2>1. U = [T EXCEPT ![t] = T[t] + 1]
    BY DEF FetchLine
  <2>2. T \in [DeviceKind -> 0 .. index - 1]
    BY <1>1 DEF TotalInv
  <2>3. T["ZC"] * 21884 + T["ZR"] * 4352 + T["ZED"] * 16988 = Start[index]
    BY <1>1 DEF TotalInv
  <2> HIDE DEF T, U, t
  <2>4. \A k \in DeviceKind : T[k] \in Nat /\ U[k] = IF k = t THEN T[k] + 1 ELSE T[k]
    BY <2>1, <2>2, <1>5
  <2>5. \A k \in DeviceKind : U[k] \in 0 .. (index + 1) - 1
    BY <2>2, <2>4, <1>2
  <2>6. U \in [DeviceKind -> 0 .. (index + 1) - 1]
    BY <2>1, <2>2, <2>5
  <2>7. U["ZC"] * 21884 + U["ZR"] * 4352 + U["ZED"] * 16988 = Start[index + 1]
    <3>0. Start[index] \in Nat
      BY <1>1, <1>2, StartType
    <3>1. CASE t = "ZC"
      <4>1. SizeAt(index) = 21884
        BY <3>1, <1>1, <1>2, SizeAtFacts DEF t
      <4>2. U["ZC"] = T["ZC"] + 1 /\ U["ZR"] = T["ZR"] /\ U["ZED"] = T["ZED"]
        BY <3>1, <2>4 DEF DeviceKind
      <4>3. T["ZC"] \in Nat /\ T["ZR"] \in Nat /\ T["ZED"] \in Nat
        BY <2>4 DEF DeviceKind
      <4> QED
        BY <3>0, <4>1, <4>2, <4>3, <2>3, <1>5
    <3>2. CASE t = "ZR"
      <4>1. SizeAt(index) = 4352
        BY <3>2, <1>1, <1>2, SizeAtFacts DEF t
      <4>2. U["ZC"] = T["ZC"] /\ U["ZR"] = T["ZR"] + 1 /\ U["ZED"] = T["ZED"]
        BY <3>2, <2>4 DEF DeviceKind
      <4>3. T["ZC"] \in Nat /\ T["ZR"] \in Nat /\ T["ZED"] \in Nat
        BY <2>4 DEF DeviceKind
      <4> QED
        BY <3>0, <4>1, <4>2, <4>3, <2>3, <1>5
    <3>3. CASE t = "ZED"
      <4>1. SizeAt(index) = 16988
        BY <3>3, <1>1, <1>2, SizeAtFacts DEF t
      <4>2. U["ZC"] = T["ZC"] /\ U["ZR"] = T["ZR"] /\ U["ZED"] = T["ZED"] + 1
        BY <3>3, <2>4 DEF DeviceKind
      <4>3. T["ZC"] \in Nat /\ T["ZR"] \in Nat /\ T["ZED"] \in Nat
        BY <2>4 DEF DeviceKind
      <4> QED
        BY <3>0, <4>1, <4>2, <4>3, <2>3, <1>5
    <3> QED
      BY <3>1, <3>2, <3>3, <1>5 DEF DeviceKind
  <2>8. SHM_SIZE' \in Nat /\ pc' # "dbp"
    BY <1>1, <1>3 DEF TotalInv
  <2> QED
    BY <2>6, <2>7, <2>8, <1>3, <1>4 DEF TotalInv, U
<1>9. MapInv'
  <2>1. CASE index = turn
    <3>1. NODE_MAP' = NODE_MAP
      BY <2>1 DEF FetchLine
    <3>2. \A j \in Device : j < index + 1 /\ j # turn => j < index
      BY <1>2, <2>1
    <3> QED
      BY <3>1, <3>2, <1>1, <1>3, <1>4 DEF MapInv
  <2>2. CASE index # turn
    <3>1. NODE_MAP' = [j \in Device |-> NODE_MAP[j] \cup (IF j = index THEN Linked(index) ELSE {})
                                                    \cup (IF j \in Linked(index) THEN {index} ELSE {})]
      BY <2>2 DEF FetchLine, MarkBothWays
    <3>2. \A j \in Device : j \in Linked(index) => index \in Linked(j)
      BY <1>1, <1>2 DEF Network
    <3>3. \A j \in Device : Linked(j) \subseteq Device
      <4> SUFFICES ASSUME NEW j \in Device, NEW k \in 1 .. Len(conf[j].links)
                   PROVE  conf[j].links[k] \in Device
        BY DEF Linked
      <4>1. conf[j].links \in Seq(Device)
        BY <1>1 DEF Network
      <4> QED
        BY <4>1, ElementOfSeq
    <3>4. \A j \in Device : NODE_MAP'[j] = NODE_MAP[j] \cup (IF j = index THEN Linked(index) ELSE {})
                                                    \cup (IF j \in Linked(index) THEN {index} ELSE {})
      BY <3>1
    <3>5. ASSUME NEW j \in Device PROVE NODE_MAP'[j] \subseteq Linked(j)
      BY <3>2, <3>4, <1>1 DEF MapInv
    <3>6. NODE_MAP' \in [Device -> SUBSET Device]
      <4>1. \A j \in Device : NODE_MAP'[j] \in SUBSET Device
        BY <3>3, <3>5
      <4>2. DOMAIN NODE_MAP' = Device /\ NODE_MAP' = [j \in Device |-> NODE_MAP'[j]]
        BY <3>1
      <4> QED
        BY <4>1, <4>2
    <3>7. ASSUME NEW j \in Device, j < index + 1, j # turn PROVE Linked(j) \subseteq NODE_MAP'[j]
      <4>1. j < index \/ j = index
        BY <3>7, <1>2
      <4>2. CASE j = index
        BY <4>2, <3>4
      <4>3. CASE j < index
        BY <4>3, <3>4, <3>7, <1>1 DEF MapInv
      <4> QED
        BY <4>1, <4>2, <4>3
    <3> QED
      BY <3>5, <3>6, <3>7, <1>3, <1>4 DEF MapInv
  <2> QED
    BY <2>1, <2>2
<1>10. AddressInv'
  BY <1>1, <1>3, <1>4 DEF AddressInv
<1> QED
  BY <1>4, <1>6, <1>7, <1>8, <1>9, <1>10 DEF IInv

\* m2m_mm_init: the totals give the size of the segment.
LEMMA MmInitIInv ==
    ASSUME IInv, MmInit
    PROVE  IInv'
<1> DEFINE T == TotalNetworkTypeDevice
<1>1. Network /\ TurnInv /\ PlaceInv /\ TotalInv /\ MapInv /\ AddressInv
  BY DEF IInv
<1>2. /\ pc = "fetch" /\ index > Len(conf) /\ pc' = "dbp"
      /\ SHM_SIZE' = SegmentSize(T)
      /\ UNCHANGED <<conf, turn, addresses, index, shm_location, NODE_SHM_LOCATION, NODE_TYPE,
                     NODE_MAP, TotalNetworkTypeDevice, Neighbors>>
  BY DEF MmInit, fetched
<1>3. /\ Device' = Device /\ Start' = Start /\ RefSize' = RefSize /\ Network'
      /\ \A d : Linked(d)' = Linked(d)
      /\ \A d : RefAddresses(d)' = RefAddresses(d)
  BY <1>1, <1>2, Frame
<1>4. Len(conf) \in Nat /\ index \in 1 .. Len(conf) + 1 /\ index = Len(conf) + 1
  BY <1>1, <1>2 DEF Network, TurnInv
<1>5. TurnInv'
  BY <1>1, <1>2, <1>3, <1>4 DEF TurnInv
<1>6. PlaceInv'
  BY <1>1, <1>2, <1>3 DEF PlaceInv
<1>7. SHM_SIZE' = RefSize /\ SHM_SIZE' \in Nat
  <2>1. T \in [DeviceKind -> 0 .. index - 1]
    BY <1>1 DEF TotalInv
  <2>2. T["ZC"] * 21884 + T["ZR"] * 4352 + T["ZED"] * 16988 = Start[index]
    BY <1>1 DEF TotalInv
  <2>3. SegmentSize(T) = T["ZC"] * SizeOf["ZC"] + T["ZR"] * SizeOf["ZR"] + T["ZED"] * SizeOf["ZED"]
                         + LocaltimeSize
    BY DEF SegmentSize
  <2>4. RefSize = Start[index] + LocaltimeSize
    BY <1>4 DEF RefSize
  <2>5. Start[index] \in Nat
    BY <1>1, <1>4, StartType
  <2>6. SegmentSize(T) = Start[index] + LocaltimeSize
    BY <2>2, <2>3, Sizes
  <2>7. Start[index] + LocaltimeSize \in Nat
    BY <2>5, Sizes
  <2> QED
    BY <2>4, <2>6, <2>7, <1>2
<1>8. TotalInv'
  BY <1>1, <1>2, <1>3, <1>7 DEF TotalInv
<1>9. MapInv'
  BY <1>1, <1>2, <1>3 DEF MapInv
<1>10. AddressInv'
  BY <1>1, <1>2, <1>3 DEF AddressInv
<1> QED
  BY <1>3, <1>5, <1>6, <1>8, <1>9, <1>10 DEF IInv

\* When all lines are read, m2m_dbp_init computes what it should.
LEMMA DbpComputes ==
    ASSUME IInv, pc = "dbp"
    PROVE  [ready     |-> TRUE,
            local     |-> LocalQueues(turn),
            remote    |-> [i \in 1 .. Len(Neighbors) |-> RemoteQueue(Neighbors[i], turn)],
            conflag   |-> [d \in {e \in Device : NODE_TYPE[e] # "ZR"} |-> ConflagStart(d)],
            localtime |-> [d \in Device |-> d * 8],
            data      |-> IF NODE_TYPE[turn] = "ZR" THEN {} ELSE {DataBuffer(turn)},
            size      |-> SHM_SIZE] = RefAddresses(turn)
<1>1. Network /\ TurnInv /\ PlaceInv /\ TotalInv /\ MapInv
  BY DEF IInv
<1>2. Device = 1 .. Len(conf) /\ Len(conf) \in Nat /\ turn \in Device /\ index = Len(conf) + 1
  BY <1>1 DEF Network, Device, TurnInv
<1>3. \A d \in Device : d < index
  BY <1>2
<1>4. \A d \in Device : NODE_TYPE[d] = conf[d].type
  BY <1>1, <1>3 DEF PlaceInv
<1>5. \A d \in Device : Location(d) = Base(d)
  <2>1. \A d \in Device : NODE_SHM_LOCATION[d] = Start[d]
    BY <1>1, <1>3 DEF PlaceInv
  <2> QED
    BY <2>1 DEF Location, Base
<1>6. Neighbors = conf[turn].links
  BY <1>1, <1>2, <1>3 DEF PlaceInv
<1>7. SHM_SIZE = RefSize
  BY <1>1 DEF TotalInv
<1>8. LocalQueues(turn) = RefLocal(turn)
  <2>1. NODE_TYPE[turn] = conf[turn].type /\ Location(turn) = Base(turn)
    BY <1>2, <1>4, <1>5
  <2> QED
    BY <2>1 DEF LocalQueues, RefLocal, Behind
<1>9. \A d \in Device : ConflagStart(d) = RefConflag(d) /\ DataBuffer(d) = RefData(d)
  BY <1>4, <1>5 DEF ConflagStart, RefConflag, DataBuffer, RefData
<1>10. ASSUME NEW i \in 1 .. Len(conf[turn].links)
       PROVE  RemoteQueue(conf[turn].links[i], turn) = RefRemote(conf[turn].links[i], turn)
  <2> DEFINE n == conf[turn].links[i]
  <2>1. n \in Device
    <3>1. conf[turn].links \in Seq(Device)
      BY <1>1, <1>2 DEF Network
    <3> QED
      BY <3>1, ElementOfSeq
  <2>2. n \in Linked(turn)
    BY DEF Linked
  <2>3. n # turn
    BY <2>2, <1>1, <1>2 DEF Network
  <2> HIDE DEF n
  <2>4. NODE_MAP[n] = Linked(n)
    BY <2>1, <2>3, <1>1, <1>3 DEF MapInv
  <2>5. OffsetAt(n, turn) = RefOffset(n, turn)
    BY <2>4 DEF OffsetAt, RefOffset
  <2>6. RemoteQueue(n, turn) = RefRemote(n, turn)
    BY <2>1, <2>5, <1>4, <1>5 DEF RemoteQueue, RefRemote
  <2> QED
    BY <2>6 DEF n
<1>11. [i \in 1 .. Len(Neighbors) |-> RemoteQueue(Neighbors[i], turn)]
       = [i \in 1 .. Len(conf[turn].links) |-> RefRemote(conf[turn].links[i], turn)]
  BY <1>6, <1>10
<1>12. {e \in Device : NODE_TYPE[e] # "ZR"} = {e \in Device : conf[e].type # "ZR"}
  BY <1>4
<1>13. [d \in {e \in Device : NODE_TYPE[e] # "ZR"} |-> ConflagStart(d)]
       = [d \in {e \in Device : conf[e].type # "ZR"} |-> RefConflag(d)]
  BY <1>9, <1>12
<1>14. (IF NODE_TYPE[turn] = "ZR" THEN {} ELSE {DataBuffer(turn)})
       = (IF conf[turn].type = "ZR" THEN {} ELSE {RefData(turn)})
  BY <1>2, <1>4, <1>9
<1> QED
  BY <1>7, <1>8, <1>11, <1>13, <1>14 DEF RefAddresses

\* m2m_dbp_init, and the next device has its turn.
LEMMA DbpInitIInv ==
    ASSUME IInv, DbpInit
    PROVE  IInv'
<1>1. Network /\ TurnInv /\ PlaceInv /\ TotalInv /\ MapInv /\ AddressInv /\ pc = "dbp"
  BY DEF IInv, DbpInit
<1>2. Device = 1 .. Len(conf) /\ Len(conf) \in Nat /\ turn \in Device
  BY <1>1 DEF Network, Device, TurnInv
<1>3. conf' = conf /\ SHM_SIZE' = SHM_SIZE
  BY DEF DbpInit
<1>4. /\ Device' = Device /\ Start' = Start /\ RefSize' = RefSize /\ Network'
      /\ \A d : Linked(d)' = Linked(d)
      /\ \A d : RefAddresses(d)' = RefAddresses(d)
  BY <1>1, <1>3, Frame
<1>5. addresses' = [addresses EXCEPT ![turn] = RefAddresses(turn)]
  BY <1>1, DbpComputes DEF DbpInit
<1>6. addresses = [d \in Device |-> IF d < turn THEN RefAddresses(d) ELSE NoAddresses]
  BY <1>1 DEF AddressInv
<1>7. addresses' = [d \in Device |-> IF d < turn + 1 THEN RefAddresses(d) ELSE NoAddresses]
  <2>1. \A d \in Device : d < turn + 1 <=> (d < turn \/ d = turn)
    BY <1>2
  <2> QED
    BY <2>1, <1>2, <1>5, <1>6
<1>8. CASE turn = Len(conf)
  <2>1. /\ pc' = "done"
        /\ UNCHANGED <<turn, index, shm_location, NODE_SHM_LOCATION, NODE_TYPE, NODE_MAP,
                       TotalNetworkTypeDevice, Neighbors>>
    BY <1>8 DEF DbpInit, fetched
  <2>2. TurnInv'
    BY <2>1, <1>1, <1>3, <1>4, <1>8 DEF TurnInv
  <2>3. PlaceInv' /\ MapInv' /\ TotalInv'
    <3>1. MapInv'
      BY <2>1, <1>1, <1>4 DEF MapInv
    <3>2. TotalInv'
      <4>1. pc' # "dbp"
        BY <2>1
      <4> QED
        BY <4>1, <2>1, <1>1, <1>3, <1>4 DEF TotalInv
    <3>3. PlaceInv'
      <4>1. NODE_TYPE' = [d \in Device' |-> IF d < index' THEN conf'[d].type ELSE ""]
        BY <2>1, <1>1, <1>3, <1>4, Zenon DEF PlaceInv
      <4>2. /\ shm_location' = Start'[index']
            /\ NODE_SHM_LOCATION' = [d \in Device' |-> IF d < index' THEN Start'[d] ELSE 0]
            /\ Neighbors' = IF turn' < index' THEN conf'[turn'].links ELSE << >>
        BY <2>1, <1>1, <1>3, <1>4, Zenon DEF PlaceInv
      <4> QED
        BY <4>1, <4>2, Zenon DEF PlaceInv
    <3> QED
      BY <3>1, <3>2, <3>3
  <2>4. \A d \in Device : d < turn + 1
    BY <1>2, <1>8
  <2>5. AddressInv'
    BY <2>1, <2>4, <1>4, <1>7 DEF AddressInv
  <2> QED
    BY <2>2, <2>3, <2>5, <1>4 DEF IInv
<1>9. CASE turn # Len(conf)
  <2>1. /\ pc' = "fetch" /\ turn' = turn + 1 /\ index' = 1 /\ shm_location' = 0
        /\ NODE_SHM_LOCATION' = [d \in Device |-> 0]
        /\ NODE_MAP' = [d \in Device |-> {}]
        /\ TotalNetworkTypeDevice' = [t \in DOMAIN SizeOf |-> 0]
        /\ Neighbors' = << >>
    BY <1>9 DEF DbpInit, Fresh
  <2>2. NODE_TYPE' = [d \in Device |-> ""]
    BY <1>9 DEF DbpInit, Fresh
  <2>3. TurnInv'
    <3>1. turn' \in Device /\ index' \in 1 .. Len(conf) + 1
      BY <2>1, <1>2, <1>9
    <3> QED
      BY <3>1, <2>1, <1>3, <1>4 DEF TurnInv
  <2>4. \A d \in Device : ~(d < index')
    BY <2>1, <1>2
  <2>5. PlaceInv'
    <3>1. shm_location' = Start[index']
      BY <2>1, <1>1, StartDef
    <3>2. Neighbors' = IF turn' < index' THEN conf[turn'].links ELSE << >>
      <4>1. ~(turn' < index')
        BY <2>1, <1>2
      <4> QED
        BY <4>1, <2>1
    <3>3. NODE_TYPE' = [d \in Device |-> IF d < index' THEN conf[d].type ELSE ""]
      BY <2>2, <2>4
    <3>4. NODE_SHM_LOCATION' = [d \in Device |-> IF d < index' THEN Start[d] ELSE 0]
      BY <2>1, <2>4
    <3> QED
      BY <3>1, <3>2, <3>3, <3>4, <1>3, <1>4 DEF PlaceInv
  <2>6. TotalInv'
    <3>1. TotalNetworkTypeDevice' = [t \in DeviceKind |-> 0]
      <4>1. DOMAIN SizeOf = DeviceKind
        BY Sizes DEF DeviceKind
      <4> QED
        BY <4>1, <2>1
    <3>2. Start[1] = 0 /\ SHM_SIZE' \in Nat
      BY <1>1, <1>3, StartDef DEF TotalInv
    <3> QED
      BY <3>1, <3>2, <2>1, <1>4 DEF TotalInv, DeviceKind
  <2>7. MapInv'
    BY <2>1, <2>4, <1>4 DEF MapInv
  <2>8. AddressInv'
    BY <2>1, <1>4, <1>7 DEF AddressInv
  <2> QED
    BY <2>3, <2>5, <2>6, <2>7, <2>8, <1>4 DEF IInv
<1> QED
  BY <1>8, <1>9

\* Every step keeps the invariant.
LEMMA NextIInv ==
    ASSUME IInv, [Next]_vars
    PROVE  IInv'
<1>1. CASE FetchLine
  BY <1>1, FetchLineIInv
<1>2. CASE MmInit
  BY <1>2, MmInitIInv
<1>3. CASE DbpInit
  BY <1>3, DbpInitIInv
<1>4. CASE UNCHANGED vars
  <2>1. /\ UNCHANGED <<conf, turn, pc, SHM_SIZE, addresses>>
        /\ UNCHANGED <<index, shm_location, NODE_SHM_LOCATION, NODE_TYPE, NODE_MAP,
                       TotalNetworkTypeDevice, Neighbors>>
    BY <1>4 DEF vars, fetched
  <2>2. Network /\ TurnInv /\ PlaceInv /\ TotalInv /\ MapInv /\ AddressInv
    BY DEF IInv
  <2>3. /\ Device' = Device /\ Start' = Start /\ RefSize' = RefSize /\ Network'
        /\ \A d : Linked(d)' = Linked(d)
        /\ \A d : RefAddresses(d)' = RefAddresses(d)
    BY <2>1, <2>2, Frame
  <2>4. TurnInv' /\ TotalInv'
    BY <2>1, <2>2, <2>3 DEF TurnInv, TotalInv
  <2>5. MapInv' /\ AddressInv'
    BY <2>1, <2>2, <2>3 DEF MapInv, AddressInv
  <2>6. PlaceInv'
    BY <2>1, <2>2, <2>3, Zenon DEF PlaceInv
  <2> QED
    BY <2>3, <2>4, <2>5, <2>6 DEF IInv
<1> QED
  BY <1>1, <1>2, <1>3, <1>4 DEF Next

\* The invariant holds in every state.
LEMMA Invariant == Spec => []IInv
<1>1. Init => IInv
  BY InitIInv
<1>2. IInv /\ [Next]_vars => IInv'
  BY NextIInv
<1> QED
  BY <1>1, <1>2, PTL DEF Spec
-----------------------------------------------------------------------------
(* The theorems. *)

\* Every variable has its type, in every network that fits the segment: the
\* counters of m2m_topology.c stay within the number of devices and a
\* neighbour list within the arrays of addresses of m2m_dbp.c.
THEOREM TypeCorrect == Spec => []TypeOK
<1>1. IInv => TypeOK
  <2> SUFFICES ASSUME IInv PROVE TypeOK
    OBVIOUS
  <2>1. Network /\ TurnInv /\ PlaceInv /\ TotalInv /\ MapInv /\ AddressInv
    BY DEF IInv
  <2>2. Device = 1 .. Len(conf) /\ Len(conf) \in Nat
    BY <2>1 DEF Network, Device
  <2>3. DOMAIN SizeOf = DeviceKind
    BY Sizes DEF DeviceKind
  <2>4. conf \in Seq([type : DOMAIN SizeOf, links : Seq(Nat)])
    BY <2>1, <2>3 DEF Network, Line
  <2>5. turn \in Device /\ pc \in {"fetch", "dbp", "done"} /\ index \in 1 .. Len(conf) + 1
    BY <2>1 DEF TurnInv
  <2>6. \A d \in Device : d \in 1 .. Len(conf) + 1 /\ Start[d] \in Nat
    BY <2>1, <2>2, StartType
  <2>7. shm_location \in Nat /\ NODE_SHM_LOCATION \in [Device -> Nat]
    <3>1. shm_location = Start[index]
      BY <2>1 DEF PlaceInv
    <3>2. NODE_SHM_LOCATION = [d \in Device |-> IF d < index THEN Start[d] ELSE 0]
      BY <2>1 DEF PlaceInv
    <3> QED
      BY <3>1, <3>2, <2>1, <2>5, <2>6, StartType
  <2>8. NODE_TYPE \in [Device -> {""} \cup DOMAIN SizeOf]
    <3>1. NODE_TYPE = [d \in Device |-> IF d < index THEN conf[d].type ELSE ""]
      BY <2>1 DEF PlaceInv
    <3>2. \A d \in Device : conf[d].type \in DOMAIN SizeOf
      BY <2>1, <2>3, SizeAtFacts
    <3> QED
      BY <3>1, <3>2, Zenon
  <2>9. NODE_MAP \in [Device -> SUBSET Device]
    BY <2>1 DEF MapInv
  <2>10. TotalNetworkTypeDevice \in [DOMAIN SizeOf -> 0 .. Len(conf)] /\ SHM_SIZE \in Nat
    <3>1. TotalNetworkTypeDevice \in [DeviceKind -> 0 .. index - 1] /\ SHM_SIZE \in Nat
      BY <2>1 DEF TotalInv
    <3>2. \A k \in 0 .. index - 1 : k \in 0 .. Len(conf)
      BY <2>2, <2>5
    <3> QED
      BY <3>1, <3>2, <2>3
  <2>11. Neighbors \in Seq(Device) /\ Len(Neighbors) <= NODE_MAX_LINKS
    <3>1. Neighbors = IF turn < index THEN conf[turn].links ELSE << >>
      BY <2>1 DEF PlaceInv
    <3>2. conf[turn].links \in Seq(Device) /\ Len(conf[turn].links) \in 1 .. NODE_MAX_LINKS
      BY <2>1, <2>5 DEF Network
    <3>3. NODE_MAX_LINKS = 8
      BY Sizes
    <3>4. Neighbors \in Seq(Device)
      BY <3>1, <3>2
    <3>5. Len(Neighbors) <= NODE_MAX_LINKS
      <4>1. CASE turn < index
        <5>1. Neighbors = conf[turn].links
          BY <3>1, <4>1
        <5>2. Len(conf[turn].links) \in 1 .. NODE_MAX_LINKS
          BY <3>2
        <5>3. Len(Neighbors) = Len(conf[turn].links)
          BY <5>1
        <5>4. \A k \in 1 .. NODE_MAX_LINKS : k <= NODE_MAX_LINKS
          BY <3>3
        <5> QED
          BY <5>2, <5>3, <5>4, Zenon
      <4>2. CASE ~(turn < index)
        <5>1. Neighbors = << >>
          BY <3>1, <4>2
        <5> QED
          BY <5>1, <3>3
      <4> QED
        BY <4>1, <4>2
    <3> QED
      BY <3>4, <3>5
  <2>12. DOMAIN addresses = Device
    BY <2>1 DEF AddressInv
  <2> QED
    BY <2>4, <2>5, <2>7, <2>8, <2>9, <2>10, <2>11, <2>12, Zenon DEF TypeOK
<1> QED
  BY <1>1, Invariant, PTL

\* A device that is ready has computed what it should.
LEMMA ReadyFacts ==
    ASSUME IInv, NEW d \in Ready
    PROVE  d \in Device /\ addresses[d] = RefAddresses(d)
<1>1. d \in Device /\ addresses[d].ready
  BY DEF Ready
<1>2. addresses[d] \in {RefAddresses(d), NoAddresses}
  BY <1>1 DEF IInv, AddressInv
<1>3. NoAddresses.ready = FALSE
  BY DEF NoAddresses
<1> QED
  BY <1>1, <1>2, <1>3

QueueAt(q, buffer, meta) == q = [buffer |-> buffer, meta |-> meta]

\* Link queues lie together and their metadata behind them.
LEMMA LinkQueueAt ==
    ASSUME NEW b \in Nat, NEW k \in Nat, NEW i \in 1 .. k,
           NEW f, f = b + (i - 1) * 512,
           NEW g, g = (b + k * 512) + (i - 1) * 32
    PROVE  QueueAt(LinkQueues(b, k)[i], f, g)
<1>1. HEADER_QUEUE_SIZE = 512 /\ HEADER_QUEUE_METADATA_SIZE = 32
  BY Sizes
<1> QED
  BY <1>1 DEF LinkQueues, QueueAt

\* They are a sequence.
LEMMA LinkQueueSeq ==
    ASSUME NEW b \in Nat, NEW k \in Nat
    PROVE  /\ DOMAIN LinkQueues(b, k) = 1 .. k /\ Len(LinkQueues(b, k)) = k
           /\ LinkQueues(b, k) \in Seq([buffer : Int, meta : Int])
<1>1. HEADER_QUEUE_SIZE = 512 /\ HEADER_QUEUE_METADATA_SIZE = 32
  BY Sizes
<1>2. LinkQueues(b, k) \in [1 .. k -> [buffer : Int, meta : Int]]
  BY <1>1 DEF LinkQueues
<1> QED
  BY <1>2, FunctionIsSeq

\* The space of a device lies behind the local times.
LEMMA BaseFacts ==
    ASSUME Network, NEW n \in Device
    PROVE  Base(n) \in Nat /\ Base(n) >= 800 /\ Base(n) = Start[n] + 800 /\ Start[n] \in Nat
<1>1. Len(conf) \in Nat /\ n \in 1 .. Len(conf)
  BY DEF Network, Device
<1>2. n \in 1 .. Len(conf) + 1
  BY <1>1
<1>3. Start[n] \in Nat
  BY <1>2, StartType
<1>4. LocaltimeSize = 800
  BY Sizes
<1> QED
  BY <1>3, <1>4 DEF Base

\* The queue of an end device.
LEMMA EndDeviceQueue ==
    ASSUME Network, NEW n \in Device, conf[n].type = "ZED"
    PROVE  DOMAIN RefLocal(n) = {1} /\ QueueAt(RefLocal(n)[1], Base(n), Base(n) + 512)
<1>1. RefLocal(n) = LinkQueues(Base(n), 1)
  BY DEF RefLocal
<1>2. Base(n) \in Nat
  BY BaseFacts
<1>3. DOMAIN LinkQueues(Base(n), 1) = 1 .. 1
  BY <1>2, LinkQueueSeq
<1>4. HEADER_QUEUE_SIZE = 512 /\ HEADER_QUEUE_METADATA_SIZE = 32
  BY Sizes
<1>5. QueueAt(LinkQueues(Base(n), 1)[1], Base(n), Base(n) + 512)
  BY <1>2, <1>4 DEF LinkQueues, QueueAt
<1>6. 1 .. 1 = {1}
  OBVIOUS
<1> QED
  BY <1>1, <1>3, <1>5, <1>6

\* The link queues of the others.
LEMMA LinkQueue ==
    ASSUME Network, NEW n \in Device, conf[n].type # "ZED", NEW i \in 1 .. 8
    PROVE  RefLocal(n)[i] = LinkQueues(Base(n), 8)[i]
<1> DEFINE s == LinkQueues(Base(n), 8)
           b == Behind(n)
           t == LinkQueues(b, 2)
<1>1. Base(n) \in Nat
  BY BaseFacts
<1>4. NODE_MAX_LINKS = 8
  BY Sizes
<1>5. CASE conf[n].type = "ZR"
  <2>1. RefLocal(n) = s
    BY <1>4, <1>5 DEF RefLocal
  <2> QED
    BY <2>1
<1>6. CASE conf[n].type = "ZC"
  <2>1. RefLocal(n) = s \o t
    BY <1>4, <1>6 DEF RefLocal
  <2>2. b \in Nat
    BY <1>1, Sizes DEF Behind
  <2> HIDE DEF b
  <2> DEFINE Q == [buffer : Int, meta : Int]
  <2>3. Len(s) = 8 /\ s \in Seq(Q)
    BY <1>1, LinkQueueSeq
  <2>4. Len(t) = 2 /\ t \in Seq(Q)
    BY <2>2, LinkQueueSeq
  <2> HIDE DEF s, t, Q
  <2>5. (s \o t)[i] = s[i]
    <3>1. Len(s) = 8 /\ Len(t) = 2
      BY <2>3, <2>4
    <3>2. i <= 8 /\ i \in 1 .. 8 + 2
      OBVIOUS
    <3> QED
      BY <2>3, <2>4, <3>1, <3>2, ConcatProperties
  <2>6. RefLocal(n)[i] = s[i]
    BY <2>1, <2>5
  <2> QED
    BY <2>6 DEF s
<1> QED
  BY <1>5, <1>6, SizeAtFacts DEF DeviceKind

\* A router has no others.
LEMMA RouterQueues ==
    ASSUME Network, NEW n \in Device, conf[n].type = "ZR"
    PROVE  DOMAIN RefLocal(n) = 1 .. 8
<1>1. RefLocal(n) = LinkQueues(Base(n), 8)
  BY Sizes DEF RefLocal
<1>2. Base(n) \in Nat
  BY BaseFacts
<1>3. DOMAIN LinkQueues(Base(n), 8) = 1 .. 8
  BY <1>2, LinkQueueSeq
<1> QED
  BY <1>1, <1>3

\* The two queues of a coordinator behind its buffers.
LEMMA CoordinatorQueues ==
    ASSUME Network, NEW n \in Device, conf[n].type = "ZC"
    PROVE  /\ DOMAIN RefLocal(n) = 1 .. 10
           /\ QueueAt(RefLocal(n)[9], Base(n) + 20784, Base(n) + 21808)
           /\ QueueAt(RefLocal(n)[10], Base(n) + 21296, Base(n) + 21840)
<1> DEFINE s == LinkQueues(Base(n), 8)
           b == Behind(n)
           t == LinkQueues(b, 2)
<1>1. Base(n) \in Nat
  BY BaseFacts
<1>2. RefLocal(n) = s \o t
  BY Sizes DEF RefLocal
<1>3. b \in Nat /\ b = Base(n) + 20784
  BY <1>1, Sizes DEF Behind
<1> HIDE DEF b
<1> DEFINE Q == [buffer : Int, meta : Int]
<1>4. Len(s) = 8 /\ s \in Seq(Q)
  BY <1>1, LinkQueueSeq
<1>5. Len(t) = 2 /\ t \in Seq(Q)
  <2>1. b \in Nat
    BY <1>3
  <2> QED
    BY <2>1, LinkQueueSeq
<1>6. /\ Base(n) + 20784 = b + (1 - 1) * 512 /\ Base(n) + 21808 = (b + 2 * 512) + (1 - 1) * 32
      /\ Base(n) + 21296 = b + (2 - 1) * 512 /\ Base(n) + 21840 = (b + 2 * 512) + (2 - 1) * 32
  BY <1>1, <1>3
<1>7. /\ QueueAt(t[1], Base(n) + 20784, Base(n) + 21808)
      /\ QueueAt(t[2], Base(n) + 21296, Base(n) + 21840)
  <2>1. QueueAt(t[1], Base(n) + 20784, Base(n) + 21808)
    BY <1>3, <1>6, LinkQueueAt
  <2>2. QueueAt(t[2], Base(n) + 21296, Base(n) + 21840)
    BY <1>3, <1>6, LinkQueueAt
  <2> QED
    BY <2>1, <2>2
<1> HIDE DEF s, t, Q
<1>8. s \in Seq(Q) /\ t \in Seq(Q)
  BY <1>4, <1>5
<1>9. Len(s) = 8 /\ Len(t) = 2
  BY <1>4, <1>5
<1>10. Len(s \o t) = 10 /\ s \o t \in Seq(Q)
  <2>1. Len(s \o t) = Len(s) + Len(t) /\ s \o t \in Seq(Q)
    BY <1>8, ConcatProperties
  <2> QED
    BY <2>1, <1>9
<1>11. DOMAIN RefLocal(n) = 1 .. 10
  <2>1. DOMAIN (s \o t) = 1 .. Len(s \o t)
    BY <1>10
  <2> QED
    BY <2>1, <1>2, <1>10
<1>12. (s \o t)[9] = t[1] /\ (s \o t)[10] = t[2]
  <2>1. \A i \in 1 .. Len(s) + Len(t) :
            (s \o t)[i] = IF i <= Len(s) THEN s[i] ELSE t[i - Len(s)]
    BY <1>8, ConcatProperties
  <2>2. /\ 9 \in 1 .. Len(s) + Len(t) /\ 10 \in 1 .. Len(s) + Len(t)
        /\ ~(9 <= Len(s)) /\ ~(10 <= Len(s)) /\ 9 - Len(s) = 1 /\ 10 - Len(s) = 2
    BY <1>9
  <2> QED
    BY <2>1, <2>2, Zenon
<1> QED
  BY <1>2, <1>7, <1>11, <1>12

\* What a device writes as its neighbour's queue is the queue that the
\* neighbour reads for it (m2m_dbp_init, dbp.c:103-108 and 172-196): for every
\* network, whatever the order in which the devices come.  The neighbour
\* numbers its queues by its neighbour list; the device counts in its map the
\* neighbours of the neighbour that come before itself, and that map lacks
\* only its own line.
THEOREM LinkEndsAgree == Spec => []EndsAgree
<1>1. IInv => EndsAgree
  <2> SUFFICES ASSUME IInv, NEW d \in Ready, NEW n \in Ready,
                      NEW i \in DOMAIN addresses[d].remote, conf[d].links[i] = n
               PROVE  \E j \in 1 .. Len(conf[n].links) :
                          /\ conf[n].links[j] = d
                          /\ addresses[d].remote[i] = addresses[n].local[j]
    BY DEF EndsAgree
  <2>1. Network
    BY DEF IInv
  <2>2. d \in Device /\ n \in Device /\ addresses[d] = RefAddresses(d)
        /\ addresses[n] = RefAddresses(n)
    BY ReadyFacts
  <2>3. addresses[d].remote = [k \in 1 .. Len(conf[d].links) |-> RefRemote(conf[d].links[k], d)]
        /\ addresses[n].local = RefLocal(n)
    BY <2>2 DEF RefAddresses
  <2>4. i \in 1 .. Len(conf[d].links) /\ addresses[d].remote[i] = RefRemote(n, d)
    BY <2>3
  <2>5. n \in Linked(d)
    BY <2>4 DEF Linked
  <2>6. d \in Linked(n)
    BY <2>1, <2>2, <2>5 DEF Network
  <2>7. PICK j \in 1 .. Len(conf[n].links) : conf[n].links[j] = d
    BY <2>6 DEF Linked
  <2>8. /\ conf[n].links \in Seq(Nat) /\ Ascending(conf[n].links)
        /\ Len(conf[n].links) \in 1 .. 8
        /\ conf[n].type = "ZED" => Len(conf[n].links) = 1
    <3>1. /\ conf[n].links \in Seq(Device) /\ Ascending(conf[n].links)
          /\ Len(conf[n].links) \in 1 .. NODE_MAX_LINKS
          /\ conf[n].type = "ZED" => Len(conf[n].links) = 1
      BY <2>1, <2>2 DEF Network
    <3>2. Device \subseteq Nat
      BY <2>1 DEF Network, Device
    <3>3. conf[n].links \in Seq(Nat)
      BY <3>1, <3>2, SeqMonotonic
    <3>4. NODE_MAX_LINKS = 8
      BY Sizes
    <3>5. Len(conf[n].links) \in 1 .. 8
      BY <3>1, <3>4
    <3> QED
      BY <3>1, <3>3, <3>5
  <2>9. j \in 1 .. 8
    <3>1. Len(conf[n].links) \in 1 .. 8
      BY <2>8
    <3>2. \A m \in 1 .. 8 : \A x \in 1 .. m : x \in 1 .. 8
      OBVIOUS
    <3> QED
      BY <2>7, <3>1, <3>2, Zenon
  <2>10. RefRemote(n, d) = RefLocal(n)[j]
    <3>1. CASE conf[n].type = "ZED"
      <4>1. j = 1
        BY <3>1, <2>7, <2>8
      <4>2. RefRemote(n, d) = [buffer |-> Base(n), meta |-> Base(n) + 512]
        BY <3>1, Sizes DEF RefRemote
      <4>3. RefLocal(n)[1] = [buffer |-> Base(n), meta |-> Base(n) + 512]
        BY <3>1, <2>1, <2>2, EndDeviceQueue DEF QueueAt
      <4> QED
        BY <4>1, <4>2, <4>3
    <3>2. CASE conf[n].type # "ZED"
      <4>1. RefOffset(n, d) = j - 1
        BY <2>7, <2>8, Rank DEF RefOffset, Linked
      <4>2. RefRemote(n, d) = [buffer |-> Base(n) + 512 * (j - 1),
                               meta   |-> Base(n) + 512 * 8 + 32 * (j - 1)]
        BY <3>2, <4>1, Sizes DEF RefRemote
      <4>3. RefLocal(n)[j] = [buffer |-> Base(n) + (j - 1) * 512,
                              meta   |-> (Base(n) + 4096) + (j - 1) * 32]
        <5>1. RefLocal(n)[j] = LinkQueues(Base(n), 8)[j]
          BY <3>2, <2>1, <2>2, <2>9, LinkQueue
        <5>2. HEADER_QUEUE_SIZE = 512 /\ HEADER_QUEUE_METADATA_SIZE = 32 /\ Base(n) \in Nat
          BY <2>1, <2>2, Sizes, BaseFacts
        <5> QED
          BY <5>1, <5>2, <2>9 DEF LinkQueues
      <4>5. Base(n) \in Nat
        BY <2>1, <2>2, BaseFacts
      <4>4. /\ Base(n) + 512 * (j - 1) = Base(n) + (j - 1) * 512
            /\ Base(n) + 512 * 8 + 32 * (j - 1) = (Base(n) + 4096) + (j - 1) * 32
        BY <4>5, <2>9
      <4> QED
        BY <4>2, <4>3, <4>4
    <3> QED
      BY <3>1, <3>2
  <2> QED
    BY <2>3, <2>4, <2>7, <2>10
<1> QED
  BY <1>1, Invariant, PTL
-----------------------------------------------------------------------------
(* The parts of the segment. *)

\* The bytes from f to g of the space of an end device, a router or a
\* coordinator serve one purpose.
EndDevicePart(f, g) ==
    \/ f = 0 /\ g = 512
    \/ f = 512 /\ g = 544
    \/ f = 544 /\ g = 544 + FlagSize
    \/ f = 556 /\ g = 16988

LinkPart(f, g) ==
    \E i \in 0 .. 7 : \/ f = i * 512 /\ g = f + 512
                      \/ f = 4096 + i * 32 /\ g = f + 32

CoordinatorPart(f, g) ==
    \/ LinkPart(f, g)
    \/ f = 4352 /\ g = 20784
    \/ f = 20784 /\ g = 21296
    \/ f = 21296 /\ g = 21808
    \/ f = 21808 /\ g = 21840
    \/ f = 21840 /\ g = 21872
    \/ f = 21872 /\ g = 21872 + FlagSize

Part(t, f, g) == /\ f \in Nat /\ g \in Nat
                 /\ t = "ZED" => EndDevicePart(f, g)
                 /\ t = "ZR" => LinkPart(f, g)
                 /\ t = "ZC" => CoordinatorPart(f, g)

\* The link queues and their metadata take the first 4352 bytes.
LEMMA LinkPartFits ==
    ASSUME NEW f \in Nat, NEW g \in Nat, LinkPart(f, g)
    PROVE  f <= g /\ g <= 4352
  BY DEF LinkPart

\* No two of them share a byte.
LEMMA LinkPartsDisjoint ==
    ASSUME NEW f \in Nat, NEW g \in Nat, LinkPart(f, g),
           NEW h \in Nat, NEW k \in Nat, LinkPart(h, k)
    PROVE  (f = h /\ g = k) \/ g <= h \/ k <= f
<1>1. PICK i \in 0 .. 7 : \/ f = i * 512 /\ g = f + 512
                          \/ f = 4096 + i * 32 /\ g = f + 32
  BY DEF LinkPart
<1>2. PICK j \in 0 .. 7 : \/ h = j * 512 /\ k = h + 512
                          \/ h = 4096 + j * 32 /\ k = h + 32
  BY DEF LinkPart
<1>3. i = j \/ i + 1 <= j \/ j + 1 <= i
  OBVIOUS
<1> QED
  BY <1>1, <1>2, <1>3

\* A part lies in the space of its device.
LEMMA PartFits ==
    ASSUME FlagSize <= 12, NEW t \in DeviceKind, NEW f, NEW g, Part(t, f, g)
    PROVE  f \in Nat /\ g \in Nat /\ f <= g /\ g <= SizeOf[t]
<1>1. f \in Nat /\ g \in Nat /\ FlagSize \in Nat
  BY LayoutAssumption DEF Part
<1>2. CASE t = "ZED"
  <2>1. EndDevicePart(f, g) /\ SizeOf[t] = 16988
    BY <1>2, Sizes DEF Part
  <2> QED
    BY <2>1, <1>1 DEF EndDevicePart
<1>3. CASE t = "ZR"
  <2>1. LinkPart(f, g) /\ SizeOf[t] = 4352
    BY <1>3, Sizes DEF Part
  <2> QED
    BY <2>1, <1>1, LinkPartFits
<1>4. CASE t = "ZC"
  <2>1. CoordinatorPart(f, g) /\ SizeOf[t] = 21884
    BY <1>4, Sizes DEF Part
  <2>2. LinkPart(f, g) => f <= g /\ g <= 4352
    BY <1>1, LinkPartFits
  <2> QED
    BY <2>1, <2>2, <1>1 DEF CoordinatorPart
<1> QED
  BY <1>2, <1>3, <1>4 DEF DeviceKind

\* Two parts of one space have no byte in common.
LEMMA PartsDisjoint ==
    ASSUME FlagSize <= 12, NEW t \in DeviceKind,
           NEW f, NEW g, Part(t, f, g), NEW h, NEW k, Part(t, h, k)
    PROVE  (f = h /\ g = k) \/ g <= h \/ k <= f
<1>1. f \in Nat /\ g \in Nat /\ h \in Nat /\ k \in Nat /\ FlagSize \in Nat
  BY LayoutAssumption DEF Part
<1>2. CASE t = "ZED"
  <2>1. EndDevicePart(f, g) /\ EndDevicePart(h, k)
    BY <1>2 DEF Part
  <2> QED
    BY <2>1, <1>1 DEF EndDevicePart
<1>3. CASE t = "ZR"
  <2>1. LinkPart(f, g) /\ LinkPart(h, k)
    BY <1>3 DEF Part
  <2> QED
    BY <2>1, <1>1, LinkPartsDisjoint
<1>4. CASE t = "ZC"
  <2>1. CoordinatorPart(f, g) /\ CoordinatorPart(h, k)
    BY <1>4 DEF Part
  <2>2. /\ LinkPart(f, g) => g <= 4352
        /\ LinkPart(h, k) => k <= 4352
        /\ LinkPart(f, g) /\ LinkPart(h, k) => (f = h /\ g = k) \/ g <= h \/ k <= f
    BY <1>1, LinkPartFits, LinkPartsDisjoint
  <2> QED
    BY <2>1, <2>2, <1>1 DEF CoordinatorPart
<1> QED
  BY <1>2, <1>3, <1>4 DEF DeviceKind

\* A region is the place of a local time (or of action_probe) or a part of the
\* space of a device.
IsSlot(r) == \E e \in 0 .. 99 : r = [from |-> 8 * e, to |-> 8 * e + 8]

Inside(e, r) == \E f, g : /\ Part(conf[e].type, f, g)
                          /\ r = [from |-> Base(e) + f, to |-> Base(e) + g]

\* A part, as the region it is in the segment.
LEMMA PartInside ==
    ASSUME Network, NEW e \in Device, NEW f \in Nat, NEW g \in Nat, Part(conf[e].type, f, g),
           NEW b, b = Base(e) + f, NEW c, c = Base(e) + g
    PROVE  Inside(e, [from |-> b, to |-> c])
  BY DEF Inside

QueueIsInside(n, q) == /\ Inside(n, [from |-> q.buffer, to |-> q.buffer + 512])
                       /\ Inside(n, [from |-> q.meta, to |-> q.meta + 32])

\* A queue whose buffer and metadata are parts.
LEMMA QueueInside ==
    ASSUME Network, NEW n \in Device, NEW q, NEW f \in Nat, NEW g \in Nat,
           NEW b, b = Base(n) + f, NEW c, c = Base(n) + g,
           QueueAt(q, b, c),
           Part(conf[n].type, f, f + 512), Part(conf[n].type, g, g + 32)
    PROVE  QueueIsInside(n, q)
<1>1. q.buffer = b /\ q.meta = c
  BY DEF QueueAt
<1>2. Base(n) \in Nat
  BY BaseFacts
<1>3. f + 512 \in Nat /\ g + 32 \in Nat
  OBVIOUS
<1>4. b + 512 = Base(n) + (f + 512) /\ c + 32 = Base(n) + (g + 32)
  BY <1>2
<1>5. Inside(n, [from |-> b, to |-> b + 512])
  BY <1>3, <1>4, PartInside
<1>6. Inside(n, [from |-> c, to |-> c + 32])
  BY <1>3, <1>4, PartInside
<1> QED
  BY <1>1, <1>5, <1>6 DEF QueueIsInside

\* Every queue of a device lies in its space.
LEMMA LocalInside ==
    ASSUME Network, NEW n \in Device, NEW i \in DOMAIN RefLocal(n)
    PROVE  QueueIsInside(n, RefLocal(n)[i])
<1> DEFINE q == RefLocal(n)[i]
<1>1. Base(n) \in Nat
  BY BaseFacts
<1>2. CASE conf[n].type = "ZED"
  <2> DEFINE f == 0
             g == 512
             b == Base(n) + f
             c == Base(n) + g
  <2>1. QueueAt(q, b, c)
    <3>1. QueueAt(q, Base(n), Base(n) + 512)
      BY <1>2, EndDeviceQueue
    <3>2. Base(n) + 0 = Base(n)
      BY <1>1
    <3> QED
      BY <3>1, <3>2
  <2>2. Part(conf[n].type, f, f + 512) /\ Part(conf[n].type, g, g + 32)
    BY <1>2 DEF Part, EndDevicePart
  <2>3. f \in Nat /\ g \in Nat /\ b = Base(n) + f /\ c = Base(n) + g
    OBVIOUS
  <2> HIDE DEF b, c, f, g
  <2> QED
    BY <2>1, <2>2, <2>3, QueueInside
<1>3. ASSUME conf[n].type # "ZED", i \in 1 .. 8
      PROVE  QueueIsInside(n, q)
  <2> DEFINE f == (i - 1) * 512
             g == 4096 + (i - 1) * 32
             b == Base(n) + f
             c == Base(n) + g
  <2>1. HEADER_QUEUE_SIZE = 512 /\ HEADER_QUEUE_METADATA_SIZE = 32
    BY Sizes
  <2>2. q = LinkQueues(Base(n), 8)[i]
    BY <1>3, LinkQueue
  <2>3. QueueAt(q, b, c)
    BY <2>1, <2>2, <1>1, <1>3 DEF LinkQueues, QueueAt
  <2>4. f \in Nat /\ g \in Nat
    BY <1>3
  <2>5. LinkPart(f, f + 512) /\ LinkPart(g, g + 32)
    <3>1. i - 1 \in 0 .. 7
      BY <1>3
    <3> QED
      BY <3>1 DEF LinkPart
  <2>6. b = Base(n) + f /\ c = Base(n) + g
    OBVIOUS
  <2> HIDE DEF b, c, f, g
  <2>7. f + 512 \in Nat /\ g + 32 \in Nat
    BY <2>4
  <2>8. Part(conf[n].type, f, f + 512) /\ Part(conf[n].type, g, g + 32)
    BY <2>4, <2>5, <2>7, <1>3 DEF Part, CoordinatorPart
  <2> QED
    BY <2>3, <2>4, <2>6, <2>8, QueueInside
<1>4. CASE conf[n].type = "ZR"
  <2>1. i \in 1 .. 8
    BY <1>4, RouterQueues
  <2> QED
    BY <2>1, <1>3, <1>4
<1>5. CASE conf[n].type = "ZC"
  <2>1. i \in 1 .. 10
    BY <1>5, CoordinatorQueues
  <2>2. CASE i \in 1 .. 8
    BY <2>2, <1>3, <1>5
  <2>3. CASE i = 9
    <3> DEFINE f == 20784
               g == 21808
               b == Base(n) + f
               c == Base(n) + g
    <3>1. QueueAt(q, b, c)
      BY <1>5, <2>3, CoordinatorQueues
    <3>2. Part(conf[n].type, f, f + 512) /\ Part(conf[n].type, g, g + 32)
      BY <1>5 DEF Part, CoordinatorPart
    <3>3. f \in Nat /\ g \in Nat /\ b = Base(n) + f /\ c = Base(n) + g
      OBVIOUS
    <3> HIDE DEF b, c, f, g
    <3> QED
      BY <3>1, <3>2, <3>3, QueueInside
  <2>4. CASE i = 10
    <3> DEFINE f == 21296
               g == 21840
               b == Base(n) + f
               c == Base(n) + g
    <3>1. QueueAt(q, b, c)
      BY <1>5, <2>4, CoordinatorQueues
    <3>2. Part(conf[n].type, f, f + 512) /\ Part(conf[n].type, g, g + 32)
      BY <1>5 DEF Part, CoordinatorPart
    <3>3. f \in Nat /\ g \in Nat /\ b = Base(n) + f /\ c = Base(n) + g
      OBVIOUS
    <3> HIDE DEF b, c, f, g
    <3> QED
      BY <3>1, <3>2, <3>3, QueueInside
  <2>5. i \in 1 .. 8 \/ i = 9 \/ i = 10
    BY <2>1
  <2> QED
    BY <2>2, <2>3, <2>4, <2>5
<1> QED
  BY <1>2, <1>4, <1>5, SizeAtFacts DEF DeviceKind

\* The control flag of a device lies in its space too.
LEMMA ConflagInside ==
    ASSUME Network, NEW e \in Device, conf[e].type # "ZR"
    PROVE  Inside(e, [from |-> RefConflag(e), to |-> RefConflag(e) + FlagSize])
<1>1. Base(e) \in Nat /\ FlagSize \in Nat
  BY BaseFacts, LayoutAssumption
<1>2. TOTAL_HEADER_QUEUE_SIZE = 544 /\ NODE_MAX_LINKS = 8 /\ TOTAL_DATA_BUFFER_SIZE = 16432
  BY Sizes
<1> DEFINE b == RefConflag(e)
           c == RefConflag(e) + FlagSize
<1>3. ASSUME NEW f \in Nat, NEW g \in Nat, Part(conf[e].type, f, g),
             b = Base(e) + f, c = Base(e) + g
      PROVE  Inside(e, [from |-> b, to |-> c])
  <2> HIDE DEF b, c
  <2> QED
    BY <1>3, PartInside
<1>4. CASE conf[e].type = "ZED"
  <2>1. b = Base(e) + 544 /\ c = Base(e) + (544 + FlagSize)
    BY <1>1, <1>2, <1>4 DEF RefConflag
  <2>2. 544 + FlagSize \in Nat
    BY <1>1
  <2>3. Part(conf[e].type, 544, 544 + FlagSize)
    BY <1>4, <2>2 DEF Part, EndDevicePart
  <2> HIDE DEF b, c
  <2> DEFINE f == 544
             g == 544 + FlagSize
  <2>4. f \in Nat /\ g \in Nat /\ Part(conf[e].type, f, g) /\ b = Base(e) + f /\ c = Base(e) + g
    BY <2>1, <2>2, <2>3
  <2> HIDE DEF f, g
  <2>5. Inside(e, [from |-> b, to |-> c])
    BY <2>4, <1>3
  <2> QED
    BY <2>5 DEF b, c
<1>5. CASE conf[e].type = "ZC"
  <2>1. b = Base(e) + 21872 /\ c = Base(e) + (21872 + FlagSize)
    BY <1>1, <1>2, <1>5 DEF RefConflag
  <2>2. 21872 + FlagSize \in Nat
    BY <1>1
  <2>3. Part(conf[e].type, 21872, 21872 + FlagSize)
    BY <1>5, <2>2 DEF Part, CoordinatorPart
  <2> HIDE DEF b, c
  <2> DEFINE f == 21872
             g == 21872 + FlagSize
  <2>4. f \in Nat /\ g \in Nat /\ Part(conf[e].type, f, g) /\ b = Base(e) + f /\ c = Base(e) + g
    BY <2>1, <2>2, <2>3
  <2> HIDE DEF f, g
  <2>5. Inside(e, [from |-> b, to |-> c])
    BY <2>4, <1>3
  <2> QED
    BY <2>5 DEF b, c
<1> QED
  BY <1>4, <1>5, SizeAtFacts DEF DeviceKind

\* So does its data buffer.
LEMMA DataInside ==
    ASSUME Network, NEW e \in Device, conf[e].type # "ZR"
    PROVE  Inside(e, [from |-> RefData(e), to |-> RefData(e) + 16432])
<1>1. Base(e) \in Nat
  BY BaseFacts
<1>2. TOTAL_HEADER_QUEUE_SIZE = 544 /\ NODE_MAX_LINKS = 8 /\ HEADER_QUEUE_CONTRLFLAG = 12
  BY Sizes
<1> DEFINE b == RefData(e)
           c == RefData(e) + 16432
           f == IF conf[e].type = "ZED" THEN 556 ELSE 4352
           g == f + 16432
<1>3. f \in Nat /\ g \in Nat
  OBVIOUS
<1>4. b = Base(e) + f
  BY <1>1, <1>2 DEF RefData
<1>5. c = Base(e) + g
  <2> HIDE DEF f
  <2> QED
    BY <1>1, <1>3, <1>4
<1>6. Part(conf[e].type, f, g)
  <2>1. CASE conf[e].type = "ZED"
    BY <2>1 DEF Part, EndDevicePart
  <2>2. CASE conf[e].type = "ZC"
    BY <2>2 DEF Part, CoordinatorPart
  <2> QED
    BY <2>1, <2>2, SizeAtFacts DEF DeviceKind
<1> HIDE DEF b, c, f, g
<1>7. Inside(e, [from |-> b, to |-> c])
  BY <1>3, <1>4, <1>5, <1>6, PartInside
<1> QED
  BY <1>7 DEF b, c

\* Every region that a device names is of one of the two kinds.
LEMMA RegionKinds ==
    ASSUME IInv, NEW d \in Ready, NEW r \in Regions(d)
    PROVE  IsSlot(r) \/ \E e \in Device : Inside(e, r)
<1>1. Network /\ d \in Device /\ addresses[d] = RefAddresses(d)
  BY ReadyFacts DEF IInv
<1>2. /\ addresses[d].local = RefLocal(d)
      /\ addresses[d].conflag = [e \in {f \in Device : conf[f].type # "ZR"} |-> RefConflag(e)]
      /\ addresses[d].localtime = [e \in Device |-> e * 8]
      /\ addresses[d].data = IF conf[d].type = "ZR" THEN {} ELSE {RefData(d)}
  BY <1>1 DEF RefAddresses
<1>3. /\ HEADER_QUEUE_SIZE = 512 /\ HEADER_QUEUE_METADATA_SIZE = 32
      /\ TOTAL_DATA_BUFFER_SIZE = 16432
  BY Sizes
<1>4. \/ \E i \in DOMAIN RefLocal(d) :
             r = [from |-> RefLocal(d)[i].buffer, to |-> RefLocal(d)[i].buffer + 512]
      \/ \E i \in DOMAIN RefLocal(d) :
             r = [from |-> RefLocal(d)[i].meta, to |-> RefLocal(d)[i].meta + 32]
      \/ \E b \in addresses[d].data : r = [from |-> b, to |-> b + 16432]
      \/ \E e \in Device : r = [from |-> addresses[d].localtime[e],
                                to |-> addresses[d].localtime[e] + 8]
      \/ \E e \in DOMAIN addresses[d].conflag :
             r = [from |-> addresses[d].conflag[e], to |-> addresses[d].conflag[e] + FlagSize]
      \/ r = [from |-> 0, to |-> 8]
  BY <1>2, <1>3 DEF Regions
<1>5. CASE \E i \in DOMAIN RefLocal(d) :
             r = [from |-> RefLocal(d)[i].buffer, to |-> RefLocal(d)[i].buffer + 512]
  <2>1. PICK i \in DOMAIN RefLocal(d) :
            r = [from |-> RefLocal(d)[i].buffer, to |-> RefLocal(d)[i].buffer + 512]
    BY <1>5
  <2>2. Inside(d, [from |-> RefLocal(d)[i].buffer, to |-> RefLocal(d)[i].buffer + 512])
    <3>1. Network /\ d \in Device
      BY <1>1
    <3>2. QueueIsInside(d, RefLocal(d)[i])
      BY <3>1, LocalInside
    <3> QED
      BY <3>2 DEF QueueIsInside
  <2>3. Inside(d, r)
    BY <2>1, <2>2
  <2> QED
    BY <2>3, <1>1
<1>6. CASE \E i \in DOMAIN RefLocal(d) :
             r = [from |-> RefLocal(d)[i].meta, to |-> RefLocal(d)[i].meta + 32]
  <2>1. PICK i \in DOMAIN RefLocal(d) :
            r = [from |-> RefLocal(d)[i].meta, to |-> RefLocal(d)[i].meta + 32]
    BY <1>6
  <2>2. Inside(d, [from |-> RefLocal(d)[i].meta, to |-> RefLocal(d)[i].meta + 32])
    <3>1. Network /\ d \in Device
      BY <1>1
    <3>2. QueueIsInside(d, RefLocal(d)[i])
      BY <3>1, LocalInside
    <3> QED
      BY <3>2 DEF QueueIsInside
  <2>3. Inside(d, r)
    BY <2>1, <2>2
  <2> QED
    BY <2>3, <1>1
<1>7. CASE \E b \in addresses[d].data : r = [from |-> b, to |-> b + 16432]
  <2>1. conf[d].type # "ZR" /\ r = [from |-> RefData(d), to |-> RefData(d) + 16432]
    BY <1>2, <1>7
  <2> QED
    BY <2>1, <1>1, DataInside
<1>8. CASE \E e \in Device : r = [from |-> addresses[d].localtime[e],
                                 to |-> addresses[d].localtime[e] + 8]
  <2>1. PICK e \in Device : r = [from |-> e * 8, to |-> e * 8 + 8]
    BY <1>2, <1>8
  <2>2. e \in 0 .. 99
    <3>1. Len(conf) \in 2 .. MaxDevice /\ e \in 1 .. Len(conf)
      BY <1>1 DEF Network, Device
    <3>2. MaxDevice \in 2 .. 99
      BY Sizes, LayoutAssumption
    <3> QED
      BY <3>1, <3>2
  <2>3. e * 8 = 8 * e
    BY <2>2
  <2>4. r = [from |-> 8 * e, to |-> 8 * e + 8]
    BY <2>1, <2>3
  <2> QED
    BY <2>2, <2>4 DEF IsSlot
<1>9. CASE \E e \in DOMAIN addresses[d].conflag :
             r = [from |-> addresses[d].conflag[e], to |-> addresses[d].conflag[e] + FlagSize]
  <2>1. PICK e \in Device : /\ conf[e].type # "ZR"
                            /\ r = [from |-> RefConflag(e), to |-> RefConflag(e) + FlagSize]
    BY <1>2, <1>9
  <2> QED
    BY <2>1, <1>1, ConflagInside
<1>10. CASE r = [from |-> 0, to |-> 8]
  <2>1. r = [from |-> 8 * 0, to |-> 8 * 0 + 8] /\ 0 \in 0 .. 99
    BY <1>10
  <2> QED
    BY <2>1 DEF IsSlot
<1> QED
  BY <1>4, <1>5, <1>6, <1>7, <1>8, <1>9, <1>10

\* The local times lie in the first 800 bytes.
LEMMA SlotBounds ==
    ASSUME NEW r, IsSlot(r)
    PROVE  r.from \in Nat /\ r.to \in Nat /\ r.to <= 800
  BY DEF IsSlot

\* A part of the space of a device lies behind the local times, in that space
\* and in the segment.
LEMMA InsideBounds ==
    ASSUME Network, FlagSize <= 12, NEW e \in Device, NEW r, Inside(e, r)
    PROVE  /\ r.from \in Nat /\ r.to \in Nat
           /\ 800 <= Start[e] + 800 /\ Start[e] \in Nat /\ SizeAt(e) \in Nat
           /\ Start[e] + 800 <= r.from /\ r.to <= (Start[e] + SizeAt(e)) + 800
<1>1. PICK f, g : Part(conf[e].type, f, g) /\ r = [from |-> Base(e) + f, to |-> Base(e) + g]
  BY DEF Inside
<1>2. r.from = Base(e) + f /\ r.to = Base(e) + g
  BY <1>1
<1>3. conf[e].type \in DeviceKind /\ SizeAt(e) \in Nat
  BY SizeAtFacts
<1>4. f \in Nat /\ g \in Nat /\ g <= SizeAt(e)
  BY <1>1, <1>3, PartFits DEF SizeAt
<1>5. Base(e) = Start[e] + 800 /\ Start[e] \in Nat
  BY BaseFacts
<1> QED
  BY <1>2, <1>3, <1>4, <1>5

\* No two purposes share a byte of the segment and none lies behind its end
\* (m2m_dbp_init, dbp.c:50-163; mm.c:28-31), in every network of at most 99
\* devices, wherever the control flag is no larger than the 12 bytes the size
\* of the segment reserves for it, which is so in the 32-bit build and not in
\* a 64-bit one.
THEOREM RegionsAreDisjoint ==
    ASSUME FlagSize <= HEADER_QUEUE_CONTRLFLAG
    PROVE  Spec => []RegionsDisjoint
<1>0. FlagSize <= 12
  BY Sizes
<1>1. ASSUME IInv PROVE RegionsDisjoint
  <2> DEFINE regions == UNION {Regions(d) : d \in Ready}
  <2>1. Network /\ Len(conf) \in Nat /\ Device = 1 .. Len(conf)
    BY <1>1 DEF IInv, Network, Device
  <2>2. ASSUME NEW r \in regions
        PROVE  IsSlot(r) \/ \E e \in Device : Inside(e, r)
    BY <1>1, <2>2, RegionKinds
  <2>3. ASSUME NEW r, NEW s, IsSlot(r), IsSlot(s)
        PROVE  r = s \/ r.to <= s.from \/ s.to <= r.from
    <3>1. PICK i \in 0 .. 99 : r = [from |-> 8 * i, to |-> 8 * i + 8]
      BY <2>3 DEF IsSlot
    <3>2. PICK j \in 0 .. 99 : s = [from |-> 8 * j, to |-> 8 * j + 8]
      BY <2>3 DEF IsSlot
    <3>3. CASE i = j
      BY <3>1, <3>2, <3>3
    <3>4. CASE i # j
      <4>1. r.from = 8 * i /\ r.to = 8 * i + 8 /\ s.from = 8 * j /\ s.to = 8 * j + 8
        BY <3>1, <3>2
      <4>2. 8 * i + 8 <= 8 * j \/ 8 * j + 8 <= 8 * i
        BY <3>4
      <4> QED
        BY <4>1, <4>2
    <3> QED
      BY <3>3, <3>4
  <2>4. ASSUME NEW r, NEW s, IsSlot(r), NEW e \in Device, Inside(e, s)
        PROVE  r.to <= s.from
    <3>1. r.to \in Nat /\ r.to <= 800
      BY <2>4, SlotBounds
    <3>2. s.from \in Nat /\ Start[e] \in Nat /\ Start[e] + 800 <= s.from
      BY <1>0, <2>1, <2>4, InsideBounds
    <3> QED
      BY <3>1, <3>2
  <2>5. ASSUME NEW r, NEW s, NEW e \in Device, NEW h \in Device, Inside(e, r), Inside(h, s), e < h
        PROVE  r.to <= s.from
    <3>1. h \in 1 .. Len(conf) + 1
      BY <2>1
    <3>2. Start[e] + SizeAt(e) <= Start[h]
      BY <2>1, <2>5, <3>1, StartOrder
    <3>3. /\ r.to \in Nat /\ Start[e] \in Nat /\ SizeAt(e) \in Nat
          /\ r.to <= (Start[e] + SizeAt(e)) + 800
      BY <1>0, <2>1, <2>5, InsideBounds
    <3>4. s.from \in Nat /\ Start[h] \in Nat /\ Start[h] + 800 <= s.from
      BY <1>0, <2>1, <2>5, InsideBounds
    <3> QED
      BY <3>2, <3>3, <3>4
  <2>6. ASSUME NEW r, NEW s, NEW e \in Device, Inside(e, r), Inside(e, s)
        PROVE  r = s \/ r.to <= s.from \/ s.to <= r.from
    <3>1. PICK f, g : /\ Part(conf[e].type, f, g)
                      /\ r = [from |-> Base(e) + f, to |-> Base(e) + g]
      BY <2>6 DEF Inside
    <3>2. PICK h, k : /\ Part(conf[e].type, h, k)
                      /\ s = [from |-> Base(e) + h, to |-> Base(e) + k]
      BY <2>6 DEF Inside
    <3>3. conf[e].type \in DeviceKind /\ Base(e) \in Nat
      BY <2>1, SizeAtFacts, BaseFacts
    <3>4. (f = h /\ g = k) \/ g <= h \/ k <= f
      BY <1>0, <3>1, <3>2, <3>3, PartsDisjoint
    <3>5. f \in Nat /\ g \in Nat /\ h \in Nat /\ k \in Nat
      BY <3>1, <3>2 DEF Part
    <3>6. /\ r.from = Base(e) + f /\ r.to = Base(e) + g
          /\ s.from = Base(e) + h /\ s.to = Base(e) + k
      BY <3>1, <3>2
    <3>7. CASE f = h /\ g = k
      BY <3>1, <3>2, <3>7
    <3>8. CASE g <= h
      BY <3>3, <3>5, <3>6, <3>8
    <3>9. CASE k <= f
      BY <3>3, <3>5, <3>6, <3>9
    <3> QED
      BY <3>4, <3>7, <3>8, <3>9
  <2>7. ASSUME NEW r \in regions, NEW s \in regions
        PROVE  r = s \/ r.to <= s.from \/ s.to <= r.from
    <3>1. IsSlot(r) \/ \E e \in Device : Inside(e, r)
      BY <2>2
    <3>2. IsSlot(s) \/ \E e \in Device : Inside(e, s)
      BY <2>2
    <3> HIDE DEF regions
    <3>3. CASE IsSlot(r) /\ IsSlot(s)
      BY <3>3, <2>3
    <3>4. CASE IsSlot(r) /\ \E e \in Device : Inside(e, s)
      BY <3>4, <2>4
    <3>5. CASE IsSlot(s) /\ \E e \in Device : Inside(e, r)
      BY <3>5, <2>4
    <3>6. CASE (\E e \in Device : Inside(e, r)) /\ (\E e \in Device : Inside(e, s))
      <4>1. PICK e \in Device : Inside(e, r)
        BY <3>6
      <4>2. PICK h \in Device : Inside(h, s)
        BY <3>6
      <4>3. e = h \/ e < h \/ h < e
        BY <2>1
      <4>4. CASE e = h
        BY <4>1, <4>2, <4>4, <2>6
      <4>5. CASE e < h
        BY <4>1, <4>2, <4>5, <2>5
      <4>6. CASE h < e
        BY <4>1, <4>2, <4>6, <2>5
      <4> QED
        BY <4>3, <4>4, <4>5, <4>6
    <3> QED
      BY <3>1, <3>2, <3>3, <3>4, <3>5, <3>6
  <2>8. ASSUME NEW d \in Ready, NEW r \in regions
        PROVE  r.to <= addresses[d].size
    <3>1. addresses[d].size = RefSize
      <4>1. addresses[d] = RefAddresses(d)
        BY <1>1, ReadyFacts
      <4> QED
        BY <4>1 DEF RefAddresses
    <3>2. IsSlot(r) \/ \E e \in Device : Inside(e, r)
      BY <2>2
    <3> HIDE DEF regions
    <3> DEFINE top == Start[Len(conf) + 1]
    <3>3. Len(conf) + 1 \in 1 .. Len(conf) + 1
      BY <2>1
    <3>4. top \in Nat /\ RefSize = top + 800
      BY <2>1, <3>3, StartType, Sizes DEF RefSize
    <3>5. CASE IsSlot(r)
      <4>1. r.to \in Nat /\ r.to <= 800
        BY <3>5, SlotBounds
      <4> HIDE DEF top
      <4> QED
        BY <4>1, <3>1, <3>4
    <3>6. CASE \E e \in Device : Inside(e, r)
      <4>1. PICK e \in Device : Inside(e, r)
        BY <3>6
      <4>2. /\ r.to \in Nat /\ Start[e] \in Nat /\ SizeAt(e) \in Nat
            /\ r.to <= (Start[e] + SizeAt(e)) + 800
        BY <1>0, <2>1, <4>1, InsideBounds
      <4>3. e < Len(conf) + 1
        BY <2>1
      <4>4. Start[e] + SizeAt(e) <= top
        BY <2>1, <3>3, <4>3, StartOrder
      <4> HIDE DEF top
      <4> QED
        BY <4>2, <4>4, <3>1, <3>4
    <3> QED
      BY <3>2, <3>5, <3>6
  <2> HIDE DEF regions
  <2> QED
    BY <2>7, <2>8 DEF RegionsDisjoint, regions
<1>2. IInv => RegionsDisjoint
  BY <1>1
<1> QED
  BY <1>2, Invariant, PTL
=============================================================================
