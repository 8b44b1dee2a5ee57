-------------------------- MODULE BackgroundProofs --------------------------
(***************************************************************************)
(* TLAPS proofs about the background tasks of the backend: MailboxIndex    *)
(* and CaseBatch, for any values of their constants.  The module has two   *)
(* chapters, and one on the two as MCBackground explores them.             *)
(*                                                                         *)
(* Index: one run is active at a time, exactly while its task is at work,  *)
(* and a finished run is final (IInv); its status is the sum of its        *)
(* folders (FoldersInv); the local variables hold what the steps that use  *)
(* them expect (TypesInv); and a folder called listo was fetched whole and *)
(* counted once (IndexInv): the count and what the pending windows hold    *)
(* add up.                                                                 *)
(*                                                                         *)
(* Batches: what a line names is the case of its code, and the counters    *)
(* of a batch are those of its lines as far as the task has got            *)
(* (BatchInv), although users delete, close and share the cases meanwhile. *)
(***************************************************************************)
EXTENDS MCBackground, FiniteSetTheorems, WellFoundedInduction, TLAPS

-----------------------------------------------------------------------------
(* Sums over the history, by induction over the naturals *)

\* The order of the naturals as a set of pairs, for the theorems on such orders.
Earlier == {p \in Nat \X Nat : p[1] < p[2]}

\* Every non-empty set of naturals has a least element.
LEMMA EarlierWellFounded == IsWellFoundedOn(Earlier, Nat)
<1>1. OpToRel(<, Nat) = Earlier
  BY DEF OpToRel, Earlier
<1>2. QED
  BY <1>1, NatLessThanWellFounded

\* A set of naturals with 0 and the successor of each of its members has them all.
LEMMA Induct ==
    ASSUME NEW T \in SUBSET Nat, 0 \in T, \A n \in T : n + 1 \in T
    PROVE  T = Nat
<1>1. SUFFICES ASSUME Nat \ T # {} PROVE FALSE
  OBVIOUS
<1>2. PICK x \in Nat \ T : \A y \in Nat \ T : ~ (<<y, x>> \in Earlier)
  BY <1>1, EarlierWellFounded, WFMin
<1>3. x # 0 /\ x - 1 \in Nat /\ <<x - 1, x>> \in Earlier
  BY <1>2 DEF Earlier
<1>4. x - 1 \in T
  BY <1>2, <1>3
<1>5. QED
  BY <1>2, <1>3, <1>4

\* The sums of an initial segment of a sequence of naturals.
IsSum(g, h, n) ==
    /\ g \in [0 .. n -> Nat]
    /\ g[0] = 0
    /\ \A d \in 0 .. n - 1 : g[d + 1] = g[d] + h[d]

\* Any sequence of naturals has sums.
LEMMA SumExists ==
    ASSUME NEW n \in Nat, NEW h \in [0 .. n - 1 -> Nat]
    PROVE  \E g : IsSum(g, h, n)
<1> DEFINE T == {k \in Nat : k <= n => \E g : IsSum(g, h, k)}
<1>1. 0 \in T
  <2>1. IsSum([d \in 0 .. 0 |-> 0], h, 0)
    BY DEF IsSum
  <2>2. QED
    BY <2>1
<1>2. ASSUME NEW k \in T PROVE k + 1 \in T
  <2>1. SUFFICES ASSUME k + 1 <= n PROVE \E g : IsSum(g, h, k + 1)
    OBVIOUS
  <2>2. PICK g : IsSum(g, h, k)
    BY <2>1
  <2>3. k \in 0 .. n - 1 /\ h[k] \in Nat /\ g[k] \in Nat
    BY <2>1, <2>2 DEF IsSum
  <2>4. PICK e : e = [d \in 0 .. k + 1 |-> IF d <= k THEN g[d] ELSE g[k] + h[k]]
    OBVIOUS
  <2>5. /\ \A d \in 0 .. k : e[d] = g[d]
        /\ e[k + 1] = g[k] + h[k]
    BY <2>4
  <2>6. IsSum(e, h, k + 1)
    <3>1. e \in [0 .. k + 1 -> Nat] /\ e[0] = 0
      BY <2>2, <2>3, <2>4 DEF IsSum
    <3>2. ASSUME NEW d \in 0 .. k PROVE e[d + 1] = e[d] + h[d]
      <4>1. CASE d = k
        BY <2>5, <4>1
      <4>2. CASE d # k
        <5>1. d \in 0 .. k - 1 /\ d + 1 \in 0 .. k /\ d \in 0 .. k
          BY <4>2
        <5>2. QED
          BY <2>2, <2>5, <5>1 DEF IsSum
      <4>3. QED
        BY <4>1, <4>2
    <3>3. QED
      <4>1. 0 .. (k + 1) - 1 = 0 .. k
        OBVIOUS
      <4>2. QED
        BY <3>1, <3>2, <4>1 DEF IsSum
  <2>7. QED
    BY <2>6
<1>3. T = Nat
  <2> HIDE DEF T
  <2>1. T \in SUBSET Nat
    BY DEF T
  <2>2. QED
    BY <1>1, <1>2, <2>1, Induct
<1>4. n \in T
  BY <1>3
<1>5. QED
  BY <1>4

\* A folder's counts are integers, and never fall.
LEMMA MessagesType ==
    ASSUME NEW f \in Folders
    PROVE  /\ Sent[f] \in [0 .. Horizon -> Nat] /\ Horizon \in Nat \ {0}
           /\ NearCap \in Nat \ {0} /\ Cap \in Nat /\ NearCap <= Cap
           /\ \A d \in Units : /\ Messages(f, <<d, d + 1>>) \in Nat
                               /\ Fetched(f, <<d, d + 1>>) \in Nat
<1>1. /\ Sent[f] \in [0 .. Horizon -> Nat] /\ Horizon \in Nat \ {0}
      /\ NearCap \in Nat \ {0} /\ Cap \in Nat /\ NearCap <= Cap
      /\ \A d \in Units : Sent[f][d] <= Sent[f][d + 1]
  BY FoldersAssumption, BoundsAssumption, CapAssumption
<1>2. \A d \in Units : Messages(f, <<d, d + 1>>) \in Nat
  BY <1>1 DEF Messages, Units
<1>3. QED
  BY <1>1, <1>2 DEF Fetched

\* The recursive definition of Fetchable defines a function, with these values.
LEMMA FetchableSums ==
    ASSUME NEW f \in Folders
    PROVE  /\ Fetchable(f) \in [0 .. Horizon -> Nat]
           /\ Fetchable(f)[0] = 0
           /\ \A d \in Units : Fetchable(f)[d + 1] = Fetchable(f)[d] + Fetched(f, <<d, d + 1>>)
<1> DEFINE h == [d \in 0 .. Horizon - 1 |-> Fetched(f, <<d, d + 1>>)]
<1>1. Horizon \in Nat /\ h \in [0 .. Horizon - 1 -> Nat]
  BY MessagesType DEF Units
<1>2. PICK g : IsSum(g, h, Horizon)
  <2> HIDE DEF h
  <2>1. QED
    BY <1>1, SumExists
<1>3. \A d \in Units : g[d + 1] = g[d] + Fetched(f, <<d, d + 1>>)
  BY <1>2 DEF IsSum, Units
<1>4. g = [d \in 0 .. Horizon |-> IF d = 0 THEN 0 ELSE g[d - 1] + Fetched(f, <<d - 1, d>>)]
  <2>1. \A d \in 0 .. Horizon : g[d] = IF d = 0 THEN 0 ELSE g[d - 1] + Fetched(f, <<d - 1, d>>)
    <3> SUFFICES ASSUME NEW d \in 0 .. Horizon, d # 0
                 PROVE  g[d] = g[d - 1] + Fetched(f, <<d - 1, d>>)
      BY <1>2 DEF IsSum
    <3>1. PICK e \in Units : e = d - 1
      BY <1>1 DEF Units
    <3>2. d = e + 1
      BY <3>1
    <3>3. g[e + 1] = g[e] + Fetched(f, <<e, e + 1>>)
      BY <1>3
    <3>4. QED
      BY <3>1, <3>2, <3>3
  <2>2. QED
    BY <1>2, <2>1 DEF IsSum
<1>5. PICK u : u = Fetchable(f)
  OBVIOUS
<1>6. u = [d \in 0 .. Horizon |-> IF d = 0 THEN 0 ELSE u[d - 1] + Fetched(f, <<d - 1, d>>)]
  BY <1>4, <1>5 DEF Fetchable
<1> HIDE DEF h
<1>7. u[0] = 0 /\ DOMAIN u = 0 .. Horizon
  BY <1>1, <1>6
<1>8. \A d \in Units : u[d + 1] = u[d] + Fetched(f, <<d, d + 1>>)
  <2> SUFFICES ASSUME NEW d \in Units PROVE u[d + 1] = u[d] + Fetched(f, <<d, d + 1>>)
    OBVIOUS
  <2>1. PICK e \in 0 .. Horizon : e = d + 1 /\ e # 0 /\ e - 1 = d
    BY <1>1 DEF Units
  <2>2. u[e] = u[e - 1] + Fetched(f, <<e - 1, e>>)
    BY <1>6, <2>1
  <2>3. QED
    BY <2>1, <2>2
<1>9. \A d \in 0 .. Horizon : u[d] \in Nat
  <2> DEFINE T == {d \in Nat : d <= Horizon => u[d] \in Nat}
  <2>1. 0 \in T
    BY <1>7
  <2>2. ASSUME NEW d \in T PROVE d + 1 \in T
    <3>1. SUFFICES ASSUME d + 1 <= Horizon PROVE u[d + 1] \in Nat
      OBVIOUS
    <3>2. d \in Units /\ u[d] \in Nat
      BY <1>1, <3>1 DEF Units
    <3>3. QED
      <4>1. u[d + 1] = u[d] + Fetched(f, <<d, d + 1>>)
        BY <1>8, <3>2
      <4>2. Fetched(f, <<d, d + 1>>) \in Nat
        BY <3>2, MessagesType
      <4>3. QED
        BY <3>2, <4>1, <4>2
  <2>3. T = Nat
    <3> HIDE DEF T
    <3>1. T \in SUBSET Nat
      BY DEF T
    <3>2. QED
      BY <2>1, <2>2, <3>1, Induct
  <2>4. QED
    BY <2>3
<1>10. QED
  <2>1. u \in [0 .. Horizon -> Nat]
    BY <1>6, <1>9
  <2>2. QED
    BY <1>5, <1>7, <1>8, <2>1

\* No more messages were sent before an earlier unit.
LEMMA SentGrows ==
    ASSUME NEW f \in Folders, NEW d \in 0 .. Horizon, NEW e \in 0 .. Horizon, d <= e
    PROVE  Sent[f][d] <= Sent[f][e]
<1> DEFINE T == {k \in Nat : d + k <= Horizon => Sent[f][d] <= Sent[f][d + k]}
<1>1. Horizon \in Nat /\ Sent[f] \in [0 .. Horizon -> Nat]
  BY MessagesType
<1>2. 0 \in T
  BY <1>1
<1>3. ASSUME NEW k \in T PROVE k + 1 \in T
  <2>1. SUFFICES ASSUME d + (k + 1) <= Horizon PROVE Sent[f][d] <= Sent[f][d + (k + 1)]
    OBVIOUS
  <2>2. PICK u \in Units : u = d + k /\ u + 1 = d + (k + 1)
    BY <1>1, <2>1 DEF Units
  <2>3. Sent[f][d] <= Sent[f][u] /\ {Sent[f][d], Sent[f][u], Sent[f][u + 1]} \subseteq Nat
    BY <1>1, <2>1, <2>2 DEF Units
  <2>4. Sent[f][u] <= Sent[f][u + 1]
    BY FoldersAssumption
  <2>5. QED
    BY <2>2, <2>3, <2>4
<1>4. T = Nat
  <2> HIDE DEF T
  <2>1. T \in SUBSET Nat
    BY DEF T
  <2>2. QED
    BY <1>2, <1>3, <2>1, Induct
<1>5. PICK k \in T : d + k = e
  <2>1. e - d \in Nat /\ d + (e - d) = e
    BY <1>1
  <2>2. QED
    BY <1>4, <2>1
<1>6. QED
  BY <1>1, <1>5

\* What the units of a window hold.
Weight(f, w) == Fetchable(f)[w[2]] - Fetchable(f)[w[1]]

\* A window that is not split brings in what its units hold one by one: it is
\* below n8n's cap, or one unit long.
LEMMA UnsplitWeight ==
    ASSUME NEW f \in Folders, NEW w \in Window, ~MustSplit(f, w)
    PROVE  Fetched(f, w) = Weight(f, w)
<1>1. PICK a \in Units, b \in 1 .. Horizon : w = <<a, b>> /\ a < b
  BY DEF Window
<1>2. /\ Sent[f] \in [0 .. Horizon -> Nat] /\ Horizon \in Nat \ {0}
      /\ NearCap \in Nat \ {0} /\ Cap \in Nat /\ NearCap <= Cap
      /\ Fetchable(f) \in [0 .. Horizon -> Nat]
      /\ a \in 0 .. Horizon /\ b \in 0 .. Horizon
  BY MessagesType, FetchableSums, <1>1 DEF Units
<1>3. CASE b = a + 1
  <2>1. Fetchable(f)[a + 1] = Fetchable(f)[a] + Fetched(f, <<a, a + 1>>)
    BY FetchableSums
  <2>2. Fetched(f, <<a, a + 1>>) \in Nat /\ Fetchable(f)[a] \in Nat
    BY <1>2, MessagesType
  <2>3. w[1] = a /\ w[2] = a + 1 /\ w = <<a, a + 1>>
    BY <1>1, <1>3
  <2>4. QED
    BY <2>1, <2>2, <2>3 DEF Weight
<1>4. CASE b # a + 1
  <2>1. Fetched(f, w) < NearCap
    <3>1. Span(w) > 1
      BY <1>1, <1>4 DEF Span, Units
    <3>2. Messages(f, w) \in Int
      BY <1>1, <1>2, SMTT(30) DEF Messages
    <3>3. Fetched(f, w) \in Int
      BY <3>2, CapAssumption DEF Fetched
    <3>4. QED
      BY <1>2, <3>1, <3>3 DEF MustSplit
  <2>2. Messages(f, w) = Sent[f][b] - Sent[f][a] /\ Fetched(f, w) = Messages(f, w)
    BY <1>1, <1>2, <2>1 DEF Messages, Fetched
  <2>3. Sent[f][b] - Sent[f][a] <= Cap
    BY <1>2, <2>1, <2>2
  <2> DEFINE T == {k \in Nat : a + k <= b =>
                     Fetchable(f)[a + k] - Fetchable(f)[a] = Sent[f][a + k] - Sent[f][a]}
  <2>4. 0 \in T
    BY <1>2
  <2>5. ASSUME NEW k \in T PROVE k + 1 \in T
    <3>1. SUFFICES ASSUME a + (k + 1) <= b
                   PROVE  Fetchable(f)[a + (k + 1)] - Fetchable(f)[a]
                             = Sent[f][a + (k + 1)] - Sent[f][a]
      OBVIOUS
    <3>2. PICK d \in Units : d = a + k /\ d + 1 = a + (k + 1) /\ d + 1 <= b /\ d + 1 \in 0 .. Horizon
      <4>1. a + k \in Units /\ (a + k) + 1 = a + (k + 1) /\ a + (k + 1) <= b
        BY <1>2, <3>1 DEF Units
      <4>2. a + (k + 1) \in 0 .. Horizon
        BY <1>2, <3>1, <4>1 DEF Units
      <4>3. QED
        BY <4>1, <4>2
    <3>3. Fetchable(f)[d] - Fetchable(f)[a] = Sent[f][d] - Sent[f][a]
      BY <3>1, <3>2, <1>2
    <3>4. Sent[f][a] <= Sent[f][d] /\ Sent[f][d + 1] <= Sent[f][b]
      BY <1>2, <3>2, SentGrows
    <3>5. /\ {Sent[f][a], Sent[f][b], Sent[f][d], Sent[f][d + 1]} \subseteq Nat
          /\ {Fetchable(f)[a], Fetchable(f)[d], Fetchable(f)[d + 1]} \subseteq Nat
      BY <1>2, <3>2, SMTT(30) DEF Units
    <3>6. Messages(f, <<d, d + 1>>) = Sent[f][d + 1] - Sent[f][d]
      BY DEF Messages
    <3>7. Fetched(f, <<d, d + 1>>) = Sent[f][d + 1] - Sent[f][d]
      <4>1. Sent[f][d + 1] - Sent[f][d] <= Sent[f][b] - Sent[f][a]
        BY <3>4, <3>5
      <4>2. Cap \in Nat
        BY <1>2
      <4>3. Sent[f][d + 1] - Sent[f][d] <= Cap
        BY <2>3, <3>5, <4>1, <4>2
      <4>4. QED
        BY <3>6, <4>3 DEF Fetched
    <3>8. Fetchable(f)[d + 1] = Fetchable(f)[d] + Fetched(f, <<d, d + 1>>)
      BY FetchableSums
    <3>9. QED
      BY <3>2, <3>3, <3>5, <3>7, <3>8
  <2>6. T = Nat
    <3> HIDE DEF T
    <3>1. T \in SUBSET Nat
      BY DEF T
    <3>2. QED
      BY <2>4, <2>5, <3>1, Induct
  <2>7. PICK k \in T : a + k = b
    <3>1. b - a \in Nat /\ a + (b - a) = b
      BY <1>1, <1>2
    <3>2. QED
      BY <2>6, <3>1
  <2>8. Fetchable(f)[b] - Fetchable(f)[a] = Sent[f][b] - Sent[f][a]
    BY <1>2, <2>7
  <2>9. QED
    BY <1>1, <2>2, <2>8 DEF Weight
<1>5. QED
  BY <1>3, <1>4

\* What a window adds to the count and to the units covered.
LEMMA WindowFetches ==
    ASSUME NEW f \in Folders, NEW w \in Window
    PROVE  /\ Messages(f, w) \in Nat /\ Fetched(f, w) \in Nat
           /\ Contribution(f, w) \in Nat /\ In(w) \in SUBSET Units
<1>1. PICK a \in Units, b \in 1 .. Horizon : w = <<a, b>> /\ a < b
  BY DEF Window
<1>2. Horizon \in Nat /\ Cap \in Nat /\ Sent[f] \in [0 .. Horizon -> Nat]
  BY MessagesType
<1>3. a \in 0 .. Horizon /\ b \in 0 .. Horizon
  BY <1>1, <1>2 DEF Units
<1>4. Sent[f][a] <= Sent[f][b] /\ Sent[f][a] \in Nat /\ Sent[f][b] \in Nat
  BY <1>1, <1>2, <1>3, SentGrows
<1>5. Messages(f, w) \in Nat
  BY <1>1, <1>4 DEF Messages
<1>6. QED
  BY <1>1, <1>2, <1>5 DEF Fetched, Contribution, In, Units

-----------------------------------------------------------------------------
(* The bisection *)

\* The halves of a window that is split are windows, shorter than it, and they
\* partition its units: _index_folder puts the same middle instant at the end of
\* one half and the start of the other. A unit excludes its ends; a message sent
\* at the very middle instant is in both halves, n8n's filter being inclusive.
THEOREM HalvesPartition ==
    ASSUME Horizon \in Nat, NEW w \in Window, Span(w) > 1
    PROVE  LET older == Halves(w)[1]
               newer == Halves(w)[2]
           IN /\ older \in Window /\ newer \in Window
              /\ Span(older) < Span(w) /\ Span(newer) < Span(w)
              /\ In(older) \cup In(newer) = In(w)
              /\ In(older) \cap In(newer) = {}
<1> DEFINE mid == (w[1] + w[2]) \div 2
<1>1. /\ w = <<w[1], w[2]>> /\ w[1] \in Int /\ w[2] \in Int
      /\ 0 <= w[1] /\ w[2] <= Horizon /\ w[2] - w[1] > 1
  BY DEF Window, Units, Span
<1>2. mid \in Int /\ w[1] < mid /\ mid < w[2]
  BY <1>1
<1>3. Halves(w) = << <<w[1], mid>>, <<mid, w[2]>> >>
  BY DEF Halves
<1> HIDE DEF mid
<1>4. <<w[1], mid>> \in Window /\ <<mid, w[2]>> \in Window
  BY <1>1, <1>2 DEF Window, Units
<1>5. Span(<<w[1], mid>>) < Span(w) /\ Span(<<mid, w[2]>>) < Span(w)
  BY <1>1, <1>2 DEF Span
<1>6. /\ In(<<w[1], mid>>) \cup In(<<mid, w[2]>>) = In(w)
      /\ In(<<w[1], mid>>) \cap In(<<mid, w[2]>>) = {}
  BY <1>1, <1>2 DEF In
<1>7. QED
  BY <1>3, <1>4, <1>5, <1>6

\* What a window holds is a number, and the halves share it.
LEMMA WeightType ==
    ASSUME NEW f \in Folders
    PROVE  /\ \A w \in Window : Weight(f, w) \in Int
           /\ \A w \in Window : Span(w) > 1 =>
                 /\ Weight(f, Halves(w)[1]) + Weight(f, Halves(w)[2]) = Weight(f, w)
<1>1. Horizon \in Nat \ {0} /\ Fetchable(f) \in [0 .. Horizon -> Nat]
  BY MessagesType, FetchableSums
<1>2. ASSUME NEW w \in Window PROVE w[1] \in 0 .. Horizon /\ w[2] \in 0 .. Horizon
  BY <1>1 DEF Window, Units
<1>3. \A w \in Window : Weight(f, w) \in Int
  BY <1>1, <1>2 DEF Weight
<1>4. ASSUME NEW w \in Window, Span(w) > 1
      PROVE  Weight(f, Halves(w)[1]) + Weight(f, Halves(w)[2]) = Weight(f, w)
  <2>1. PICK mid : mid = (w[1] + w[2]) \div 2
    OBVIOUS
  <2>2. Halves(w)[1] = <<w[1], mid>> /\ Halves(w)[2] = <<mid, w[2]>>
    BY <2>1 DEF Halves
  <2>3. Halves(w)[1] \in Window
    BY <1>1, <1>4, HalvesPartition
  <2>4. mid \in 0 .. Horizon
    BY <1>2, <2>2, <2>3
  <2>5. QED
    BY <1>1, <1>2, <2>2, <2>4 DEF Weight
<1>5. QED
  BY <1>3, <1>4

\* S[i] is the count after the first i of the pending windows, c before them: all
\* of them together bring in what there is.
Sums(S, f, ws, c) ==
    /\ S \in [0 .. Len(ws) -> Int]
    /\ S[0] = c
    /\ S[Len(ws)] = Fetchable(f)[Horizon]
    /\ \A i \in 1 .. Len(ws) : S[i] = S[i - 1] + Weight(f, ws[i])

\* Two more at the end of a sequence.
LEMMA TwoMore ==
    ASSUME NEW T, NEW s \in Seq(T), NEW u \in T, NEW v \in T
    PROVE  /\ s \o <<u, v>> \in Seq(T)
           /\ Len(s \o <<u, v>>) = Len(s) + 2
           /\ \A i \in 1 .. Len(s) : (s \o <<u, v>>)[i] = s[i]
           /\ (s \o <<u, v>>)[Len(s) + 1] = u
           /\ (s \o <<u, v>>)[Len(s) + 2] = v
OBVIOUS

\* The sums after the first window is taken off.
LEMMA SumsShift ==
    ASSUME NEW f \in Folders, NEW ws \in Seq(Window), ws # <<>>, NEW c \in Int, NEW S, Sums(S, f, ws, c)
    PROVE  /\ Tail(ws) \in Seq(Window) /\ Len(ws) = Len(Tail(ws)) + 1 /\ Len(Tail(ws)) \in Nat
           /\ Weight(f, Head(ws)) \in Int /\ S[1] = c + Weight(f, Head(ws))
           /\ \A i \in 0 .. Len(Tail(ws)) : S[i + 1] \in Int
           /\ \A i \in 1 .. Len(Tail(ws)) : S[i + 1] = S[i] + Weight(f, Tail(ws)[i])
<1>1. Tail(ws) \in Seq(Window) /\ Len(ws) = Len(Tail(ws)) + 1 /\ Len(Tail(ws)) \in Nat
  OBVIOUS
<1>2. ws[1] = Head(ws) /\ Head(ws) \in Window /\ \A i \in 1 .. Len(Tail(ws)) : Tail(ws)[i] = ws[i + 1]
  OBVIOUS
<1>3. Weight(f, Head(ws)) \in Int
  BY <1>2, WeightType
<1>4. \A i \in 0 .. Len(Tail(ws)) : S[i + 1] \in Int
  BY <1>1 DEF Sums
<1>5. S[1] = c + Weight(f, Head(ws))
  <2>1. S[1] = S[0] + Weight(f, ws[1]) /\ S[0] = c
    BY <1>1 DEF Sums
  <2>2. QED
    BY <1>2, <2>1
<1>6. ASSUME NEW i \in 1 .. Len(Tail(ws))
      PROVE  S[i + 1] = S[i] + Weight(f, Tail(ws)[i])
  <2>1. i + 1 \in 1 .. Len(ws) /\ (i + 1) - 1 = i
    BY <1>1
  <2>2. S[i + 1] = S[(i + 1) - 1] + Weight(f, ws[i + 1])
    BY <2>1 DEF Sums
  <2>3. QED
    BY <1>2, <2>1, <2>2
<1>7. QED
  BY <1>1, <1>3, <1>4, <1>5, <1>6

\* The sums over the windows that are left, when the first is not split: what it
\* held goes to the count.
LEMMA SumsAfterFetch ==
    ASSUME NEW f \in Folders, NEW ws \in Seq(Window), ws # <<>>, NEW c \in Int, NEW S, Sums(S, f, ws, c)
    PROVE  \E Z : Sums(Z, f, Tail(ws), c + Weight(f, Head(ws)))
<1>1. PICK rest, n, x : rest = Tail(ws) /\ n = Len(rest) /\ x = Weight(f, Head(ws))
  OBVIOUS
<1>2. /\ rest \in Seq(Window) /\ Len(ws) = n + 1 /\ n \in Nat /\ x \in Int /\ S[1] = c + x
      /\ \A i \in 0 .. n : S[i + 1] \in Int
      /\ \A i \in 1 .. n : S[i + 1] = S[i] + Weight(f, rest[i])
  BY <1>1, SumsShift
<1>3. S[n + 1] = Fetchable(f)[Horizon]
  BY <1>2 DEF Sums
<1>4. PICK Z : Z = [i \in 0 .. n |-> S[i + 1]]
  OBVIOUS
<1>5. Z \in [0 .. n -> Int] /\ Z[0] = c + x /\ Z[n] = Fetchable(f)[Horizon]
  BY <1>2, <1>3, <1>4
<1>6. \A i \in 1 .. n : Z[i] = Z[i - 1] + Weight(f, rest[i])
  BY <1>2, <1>4
<1>7. Sums(Z, f, rest, c + x)
  BY <1>1, <1>5, <1>6 DEF Sums
<1>8. QED
  BY <1>1, <1>7

\* When it is split, its halves go to the end of the list.
LEMMA SumsAfterSplit ==
    ASSUME NEW f \in Folders, NEW ws \in Seq(Window), ws # <<>>, NEW c \in Int, NEW S, Sums(S, f, ws, c),
           NEW u \in Window, NEW v \in Window, Weight(f, u) + Weight(f, v) = Weight(f, Head(ws))
    PROVE  \E Z : Sums(Z, f, Tail(ws) \o <<u, v>>, c)
<1>1. PICK rest, n, x, ts :
         rest = Tail(ws) /\ n = Len(rest) /\ x = Weight(f, Head(ws)) /\ ts = rest \o <<u, v>>
  OBVIOUS
<1>2. /\ rest \in Seq(Window) /\ Len(ws) = n + 1 /\ n \in Nat /\ x \in Int /\ S[1] = c + x
      /\ \A i \in 0 .. n : S[i + 1] \in Int
      /\ \A i \in 1 .. n : S[i + 1] = S[i] + Weight(f, rest[i])
  BY <1>1, SumsShift
<1>3. S[n + 1] = Fetchable(f)[Horizon]
  BY <1>2 DEF Sums
<1>4. /\ Weight(f, u) \in Int /\ Weight(f, v) \in Int /\ Weight(f, u) + Weight(f, v) = x
      /\ \A i \in 1 .. n : Weight(f, rest[i]) \in Int
  BY <1>1, <1>2, WeightType
<1>5. /\ Len(ts) = n + 2
      /\ \A i \in 1 .. n : ts[i] = rest[i]
      /\ ts[n + 1] = u /\ ts[n + 2] = v
  BY <1>1, <1>2, TwoMore
<1>6. PICK Z : Z = [i \in 0 .. n + 2 |->
                       IF i <= n THEN S[i + 1] - x
                       ELSE IF i = n + 1 THEN S[n + 1] - x + Weight(f, u) ELSE S[n + 1]]
  OBVIOUS
<1>7. /\ \A i \in 0 .. n : Z[i] = S[i + 1] - x
      /\ Z[n + 1] = S[n + 1] - x + Weight(f, u) /\ Z[n + 2] = S[n + 1]
  BY <1>2, <1>6
<1>8. S[n + 1] \in Int
  BY <1>2
<1>9. Z \in [0 .. n + 2 -> Int]
  BY <1>2, <1>4, <1>6, <1>8, SMTT(30)
<1>10. Z[0] = c
  BY <1>2, <1>7
<1>11. ASSUME NEW i \in 1 .. n PROVE Z[i] = Z[i - 1] + Weight(f, ts[i])
  <2>1. Z[i] = S[i + 1] - x /\ Z[i - 1] = S[i] - x
    BY <1>2, <1>7
  <2>2. S[i + 1] = S[i] + Weight(f, rest[i]) /\ ts[i] = rest[i] /\ Weight(f, rest[i]) \in Int
    BY <1>2, <1>4, <1>5
  <2>3. S[i] \in Int /\ x \in Int
    <3>1. i - 1 \in 0 .. n /\ (i - 1) + 1 = i
      BY <1>2
    <3>2. QED
      BY <1>2, <3>1
  <2>4. QED
    BY <2>1, <2>2, <2>3
<1>12. Z[n + 1] = Z[n] + Weight(f, ts[n + 1])
  BY <1>2, <1>4, <1>5, <1>7, <1>8
<1>13. Z[n + 2] = Z[n + 1] + Weight(f, ts[n + 2])
  BY <1>2, <1>4, <1>5, <1>7, <1>8
<1>14. \A i \in 1 .. n + 2 : Z[i] = Z[i - 1] + Weight(f, ts[i])
  <2> SUFFICES ASSUME NEW i \in 1 .. n + 2 PROVE Z[i] = Z[i - 1] + Weight(f, ts[i])
    OBVIOUS
  <2>1. i \in 1 .. n \/ (i = n + 1 /\ i - 1 = n) \/ (i = n + 2 /\ i - 1 = n + 1)
    BY <1>2
  <2>2. QED
    BY <1>11, <1>12, <1>13, <2>1
<1>15. Sums(Z, f, ts, c)
  BY <1>3, <1>5, <1>7, <1>9, <1>10, <1>14 DEF Sums
<1>16. QED
  BY <1>1, <1>15

\* A unit that n8n may truncate and no bisection makes smaller.
Dense(f, d) == Messages(f, <<d, d + 1>>) >= NearCap

\* What became of the units of a window that is not split.
LEMMA UnsplitCovers ==
    ASSUME NEW f \in Folders, NEW w \in Window, ~MustSplit(f, w), Truncated(f, w)
    PROVE  \A d \in In(w) : Dense(f, d)
<1>1. PICK a \in Units, b \in 1 .. Horizon : w = <<a, b>> /\ a < b
  BY DEF Window
<1>2. /\ Horizon \in Nat /\ NearCap \in Nat /\ Cap \in Nat /\ NearCap <= Cap
      /\ Messages(f, w) \in Nat
  BY MessagesType, WindowFetches
<1>3. Messages(f, w) > Cap /\ Fetched(f, w) = Cap
  BY <1>2 DEF Truncated, Fetched
<1>4. b = a + 1
  BY <1>1, <1>2, <1>3 DEF MustSplit, Span, Units
<1>5. \A d \in In(w) : <<d, d + 1>> = w
  BY <1>1, <1>4 DEF In, Units
<1>6. QED
  BY <1>2, <1>3, <1>5 DEF Dense

\* The units of what is left after a window.
LEMMA UnitsOfRest ==
    ASSUME NEW ws \in Seq(Window), ws # <<>>, NEW rest \in Seq(Window), rest = Tail(ws), NEW d,
           NEW i \in DOMAIN ws, d \in In(ws[i]), d \notin In(Head(ws))
    PROVE  \E j \in DOMAIN rest : d \in In(rest[j])
<1>1. i # 1
  OBVIOUS
<1>2. i \in 2 .. Len(ws)
  <2>1. DOMAIN ws = 1 .. Len(ws) /\ Len(ws) \in Nat
    OBVIOUS
  <2>2. QED
    BY <1>1, <2>1
<1>3. i - 1 \in DOMAIN rest /\ rest[i - 1] = ws[i]
  BY <1>2
<1>4. QED
  BY <1>3

-----------------------------------------------------------------------------

USE DEF runVars, folderVars, tagVars, jobVars, taskVars, adminVars

RunStatus == {"none", "deleted"} \cup ActiveRun \cup FinishedRun
Result    == {"ok", "error", "cancelled"}

\* The types of the variables the argument is about.
Shape ==
    /\ runStatus \in [Runs -> RunStatus]
    /\ pc \in [Runs -> PC]
    /\ result \in [Runs -> Result]

\* A request that is about to insert its run has not done so before.
StartsAreNew == \A r \in Runs : r \in starting => runStatus[r] = "none"

\* What keeps a second run out is the index on the INSERT; what keeps
\* mark_run_running and mark_run_finished, which carry no condition, away from a
\* finished run is that no task is left to call them.
IInv == Shape /\ RunsMatchTasks /\ StartsAreNew

-----------------------------------------------------------------------------
(* Steps, by what they do to the run and its task *)

\* A step of the task of r that leaves it at work on an active run.
GoesOn(r) ==
    /\ pc[r] # "idle"
    /\ \E to \in PC \ {"idle"} : pc' = [pc EXCEPT ![r] = to]
    /\ runStatus' = runStatus \/ runStatus' = [runStatus EXCEPT ![r] = "running"]
    /\ result' \in [Runs -> Result]
    /\ starting' = starting

\* A step that concerns no run and no task, but may announce a new run.
Aside ==
    /\ UNCHANGED <<runStatus, pc, result>>
    /\ \A r \in Runs : r \in starting' => r \in starting \/ runStatus[r] = "none"

\* A folder that ends leaves its run at the next folder or at its finish.
LEMMA FolderGoesOn ==
    ASSUME Shape, NEW r \in Runs, NEW how, NEW cancelled \in BOOLEAN, pc[r] # "idle",
           FolderEnds(r, how, cancelled), UNCHANGED <<runStatus, starting>>
    PROVE  GoesOn(r)
BY DEF FolderEnds, GoesOn, Shape, PC, Result

\* Creating, posting and waiting for a job.
LEMMA JobStepsGoOn ==
    ASSUME Shape, NEW r \in Runs,
           \/ CreateJob(r) \/ SetCurrentJob(r) \/ PostWebhook(r) \/ WebhookReturns(r)
           \/ Poll(r) \/ CancelAwaitedJob(r) \/ LookAtJob(r)
    PROVE  GoesOn(r)
<1> USE DEF GoesOn, Step, Shape, PC, Result
<1>1. CASE CreateJob(r)
  BY <1>1 DEF CreateJob
<1>2. CASE SetCurrentJob(r)
  BY <1>2 DEF SetCurrentJob
<1>3. CASE PostWebhook(r)
  BY <1>3 DEF PostWebhook
<1>4. CASE WebhookReturns(r)
  BY <1>4 DEF WebhookReturns
<1>5. CASE Poll(r)
  BY <1>5 DEF Poll
<1>6. CASE CancelAwaitedJob(r)
  BY <1>6 DEF CancelAwaitedJob
<1>7. CASE LookAtJob(r)
  BY <1>7 DEF LookAtJob
<1>8. QED
  BY <1>1, <1>2, <1>3, <1>4, <1>5, <1>6, <1>7

\* The discovery, the tagging and the loop over the folders.
LEMMA RunStepsGoOn ==
    ASSUME Shape, NEW r \in Runs,
           \/ MarkRunRunning(r) \/ ReadWatermark(r) \/ EndDiscovery(r) \/ TagFolders(r)
           \/ ListFolders(r) \/ NextFolder(r)
    PROVE  GoesOn(r)
<1> USE DEF GoesOn, Step, Shape, PC, Result
<1>1. CASE MarkRunRunning(r)
  BY <1>1 DEF MarkRunRunning
<1>2. CASE ReadWatermark(r)
  BY <1>2 DEF ReadWatermark
<1>3. CASE EndDiscovery(r)
  BY <1>3 DEF EndDiscovery
<1>4. CASE TagFolders(r)
  BY <1>4 DEF TagFolders
<1>5. CASE ListFolders(r)
  BY <1>5 DEF ListFolders
<1>6. CASE NextFolder(r)
  BY <1>6 DEF NextFolder
<1>7. QED
  BY <1>1, <1>2, <1>3, <1>4, <1>5, <1>6

\* The windows of a folder.
LEMMA WindowStepsGoOn ==
    ASSUME Shape, NEW r \in Runs, NextWindow(r) \/ EndWindow(r)
    PROVE  GoesOn(r)
<1>1. CASE NextWindow(r)
  <2>1. pc[r] # "idle" /\ UNCHANGED <<runStatus, starting>>
    BY <1>1 DEF NextWindow
  <2>2. CASE pc' = [pc EXCEPT ![r] = "create"] /\ UNCHANGED result
    BY <2>1, <2>2 DEF GoesOn, Shape, PC
  <2>3. CASE \E how \in {"listo", "parcial"}, cancelled \in BOOLEAN : FolderEnds(r, how, cancelled)
    BY <2>1, <2>3, FolderGoesOn
  <2>4. QED
    BY <1>1, <2>2, <2>3 DEF NextWindow
<1>2. CASE EndWindow(r)
  <2>1. pc[r] # "idle" /\ UNCHANGED <<runStatus, starting>>
    BY <1>2 DEF EndWindow
  <2>2. CASE result[r] = "cancelled"
    BY <1>2, <2>1, <2>2, FolderGoesOn DEF EndWindow
  <2>3. CASE result[r] # "cancelled"
    BY <1>2, <2>1, <2>3 DEF EndWindow, GoesOn, Shape, PC, Result
  <2>4. QED
    BY <2>2, <2>3
<1>3. QED
  BY <1>1, <1>2

\* The jobs, the cancellations and the requests that have yet to insert.
LEMMA JobsStandAside ==
    ASSUME NEW s \in Slots, JobStep(s) \/ CancelCurrentJob(s)
    PROVE  Aside
BY DEF JobStep, N8nStarts, N8nUpsertsFolders, N8nEnds, N8nLoses, UserCancelsJob, UserDeletesJob,
       CancelCurrentJob, Aside

\* A request of the admin that inserts nothing.
LEMMA RequestsStandAside ==
    ASSUME NEW r \in Runs, BeginStart(r) \/ RequestCancel(r)
    PROVE  Aside
BY DEF BeginStart, RequestCancel, Aside

-----------------------------------------------------------------------------
(* The invariant *)

\* A run ends with one of the four finished statuses.
LEMMA FinalStatusType ==
    ASSUME Shape, NEW r \in Runs
    PROVE  FinalStatus(r) \in FinishedRun
BY DEF FinalStatus, Shape, Result, FinishedRun

\* A task at work keeps the invariant.
LEMMA GoesOnKeeps ==
    ASSUME IInv, NEW r \in Runs, GoesOn(r)
    PROVE  IInv'
<1> USE DEF IInv, GoesOn, Shape, RunsMatchTasks, IsActive, ActiveRun, RunStatus, StartsAreNew
<1>1. IsActive(r)
  OBVIOUS
<1>2. Shape'
  OBVIOUS
<1>3. \A q \in Runs : IsActive(q)' <=> IsActive(q)
  BY <1>1
<1>4. \A q \in Runs : (pc'[q] = "idle") <=> (pc[q] = "idle")
  OBVIOUS
<1>5. StartsAreNew'
  BY <1>1
<1>6. QED
  BY <1>2, <1>3, <1>4, <1>5

\* So does the end of a run: task and run stop together.
LEMMA FinishKeeps ==
    ASSUME IInv, NEW r \in Runs, FinishRun(r)
    PROVE  IInv'
<1>1. FinalStatus(r) \in FinishedRun
  BY FinalStatusType DEF IInv
<1>2. /\ runStatus' = [runStatus EXCEPT ![r] = FinalStatus(r)]
      /\ pc' = [q \in Runs |-> IF q \in {r} THEN "idle" ELSE pc[q]]
      /\ result' = [q \in Runs |-> IF q \in {r} THEN "ok" ELSE result[q]]
  BY DEF FinishRun, Return
<1>3. Shape'
  BY <1>1, <1>2 DEF IInv, Shape, RunStatus, PC, Result
<1>4. ~IsActive(r)' /\ pc'[r] = "idle"
  BY <1>1, <1>2 DEF IsActive, ActiveRun, FinishedRun, IInv, Shape
<1>5. \A q \in Runs \ {r} : runStatus'[q] = runStatus[q] /\ pc'[q] = pc[q]
  BY <1>2 DEF IInv, Shape
<1>6. RunsMatchTasks'
  BY <1>4, <1>5 DEF IInv, RunsMatchTasks, IsActive
<1>7. StartsAreNew'
  BY <1>1, <1>2 DEF FinishRun, IInv, Shape, StartsAreNew, RunsMatchTasks, IsActive, ActiveRun
<1>8. QED
  BY <1>3, <1>6, <1>7 DEF IInv

\* The INSERT of a run goes through the partial unique index.
LEMMA StartKeeps ==
    ASSUME IInv, NEW r \in Runs, NEW m \in Mailboxes, StartIndex(r, m)
    PROVE  IInv'
<1>1. CASE \A q \in Runs : ~IsActive(q)
  <2>1. /\ runStatus' = [runStatus EXCEPT ![r] = "queued"]
        /\ pc' = [pc EXCEPT ![r] = "queued"]
        /\ result' = result
    BY <1>1 DEF StartIndex
  <2>2. QED
    BY <1>1, <2>1 DEF StartIndex, IInv, Shape, RunsMatchTasks, IsActive, ActiveRun, RunStatus, PC,
                      StartsAreNew
<1>2. CASE ~(\A q \in Runs : ~IsActive(q))
  BY <1>2 DEF StartIndex, IInv, Shape, RunsMatchTasks, IsActive, StartsAreNew
<1>3. QED
  BY <1>1, <1>2

\* Start-up closes the run whose task has died, and only the deletion of
\* finished runs takes rows away.
LEMMA RestartKeeps ==
    ASSUME IInv, Restart \/ DeleteFinishedRuns
    PROVE  IInv'
<1>1. CASE Restart
  BY <1>1 DEF Restart, FailOrphanedRuns, Return, IInv, Shape, RunsMatchTasks, IsActive,
              ActiveRun, FinishedRun, RunStatus, PC, Result, StartsAreNew
<1>2. CASE DeleteFinishedRuns
  BY <1>2 DEF DeleteFinishedRuns, IInv, Shape, RunsMatchTasks, IsActive, ActiveRun, FinishedRun,
              RunStatus, StartsAreNew
<1>3. QED
  BY <1>1, <1>2

\* What a step of a task may be.
LEMMA TaskCases ==
    ASSUME Shape, NEW r \in Runs, TaskStep(r)
    PROVE  GoesOn(r) \/ FinishRun(r)
BY JobStepsGoOn, RunStepsGoOn, WindowStepsGoOn DEF TaskStep

\* The invariant is inductive.
LEMMA Inductive == IInv /\ [Next]_vars => IInv'
<1> SUFFICES ASSUME IInv, [Next]_vars PROVE IInv'
  OBVIOUS
<1>1. ASSUME Aside PROVE IInv'
  BY <1>1 DEF Aside, IInv, Shape, RunsMatchTasks, IsActive, StartsAreNew
<1>2. CASE UNCHANGED vars
  BY <1>1, <1>2 DEF vars, Aside
<1>3. ASSUME NEW r \in Runs, TaskStep(r)
      PROVE  IInv'
  BY <1>3, TaskCases, GoesOnKeeps, FinishKeeps DEF IInv
<1>4. ASSUME NEW r \in Runs, AdminStep(r)
      PROVE  IInv'
  BY <1>1, <1>4, StartKeeps, RequestsStandAside DEF AdminStep
<1>5. ASSUME NEW s \in Slots, JobStep(s) \/ CancelCurrentJob(s)
      PROVE  IInv'
  BY <1>1, <1>5, JobsStandAside
<1>6. QED
  BY <1>2, <1>3, <1>4, <1>5, RestartKeeps DEF Next

\* No run has been started: the invariant holds.
LEMMA Initially == Init => IInv
BY DEF Init, IInv, Shape, RunsMatchTasks, StartsAreNew, IsActive, ActiveRun, RunStatus, PC,
       Result

-----------------------------------------------------------------------------
(* The results *)

\* At most one run is active and run_index is at work exactly for it, for any
\* number of runs that race to start and any crash.
THEOREM OneRunAtATime == Spec => []RunsMatchTasks
<1>1. IInv => RunsMatchTasks
  BY DEF IInv
<1>2. QED
  BY <1>1, Initially, Inductive, PTL DEF Spec

FinishedStays ==
    \A r \in Runs : runStatus[r] \in FinishedRun => runStatus'[r] \in {runStatus[r], "deleted"}

\* A step leaves the finished runs alone, but for their deletion.
LEMMA StepsKeepFinished == IInv /\ [Next]_vars => FinishedStays
<1> SUFFICES ASSUME IInv, [Next]_vars PROVE FinishedStays
  OBVIOUS
<1> USE DEF FinishedStays
<1>1. ASSUME UNCHANGED runStatus PROVE FinishedStays
  BY <1>1
<1>2. ASSUME NEW r \in Runs, IsActive(r), NEW v, runStatus' = [runStatus EXCEPT ![r] = v]
      PROVE  FinishedStays
  BY <1>2 DEF IInv, Shape, IsActive, ActiveRun, FinishedRun
<1>3. ASSUME NEW r \in Runs, TaskStep(r)
      PROVE  FinishedStays
  <2>1. pc[r] # "idle" => IsActive(r)
    BY DEF IInv, RunsMatchTasks
  <2>2. CASE GoesOn(r)
    BY <1>1, <1>2, <2>1, <2>2 DEF GoesOn
  <2>3. CASE FinishRun(r)
    BY <1>2, <2>1, <2>3 DEF FinishRun
  <2>4. QED
    BY <1>3, <2>2, <2>3, TaskCases DEF IInv
<1>4. ASSUME NEW r \in Runs, NEW m \in Mailboxes, StartIndex(r, m)
      PROVE  FinishedStays
  <2>1. runStatus[r] = "none"
    BY <1>4 DEF StartIndex, IInv, StartsAreNew
  <2>2. runStatus' = runStatus \/ runStatus' = [runStatus EXCEPT ![r] = "queued"]
    BY <1>4 DEF StartIndex
  <2>3. QED
    BY <1>1, <2>1, <2>2 DEF IInv, Shape, FinishedRun
<1>5. ASSUME Aside PROVE FinishedStays
  BY <1>1, <1>5 DEF Aside
<1>6. ASSUME NEW r \in Runs, AdminStep(r)
      PROVE  FinishedStays
  BY <1>4, <1>5, <1>6, RequestsStandAside DEF AdminStep
<1>7. ASSUME NEW s \in Slots, JobStep(s) \/ CancelCurrentJob(s)
      PROVE  FinishedStays
  BY <1>5, <1>7, JobsStandAside
<1>8. CASE Restart \/ DeleteFinishedRuns
  BY <1>8 DEF Restart, FailOrphanedRuns, DeleteFinishedRuns, IInv, Shape, IsActive, ActiveRun,
              FinishedRun
<1>9. CASE UNCHANGED vars
  BY <1>1, <1>9 DEF vars
<1>10. QED
  BY <1>3, <1>6, <1>7, <1>8, <1>9 DEF Next

\* A finished run is history: nothing but its deletion changes it, although
\* mark_run_running and mark_run_finished carry no condition.
THEOREM FinishedRunsAreFinal == Spec => FinishedRunIsFinal
<1>1. IInv /\ [Next]_vars => [FinishedStays]_vars
  BY StepsKeepFinished
<1>2. QED
  BY <1>1, Initially, Inductive, PTL DEF Spec, FinishedRunIsFinal, FinishedStays

-----------------------------------------------------------------------------
(* The status of a run and those of its folders *)

FolderStatus == {"none", "pendiente", "indexando", "listo", "parcial"}

FolderShape ==
    /\ folderStatus \in [Runs -> [Folders -> FolderStatus]]
    /\ todo \in [Runs -> Seq(Folders)]
    /\ cancelRequested \in [Runs -> BOOLEAN]

\* Where a folder that is indexando can be: its task is at its windows, and at
\* none of another folder.
AtWindows == {"create", "created", "post", "posting", "poll", "cancel", "look", "result", "window"}

Awaited(r, f) == \E i \in DOMAIN todo[r] : todo[r][i] = f

\* The loop over the folders of a run: what is still pendiente is ahead of it,
\* what is indexando is the folder it is at, and it ends well only past the last
\* one.  Nothing is said of the folder rows of a task that died.
Loop(r) ==
    /\ pc[r] # "idle" => \A f \in Folders :
          /\ folderStatus[r][f] = "pendiente" => Awaited(r, f)
          /\ folderStatus[r][f] = "indexando" =>
                pc[r] \in AtWindows /\ todo[r] # <<>> /\ f = Head(todo[r])
    /\ pc[r] \in {"tag", "list"} => todo[r] = <<>> /\ result[r] = "ok"
    /\ pc[r] = "window" => todo[r] # <<>>
    /\ pc[r] = "finish" /\ result[r] = "ok" =>
          \A f \in Folders : folderStatus[r][f] # "pendiente"
    /\ pc[r] = "cancel" \/ result[r] = "cancelled" => cancelRequested[r]
    /\ runStatus[r] = "none" => \A f \in Folders : folderStatus[r][f] = "none"

\* StatusReflectsFolders for one run, folder by folder.
Reflects(r) ==
    /\ runStatus[r] = "success" => \A f \in Folders : folderStatus[r][f] \in {"none", "listo"}
    /\ runStatus[r] = "partial" =>
          /\ \E f \in Folders : folderStatus[r][f] = "parcial"
          /\ \A f \in Folders : folderStatus[r][f] # "pendiente"
    /\ runStatus[r] = "cancelled" => cancelRequested[r]
    /\ runStatus[r] \in {"success", "partial", "cancelled"} =>
          \A f \in Folders : folderStatus[r][f] # "indexando"

FoldersInv == IInv /\ FolderShape /\ \A r \in Runs : Loop(r) /\ Reflects(r)

\* A set of folders in a sequence: all of them, no other, each once.
LEMMA SequenceOfSet ==
    ASSUME NEW S \in SUBSET Folders
    PROVE  /\ SetToSeq(S) \in Seq(Folders)
           /\ \A f \in S : \E i \in DOMAIN SetToSeq(S) : SetToSeq(S)[i] = f
           /\ \A i \in DOMAIN SetToSeq(S) : SetToSeq(S)[i] \in S
           /\ \A i, j \in DOMAIN SetToSeq(S) : SetToSeq(S)[i] = SetToSeq(S)[j] => i = j
<1>1. IsFiniteSet(S)
  BY FS_Subset, FoldersAssumption
<1>2. Cardinality(S) \in Nat /\ ExistsBijection(1 .. Cardinality(S), S)
  BY <1>1, FS_CardinalityType
<1> DEFINE n == Cardinality(S)
<1>3. \E g \in [1 .. n -> S] : IsInjective(g)
  BY <1>2 DEF ExistsBijection, Bijection, Injection, IsInjective
<1>4. SetToSeq(S) \in [1 .. n -> S] /\ IsInjective(SetToSeq(S))
  BY <1>3 DEF SetToSeq
<1>5. PICK g : g = SetToSeq(S)
  OBVIOUS
<1>6. g \in Seq(Folders)
  BY <1>2, <1>4, <1>5
<1>7. g \in Injection(1 .. n, S)
  BY <1>4, <1>5 DEF Injection, IsInjective
<1>8. IsFiniteSet(1 .. n) /\ Cardinality(1 .. n) = n
  BY <1>2, FS_Interval
<1>9. g \in Surjection(1 .. n, S)
  BY <1>1, <1>7, <1>8, FS_Injection
<1>10. \A f \in S : \E i \in 1 .. n : g[i] = f
  BY <1>9 DEF Surjection
<1>11. DOMAIN g = 1 .. n
  BY <1>4, <1>5
<1>12. \A i, j \in 1 .. n : g[i] = g[j] => i = j
  BY <1>4, <1>5, <1>11 DEF IsInjective
<1>13. \A i \in 1 .. n : g[i] \in S
  BY <1>4, <1>5
<1>14. QED
  BY <1>5, <1>6, <1>10, <1>11, <1>12, <1>13

\* A step that leaves the rows of a run and the place of its task alone.
Still(r) ==
    /\ runStatus'[r] = runStatus[r] /\ pc'[r] = pc[r] /\ result'[r] = result[r]
    /\ folderStatus'[r] = folderStatus[r] /\ todo'[r] = todo[r]
    /\ cancelRequested[r] => cancelRequested'[r]

\* Such a step keeps what is said of that run.
LEMMA StillKeeps ==
    ASSUME NEW r \in Runs, Loop(r), Reflects(r), Still(r)
    PROVE  Loop(r)' /\ Reflects(r)'
BY DEF Still, Loop, Reflects, Awaited

\* A step of the task of r, for the other runs.
Elsewhere(r) == FolderShape' /\ \A q \in Runs \ {r} : Still(q)

\* Creating, posting and waiting for a job; the poll reads the flag.
LEMMA JobStepsLoop ==
    ASSUME Shape, FolderShape, NEW r \in Runs, Loop(r),
           \/ CreateJob(r) \/ SetCurrentJob(r) \/ PostWebhook(r) \/ WebhookReturns(r)
           \/ Poll(r) \/ CancelAwaitedJob(r) \/ LookAtJob(r)
    PROVE  Elsewhere(r) /\ Loop(r)'
<1>1. PICK from \in AtWindows \ {"window"}, to \in AtWindows \ {"window"} :
         /\ pc[r] = from /\ pc' = [pc EXCEPT ![r] = to]
         /\ to = "cancel" => cancelRequested[r]
  BY DEF CreateJob, SetCurrentJob, PostWebhook, WebhookReturns, Poll, CancelAwaitedJob, LookAtJob,
         Step, AtWindows
<1>2. UNCHANGED <<runStatus, folderStatus, todo, cancelRequested>>
  BY DEF CreateJob, SetCurrentJob, PostWebhook, WebhookReturns, Poll, CancelAwaitedJob, LookAtJob
<1>3. /\ \A q \in Runs \ {r} : result'[q] = result[q]
      /\ result'[r] = "cancelled" => result[r] = "cancelled" \/ pc[r] = "cancel"
  BY DEF CreateJob, SetCurrentJob, PostWebhook, WebhookReturns, Poll, CancelAwaitedJob, LookAtJob,
         Step, Shape
<1>4. Elsewhere(r)
  BY <1>1, <1>2, <1>3 DEF Elsewhere, Still, FolderShape, Shape
<1>5. pc'[r] = to
  BY <1>1 DEF Shape
<1>6. QED
  BY <1>1, <1>2, <1>3, <1>4, <1>5 DEF Loop, Awaited, AtWindows

\* From the start to the list of folders.
LEMMA DiscoveryStepsLoop ==
    ASSUME Shape, FolderShape, NEW r \in Runs, Loop(r),
           MarkRunRunning(r) \/ ReadWatermark(r) \/ EndDiscovery(r) \/ TagFolders(r)
    PROVE  FolderShape' /\ (\A q \in Runs \ {r} : Still(q)) /\ Loop(r)'
<1> USE DEF Shape, FolderShape, Still, Loop, Awaited, AtWindows
<1>1. CASE MarkRunRunning(r)
  BY <1>1 DEF MarkRunRunning, Step
<1>2. CASE ReadWatermark(r)
  BY <1>2 DEF ReadWatermark, Step
<1>3. CASE EndDiscovery(r)
  BY <1>3 DEF EndDiscovery, Step, Discovering
<1>4. CASE TagFolders(r)
  BY <1>4 DEF TagFolders, Step
<1>5. QED
  BY <1>1, <1>2, <1>3, <1>4

\* Every folder listed is pendiente and ahead.
LEMMA ListFoldersLoop ==
    ASSUME Shape, FolderShape, NEW r \in Runs, Loop(r), ListFolders(r), runStatus[r] # "none"
    PROVE  Elsewhere(r) /\ Loop(r)'
<1>1. PICK S \in SUBSET Folders :
         /\ pc[r] = "list" /\ pc' = [pc EXCEPT ![r] = IF S = {} THEN "finish" ELSE "folder"]
         /\ todo' = [todo EXCEPT ![r] = SetToSeq(S)]
         /\ folderStatus' = [folderStatus EXCEPT ![r] =
                [f \in Folders |-> IF f \in S THEN "pendiente" ELSE folderStatus[r][f]]]
  <2>1. PICK S : S = {f \in Folders : tag[f] = runMailbox[r]}
    OBVIOUS
  <2>2. QED
    BY <2>1 DEF ListFolders, Step
<1>2. UNCHANGED <<runStatus, result, cancelRequested>>
  BY DEF ListFolders
<1>3. PICK s \in Seq(Folders) : s = SetToSeq(S) /\ \A f \in S : \E i \in DOMAIN s : s[i] = f
  BY SequenceOfSet, ZenonT(30)
<1>4. /\ pc'[r] \in {"finish", "folder"} /\ (pc'[r] = "finish" => S = {})
      /\ todo'[r] = s
      /\ \A f \in Folders : folderStatus'[r][f] =
            IF f \in S THEN "pendiente" ELSE folderStatus[r][f]
  BY <1>1, <1>3 DEF Shape, FolderShape
<1>5. FolderShape'
  BY <1>1, <1>2, <1>3 DEF FolderShape, FolderStatus
<1>6. \A q \in Runs \ {r} : Still(q)
  BY <1>1, <1>2 DEF Still, Shape, FolderShape
<1>7. \A f \in Folders : folderStatus[r][f] \notin {"pendiente", "indexando"}
  BY <1>1 DEF Loop, Awaited, AtWindows
<1>8. Loop(r)'
  BY <1>1, <1>2, <1>3, <1>4, <1>7 DEF Loop, Awaited, AtWindows
<1>9. QED
  BY <1>5, <1>6, <1>8 DEF Elsewhere

\* The next folder is marked, or the loop ends.
LEMMA NextFolderLoop ==
    ASSUME Shape, FolderShape, NEW r \in Runs, Loop(r), NextFolder(r), runStatus[r] # "none"
    PROVE  Elsewhere(r) /\ Loop(r)'
<1>1. pc[r] = "folder" /\ UNCHANGED <<runStatus, cancelRequested, todo>>
  BY DEF NextFolder
<1>2. CASE todo[r] = <<>> \/ cancelRequested[r]
  <2>1. /\ pc' = [pc EXCEPT ![r] = "finish"]
        /\ result' = [result EXCEPT ![r] = IF todo[r] = <<>> THEN "ok" ELSE "cancelled"]
        /\ UNCHANGED folderStatus
    BY <1>2 DEF NextFolder
  <2>2. QED
    BY <1>1, <1>2, <2>1 DEF Elsewhere, Still, Shape, FolderShape, Loop, Awaited, AtWindows
<1>3. CASE ~(todo[r] = <<>> \/ cancelRequested[r])
  <2>1. PICK h \in Folders : h = Head(todo[r])
    BY <1>3 DEF FolderShape
  <2>2. /\ pc' = [pc EXCEPT ![r] = "window"]
        /\ folderStatus' = [folderStatus EXCEPT ![r][h] = "indexando"]
        /\ UNCHANGED result
    BY <1>3, <2>1 DEF NextFolder
  <2>3. /\ pc'[r] = "window"
        /\ \A f \in Folders : folderStatus'[r][f] = IF f = h THEN "indexando" ELSE folderStatus[r][f]
    BY <2>2 DEF Shape, FolderShape
  <2>4. Elsewhere(r)
    BY <1>1, <2>2 DEF Elsewhere, Still, Shape, FolderShape, FolderStatus
  <2>5. QED
    BY <1>1, <1>3, <2>1, <2>2, <2>3, <2>4 DEF Loop, Awaited, AtWindows
<1>4. QED
  BY <1>2, <1>3

\* A folder that ends leaves the list.
LEMMA FolderEndsLoop ==
    ASSUME Shape, FolderShape, NEW r \in Runs, Loop(r), runStatus[r] # "none",
           NEW how \in {"listo", "parcial"}, NEW cancelled \in BOOLEAN, FolderEnds(r, how, cancelled),
           pc[r] # "idle", todo[r] # <<>>, cancelled => cancelRequested[r],
           UNCHANGED <<runStatus, cancelRequested>>
    PROVE  Elsewhere(r) /\ Loop(r)'
<1>1. PICK h \in Folders : h = Head(todo[r])
  BY DEF FolderShape
<1>2. /\ folderStatus' = [folderStatus EXCEPT ![r][h] = how]
      /\ todo' = [todo EXCEPT ![r] = Tail(todo[r])]
      /\ result' = [result EXCEPT ![r] = IF cancelled THEN "cancelled" ELSE "ok"]
      /\ pc' = [pc EXCEPT ![r] = IF cancelled THEN "finish" ELSE "folder"]
  BY <1>1 DEF FolderEnds
<1>3. /\ \A f \in Folders : folderStatus'[r][f] = IF f = h THEN how ELSE folderStatus[r][f]
      /\ todo'[r] = Tail(todo[r])
      /\ result'[r] = (IF cancelled THEN "cancelled" ELSE "ok")
      /\ pc'[r] = (IF cancelled THEN "finish" ELSE "folder")
  BY <1>2 DEF Shape, FolderShape
<1>4. Tail(todo[r]) \in Seq(Folders)
  BY DEF FolderShape
<1>5. Elsewhere(r)
  BY <1>2, <1>4 DEF Elsewhere, Still, Shape, FolderShape, FolderStatus
<1>6. \A f \in Folders \ {h} : Awaited(r, f) => Awaited(r, f)'
  <2> SUFFICES ASSUME NEW f \in Folders \ {h}, NEW i \in DOMAIN todo[r], todo[r][i] = f
               PROVE  \E j \in DOMAIN Tail(todo[r]) : Tail(todo[r])[j] = f
    BY <1>3 DEF Awaited
  <2>1. i \in 2 .. Len(todo[r])
    BY <1>1 DEF FolderShape
  <2>2. i - 1 \in DOMAIN Tail(todo[r]) /\ Tail(todo[r])[i - 1] = f
    BY <2>1 DEF FolderShape
  <2>3. QED
    BY <2>2
<1>7. \A f \in Folders \ {h} : folderStatus[r][f] # "indexando"
  BY <1>1 DEF Loop
<1>8. QED
  BY <1>3, <1>5, <1>6, <1>7 DEF Loop, AtWindows

\* The windows of a folder.
LEMMA WindowStepsLoop ==
    ASSUME Shape, FolderShape, NEW r \in Runs, Loop(r), runStatus[r] # "none",
           NextWindow(r) \/ EndWindow(r)
    PROVE  Elsewhere(r) /\ Loop(r)'
<1>1. /\ pc[r] # "idle" /\ todo[r] # <<>>
      /\ UNCHANGED <<runStatus, cancelRequested>>
  BY DEF NextWindow, EndWindow, Discovering, Loop
<1>2. CASE NextWindow(r)
  <2>1. CASE pc' = [pc EXCEPT ![r] = "create"] /\ UNCHANGED <<folderStatus, todo, result>>
    BY <1>1, <1>2, <2>1 DEF NextWindow, Elsewhere, Still, Shape, FolderShape, Loop, Awaited,
       AtWindows
  <2>2. CASE \E how \in {"listo", "parcial"} : FolderEnds(r, how, FALSE)
    BY <1>1, <2>2, FolderEndsLoop
  <2>3. CASE cancelRequested[r] /\ FolderEnds(r, "parcial", TRUE)
    BY <1>1, <2>3, FolderEndsLoop
  <2>4. QED
    BY <1>2, <2>1, <2>2, <2>3 DEF NextWindow
<1>3. CASE EndWindow(r) /\ result[r] = "cancelled"
  <2>1. cancelRequested[r]
    BY <1>3 DEF Loop
  <2>2. FolderEnds(r, "parcial", TRUE)
    BY <1>3 DEF EndWindow
  <2>3. QED
    BY <1>1, <2>1, <2>2, FolderEndsLoop
<1>4. CASE EndWindow(r) /\ result[r] # "cancelled"
  <2>1. /\ pc[r] = "result" /\ pc' = [pc EXCEPT ![r] = "window"]
        /\ result' = [result EXCEPT ![r] = "ok"]
        /\ UNCHANGED <<folderStatus, todo>>
    BY <1>4 DEF EndWindow
  <2>2. QED
    BY <1>1, <2>1 DEF Elsewhere, Still, Shape, FolderShape, Loop, Awaited, AtWindows
<1>5. QED
  BY <1>2, <1>3, <1>4

\* A task at work on an active run.
LEMMA GoesOnReflects ==
    ASSUME FoldersInv, NEW r \in Runs, TaskStep(r), GoesOn(r)
    PROVE  FoldersInv'
<1>1. IInv'
  BY GoesOnKeeps DEF FoldersInv
<1>2. Shape /\ FolderShape /\ Loop(r) /\ IsActive(r) /\ runStatus[r] # "none"
  BY DEF FoldersInv, IInv, RunsMatchTasks, GoesOn, IsActive, ActiveRun
<1>3. pc'[r] # "idle"
  BY <1>2 DEF GoesOn, Shape
<1>4. Elsewhere(r) /\ Loop(r)'
  <2>1. ~FinishRun(r)
    BY <1>2, <1>3 DEF FinishRun, Return
  <2>2. QED
    BY <1>2, <2>1, JobStepsLoop, DiscoveryStepsLoop, ListFoldersLoop, NextFolderLoop,
       WindowStepsLoop DEF TaskStep, Elsewhere
<1>5. Reflects(r)'
  BY <1>1, <1>3 DEF IInv, RunsMatchTasks, IsActive, ActiveRun, Reflects
<1>6. QED
  BY <1>1, <1>4, <1>5, StillKeeps DEF Elsewhere, FoldersInv

\* The end of a run writes what its folders say.
LEMMA FinishReflects ==
    ASSUME FoldersInv, NEW r \in Runs, FinishRun(r)
    PROVE  FoldersInv'
<1>1. IInv'
  BY FinishKeeps DEF FoldersInv
<1>2. /\ pc[r] = "finish" /\ UNCHANGED <<folderStatus, cancelRequested>>
      /\ runStatus' = [runStatus EXCEPT ![r] = FinalStatus(r)]
      /\ pc' = [q \in Runs |-> IF q \in {r} THEN "idle" ELSE pc[q]]
      /\ result' = [q \in Runs |-> IF q \in {r} THEN "ok" ELSE result[q]]
      /\ todo' = [q \in Runs |-> IF q \in {r} THEN <<>> ELSE todo[q]]
  BY DEF FinishRun, Return
<1>3. Elsewhere(r)
  BY <1>2 DEF Elsewhere, Still, FoldersInv, FolderShape, IInv, Shape
<1>4. runStatus'[r] = FinalStatus(r) /\ FinalStatus(r) \in FinishedRun
  BY <1>2, FinalStatusType DEF FoldersInv, IInv, Shape
<1>5. Loop(r)'
  BY <1>2, <1>4 DEF Loop, FinishedRun
<1>6. /\ \A f \in Folders : folderStatus[r][f] \in FolderStatus \ {"indexando"}
      /\ result[r] = "ok" => \A f \in Folders : folderStatus[r][f] # "pendiente"
      /\ result[r] = "cancelled" => cancelRequested[r]
  <2>1. Loop(r) /\ pc[r] = "finish" /\ folderStatus[r] \in [Folders -> FolderStatus]
    BY <1>2 DEF FoldersInv, FolderShape
  <2>2. \A f \in Folders : folderStatus[r][f] \in FolderStatus /\ folderStatus[r][f] # "indexando"
    BY <2>1 DEF Loop, AtWindows
  <2>3. QED
    BY <2>1, <2>2 DEF Loop
<1>7. /\ FinalStatus(r) = "success" =>
            result[r] = "ok" /\ \A f \in Folders : folderStatus[r][f] \notin {"parcial", "pendiente"}
      /\ FinalStatus(r) = "partial" =>
            /\ result[r] = "ok"
            /\ \E f \in Folders : folderStatus[r][f] \in {"parcial", "pendiente"}
      /\ FinalStatus(r) = "cancelled" => result[r] = "cancelled"
  BY DEF FinalStatus, FoldersInv, IInv, Shape, Result
<1>8. Reflects(r)'
  BY <1>2, <1>4, <1>6, <1>7 DEF Reflects, FolderStatus
<1>9. QED
  BY <1>1, <1>3, <1>5, <1>8, StillKeeps DEF Elsewhere, FoldersInv

\* A start gives a row without folders.
LEMMA StartReflects ==
    ASSUME FoldersInv, NEW r \in Runs, NEW m \in Mailboxes, StartIndex(r, m)
    PROVE  FoldersInv'
<1>1. IInv'
  BY StartKeeps DEF FoldersInv
<1>2. UNCHANGED <<folderStatus, todo, cancelRequested, result>>
  BY DEF StartIndex
<1>3. CASE UNCHANGED <<runStatus, pc>>
  <2>1. FolderShape' /\ \A q \in Runs : Still(q)
    BY <1>2, <1>3 DEF FoldersInv, FolderShape, Still
  <2>2. QED
    BY <1>1, <2>1, StillKeeps DEF FoldersInv
<1>4. CASE runStatus' = [runStatus EXCEPT ![r] = "queued"] /\ pc' = [pc EXCEPT ![r] = "queued"]
  <2>1. runStatus[r] = "none"
    BY DEF StartIndex, FoldersInv, IInv, StartsAreNew
  <2>2. Elsewhere(r)
    BY <1>2, <1>4 DEF Elsewhere, Still, FoldersInv, FolderShape, IInv, Shape
  <2>3. Loop(r)' /\ Reflects(r)'
    BY <1>2, <1>4, <2>1 DEF FoldersInv, IInv, Shape, Loop, Reflects
  <2>4. QED
    BY <1>1, <2>2, <2>3, StillKeeps DEF Elsewhere, FoldersInv
<1>5. QED
  BY <1>3, <1>4 DEF StartIndex

\* Start-up leaves the folder rows of the run it fails as they are.
LEMMA RestartReflects ==
    ASSUME FoldersInv, Restart \/ DeleteFinishedRuns
    PROVE  FoldersInv'
<1>1. IInv'
  BY RestartKeeps DEF FoldersInv
<1>2. CASE Restart
  <2>1. /\ UNCHANGED <<folderStatus, cancelRequested>>
        /\ runStatus' = [r \in Runs |-> IF IsActive(r) THEN "failed" ELSE runStatus[r]]
        /\ pc' = [r \in Runs |-> "idle"] /\ result' = [r \in Runs |-> "ok"]
        /\ todo' = [r \in Runs |-> <<>>]
    BY <1>2 DEF Restart, FailOrphanedRuns, Return
  <2>2. FolderShape'
    BY <2>1 DEF FoldersInv, FolderShape
  <2>3. \A r \in Runs : Loop(r)' /\ Reflects(r)'
    BY <2>1 DEF FoldersInv, Loop, Reflects
  <2>4. QED
    BY <1>1, <2>2, <2>3 DEF FoldersInv
<1>3. CASE DeleteFinishedRuns
  <2>1. /\ UNCHANGED <<cancelRequested, pc, result, todo>>
        /\ runStatus' = [r \in Runs |->
               IF runStatus[r] \in FinishedRun THEN "deleted" ELSE runStatus[r]]
        /\ folderStatus' = [r \in Runs |->
               IF runStatus[r] \in FinishedRun THEN [f \in Folders |-> "none"] ELSE folderStatus[r]]
    BY <1>3 DEF DeleteFinishedRuns
  <2>2. FolderShape'
    BY <2>1 DEF FoldersInv, FolderShape, FolderStatus
  <2>3. \A r \in Runs : Loop(r)' /\ Reflects(r)'
    <3> SUFFICES ASSUME NEW r \in Runs PROVE Loop(r)' /\ Reflects(r)'
      OBVIOUS
    <3>1. CASE runStatus[r] \in FinishedRun
      <4>1. pc[r] = "idle"
        BY <3>1 DEF FoldersInv, IInv, RunsMatchTasks, IsActive, ActiveRun, FinishedRun
      <4>2. QED
        BY <2>1, <3>1, <4>1 DEF FoldersInv, Loop, Reflects
    <3>2. CASE runStatus[r] \notin FinishedRun
      BY <2>1, <3>2, StillKeeps DEF FoldersInv, Still
    <3>3. QED
      BY <3>1, <3>2
  <2>4. QED
    BY <1>1, <2>2, <2>3 DEF FoldersInv
<1>4. QED
  BY <1>2, <1>3

\* A step that is no run's and no task's; a cancellation asked for stays so.
Bystander ==
    /\ UNCHANGED <<runStatus, pc, result, folderStatus, todo>>
    /\ cancelRequested' = cancelRequested
       \/ \E r \in Runs : cancelRequested' = [cancelRequested EXCEPT ![r] = TRUE]

\* The invariant survives the steps of bystanders.
LEMMA BystandersReflect ==
    ASSUME FoldersInv, IInv', Bystander
    PROVE  FoldersInv'
<1>1. FolderShape'
  BY DEF Bystander, FoldersInv, FolderShape
<1>2. \A q \in Runs : Still(q)
  BY DEF Bystander, FoldersInv, FolderShape, Still
<1>3. QED
  BY <1>1, <1>2, StillKeeps DEF FoldersInv

\* The steps of bystanders.
LEMMA BystanderSteps ==
    ASSUME \/ UNCHANGED vars
           \/ \E r \in Runs : BeginStart(r) \/ RequestCancel(r)
           \/ \E s \in Slots : JobStep(s) \/ CancelCurrentJob(s)
    PROVE  Bystander
BY DEF vars, BeginStart, RequestCancel, JobStep, N8nStarts, N8nUpsertsFolders, N8nEnds, N8nLoses,
       UserCancelsJob, UserDeletesJob, CancelCurrentJob, Bystander

\* The invariant of the folders is inductive.
LEMMA FoldersInductive == FoldersInv /\ [Next]_vars => FoldersInv'
<1> SUFFICES ASSUME FoldersInv, [Next]_vars PROVE FoldersInv'
  OBVIOUS
<1>1. IInv'
  BY Inductive DEF FoldersInv
<1>2. ASSUME Bystander PROVE FoldersInv'
  BY <1>1, <1>2, BystandersReflect
<1>3. ASSUME NEW r \in Runs, TaskStep(r)
      PROVE  FoldersInv'
  BY <1>3, TaskCases, GoesOnReflects, FinishReflects DEF FoldersInv, IInv
<1>4. ASSUME NEW r \in Runs, AdminStep(r)
      PROVE  FoldersInv'
  BY <1>2, <1>4, BystanderSteps, StartReflects DEF AdminStep
<1>5. QED
  BY <1>2, <1>3, <1>4, BystanderSteps, RestartReflects DEF Next

\* No folder has been looked at: it holds.
LEMMA FoldersInitially == Init => FoldersInv
<1> SUFFICES ASSUME Init PROVE FoldersInv
  OBVIOUS
<1>1. FolderShape
  BY DEF Init, FolderShape, FolderStatus
<1>2. \A r \in Runs : Loop(r) /\ Reflects(r)
  BY DEF Init, Loop, Reflects
<1>3. QED
  BY <1>1, <1>2, Initially DEF FoldersInv

\* A finished run says what became of its folders: success means all of them
\* listo, partial that one is not and none was left out, cancelled that somebody
\* asked for it; and only a restart leaves a folder in indexando.
THEOREM RunsReflectFolders == Spec => []StatusReflectsFolders
<1>1. FoldersInv => StatusReflectsFolders
  BY DEF FoldersInv, Reflects, FolderShape, FolderStatus, StatusReflectsFolders
<1>2. QED
  BY <1>1, FoldersInitially, FoldersInductive, PTL DEF Spec

-----------------------------------------------------------------------------
(* The types *)

\* TypeOK, by who writes what.
RunTypes ==
    /\ runStatus \in [Runs -> RunStatus]
    /\ runMailbox \in [Runs -> Mailboxes \cup {None}]
    /\ cancelRequested \in [Runs -> BOOLEAN]
    /\ currentJob \in [Runs -> Slots \cup {None}]

FolderTypes ==
    /\ folderStatus \in [Runs -> [Folders -> FolderStatus]]
    /\ counted \in [Runs -> [Folders -> Nat]]
    /\ covered \in [Runs -> [Folders -> SUBSET Units]]

JobTypes ==
    /\ jobStatus \in [Slots -> Job!JobStatus]
    /\ started \in SUBSET Slots
    /\ exec \in [Slots -> {"none", "sent", "live"}]
    /\ discovers \in [Slots -> Mailboxes \cup {None}]

OtherTypes ==
    /\ tag \in [Folders -> Mailboxes \cup {None}]
    /\ fresh \in SUBSET Folders
    /\ starting \in SUBSET Runs
    /\ cancelling \in SUBSET Slots

TaskTypes ==
    /\ pc \in [Runs -> PC]
    /\ job \in [Runs -> Slots \cup {None}]
    /\ polls \in [Runs -> 0 .. MaxPolls]
    /\ result \in [Runs -> Result]
    /\ todo \in [Runs -> Seq(Folders)]
    /\ windows \in [Runs -> Seq(Window)]
    /\ processed \in [Runs -> 0 .. MaxWindows]
    /\ notes \in [Runs -> BOOLEAN]

AtJob == {"created", "post", "posting", "poll", "cancel", "look"}

\* What the local variables of a task hold, by the place it is at.
Locals(r) ==
    /\ pc[r] \in AtJob => job[r] \in Slots
    /\ pc[r] = "poll" => polls[r] < MaxPolls
    /\ pc[r] \in {"idle", "queued", "watermark"} => todo[r] = <<>>
    /\ pc[r] \in AtWindows \ {"window"} /\ todo[r] # <<>> =>
          windows[r] # <<>> /\ processed[r] < MaxWindows

AllLocals == \A r \in Runs : Locals(r)

Types == RunTypes /\ FolderTypes /\ JobTypes /\ OtherTypes /\ TaskTypes

\* The groups are all of TypeOK.
LEMMA TypesAre == TypeOK <=> Types
BY DEF TypeOK, Types, RunTypes, FolderTypes, JobTypes, OtherTypes, TaskTypes, RunStatus,
       FolderStatus, Result, Job!TypeOK

\* The windows a task puts on its list.
LEMMA WindowTypes ==
    /\ << <<0, Horizon>> >> \in Seq(Window)
    /\ \A w \in Window : Span(w) > 1 => Halves(w) \in Seq(Window)
<1>1. Horizon \in Nat \ {0}
  BY BoundsAssumption
<1>2. <<0, Horizon>> \in Window
  BY <1>1 DEF Window, Units
<1>3. ASSUME NEW w \in Window, Span(w) > 1
      PROVE  Halves(w) \in Seq(Window)
  <2>1. Halves(w)[1] \in Window /\ Halves(w)[2] \in Window
    BY <1>1, <1>3, HalvesPartition
  <2>2. PICK a \in Window, b \in Window : Halves(w) = <<a, b>>
    BY <2>1 DEF Halves
  <2>3. QED
    BY <2>2
<1>4. QED
  BY <1>2, <1>3

\* A folder that ends leaves the task with no window, and one folder less.
LEMMA FolderEndsTypes ==
    ASSUME TaskTypes, AllLocals, NEW r \in Runs, NEW how, NEW cancelled \in BOOLEAN,
           FolderEnds(r, how, cancelled), todo[r] # <<>>,
           UNCHANGED <<job, polls, processed, notes>>
    PROVE  TaskTypes' /\ AllLocals'
<1>1. Tail(todo[r]) \in Seq(Folders)
  BY DEF TaskTypes
<1>2. /\ todo' = [todo EXCEPT ![r] = Tail(todo[r])]
      /\ windows' = [windows EXCEPT ![r] = <<>>]
      /\ result' = [result EXCEPT ![r] = IF cancelled THEN "cancelled" ELSE "ok"]
      /\ pc' = [pc EXCEPT ![r] = IF cancelled THEN "finish" ELSE "folder"]
  BY DEF FolderEnds
<1>3. <<>> \in Seq(Window)
  OBVIOUS
<1>4. TaskTypes'
  BY <1>1, <1>2, <1>3 DEF TaskTypes, PC, Result
<1>5. QED
  BY <1>2, <1>4 DEF TaskTypes, AllLocals, Locals, AtJob, AtWindows

\* A step of a task keeps the types of the local variables: polls and processed
\* stay within their bounds, and a window that is awaited is on the list.
LEMMA TaskStepTypes ==
    ASSUME TaskTypes, AllLocals, NEW r \in Runs, Loop(r), TaskStep(r) \/ BeginStart(r) \/ RequestCancel(r)
    PROVE  TaskTypes' /\ AllLocals'
<1> USE DEF TaskTypes, AllLocals, Locals, AtJob, AtWindows, Step, PC, Discovering, Result
<1> USE BoundsAssumption
<1>1. CASE CreateJob(r)
  BY <1>1 DEF CreateJob
<1>2. CASE SetCurrentJob(r)
  BY <1>2 DEF SetCurrentJob
<1>3. CASE PostWebhook(r)
  BY <1>3 DEF PostWebhook
<1>4. CASE WebhookReturns(r)
  BY <1>4 DEF WebhookReturns
<1>5. CASE Poll(r)
  BY <1>5 DEF Poll
<1>6. CASE CancelAwaitedJob(r)
  BY <1>6 DEF CancelAwaitedJob
<1>7. CASE LookAtJob(r)
  BY <1>7 DEF LookAtJob
<1>8. CASE MarkRunRunning(r)
  BY <1>8 DEF MarkRunRunning
<1>9. CASE ReadWatermark(r)
  BY <1>9 DEF ReadWatermark
<1>10. CASE EndDiscovery(r)
  BY <1>10 DEF EndDiscovery
<1>11. CASE TagFolders(r)
  BY <1>11 DEF TagFolders
<1>12. CASE ListFolders(r)
  <2>1. PICK S \in SUBSET Folders :
           /\ pc[r] = "list" /\ pc' = [pc EXCEPT ![r] = IF S = {} THEN "finish" ELSE "folder"]
           /\ todo' = [todo EXCEPT ![r] = SetToSeq(S)]
    <3>1. PICK S : S = {f \in Folders : tag[f] = runMailbox[r]}
      OBVIOUS
    <3>2. QED
      BY <1>12, <3>1 DEF ListFolders
  <2>2. PICK s \in Seq(Folders) : s = SetToSeq(S)
    BY SequenceOfSet
  <2>3. QED
    BY <1>12, <2>1, <2>2 DEF ListFolders
<1>13. CASE NextFolder(r)
  <2>1. PICK w \in Seq(Window) : w = << <<0, Horizon>> >>
    BY WindowTypes
  <2>2. QED
    <3>1. CASE todo[r] = <<>> \/ cancelRequested[r]
      BY <1>13, <3>1, ZenonT(30) DEF NextFolder
    <3>2. CASE ~(todo[r] = <<>> \/ cancelRequested[r])
      <4>1. /\ pc' = [pc EXCEPT ![r] = "window"]
            /\ windows' = [windows EXCEPT ![r] = w]
            /\ processed' = [processed EXCEPT ![r] = 0]
            /\ notes' = [notes EXCEPT ![r] = FALSE]
            /\ UNCHANGED <<job, polls, result, todo>>
        BY <1>13, <2>1, <3>2 DEF NextFolder
      <4>2. 0 \in 0 .. MaxWindows
        OBVIOUS
      <4>3. TaskTypes'
        BY <4>1, <4>2
      <4>4. QED
        BY <4>1, <4>3
    <3>3. QED
      BY <3>1, <3>2
<1>14. CASE NextWindow(r)
  <2>1. CASE windows[r] # <<>> /\ processed[r] < MaxWindows /\ pc' = [pc EXCEPT ![r] = "create"]
             /\ UNCHANGED <<folderStatus, todo, windows, result>>
    BY <1>14, <2>1 DEF NextWindow
  <2>2. CASE \E how \in {"listo", "parcial"}, cancelled \in BOOLEAN : FolderEnds(r, how, cancelled)
    <3>1. todo[r] # <<>>
      BY <1>14 DEF NextWindow, Loop
    <3>2. QED
      BY <1>14, <2>2, <3>1, FolderEndsTypes DEF NextWindow
  <2>3. QED
    BY <1>14, <2>1, <2>2 DEF NextWindow
<1>15. CASE EndWindow(r)
  <2>1. todo[r] # <<>> /\ windows[r] # <<>> /\ processed[r] < MaxWindows
    BY <1>15 DEF EndWindow
  <2>2. CASE result[r] = "cancelled"
    BY <1>15, <2>1, <2>2, FolderEndsTypes DEF EndWindow
  <2>3. CASE result[r] # "cancelled"
    <3>1. PICK f, w : f = Head(todo[r]) /\ w = Head(windows[r])
      OBVIOUS
    <3>2. PICK ws \in Seq(Window) : windows' = [windows EXCEPT ![r] = ws]
      <4>1. w \in Window /\ Tail(windows[r]) \in Seq(Window)
        BY <2>1, <3>1
      <4>2. MustSplit(f, w) => Halves(w) \in Seq(Window)
        BY <4>1, WindowTypes DEF MustSplit
      <4>3. PICK rest \in Seq(Window) : rest = Tail(windows[r])
        BY <4>1
      <4>4. windows' = [windows EXCEPT ![r] =
                    IF result[r] = "ok" /\ MustSplit(f, w) THEN rest \o Halves(w) ELSE rest]
        BY <1>15, <2>3, <3>1, <4>3 DEF EndWindow
      <4>5. MustSplit(f, w) => rest \o Halves(w) \in Seq(Window)
        BY <4>2
      <4>6. QED
        BY <4>4, <4>5
    <3>3. /\ pc' = [pc EXCEPT ![r] = "window"]
          /\ processed' = [processed EXCEPT ![r] = processed[r] + 1]
          /\ notes' = [notes EXCEPT ![r] = notes[r] \/ result[r] = "error"]
          /\ result' = [result EXCEPT ![r] = "ok"]
          /\ UNCHANGED <<job, polls, todo>>
      BY <1>15, <2>3 DEF EndWindow
    <3>4. QED
      BY <2>1, <3>2, <3>3
  <2>4. QED
    BY <2>2, <2>3
<1>16. CASE FinishRun(r)
  <2>1. /\ pc' = [q \in Runs |-> IF q = r THEN "idle" ELSE pc[q]]
        /\ job' = [q \in Runs |-> IF q = r THEN None ELSE job[q]]
        /\ polls' = [q \in Runs |-> IF q = r THEN 0 ELSE polls[q]]
        /\ result' = [q \in Runs |-> IF q = r THEN "ok" ELSE result[q]]
        /\ todo' = [q \in Runs |-> IF q = r THEN <<>> ELSE todo[q]]
        /\ windows' = [q \in Runs |-> IF q = r THEN <<>> ELSE windows[q]]
        /\ processed' = [q \in Runs |-> IF q = r THEN 0 ELSE processed[q]]
        /\ notes' = [q \in Runs |-> IF q = r THEN FALSE ELSE notes[q]]
    BY <1>16 DEF FinishRun, Return
  <2>2. TaskTypes'
    <3>1. 0 \in 0 .. MaxPolls /\ 0 \in 0 .. MaxWindows
      OBVIOUS
    <3>2. <<>> \in Seq(Folders) /\ <<>> \in Seq(Window)
      OBVIOUS
    <3>3. QED
      BY <2>1, <3>1, <3>2
  <2>3. QED
    BY <2>1, <2>2
<1>17. CASE BeginStart(r)
  BY <1>17 DEF BeginStart
<1>18. CASE RequestCancel(r)
  BY <1>18 DEF RequestCancel
<1>19. QED
  BY <1>1, <1>2, <1>3, <1>4, <1>5, <1>6, <1>7, <1>8, <1>9, <1>10, <1>11, <1>12, <1>13, <1>14,
     <1>15, <1>16, <1>17, <1>18 DEF TaskStep

\* The rows of the runs.
LEMMA RunTypesKept ==
    ASSUME RunTypes, AllLocals, TaskTypes, Shape, [Next]_vars
    PROVE  RunTypes'
<1>1. ASSUME UNCHANGED runVars PROVE RunTypes'
  BY <1>1 DEF RunTypes
<1>2. ASSUME NEW r \in Runs, TaskStep(r)
      PROVE  RunTypes'
  <2>1. CASE UNCHANGED runVars
    BY <1>1, <2>1
  <2>2. CASE SetCurrentJob(r)
    BY <2>2 DEF SetCurrentJob, RunTypes, AllLocals, Locals, AtJob, Step
  <2>3. CASE MarkRunRunning(r)
    BY <2>3 DEF MarkRunRunning, RunTypes, RunStatus, ActiveRun
  <2>4. CASE EndDiscovery(r)
    BY <2>4 DEF EndDiscovery, RunTypes
  <2>5. CASE FinishRun(r)
    BY <2>5, FinalStatusType DEF FinishRun, RunTypes, RunStatus
  <2>6. QED
    BY <1>2, <2>1, <2>2, <2>3, <2>4, <2>5
    DEF TaskStep, CreateJob, PostWebhook, WebhookReturns, Poll, CancelAwaitedJob, LookAtJob,
        ReadWatermark, TagFolders, ListFolders, NextFolder, NextWindow, EndWindow
<1>3. ASSUME NEW r \in Runs, AdminStep(r)
      PROVE  RunTypes'
  <2>1. CASE BeginStart(r)
    BY <1>1, <2>1 DEF BeginStart
  <2>2. ASSUME NEW m \in Mailboxes, StartIndex(r, m) PROVE RunTypes'
    BY <2>2 DEF StartIndex, RunTypes, RunStatus, ActiveRun
  <2>3. CASE RequestCancel(r)
    BY <2>3 DEF RequestCancel, RunTypes
  <2>4. QED
    BY <1>3, <2>1, <2>2, <2>3 DEF AdminStep
<1>4. ASSUME NEW s \in Slots, JobStep(s) \/ CancelCurrentJob(s)
      PROVE  RunTypes'
  BY <1>1, <1>4 DEF JobStep, N8nStarts, N8nUpsertsFolders, N8nEnds, N8nLoses, UserCancelsJob,
                    UserDeletesJob, CancelCurrentJob
<1>5. CASE DeleteFinishedRuns
  BY <1>5 DEF DeleteFinishedRuns, RunTypes, RunStatus
<1>6. CASE Restart
  BY <1>6 DEF Restart, FailOrphanedRuns, RunTypes, RunStatus, FinishedRun
<1>7. CASE UNCHANGED vars
  BY <1>1, <1>7 DEF vars
<1>8. QED
  BY <1>2, <1>3, <1>4, <1>5, <1>6, <1>7 DEF Next

\* The numbers and the units a window adds are those of the folder.
LEMMA FolderTypesKept ==
    ASSUME FolderTypes, TaskTypes, AllLocals, \A r \in Runs : Loop(r), FolderShape', [Next]_vars
    PROVE  FolderTypes'
<1>1. ASSUME UNCHANGED <<counted, covered>> PROVE FolderTypes'
  BY <1>1 DEF FolderTypes, FolderShape
<1>2. ASSUME NEW r \in Runs, TaskStep(r)
      PROVE  FolderTypes'
  <2>1. CASE UNCHANGED <<counted, covered>>
    BY <1>1, <2>1
  <2>2. CASE EndWindow(r) /\ result[r] # "cancelled"
    <3>1. PICK f \in Folders, w \in Window : f = Head(todo[r]) /\ w = Head(windows[r])
      BY <2>2 DEF EndWindow, Discovering, TaskTypes, AllLocals, Locals, AtWindows
    <3>2. /\ counted' = [counted EXCEPT ![r][f] =
                    IF result[r] = "ok" THEN @ + Contribution(f, w) ELSE @]
          /\ covered' = [covered EXCEPT ![r][f] =
                    IF result[r] = "ok" /\ ~Truncated(f, w) THEN @ \cup In(w) ELSE @]
      BY <2>2, <3>1 DEF EndWindow
    <3>3. Contribution(f, w) \in Nat /\ In(w) \in SUBSET Units
      BY WindowFetches
    <3>4. QED
      BY <3>2, <3>3 DEF FolderTypes, FolderShape
  <2>3. QED
    BY <1>2, <2>1, <2>2
    DEF TaskStep, CreateJob, SetCurrentJob, PostWebhook, WebhookReturns, Poll, CancelAwaitedJob,
        LookAtJob, MarkRunRunning, ReadWatermark, EndDiscovery, TagFolders, ListFolders,
        NextFolder, NextWindow, EndWindow, FinishRun
<1>3. CASE \E r \in Runs : AdminStep(r)
  BY <1>1, <1>3 DEF AdminStep, BeginStart, StartIndex, RequestCancel
<1>4. CASE \E s \in Slots : JobStep(s) \/ CancelCurrentJob(s)
  BY <1>1, <1>4 DEF JobStep, N8nStarts, N8nUpsertsFolders, N8nEnds, N8nLoses, UserCancelsJob,
                    UserDeletesJob, CancelCurrentJob
<1>5. CASE DeleteFinishedRuns \/ Restart \/ UNCHANGED vars
  BY <1>1, <1>5 DEF DeleteFinishedRuns, Restart, vars
<1>6. QED
  BY <1>2, <1>3, <1>4, <1>5 DEF Next

\* The tags, and the requests in flight.
LEMMA OtherTypesKept ==
    ASSUME OtherTypes, RunTypes, [Next]_vars
    PROVE  OtherTypes'
<1> USE DEF OtherTypes
<1>1. ASSUME NEW r \in Runs, TaskStep(r)
      PROVE  OtherTypes'
  <2>1. CASE TagFolders(r)
    BY <2>1 DEF TagFolders, RunTypes
  <2>2. CASE ReadWatermark(r)
    BY <2>2 DEF ReadWatermark
  <2>3. QED
    BY <1>1, <2>1, <2>2
    DEF TaskStep, CreateJob, SetCurrentJob, PostWebhook, WebhookReturns, Poll, CancelAwaitedJob,
        LookAtJob, MarkRunRunning, EndDiscovery, ListFolders,
        NextFolder, NextWindow, EndWindow, FinishRun
<1>2. ASSUME NEW r \in Runs, AdminStep(r) PROVE OtherTypes'
  BY <1>2 DEF AdminStep, BeginStart, StartIndex, RequestCancel, RunTypes
<1>3. ASSUME NEW s \in Slots, JobStep(s) \/ CancelCurrentJob(s) PROVE OtherTypes'
  BY <1>3 DEF JobStep, N8nStarts, N8nUpsertsFolders, N8nEnds, N8nLoses, UserCancelsJob,
                    UserDeletesJob, CancelCurrentJob
<1>4. CASE DeleteFinishedRuns \/ Restart \/ UNCHANGED vars
  BY <1>4 DEF DeleteFinishedRuns, Restart, vars
<1>5. QED
  BY <1>1, <1>2, <1>3, <1>4 DEF Next

\* The rows of the jobs and what runs behind them.
LEMMA JobTypesKept ==
    ASSUME JobTypes, RunTypes, AllLocals, [Next]_vars
    PROVE  JobTypes'
<1> USE DEF JobTypes, Job!JobStatus, Job!Active, Job!Terminal
<1>1. ASSUME NEW r \in Runs, TaskStep(r)
      PROVE  JobTypes'
  <2>1. CASE CreateJob(r)
    BY <2>1 DEF CreateJob, RunTypes
  <2>2. CASE PostWebhook(r)
    BY <2>2 DEF PostWebhook, AllLocals, Locals, AtJob, Step
  <2>3. CASE WebhookReturns(r)
    BY <2>3 DEF WebhookReturns
  <2>4. CASE CancelAwaitedJob(r)
    BY <2>4 DEF CancelAwaitedJob, CancelRow
  <2>5. QED
    BY <1>1, <2>1, <2>2, <2>3, <2>4
    DEF TaskStep, SetCurrentJob, Poll, LookAtJob, MarkRunRunning, ReadWatermark, EndDiscovery,
        TagFolders, ListFolders, NextFolder, NextWindow, EndWindow, FinishRun
<1>2. CASE \E r \in Runs : AdminStep(r)
  BY <1>2 DEF AdminStep, BeginStart, StartIndex, RequestCancel
<1>3. ASSUME NEW s \in Slots, JobStep(s) \/ CancelCurrentJob(s)
      PROVE  JobTypes'
  <2>1. CASE N8nStarts(s)
    BY <2>1 DEF N8nStarts, Job!Start
  <2>2. CASE N8nEnds(s)
    BY <2>2 DEF N8nEnds, Job!Finish
  <2>3. CASE UserCancelsJob(s) \/ UserDeletesJob(s)
    BY <2>3 DEF UserCancelsJob, UserDeletesJob, Job!Cancel, Job!Delete
  <2>4. CASE N8nUpsertsFolders(s) \/ N8nLoses(s) \/ CancelCurrentJob(s)
    BY <2>4 DEF N8nUpsertsFolders, N8nLoses, CancelCurrentJob, CancelRow
  <2>5. QED
    BY <1>3, <2>1, <2>2, <2>3, <2>4 DEF JobStep
<1>4. CASE DeleteFinishedRuns \/ Restart \/ UNCHANGED vars
  BY <1>4 DEF DeleteFinishedRuns, Restart, vars
<1>5. QED
  BY <1>1, <1>2, <1>3, <1>4 DEF Next

\* The local variables, in every step.
LEMMA TaskTypesKept ==
    ASSUME TaskTypes, AllLocals, FoldersInv, [Next]_vars
    PROVE  TaskTypes' /\ AllLocals'
<1>1. ASSUME UNCHANGED taskVars PROVE TaskTypes' /\ AllLocals'
  BY <1>1 DEF TaskTypes, AllLocals, Locals
<1>2. ASSUME NEW r \in Runs, TaskStep(r) \/ AdminStep(r)
      PROVE  TaskTypes' /\ AllLocals'
  <2>1. CASE TaskStep(r)
    BY <2>1, TaskStepTypes DEF FoldersInv
  <2>2. ASSUME NEW m \in Mailboxes, StartIndex(r, m) PROVE TaskTypes' /\ AllLocals'
    <3>1. pc[r] = "idle"
      BY <2>2 DEF StartIndex, FoldersInv, IInv, StartsAreNew, RunsMatchTasks, IsActive, ActiveRun
    <3>2. QED
      BY <2>2, <3>1 DEF StartIndex, TaskTypes, PC, AllLocals, Locals, AtJob, AtWindows
  <2>3. QED
    BY <1>1, <1>2, <2>1, <2>2 DEF AdminStep, BeginStart, RequestCancel
<1>3. CASE \E s \in Slots : JobStep(s) \/ CancelCurrentJob(s)
  BY <1>1, <1>3 DEF JobStep, N8nStarts, N8nUpsertsFolders, N8nEnds, N8nLoses, UserCancelsJob,
                    UserDeletesJob, CancelCurrentJob
<1>4. CASE Restart
  <2>1. /\ pc' = [q \in Runs |-> "idle"] /\ job' = [q \in Runs |-> None]
        /\ polls' = [q \in Runs |-> 0] /\ result' = [q \in Runs |-> "ok"]
        /\ todo' = [q \in Runs |-> <<>>] /\ windows' = [q \in Runs |-> <<>>]
        /\ processed' = [q \in Runs |-> 0] /\ notes' = [q \in Runs |-> FALSE]
    BY <1>4 DEF Restart, Return
  <2>2. 0 \in 0 .. MaxPolls /\ 0 \in 0 .. MaxWindows
    BY BoundsAssumption
  <2>3. <<>> \in Seq(Folders) /\ <<>> \in Seq(Window)
    OBVIOUS
  <2>4. QED
    BY <2>1, <2>2, <2>3 DEF TaskTypes, PC, Result, AllLocals, Locals, AtJob, AtWindows
<1>5. CASE DeleteFinishedRuns \/ UNCHANGED vars
  BY <1>1, <1>5 DEF DeleteFinishedRuns, vars
<1>6. QED
  BY <1>2, <1>3, <1>4, <1>5 DEF Next

TypesInv == FoldersInv /\ Types /\ AllLocals

\* Types and places are kept together.
LEMMA TypesInductive == TypesInv /\ [Next]_vars => TypesInv'
<1> SUFFICES ASSUME TypesInv, [Next]_vars PROVE TypesInv'
  OBVIOUS
<1> USE DEF TypesInv, Types
<1>1. FoldersInv'
  BY FoldersInductive
<1>2. FolderShape' /\ Shape /\ \A r \in Runs : Loop(r)
  BY <1>1 DEF FoldersInv, IInv
<1>3. QED
  BY <1>1, <1>2, RunTypesKept, FolderTypesKept, JobTypesKept, OtherTypesKept, TaskTypesKept

\* No task is at work: the types hold.
LEMMA TypesInitially == Init => TypesInv
<1> SUFFICES ASSUME Init PROVE TypesInv
  OBVIOUS
<1>1. RunTypes /\ FolderTypes /\ JobTypes /\ OtherTypes
  BY DEF Init, Job!Init, RunTypes, RunStatus, FolderTypes, FolderStatus, JobTypes, Job!JobStatus,
         OtherTypes
<1>2. TaskTypes /\ AllLocals
  <2>1. 0 \in 0 .. MaxPolls /\ 0 \in 0 .. MaxWindows
    BY BoundsAssumption
  <2>2. <<>> \in Seq(Folders) /\ <<>> \in Seq(Window)
    OBVIOUS
  <2>3. QED
    BY <2>1, <2>2 DEF Init, TaskTypes, PC, Result, AllLocals, Locals, AtJob, AtWindows
<1>3. QED
  BY <1>1, <1>2, FoldersInitially DEF TypesInv, Types

\* Every variable keeps its type: no poll beyond its limit, no window beyond the
\* valve, no step on a job row that the task has not created.
THEOREM TypesHold == Spec => []TypeOK
<1>1. TypesInv => TypeOK
  BY TypesAre DEF TypesInv
<1>2. QED
  BY <1>1, TypesInitially, TypesInductive, PTL DEF Spec

-----------------------------------------------------------------------------
(* What a folder called listo has *)

\* The folder whose windows the task of r is at.
Visits(r, f) == pc[r] \in AtWindows /\ todo[r] # <<>> /\ f = Head(todo[r])

\* The task of r has not listed its folders yet.
Early(r) ==
    pc[r] \in {"queued", "watermark", "tag", "list"} \/ (pc[r] \in AtWindows /\ todo[r] = <<>>)

\* No window of the folder is done.
Untouched(r, f) == counted[r][f] = 0 /\ covered[r][f] = {}

\* A run has each folder once on its list, and the ones ahead are pendiente and
\* untouched: no folder is visited twice.
Ahead(r) ==
    /\ \A i, j \in DOMAIN todo[r] : todo[r][i] = todo[r][j] => i = j
    /\ pc[r] \in {"folder"} \cup AtWindows => \A i \in DOMAIN todo[r] :
          pc[r] = "folder" \/ i # 1 => folderStatus[r][todo[r][i]] = "pendiente"
    /\ \A f \in Folders : Visits(r, f) => folderStatus[r][f] = "indexando"
    /\ Early(r) => \A f \in Folders : folderStatus[r][f] = "none"
    /\ pc[r] # "idle" \/ runStatus[r] = "none" => \A f \in Folders :
          folderStatus[r][f] \in {"none", "pendiente"} => Untouched(r, f)

\* The count of a folder and what its pending windows still hold add up to the whole.
AddsUp(S, r, f) == Sums(S, f, windows[r], counted[r][f])

\* Every unit was fetched whole, is too dense, or is in a pending window.
NothingLost(r, f) ==
    \A d \in Units : \/ d \in covered[r][f] \/ Dense(f, d)
                     \/ \E i \in DOMAIN windows[r] : d \in In(windows[r][i])

\* As long as no window of the folder failed, nothing of it is lost or counted twice.
OnTrack(r) == \A f \in Folders :
    Visits(r, f) /\ ~notes[r] => (\E S : AddsUp(S, r, f)) /\ NothingLost(r, f)

\* What listo promises.
Settled(r) == \A f \in Folders : folderStatus[r][f] = "listo" =>
    /\ counted[r][f] = Fetchable(f)[Horizon]
    /\ \A d \in Units : d \in covered[r][f] \/ Dense(f, d)

Books(r) == Ahead(r) /\ OnTrack(r) /\ Settled(r)

-----------------------------------------------------------------------------
(* Steps, by what they do to the books of a run *)

\* The folders of a run are left as they are.
SameRows(r) ==
    /\ folderStatus'[r] = folderStatus[r] /\ counted'[r] = counted[r] /\ covered'[r] = covered[r]
    /\ todo'[r] = todo[r] /\ windows'[r] = windows[r] /\ notes'[r] = notes[r]

\* A step that leaves a task where it is with respect to its folders.
Passes(r) ==
    /\ SameRows(r)
    /\ runStatus'[r] = "none" => runStatus[r] = "none"
    /\ \/ pc'[r] = pc[r]
       \/ pc[r] # "idle" /\ pc'[r] # "folder"
          /\ (pc'[r] \in AtWindows /\ todo[r] # <<>> => pc[r] \in AtWindows)
          /\ (Early(r)' => Early(r))

\* Such a step keeps the books.
LEMMA PassesKeeps ==
    ASSUME NEW r \in Runs, Books(r), Passes(r)
    PROVE  Books(r)'
<1> USE DEF Books, Passes, SameRows
<1>1. Ahead(r)'
  BY DEF Ahead, Early, Visits, Untouched
<1>2. OnTrack(r)'
  BY DEF OnTrack, Visits, AddsUp, Sums, NothingLost
<1>3. Settled(r)'
  BY DEF Settled
<1>4. QED
  BY <1>1, <1>2, <1>3

\* A task that stops: its run is over, or the backend has restarted.
LEMMA StopsKeeps ==
    ASSUME NEW r \in Runs, Books(r), pc'[r] = "idle", todo'[r] = <<>>,
           \/ folderStatus'[r] = folderStatus[r]
           \/ folderStatus'[r] = [f \in Folders |-> "none"] /\ runStatus'[r] # "none",
           counted'[r] = counted[r], covered'[r] = covered[r],
           runStatus'[r] = "none" => runStatus[r] = "none"
    PROVE  Books(r)'
<1> USE DEF Books
<1>1. Ahead(r)'
  BY DEF Ahead, Early, Visits, Untouched, AtWindows
<1>2. OnTrack(r)'
  BY DEF OnTrack, Visits
<1>3. Settled(r)'
  BY DEF Settled
<1>4. QED
  BY <1>1, <1>2, <1>3

-----------------------------------------------------------------------------
(* The steps that turn the pages *)

\* The list of folders: untouched, each once.
LEMMA ListFoldersBooks ==
    ASSUME TypesInv, NEW r \in Runs, Books(r), ListFolders(r)
    PROVE  Books(r)'
<1>1. PICK S \in SUBSET Folders :
         /\ pc[r] = "list" /\ pc' = [pc EXCEPT ![r] = IF S = {} THEN "finish" ELSE "folder"]
         /\ todo' = [todo EXCEPT ![r] = SetToSeq(S)]
         /\ folderStatus' = [folderStatus EXCEPT ![r] =
                [f \in Folders |-> IF f \in S THEN "pendiente" ELSE folderStatus[r][f]]]
  <2>1. PICK S : S = {f \in Folders : tag[f] = runMailbox[r]}
    OBVIOUS
  <2>2. QED
    BY <2>1 DEF ListFolders, Step
<1>2. UNCHANGED <<counted, covered>>
  BY DEF ListFolders
<1>3. PICK s \in Seq(Folders) :
         /\ s = SetToSeq(S) /\ \A i \in DOMAIN s : s[i] \in S
         /\ \A i, j \in DOMAIN s : s[i] = s[j] => i = j
  BY SequenceOfSet
<1>4. /\ pc'[r] \in {"finish", "folder"} /\ todo'[r] = s
      /\ \A f \in Folders : folderStatus'[r][f] =
            IF f \in S THEN "pendiente" ELSE folderStatus[r][f]
  BY <1>1, <1>3 DEF TypesInv, Types, TaskTypes, FolderTypes
<1>5. \A f \in Folders : folderStatus[r][f] = "none" /\ Untouched(r, f)
  BY <1>1 DEF Books, Ahead, Early
<1>6. Ahead(r)'
  BY <1>2, <1>3, <1>4, <1>5 DEF Ahead, Early, Visits, Untouched, AtWindows
<1>7. OnTrack(r)'
  BY <1>4 DEF OnTrack, Visits, AtWindows
<1>8. Settled(r)'
  BY <1>4, <1>5 DEF Settled
<1>9. QED
  BY <1>6, <1>7, <1>8 DEF Books

\* The first window of a folder is the whole history.
LEMMA NextFolderBooks ==
    ASSUME TypesInv, NEW r \in Runs, Books(r), NextFolder(r)
    PROVE  Books(r)'
<1>1. pc[r] = "folder" /\ UNCHANGED <<counted, covered, todo>>
  BY DEF NextFolder
<1>2. CASE todo[r] = <<>> \/ cancelRequested[r]
  <2>1. pc' = [pc EXCEPT ![r] = "finish"] /\ UNCHANGED <<folderStatus, windows, notes, runStatus>>
    BY <1>2 DEF NextFolder
  <2>2. Passes(r)
    BY <1>1, <2>1 DEF Passes, SameRows, Early, AtWindows, TypesInv, Types, TaskTypes
  <2>3. QED
    BY <2>2, PassesKeeps
<1>3. CASE ~(todo[r] = <<>> \/ cancelRequested[r])
  <2>1. PICK h \in Folders : h = Head(todo[r])
    BY <1>3 DEF TypesInv, Types, TaskTypes
  <2>2. /\ pc' = [pc EXCEPT ![r] = "window"]
        /\ folderStatus' = [folderStatus EXCEPT ![r][h] = "indexando"]
        /\ windows' = [windows EXCEPT ![r] = << <<0, Horizon>> >>]
    BY <1>3, <2>1 DEF NextFolder
  <2>3. /\ pc'[r] = "window" /\ windows'[r] = << <<0, Horizon>> >>
        /\ \A f \in Folders : folderStatus'[r][f] = IF f = h THEN "indexando" ELSE folderStatus[r][f]
    BY <2>2 DEF TypesInv, Types, TaskTypes, FolderTypes
  <2>4. 1 \in DOMAIN todo[r] /\ todo[r][1] = h /\ todo[r] \in Seq(Folders)
    BY <1>3, <2>1 DEF TypesInv, Types, TaskTypes
  <2>5. \A i \in DOMAIN todo[r] \ {1} : todo[r][i] # h /\ todo[r][i] \in Folders
    BY <2>4 DEF Books, Ahead
  <2>6. \A i \in DOMAIN todo[r] : folderStatus[r][todo[r][i]] = "pendiente"
    BY <1>1 DEF Books, Ahead
  <2>7. Untouched(r, h)
    BY <1>1, <2>4, <2>6 DEF Books, Ahead
  <2>8. Ahead(r)'
    BY <1>1, <1>3, <2>1, <2>3, <2>4, <2>5, <2>6 DEF Books, Ahead, Early, Visits, Untouched,
       AtWindows
  <2>9. OnTrack(r)'
    <3> SUFFICES ASSUME NEW f \in Folders, Visits(r, f)'
                 PROVE  ((\E S : AddsUp(S, r, f)) /\ NothingLost(r, f))'
      BY DEF OnTrack
    <3>1. f = h
      BY <1>1, <2>1 DEF Visits
    <3>2. counted'[r][f] = 0
      BY <1>1, <2>7, <3>1 DEF Untouched
    <3>3. Horizon \in Nat /\ Fetchable(f) \in [0 .. Horizon -> Nat] /\ Fetchable(f)[0] = 0
      BY MessagesType, FetchableSums
    <3>4. PICK S : S = [i \in 0 .. 1 |-> IF i = 0 THEN 0 ELSE Fetchable(f)[Horizon]]
      OBVIOUS
    <3>5. Len(windows'[r]) = 1 /\ windows'[r][1] = <<0, Horizon>>
      BY <2>3
    <3>6. Weight(f, <<0, Horizon>>) = Fetchable(f)[Horizon] /\ Fetchable(f)[Horizon] \in Nat
      BY <3>3 DEF Weight
    <3>7. AddsUp(S, r, f)'
      <4>1. S \in [0 .. 1 -> Int] /\ S[0] = 0 /\ S[1] = Fetchable(f)[Horizon]
        BY <3>4, <3>6
      <4>2. \A i \in 1 .. 1 : S[i] = S[i - 1] + Weight(f, windows'[r][i])
        BY <3>5, <3>6, <4>1
      <4>3. QED
        BY <3>2, <3>5, <4>1, <4>2 DEF AddsUp, Sums
    <3>8. NothingLost(r, f)'
      <4>1. \A d \in Units : d \in In(<<0, Horizon>>)
        BY <3>3 DEF In, Units
      <4>2. QED
        BY <3>5, <4>1 DEF NothingLost
    <3>9. QED
      BY <3>7, <3>8
  <2>10. Settled(r)'
    BY <1>1, <2>3 DEF Books, Settled
  <2>11. QED
    BY <2>8, <2>9, <2>10 DEF Books
<1>4. QED
  BY <1>2, <1>3

\* A folder that ends as listo has no window left, and nothing noted.
LEMMA FolderEndsBooks ==
    ASSUME TypesInv, NEW r \in Runs, Books(r), NEW how \in {"listo", "parcial"},
           NEW cancelled \in BOOLEAN, FolderEnds(r, how, cancelled),
           pc[r] \in AtWindows, todo[r] # <<>>, UNCHANGED <<counted, covered>>,
           how = "listo" => windows[r] = <<>> /\ ~notes[r]
    PROVE  Books(r)'
<1>1. PICK h \in Folders : h = Head(todo[r])
  BY DEF TypesInv, Types, TaskTypes
<1>2. /\ folderStatus' = [folderStatus EXCEPT ![r][h] = how]
      /\ todo' = [todo EXCEPT ![r] = Tail(todo[r])]
      /\ pc' = [pc EXCEPT ![r] = IF cancelled THEN "finish" ELSE "folder"]
  BY <1>1 DEF FolderEnds
<1>3. /\ pc'[r] \in {"finish", "folder"} /\ todo'[r] = Tail(todo[r])
      /\ \A f \in Folders : folderStatus'[r][f] = IF f = h THEN how ELSE folderStatus[r][f]
  BY <1>2 DEF TypesInv, Types, TaskTypes, FolderTypes
<1>4. todo[r] \in Seq(Folders) /\ todo[r][1] = h
  BY <1>1 DEF TypesInv, Types, TaskTypes
<1>5. \A i \in DOMAIN Tail(todo[r]) :
         i + 1 \in DOMAIN todo[r] \ {1} /\ Tail(todo[r])[i] = todo[r][i + 1]
  BY <1>4
<1>6. \A i \in DOMAIN todo[r] \ {1} :
         /\ todo[r][i] # h /\ todo[r][i] \in Folders
         /\ folderStatus[r][todo[r][i]] = "pendiente"
  BY <1>4 DEF Books, Ahead
<1>7. Ahead(r)'
  <2>1. \A i, j \in DOMAIN todo'[r] : todo'[r][i] = todo'[r][j] => i = j
    <3> SUFFICES ASSUME NEW i \in DOMAIN Tail(todo[r]), NEW j \in DOMAIN Tail(todo[r]),
                        Tail(todo[r])[i] = Tail(todo[r])[j]
                 PROVE  i = j
      BY <1>3
    <3>1. i + 1 = j + 1
      BY <1>5 DEF Books, Ahead
    <3>2. QED
      BY <1>4, <3>1
  <2>2. \A i \in DOMAIN todo'[r] : folderStatus'[r][todo'[r][i]] = "pendiente"
    BY <1>3, <1>5, <1>6
  <2>3. \A f \in Folders : folderStatus'[r][f] \in {"none", "pendiente"} =>
           f # h /\ Untouched(r, f)
    BY <1>3 DEF Books, Ahead, AtWindows
  <2>4. QED
    BY <1>3, <2>1, <2>2, <2>3 DEF Ahead, Early, Visits, Untouched, AtWindows
<1>8. OnTrack(r)'
  BY <1>3 DEF OnTrack, Visits, AtWindows
<1>9. Settled(r)'
  <2> SUFFICES ASSUME NEW f \in Folders, folderStatus'[r][f] = "listo"
               PROVE  /\ counted[r][f] = Fetchable(f)[Horizon]
                      /\ \A d \in Units : d \in covered[r][f] \/ Dense(f, d)
    BY DEF Settled
  <2>1. CASE f # h
    BY <1>3, <2>1 DEF Books, Settled
  <2>2. CASE f = h
    <3>1. windows[r] = <<>> /\ ~notes[r] /\ Visits(r, f)
      BY <1>1, <1>3, <2>2 DEF Visits
    <3>2. PICK S : AddsUp(S, r, f)
      BY <3>1 DEF Books, OnTrack
    <3>3. NothingLost(r, f)
      BY <3>1 DEF Books, OnTrack
    <3>4. Len(windows[r]) = 0 /\ DOMAIN windows[r] = {}
      BY <3>1
    <3>5. QED
      BY <3>2, <3>3, <3>4 DEF AddsUp, Sums, NothingLost
  <2>3. QED
    BY <2>1, <2>2
<1>10. QED
  BY <1>7, <1>8, <1>9 DEF Books

\* A window that is done.
LEMMA EndWindowBooks ==
    ASSUME TypesInv, NEW r \in Runs, Books(r), EndWindow(r), result[r] # "cancelled"
    PROVE  Books(r)'
<1>1. /\ pc[r] = "result" /\ todo[r] # <<>> /\ windows[r] # <<>>
      /\ todo[r] \in Seq(Folders) /\ windows[r] \in Seq(Window)
  BY DEF EndWindow, Discovering, TypesInv, Types, TaskTypes, AllLocals, Locals, AtWindows
<1>2. PICK f \in Folders, w \in Window, rest \in Seq(Window) :
         f = Head(todo[r]) /\ w = Head(windows[r]) /\ rest = Tail(windows[r])
  <2>1. Head(todo[r]) \in Folders
    BY <1>1
  <2>2. Head(windows[r]) \in Window /\ Tail(windows[r]) \in Seq(Window)
    BY <1>1
  <2>3. QED
    BY <2>1, <2>2
<1>3. /\ pc' = [pc EXCEPT ![r] = "window"]
      /\ notes' = [notes EXCEPT ![r] = notes[r] \/ result[r] = "error"]
      /\ windows' = [windows EXCEPT ![r] =
           IF result[r] = "ok" /\ MustSplit(f, w) THEN rest \o Halves(w) ELSE rest]
      /\ counted' = [counted EXCEPT ![r][f] =
           IF result[r] = "ok" THEN @ + Contribution(f, w) ELSE @]
      /\ covered' = [covered EXCEPT ![r][f] =
           IF result[r] = "ok" /\ ~Truncated(f, w) THEN @ \cup In(w) ELSE @]
      /\ UNCHANGED <<folderStatus, todo, runStatus>>
  BY <1>2 DEF EndWindow
<1>4. /\ pc'[r] = "window"
      /\ notes'[r] = (notes[r] \/ result[r] = "error")
      /\ windows'[r] = IF result[r] = "ok" /\ MustSplit(f, w) THEN rest \o Halves(w) ELSE rest
      /\ \A g \in Folders \ {f} :
            counted'[r][g] = counted[r][g] /\ covered'[r][g] = covered[r][g]
      /\ counted'[r][f] = IF result[r] = "ok" THEN counted[r][f] + Contribution(f, w)
                          ELSE counted[r][f]
      /\ covered'[r][f] = IF result[r] = "ok" /\ ~Truncated(f, w) THEN covered[r][f] \cup In(w)
                          ELSE covered[r][f]
  BY <1>3 DEF TypesInv, Types, TaskTypes, FolderTypes
<1>5. Visits(r, f) /\ folderStatus[r][f] = "indexando"
  BY <1>1, <1>2 DEF Visits, AtWindows, Books, Ahead
<1>6. Ahead(r)'
  BY <1>1, <1>3, <1>4, <1>5 DEF Books, Ahead, Early, Visits, Untouched, AtWindows
<1>7. Settled(r)'
  BY <1>3, <1>4, <1>5 DEF Books, Settled
<1>8. OnTrack(r)'
  <2> SUFFICES ASSUME NEW g \in Folders, Visits(r, g)', ~notes'[r]
               PROVE  ((\E S : AddsUp(S, r, g)) /\ NothingLost(r, g))'
    BY DEF OnTrack
  <2>1. g = f /\ result[r] = "ok" /\ ~notes[r]
    <3>1. result[r] \in Result
      BY DEF TypesInv, Types, TaskTypes
    <3>2. QED
      BY <1>2, <1>3, <1>4, <3>1 DEF Visits, Result
  <2>2. PICK S : AddsUp(S, r, f)
    BY <1>5, <2>1 DEF Books, OnTrack
  <2>3. NothingLost(r, f)
    BY <1>5, <2>1 DEF Books, OnTrack
  <2>4. counted[r][f] \in Int
    BY DEF TypesInv, Types, FolderTypes
  <2>5. PICK ws \in Seq(Window), c \in Int :
           /\ ws = windows[r] /\ ws # <<>> /\ rest = Tail(ws) /\ w = Head(ws) /\ c = counted[r][f]
           /\ Sums(S, f, ws, c)
    BY <1>1, <1>2, <2>2, <2>4 DEF AddsUp
  <2>6. \A d \in Units : \/ d \in covered[r][f] \/ Dense(f, d) \/ d \in In(w)
                         \/ \E j \in DOMAIN rest : d \in In(rest[j])
    <3> SUFFICES ASSUME NEW d \in Units, NEW i \in DOMAIN windows[r], d \in In(windows[r][i]),
                        d \notin In(w)
                 PROVE  \E j \in DOMAIN rest : d \in In(rest[j])
      BY <2>3 DEF NothingLost
    <3>1. PICK vs \in Seq(Window) : vs = windows[r]
      BY <1>1
    <3>2. vs # <<>> /\ rest = Tail(vs) /\ w = Head(vs)
      BY <1>1, <1>2, <3>1
    <3>3. QED
      BY <3>1, <3>2, UnitsOfRest
  <2>7. CASE MustSplit(f, w)
    <3>1. Span(w) > 1
      BY <2>7 DEF MustSplit
    <3>2. PICK u \in Window, v \in Window :
             /\ Halves(w) = <<u, v>> /\ In(w) = In(u) \cup In(v)
             /\ Weight(f, u) + Weight(f, v) = Weight(f, w)
      <4>1. Horizon \in Nat
        BY MessagesType
      <4>2. Halves(w) = <<Halves(w)[1], Halves(w)[2]>>
        BY DEF Halves
      <4>3. /\ Halves(w)[1] \in Window /\ Halves(w)[2] \in Window
            /\ In(Halves(w)[1]) \cup In(Halves(w)[2]) = In(w)
        BY <3>1, <4>1, HalvesPartition
      <4>4. QED
        BY <3>1, <4>2, <4>3, WeightType
    <3>3. PICK ts : ts = rest \o <<u, v>>
      OBVIOUS
    <3>4. /\ Len(ts) = Len(rest) + 2
          /\ \A i \in 1 .. Len(rest) : ts[i] = rest[i]
          /\ ts[Len(rest) + 1] = u /\ ts[Len(rest) + 2] = v
          /\ ts \in Seq(Window)
      BY <3>3, TwoMore
    <3>5. windows'[r] = ts /\ counted'[r][f] = counted[r][f]
      BY <1>4, <2>1, <2>4, <2>7, <3>2, <3>3 DEF Contribution
    <3>6. \E Z : AddsUp(Z, r, f)'
      <4>1. \E Z : Sums(Z, f, Tail(ws) \o <<u, v>>, c)
        BY <2>5, <3>2, SumsAfterSplit
      <4>2. QED
        BY <2>5, <3>5, <3>3, <4>1 DEF AddsUp
    <3>7. NothingLost(r, f)'
      <4>1. /\ \A j \in DOMAIN rest : j \in DOMAIN ts /\ ts[j] = rest[j]
            /\ Len(rest) + 1 \in DOMAIN ts /\ Len(rest) + 2 \in DOMAIN ts
        BY <3>4
      <4>2. covered[r][f] \subseteq covered'[r][f]
        BY <1>4
      <4>3. QED
        BY <2>6, <3>2, <3>4, <3>5, <4>1, <4>2 DEF NothingLost, Dense
    <3>8. QED
      BY <2>1, <3>6, <3>7
  <2>8. CASE ~MustSplit(f, w)
    <3>1. windows'[r] = rest /\ counted'[r][f] = counted[r][f] + Weight(f, w)
      BY <1>4, <2>1, <2>8, UnsplitWeight DEF Contribution
    <3>2. \E Z : AddsUp(Z, r, f)'
      <4>1. \E Z : Sums(Z, f, Tail(ws), c + Weight(f, Head(ws)))
        BY <2>5, SumsAfterFetch
      <4>2. QED
        BY <2>5, <3>1, <4>1 DEF AddsUp
    <3>3. NothingLost(r, f)'
      <4>1. \A d \in Units : d \in In(w) => d \in covered'[r][f] \/ Dense(f, d)
        BY <1>4, <2>1, <2>8, UnsplitCovers
      <4>2. covered[r][f] \subseteq covered'[r][f]
        BY <1>4
      <4>3. QED
        BY <2>6, <3>1, <4>1, <4>2 DEF NothingLost, Dense
    <3>4. QED
      BY <2>1, <3>2, <3>3
  <2>9. QED
    BY <2>7, <2>8
<1>9. QED
  BY <1>6, <1>7, <1>8 DEF Books

\* The steps of a task between two turns of the page.
LEMMA JobStepsPass ==
    ASSUME TypesInv, NEW r \in Runs,
           \/ CreateJob(r) \/ SetCurrentJob(r) \/ PostWebhook(r) \/ WebhookReturns(r)
           \/ Poll(r) \/ CancelAwaitedJob(r) \/ LookAtJob(r)
           \/ MarkRunRunning(r) \/ ReadWatermark(r) \/ EndDiscovery(r) \/ TagFolders(r)
    PROVE  \A q \in Runs : Passes(q)
<1>1. UNCHANGED <<folderVars, todo, windows, notes>>
  BY DEF CreateJob, SetCurrentJob, PostWebhook, WebhookReturns, Poll, CancelAwaitedJob, LookAtJob,
         MarkRunRunning, ReadWatermark, EndDiscovery, TagFolders
<1>2. \A q \in Runs : SameRows(q)
  BY <1>1 DEF SameRows
<1>3. \A q \in Runs : runStatus'[q] = "none" => runStatus[q] = "none"
  BY DEF CreateJob, SetCurrentJob, PostWebhook, WebhookReturns, Poll, CancelAwaitedJob, LookAtJob,
         MarkRunRunning, ReadWatermark, EndDiscovery, TagFolders, TypesInv, Types, RunTypes
<1>4. PICK to \in PC : pc' = [pc EXCEPT ![r] = to]
  BY DEF CreateJob, SetCurrentJob, PostWebhook, WebhookReturns, Poll, CancelAwaitedJob, LookAtJob,
         MarkRunRunning, ReadWatermark, EndDiscovery, TagFolders, Step, PC
<1>5. \A q \in Runs \ {r} : pc'[q] = pc[q]
  BY <1>4 DEF TypesInv, Types, TaskTypes
<1>6. /\ pc[r] # "idle" /\ pc'[r] # "folder"
      /\ pc'[r] \in AtWindows /\ todo[r] # <<>> => pc[r] \in AtWindows
      /\ pc'[r] \in {"queued", "watermark", "tag", "list"} =>
            pc[r] \in {"queued", "watermark", "tag", "list"} \/ (pc[r] \in AtWindows /\ todo[r] = <<>>)
      /\ pc'[r] \in AtWindows /\ todo[r] = <<>> => pc[r] \in AtWindows \cup {"watermark"}
  <2> USE DEF Step, TypesInv, Types, TaskTypes, AtWindows
  <2>1. CASE CreateJob(r)
    BY <2>1 DEF CreateJob
  <2>2. CASE SetCurrentJob(r)
    BY <2>2 DEF SetCurrentJob
  <2>3. CASE PostWebhook(r)
    BY <2>3 DEF PostWebhook
  <2>4. CASE WebhookReturns(r)
    BY <2>4 DEF WebhookReturns
  <2>5. CASE Poll(r)
    BY <2>5 DEF Poll
  <2>6. CASE CancelAwaitedJob(r)
    BY <2>6 DEF CancelAwaitedJob
  <2>7. CASE LookAtJob(r)
    BY <2>7 DEF LookAtJob
  <2>8. CASE MarkRunRunning(r)
    BY <2>8 DEF MarkRunRunning
  <2>9. CASE ReadWatermark(r)
    <3>1. todo[r] = <<>>
      BY <2>9 DEF ReadWatermark, AllLocals, Locals
    <3>2. QED
      BY <2>9, <3>1 DEF ReadWatermark
  <2>10. CASE EndDiscovery(r)
    BY <2>10 DEF EndDiscovery, Discovering
  <2>11. CASE TagFolders(r)
    BY <2>11 DEF TagFolders
  <2>12. QED
    BY <2>1, <2>2, <2>3, <2>4, <2>5, <2>6, <2>7, <2>8, <2>9, <2>10, <2>11
<1>7. Passes(r)
  BY <1>1, <1>2, <1>3, <1>6 DEF Passes, Early
<1>8. QED
  BY <1>2, <1>3, <1>5, <1>7 DEF Passes

\* A step of one task, for the others.
LEMMA OthersPass ==
    ASSUME TypesInv, NEW r \in Runs, ListFolders(r) \/ NextFolder(r) \/ NextWindow(r) \/ EndWindow(r)
    PROVE  \A q \in Runs \ {r} : Passes(q)
<1> USE DEF Passes, SameRows, TypesInv, Types, TaskTypes, FolderTypes
<1>1. CASE ListFolders(r)
  BY <1>1 DEF ListFolders, Step
<1>2. CASE NextFolder(r)
  BY <1>2 DEF NextFolder
<1>3. CASE NextWindow(r)
  BY <1>3 DEF NextWindow, FolderEnds
<1>4. CASE EndWindow(r)
  <2>1. CASE result[r] = "cancelled"
    BY <1>4, <2>1 DEF EndWindow, FolderEnds
  <2>2. CASE result[r] # "cancelled"
    <3>1. \A q \in Runs \ {r} :
             /\ pc'[q] = pc[q] /\ notes'[q] = notes[q] /\ windows'[q] = windows[q]
      BY <1>4, <2>2 DEF EndWindow
    <3>2. \A q \in Runs \ {r} : counted'[q] = counted[q] /\ covered'[q] = covered[q]
      BY <1>4, <2>2 DEF EndWindow
    <3>3. UNCHANGED <<folderStatus, todo, runStatus>>
      BY <1>4, <2>2 DEF EndWindow
    <3>4. QED
      BY <3>1, <3>2, <3>3
  <2>3. QED
    BY <2>1, <2>2
<1>5. QED
  BY <1>1, <1>2, <1>3, <1>4

\* The loop over the windows.
LEMMA NextWindowBooks ==
    ASSUME TypesInv, NEW r \in Runs, Books(r), NextWindow(r)
    PROVE  Books(r)'
<1>1. pc[r] \in AtWindows /\ todo[r] # <<>> /\ UNCHANGED <<runStatus, counted, covered, notes>>
  BY DEF NextWindow, AtWindows, TypesInv, FoldersInv, Loop
<1>2. CASE pc' = [pc EXCEPT ![r] = "create"] /\ UNCHANGED <<folderStatus, todo, windows>>
  <2>1. Passes(r)
    BY <1>1, <1>2 DEF NextWindow, Passes, SameRows, Early, AtWindows, TypesInv, Types, TaskTypes
  <2>2. QED
    BY <2>1, PassesKeeps
<1>3. CASE \E how \in {"listo", "parcial"}, cancelled \in BOOLEAN :
              /\ FolderEnds(r, how, cancelled)
              /\ how = "listo" => windows[r] = <<>> /\ ~notes[r]
  BY <1>1, <1>3, FolderEndsBooks
<1>4. QED
  BY <1>2, <1>3 DEF NextWindow

\* A window that is done, or cancelled.
LEMMA EveryEndWindowBooks ==
    ASSUME TypesInv, NEW r \in Runs, Books(r), EndWindow(r)
    PROVE  Books(r)'
<1>1. CASE result[r] = "cancelled"
  BY <1>1, FolderEndsBooks DEF EndWindow, Discovering, AtWindows
<1>2. CASE result[r] # "cancelled"
  BY <1>2, EndWindowBooks
<1>3. QED
  BY <1>1, <1>2

AllBooks == \A r \in Runs : Books(r)

\* Every step of a task.
LEMMA TaskStepBooks ==
    ASSUME TypesInv, AllBooks, NEW r \in Runs, TaskStep(r)
    PROVE  AllBooks'
<1>1. CASE \A q \in Runs : Passes(q)
  BY <1>1, PassesKeeps DEF AllBooks
<1>2. CASE ListFolders(r) \/ NextFolder(r) \/ NextWindow(r) \/ EndWindow(r)
  <2>1. Books(r)'
    BY <1>2, ListFoldersBooks, NextFolderBooks, NextWindowBooks, EveryEndWindowBooks DEF AllBooks
  <2>2. \A q \in Runs \ {r} : Books(q)'
    BY <1>2, OthersPass, PassesKeeps DEF AllBooks
  <2>3. QED
    BY <2>1, <2>2 DEF AllBooks
<1>3. CASE FinishRun(r)
  <2>1. /\ pc[r] = "finish" /\ UNCHANGED <<folderStatus, counted, covered>>
        /\ runStatus' = [runStatus EXCEPT ![r] = FinalStatus(r)]
        /\ pc' = [q \in Runs |-> IF q = r THEN "idle" ELSE pc[q]]
        /\ todo' = [q \in Runs |-> IF q = r THEN <<>> ELSE todo[q]]
        /\ windows' = [q \in Runs |-> IF q = r THEN <<>> ELSE windows[q]]
        /\ notes' = [q \in Runs |-> IF q = r THEN FALSE ELSE notes[q]]
    BY <1>3 DEF FinishRun, Return
  <2>2. FinalStatus(r) \in FinishedRun
    BY FinalStatusType DEF TypesInv, FoldersInv, IInv
  <2>3. \A q \in Runs \ {r} : Passes(q)
    BY <2>1 DEF Passes, SameRows, TypesInv, Types, RunTypes
  <2>4. Books(r)'
    BY <2>1, <2>2, StopsKeeps DEF AllBooks, TypesInv, Types, RunTypes, FinishedRun
  <2>5. QED
    BY <2>3, <2>4, PassesKeeps DEF AllBooks
<1>4. QED
  BY <1>1, <1>2, <1>3, JobStepsPass DEF TaskStep

\* The admin's requests, the jobs and the restart.
LEMMA OtherStepsBooks ==
    ASSUME TypesInv, AllBooks,
           \/ \E r \in Runs : AdminStep(r)
           \/ \E s \in Slots : JobStep(s) \/ CancelCurrentJob(s)
           \/ DeleteFinishedRuns \/ Restart \/ UNCHANGED vars
    PROVE  AllBooks'
<1>1. CASE UNCHANGED <<runStatus, folderVars, taskVars>>
  <2>1. \A q \in Runs : Passes(q)
    BY <1>1 DEF Passes, SameRows
  <2>2. QED
    BY <2>1, PassesKeeps DEF AllBooks
<1>2. ASSUME NEW r \in Runs, NEW m \in Mailboxes, StartIndex(r, m)
      PROVE  AllBooks'
  <2>1. runStatus[r] = "none" /\ pc[r] = "idle" /\ todo[r] = <<>>
    BY <1>2 DEF StartIndex, TypesInv, FoldersInv, IInv, StartsAreNew, RunsMatchTasks, IsActive,
                ActiveRun, AllLocals, Locals
  <2>2. UNCHANGED <<folderVars, todo, windows, notes>>
    BY <1>2 DEF StartIndex
  <2>3. CASE UNCHANGED <<runStatus, pc>>
    <3>1. \A q \in Runs : Passes(q)
      BY <2>2, <2>3 DEF Passes, SameRows
    <3>2. QED
      BY <3>1, PassesKeeps DEF AllBooks
  <2>4. CASE runStatus' = [runStatus EXCEPT ![r] = "queued"] /\ pc' = [pc EXCEPT ![r] = "queued"]
    <3>1. \A q \in Runs \ {r} : Passes(q)
      BY <2>2, <2>4 DEF Passes, SameRows, TypesInv, Types, RunTypes, TaskTypes
    <3>2. pc'[r] = "queued"
      BY <2>4 DEF TypesInv, Types, TaskTypes
    <3>3. \A f \in Folders : folderStatus[r][f] = "none"
      BY <2>1 DEF TypesInv, FoldersInv, Loop
    <3>4. Books(r)'
      BY <2>1, <2>2, <3>2, <3>3
      DEF AllBooks, Books, Ahead, OnTrack, Settled, Early, Visits, Untouched, AtWindows
    <3>5. QED
      BY <3>1, <3>4, PassesKeeps DEF AllBooks
  <2>5. QED
    BY <1>2, <2>3, <2>4 DEF StartIndex
<1>3. CASE DeleteFinishedRuns
  <2>1. /\ UNCHANGED <<counted, covered, taskVars>>
        /\ runStatus' = [r \in Runs |->
               IF runStatus[r] \in FinishedRun THEN "deleted" ELSE runStatus[r]]
        /\ folderStatus' = [r \in Runs |->
               IF runStatus[r] \in FinishedRun THEN [f \in Folders |-> "none"] ELSE folderStatus[r]]
    BY <1>3 DEF DeleteFinishedRuns
  <2>2. ASSUME NEW r \in Runs, runStatus[r] \in FinishedRun PROVE Books(r)'
    <3>1. pc[r] = "idle" /\ todo[r] = <<>>
      BY <2>2 DEF TypesInv, FoldersInv, IInv, RunsMatchTasks, IsActive, ActiveRun, FinishedRun,
                  AllLocals, Locals
    <3>2. QED
      BY <2>1, <2>2, <3>1, StopsKeeps DEF AllBooks
  <2>3. ASSUME NEW r \in Runs, runStatus[r] \notin FinishedRun PROVE Books(r)'
    <3>1. Passes(r)
      BY <2>1, <2>3 DEF Passes, SameRows
    <3>2. QED
      BY <3>1, PassesKeeps DEF AllBooks
  <2>4. QED
    BY <2>2, <2>3 DEF AllBooks
<1>4. CASE Restart
  <2>1. /\ UNCHANGED folderVars /\ pc' = [r \in Runs |-> "idle"] /\ todo' = [r \in Runs |-> <<>>]
        /\ runStatus' = [r \in Runs |-> IF IsActive(r) THEN "failed" ELSE runStatus[r]]
    BY <1>4 DEF Restart, FailOrphanedRuns, Return
  <2>2. QED
    BY <2>1, StopsKeeps DEF AllBooks
<1>5. QED
  BY <1>1, <1>2, <1>3, <1>4
  DEF AdminStep, BeginStart, RequestCancel, JobStep, N8nStarts, N8nUpsertsFolders, N8nEnds,
      N8nLoses, UserCancelsJob, UserDeletesJob, CancelCurrentJob, vars

\* The whole invariant.
IndexInv == TypesInv /\ AllBooks

\* The invariant is inductive.
LEMMA IndexInductive == IndexInv /\ [Next]_vars => IndexInv'
BY TypesInductive, TaskStepBooks, OtherStepsBooks DEF IndexInv, Next

\* No folder is listed: the invariant holds.
LEMMA IndexInitially == Init => IndexInv
<1> SUFFICES ASSUME Init PROVE AllBooks
  BY TypesInitially DEF IndexInv
<1>1. \A r \in Runs : /\ pc[r] = "idle" /\ todo[r] = <<>>
                      /\ \A f \in Folders : folderStatus[r][f] = "none" /\ Untouched(r, f)
  BY DEF Init, Untouched
<1>2. QED
  BY <1>1 DEF AllBooks, Books, Ahead, OnTrack, Settled, Visits, Early, AtWindows

\* A folder is called listo only when every message of it was fetched, except in
\* units so dense that no window can be made smaller: for any history, whatever is
\* bisected, cancelled, lost or restarted.
THEOREM ListoFoldersAreFetched == Spec => []ListoIsFetched
<1>1. IndexInv => ListoIsFetched
  BY DEF IndexInv, AllBooks, Books, Settled, Dense, ListoIsFetched
<1>2. QED
  BY <1>1, IndexInitially, IndexInductive, PTL DEF Spec

\* The count of a folder called listo is what there was to fetch, unit by unit:
\* no message of a window that was split is counted twice, none is left out.
THEOREM ListoFoldersAreCounted == Spec => []ListoIsCounted
<1>1. IndexInv => ListoIsCounted
  BY DEF IndexInv, AllBooks, Books, Settled, ListoIsCounted
<1>2. QED
  BY <1>1, IndexInitially, IndexInductive, PTL DEF Spec

-----------------------------------------------------------------------------
(* The batches: what is counted *)

\* The sets of CaseBatch are counted as those of the theorems are.
LEMMA BatchCounts ==
    \A S : /\ Batch!Cardinality(S) = Cardinality(S)
           /\ Batch!IsFiniteSet(S) = IsFiniteSet(S)
BY DEF Batch!Cardinality, Batch!IsFiniteSet, Cardinality, IsFiniteSet

\* The first of a set of lines.
LEMMA FirstIsLeast ==
    ASSUME NEW S \in SUBSET Nat, S # {}
    PROVE  Batch!First(S) \in S /\ \A l \in S : Batch!First(S) <= l
<1>1. PICK x \in S : \A y \in S : ~ (<<y, x>> \in Earlier)
  BY EarlierWellFounded, WFMin
<1>2. ASSUME NEW y \in S PROVE x <= y
  <2>1. x \in Nat /\ y \in Nat /\ ~ (<<y, x>> \in Earlier)
    BY <1>1
  <2>2. ~ (y < x)
    BY <2>1 DEF Earlier
  <2>3. QED
    BY <2>1, <2>2
<1>3. \E k \in S : \A l \in S : k <= l
  BY <1>2
<1>4. QED
  BY <1>3 DEF Batch!First

-----------------------------------------------------------------------------
(* The inductive invariant, of the values of one batch at a time: its row r,  *)
(* its lines ls and its task t, and all cases cs                              *)

FirstPass  == {"begin", "announce", "find", "visit", "insert", "detail", "link", "fails", "count"}
LaterPass  == {"look", "search", "core", "matches", "store", "advance"}
\* The steps of the first pass before a line can have a case of its own.
Before     == {"begin", "announce", "find", "visit", "insert"}

\* The lines up to k that there is a case for.
WithCase(ls, t, k) == {l \in 1..Len(ls) : l <= k /\ t.found[l] # Batch!NoCase}

\* Case c may be named by line k of batch b: it has its code, and `reused' says
\* whether it was there before.
MayName(b, k, c, reused, ls, cs) ==
    /\ c \in 1..Len(cs)
    /\ cs[c].code = ls[k].code
    /\ reused = (cs[c].by # <<b, k>>)

\* The first part of ResultsAddUp.
LinesNameTheirCase(b, ls, cs) ==
    \A k \in 1..Len(ls) : ls[k].case # Batch!NoCase => MayName(b, k, ls[k].case, ls[k].reused, ls, cs)

\* The second part of ResultsAddUp.
EndAddsUp(r, ls) ==
    LET ready == {k \in DOMAIN ls : ls[k].status = "listo"}
    IN  /\ \A k \in DOMAIN ls : k \in ready \/ ls[k].status = "error"
        /\ r.created = Len(ls)
        /\ r.correlated = Batch!Cardinality(ready)
        /\ r.searched = IF r.search THEN Batch!Cardinality(ready) ELSE 0

\* Where the task is in the list.
InLine(r, ls, t) ==
    /\ t.i \in 1..Len(ls)
    /\ t.pc \in FirstPass => t.pass = 1
    /\ t.pc \in LaterPass => t.pass \in {2, 3} /\ t.found[t.i] # Batch!NoCase
    /\ t.pc \in {"look", "search"} => t.pass = 3
    /\ t.pass = 3 => r.search
    /\ r.status = IF t.pc = "begin" THEN "queued" ELSE "running"
    /\ t.pc = "begin" => t.i = 1

\* What the task knows of the cases of its lines, now and in the later passes.
KnowsCases(b, ls, t, cs) ==
    /\ \A k \in 1..Len(ls) :
          t.found[k] # Batch!NoCase => MayName(b, k, t.found[k], t.reused[k], ls, cs)
    /\ t.pc \in FirstPass =>
          /\ \A k \in 1..Len(ls) : k > t.i => t.found[k] = Batch!NoCase
          /\ t.pc \in Before \cup {"detail"} => t.found[t.i] = Batch!NoCase
          /\ \A c \in 1..Len(cs), k \in 1..Len(ls) :
                cs[c].by = <<b, k>> => k < t.i \/ (k = t.i /\ t.pc \notin Before)
    /\ t.pc = "visit" => t.at \in 1..Len(cs) /\ cs[t.at].code = ls[t.i].code
    /\ t.pc = "detail" => MayName(b, t.i, t.at, FALSE, ls, cs)
    /\ t.pc = "link" => t.found[t.i] # Batch!NoCase

\* A pass is through with line k.
Done(t, k) == k < t.i \/ t.pc = "finish" \/ (k = t.i /\ t.pc \in {"count", "advance"})

\* How far the lines are.
LinesAreSettled(r, ls, t) ==
    /\ \A k \in 1..Len(ls) : t.found[k] = Batch!NoCase /\ (t.pass = 1 => Done(t, k)) =>
          ls[k].status = "error"
    /\ t.pass = 3 \/ (t.pass = 2 /\ ~r.search) =>
          \A k \in 1..Len(ls) : t.found[k] # Batch!NoCase /\ Done(t, k) => ls[k].status = "listo"
    /\ t.pc = "finish" => t.pass = 3 \/ (t.pass = 2 /\ ~r.search) \/ WithCase(ls, t, Len(ls)) = {}

\* The counters are those of the lines gone through.
CountersAddUp(r, ls, t) ==
    LET all   == Batch!Cardinality(WithCase(ls, t, Len(ls)))
        soFar == Batch!Cardinality(WithCase(ls, t, t.i - 1))
    IN  /\ r.created = IF t.pc \in FirstPass THEN t.i - 1 ELSE Len(ls)
        /\ t.pc # "finish" =>
              /\ r.correlated = IF t.pass = 1 THEN 0 ELSE IF t.pass = 2 THEN soFar ELSE all
              /\ r.searched = IF t.pass = 3 THEN soFar ELSE 0
        /\ t.pc = "finish" => /\ r.correlated = all
                              /\ r.searched = IF r.search THEN all ELSE 0

SoundTask(b, r, ls, t, cs) ==
    InLine(r, ls, t) /\ KnowsCases(b, ls, t, cs) /\ LinesAreSettled(r, ls, t) /\ CountersAddUp(r, ls, t)

Sound(b, r, ls, t, cs) ==
    /\ LinesNameTheirCase(b, ls, cs)
    /\ r.status = "none" => Len(ls) = 0
    /\ IF t = Batch!NoTask THEN r.status = "success" => EndAddsUp(r, ls) ELSE SoundTask(b, r, ls, t, cs)

\* The typing: TypeOK, and that no more lines are taken than there may be.
BatchTypes ==
    /\ run \in [Batches -> Batch!Row]
    /\ items \in [Batches -> Seq(Batch!Item)]
    /\ \A b \in Batches : Len(items[b]) <= MaxItems
    /\ task \in [Batches -> Batch!Task \cup {Batch!NoTask}]
    /\ cases \in Seq(Batch!Case)
    /\ harmed \in SUBSET Batches
    /\ Batch!IsFiniteSet(Batch!AllLines) /\ Batch!Cardinality(Batch!AllLines) <= MaxItems

\* A case is of before, the first then, or was created for one line, and no other
\* case was created for it: this is why there are never too many.
AreOfLines(cs, lines) ==
    /\ \A c \in 1..Len(cs) : IF cs[c].by = << >> THEN c = 1 ELSE cs[c].by \in lines
    /\ \A c, d \in 1..Len(cs) : cs[c].by # << >> /\ cs[c].by = cs[d].by => c = d
CasesOfLines == AreOfLines(cases, Batch!AllLines)

BatchInv ==
    /\ BatchTypes
    /\ CasesOfLines
    /\ \A b \in Batches : Sound(b, run[b], items[b], task[b], cases)

-----------------------------------------------------------------------------
(* The lines, the cases and their number *)

\* A batch without a task has none of the tasks.
LEMMA NoTaskIsNone == Batch!NoTask \notin Batch!Task /\ \A t \in Batch!Task : t # Batch!NoTask
BY DEF Batch!NoTask, Batch!Task, Batch!Steps

\* There is room for one more case than there are lines: the one of before.
LEMMA CasesAreFew ==
    ASSUME MaxItems \in Nat, NEW lines, Batch!IsFiniteSet(lines), Batch!Cardinality(lines) <= MaxItems,
           NEW cs \in Seq(Batch!Case), AreOfLines(cs, lines)
    PROVE  Len(cs) <= MaxItems + 1
<1> DEFINE S == {c \in 1..Len(cs) : cs[c].by # << >>}
           f == [c \in S |-> cs[c].by]
<1>1. Len(cs) \in Nat
  OBVIOUS
<1>2. f \in Injection(S, lines)
  BY DEF AreOfLines, Injection, IsInjective
<1>3. Batch!IsFiniteSet(S) /\ Batch!Cardinality(S) <= Batch!Cardinality(lines)
  BY <1>2, BatchCounts, FS_Injection
<1>4. Batch!IsFiniteSet(S \cup {1})
      /\ Batch!Cardinality(S \cup {1}) = IF 1 \in S THEN Batch!Cardinality(S) ELSE Batch!Cardinality(S) + 1
  BY <1>3, BatchCounts, FS_AddElement
<1>5. 1..Len(cs) \subseteq S \cup {1}
  BY DEF AreOfLines
<1>6. Batch!Cardinality(1..Len(cs)) <= Batch!Cardinality(S \cup {1})
  BY <1>4, <1>5, BatchCounts, FS_Subset
<1>7. Batch!Cardinality(1..Len(cs)) = Len(cs)
  <2>1. PICK n \in Nat : n = Len(cs)
    BY <1>1
  <2>2. Batch!Cardinality(1..n) = IF 1 > n THEN 0 ELSE n - 1 + 1
    BY BatchCounts, FS_Interval
  <2>3. QED
    BY <2>1, <2>2
<1>8. Batch!Cardinality(S) \in Nat /\ Batch!Cardinality(lines) \in Nat
  BY <1>3, BatchCounts, FS_CardinalityType
<1> HIDE DEF S
<1>9. QED
  BY <1>1, <1>3, <1>4, <1>6, <1>7, <1>8

\* The lines that there is a case for are counted.
LEMMA WithCaseCounts ==
    ASSUME NEW ls \in Seq(Batch!Item), NEW t, NEW k \in Int
    PROVE  /\ Batch!Cardinality(WithCase(ls, t, k)) \in 0..Len(ls)
           /\ k < 1 => Batch!Cardinality(WithCase(ls, t, k)) = 0
<1>1. Len(ls) \in Nat
  OBVIOUS
<1>2. Batch!IsFiniteSet(1..Len(ls)) /\ Batch!Cardinality(1..Len(ls)) = Len(ls)
  BY <1>1, BatchCounts, FS_Interval, SMTT(30)
<1>3. WithCase(ls, t, k) \in SUBSET (1..Len(ls))
  BY DEF WithCase
<1>4. /\ Batch!IsFiniteSet(WithCase(ls, t, k))
      /\ Batch!Cardinality(WithCase(ls, t, k)) <= Len(ls) /\ Batch!Cardinality(WithCase(ls, t, k)) \in Nat
  BY <1>2, <1>3, BatchCounts, FS_Subset, FS_CardinalityType
<1>5. k < 1 => WithCase(ls, t, k) = {}
  BY DEF WithCase
<1>6. QED
  BY <1>1, <1>4, <1>5, BatchCounts, FS_EmptySet

\* One more line with a case, and none up to the next.
LEMMA WithCaseGoesOn ==
    ASSUME NEW ls \in Seq(Batch!Item), NEW t, NEW i \in 1..Len(ls), NEW j \in Nat, i <= j, j <= Len(ls),
           t.found[i] # Batch!NoCase,
           \A l \in 1..Len(ls) : i < l /\ l <= j => t.found[l] = Batch!NoCase
    PROVE  Batch!Cardinality(WithCase(ls, t, j)) = Batch!Cardinality(WithCase(ls, t, i - 1)) + 1
<1>1. WithCase(ls, t, j) = WithCase(ls, t, i - 1) \cup {i} /\ i \notin WithCase(ls, t, i - 1)
  BY DEF WithCase
<1>2. Len(ls) \in Nat /\ WithCase(ls, t, i - 1) \in SUBSET (1..Len(ls))
  BY DEF WithCase
<1>3. Batch!IsFiniteSet(WithCase(ls, t, i - 1))
  <2>1. Batch!IsFiniteSet(1..Len(ls))
    BY <1>2, BatchCounts, FS_Interval
  <2>2. QED
    BY <1>2, <2>1, BatchCounts, FS_Subset
<1>4. QED
  BY <1>1, <1>3, BatchCounts, FS_AddElement

\* What the lines and tasks have in common that name the same cases.
LEMMA WithCaseSame ==
    ASSUME NEW ls \in Seq(Batch!Item), NEW hs \in Seq(Batch!Item), NEW t, NEW u, Len(ls) = Len(hs), t.found = u.found
    PROVE  \A k : WithCase(ls, t, k) = WithCase(hs, u, k)
BY DEF WithCase

\* A step that leaves the codes and origins of the cases, and adds at most one
\* for a line of b, leaves the other batches sound.
LEMMA OthersStaySound ==
    ASSUME NEW b \in Batches, NEW o \in Batches, o # b,
           NEW r, NEW ls \in Seq(Batch!Item), NEW t \in Batch!Task \cup {Batch!NoTask},
           NEW cs \in Seq(Batch!Case), NEW ds \in Seq(Batch!Case), Len(cs) <= Len(ds),
           \A c \in 1..Len(cs) : ds[c].code = cs[c].code /\ ds[c].by = cs[c].by,
           \A c \in 1..Len(ds), k \in Batch!Lines : c > Len(cs) => ds[c].by # <<o, k>>,
           Len(ls) <= MaxItems, MaxItems \in Nat,
           Sound(o, r, ls, t, cs)
    PROVE  Sound(o, r, ls, t, ds)
<1>1. Len(cs) \in Nat /\ Len(ds) \in Nat /\ Len(ls) \in Nat
  OBVIOUS
<1>2. \A k, c, reused : MayName(o, k, c, reused, ls, cs) => MayName(o, k, c, reused, ls, ds)
  BY <1>1 DEF MayName
<1>3. LinesNameTheirCase(o, ls, ds)
  BY <1>2 DEF Sound, LinesNameTheirCase
<1>4. ASSUME t # Batch!NoTask PROVE KnowsCases(o, ls, t, ds)
  <2>1. KnowsCases(o, ls, t, cs) /\ t \in Batch!Task
    BY <1>4 DEF Sound, SoundTask
  <2>2. t.at \in 1..Len(cs) => t.at \in 1..Len(ds) /\ ds[t.at].code = cs[t.at].code
    BY <1>1
  <2>3. \A c \in 1..Len(ds), k \in 1..Len(ls) : ds[c].by = <<o, k>> =>
            c \in 1..Len(cs) /\ cs[c].by = <<o, k>>
    BY <1>1 DEF Batch!Lines
  <2>4. QED
    BY <1>2, <2>1, <2>2, <2>3 DEF KnowsCases
<1>5. QED
  BY <1>3, <1>4 DEF Sound, SoundTask

\* To show of a step of one batch that it keeps the invariant, it is enough to
\* look at that batch.
LEMMA OneBatchAtATime ==
    ASSUME Batch!ItemsAssumption, BatchInv, NEW b \in Batches, NEW r \in Batch!Row, NEW ls \in Seq(Batch!Item),
           NEW t \in Batch!Task \cup {Batch!NoTask},
           run' = [run EXCEPT ![b] = r], items' = [items EXCEPT ![b] = ls],
           task' = [task EXCEPT ![b] = t],
           Len(ls) = Len(items[b]), UNCHANGED cases, harmed' \in SUBSET Batches,
           Sound(b, r, ls, t, cases)
    PROVE  BatchInv'
<1>1. \A o \in Batches : Len(items'[o]) = Len(items[o])
  BY DEF BatchInv, BatchTypes
<1>2. Batch!AllLines' = Batch!AllLines
  BY <1>1 DEF Batch!AllLines
<1>3. BatchTypes'
  BY <1>1, <1>2 DEF BatchInv, BatchTypes
<1>4. CasesOfLines'
  BY <1>2 DEF BatchInv, CasesOfLines, AreOfLines
<1>5. ASSUME NEW o \in Batches
      PROVE  Sound(o, run'[o], items'[o], task'[o], cases')
  <2>1. Sound(o, run[o], items[o], task[o], cases)
    BY DEF BatchInv
  <2>2. QED
    BY <2>1 DEF BatchInv, BatchTypes
<1>6. QED
  BY <1>3, <1>4, <1>5 DEF BatchInv

-----------------------------------------------------------------------------
(* The first pass *)

\* No batch has been started: the invariant holds.
LEMMA BatchInitially == Batch!ItemsAssumption /\ Batch!Init => BatchInv
<1> SUFFICES ASSUME Batch!ItemsAssumption, Batch!Init PROVE BatchInv
  OBVIOUS
<1>1. Batch!AllLines = {}
  BY DEF Batch!Init, Batch!AllLines, Batch!Lines, Batch!ItemsAssumption
<1>2. cases \in Seq(Batch!Case)
  <2>1. CASE cases = << >>
    BY <2>1
  <2>2. CASE \E c \in Batch!Case : cases = <<c>>
    BY <2>2
  <2>3. QED
    BY <2>1, <2>2 DEF Batch!Init
<1>3. \A b \in Batches : run[b] = Batch!NoRow /\ items[b] = << >> /\ task[b] = Batch!NoTask
  BY DEF Batch!Init
<1>4. Batch!NoRow \in Batch!Row /\ Batch!NoRow.status = "none"
  BY DEF Batch!NoRow, Batch!Row, Batch!ItemsAssumption
<1>5. BatchTypes
  BY <1>1, <1>2, <1>4, BatchCounts, FS_EmptySet DEF Batch!Init, BatchTypes, Batch!ItemsAssumption
<1>6. CasesOfLines
  BY DEF Batch!Init, CasesOfLines, AreOfLines
<1>7. QED
  BY <1>3, <1>4, <1>5, <1>6 DEF BatchInv, Sound, LinesNameTheirCase

\* What holds of a batch that is at one of its steps.
LEMMA AtWork ==
    ASSUME Batch!ItemsAssumption, BatchInv, NEW b \in Batches, NEW stage \in Batch!Steps, Batch!At(b, stage)
    PROVE  /\ task[b] \in Batch!Task /\ task[b].pc = stage
           /\ run[b] \in Batch!Row /\ items[b] \in Seq(Batch!Item) /\ Len(items[b]) \in Nat
           /\ Len(items[b]) <= MaxItems /\ MaxItems \in Nat
           /\ task[b].i \in 1..Len(items[b]) /\ task[b].i \in Batch!Lines
           /\ cases \in Seq(Batch!Case) /\ Len(cases) <= MaxItems + 1 /\ 1..Len(cases) \subseteq Batch!CaseIds
           /\ SoundTask(b, run[b], items[b], task[b], cases)
           /\ LinesNameTheirCase(b, items[b], cases)
           /\ run[b].status # "none"
           /\ task[b] # Batch!NoTask
<1>1. task[b] \in Batch!Task /\ task[b] # Batch!NoTask
  BY DEF BatchInv, BatchTypes, Batch!At, Batch!Steps, Batch!NoTask, Batch!Task
<1>2. SoundTask(b, run[b], items[b], task[b], cases) /\ LinesNameTheirCase(b, items[b], cases)
  BY <1>1 DEF BatchInv, Sound
<1>3. Len(cases) <= MaxItems + 1 /\ Len(cases) \in Nat
  BY CasesAreFew DEF BatchInv, BatchTypes, CasesOfLines, Batch!ItemsAssumption
<1>4. run[b].status # "none" /\ task[b].i \in 1..Len(items[b])
  BY <1>2 DEF SoundTask, InLine
<1>5. items[b] \in Seq(Batch!Item) /\ Len(items[b]) <= MaxItems /\ run[b] \in Batch!Row /\ MaxItems \in Nat
  BY DEF BatchInv, BatchTypes, Batch!ItemsAssumption
<1>6. Len(items[b]) \in Nat
  BY <1>5
<1>7. QED
  BY <1>1, <1>2, <1>3, <1>4, <1>5, <1>6 DEF Batch!At, BatchInv, BatchTypes, Batch!Lines,
     Batch!CaseIds

\* A task that only goes on to another step of the same line.
LEMMA TaskMoves ==
    ASSUME NEW b, NEW r, NEW ls \in Seq(Batch!Item), NEW t \in Batch!Task, NEW stage \in Batch!Steps, NEW u, NEW cs,
           u = [t EXCEPT !.pc = stage],
           SoundTask(b, r, ls, t, cs),
           \/ /\ t.pc = "visit" /\ stage = "insert"
           \/ /\ t.pc = "detail" /\ stage = "fails"
           \/ /\ t.pc = "link" /\ stage = "fails"
           \/ /\ t.pc \in LaterPass \ {"advance"} /\ stage \in {"core", "matches", "store"}
    PROVE  u \in Batch!Task /\ SoundTask(b, r, ls, u, cs)
<1>1. /\ u \in Batch!Task /\ u.pc = stage /\ u.pass = t.pass /\ u.i = t.i /\ u.at = t.at
      /\ u.found = t.found /\ u.reused = t.reused
  BY DEF Batch!Task
<1>2. \A k : WithCase(ls, u, k) = WithCase(ls, t, k)
  BY <1>1 DEF WithCase
<1>3. InLine(r, ls, u)
  BY <1>1 DEF SoundTask, InLine, FirstPass, LaterPass
<1>4. KnowsCases(b, ls, u, cs)
  BY <1>1 DEF SoundTask, KnowsCases, FirstPass, LaterPass, Before
<1>5. LinesAreSettled(r, ls, u)
  BY <1>1, <1>2 DEF SoundTask, InLine, LinesAreSettled, Done, FirstPass, LaterPass
<1>6. CountersAddUp(r, ls, u)
  BY <1>1, <1>2 DEF SoundTask, InLine, CountersAddUp, FirstPass, LaterPass
<1>7. QED
  BY <1>1, <1>3, <1>4, <1>5, <1>6 DEF SoundTask

\* A step of the task of one batch that only moves it on.
LEMMA GotoKeeps ==
    ASSUME Batch!ItemsAssumption, BatchInv, NEW b \in Batches, NEW from \in Batch!Steps, NEW stage \in Batch!Steps,
           Batch!At(b, from), Batch!Goto(b, stage), UNCHANGED <<run, items, cases>>, harmed' \in SUBSET Batches,
           \/ from = "visit" /\ stage = "insert"
           \/ from = "detail" /\ stage = "fails"
           \/ from = "link" /\ stage = "fails"
           \/ from \in LaterPass \ {"advance"} /\ stage \in {"core", "matches", "store"}
    PROVE  BatchInv'
<1>1. PICK u : u = [task[b] EXCEPT !.pc = stage]
  OBVIOUS
<1>2. task' = [task EXCEPT ![b] = u]
  BY <1>1 DEF Batch!Goto
<1>3. u \in Batch!Task /\ SoundTask(b, run[b], items[b], u, cases)
  BY <1>1, AtWork, TaskMoves
<1>4. Sound(b, run[b], items[b], u, cases)
  BY <1>3, AtWork, NoTaskIsNone DEF Sound
<1>5. run' = [run EXCEPT ![b] = run[b]] /\ items' = [items EXCEPT ![b] = items[b]]
  BY DEF BatchInv, BatchTypes
<1>6. run[b] \in Batch!Row /\ items[b] \in Seq(Batch!Item)
  BY AtWork
<1>7. QED
  BY <1>2, <1>3, <1>4, <1>5, <1>6, OneBatchAtATime

\* A task that breaks leaves its batch running, which is not success.
LEMMA BreakKeeps ==
    ASSUME Batch!ItemsAssumption, BatchInv, NEW b \in Batches, NEW from \in Batch!Steps,
           Batch!At(b, from), Batch!Break(b), UNCHANGED <<items, cases>>, harmed' \in SUBSET Batches,
           NEW r \in Batch!Row, run' = [run EXCEPT ![b] = r], r.status \in {"queued", "running", "failed"}
    PROVE  BatchInv'
<1>1. task' = [task EXCEPT ![b] = Batch!NoTask] /\ Batch!NoTask \in Batch!Task \cup {Batch!NoTask}
  BY DEF Batch!Break
<1>2. Sound(b, r, items[b], Batch!NoTask, cases)
  BY AtWork DEF Sound
<1>3. items' = [items EXCEPT ![b] = items[b]] /\ items[b] \in Seq(Batch!Item)
  BY DEF BatchInv, BatchTypes
<1>4. QED
  BY <1>1, <1>2, <1>3, OneBatchAtATime

\* The same where nothing at all is written down.
LEMMA BreakWrites ==
    ASSUME Batch!ItemsAssumption, BatchInv, NEW b \in Batches, NEW from \in Batch!Steps \ {"begin"},
           Batch!At(b, from), Batch!Break(b), UNCHANGED <<run, items, cases>>, harmed' \in SUBSET Batches
    PROVE  BatchInv'
<1>1. PICK r : r = run[b]
  OBVIOUS
<1>2. r \in Batch!Row /\ run' = [run EXCEPT ![b] = r]
  BY <1>1 DEF BatchInv, BatchTypes
<1>3. r.status = "running"
  BY <1>1, AtWork DEF SoundTask, InLine
<1>4. QED
  BY <1>2, <1>3, BreakKeeps

\* A task that begins has everything ahead of it.
LEMMA BeginKeeps ==
    ASSUME Batch!ItemsAssumption, BatchInv, NEW b \in Batches, Batch!Begin(b)
    PROVE  BatchInv'
<1>0. harmed' \in SUBSET Batches /\ "begin" \in Batch!Steps
  BY DEF Batch!Begin, BatchInv, BatchTypes, Batch!Steps
<1>1. CASE run' = [run EXCEPT ![b].status = "failed"] /\ Batch!Break(b)
  <2>1. PICK r : r = [run[b] EXCEPT !.status = "failed"]
    OBVIOUS
  <2>2. run[b] \in Batch!Row
    BY DEF BatchInv, BatchTypes
  <2>3. r \in Batch!Row /\ r.status = "failed" /\ run' = [run EXCEPT ![b] = r]
    BY <1>1, <2>1, <2>2 DEF Batch!Row
  <2>4. QED
    BY <1>0, <1>1, <2>3, BreakKeeps DEF Batch!Begin
<1>2. CASE run' = [run EXCEPT ![b].status = "running"] /\ Batch!Goto(b, "announce")
  <2>1. PICK r : r = [run[b] EXCEPT !.status = "running"]
    OBVIOUS
  <2>2. PICK t : t = task[b]
    OBVIOUS
  <2>3. PICK ls : ls = items[b]
    OBVIOUS
  <2>4. PICK u : u = [t EXCEPT !.pc = "announce"]
    OBVIOUS
  <2>5. /\ t \in Batch!Task /\ t.pc = "begin" /\ run[b] \in Batch!Row /\ ls \in Seq(Batch!Item)
        /\ SoundTask(b, run[b], ls, t, cases) /\ LinesNameTheirCase(b, ls, cases)
    BY <1>0, <2>2, <2>3, AtWork DEF Batch!Begin
  <2>6. /\ u \in Batch!Task /\ u.pc = "announce" /\ u.pass = t.pass /\ u.i = t.i /\ u.at = t.at
        /\ u.found = t.found /\ u.reused = t.reused
    BY <2>4, <2>5 DEF Batch!Task, Batch!Steps
  <2>7. /\ r \in Batch!Row /\ r.status = "running" /\ r.created = run[b].created
        /\ r.correlated = run[b].correlated /\ r.searched = run[b].searched /\ r.search = run[b].search
    BY <2>1, <2>5 DEF Batch!Row
  <2>8. \A k : WithCase(ls, u, k) = WithCase(ls, t, k)
    BY <2>5, <2>6, WithCaseSame
  <2>9. InLine(r, ls, u)
    BY <2>5, <2>6, <2>7 DEF SoundTask, InLine, FirstPass, LaterPass
  <2>10. KnowsCases(b, ls, u, cases)
    BY <2>5, <2>6 DEF SoundTask, KnowsCases, FirstPass, LaterPass, Before
  <2>11. LinesAreSettled(r, ls, u)
    BY <2>5, <2>6, <2>7, <2>8 DEF SoundTask, InLine, LinesAreSettled, Done, FirstPass, LaterPass
  <2>12. CountersAddUp(r, ls, u)
    BY <2>5, <2>6, <2>7, <2>8 DEF SoundTask, InLine, CountersAddUp, FirstPass, LaterPass
  <2>13. Sound(b, r, ls, u, cases)
    BY <2>5, <2>6, <2>7, <2>9, <2>10, <2>11, <2>12, NoTaskIsNone DEF Sound, SoundTask
  <2>14. /\ run' = [run EXCEPT ![b] = r] /\ task' = [task EXCEPT ![b] = u]
         /\ items' = [items EXCEPT ![b] = ls] /\ UNCHANGED cases
    BY <1>2, <2>1, <2>2, <2>3, <2>4 DEF Batch!Begin, Batch!Goto, BatchInv, BatchTypes
  <2>15. QED
    BY <1>0, <2>3, <2>5, <2>6, <2>7, <2>13, <2>14, OneBatchAtATime
<1>3. QED
  BY <1>1, <1>2 DEF Batch!Begin

\* What a task's update of its line does to the lines of the batch.
IsRewritten(hs, ls, i, status, c, reused) ==
    /\ hs \in Seq(Batch!Item)
    /\ Len(hs) = Len(ls)
    /\ hs[i].status = status /\ hs[i].case = c /\ hs[i].reused = reused
    /\ \A k \in 1..Len(ls) : hs[k].code = ls[k].code
    /\ \A k \in 1..Len(ls) : k # i => hs[k] = ls[k]

\* Updating the row of a line changes that line.
LEMMA ItemUpdated ==
    ASSUME Batch!ItemsAssumption, BatchInv, NEW b \in Batches, NEW from \in Batch!Steps, Batch!At(b, from),
           NEW status, status \in {"pendiente", "creando", "listo", "error"},
           NEW c, c \in Batch!CaseIds \cup {Batch!NoCase}, NEW reused, reused \in BOOLEAN,
           Batch!UpdateItem(b, status, c, reused),
           NEW ls, ls = items[b], NEW i, i = task[b].i
    PROVE  \E hs : items' = [items EXCEPT ![b] = hs] /\ IsRewritten(hs, ls, i, status, c, reused)
<1>1. i \in 1..Len(ls) /\ ls \in Seq(Batch!Item)
  BY AtWork
<1>2. PICK x : x = [ls[i] EXCEPT !.status = status, !.case = c, !.reused = reused]
  OBVIOUS
<1>3. x \in Batch!Item /\ x.status = status /\ x.case = c /\ x.reused = reused /\ x.code = ls[i].code
  <2>1. ls[i] \in Batch!Item
    BY <1>1
  <2>2. QED
    BY <1>2, <2>1 DEF Batch!Item
<1>4. PICK hs : hs = [ls EXCEPT ![i] = x]
  OBVIOUS
<1>5. /\ hs \in Seq(Batch!Item) /\ Len(hs) = Len(ls)
      /\ hs[i] = x /\ \A k \in 1..Len(ls) : k # i => hs[k] = ls[k]
  BY <1>1, <1>3, <1>4
<1>6. items' = [items EXCEPT ![b] = hs]
  BY <1>2, <1>4 DEF Batch!UpdateItem, BatchInv, BatchTypes
<1>7. IsRewritten(hs, ls, i, status, c, reused)
  <2>1. hs[i].status = status /\ hs[i].case = c /\ hs[i].reused = reused
    BY <1>3, <1>5
  <2>2. \A k \in 1..Len(ls) : hs[k].code = ls[k].code
    BY <1>3, <1>5
  <2>3. QED
    BY <1>5, <2>1, <2>2 DEF IsRewritten
<1>8. QED
  BY <1>6, <1>7

\* The cases that its lines may name are the same.
LEMMA RewrittenMayName ==
    ASSUME NEW hs, NEW ls, NEW i, NEW status, NEW c, NEW reused,
           IsRewritten(hs, ls, i, status, c, reused)
    PROVE  \A b, k, d, r, cs : k \in 1..Len(ls) /\ MayName(b, k, d, r, ls, cs) => MayName(b, k, d, r, hs, cs)
BY DEF IsRewritten, MayName

\* The parts of the invariant that a step of a batch leaves are enough, if the
\* task goes on.
LEMMA PartsAreEnough ==
    ASSUME Batch!ItemsAssumption, BatchInv, NEW b \in Batches, NEW r \in Batch!Row, NEW hs \in Seq(Batch!Item),
           NEW u \in Batch!Task,
           run' = [run EXCEPT ![b] = r], items' = [items EXCEPT ![b] = hs],
           task' = [task EXCEPT ![b] = u],
           Len(hs) = Len(items[b]), UNCHANGED cases, harmed' \in SUBSET Batches,
           r.status # "none", LinesNameTheirCase(b, hs, cases),
           InLine(r, hs, u), KnowsCases(b, hs, u, cases), LinesAreSettled(r, hs, u),
           CountersAddUp(r, hs, u)
    PROVE  BatchInv'
<1>1. Sound(b, r, hs, u, cases)
  BY NoTaskIsNone DEF Sound, SoundTask
<1>2. QED
  BY <1>1, OneBatchAtATime

\* The case found, if any, is that of the code.
LEMMA FindCaseKeeps ==
    ASSUME Batch!ItemsAssumption, BatchInv, NEW b \in Batches, Batch!FindCase(b)
    PROVE  BatchInv'
<1>1. PICK t : t = task[b]
  OBVIOUS
<1>2. PICK ls : ls = items[b]
  OBVIOUS
<1>3. PICK i : i = t.i
  OBVIOUS
<1>4. PICK r : r = run[b]
  OBVIOUS
<1>5. /\ t \in Batch!Task /\ t.pc = "find" /\ r \in Batch!Row /\ ls \in Seq(Batch!Item) /\ Len(ls) \in Nat
      /\ i \in 1..Len(ls) /\ t.i = i /\ i \in Batch!Lines
      /\ InLine(r, ls, t) /\ KnowsCases(b, ls, t, cases) /\ LinesAreSettled(r, ls, t)
      /\ CountersAddUp(r, ls, t) /\ LinesNameTheirCase(b, ls, cases)
      /\ r.status # "none"
  <2>1. Batch!At(b, "find") /\ "find" \in Batch!Steps
    BY DEF Batch!FindCase, Batch!Steps
  <2>2. QED
    BY <1>1, <1>2, <1>3, <1>4, <2>1, AtWork DEF SoundTask
<1>6. /\ UNCHANGED cases /\ harmed' \in SUBSET Batches /\ task \in [Batches -> Batch!Task \cup {Batch!NoTask}]
      /\ run = [run EXCEPT ![b] = r] /\ items = [items EXCEPT ![b] = ls] /\ Len(ls) = Len(items[b])
  BY <1>2, <1>4 DEF Batch!FindCase, Batch!Keep, BatchInv, BatchTypes
<1>7. PICK S : S = {c \in 1..Len(cases) : Batch!Stored(c) /\ cases[c].code = ls[i].code}
  OBVIOUS
<1>8. PICK u : u = [t EXCEPT !.at = IF S = {} THEN Batch!NoCase ELSE Batch!First(S),
                             !.pc = IF S = {} THEN "insert" ELSE "visit"]
  OBVIOUS
<1>9. S # {} => Batch!First(S) \in 1..Len(cases) /\ cases[Batch!First(S)].code = ls[i].code /\ Batch!First(S) \in Batch!CaseIds
  <2>1. SUFFICES ASSUME S # {} PROVE Batch!First(S) \in S
    <3>1. 1..Len(cases) \subseteq Batch!CaseIds
      BY AtWork DEF Batch!FindCase, Batch!Steps
    <3>2. QED
      BY <1>7, <3>1
  <2>2. S \in SUBSET Nat
    BY <1>7
  <2>3. QED
    BY <2>1, <2>2, FirstIsLeast
<1>10. /\ u \in Batch!Task /\ u.pc = (IF S = {} THEN "insert" ELSE "visit") /\ u.pass = t.pass /\ u.i = i
       /\ u.found = t.found /\ u.reused = t.reused
       /\ S # {} => u.at \in 1..Len(cases) /\ cases[u.at].code = ls[i].code
  BY <1>5, <1>8, <1>9 DEF Batch!Task, Batch!Steps
<1>11. \A k : WithCase(ls, u, k) = WithCase(ls, t, k)
  BY <1>10 DEF WithCase
<1>12. task' = [task EXCEPT ![b] = u] /\ UNCHANGED <<run, items>>
  <2>1. task' = [task EXCEPT ![b].at = IF S = {} THEN Batch!NoCase ELSE Batch!First(S),
                             ![b].pc = IF S = {} THEN "insert" ELSE "visit"]
    BY <1>1, <1>2, <1>3, <1>7 DEF Batch!FindCase, Batch!Line
  <2>2. QED
    BY <1>1, <1>6, <1>8, <2>1 DEF Batch!FindCase
<1>13. InLine(r, ls, u)
  BY <1>5, <1>10, <1>11 DEF InLine, FirstPass, LaterPass
<1>14. KnowsCases(b, ls, u, cases)
  BY <1>5, <1>10, <1>11 DEF InLine, KnowsCases, FirstPass, LaterPass, Before
<1>15. LinesAreSettled(r, ls, u)
  BY <1>5, <1>10, <1>11 DEF InLine, LinesAreSettled, KnowsCases, Done, FirstPass, LaterPass
<1>16. CountersAddUp(r, ls, u)
  BY <1>5, <1>10, <1>11 DEF InLine, CountersAddUp, FirstPass, LaterPass
<1>17. QED
  BY <1>5, <1>6, <1>10, <1>12, <1>13, <1>14, <1>15, <1>16, PartsAreEnough

\* The case of a line is kept for the later passes.
LEMMA KeepKeeps ==
    ASSUME Batch!ItemsAssumption, BatchInv, NEW b \in Batches, NEW stage \in {"visit", "detail"}, Batch!At(b, stage),
           NEW again \in BOOLEAN, Batch!Keep(b, again), UNCHANGED <<run, items, cases>>,
           again <=> stage = "visit"
    PROVE  BatchInv'
<1>1. PICK t : t = task[b]
  OBVIOUS
<1>2. PICK ls : ls = items[b]
  OBVIOUS
<1>3. PICK i : i = t.i
  OBVIOUS
<1>4. PICK r : r = run[b]
  OBVIOUS
<1>5. /\ t \in Batch!Task /\ t.pc = stage /\ r \in Batch!Row /\ ls \in Seq(Batch!Item) /\ Len(ls) \in Nat
      /\ i \in 1..Len(ls) /\ t.i = i /\ i \in Batch!Lines
      /\ InLine(r, ls, t) /\ KnowsCases(b, ls, t, cases) /\ LinesAreSettled(r, ls, t)
      /\ CountersAddUp(r, ls, t) /\ LinesNameTheirCase(b, ls, cases)
      /\ r.status # "none"
  <2>1. stage \in Batch!Steps
    BY DEF Batch!Steps
  <2>2. QED
    BY <1>1, <1>2, <1>3, <1>4, <2>1, AtWork DEF SoundTask
<1>6. /\ UNCHANGED cases /\ harmed' \in SUBSET Batches /\ task \in [Batches -> Batch!Task \cup {Batch!NoTask}]
      /\ run = [run EXCEPT ![b] = r] /\ items = [items EXCEPT ![b] = ls] /\ Len(ls) = Len(items[b])
  BY <1>2, <1>4 DEF Batch!Keep, BatchInv, BatchTypes
<1>7. PICK c : c = t.at
  OBVIOUS
<1>8. /\ c \in 1..Len(cases) /\ cases[c].code = ls[i].code /\ c \in Batch!CaseIds /\ c # Batch!NoCase
      /\ MayName(b, i, c, again, ls, cases)
  <2>1. 1..Len(cases) \subseteq Batch!CaseIds /\ Len(cases) \in Nat
    BY AtWork DEF Batch!Steps
  <2>2. CASE stage = "visit"
    <3>1. c \in 1..Len(cases) /\ cases[c].code = ls[i].code
      BY <1>5, <1>7, <2>2 DEF KnowsCases
    <3>2. cases[c].by # <<b, i>>
      BY <1>5, <2>2, <3>1 DEF KnowsCases, FirstPass, Before
    <3>3. again = TRUE
      BY <2>2
    <3>4. c # Batch!NoCase /\ c \in Batch!CaseIds
      BY <2>1, <3>1 DEF Batch!NoCase
    <3>5. again = (cases[c].by # <<b, i>>)
      BY <3>2, <3>3
    <3>6. QED
      BY <3>1, <3>4, <3>5 DEF MayName
  <2>3. CASE stage = "detail"
    <3>1. MayName(b, i, c, FALSE, ls, cases)
      BY <1>5, <1>7, <2>3 DEF KnowsCases
    <3>2. again = FALSE
      BY <2>3
    <3>3. QED
      BY <2>1, <3>1, <3>2 DEF MayName, Batch!NoCase
  <2>4. QED
    BY <2>2, <2>3
<1>9. PICK u : u = [t EXCEPT !.found[i] = c, !.pc = "link", !.reused[i] = again]
  OBVIOUS
<1>10. /\ u \in Batch!Task /\ u.pc = "link" /\ u.pass = t.pass /\ u.i = i /\ u.at = t.at
       /\ u.found = [t.found EXCEPT ![i] = c] /\ u.reused = [t.reused EXCEPT ![i] = again]
       /\ t.found \in [Batch!Lines -> Batch!CaseIds \cup {Batch!NoCase}] /\ t.reused \in [Batch!Lines -> BOOLEAN]
  BY <1>5, <1>8, <1>9 DEF Batch!Task, Batch!Steps
<1>11. /\ u.found[i] = c /\ u.reused[i] = again
       /\ \A k \in Batch!Lines : k # i => u.found[k] = t.found[k] /\ u.reused[k] = t.reused[k]
       /\ 1..Len(ls) \subseteq Batch!Lines
  <2>1. Len(ls) <= MaxItems /\ MaxItems \in Nat
    BY <1>2 DEF BatchInv, BatchTypes, Batch!ItemsAssumption
  <2>2. QED
    BY <1>5, <1>10, <2>1 DEF Batch!Lines
<1>12. task' = [task EXCEPT ![b] = u]
  <2>1. task' = [task EXCEPT ![b].found[i] = c, ![b].pc = "link", ![b].reused[i] = again]
    BY <1>1, <1>3, <1>7 DEF Batch!Keep
  <2>2. QED
    <3>1. task[b] = t
      BY <1>1
    <3>2. ASSUME NEW o \in Batches PROVE task'[o] = [task EXCEPT ![b] = u][o]
      <4>1. CASE o = b
        <5>1. task'[b] = [t EXCEPT !.found[i] = c, !.pc = "link", !.reused[i] = again]
          BY <1>6, <2>1, <3>1
        <5>2. QED
          BY <1>6, <1>9, <4>1, <5>1
      <4>2. CASE o # b
        BY <1>6, <2>1, <4>2
      <4>3. QED
        BY <4>1, <4>2
    <3>3. QED
      BY <1>6, <2>1, <3>2
<1>13. InLine(r, ls, u)
  BY <1>5, <1>10 DEF InLine, FirstPass, LaterPass
<1>14. \A k \in 1..Len(ls) : u.found[k] # Batch!NoCase => MayName(b, k, u.found[k], u.reused[k], ls, cases)
  <2>1. ASSUME NEW k \in 1..Len(ls), k # i, t.found[k] # Batch!NoCase
        PROVE  MayName(b, k, u.found[k], u.reused[k], ls, cases)
    BY <1>5, <1>11, <2>1 DEF KnowsCases
  <2>2. MayName(b, i, u.found[i], u.reused[i], ls, cases)
    BY <1>8, <1>11
  <2>3. QED
    BY <1>11, <2>1, <2>2
<1>15. KnowsCases(b, ls, u, cases)
  BY <1>5, <1>8, <1>10, <1>11, <1>14 DEF KnowsCases, FirstPass, Before
<1>16. LinesAreSettled(r, ls, u)
  BY <1>5, <1>8, <1>10, <1>11 DEF InLine, LinesAreSettled, Done, FirstPass, LaterPass
<1>17. CountersAddUp(r, ls, u)
  BY <1>5, <1>10 DEF InLine, CountersAddUp, FirstPass, LaterPass
<1>18. QED
  BY <1>5, <1>6, <1>10, <1>12, <1>13, <1>15, <1>16, <1>17, PartsAreEnough

\* A case found that the user sees is kept as reused, else one is created.
LEMMA VisitCaseKeeps ==
    ASSUME Batch!ItemsAssumption, BatchInv, NEW b \in Batches, Batch!VisitCase(b)
    PROVE  BatchInv'
<1>1. Batch!At(b, "visit") /\ "visit" \in Batch!Steps /\ "insert" \in Batch!Steps /\ UNCHANGED <<run, items, cases>>
  BY DEF Batch!VisitCase, Batch!Steps
<1>2. CASE Batch!Keep(b, TRUE)
  <2>1. PICK again \in BOOLEAN : again = TRUE
    OBVIOUS
  <2>2. QED
    BY <1>1, <1>2, <2>1, KeepKeeps
<1>3. CASE Batch!Goto(b, "insert") /\ UNCHANGED harmed
  <2>1. harmed' \in SUBSET Batches
    BY <1>3 DEF BatchInv, BatchTypes
  <2>2. QED
    BY <1>1, <1>3, <2>1, GotoKeeps
<1>4. QED
  BY <1>2, <1>3 DEF Batch!VisitCase

\* A case just created is kept, unless it is gone already.
LEMMA ReadDetailKeeps ==
    ASSUME Batch!ItemsAssumption, BatchInv, NEW b \in Batches, Batch!ReadDetail(b)
    PROVE  BatchInv'
<1>1. Batch!At(b, "detail") /\ "detail" \in Batch!Steps /\ "fails" \in Batch!Steps /\ UNCHANGED <<run, items, cases>>
  BY DEF Batch!ReadDetail, Batch!Steps
<1>2. CASE Batch!Keep(b, FALSE)
  <2>1. PICK again \in BOOLEAN : again = FALSE
    OBVIOUS
  <2>2. QED
    BY <1>1, <1>2, <2>1, KeepKeeps
<1>3. CASE Batch!Goto(b, "fails") /\ UNCHANGED harmed
  <2>1. harmed' \in SUBSET Batches
    BY <1>3 DEF BatchInv, BatchTypes
  <2>2. QED
    BY <1>1, <1>3, <2>1, GotoKeeps
<1>4. QED
  BY <1>2, <1>3 DEF Batch!ReadDetail

\* A step that writes the line and goes on to the next step of it.
LEMMA UpdateKeeps ==
    ASSUME Batch!ItemsAssumption, BatchInv, NEW b \in Batches, NEW from \in Batch!Steps, NEW stage \in Batch!Steps,
           Batch!At(b, from), Batch!Goto(b, stage), UNCHANGED <<run, cases, harmed>>,
           NEW status, status \in {"pendiente", "creando", "listo", "error"},
           NEW c, NEW reused, reused \in BOOLEAN,
           Batch!UpdateItem(b, status, c, reused),
           c = Batch!NoCase \/ (c = Batch!Found(b) /\ reused = task[b].reused[task[b].i]),
           \/ from = "announce" /\ stage = "find"
           \/ from = "link" /\ stage = "count"
           \/ from = "fails" /\ stage = "count" /\ status = "error"
           \/ from = "look" /\ stage = "search"
           \/ /\ from = "store" /\ stage = "advance"
              /\ status = IF task[b].pass = 2 /\ run[b].search THEN "creando" ELSE "listo"
    PROVE  BatchInv'
<1>1. PICK t : t = task[b]
  OBVIOUS
<1>2. PICK ls : ls = items[b]
  OBVIOUS
<1>3. PICK i : i = t.i
  OBVIOUS
<1>4. PICK r : r = run[b]
  OBVIOUS
<1>5. /\ t \in Batch!Task /\ t.pc = from /\ r \in Batch!Row /\ ls \in Seq(Batch!Item) /\ Len(ls) \in Nat
      /\ i \in 1..Len(ls) /\ t.i = i /\ i \in Batch!Lines
      /\ InLine(r, ls, t) /\ KnowsCases(b, ls, t, cases) /\ LinesAreSettled(r, ls, t)
      /\ CountersAddUp(r, ls, t) /\ LinesNameTheirCase(b, ls, cases)
      /\ r.status # "none"
  BY <1>1, <1>2, <1>3, <1>4, AtWork DEF SoundTask
<1>6. /\ UNCHANGED cases /\ harmed' \in SUBSET Batches /\ task \in [Batches -> Batch!Task \cup {Batch!NoTask}]
      /\ run = [run EXCEPT ![b] = r] /\ items = [items EXCEPT ![b] = ls] /\ Len(ls) = Len(items[b])
  BY <1>2, <1>4 DEF BatchInv, BatchTypes
<1>7. PICK u : u = [t EXCEPT !.pc = stage]
  OBVIOUS
<1>8. /\ u \in Batch!Task /\ u.pc = stage /\ u.pass = t.pass /\ u.i = t.i /\ u.at = t.at
      /\ u.found = t.found /\ u.reused = t.reused
  BY <1>5, <1>7 DEF Batch!Task
<1>9. c \in Batch!CaseIds \cup {Batch!NoCase}
  BY <1>1, <1>3, <1>5 DEF Batch!Found, Batch!Task
<1>10. PICK hs : items' = [items EXCEPT ![b] = hs] /\ IsRewritten(hs, ls, i, status, c, reused)
  BY <1>1, <1>2, <1>3, <1>9, ItemUpdated
<1>11. /\ hs \in Seq(Batch!Item) /\ Len(hs) = Len(ls) /\ hs[i].case = c /\ hs[i].reused = reused
       /\ hs[i].status = status /\ \A k \in 1..Len(ls) : k # i => hs[k] = ls[k]
  BY <1>10 DEF IsRewritten
<1>12. \A k, d, q : k \in 1..Len(ls) /\ MayName(b, k, d, q, ls, cases) => MayName(b, k, d, q, hs, cases)
  BY <1>10, RewrittenMayName
<1>13. \A k : WithCase(hs, u, k) = WithCase(ls, t, k)
  BY <1>5, <1>8, <1>11, WithCaseSame
<1>14. InLine(r, hs, u)
  BY <1>5, <1>8, <1>11 DEF InLine, FirstPass, LaterPass
<1>15. KnowsCases(b, hs, u, cases)
  <2>1. \A k \in 1..Len(hs) : u.found[k] # Batch!NoCase => MayName(b, k, u.found[k], u.reused[k], hs, cases)
    BY <1>5, <1>8, <1>11, <1>12 DEF KnowsCases
  <2>2. QED
    BY <1>5, <1>8, <1>11, <2>1, ZenonT(30) DEF InLine, KnowsCases, FirstPass, LaterPass, Before
<1>16. LinesAreSettled(r, hs, u)
  <2>1. from = "link" => t.found[i] # Batch!NoCase
    BY <1>5 DEF KnowsCases
  <2>2. from = "store" => status = IF t.pass = 2 /\ r.search THEN "creando" ELSE "listo"
    BY <1>1, <1>4
  <2>3. QED
    BY <1>5, <1>8, <1>11, <1>13, <2>1, <2>2 DEF InLine, LinesAreSettled, Done, FirstPass,
       LaterPass
<1>17. CountersAddUp(r, hs, u)
  BY <1>5, <1>8, <1>11, <1>13 DEF InLine, CountersAddUp, FirstPass, LaterPass
<1>18. LinesNameTheirCase(b, hs, cases)
  <2>1. ASSUME c # Batch!NoCase PROVE MayName(b, i, c, reused, hs, cases)
    <3>1. c = t.found[i] /\ reused = t.reused[i]
      BY <1>1, <1>3, <2>1 DEF Batch!Found
    <3>2. MayName(b, i, c, reused, ls, cases)
      BY <1>5, <2>1, <3>1 DEF KnowsCases
    <3>3. QED
      BY <1>5, <1>12, <3>2
  <2>2. QED
    BY <1>5, <1>11, <1>12, <2>1 DEF LinesNameTheirCase
<1>19. task' = [task EXCEPT ![b] = u]
  BY <1>1, <1>7 DEF Batch!Goto
<1>20. QED
  BY <1>2, <1>5, <1>6, <1>8, <1>10, <1>11, <1>14, <1>15, <1>16, <1>17, <1>18, <1>19,
     PartsAreEnough

\* The line is being created.
LEMMA AnnounceKeeps ==
    ASSUME Batch!ItemsAssumption, BatchInv, NEW b \in Batches, Batch!Announce(b)
    PROVE  BatchInv'
<1>1. "announce" \in Batch!Steps /\ "find" \in Batch!Steps /\ FALSE \in BOOLEAN
  BY DEF Batch!Steps
<1>2. QED
  BY <1>1, UpdateKeeps DEF Batch!Announce

\* The line ended with an error: it names no case.
LEMMA ItemFailsKeeps ==
    ASSUME Batch!ItemsAssumption, BatchInv, NEW b \in Batches, Batch!ItemFails(b)
    PROVE  BatchInv'
<1>1. "fails" \in Batch!Steps /\ "count" \in Batch!Steps /\ FALSE \in BOOLEAN
  BY DEF Batch!Steps
<1>2. QED
  BY <1>1, UpdateKeeps DEF Batch!ItemFails

\* What the task knows of its line is typed.
LEMMA KnownOfLine ==
    ASSUME Batch!ItemsAssumption, BatchInv, NEW b \in Batches, NEW from \in Batch!Steps, Batch!At(b, from)
    PROVE  /\ task[b].reused[task[b].i] \in BOOLEAN
           /\ harmed \in SUBSET Batches
BY AtWork DEF Batch!Task, BatchInv, BatchTypes

\* The line names the case found, if there still is one.
LEMMA LinkItemKeeps ==
    ASSUME Batch!ItemsAssumption, BatchInv, NEW b \in Batches, Batch!LinkItem(b)
    PROVE  BatchInv'
<1>1. "link" \in Batch!Steps /\ "count" \in Batch!Steps /\ "fails" \in Batch!Steps /\ Batch!At(b, "link")
  BY DEF Batch!LinkItem, Batch!Steps
<1>2. CASE Batch!Stored(Batch!Found(b))
  BY <1>1, <1>2, KnownOfLine, UpdateKeeps DEF Batch!LinkItem
<1>3. CASE ~Batch!Stored(Batch!Found(b))
  BY <1>1, <1>3, KnownOfLine, GotoKeeps DEF Batch!LinkItem
<1>4. QED
  BY <1>2, <1>3

\* The line is being searched for.
LEMMA AnnounceSearchKeeps ==
    ASSUME Batch!ItemsAssumption, BatchInv, NEW b \in Batches, Batch!AnnounceSearch(b)
    PROVE  BatchInv'
<1>1. "look" \in Batch!Steps /\ "search" \in Batch!Steps /\ Batch!At(b, "look") /\ harmed' \in SUBSET Batches
  BY DEF Batch!AnnounceSearch, Batch!Steps, BatchInv, BatchTypes
<1>2. CASE Batch!Stored(Batch!Found(b))
  BY <1>1, <1>2, KnownOfLine, UpdateKeeps DEF Batch!AnnounceSearch
<1>3. CASE ~Batch!Stored(Batch!Found(b))
  BY <1>1, <1>3, BreakWrites DEF Batch!AnnounceSearch
<1>4. QED
  BY <1>2, <1>3

\* The line is done; it names its case still.
LEMMA StoreItemKeeps ==
    ASSUME Batch!ItemsAssumption, BatchInv, NEW b \in Batches, Batch!StoreItem(b)
    PROVE  BatchInv'
<1>1. "store" \in Batch!Steps /\ "advance" \in Batch!Steps /\ Batch!At(b, "store") /\ harmed' \in SUBSET Batches
  BY DEF Batch!StoreItem, Batch!Steps, BatchInv, BatchTypes
<1>2. CASE Batch!Stored(Batch!Found(b))
  <2>1. PICK status : status = IF task[b].pass = 2 /\ run[b].search THEN "creando" ELSE "listo"
    OBVIOUS
  <2>2. Batch!UpdateItem(b, status, Batch!Found(b), task[b].reused[task[b].i]) /\ Batch!Goto(b, "advance")
    BY <1>2, <2>1 DEF Batch!StoreItem
  <2>3. status \in {"pendiente", "creando", "listo", "error"} /\ UNCHANGED <<run, cases, harmed>>
    BY <2>1 DEF Batch!StoreItem
  <2>4. QED
    BY <1>1, <2>1, <2>2, <2>3, KnownOfLine, UpdateKeeps
<1>3. CASE ~Batch!Stored(Batch!Found(b))
  BY <1>1, <1>3, BreakWrites DEF Batch!StoreItem
<1>4. QED
  BY <1>2, <1>3

\* The search of the line ended.
LEMMA SearchEndsKeeps ==
    ASSUME Batch!ItemsAssumption, BatchInv, NEW b \in Batches, Batch!SearchEnds(b)
    PROVE  BatchInv'
<1>1. "search" \in Batch!Steps /\ "core" \in Batch!Steps /\ harmed' \in SUBSET Batches
  BY DEF Batch!SearchEnds, Batch!Steps, BatchInv, BatchTypes
<1>2. QED
  BY <1>1, GotoKeeps DEF Batch!SearchEnds, LaterPass

\* Deciding whether to correlate changes no row; the task goes on or breaks.
LEMMA CorrelateKeeps ==
    ASSUME Batch!ItemsAssumption, BatchInv, NEW b \in Batches, Batch!Correlate(b)
    PROVE  BatchInv'
<1>1. "core" \in Batch!Steps /\ "store" \in Batch!Steps /\ "matches" \in Batch!Steps /\ Batch!At(b, "core") /\ harmed' \in SUBSET Batches
  BY DEF Batch!Correlate, Batch!Steps, BatchInv, BatchTypes
<1>2. CASE Batch!Break(b)
  BY <1>1, <1>2, BreakWrites DEF Batch!Correlate
<1>3. CASE Batch!Goto(b, "store") \/ Batch!Goto(b, "matches")
  BY <1>1, <1>3, GotoKeeps DEF Batch!Correlate, LaterPass
<1>4. QED
  BY <1>2, <1>3 DEF Batch!Correlate

\* Linking the messages keeps the invariant; without the case the task breaks.
LEMMA LinkMatchesKeeps ==
    ASSUME Batch!ItemsAssumption, BatchInv, NEW b \in Batches, Batch!LinkMatches(b)
    PROVE  BatchInv'
<1>1. "store" \in Batch!Steps /\ "matches" \in Batch!Steps /\ Batch!At(b, "matches") /\ harmed' \in SUBSET Batches
  BY DEF Batch!LinkMatches, Batch!Steps, BatchInv, BatchTypes
<1>2. CASE Batch!Break(b)
  BY <1>1, <1>2, BreakWrites DEF Batch!LinkMatches
<1>3. CASE Batch!Goto(b, "store")
  BY <1>1, <1>3, GotoKeeps DEF Batch!LinkMatches, LaterPass
<1>4. QED
  BY <1>2, <1>3 DEF Batch!LinkMatches

-----------------------------------------------------------------------------
(* From line to line and from pass to pass *)

\* No line after i is left in the pass of t.
NoneLeft(ls, t) == IF t.pass = 1 THEN t.i = Len(ls)
                   ELSE \A k \in 1..Len(ls) : k > t.i => t.found[k] = Batch!NoCase
Entry(pass) == IF pass = 1 THEN "announce" ELSE IF pass = 2 THEN "core" ELSE "look"
BatchGoesOn(ls, t, u) ==
    /\ u.pass = t.pass /\ u.pc = Entry(t.pass)
    /\ u.i \in 1..Len(ls) /\ u.i > t.i
    /\ IF t.pass = 1 THEN u.i = t.i + 1
       ELSE /\ t.found[u.i] # Batch!NoCase
            /\ \A k \in 1..Len(ls) : t.i < k /\ k < u.i => t.found[k] = Batch!NoCase
NextPass(r, ls, t, u) ==
    /\ NoneLeft(ls, t)
    /\ t.pass = 1 \/ (t.pass = 2 /\ r.search)
    /\ u.pass = t.pass + 1 /\ u.pc = Entry(t.pass + 1)
    /\ u.i \in 1..Len(ls) /\ t.found[u.i] # Batch!NoCase
    /\ \A k \in 1..Len(ls) : k < u.i => t.found[k] = Batch!NoCase
LastPass(r, ls, t, u) ==
    /\ NoneLeft(ls, t)
    /\ t.pass = 3 \/ (t.pass = 2 /\ ~r.search) \/ \A k \in 1..Len(ls) : t.found[k] = Batch!NoCase
    /\ u.pass = t.pass /\ u.i = t.i /\ u.pc = "finish"

\* Where a task goes on after a line.
LEMMA ContinueGoes ==
    ASSUME Batch!ItemsAssumption, BatchInv, NEW b \in Batches, NEW from \in {"count", "advance"},
           Batch!At(b, from), Batch!Continue(b), NEW t, t = task[b], NEW ls, ls = items[b], NEW r, r = run[b]
    PROVE  \E u : /\ u \in Batch!Task /\ task' = [task EXCEPT ![b] = u]
                  /\ u.found = t.found /\ u.reused = t.reused /\ u.at = t.at
                  /\ BatchGoesOn(ls, t, u) \/ NextPass(r, ls, t, u) \/ LastPass(r, ls, t, u)
<1>1. /\ t \in Batch!Task /\ ls \in Seq(Batch!Item) /\ Len(ls) \in Nat /\ t.i \in 1..Len(ls) /\ t.pass \in 1..3
      /\ 1..Len(ls) \subseteq Batch!Lines
  <2>1. from \in Batch!Steps
    BY DEF Batch!Steps
  <2>2. t \in Batch!Task /\ ls \in Seq(Batch!Item) /\ Len(ls) \in Nat /\ t.i \in 1..Len(ls) /\ Len(ls) <= MaxItems
        /\ MaxItems \in Nat
    BY <2>1, AtWork
  <2>3. QED
    BY <2>2 DEF Batch!Task, Batch!Lines
<1>2. PICK here : here = Batch!Candidates(b, t.pass, t.i)
  OBVIOUS
<1>3. PICK there : there = Batch!Candidates(b, t.pass + 1, 0)
  OBVIOUS
<1>4. PICK goes : goes <=> t.pass = 1 \/ (t.pass = 2 /\ r.search)
  OBVIOUS
<1>5. here = {k \in (t.i + 1)..Len(ls) : t.pass = 1 \/ t.found[k] # Batch!NoCase}
  BY <1>2 DEF Batch!Candidates
<1>6. there = {k \in 1..Len(ls) : t.found[k] # Batch!NoCase}
  BY <1>1, <1>3 DEF Batch!Candidates
<1>7. here # {} => Batch!First(here) \in here /\ \A l \in here : Batch!First(here) <= l
  <2>1. here \in SUBSET Nat
    BY <1>1, <1>5
  <2>2. QED
    BY <2>1, FirstIsLeast
<1>8. there # {} => Batch!First(there) \in there /\ \A l \in there : Batch!First(there) <= l
  <2>1. there \in SUBSET Nat
    BY <1>1, <1>6
  <2>2. QED
    BY <2>1, FirstIsLeast
<1>9. here = {} => NoneLeft(ls, t)
  BY <1>1, <1>5 DEF NoneLeft
<1>10. task \in [Batches -> Batch!Task \cup {Batch!NoTask}]
  BY DEF BatchInv, BatchTypes
<1>11. CASE here # {}
  <2>1. PICK j : j = Batch!First(here)
    OBVIOUS
  <2>2. /\ j \in here /\ \A l \in here : j <= l
        /\ j \in 1..Len(ls) /\ j > t.i /\ (t.pass = 1 \/ t.found[j] # Batch!NoCase)
    BY <1>1, <1>5, <1>7, <1>11, <2>1
  <2>3. PICK u : u = [t EXCEPT !.pass = t.pass, !.i = j, !.pc = Entry(t.pass)]
    OBVIOUS
  <2>4. /\ u \in Batch!Task /\ u.pass = t.pass /\ u.i = j /\ u.pc = Entry(t.pass)
        /\ u.found = t.found /\ u.reused = t.reused /\ u.at = t.at
    BY <1>1, <2>2, <2>3 DEF Batch!Task, Batch!Steps, Entry
  <2>5. t.pass = 1 => j = t.i + 1
    <3>1. t.pass = 1 => t.i + 1 \in here
      BY <1>1, <1>5, <2>2
    <3>2. QED
      BY <1>1, <2>2, <3>1
  <2>6. \A k \in 1..Len(ls) : t.i < k /\ k < j /\ t.pass # 1 => t.found[k] = Batch!NoCase
    BY <1>1, <1>5, <2>2
  <2>7. BatchGoesOn(ls, t, u)
    BY <2>2, <2>4, <2>5, <2>6 DEF BatchGoesOn
  <2>8. task' = [task EXCEPT ![b] = u]
    <3>1. PICK e : e = CASE t.pass = 1 -> "announce" [] t.pass = 2 -> "core" [] t.pass = 3 -> "look"
      OBVIOUS
    <3>2. task' = [task EXCEPT ![b] = [t EXCEPT !.pass = t.pass, !.i = j, !.pc = e]]
      BY <1>2, <1>11, <2>1, <3>1 DEF Batch!Continue
    <3>3. e = Entry(t.pass)
      BY <1>1, <3>1 DEF Entry
    <3>4. QED
      BY <2>3, <3>2, <3>3
  <2>9. QED
    BY <2>4, <2>7, <2>8
<1>12. CASE here = {} /\ goes /\ there # {}
  <2>1. PICK j : j = Batch!First(there)
    OBVIOUS
  <2>2. /\ j \in there /\ \A l \in there : j <= l
        /\ j \in 1..Len(ls) /\ t.found[j] # Batch!NoCase
    BY <1>1, <1>6, <1>8, <1>12, <2>1
  <2>3. PICK u : u = [t EXCEPT !.pass = t.pass + 1, !.i = j, !.pc = Entry(t.pass + 1)]
    OBVIOUS
  <2>4. /\ u \in Batch!Task /\ u.pass = t.pass + 1 /\ u.i = j /\ u.pc = Entry(t.pass + 1)
        /\ u.found = t.found /\ u.reused = t.reused /\ u.at = t.at
    <3>1. t.pass + 1 \in 1..3 /\ Entry(t.pass + 1) \in Batch!Steps /\ j \in Batch!Lines
      BY <1>1, <1>4, <1>12, <2>2 DEF Batch!Steps, Entry
    <3>2. QED
      BY <1>1, <2>3, <3>1 DEF Batch!Task
  <2>5. \A k \in 1..Len(ls) : k < j => t.found[k] = Batch!NoCase
    BY <1>1, <1>6, <2>2
  <2>6. NextPass(r, ls, t, u)
    BY <1>4, <1>9, <1>12, <2>2, <2>4, <2>5 DEF NextPass
  <2>7. task' = [task EXCEPT ![b] = u]
    <3>1. PICK p : p = t.pass + 1
      OBVIOUS
    <3>2. PICK e : e = CASE p = 1 -> "announce" [] p = 2 -> "core" [] p = 3 -> "look"
      OBVIOUS
    <3>3. task' = [task EXCEPT ![b] = [t EXCEPT !.pass = p, !.i = j, !.pc = e]]
      BY <1>2, <1>3, <1>4, <1>12, <2>1, <3>1, <3>2 DEF Batch!Continue
    <3>4. e = Entry(p)
      BY <1>1, <1>4, <1>12, <3>1, <3>2 DEF Entry
    <3>5. QED
      BY <2>3, <3>1, <3>3, <3>4
  <2>8. QED
    BY <2>4, <2>6, <2>7
<1>13. CASE here = {} /\ ~(goes /\ there # {})
  <2>1. PICK u : u = [t EXCEPT !.pc = "finish"]
    OBVIOUS
  <2>2. /\ u \in Batch!Task /\ u.pass = t.pass /\ u.i = t.i /\ u.pc = "finish"
        /\ u.found = t.found /\ u.reused = t.reused /\ u.at = t.at
    BY <1>1, <2>1 DEF Batch!Task, Batch!Steps
  <2>3. LastPass(r, ls, t, u)
    BY <1>1, <1>4, <1>6, <1>9, <1>13, <2>2 DEF LastPass
  <2>4. task' = [task EXCEPT ![b] = u]
    BY <1>1, <1>2, <1>3, <1>4, <1>13, <2>1 DEF Batch!Continue
  <2>5. QED
    BY <2>2, <2>3, <2>4
<1>14. QED
  BY <1>11, <1>12, <1>13

\* The counters when line i is counted.
Counted(r, ls, t) ==
    /\ r.created = IF t.pass = 1 THEN t.i ELSE Len(ls)
    /\ r.correlated = IF t.pass = 1 THEN 0
                      ELSE Batch!Cardinality(WithCase(ls, t, IF t.pass = 2 THEN t.i ELSE Len(ls)))
    /\ r.searched = IF t.pass = 3 THEN Batch!Cardinality(WithCase(ls, t, t.i)) ELSE 0

\* A step that counts a line and goes on.
LEMMA ContinueKeeps ==
    ASSUME Batch!ItemsAssumption, BatchInv, NEW b \in Batches, NEW from \in {"count", "advance"},
           Batch!At(b, from), Batch!Continue(b), NEW q \in Batch!Row, run' = [run EXCEPT ![b] = q],
           q.status = run[b].status, q.search = run[b].search, Counted(q, items[b], task[b]),
           UNCHANGED <<items, cases, harmed>>
    PROVE  BatchInv'
<1>1. PICK t : t = task[b]
  OBVIOUS
<1>2. PICK ls : ls = items[b]
  OBVIOUS
<1>3. PICK i : i = t.i
  OBVIOUS
<1>4. PICK r : r = run[b]
  OBVIOUS
<1>5. /\ t \in Batch!Task /\ t.pc = from /\ r \in Batch!Row /\ ls \in Seq(Batch!Item) /\ Len(ls) \in Nat
      /\ i \in 1..Len(ls) /\ t.i = i /\ i \in Batch!Lines
      /\ InLine(r, ls, t) /\ KnowsCases(b, ls, t, cases) /\ LinesAreSettled(r, ls, t)
      /\ CountersAddUp(r, ls, t) /\ LinesNameTheirCase(b, ls, cases)
      /\ r.status # "none"
  <2>1. from \in Batch!Steps
    BY DEF Batch!Steps
  <2>2. QED
    BY <1>1, <1>2, <1>3, <1>4, <2>1, AtWork DEF SoundTask
<1>6. /\ UNCHANGED cases /\ harmed' \in SUBSET Batches /\ task \in [Batches -> Batch!Task \cup {Batch!NoTask}]
      /\ run = [run EXCEPT ![b] = r] /\ items = [items EXCEPT ![b] = ls] /\ Len(ls) = Len(items[b])
  BY <1>2, <1>4 DEF BatchInv, BatchTypes
<1>7. PICK u : /\ u \in Batch!Task /\ task' = [task EXCEPT ![b] = u]
               /\ u.found = t.found /\ u.reused = t.reused /\ u.at = t.at
               /\ BatchGoesOn(ls, t, u) \/ NextPass(r, ls, t, u) \/ LastPass(r, ls, t, u)
  BY <1>1, <1>2, <1>4, ContinueGoes
<1>8. /\ t.pass \in 1..3 /\ q.status = "running" /\ q.search = r.search
      /\ t.pass = 1 => t.pc = "count" /\ from = "count"
      /\ t.pass # 1 => t.pc = "advance" /\ from = "advance" /\ t.found[i] # Batch!NoCase
      /\ t.pass = 3 => q.search
      /\ Counted(q, ls, t)
  BY <1>1, <1>2, <1>4, <1>5 DEF InLine, Batch!Task, FirstPass, LaterPass
<1>9. \A k \in 1..Len(ls) : u.found[k] # Batch!NoCase => MayName(b, k, u.found[k], u.reused[k], ls, cases)
  BY <1>5, <1>7 DEF KnowsCases
<1>10. \A k : WithCase(ls, u, k) = WithCase(ls, t, k)
  BY <1>7 DEF WithCase
<1>11. LinesNameTheirCase(b, ls, cases) /\ q.status # "none" /\ items' = [items EXCEPT ![b] = ls]
  BY <1>5, <1>6, <1>8
<1>12. CASE BatchGoesOn(ls, t, u)
  <2>1. InLine(q, ls, u)
    BY <1>5, <1>7, <1>8, <1>12 DEF BatchGoesOn, Entry, InLine, FirstPass, LaterPass
  <2>2. KnowsCases(b, ls, u, cases)
    BY <1>5, <1>7, <1>8, <1>9, <1>12 DEF BatchGoesOn, Entry, KnowsCases, FirstPass, Before
  <2>3. LinesAreSettled(q, ls, u)
    BY <1>5, <1>7, <1>8, <1>12 DEF BatchGoesOn, Entry, LinesAreSettled, Done
  <2>4. t.pass # 1 => WithCase(ls, t, u.i - 1) = WithCase(ls, t, i)
    BY <1>5, <1>12 DEF BatchGoesOn, WithCase
  <2>5. CountersAddUp(q, ls, u)
    BY <1>5, <1>8, <1>10, <1>12, <2>4 DEF BatchGoesOn, Entry, Counted, CountersAddUp, FirstPass
  <2>6. QED
    BY <1>6, <1>7, <1>5, <1>11, <2>1, <2>2, <2>3, <2>5, PartsAreEnough
<1>13. CASE NextPass(r, ls, t, u)
  <2>1. InLine(q, ls, u)
    BY <1>5, <1>7, <1>8, <1>13 DEF NextPass, Entry, InLine, FirstPass, LaterPass
  <2>2. KnowsCases(b, ls, u, cases)
    BY <1>5, <1>7, <1>8, <1>9, <1>13 DEF NextPass, Entry, KnowsCases, FirstPass, Before
  <2>3. LinesAreSettled(q, ls, u)
    BY <1>5, <1>7, <1>8, <1>13 DEF NextPass, NoneLeft, Entry, LinesAreSettled, Done
  <2>4. Batch!Cardinality(WithCase(ls, t, u.i - 1)) = 0
    <3>1. WithCase(ls, t, u.i - 1) = {}
      BY <1>5, <1>13 DEF NextPass, WithCase
    <3>2. QED
      BY <3>1, BatchCounts, FS_EmptySet
  <2>5. t.pass = 2 => WithCase(ls, t, i) = WithCase(ls, t, Len(ls))
    BY <1>5, <1>13 DEF NextPass, NoneLeft, WithCase
  <2>6. CountersAddUp(q, ls, u)
    BY <1>5, <1>8, <1>10, <1>13, <2>4, <2>5 DEF NextPass, NoneLeft, Entry, Counted,
       CountersAddUp, FirstPass
  <2>7. QED
    BY <1>6, <1>7, <1>5, <1>11, <2>1, <2>2, <2>3, <2>6, PartsAreEnough
<1>14. CASE LastPass(r, ls, t, u)
  <2>1. InLine(q, ls, u)
    BY <1>5, <1>7, <1>8, <1>14 DEF LastPass, InLine, FirstPass, LaterPass
  <2>2. KnowsCases(b, ls, u, cases)
    BY <1>5, <1>7, <1>8, <1>9, <1>14 DEF LastPass, KnowsCases, FirstPass, Before
  <2>3. ASSUME \A k \in 1..Len(ls) : t.found[k] = Batch!NoCase
        PROVE  WithCase(ls, t, Len(ls)) = {} /\ WithCase(ls, t, i) = {}
    BY <2>3 DEF WithCase
  <2>4. LinesAreSettled(q, ls, u)
    BY <1>5, <1>7, <1>8, <1>10, <1>14, <2>3 DEF LastPass, NoneLeft, LinesAreSettled, Done
  <2>5. t.pass # 1 => WithCase(ls, t, i) = WithCase(ls, t, Len(ls))
    BY <1>5, <1>14 DEF LastPass, NoneLeft, WithCase
  <2>6. ASSUME \A k \in 1..Len(ls) : t.found[k] = Batch!NoCase
        PROVE  Batch!Cardinality(WithCase(ls, t, Len(ls))) = 0 /\ Batch!Cardinality(WithCase(ls, t, i)) = 0
    BY <2>3, <2>6, BatchCounts, FS_EmptySet
  <2>7. CountersAddUp(q, ls, u)
    BY <1>5, <1>8, <1>10, <1>14, <2>5, <2>6 DEF LastPass, NoneLeft, Counted, CountersAddUp,
       FirstPass
  <2>8. QED
    BY <1>6, <1>7, <1>5, <1>11, <2>1, <2>2, <2>4, <2>7, PartsAreEnough
<1>15. QED
  BY <1>7, <1>12, <1>13, <1>14

\* The counters count the line the task is at, once.
LEMMA CountCreatedKeeps ==
    ASSUME Batch!ItemsAssumption, BatchInv, NEW b \in Batches, Batch!CountCreated(b)
    PROVE  BatchInv'
<1>1. PICK t : t = task[b]
  OBVIOUS
<1>2. PICK ls : ls = items[b]
  OBVIOUS
<1>3. PICK i : i = t.i
  OBVIOUS
<1>4. PICK r : r = run[b]
  OBVIOUS
<1>5. /\ t \in Batch!Task /\ t.pc = "count" /\ r \in Batch!Row /\ ls \in Seq(Batch!Item) /\ Len(ls) \in Nat
      /\ i \in 1..Len(ls) /\ t.i = i /\ i \in Batch!Lines
      /\ InLine(r, ls, t) /\ KnowsCases(b, ls, t, cases) /\ LinesAreSettled(r, ls, t)
      /\ CountersAddUp(r, ls, t) /\ LinesNameTheirCase(b, ls, cases)
      /\ r.status # "none"
  <2>1. Batch!At(b, "count") /\ "count" \in Batch!Steps
    BY DEF Batch!CountCreated, Batch!Steps
  <2>2. QED
    BY <1>1, <1>2, <1>3, <1>4, <2>1, AtWork DEF SoundTask
<1>6. /\ UNCHANGED cases /\ harmed' \in SUBSET Batches /\ task \in [Batches -> Batch!Task \cup {Batch!NoTask}]
      /\ run = [run EXCEPT ![b] = r] /\ items = [items EXCEPT ![b] = ls] /\ Len(ls) = Len(items[b])
  BY <1>2, <1>4 DEF Batch!CountCreated, BatchInv, BatchTypes
<1>7. PICK q : q = [r EXCEPT !.created = @ + 1]
  OBVIOUS
<1>8. t.pass = 1 /\ r.created = i - 1 /\ r.correlated = 0 /\ r.searched = 0
  BY <1>5 DEF InLine, CountersAddUp, FirstPass
<1>9. i \in Nat /\ i <= MaxItems /\ MaxItems \in Nat
  BY <1>5 DEF Batch!Lines, Batch!ItemsAssumption
<1>10. /\ q \in Batch!Row /\ q.status = r.status /\ q.search = r.search
       /\ q.created = i /\ q.correlated = 0 /\ q.searched = 0
  BY <1>5, <1>7, <1>8, <1>9 DEF Batch!Row
<1>11. Counted(q, ls, t)
  BY <1>5, <1>8, <1>10 DEF Counted
<1>12. Batch!At(b, "count") /\ Batch!Continue(b) /\ UNCHANGED <<items, cases, harmed>>
       /\ run' = [run EXCEPT ![b] = q]
  BY <1>4, <1>6, <1>7 DEF Batch!CountCreated
<1>13. QED
  BY <1>1, <1>2, <1>4, <1>10, <1>11, <1>12, ContinueKeeps

\* The next line, or the next pass over them.
LEMMA AdvanceKeeps ==
    ASSUME Batch!ItemsAssumption, BatchInv, NEW b \in Batches, Batch!Advance(b)
    PROVE  BatchInv'
<1>1. PICK t : t = task[b]
  OBVIOUS
<1>2. PICK ls : ls = items[b]
  OBVIOUS
<1>3. PICK i : i = t.i
  OBVIOUS
<1>4. PICK r : r = run[b]
  OBVIOUS
<1>5. /\ t \in Batch!Task /\ t.pc = "advance" /\ r \in Batch!Row /\ ls \in Seq(Batch!Item) /\ Len(ls) \in Nat
      /\ i \in 1..Len(ls) /\ t.i = i /\ i \in Batch!Lines
      /\ InLine(r, ls, t) /\ KnowsCases(b, ls, t, cases) /\ LinesAreSettled(r, ls, t)
      /\ CountersAddUp(r, ls, t) /\ LinesNameTheirCase(b, ls, cases)
      /\ r.status # "none"
  <2>1. Batch!At(b, "advance") /\ "advance" \in Batch!Steps
    BY DEF Batch!Advance, Batch!Steps
  <2>2. QED
    BY <1>1, <1>2, <1>3, <1>4, <2>1, AtWork DEF SoundTask
<1>6. /\ UNCHANGED cases /\ harmed' \in SUBSET Batches /\ task \in [Batches -> Batch!Task \cup {Batch!NoTask}]
      /\ run = [run EXCEPT ![b] = r] /\ items = [items EXCEPT ![b] = ls] /\ Len(ls) = Len(items[b])
  BY <1>2, <1>4 DEF Batch!Advance, BatchInv, BatchTypes
<1>7. PICK q : q = IF t.pass = 2 THEN [r EXCEPT !.correlated = @ + 1] ELSE [r EXCEPT !.searched = @ + 1]
  OBVIOUS
<1>8. /\ t.pass \in {2, 3} /\ t.found[i] # Batch!NoCase /\ r.created = Len(ls)
      /\ t.pass = 2 => r.correlated = Batch!Cardinality(WithCase(ls, t, i - 1)) /\ r.searched = 0
      /\ t.pass = 3 => /\ r.correlated = Batch!Cardinality(WithCase(ls, t, Len(ls)))
                       /\ r.searched = Batch!Cardinality(WithCase(ls, t, i - 1))
  BY <1>5 DEF InLine, CountersAddUp, FirstPass, LaterPass
<1>9. i \in Nat /\ Len(ls) <= MaxItems /\ MaxItems \in Nat
  BY <1>2, <1>5 DEF BatchInv, BatchTypes, Batch!ItemsAssumption
<1>10. Batch!Cardinality(WithCase(ls, t, i)) = Batch!Cardinality(WithCase(ls, t, i - 1)) + 1
  <2>1. i \in Nat /\ i <= i /\ i <= Len(ls) /\ \A l \in 1..Len(ls) : i < l /\ l <= i => t.found[l] = Batch!NoCase
    BY <1>5
  <2>2. QED
    BY <1>5, <1>8, <2>1, WithCaseGoesOn
<1>11. Batch!Cardinality(WithCase(ls, t, i)) \in 0..MaxItems
  <2>1. Batch!Cardinality(WithCase(ls, t, i)) \in 0..Len(ls)
    BY <1>5, <1>9, WithCaseCounts
  <2>2. QED
    BY <1>5, <1>9, <2>1
<1>12. /\ q \in Batch!Row /\ q.status = r.status /\ q.search = r.search /\ q.created = Len(ls)
       /\ q.correlated = IF t.pass = 2 THEN Batch!Cardinality(WithCase(ls, t, i)) ELSE r.correlated
       /\ q.searched = IF t.pass = 3 THEN Batch!Cardinality(WithCase(ls, t, i)) ELSE r.searched
  BY <1>5, <1>7, <1>8, <1>10, <1>11 DEF Batch!Row
<1>13. Counted(q, ls, t)
  BY <1>5, <1>8, <1>12 DEF Counted
<1>14. Batch!At(b, "advance") /\ Batch!Continue(b) /\ UNCHANGED <<items, cases, harmed>>
       /\ run' = [run EXCEPT ![b] = q]
  <2>1. CASE t.pass = 2
    BY <1>1, <1>4, <1>6, <1>7, <2>1 DEF Batch!Advance
  <2>2. CASE t.pass # 2
    BY <1>1, <1>4, <1>6, <1>7, <2>2 DEF Batch!Advance
  <2>3. QED
    BY <2>1, <2>2
<1>15. QED
  BY <1>1, <1>2, <1>4, <1>12, <1>13, <1>14, ContinueKeeps

-----------------------------------------------------------------------------
(* The end, the beginning and the other users *)

\* A batch that ended well has the counters of all its lines.
LEMMA BatchFinishKeeps ==
    ASSUME Batch!ItemsAssumption, BatchInv, NEW b \in Batches, Batch!Finish(b)
    PROVE  BatchInv'
<1>1. PICK t : t = task[b]
  OBVIOUS
<1>2. PICK ls : ls = items[b]
  OBVIOUS
<1>3. PICK i : i = t.i
  OBVIOUS
<1>4. PICK r : r = run[b]
  OBVIOUS
<1>5. /\ t \in Batch!Task /\ t.pc = "finish" /\ r \in Batch!Row /\ ls \in Seq(Batch!Item) /\ Len(ls) \in Nat
      /\ i \in 1..Len(ls) /\ t.i = i /\ i \in Batch!Lines
      /\ InLine(r, ls, t) /\ KnowsCases(b, ls, t, cases) /\ LinesAreSettled(r, ls, t)
      /\ CountersAddUp(r, ls, t) /\ LinesNameTheirCase(b, ls, cases)
      /\ r.status # "none"
  <2>1. Batch!At(b, "finish") /\ "finish" \in Batch!Steps
    BY DEF Batch!Finish, Batch!Steps
  <2>2. QED
    BY <1>1, <1>2, <1>3, <1>4, <2>1, AtWork DEF SoundTask
<1>6. /\ UNCHANGED cases /\ harmed' \in SUBSET Batches /\ task \in [Batches -> Batch!Task \cup {Batch!NoTask}]
      /\ run = [run EXCEPT ![b] = r] /\ items = [items EXCEPT ![b] = ls] /\ Len(ls) = Len(items[b])
  BY <1>2, <1>4 DEF Batch!Finish, BatchInv, BatchTypes
<1>7. PICK q : q = [r EXCEPT !.status = "success"]
  OBVIOUS
<1>8. /\ q \in Batch!Row /\ q.status = "success" /\ q.search = r.search /\ q.created = r.created
      /\ q.correlated = r.correlated /\ q.searched = r.searched
  BY <1>5, <1>7 DEF Batch!Row
<1>9. \A k \in 1..Len(ls) : IF t.found[k] = Batch!NoCase THEN ls[k].status = "error" ELSE ls[k].status = "listo"
  BY <1>5 DEF LinesAreSettled, Done, WithCase
<1>10. DOMAIN ls = 1..Len(ls)
  BY <1>5
<1>11. {k \in DOMAIN ls : ls[k].status = "listo"} = WithCase(ls, t, Len(ls))
  BY <1>5, <1>9, <1>10 DEF WithCase
<1>12. EndAddsUp(q, ls)
  <2>1. \A k \in DOMAIN ls : ls[k].status = "listo" \/ ls[k].status = "error"
    BY <1>9, <1>10
  <2>2. /\ q.created = Len(ls) /\ q.correlated = Batch!Cardinality(WithCase(ls, t, Len(ls)))
        /\ q.searched = IF q.search THEN Batch!Cardinality(WithCase(ls, t, Len(ls))) ELSE 0
    BY <1>5, <1>8 DEF CountersAddUp, FirstPass
  <2>3. QED
    BY <1>11, <2>1, <2>2 DEF EndAddsUp
<1>13. Sound(b, q, ls, Batch!NoTask, cases)
  BY <1>5, <1>8, <1>12 DEF Sound
<1>14. run' = [run EXCEPT ![b] = q] /\ task' = [task EXCEPT ![b] = Batch!NoTask] /\ items' = [items EXCEPT ![b] = ls]
  BY <1>4, <1>6, <1>7 DEF Batch!Finish
<1>15. QED
  BY <1>5, <1>6, <1>8, <1>13, <1>14, OneBatchAtATime

\* A case created for a line is the only one of its code and of that line.
LEMMA InsertCaseKeeps ==
    ASSUME Batch!ItemsAssumption, BatchInv, NEW b \in Batches, Batch!InsertCase(b)
    PROVE  BatchInv'
<1>1. PICK t : t = task[b]
  OBVIOUS
<1>2. PICK ls : ls = items[b]
  OBVIOUS
<1>3. PICK i : i = t.i
  OBVIOUS
<1>4. PICK r : r = run[b]
  OBVIOUS
<1>5. /\ t \in Batch!Task /\ t.pc = "insert" /\ r \in Batch!Row /\ ls \in Seq(Batch!Item) /\ Len(ls) \in Nat
      /\ i \in 1..Len(ls) /\ t.i = i /\ i \in Batch!Lines
      /\ InLine(r, ls, t) /\ KnowsCases(b, ls, t, cases) /\ LinesAreSettled(r, ls, t)
      /\ CountersAddUp(r, ls, t) /\ LinesNameTheirCase(b, ls, cases)
      /\ r.status # "none"
  <2>1. Batch!At(b, "insert") /\ "insert" \in Batch!Steps
    BY DEF Batch!InsertCase, Batch!Steps
  <2>2. QED
    BY <1>1, <1>2, <1>3, <1>4, <2>1, AtWork DEF SoundTask
<1>6. /\ harmed' \in SUBSET Batches /\ task \in [Batches -> Batch!Task \cup {Batch!NoTask}]
      /\ run = [run EXCEPT ![b] = r] /\ items = [items EXCEPT ![b] = ls] /\ Len(ls) = Len(items[b])
  BY <1>2, <1>4 DEF Batch!InsertCase, BatchInv, BatchTypes
<1>7. PICK n : n = Len(cases)
  OBVIOUS
<1>8. PICK new : new = [code |-> ls[i].code, row |-> "open", access |-> "edit", by |-> <<b, i>>]
  OBVIOUS
<1>9. new \in Batch!Case /\ new.code = ls[i].code /\ new.by = <<b, i>> /\ new.by # << >>
  <2>1. ls[i] \in Batch!Item
    BY <1>5
  <2>2. QED
    BY <1>5, <1>8, <2>1 DEF Batch!Case, Batch!Item
<1>10. PICK cs : cs = Append(cases, new)
  OBVIOUS
<1>11. /\ cases \in Seq(Batch!Case) /\ n \in Nat /\ cs \in Seq(Batch!Case) /\ Len(cs) = n + 1
       /\ cs[n + 1] = new /\ \A c \in 1..n : cs[c] = cases[c]
  BY <1>7, <1>9, <1>10 DEF BatchInv, BatchTypes
<1>12. cases' = cs /\ UNCHANGED <<run, items, harmed>>
  BY <1>1, <1>2, <1>3, <1>8, <1>10 DEF Batch!InsertCase, Batch!Line
<1>13. \A c \in 1..n : cases[c].by # <<b, i>>
  BY <1>5, <1>7 DEF KnowsCases, FirstPass, Before
<1>14. <<b, i>> \in Batch!AllLines
  BY <1>2, <1>5 DEF Batch!AllLines
<1>15. AreOfLines(cs, Batch!AllLines)
  <2>1. \A c \in 1..n : IF cases[c].by = << >> THEN c = 1 ELSE cases[c].by \in Batch!AllLines
    BY <1>7 DEF BatchInv, CasesOfLines, AreOfLines
  <2>2. \A c, d \in 1..n : cases[c].by # << >> /\ cases[c].by = cases[d].by => c = d
    BY <1>7 DEF BatchInv, CasesOfLines, AreOfLines
  <2>3. \A c \in 1..Len(cs) : c \in 1..n \/ c = n + 1
    BY <1>11
  <2>4. QED
    BY <1>9, <1>11, <1>13, <1>14, <2>1, <2>2, <2>3, ZenonT(30) DEF AreOfLines
<1>16. n + 1 <= MaxItems + 1
  <2>1. Batch!IsFiniteSet(Batch!AllLines) /\ Batch!Cardinality(Batch!AllLines) <= MaxItems /\ MaxItems \in Nat
    BY DEF BatchInv, BatchTypes, Batch!ItemsAssumption
  <2>2. QED
    BY <1>11, <1>15, <2>1, CasesAreFew
<1>17. PICK u : u = [t EXCEPT !.at = n + 1, !.pc = "detail"]
  OBVIOUS
<1>18. /\ u \in Batch!Task /\ u.pc = "detail" /\ u.pass = t.pass /\ u.i = i /\ u.at = n + 1
       /\ u.found = t.found /\ u.reused = t.reused
  <2>1. n + 1 \in Batch!CaseIds
    BY <1>11, <1>16 DEF Batch!CaseIds, Batch!ItemsAssumption
  <2>2. QED
    BY <1>5, <1>17, <2>1 DEF Batch!Task, Batch!Steps
<1>19. task' = [task EXCEPT ![b] = u]
  <2>1. task' = [task EXCEPT ![b].at = n + 1, ![b].pc = "detail"]
    BY <1>7 DEF Batch!InsertCase
  <2>2. QED
    BY <1>1, <1>6, <1>17, <2>1
<1>20. \A k, c, q : MayName(b, k, c, q, ls, cases) => MayName(b, k, c, q, ls, cs)
  BY <1>7, <1>11 DEF MayName
<1>21. LinesNameTheirCase(b, ls, cs)
  BY <1>5, <1>20 DEF LinesNameTheirCase
<1>22. InLine(r, ls, u)
  BY <1>5, <1>18 DEF InLine, FirstPass, LaterPass
<1>23. KnowsCases(b, ls, u, cs)
  <2>1. \A k \in 1..Len(ls) : u.found[k] # Batch!NoCase => MayName(b, k, u.found[k], u.reused[k], ls, cs)
    BY <1>5, <1>18, <1>20 DEF KnowsCases
  <2>2. \A c \in 1..Len(cs), k \in 1..Len(ls) : cs[c].by = <<b, k>> => k < i \/ k = i
    <3>1. \A c \in 1..n, k \in 1..Len(ls) : cases[c].by = <<b, k>> => k < i
      BY <1>5, <1>7 DEF KnowsCases, FirstPass, Before
    <3>2. \A c \in 1..Len(cs) : c \in 1..n \/ c = n + 1
      BY <1>11
    <3>3. QED
      BY <1>9, <1>11, <3>1, <3>2
  <2>3. MayName(b, i, n + 1, FALSE, ls, cs)
    BY <1>9, <1>11 DEF MayName
  <2>4. QED
    BY <1>5, <1>18, <2>1, <2>2, <2>3 DEF KnowsCases, FirstPass, Before
<1>24. LinesAreSettled(r, ls, u)
  BY <1>5, <1>18 DEF InLine, LinesAreSettled, Done, FirstPass
<1>25. CountersAddUp(r, ls, u)
  BY <1>5, <1>18 DEF InLine, CountersAddUp, FirstPass
<1>26. ASSUME NEW o \in Batches
       PROVE  Sound(o, run'[o], items'[o], task'[o], cases')
  <2>1. CASE o = b
    <3>1. Sound(b, r, ls, u, cs)
      BY <1>5, <1>18, <1>21, <1>22, <1>23, <1>24, <1>25, NoTaskIsNone DEF Sound, SoundTask
    <3>2. QED
      BY <1>2, <1>4, <1>6, <1>12, <1>19, <2>1, <3>1
  <2>2. CASE o # b
    <3>1. /\ Sound(o, run[o], items[o], task[o], cases) /\ items[o] \in Seq(Batch!Item)
          /\ task[o] \in Batch!Task \cup {Batch!NoTask} /\ Len(items[o]) <= MaxItems /\ MaxItems \in Nat
      BY DEF BatchInv, BatchTypes, Batch!ItemsAssumption
    <3>2. \A c \in 1..Len(cs), k \in Batch!Lines : c > Len(cases) => cs[c].by # <<o, k>>
      BY <1>7, <1>9, <1>11, <2>2
    <3>3. Len(cases) <= Len(cs) /\ \A c \in 1..Len(cases) : cs[c].code = cases[c].code /\ cs[c].by = cases[c].by
      BY <1>7, <1>11
    <3>4. Sound(o, run[o], items[o], task[o], cs)
      BY <1>11, <2>2, <3>1, <3>2, <3>3, OthersStaySound
    <3>5. QED
      BY <1>6, <1>12, <1>19, <2>2, <3>4
  <2>3. QED
    BY <2>1, <2>2
<1>27. Batch!AllLines' = Batch!AllLines
  BY <1>12 DEF Batch!AllLines
<1>28. BatchTypes'
  BY <1>11, <1>12, <1>18, <1>19, <1>27 DEF BatchInv, BatchTypes
<1>29. QED
  BY <1>12, <1>15, <1>26, <1>27, <1>28 DEF BatchInv, CasesOfLines

\* The lines of a new batch still fit.
LEMMA LinesAdded ==
    ASSUME NEW S, Batch!IsFiniteSet(S), NEW b, NEW n \in Nat
    PROVE  /\ Batch!IsFiniteSet(S \cup ({b} \X (1..n)))
           /\ Batch!Cardinality(S \cup ({b} \X (1..n))) <= Batch!Cardinality(S) + n
<1>1. Batch!IsFiniteSet({b}) /\ Batch!Cardinality({b}) = 1
  BY BatchCounts, FS_Singleton
<1>2. Batch!IsFiniteSet(1..n) /\ Batch!Cardinality(1..n) = n
  BY BatchCounts, FS_Interval
<1>3. PICK T : T = {b} \X (1..n)
  OBVIOUS
<1>4. Batch!IsFiniteSet(T) /\ Batch!Cardinality(T) = 1 * n
  BY <1>1, <1>2, <1>3, BatchCounts, FS_Product, ZenonT(30)
<1>5. /\ Batch!IsFiniteSet(S \cup T)
      /\ Batch!Cardinality(S \cup T) = Batch!Cardinality(S) + Batch!Cardinality(T) - Batch!Cardinality(S \cap T)
  BY <1>4, BatchCounts, FS_Union
<1>6. Batch!IsFiniteSet(S \cap T)
  BY BatchCounts, FS_Intersection
<1>7. Batch!Cardinality(S \cap T) \in Nat /\ Batch!Cardinality(S) \in Nat
  BY <1>6, BatchCounts, FS_CardinalityType
<1>8. QED
  BY <1>3, <1>4, <1>5, <1>7

\* A batch that starts has its lines pending.
LEMMA StartBatchKeeps ==
    ASSUME Batch!ItemsAssumption, BatchInv, NEW b \in Batches, Batch!StartBatch(b)
    PROVE  BatchInv'
<1>1. PICK n \in 1..(MaxItems - Batch!Total), search \in BOOLEAN : \E codes \in [1..n -> Codes] :
         /\ run' = [run EXCEPT ![b] = [Batch!NoRow EXCEPT !.status = "queued", !.search = search]]
         /\ items' = [items EXCEPT ![b] = [k \in 1..n |->
                [code |-> codes[k], status |-> "pendiente", case |-> Batch!NoCase, reused |-> FALSE]]]
  BY DEF Batch!StartBatch
<1>2. PICK codes \in [1..n -> Codes] :
         /\ run' = [run EXCEPT ![b] = [Batch!NoRow EXCEPT !.status = "queued", !.search = search]]
         /\ items' = [items EXCEPT ![b] = [k \in 1..n |->
                [code |-> codes[k], status |-> "pendiente", case |-> Batch!NoCase, reused |-> FALSE]]]
  BY <1>1
<1>3. PICK q : q = [Batch!NoRow EXCEPT !.status = "queued", !.search = search]
  OBVIOUS
<1>4. PICK hs : hs = [k \in 1..n |->
                [code |-> codes[k], status |-> "pendiente", case |-> Batch!NoCase, reused |-> FALSE]]
  OBVIOUS
<1>5. PICK u : u = [pc |-> "begin", pass |-> 1, i |-> 1, at |-> Batch!NoCase,
                    found |-> [k \in Batch!Lines |-> Batch!NoCase], reused |-> [k \in Batch!Lines |-> FALSE]]
  OBVIOUS
<1>6. /\ run' = [run EXCEPT ![b] = q] /\ items' = [items EXCEPT ![b] = hs]
      /\ task' = [task EXCEPT ![b] = u] /\ UNCHANGED <<cases, harmed>>
  BY <1>2, <1>3, <1>4, <1>5 DEF Batch!StartBatch
<1>7. /\ MaxItems \in Nat /\ Batch!IsFiniteSet(Batch!AllLines) /\ Batch!Cardinality(Batch!AllLines) \in Nat
      /\ n \in Nat /\ 1 <= n /\ Batch!Cardinality(Batch!AllLines) + n <= MaxItems
  <2>1. MaxItems \in Nat /\ Batch!IsFiniteSet(Batch!AllLines)
    BY DEF Batch!ItemsAssumption, BatchInv, BatchTypes
  <2>2. Batch!Cardinality(Batch!AllLines) \in Nat
    BY <2>1, BatchCounts, FS_CardinalityType
  <2>3. QED
    BY <2>1, <2>2 DEF Batch!Total
<1>8. /\ q \in Batch!Row /\ q.status = "queued" /\ q.created = 0 /\ q.correlated = 0 /\ q.searched = 0
  <2>1. Batch!NoRow \in Batch!Row /\ Batch!NoRow.created = 0 /\ Batch!NoRow.correlated = 0 /\ Batch!NoRow.searched = 0
    BY <1>7 DEF Batch!NoRow, Batch!Row
  <2>2. QED
    BY <1>3, <2>1 DEF Batch!Row
<1>9. /\ hs \in Seq(Batch!Item) /\ Len(hs) = n /\ n <= MaxItems
      /\ \A k \in 1..n : hs[k].case = Batch!NoCase
  <2>1. \A k \in 1..n : [code |-> codes[k], status |-> "pendiente", case |-> Batch!NoCase, reused |-> FALSE] \in Batch!Item
    BY DEF Batch!Item
  <2>2. hs \in Seq(Batch!Item) /\ Len(hs) = n
    BY <1>4, <1>7, <2>1
  <2>3. \A k \in 1..n : hs[k].case = Batch!NoCase
    BY <1>4
  <2>4. QED
    BY <1>7, <2>2, <2>3
<1>10. /\ u \in Batch!Task /\ u.pc = "begin" /\ u.pass = 1 /\ u.i = 1
       /\ \A k \in Batch!Lines : u.found[k] = Batch!NoCase
  BY <1>5, <1>7 DEF Batch!Task, Batch!Steps, Batch!Lines
<1>11. Len(items[b]) = 0
  BY DEF Batch!StartBatch, BatchInv, Sound
<1>12. \A o \in Batches : Len(items'[o]) = IF o = b THEN n ELSE Len(items[o])
  BY <1>6, <1>9 DEF BatchInv, BatchTypes
<1>13. Batch!AllLines' = Batch!AllLines \cup ({b} \X (1..n))
  <2>1. \A l \in Batches \X Batch!Lines : l \in Batch!AllLines' <=> l \in Batch!AllLines \/ l \in {b} \X (1..n)
    BY <1>7, <1>11, <1>12 DEF Batch!AllLines, Batch!Lines
  <2>2. Batch!AllLines \subseteq Batches \X Batch!Lines /\ Batch!AllLines' \subseteq Batches \X Batch!Lines
    BY DEF Batch!AllLines
  <2>3. {b} \X (1..n) \subseteq Batches \X Batch!Lines
    BY <1>9, <1>7 DEF Batch!Lines
  <2>4. QED
    BY <2>1, <2>2, <2>3
<1>14. Batch!IsFiniteSet(Batch!AllLines') /\ Batch!Cardinality(Batch!AllLines') <= MaxItems
  <2>1. PICK m \in Nat : m = n
    BY <1>7
  <2>2. /\ Batch!IsFiniteSet(Batch!AllLines \cup ({b} \X (1..m)))
        /\ Batch!Cardinality(Batch!AllLines \cup ({b} \X (1..m))) <= Batch!Cardinality(Batch!AllLines) + m
    BY <1>7, LinesAdded
  <2>3. Batch!Cardinality(Batch!AllLines \cup ({b} \X (1..m))) \in Nat
    BY <2>2, BatchCounts, FS_CardinalityType
  <2>4. QED
    BY <1>7, <1>13, <2>1, <2>2, <2>3
<1>15. BatchTypes'
  <2>1. \A o \in Batches : Len(items'[o]) <= MaxItems
    BY <1>9, <1>12 DEF BatchInv, BatchTypes
  <2>2. QED
    BY <1>6, <1>8, <1>9, <1>10, <1>14, <2>1 DEF BatchInv, BatchTypes
<1>16. CasesOfLines'
  BY <1>6, <1>13 DEF BatchInv, CasesOfLines, AreOfLines
<1>17. \A c \in 1..Len(cases), k \in 1..n : cases[c].by # <<b, k>>
  <2>1. ASSUME NEW c \in 1..Len(cases), NEW k \in 1..n, cases[c].by = <<b, k>>
        PROVE  FALSE
    <3>1. <<b, k>> \in Batch!AllLines
      <4>1. <<b, k>> # << >>
        OBVIOUS
      <4>2. QED
        BY <2>1, <4>1 DEF BatchInv, CasesOfLines, AreOfLines
    <3>2. k <= Len(items[b])
      BY <3>1 DEF Batch!AllLines
    <3>3. QED
      BY <1>7, <1>11, <3>2
  <2>2. QED
    BY <2>1
<1>18. 1..n \subseteq Batch!Lines
  BY <1>7, <1>9 DEF Batch!Lines
<1>19. InLine(q, hs, u)
  BY <1>7, <1>8, <1>9, <1>10 DEF InLine, FirstPass, LaterPass
<1>20. KnowsCases(b, hs, u, cases)
  BY <1>7, <1>9, <1>10, <1>17, <1>18, SMTT(30) DEF KnowsCases
<1>21. LinesAreSettled(q, hs, u)
  BY <1>7, <1>9, <1>10, <1>18 DEF LinesAreSettled, Done
<1>22. CountersAddUp(q, hs, u)
  BY <1>8, <1>10 DEF CountersAddUp, FirstPass
<1>23. Sound(b, q, hs, u, cases)
  BY <1>8, <1>9, <1>10, <1>19, <1>20, <1>21, <1>22, NoTaskIsNone
  DEF Sound, SoundTask, LinesNameTheirCase
<1>24. ASSUME NEW o \in Batches PROVE Sound(o, run'[o], items'[o], task'[o], cases')
  BY <1>6, <1>23 DEF BatchInv, BatchTypes
<1>25. QED
  BY <1>15, <1>16, <1>24 DEF BatchInv

\* The users leave what the invariant is about: the code of a case and the line it
\* was created for, and of a line all but the case that is gone.
LEMMA UsersKeep ==
    ASSUME Batch!ItemsAssumption, BatchInv, UNCHANGED <<run, task>>, harmed' \in SUBSET Batches,
           cases' \in Seq(Batch!Case), Len(cases') = Len(cases),
           \A c \in 1..Len(cases) : cases'[c].code = cases[c].code /\ cases'[c].by = cases[c].by,
           items' \in [Batches -> Seq(Batch!Item)],
           \A b \in Batches : /\ Len(items'[b]) = Len(items[b])
                              /\ \A k \in 1..Len(items[b]) :
                                    /\ items'[b][k].code = items[b][k].code
                                    /\ items'[b][k].status = items[b][k].status
                                    /\ \/ items'[b][k].case = Batch!NoCase
                                       \/ items'[b][k] = items[b][k]
    PROVE  BatchInv'
<1>1. Batch!AllLines' = Batch!AllLines
  BY DEF Batch!AllLines
<1>2. BatchTypes'
  BY <1>1 DEF BatchInv, BatchTypes
<1>3. CasesOfLines'
  BY <1>1 DEF BatchInv, CasesOfLines, AreOfLines
<1>4. ASSUME NEW b \in Batches PROVE Sound(b, run[b], items'[b], task[b], cases')
  <2>1. PICK ls \in Seq(Batch!Item) : ls = items[b]
    BY DEF BatchInv, BatchTypes
  <2>2. PICK hs \in Seq(Batch!Item) : hs = items'[b]
    OBVIOUS
  <2>3. PICK cs \in Seq(Batch!Case) : cs = cases
    BY DEF BatchInv, BatchTypes
  <2>4. PICK ds \in Seq(Batch!Case) : ds = cases'
    OBVIOUS
  <2>5. PICK t : t = task[b]
    OBVIOUS
  <2>6. PICK r : r = run[b]
    OBVIOUS
  <2>7. /\ Len(hs) = Len(ls) /\ Len(ds) = Len(cs) /\ Len(ls) \in Nat /\ Len(cs) \in Nat
        /\ \A c \in 1..Len(cs) : ds[c].code = cs[c].code /\ ds[c].by = cs[c].by
        /\ \A k \in 1..Len(ls) : /\ hs[k].code = ls[k].code /\ hs[k].status = ls[k].status
                                 /\ hs[k].case = Batch!NoCase \/ hs[k] = ls[k]
    BY <2>1, <2>2, <2>3, <2>4
  <2>8. Sound(b, r, ls, t, cs)
    BY <2>1, <2>3, <2>5, <2>6 DEF BatchInv
  <2>9. \A k, c, q : k \in 1..Len(ls) /\ MayName(b, k, c, q, ls, cs) => MayName(b, k, c, q, hs, ds)
    BY <2>7 DEF MayName
  <2>10. LinesNameTheirCase(b, hs, ds)
    BY <2>7, <2>8, <2>9 DEF Sound, LinesNameTheirCase
  <2>11. r.status = "none" => Len(hs) = 0
    BY <2>7, <2>8 DEF Sound
  <2>12. ASSUME t = Batch!NoTask, r.status = "success" PROVE EndAddsUp(r, hs)
    <3>1. EndAddsUp(r, ls)
      BY <2>8, <2>12 DEF Sound
    <3>2. DOMAIN ls = 1..Len(ls) /\ DOMAIN hs = 1..Len(ls)
      BY <2>7
    <3>3. {k \in DOMAIN hs : hs[k].status = "listo"} = {k \in DOMAIN ls : ls[k].status = "listo"}
      BY <2>7, <3>2
    <3>4. QED
      BY <2>7, <3>1, <3>2, <3>3 DEF EndAddsUp
  <2>13. ASSUME t # Batch!NoTask PROVE SoundTask(b, r, hs, t, ds)
    <3>1. InLine(r, ls, t) /\ KnowsCases(b, ls, t, cs) /\ LinesAreSettled(r, ls, t) /\ CountersAddUp(r, ls, t)
      BY <2>8, <2>13 DEF Sound, SoundTask
    <3>2. \A k : WithCase(hs, t, k) = WithCase(ls, t, k)
      BY <2>7 DEF WithCase
    <3>3. InLine(r, hs, t)
      BY <2>7, <3>1 DEF InLine
    <3>4. KnowsCases(b, hs, t, ds)
      <4>1. \A k \in 1..Len(hs) : t.found[k] # Batch!NoCase => MayName(b, k, t.found[k], t.reused[k], hs, ds)
        BY <2>7, <2>9, <3>1 DEF KnowsCases
      <4>2. t.pc = "detail" => MayName(b, t.i, t.at, FALSE, hs, ds)
        BY <2>9, <3>1 DEF KnowsCases, InLine
      <4>3. Len(hs) = Len(ls) /\ Len(ds) = Len(cs) /\ t.i \in 1..Len(ls)
            /\ \A c \in 1..Len(cs) : ds[c].code = cs[c].code /\ ds[c].by = cs[c].by
            /\ hs[t.i].code = ls[t.i].code
        BY <2>7, <3>1 DEF InLine
      <4>4. QED
        BY <3>1, <4>1, <4>2, <4>3, ZenonT(30) DEF KnowsCases
    <3>5. LinesAreSettled(r, hs, t)
      <4>1. Len(hs) = Len(ls) /\ \A k \in 1..Len(ls) : hs[k].status = ls[k].status
        BY <2>7
      <4>2. WithCase(hs, t, Len(hs)) = WithCase(ls, t, Len(ls))
        BY <3>2, <4>1
      <4>3. ASSUME NEW k \in 1..Len(hs), t.found[k] = Batch!NoCase, t.pass = 1 => Done(t, k)
            PROVE  hs[k].status = "error"
        BY <3>1, <4>1, <4>3 DEF LinesAreSettled
      <4>4. ASSUME t.pass = 3 \/ (t.pass = 2 /\ ~r.search), NEW k \in 1..Len(hs),
                   t.found[k] # Batch!NoCase, Done(t, k)
            PROVE  hs[k].status = "listo"
        BY <3>1, <4>1, <4>4 DEF LinesAreSettled
      <4>5. t.pc = "finish" => t.pass = 3 \/ (t.pass = 2 /\ ~r.search) \/ WithCase(hs, t, Len(hs)) = {}
        BY <3>1, <4>2 DEF LinesAreSettled
      <4>6. QED
        BY <4>3, <4>4, <4>5 DEF LinesAreSettled
    <3>6. CountersAddUp(r, hs, t)
      BY <2>7, <3>1, <3>2 DEF CountersAddUp
    <3>7. QED
      BY <3>3, <3>4, <3>5, <3>6 DEF SoundTask
  <2>14. Sound(b, r, hs, t, ds)
    BY <2>10, <2>11, <2>12, <2>13 DEF Sound
  <2>15. QED
    BY <2>2, <2>4, <2>5, <2>6, <2>14
<1>5. QED
  BY <1>2, <1>3, <1>4 DEF BatchInv

\* A case that users delete takes the name out of the lines.
LEMMA DeleteCaseKeeps ==
    ASSUME Batch!ItemsAssumption, BatchInv, NEW c \in 1..Len(cases), Batch!DeleteCase(c)
    PROVE  BatchInv'
<1>1. cases \in Seq(Batch!Case) /\ items \in [Batches -> Seq(Batch!Item)] /\ harmed \in SUBSET Batches
  BY DEF BatchInv, BatchTypes
<1>2. PICK x : x = [cases[c] EXCEPT !.row = "gone"]
  OBVIOUS
<1>3. x \in Batch!Case /\ x.code = cases[c].code /\ x.by = cases[c].by
  <2>1. cases[c] \in Batch!Case
    BY <1>1
  <2>2. QED
    BY <1>2, <2>1 DEF Batch!Case
<1>4. cases' = [cases EXCEPT ![c] = x]
  BY <1>2 DEF Batch!DeleteCase
<1>5. /\ cases' \in Seq(Batch!Case) /\ Len(cases') = Len(cases)
      /\ \A d \in 1..Len(cases) : cases'[d].code = cases[d].code /\ cases'[d].by = cases[d].by
  BY <1>1, <1>3, <1>4
<1>6. ASSUME NEW b \in Batches
      PROVE  /\ items'[b] \in Seq(Batch!Item) /\ Len(items'[b]) = Len(items[b])
             /\ \A k \in 1..Len(items[b]) : /\ items'[b][k].code = items[b][k].code
                                            /\ items'[b][k].status = items[b][k].status
                                            /\ items'[b][k].case = Batch!NoCase \/ items'[b][k] = items[b][k]
  <2>1. PICK ls \in Seq(Batch!Item) : ls = items[b]
    BY <1>1
  <2>2. PICK hs : hs = [k \in DOMAIN ls |-> IF ls[k].case = c THEN [ls[k] EXCEPT !.case = Batch!NoCase] ELSE ls[k]]
    OBVIOUS
  <2>3. items'[b] = hs
    BY <2>1, <2>2 DEF Batch!DeleteCase
  <2>4. ASSUME NEW k \in 1..Len(ls)
        PROVE  /\ hs[k] \in Batch!Item /\ hs[k].code = ls[k].code /\ hs[k].status = ls[k].status
               /\ hs[k].case = Batch!NoCase \/ hs[k] = ls[k]
    <3>1. ls[k] \in Batch!Item
      OBVIOUS
    <3>2. PICK y : y = [ls[k] EXCEPT !.case = Batch!NoCase]
      OBVIOUS
    <3>3. y \in Batch!Item /\ y.code = ls[k].code /\ y.status = ls[k].status /\ y.case = Batch!NoCase
      BY <3>1, <3>2 DEF Batch!Item
    <3>4. hs[k] = y \/ hs[k] = ls[k]
      <4>1. k \in DOMAIN ls
        OBVIOUS
      <4>2. hs[k] = IF ls[k].case = c THEN [ls[k] EXCEPT !.case = Batch!NoCase] ELSE ls[k]
        BY <2>2, <4>1
      <4>3. CASE ls[k].case = c
        BY <3>2, <4>2, <4>3
      <4>4. CASE ls[k].case # c
        BY <4>2, <4>4
      <4>5. QED
        BY <4>3, <4>4
    <3>5. QED
      BY <3>1, <3>3, <3>4
  <2>5. DOMAIN hs = 1..Len(ls) /\ Len(ls) \in Nat
    BY <2>2
  <2>6. hs \in Seq(Batch!Item) /\ Len(hs) = Len(ls)
    <3>1. hs = [k \in 1..Len(ls) |-> hs[k]]
      BY <2>2, <2>5
    <3>2. QED
      BY <2>4, <2>5, <3>1
  <2>7. QED
    BY <2>1, <2>3, <2>4, <2>6
<1>7. items' \in [Batches -> Seq(Batch!Item)] /\ harmed' \in SUBSET Batches
  BY <1>1, <1>6 DEF Batch!DeleteCase, Batch!With
<1>8. QED
  BY <1>5, <1>6, <1>7, UsersKeep DEF Batch!DeleteCase

\* Closing, reopening, sharing and withdrawing a case.
LEMMA CaseChangeKeeps ==
    ASSUME Batch!ItemsAssumption, BatchInv, NEW c \in 1..Len(cases),
           \/ Batch!CloseCase(c) \/ Batch!ReopenCase(c)
           \/ \E access \in {"edit", "read", "none"} : Batch!Withdraw(c, access) \/ Batch!Share(c, access)
    PROVE  BatchInv'
<1>1. cases \in Seq(Batch!Case) /\ items \in [Batches -> Seq(Batch!Item)] /\ harmed \in SUBSET Batches
  BY DEF BatchInv, BatchTypes
<1>2. PICK x \in Batch!Case : /\ cases' = [cases EXCEPT ![c] = x]
                              /\ x.code = cases[c].code /\ x.by = cases[c].by
  <2>1. cases[c] \in Batch!Case
    BY <1>1
  <2>2. ASSUME NEW row \in {"open", "closed"}, cases' = [cases EXCEPT ![c].row = row]
        PROVE  \E x \in Batch!Case : /\ cases' = [cases EXCEPT ![c] = x]
                                     /\ x.code = cases[c].code /\ x.by = cases[c].by
    <3>1. PICK x : x = [cases[c] EXCEPT !.row = row]
      OBVIOUS
    <3>2. x \in Batch!Case /\ x.code = cases[c].code /\ x.by = cases[c].by
      BY <2>1, <3>1 DEF Batch!Case
    <3>3. QED
      BY <2>2, <3>1, <3>2
  <2>3. ASSUME NEW access \in {"edit", "read", "none"}, cases' = [cases EXCEPT ![c].access = access]
        PROVE  \E x \in Batch!Case : /\ cases' = [cases EXCEPT ![c] = x]
                                     /\ x.code = cases[c].code /\ x.by = cases[c].by
    <3>1. PICK x : x = [cases[c] EXCEPT !.access = access]
      OBVIOUS
    <3>2. x \in Batch!Case /\ x.code = cases[c].code /\ x.by = cases[c].by
      BY <2>1, <3>1 DEF Batch!Case
    <3>3. QED
      BY <2>3, <3>1, <3>2
  <2>4. QED
    BY <2>2, <2>3 DEF Batch!CloseCase, Batch!ReopenCase, Batch!Withdraw, Batch!Share
<1>3. /\ cases' \in Seq(Batch!Case) /\ Len(cases') = Len(cases)
      /\ \A d \in 1..Len(cases) : cases'[d].code = cases[d].code /\ cases'[d].by = cases[d].by
  BY <1>1, <1>2
<1>4. UNCHANGED <<run, items, task>> /\ harmed' \in SUBSET Batches
  BY <1>1 DEF Batch!CloseCase, Batch!ReopenCase, Batch!Withdraw, Batch!Share, Batch!With
<1>5. QED
  BY <1>1, <1>3, <1>4, UsersKeep

\* A restart of the backend ends the tasks; their rows are failed.
LEMMA BatchRestartKeeps ==
    ASSUME Batch!ItemsAssumption, BatchInv, Batch!Restart
    PROVE  BatchInv'
<1>1. Batch!AllLines' = Batch!AllLines
  BY DEF Batch!AllLines, Batch!Restart
<1>2. ASSUME NEW b \in Batches
      PROVE  /\ run'[b] \in Batch!Row /\ Sound(b, run'[b], items'[b], task'[b], cases')
  <2>1. PICK r \in Batch!Row : r = run[b]
    BY DEF BatchInv, BatchTypes
  <2>2. PICK q : q = IF r.status \in {"queued", "running"} THEN [r EXCEPT !.status = "failed"] ELSE r
    OBVIOUS
  <2>3. q \in Batch!Row /\ (q.status \in {"failed"} \/ q = r)
    BY <2>2 DEF Batch!Row
  <2>4. run'[b] = q /\ task'[b] = Batch!NoTask /\ items'[b] = items[b] /\ UNCHANGED cases
    BY <2>1, <2>2 DEF Batch!Restart
  <2>5. Sound(b, r, items[b], task[b], cases)
    BY <2>1 DEF BatchInv
  <2>6. task[b] # Batch!NoTask => r.status \in {"queued", "running"}
    BY <2>5 DEF Sound, SoundTask, InLine
  <2>7. Sound(b, q, items[b], Batch!NoTask, cases)
    BY <2>2, <2>3, <2>5, <2>6 DEF Sound
  <2>8. QED
    BY <2>3, <2>4, <2>7
<1>3. BatchTypes'
  BY <1>1, <1>2 DEF BatchInv, BatchTypes, Batch!Restart
<1>4. CasesOfLines'
  BY <1>1 DEF BatchInv, CasesOfLines, AreOfLines, Batch!Restart
<1>5. QED
  BY <1>2, <1>3, <1>4 DEF BatchInv

\* The invariant of the batches is inductive.
LEMMA BatchSteps == Batch!ItemsAssumption /\ BatchInv /\ [Batch!Next]_Batch!batchVars => BatchInv'
<1> SUFFICES ASSUME Batch!ItemsAssumption, BatchInv, [Batch!Next]_Batch!batchVars PROVE BatchInv'
  OBVIOUS
<1>1. CASE UNCHANGED Batch!batchVars
  <2>1. Batch!AllLines' = Batch!AllLines
    BY <1>1 DEF Batch!batchVars, Batch!AllLines
  <2>2. QED
    BY <1>1, <2>1 DEF Batch!batchVars, BatchInv, BatchTypes, CasesOfLines
<1>2. ASSUME NEW b \in Batches, Batch!RunBatch(b) PROVE BatchInv'
  BY <1>2, BeginKeeps, AnnounceKeeps, FindCaseKeeps, VisitCaseKeeps, InsertCaseKeeps,
     ReadDetailKeeps, LinkItemKeeps, ItemFailsKeeps, CountCreatedKeeps, CorrelateKeeps,
     LinkMatchesKeeps, StoreItemKeeps, AdvanceKeeps, AnnounceSearchKeeps, SearchEndsKeeps,
     BatchFinishKeeps
  DEF Batch!RunBatch
<1>3. CASE Batch!Next
  BY <1>2, <1>3, StartBatchKeeps, DeleteCaseKeeps, CaseChangeKeeps, BatchRestartKeeps
     DEF Batch!Next
<1>4. QED
  BY <1>1, <1>3

\* What the invariant says of the typing.
LEMMA BatchInvTypes == Batch!ItemsAssumption /\ BatchInv => Batch!TypeOK
<1> SUFFICES ASSUME Batch!ItemsAssumption, BatchInv PROVE Batch!TypeOK
  OBVIOUS
<1>1. Len(cases) <= MaxItems + 1
  BY CasesAreFew DEF BatchInv, BatchTypes, CasesOfLines, Batch!ItemsAssumption
<1>2. QED
  BY <1>1 DEF BatchInv, BatchTypes, Batch!TypeOK

\* What it says of the results.
LEMMA BatchInvResults == BatchInv => Batch!ResultsAddUp
<1> SUFFICES ASSUME BatchInv, NEW b \in Batches
             PROVE  /\ \A k \in DOMAIN items[b] : items[b][k].case # Batch!NoCase =>
                          /\ cases[items[b][k].case].code = items[b][k].code
                          /\ items[b][k].reused = (cases[items[b][k].case].by # <<b, k>>)
                    /\ run[b].status = "success" => EndAddsUp(run[b], items[b])
  BY DEF Batch!ResultsAddUp, EndAddsUp
<1>1. Sound(b, run[b], items[b], task[b], cases) /\ items[b] \in Seq(Batch!Item)
  BY DEF BatchInv, BatchTypes
<1>2. DOMAIN items[b] = 1..Len(items[b])
  BY <1>1
<1>3. ASSUME run[b].status = "success" PROVE EndAddsUp(run[b], items[b])
  BY <1>1, <1>3 DEF Sound, SoundTask, InLine
<1>4. QED
  BY <1>1, <1>2, <1>3 DEF Sound, LinesNameTheirCase, MayName

-----------------------------------------------------------------------------
(* The results *)

\* Every reachable state of a batch is of its type; there are never more cases than
\* lines and one, so the task never names one that there is no place for.
THEOREM BatchesTypes ==
    ASSUME Batch!ItemsAssumption
    PROVE  Batch!Spec => []Batch!TypeOK
<1>1. Batch!Init => BatchInv
  BY BatchInitially
<1>2. BatchInv /\ [Batch!Next]_Batch!batchVars => BatchInv'
  BY BatchSteps
<1>3. BatchInv => Batch!TypeOK
  BY BatchInvTypes
<1>4. QED
  BY <1>1, <1>2, <1>3, PTL DEF Batch!Spec

\* What the screen says of a batch adds up.
THEOREM ResultsAreSummedUp ==
    ASSUME Batch!ItemsAssumption
    PROVE  Batch!Spec => []Batch!ResultsAddUp
<1>1. Batch!Init => BatchInv
  BY BatchInitially
<1>2. BatchInv /\ [Batch!Next]_Batch!batchVars => BatchInv'
  BY BatchSteps
<1>3. BatchInv => Batch!ResultsAddUp
  BY BatchInvResults
<1>4. QED
  BY <1>1, <1>2, <1>3, PTL DEF Batch!Spec

-----------------------------------------------------------------------------
(* The two together, as TLC explores them *)

\* A step of the one leaves the other at rest, so the invariants of each hold
\* whichever is explored.
LEMMA IndexAlone == (BothInit => Init) /\ ([BothNext]_bothVars => [Next]_vars)
BY DEF BothInit, BothNext, bothVars

\* The same for a batch.
LEMMA BatchAlone == (BothInit => Batch!Init) /\ ([BothNext]_bothVars => [Batch!Next]_Batch!batchVars)
BY DEF BothInit, BothNext, bothVars, batchVars, Batch!batchVars

\* At most one task of an index run is under way, and its row says so, in what TLC explores.
THEOREM BothRunsMatch == BothSpec => []RunsMatchTasks
<1>1. IInv => RunsMatchTasks
  BY DEF IInv
<1>2. QED
  BY <1>1, IndexAlone, Initially, Inductive, PTL DEF BothSpec

\* Every state TLC explores is of its type, of whichever it is; the instance is the one
\* whose constants BatchAssumption is about.
THEOREM BothOfTheirTypes == BothSpec => []BothTypesOK
<1>1. TypesInv => TypeOK
  BY TypesAre DEF TypesInv
<1>2. Batch!Init => BatchInv
  BY BatchInitially, BatchAssumption
<1>3. BatchInv /\ [Batch!Next]_Batch!batchVars => BatchInv'
  BY BatchSteps, BatchAssumption
<1>4. BatchInv => Batch!TypeOK
  BY BatchInvTypes, BatchAssumption
<1>5. TypeOK /\ Batch!TypeOK => BothTypesOK
  BY DEF BothTypesOK
<1>6. QED
  BY <1>1, <1>2, <1>3, <1>4, <1>5, IndexAlone, BatchAlone, TypesInitially, TypesInductive,
     PTL DEF BothSpec

\* What the screen says of a batch adds up, in what TLC explores.
THEOREM ResultsAreRight == BothSpec => []ResultsAddUp
<1>1. Batch!Init => BatchInv
  BY BatchInitially, BatchAssumption
<1>2. BatchInv /\ [Batch!Next]_Batch!batchVars => BatchInv'
  BY BatchSteps, BatchAssumption
<1>3. BatchInv => ResultsAddUp
  BY BatchInvResults DEF ResultsAddUp
<1>4. QED
  BY <1>1, <1>2, <1>3, BatchAlone, PTL DEF BothSpec

=============================================================================
