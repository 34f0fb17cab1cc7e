---------------------------- MODULE BridgeProofs ----------------------------
(***************************************************************************)
(* The bridge between a local machine and the server, for every value of   *)
(* the constants: the two transports of one connection, and the controller *)
(* that makes one connection after the other.                              *)
(*                                                                         *)
(* The transports count the bytes of their queues with a fold, which adds  *)
(* up the elements in an order of its own.  That the order does not matter *)
(* is shown first, by the least number for which it would; then what the   *)
(* first, the last and the first k elements of a queue contribute.         *)
(* Waiting relates a queue to the answers of the sends: of the n sends     *)
(* accepted, the last Len(queue) wait, in order.  With what each state     *)
(* says of the rest, it is kept by every step of either end.               *)
(***************************************************************************)
EXTENDS Bridge, LocalReconnect, SequencesExt, TLAPS, WellFoundedInduction,
        FiniteSetTheorems, SequenceTheorems

-----------------------------------------------------------------------------
(* Numbers and sums. *)

\* The operator of both transports.
TotalBytes(s) == FoldSeq(LAMBDA m, sum : m.bytes + sum, 0, s)

\* Every set of natural numbers with an element has a least one.
LEMMA Least ==
    ASSUME NEW T, T \subseteq Nat, T # {}
    PROVE  \E n \in T : \A m \in T : n <= m
<1> DEFINE R == {ss \in Nat \X Nat : ss[1] < ss[2]}
<1>1. OpToRel(<, Nat) = R
    BY DEF OpToRel
<1>2. IsWellFoundedOn(R, Nat)
    BY NatLessThanWellFounded, <1>1
<1>3. PICK x \in T : \A y \in T : ~ (<<y, x>> \in R)
  <2> HIDE DEF R
  <2> QED BY <1>2, WFMin
<1>4. ASSUME NEW m \in T PROVE x <= m
  <2>1. ~ (<<m, x>> \in R)
      BY <1>3
  <2>2. m \in Nat /\ x \in Nat
      OBVIOUS
  <2> QED BY <2>1, <2>2
<1> QED BY <1>4

\* Induction: a set of numbers with 0 and with the successors of its elements.
LEMMA AllNumbers ==
    ASSUME NEW T, NEW b \in Nat, 0 \in T, \A n \in 0 .. b - 1 : n \in T => n + 1 \in T
    PROVE  \A n \in 0 .. b : n \in T
<1> DEFINE F == (0 .. b) \ T
<1>1. SUFFICES ASSUME F # {} PROVE FALSE
    OBVIOUS
<1>2. PICK n \in F : \A m \in F : n <= m
  <2>1. F \subseteq Nat
      OBVIOUS
  <2> HIDE DEF F
  <2> QED BY <1>1, <2>1, Least
<1>3. n # 0 /\ n \in 0 .. b
    BY <1>2
<1>4. n - 1 \in 0 .. b - 1 /\ n - 1 \notin F
    BY <1>2, <1>3
<1>5. n - 1 \in T
    BY <1>3, <1>4
<1>6. (n - 1) + 1 \in T /\ (n - 1) + 1 = n
    BY <1>3, <1>4, <1>5
<1> QED BY <1>2, <1>6

\* P adds up the elements of w, over every set of its indices.
AddsUp(P, w, n) ==
    /\ P \in [SUBSET (1 .. n) -> Nat]
    /\ P[{}] = 0
    /\ \A t \in SUBSET (1 .. n) : \A x \in t : P[t] = w[x] + P[t \ {x}]

\* The sums over sets of indices are well defined, whatever the order.
LEMMA SumExists ==
    ASSUME NEW b \in Nat, NEW w \in [1 .. b -> Nat]
    PROVE  \E P : AddsUp(P, w, b)
<1> DEFINE T == {n \in 0 .. b : \E P : AddsUp(P, w, n)}
<1>1. 0 \in T
  <2>1. AddsUp([t \in SUBSET (1 .. 0) |-> 0], w, 0)
    <3>1. 1 .. 0 = {}
        OBVIOUS
    <3> QED BY <3>1 DEF AddsUp
  <2> QED BY <2>1
<1>2. ASSUME NEW n \in 0 .. b - 1, n \in T PROVE n + 1 \in T
  <2> DEFINE D == 1 .. n
             E == 1 .. n + 1
  <2>1. PICK P : AddsUp(P, w, n)
      BY <1>2
  <2>2. /\ E = D \cup {n + 1} /\ n + 1 \notin D /\ n + 1 \in 0 .. b /\ D \subseteq E
        /\ E \subseteq 1 .. b
      BY <1>2
  <2>3. /\ P \in [SUBSET D -> Nat] /\ P[{}] = 0
        /\ \A t \in SUBSET D : \A x \in t : P[t] = w[x] + P[t \ {x}]
      BY <2>1 DEF AddsUp
  <2>a. DEFINE c(t) == IF n + 1 \in t THEN w[n + 1] ELSE 0
               Q == [t \in SUBSET E |-> P[t \ {n + 1}] + c(t)]
  <2>4. \A t \in SUBSET E : t \ {n + 1} \in SUBSET D /\ c(t) \in Nat
      BY <2>2
  <2>5. \A x \in E : w[x] \in Nat
      BY <2>2
  <2> HIDE DEF D, E
  <2>6. Q \in [SUBSET E -> Nat]
    <3>1. ASSUME NEW t \in SUBSET E PROVE P[t \ {n + 1}] + c(t) \in Nat
      <4>1. P[t \ {n + 1}] \in Nat /\ c(t) \in Nat
          BY <2>3, <2>4
      <4> HIDE DEF c
      <4> QED BY <4>1
    <3> HIDE DEF c
    <3> QED BY <3>1
  <2>7. Q[{}] = 0
    <3>1. {} \in SUBSET E /\ {} \ {n + 1} = {} /\ c({}) = 0
        OBVIOUS
    <3> HIDE DEF c
    <3>2. Q[{}] = P[{}] + 0
        BY <3>1
    <3> QED BY <3>2, <2>3
  <2>8. ASSUME NEW t \in SUBSET E, NEW x \in t PROVE Q[t] = w[x] + Q[t \ {x}]
    <3> DEFINE u == t \ {x}
               tt == t \ {n + 1}
               uu == u \ {n + 1}
    <3>1. Q[t] = P[tt] + c(t) /\ Q[u] = P[uu] + c(u)
      <4>1. t \in SUBSET E /\ u \in SUBSET E
          OBVIOUS
      <4> HIDE DEF c
      <4> QED BY <4>1
    <3>2. P[tt] \in Nat /\ P[uu] \in Nat /\ c(t) \in Nat /\ c(u) \in Nat /\ w[x] \in Nat
      <4>1. t \in SUBSET E /\ u \in SUBSET E /\ x \in E
          OBVIOUS
      <4> HIDE DEF c
      <4> QED BY <4>1, <2>3, <2>4, <2>5
    <3>3. CASE x = n + 1
      <4>1. tt = uu /\ c(t) = w[x] /\ c(u) = 0
          BY <3>3
      <4> HIDE DEF c, Q, u, tt, uu
      <4> QED BY <3>1, <3>2, <4>1 DEF u
    <3>4. CASE x # n + 1
      <4>1. uu = tt \ {x} /\ x \in tt /\ c(t) = c(u)
          BY <3>4
      <4>2. tt \in SUBSET D
          BY <2>4
      <4> HIDE DEF c, Q, u, tt, uu
      <4>3. P[tt] = w[x] + P[uu]
          BY <2>3, <4>1, <4>2
      <4> QED BY <3>1, <3>2, <4>1, <4>3 DEF u
    <3> QED BY <3>3, <3>4
  <2>9. AddsUp(Q, w, n + 1)
    <3> HIDE DEF Q
    <3> QED BY <2>6, <2>7, <2>8 DEF AddsUp, E
  <2> HIDE DEF Q
  <2> QED BY <2>2, <2>9
<1>3. b \in T
  <2>1. \A n \in 0 .. b - 1 : n \in T => n + 1 \in T
      BY <1>2
  <2> HIDE DEF T
  <2>2. \A n \in 0 .. b : n \in T
      BY <1>1, <2>1, AllNumbers
  <2>3. b \in 0 .. b
      OBVIOUS
  <2> QED BY <2>2, <2>3
<1> QED BY <1>3

\* TotalBytes chooses the elements in an order of its own: the sum has none.
LEMMA TotalIs ==
    ASSUME NEW s, NEW b \in Nat, DOMAIN s = 1 .. b, NEW P,
           AddsUp(P, [i \in 1 .. b |-> s[i].bytes], b)
    PROVE  TotalBytes(s) = P[1 .. b]
<1> DEFINE D == 1 .. b
           a(t) == CHOOSE x \in t : TRUE
           Folds(g) == g = [t \in SUBSET D |-> IF t = {} THEN 0
                                             ELSE s[a(t)].bytes + g[t \ {a(t)}]]
           iter == CHOOSE g : Folds(g)
<1>1. TotalBytes(s) = iter[D]
    BY DEF TotalBytes, FoldSeq, FoldFunction, FoldFunctionOnSet, MapThenFoldSet
<1>2. \A t \in SUBSET D : t # {} => a(t) \in t /\ a(t) \in D
    OBVIOUS
<1>3. /\ P \in [SUBSET D -> Nat] /\ P[{}] = 0
      /\ \A t \in SUBSET D : \A x \in t : P[t] = s[x].bytes + P[t \ {x}]
    BY DEF AddsUp
<1> HIDE DEF a, D
<1>4. Folds(P)
  <2>1. ASSUME NEW t \in SUBSET D
        PROVE  P[t] = IF t = {} THEN 0 ELSE s[a(t)].bytes + P[t \ {a(t)}]
      BY <1>2, <1>3
  <2>2. P = [t \in SUBSET D |-> P[t]]
      BY <1>3
  <2> QED BY <2>1, <2>2
<1>5. Folds(iter)
  <2> HIDE DEF Folds
  <2> QED BY <1>4
<1> HIDE DEF iter
<1>6. \A t \in SUBSET D : iter[t] = IF t = {} THEN 0 ELSE s[a(t)].bytes + iter[t \ {a(t)}]
    BY <1>5
<1>7. IsFiniteSet(D)
    BY FS_Interval DEF D
<1>8. \A t \in SUBSET D : IsFiniteSet(t) /\ Cardinality(t) \in Nat
    BY <1>7, FS_Subset, FS_CardinalityType
<1> DEFINE F == {Cardinality(t) : t \in {u \in SUBSET D : iter[u] # P[u]}}
<1>9. F = {}
  <2> SUFFICES ASSUME F # {} PROVE FALSE
      OBVIOUS
  <2>1. F \subseteq Nat
      BY <1>8
  <2>2. PICK n \in F : \A m \in F : n <= m
    <3> HIDE DEF F
    <3> QED BY <2>1, Least
  <2>3. PICK t \in SUBSET D : iter[t] # P[t] /\ Cardinality(t) = n
      OBVIOUS
  <2>4. t # {}
      BY <2>3, <1>3, <1>6
  <2> DEFINE u == t \ {a(t)}
  <2>5. a(t) \in t /\ u \in SUBSET D
      BY <1>2, <2>4
  <2>6. Cardinality(u) = Cardinality(t) - 1 /\ Cardinality(t) \in Nat /\ Cardinality(u) \in Nat
      BY <1>8, <2>5, FS_RemoveElement
  <2>7. iter[u] = P[u]
    <3>1. SUFFICES ASSUME iter[u] # P[u] PROVE FALSE
        OBVIOUS
    <3>2. Cardinality(u) \in F
        BY <3>1, <2>5
    <3>3. n <= Cardinality(u)
        BY <2>2, <3>2
    <3> HIDE DEF u, F
    <3> QED BY <2>3, <2>6, <3>3
  <2>8. iter[t] = s[a(t)].bytes + iter[u] /\ P[t] = s[a(t)].bytes + P[u]
      BY <1>3, <1>6, <2>4, <2>5
  <2> QED BY <2>3, <2>7, <2>8
<1>10. iter[D] = P[D]
    BY <1>9
<1> QED BY <1>1, <1>10 DEF D

\* The sum of a sequence of messages, of its end and of its beginning.
LEMMA TotalExists ==
    ASSUME NEW S, \A m \in S : m.bytes \in Nat, NEW s \in Seq(S)
    PROVE  /\ Len(s) \in Nat /\ DOMAIN s = 1 .. Len(s)
           /\ \E P : /\ AddsUp(P, [i \in 1 .. Len(s) |-> s[i].bytes], Len(s))
                    /\ TotalBytes(s) = P[1 .. Len(s)]
<1>1. Len(s) \in Nat /\ DOMAIN s = 1 .. Len(s) /\ \A i \in 1 .. Len(s) : s[i].bytes \in Nat
    BY LenProperties, ElementOfSeq
<1> DEFINE w == [i \in 1 .. Len(s) |-> s[i].bytes]
<1>2. w \in [1 .. Len(s) -> Nat]
    BY <1>1
<1>3. PICK P : AddsUp(P, w, Len(s))
  <2> HIDE DEF w
  <2> QED BY <1>1, <1>2, SumExists
<1>4. TotalBytes(s) = P[1 .. Len(s)]
    BY <1>1, <1>3, TotalIs
<1> QED BY <1>1, <1>3, <1>4

\* An empty queue has no bytes.
LEMMA TotalOfEmpty == TotalBytes(<<>>) = 0
<1>1. <<>> \in Seq({}) /\ Len(<<>>) = 0
    OBVIOUS
<1>2. PICK P : /\ AddsUp(P, [i \in 1 .. 0 |-> <<>>[i].bytes], 0)
               /\ TotalBytes(<<>>) = P[1 .. 0]
    BY <1>1, TotalExists
<1>3. 1 .. 0 = {}
    OBVIOUS
<1> QED BY <1>2, <1>3 DEF AddsUp

\* A message put at the end of a queue adds its bytes.
LEMMA TotalOfAppend ==
    ASSUME NEW S, \A m \in S : m.bytes \in Nat, NEW s \in Seq(S), NEW m \in S
    PROVE  TotalBytes(Append(s, m)) = TotalBytes(s) + m.bytes /\ TotalBytes(s) \in Nat
<1> DEFINE z == Append(s, m)
           n == Len(s)
<1>1. /\ z \in Seq(S) /\ Len(z) = n + 1 /\ n \in Nat /\ DOMAIN s = 1 .. n
      /\ z[n + 1] = m /\ \A i \in 1 .. n : z[i] = s[i]
    BY AppendProperties, LenProperties
<1> HIDE DEF z
<1>2. PICK P : /\ AddsUp(P, [i \in 1 .. n + 1 |-> z[i].bytes], n + 1)
               /\ TotalBytes(z) = P[1 .. n + 1]
    BY <1>1, TotalExists
<1> HIDE DEF n
<1>3. /\ P \in [SUBSET (1 .. n + 1) -> Nat] /\ P[{}] = 0
      /\ \A t \in SUBSET (1 .. n + 1) : \A x \in t : P[t] = z[x].bytes + P[t \ {x}]
    BY <1>2 DEF AddsUp
<1>4. 1 .. n + 1 \in SUBSET (1 .. n + 1) /\ n + 1 \in 1 .. n + 1 /\ (1 .. n + 1) \ {n + 1} = 1 .. n
      /\ SUBSET (1 .. n) \subseteq SUBSET (1 .. n + 1)
    BY <1>1
<1>5. P[1 .. n + 1] = m.bytes + P[1 .. n]
  <2>1. P[1 .. n + 1] = z[n + 1].bytes + P[(1 .. n + 1) \ {n + 1}]
      BY <1>3, <1>4
  <2> QED BY <1>1, <1>4, <2>1
<1> DEFINE Q == [t \in SUBSET (1 .. n) |-> P[t]]
<1>6. AddsUp(Q, [i \in 1 .. n |-> s[i].bytes], n)
  <2>1. Q \in [SUBSET (1 .. n) -> Nat]
      BY <1>3, <1>4
  <2>2. Q[{}] = 0
      BY <1>3
  <2>3. ASSUME NEW t \in SUBSET (1 .. n), NEW x \in t
        PROVE  Q[t] = s[x].bytes + Q[t \ {x}]
    <3>1. P[t] = z[x].bytes + P[t \ {x}]
        BY <1>3, <1>4
    <3>2. t \ {x} \in SUBSET (1 .. n) /\ z[x] = s[x]
        BY <1>1
    <3> QED BY <3>1, <3>2
  <2> HIDE DEF Q
  <2> QED BY <2>1, <2>2, <2>3 DEF AddsUp
<1>7. TotalBytes(s) = Q[1 .. n]
  <2> HIDE DEF Q
  <2>1. n \in Nat /\ DOMAIN s = 1 .. n
      BY <1>1
  <2> QED BY <2>1, <1>6, TotalIs
<1>8. Q[1 .. n] = P[1 .. n] /\ P[1 .. n] \in Nat
    BY <1>3, <1>4
<1>9. m.bytes \in Nat
    OBVIOUS
<1>10. TotalBytes(z) = TotalBytes(s) + m.bytes /\ TotalBytes(s) \in Nat
  <2> HIDE DEF Q
  <2> QED BY <1>2, <1>5, <1>7, <1>8, <1>9
<1> QED BY <1>10 DEF z

\* The first message of a queue taken off takes its bytes with it.
LEMMA TotalOfTail ==
    ASSUME NEW S, \A m \in S : m.bytes \in Nat, NEW s \in Seq(S), s # <<>>
    PROVE  /\ TotalBytes(s) = s[1].bytes + TotalBytes(Tail(s))
           /\ s[1].bytes \in Nat /\ TotalBytes(Tail(s)) \in Nat /\ TotalBytes(s) \in Nat
<1> DEFINE z == Tail(s)
           n == Len(s) - 1
<1>1. /\ z \in Seq(S) /\ Len(z) = n /\ n \in Nat /\ DOMAIN z = 1 .. n /\ Len(s) = n + 1
      /\ \A i \in 1 .. n : z[i] = s[i + 1]
    BY HeadTailProperties, LenProperties, EmptySeq
<1>2. s[1] \in S
    BY <1>1, ElementOfSeq
<1> HIDE DEF z, n
<1>3. PICK P : /\ AddsUp(P, [i \in 1 .. n + 1 |-> s[i].bytes], n + 1)
               /\ TotalBytes(s) = P[1 .. n + 1]
    BY <1>1, TotalExists
<1>4. /\ P \in [SUBSET (1 .. n + 1) -> Nat] /\ P[{}] = 0
      /\ \A t \in SUBSET (1 .. n + 1) : \A x \in t : P[t] = s[x].bytes + P[t \ {x}]
    BY <1>3 DEF AddsUp
<1> DEFINE Up(t) == {i + 1 : i \in t}
           Q == [t \in SUBSET (1 .. n) |-> P[Up(t)]]
<1>5. \A t \in SUBSET (1 .. n) : Up(t) \in SUBSET (1 .. n + 1)
    BY <1>1
<1>6. AddsUp(Q, [i \in 1 .. n |-> z[i].bytes], n)
  <2>1. Q \in [SUBSET (1 .. n) -> Nat]
    <3> HIDE DEF Up
    <3> QED BY <1>4, <1>5
  <2>2. Q[{}] = 0
    <3>1. Up({}) = {} /\ {} \in SUBSET (1 .. n)
        OBVIOUS
    <3> HIDE DEF Up
    <3> QED BY <1>4, <3>1
  <2>3. ASSUME NEW t \in SUBSET (1 .. n), NEW x \in t
        PROVE  Q[t] = z[x].bytes + Q[t \ {x}]
    <3>1. x + 1 \in Up(t) /\ z[x] = s[x + 1] /\ Up(t \ {x}) = Up(t) \ {x + 1}
        BY <1>1
    <3>2. t \ {x} \in SUBSET (1 .. n)
        OBVIOUS
    <3> HIDE DEF Up
    <3>3. P[Up(t)] = s[x + 1].bytes + P[Up(t) \ {x + 1}]
        BY <1>4, <1>5, <3>1
    <3> QED BY <3>1, <3>2, <3>3
  <2> HIDE DEF Q
  <2> QED BY <2>1, <2>2, <2>3 DEF AddsUp
<1>7. TotalBytes(z) = Q[1 .. n]
  <2> HIDE DEF Q
  <2>1. n \in Nat /\ DOMAIN z = 1 .. n
      BY <1>1
  <2> QED BY <2>1, <1>6, TotalIs
<1>8. Q[1 .. n] = P[Up(1 .. n)] /\ P[Up(1 .. n)] \in Nat
  <2> HIDE DEF Up
  <2> QED BY <1>4, <1>5
<1>9. P[1 .. n + 1] = s[1].bytes + P[Up(1 .. n)] /\ P[1 .. n + 1] \in Nat
  <2>1. 1 .. n + 1 \in SUBSET (1 .. n + 1) /\ 1 \in 1 .. n + 1
      BY <1>1
  <2>2. (1 .. n + 1) \ {1} = Up(1 .. n)
    <3>1. ASSUME NEW i \in 2 .. n + 1 PROVE i \in Up(1 .. n)
      <4>1. i - 1 \in 1 .. n /\ (i - 1) + 1 = i
          BY <1>1
      <4> QED BY <4>1
    <3>2. (1 .. n + 1) \ {1} = 2 .. n + 1
        BY <1>1
    <3>3. Up(1 .. n) \subseteq 2 .. n + 1
        BY <1>1
    <3> HIDE DEF Up
    <3> QED BY <3>1, <3>2, <3>3
  <2> HIDE DEF Up
  <2>3. P[1 .. n + 1] = s[1].bytes + P[(1 .. n + 1) \ {1}] /\ P[1 .. n + 1] \in Nat
      BY <1>4, <2>1
  <2> QED BY <2>2, <2>3
<1>10. s[1].bytes \in Nat
    BY <1>2
<1>11. /\ TotalBytes(s) = s[1].bytes + TotalBytes(z)
       /\ TotalBytes(z) \in Nat /\ TotalBytes(s) \in Nat
  <2> HIDE DEF Q, Up
  <2> QED BY <1>3, <1>7, <1>8, <1>9
<1> QED BY <1>10, <1>11 DEF z

\* The bytes of a queue are those of its first k messages and of the others.
LEMMA TotalOfParts ==
    ASSUME NEW S, \A m \in S : m.bytes \in Nat, NEW s \in Seq(S), NEW k \in 0 .. Len(s)
    PROVE  /\ TotalBytes(s) = TotalBytes(SubSeq(s, 1, k)) + TotalBytes(SubSeq(s, k + 1, Len(s)))
           /\ TotalBytes(SubSeq(s, 1, k)) \in Nat
           /\ TotalBytes(SubSeq(s, k + 1, Len(s))) \in Nat
<1> DEFINE b == Len(s)
           L(i) == TotalBytes(SubSeq(s, 1, i))
           R(i) == TotalBytes(SubSeq(s, i + 1, b))
           T == {i \in 0 .. b : TotalBytes(s) = L(i) + R(i) /\ L(i) \in Nat /\ R(i) \in Nat}
<1>1. b \in Nat
    OBVIOUS
<1>2. TotalBytes(s) \in Nat
    BY TotalOfTail, TotalOfEmpty
<1>3. 0 \in T
  <2>1. SubSeq(s, 1, 0) = <<>> /\ SubSeq(s, 1, b) = s
      BY <1>1
  <2>2. L(0) = 0 /\ R(0) = TotalBytes(s)
    <3>1. 0 + 1 = 1
        OBVIOUS
    <3> QED BY <2>1, <3>1, TotalOfEmpty
  <2> HIDE DEF L, R, b
  <2> QED BY <1>1, <1>2, <2>2
<1>4. ASSUME NEW i \in 0 .. b - 1, i \in T PROVE i + 1 \in T
  <2> DEFINE left == SubSeq(s, 1, i)
             right == SubSeq(s, i + 1, b)
  <2>1. i + 1 \in 1 .. b /\ i \in Nat /\ i + 1 \in 0 .. b
      BY <1>1
  <2>2. left \in Seq(S) /\ s[i + 1] \in S /\ SubSeq(s, 1, i + 1) = Append(left, s[i + 1])
    <3> DEFINE q == SubSeq(s, 1, i + 1)
    <3>1. \A j \in 1 .. b : s[j] \in S
        OBVIOUS
    <3>2. left \in Seq(S) /\ Len(left) = i /\ \A j \in 1 .. i : left[j] = s[j]
        BY <2>1, <3>1, SubSeqProperties
    <3>3. q \in Seq(S) /\ Len(q) = i + 1 /\ \A j \in 1 .. i + 1 : q[j] = s[j]
        BY <2>1, <3>1, SubSeqProperties
    <3>4. s[i + 1] \in S
        BY <2>1, <3>1
    <3> HIDE DEF left, q
    <3> DEFINE a == Append(left, s[i + 1])
    <3>5. /\ a \in Seq(S) /\ Len(a) = i + 1 /\ a[i + 1] = s[i + 1]
          /\ \A j \in 1 .. i : a[j] = left[j]
        BY <3>2, <3>4, AppendProperties
    <3> HIDE DEF a
    <3>6. ASSUME NEW j \in 1 .. i + 1 PROVE a[j] = q[j]
      <4>1. CASE j \in 1 .. i
          BY <4>1, <3>2, <3>3, <3>5
      <4>2. CASE j = i + 1
          BY <4>2, <3>3, <3>5
      <4> QED BY <4>1, <4>2, <2>1
    <3>7. a = q
        BY <3>3, <3>5, <3>6, SeqEqual
    <3> QED BY <3>2, <3>4, <3>7 DEF a, q
  <2>3. right \in Seq(S) /\ right # <<>> /\ right[1] = s[i + 1]
    <3>1. /\ right \in Seq(S) /\ Len(right) = b - (i + 1) + 1
          /\ \A j \in 1 .. b - (i + 1) + 1 : right[j] = s[i + 1 + j - 1]
        BY <2>1, SubSeqProperties
    <3>2. b - (i + 1) + 1 >= 1 /\ i + 1 + 1 - 1 = i + 1
        BY <2>1
    <3> HIDE DEF right
    <3>3. Len(right) # 0 /\ right[1] = s[i + 1]
        BY <2>1, <3>1, <3>2
    <3> QED BY <3>1, <3>3
  <2>4. Tail(right) = SubSeq(s, (i + 1) + 1, b)
      BY <2>1
  <2>5. L(i + 1) = L(i) + s[i + 1].bytes
    <3> HIDE DEF left
    <3>1. TotalBytes(Append(left, s[i + 1])) = TotalBytes(left) + s[i + 1].bytes
        BY <2>2, TotalOfAppend
    <3> QED BY <2>2, <3>1 DEF left
  <2>6. R(i) = s[i + 1].bytes + R(i + 1) /\ R(i + 1) \in Nat /\ s[i + 1].bytes \in Nat
    <3> HIDE DEF right
    <3>1. /\ TotalBytes(right) = right[1].bytes + TotalBytes(Tail(right))
          /\ TotalBytes(Tail(right)) \in Nat /\ right[1].bytes \in Nat
        BY <2>3, TotalOfTail
    <3> QED BY <2>3, <2>4, <3>1 DEF right
  <2>7. TotalBytes(s) = L(i) + R(i) /\ L(i) \in Nat /\ R(i) \in Nat
      BY <1>4
  <2> HIDE DEF L, R, b
  <2>8. /\ TotalBytes(s) = L(i + 1) + R(i + 1) /\ L(i + 1) \in Nat /\ R(i + 1) \in Nat
      BY <2>5, <2>6, <2>7
  <2> QED BY <2>1, <2>8
<1>5. \A i \in 0 .. b - 1 : i \in T => i + 1 \in T
    BY <1>4
<1>6. \A i \in 0 .. b : i \in T
  <2> HIDE DEF T, b
  <2> QED BY <1>1, <1>3, <1>5, AllNumbers
<1>7. k \in T
    BY <1>6
<1> QED BY <1>7
-----------------------------------------------------------------------------
(* The queue and the answers of the sends, at either end. *)

Ids(s) == {s[i].id : i \in DOMAIN s}
Settle(o, s, how) ==
    [i \in DOMAIN o |-> IF i \in Ids(s) /\ o[i] = "pending" THEN how ELSE o[i]]
Messages(b) == [id : 1 .. b, bytes : Sizes]
Answers == {"none", "pending", "resolved", "rejected"}

\* Of n sends accepted, out of b, those not yet answered are in q.
Waiting(q, o, n, b) ==
    /\ q \in Seq(Messages(b)) /\ o \in [1 .. b -> Answers] /\ n \in 0 .. b
    /\ \A i \in 1 .. b : o[i] = "none" <=> i > n
    /\ Len(q) <= n
    /\ \A j \in 1 .. Len(q) : q[j].id = n - Len(q) + j
    /\ \A i \in 1 .. b : o[i] = "pending" <=> i \in Ids(q)

\* What Waiting says of the queue: the numbers and sizes of its messages.
LEMMA WaitingFacts ==
    ASSUME NEW b \in Nat, NEW q, NEW o, NEW n, Waiting(q, o, n, b)
    PROVE  /\ q \in Seq(Messages(b)) /\ n \in Nat /\ n <= b /\ Len(q) \in Nat /\ Len(q) <= n
           /\ DOMAIN q = 1 .. Len(q) /\ DOMAIN o = 1 .. b
           /\ \A j \in 1 .. Len(q) : /\ q[j] \in Messages(b) /\ q[j].id = n - Len(q) + j
                                     /\ q[j].bytes \in Nat /\ q[j].bytes <= MaxQueuedBytes
                                     /\ q[j].bytes > 0
           /\ \A i : i \in Ids(q) <=> i \in n - Len(q) + 1 .. n
           /\ Sizes \subseteq Nat
<1>1. Len(q) \in Nat /\ DOMAIN q = 1 .. Len(q) /\ \A j \in 1 .. Len(q) : q[j] \in Messages(b)
    BY LenProperties, ElementOfSeq DEF Waiting
<1>2. Sizes \subseteq 1 .. MaxQueuedBytes /\ MaxQueuedBytes \in Nat
    BY SizesFit
<1>3. \A j \in 1 .. Len(q) : /\ q[j].bytes \in Nat /\ q[j].bytes <= MaxQueuedBytes
                             /\ q[j].bytes > 0
  <2>1. \A m \in Messages(b) : m.bytes \in 1 .. MaxQueuedBytes
      BY <1>2 DEF Messages
  <2> QED BY <1>1, <1>2, <2>1
<1>4. n \in Nat /\ n <= b /\ Len(q) <= n /\ \A j \in 1 .. Len(q) : q[j].id = n - Len(q) + j
    BY DEF Waiting
<1>5. ASSUME NEW i PROVE i \in Ids(q) <=> i \in n - Len(q) + 1 .. n
  <2>1. ASSUME i \in Ids(q) PROVE i \in n - Len(q) + 1 .. n
    <3>1. PICK j \in 1 .. Len(q) : i = q[j].id
        BY <1>1, <2>1 DEF Ids
    <3> QED BY <1>1, <1>4, <3>1
  <2>2. ASSUME i \in n - Len(q) + 1 .. n PROVE i \in Ids(q)
    <3>1. i - n + Len(q) \in 1 .. Len(q) /\ n - Len(q) + (i - n + Len(q)) = i
        BY <1>1, <1>4, <2>2
    <3>2. q[i - n + Len(q)].id = i
        BY <1>4, <3>1
    <3> QED BY <1>1, <3>1, <3>2 DEF Ids
  <2> QED BY <2>1, <2>2
<1> QED BY <1>1, <1>2, <1>3, <1>4, <1>5 DEF Waiting

\* send(): the lowest unused number is the next one, and waits at the end.
LEMMA WaitingAppend ==
    ASSUME NEW b \in Nat, NEW q, NEW o, NEW n, Waiting(q, o, n, b),
           NEW i \in 1 .. b, o[i] = "none", \A j \in 1 .. i - 1 : o[j] # "none",
           NEW x \in Sizes
    PROVE  /\ i = n + 1
           /\ Waiting(Append(q, [id |-> i, bytes |-> x]), [o EXCEPT ![i] = "pending"], n + 1, b)
<1> DEFINE m == [id |-> i, bytes |-> x]
           r == Append(q, m)
           p == [o EXCEPT ![i] = "pending"]
<1>1. /\ q \in Seq(Messages(b)) /\ n \in Nat /\ n <= b /\ Len(q) \in Nat /\ Len(q) <= n
      /\ \A j \in 1 .. Len(q) : q[j].id = n - Len(q) + j
      /\ \A k : k \in Ids(q) <=> k \in n - Len(q) + 1 .. n
    BY WaitingFacts
<1>2. /\ o \in [1 .. b -> Answers] /\ \A k \in 1 .. b : o[k] = "none" <=> k > n
      /\ \A k \in 1 .. b : o[k] = "pending" <=> k \in Ids(q)
    BY DEF Waiting
<1>3. i = n + 1
  <2>1. i > n
      BY <1>2
  <2>2. ASSUME i > n + 1 PROVE FALSE
    <3>1. n + 1 \in 1 .. i - 1 /\ n + 1 \in 1 .. b /\ n + 1 > n
        BY <1>1, <2>2
    <3>2. o[n + 1] = "none" /\ o[n + 1] # "none"
        BY <1>2, <3>1
    <3> QED BY <3>2
  <2> QED BY <1>1, <2>1, <2>2
<1>4. m \in Messages(b) /\ m.id = n + 1
    BY <1>3 DEF Messages
<1> HIDE DEF m
<1>5. /\ r \in Seq(Messages(b)) /\ Len(r) = Len(q) + 1 /\ r[Len(q) + 1] = m
      /\ \A j \in 1 .. Len(q) : r[j] = q[j]
    BY <1>1, <1>4, AppendProperties
<1>6. p \in [1 .. b -> Answers] /\ p[i] = "pending" /\ \A k \in 1 .. b : k # i => p[k] = o[k]
    BY <1>2 DEF Answers
<1> HIDE DEF r, p
<1>7. n + 1 \in 0 .. b /\ Len(r) <= n + 1
    BY <1>1, <1>3, <1>5
<1>8. ASSUME NEW j \in 1 .. Len(r) PROVE r[j].id = n + 1 - Len(r) + j
  <2>1. j \in 1 .. Len(q) \/ j = Len(q) + 1
      BY <1>1, <1>5
  <2>2. CASE j \in 1 .. Len(q)
    <3>1. r[j] = q[j] /\ q[j].id = n - Len(q) + j
        BY <1>1, <1>5, <2>2
    <3> QED BY <1>1, <1>5, <2>2, <3>1
  <2>3. CASE j = Len(q) + 1
    <3>1. r[j].id = n + 1
        BY <1>4, <1>5, <2>3
    <3> QED BY <1>1, <1>5, <2>3, <3>1
  <2> QED BY <2>1, <2>2, <2>3
<1>9. \A k \in 1 .. b : p[k] = "none" <=> k > n + 1
  <2> SUFFICES ASSUME NEW k \in 1 .. b PROVE p[k] = "none" <=> k > n + 1
      OBVIOUS
  <2>1. CASE k = i
      BY <2>1, <1>1, <1>3, <1>6
  <2>2. CASE k # i
    <3>1. p[k] = o[k] /\ (o[k] = "none" <=> k > n)
        BY <2>2, <1>2, <1>6
    <3> QED BY <3>1, <2>2, <1>1, <1>3
  <2> QED BY <2>1, <2>2
<1>10. \A k \in 1 .. b : p[k] = "pending" <=> k \in Ids(r)
  <2>1. \A k : k \in Ids(r) <=> k \in Ids(q) \/ k = i
    <3>1. DOMAIN r = 1 .. Len(q) + 1 /\ DOMAIN q = 1 .. Len(q)
        BY <1>1, <1>5, LenProperties
    <3>2. \A j : j \in 1 .. Len(q) + 1 <=> j \in 1 .. Len(q) \/ j = Len(q) + 1
        BY <1>1
    <3>3. r[Len(q) + 1].id = i
        BY <1>3, <1>4, <1>5
    <3> QED BY <1>5, <3>1, <3>2, <3>3 DEF Ids
  <2> QED BY <2>1, <1>2, <1>6
<1>11. Waiting(r, p, n + 1, b)
    BY <1>5, <1>6, <1>7, <1>8, <1>9, <1>10 DEF Waiting
<1> QED BY <1>3, <1>11 DEF r, p, m

\* What settling some sends leaves of the others.
OnlySettles(o, p) ==
    /\ DOMAIN p = DOMAIN o
    /\ \A i \in DOMAIN o : /\ p[i] \in Answers
                           /\ p[i] = "none" <=> o[i] = "none"
                           /\ p[i] = "pending" => o[i] = "pending"

\* Settling once more is still settling.
LEMMA SettleSettles ==
    ASSUME NEW b \in Nat, NEW q, NEW o, NEW n, Waiting(q, o, n, b), NEW s,
           NEW how \in {"resolved", "rejected"}, NEW p, OnlySettles(o, p)
    PROVE  OnlySettles(o, Settle(p, s, how))
<1> DEFINE r == Settle(p, s, how)
<1>1. DOMAIN r = DOMAIN p /\ DOMAIN p = DOMAIN o
    BY DEF OnlySettles, Settle
<1>2. \A i \in DOMAIN p : r[i] = p[i] \/ (p[i] = "pending" /\ r[i] = how)
    BY DEF Settle
<1> HIDE DEF r
<1>3. how \in Answers /\ how # "none" /\ how # "pending"
    BY DEF Answers
<1>4. ASSUME NEW i \in DOMAIN o
      PROVE  /\ r[i] \in Answers
             /\ (r[i] = "none" <=> o[i] = "none")
             /\ (r[i] = "pending" => o[i] = "pending")
  <2>1. /\ p[i] \in Answers
        /\ (p[i] = "none" <=> o[i] = "none")
        /\ (p[i] = "pending" => o[i] = "pending")
      BY DEF OnlySettles
  <2>2. r[i] = p[i] \/ (p[i] = "pending" /\ r[i] = how)
      BY <1>1, <1>2
  <2>3. CASE r[i] = p[i]
      BY <2>1, <2>3
  <2>4. CASE p[i] = "pending" /\ r[i] = how
      BY <2>1, <2>4, <1>3
  <2> QED BY <2>2, <2>3, <2>4
<1>5. OnlySettles(o, r)
    BY <1>1, <1>4 DEF OnlySettles
<1> QED BY <1>5 DEF r

\* After settling, the settled sends have an answer and the others wait.
LEMMA SettledFunction ==
    ASSUME NEW b \in Nat, NEW q, NEW o, NEW n, Waiting(q, o, n, b), NEW p, OnlySettles(o, p),
           NEW s, NEW how \in {"resolved", "rejected"}
    PROVE  /\ Settle(p, s, how) \in [1 .. b -> Answers]
           /\ \A i \in 1 .. b : Settle(p, s, how)[i] = "none" <=> i > n
           /\ \A i \in 1 .. b : Settle(p, s, how)[i] = "pending" <=>
                                 p[i] = "pending" /\ i \notin Ids(s)
<1> DEFINE r == Settle(p, s, how)
<1>1. DOMAIN o = 1 .. b /\ \A i \in 1 .. b : o[i] = "none" <=> i > n
    BY DEF Waiting
<1>2. OnlySettles(o, r)
    BY SettleSettles
<1>3. r = [i \in DOMAIN p |-> r[i]] /\ DOMAIN p = 1 .. b
    BY <1>1 DEF Settle, OnlySettles
<1>4. \A i \in 1 .. b : r[i] = "pending" <=> p[i] = "pending" /\ i \notin Ids(s)
    BY <1>3 DEF Settle
<1> HIDE DEF r
<1>5. \A i \in 1 .. b : r[i] \in Answers /\ (r[i] = "none" <=> i > n)
    BY <1>1, <1>2 DEF OnlySettles
<1>6. r \in [1 .. b -> Answers]
    BY <1>3, <1>5
<1> QED BY <1>4, <1>5, <1>6 DEF r

\* rejectQueued: nothing waits any more.
LEMMA WaitingClear ==
    ASSUME NEW b \in Nat, NEW q, NEW o, NEW n, Waiting(q, o, n, b), NEW p, OnlySettles(o, p)
    PROVE  Waiting(<<>>, Settle(p, q, "rejected"), n, b)
<1> DEFINE r == Settle(p, q, "rejected")
<1>1. /\ o \in [1 .. b -> Answers] /\ n \in 0 .. b
      /\ \A i \in 1 .. b : o[i] = "pending" <=> i \in Ids(q)
    BY DEF Waiting
<1>2. /\ r \in [1 .. b -> Answers] /\ \A i \in 1 .. b : r[i] = "none" <=> i > n
      /\ \A i \in 1 .. b : r[i] = "pending" <=> p[i] = "pending" /\ i \notin Ids(q)
    BY SettledFunction
<1> HIDE DEF r
<1>3. \A i \in 1 .. b : p[i] = "pending" => o[i] = "pending"
    BY <1>1 DEF OnlySettles
<1>4. \A i \in 1 .. b : r[i] # "pending"
    BY <1>1, <1>2, <1>3
<1>5. <<>> \in Seq(Messages(b)) /\ Len(<<>>) = 0 /\ Ids(<<>>) = {}
    BY DEF Ids
<1>6. Waiting(<<>>, r, n, b)
    BY <1>1, <1>2, <1>4, <1>5 DEF Waiting
<1> QED BY <1>6 DEF r

\* The first k messages are taken off and their sends settled.
LEMMA WaitingTake ==
    ASSUME NEW b \in Nat, NEW q, NEW o, NEW n, Waiting(q, o, n, b),
           NEW k \in 0 .. Len(q), NEW how \in {"resolved", "rejected"}
    PROVE  /\ Waiting(SubSeq(q, k + 1, Len(q)), Settle(o, SubSeq(q, 1, k), how), n, b)
           /\ Len(SubSeq(q, k + 1, Len(q))) = Len(q) - k
           /\ \A j \in 1 .. Len(q) - k : SubSeq(q, k + 1, Len(q))[j] = q[k + j]
           /\ OnlySettles(o, Settle(o, SubSeq(q, 1, k), how))
<1> DEFINE rest == SubSeq(q, k + 1, Len(q))
           passed == SubSeq(q, 1, k)
           p == Settle(o, passed, how)
<1>1. /\ q \in Seq(Messages(b)) /\ n \in Nat /\ n <= b /\ Len(q) \in Nat /\ Len(q) <= n
      /\ \A j \in 1 .. Len(q) : q[j] \in Messages(b)
      /\ \A j \in 1 .. Len(q) : q[j].id = n - Len(q) + j
      /\ \A i : i \in Ids(q) <=> i \in n - Len(q) + 1 .. n
    BY WaitingFacts
<1>2. /\ o \in [1 .. b -> Answers] /\ \A i \in 1 .. b : o[i] = "none" <=> i > n
      /\ \A i \in 1 .. b : o[i] = "pending" <=> i \in Ids(q)
    BY DEF Waiting
<1>3. /\ rest \in Seq(Messages(b)) /\ Len(rest) = Len(q) - k
      /\ \A j \in 1 .. Len(q) - k : rest[j] = q[k + j]
  <2>1. k + 1 \in Int /\ Len(q) \in Int /\ \A j \in k + 1 .. Len(q) : q[j] \in Messages(b)
      BY <1>1
  <2>2. /\ rest \in Seq(Messages(b)) /\ Len(rest) = IF k + 1 <= Len(q) THEN Len(q) - (k + 1) + 1 ELSE 0
        /\ \A j \in 1 .. Len(q) - (k + 1) + 1 : rest[j] = q[k + 1 + j - 1]
      BY <2>1, SubSeqProperties
  <2> HIDE DEF rest
  <2>3. Len(q) - (k + 1) + 1 = Len(q) - k /\ \A j \in Int : k + 1 + j - 1 = k + j
      BY <1>1
  <2>4. k + 1 <= Len(q) \/ Len(q) - k = 0
      BY <1>1
  <2>5. Len(rest) = Len(q) - k
      BY <2>2, <2>3, <2>4
  <2>6. ASSUME NEW j \in 1 .. Len(q) - k PROVE rest[j] = q[k + j]
    <3>1. rest[j] = q[k + 1 + j - 1]
        BY <2>2, <2>3
    <3>2. j \in Int
        BY <1>1
    <3>3. k + 1 + j - 1 = k + j
        BY <2>3, <3>2
    <3> QED BY <3>1, <3>3
  <2> QED BY <2>2, <2>5, <2>6
<1>4. /\ passed \in Seq(Messages(b)) /\ Len(passed) = k
      /\ \A j \in 1 .. k : passed[j] = q[j]
  <2>1. 1 \in Int /\ k \in Int /\ \A j \in 1 .. k : q[j] \in Messages(b)
      BY <1>1
  <2>2. /\ passed \in Seq(Messages(b)) /\ Len(passed) = IF 1 <= k THEN k - 1 + 1 ELSE 0
        /\ \A j \in 1 .. k - 1 + 1 : passed[j] = q[1 + j - 1]
      BY <2>1, SubSeqProperties
  <2> HIDE DEF passed
  <2>3. k - 1 + 1 = k /\ \A j \in Int : 1 + j - 1 = j
      BY <1>1
  <2> QED BY <1>1, <2>2, <2>3
<1> HIDE DEF rest, passed
<1>5. \A j \in 1 .. Len(rest) : rest[j].id = n - Len(rest) + j
  <2> SUFFICES ASSUME NEW j \in 1 .. Len(q) - k PROVE rest[j].id = n - (Len(q) - k) + j
      BY <1>3
  <2>1. k + j \in 1 .. Len(q)
      BY <1>1
  <2>2. q[k + j].id = n - Len(q) + (k + j)
      BY <1>1, <2>1
  <2> QED BY <1>1, <1>3, <2>2
<1>6. \A i : i \in Ids(rest) <=> i \in n - Len(q) + k + 1 .. n
  <2> SUFFICES ASSUME NEW i PROVE i \in Ids(rest) <=> i \in n - Len(q) + k + 1 .. n
      OBVIOUS
  <2>1. DOMAIN rest = 1 .. Len(q) - k
      BY <1>1, <1>3, LenProperties
  <2>2. ASSUME i \in Ids(rest) PROVE i \in n - Len(q) + k + 1 .. n
    <3>1. PICK j \in 1 .. Len(q) - k : i = rest[j].id
        BY <2>1, <2>2 DEF Ids
    <3> QED BY <1>1, <1>3, <1>5, <3>1
  <2>3. ASSUME i \in n - Len(q) + k + 1 .. n PROVE i \in Ids(rest)
    <3> DEFINE j == i - n + Len(q) - k
    <3>1. j \in 1 .. Len(q) - k /\ n - (Len(q) - k) + j = i
        BY <1>1, <2>3
    <3> HIDE DEF j
    <3>2. rest[j].id = i
        BY <1>3, <1>5, <3>1
    <3> QED BY <2>1, <3>1, <3>2 DEF Ids
  <2> QED BY <2>2, <2>3
<1>7. \A i : i \in Ids(passed) <=> i \in n - Len(q) + 1 .. n - Len(q) + k
  <2> SUFFICES ASSUME NEW i PROVE i \in Ids(passed) <=> i \in n - Len(q) + 1 .. n - Len(q) + k
      OBVIOUS
  <2>1. DOMAIN passed = 1 .. k
      BY <1>1, <1>4, LenProperties
  <2>2. \A j \in 1 .. k : passed[j].id = n - Len(q) + j
    <3>1. \A j \in 1 .. k : j \in 1 .. Len(q)
        BY <1>1
    <3> QED BY <1>1, <1>4, <3>1
  <2>3. ASSUME i \in Ids(passed) PROVE i \in n - Len(q) + 1 .. n - Len(q) + k
    <3>1. PICK j \in 1 .. k : i = passed[j].id
        BY <2>1, <2>3 DEF Ids
    <3> QED BY <1>1, <2>2, <3>1
  <2>4. ASSUME i \in n - Len(q) + 1 .. n - Len(q) + k PROVE i \in Ids(passed)
    <3> DEFINE j == i - n + Len(q)
    <3>1. j \in 1 .. k /\ n - Len(q) + j = i
        BY <1>1, <2>4
    <3> HIDE DEF j
    <3>2. passed[j].id = i
        BY <2>2, <3>1
    <3> QED BY <2>1, <3>1, <3>2 DEF Ids
  <2> QED BY <2>3, <2>4
<1>8. OnlySettles(o, o)
    BY <1>2 DEF OnlySettles
<1>a. OnlySettles(o, p)
    BY <1>8, SettleSettles
<1>9. /\ p \in [1 .. b -> Answers] /\ \A i \in 1 .. b : p[i] = "none" <=> i > n
      /\ \A i \in 1 .. b : p[i] = "pending" <=> o[i] = "pending" /\ i \notin Ids(passed)
    BY <1>8, SettledFunction
<1> HIDE DEF p
<1>11. \A i \in 1 .. b : p[i] = "pending" <=> i \in Ids(rest)
  <2> SUFFICES ASSUME NEW i \in 1 .. b PROVE p[i] = "pending" <=> i \in Ids(rest)
      OBVIOUS
  <2>1. o[i] = "pending" <=> i \in n - Len(q) + 1 .. n
      BY <1>1, <1>2
  <2>2. i \in Ids(rest) <=> i \in n - Len(q) + k + 1 .. n
      BY <1>6
  <2>3. i \in Ids(passed) <=> i \in n - Len(q) + 1 .. n - Len(q) + k
      BY <1>7
  <2>4. i \in n - Len(q) + k + 1 .. n <=>
          i \in n - Len(q) + 1 .. n /\ ~(i \in n - Len(q) + 1 .. n - Len(q) + k)
      BY <1>1
  <2> QED BY <1>9, <2>1, <2>2, <2>3, <2>4
<1>12. Waiting(rest, p, n, b)
    BY <1>1, <1>3, <1>5, <1>9, <1>11 DEF Waiting
<1> QED BY <1>3, <1>a, <1>12 DEF rest, passed, p

\* The first message is taken off and its send settled.
LEMMA WaitingTail ==
    ASSUME NEW b \in Nat, NEW q, NEW o, NEW n, Waiting(q, o, n, b), q # <<>>,
           NEW how \in {"resolved", "rejected"}
    PROVE  /\ Waiting(Tail(q), Settle(o, <<q[1]>>, how), n, b)
           /\ Len(Tail(q)) = Len(q) - 1 /\ Len(q) >= 1
           /\ \A j \in 1 .. Len(q) - 1 : Tail(q)[j] = q[j + 1]
<1>1. q \in Seq(Messages(b)) /\ Len(q) \in Nat /\ Len(q) >= 1
    BY WaitingFacts, EmptySeq
<1>2. /\ Tail(q) \in Seq(Messages(b)) /\ Len(Tail(q)) = Len(q) - 1
      /\ \A j \in 1 .. Len(q) - 1 : Tail(q)[j] = q[j + 1]
    BY <1>1, HeadTailProperties
<1>3. SubSeq(q, 1 + 1, Len(q)) = Tail(q)
    BY <1>1
<1>4. Ids(SubSeq(q, 1, 1)) = Ids(<<q[1]>>)
  <2> DEFINE z == SubSeq(q, 1, 1)
  <2>1. \A j \in 1 .. 1 : q[j] \in Messages(b)
      BY <1>1, ElementOfSeq
  <2>2. /\ z \in Seq(Messages(b)) /\ Len(z) = IF 1 <= 1 THEN 1 - 1 + 1 ELSE 0
        /\ \A j \in 1 .. 1 - 1 + 1 : z[j] = q[1 + j - 1]
      BY <2>1, SubSeqProperties
  <2> HIDE DEF z
  <2>3. DOMAIN z = {1} /\ z[1] = q[1]
      BY <2>2, LenProperties
  <2>4. Ids(z) = {q[1].id}
      BY <2>3 DEF Ids
  <2>5. Ids(<<q[1]>>) = {q[1].id}
      BY DEF Ids
  <2> QED BY <2>4, <2>5 DEF z
<1>5. Settle(o, SubSeq(q, 1, 1), how) = Settle(o, <<q[1]>>, how)
    BY <1>4 DEF Settle
<1>6. 1 \in 0 .. Len(q)
    BY <1>1
<1>7. Waiting(SubSeq(q, 1 + 1, Len(q)), Settle(o, SubSeq(q, 1, 1), how), n, b)
    BY <1>6, WaitingTake
<1> QED BY <1>1, <1>2, <1>3, <1>5, <1>7

\* A settled send that has an answer keeps it.
LEMMA WaitingSame ==
    ASSUME NEW b \in Nat, NEW q, NEW o, NEW n, Waiting(q, o, n, b), NEW s,
           \A i \in Ids(s) : i \notin Ids(q), NEW how
    PROVE  Settle(o, s, how) = o
<1>1. o \in [1 .. b -> Answers] /\ \A i \in 1 .. b : o[i] = "pending" <=> i \in Ids(q)
    BY DEF Waiting
<1> QED BY <1>1 DEF Settle

\* What has been sent, in order.
Sent(w) == w \in Seq(Nat) /\ \A i \in 1 .. Len(w) : w[i] = i

\* Nothing has been sent.
LEMMA SentNothing == Sent(<<>>) /\ Len(<<>>) = 0
    BY DEF Sent

\* One more message is sent.
LEMMA SentNext ==
    ASSUME NEW w, Sent(w)
    PROVE  /\ Sent(Append(w, Len(w) + 1)) /\ Len(Append(w, Len(w) + 1)) = Len(w) + 1
           /\ Len(w) \in Nat
<1> DEFINE z == Append(w, Len(w) + 1)
<1>1. w \in Seq(Nat) /\ Len(w) \in Nat /\ \A i \in 1 .. Len(w) : w[i] = i
    BY LenProperties DEF Sent
<1>2. /\ z \in Seq(Nat) /\ Len(z) = Len(w) + 1 /\ z[Len(w) + 1] = Len(w) + 1
      /\ \A i \in 1 .. Len(w) : z[i] = w[i]
    BY <1>1, AppendProperties
<1> HIDE DEF z
<1>3. \A i \in 1 .. Len(z) : i \in 1 .. Len(w) \/ i = Len(w) + 1
    BY <1>1, <1>2
<1>4. Sent(z)
    BY <1>1, <1>2, <1>3 DEF Sent
<1> QED BY <1>1, <1>2, <1>4 DEF z

\* The next k messages are sent.
LEMMA SentMore ==
    ASSUME NEW w, Sent(w), NEW k \in Nat, NEW more, more = [i \in 1 .. k |-> Len(w) + i]
    PROVE  Sent(w \o more) /\ Len(w \o more) = Len(w) + k
<1> DEFINE z == w \o more
<1>1. w \in Seq(Nat) /\ Len(w) \in Nat /\ \A i \in 1 .. Len(w) : w[i] = i
    BY LenProperties DEF Sent
<1>2. more \in Seq(Nat) /\ Len(more) = k
  <2>1. \A i \in 1 .. k : Len(w) + i \in Nat
      BY <1>1
  <2>2. more \in [1 .. k -> Nat]
      BY <2>1
  <2> QED BY <2>2, SeqDef, LenProperties
<1>3. /\ z \in Seq(Nat) /\ Len(z) = Len(w) + k
      /\ \A i \in 1 .. Len(w) + k : z[i] = IF i <= Len(w) THEN w[i] ELSE more[i - Len(w)]
    BY <1>1, <1>2, ConcatProperties
<1> HIDE DEF z
<1>4. ASSUME NEW i \in 1 .. Len(w) + k PROVE z[i] = i
  <2>1. CASE i <= Len(w)
    <3>1. z[i] = w[i] /\ i \in 1 .. Len(w)
        BY <2>1, <1>1, <1>3
    <3> QED BY <1>1, <3>1
  <2>2. CASE i > Len(w)
    <3>1. i - Len(w) \in 1 .. k /\ Len(w) + (i - Len(w)) = i
        BY <1>1, <2>2
    <3>2. more[i - Len(w)] = Len(w) + (i - Len(w))
        BY <3>1
    <3>3. i \in 1 .. Len(w) + k /\ ~(i <= Len(w))
        BY <1>1, <2>2
    <3>4. z[i] = more[i - Len(w)]
        BY <1>3, <3>3
    <3> QED BY <3>1, <3>2, <3>4
  <2> QED BY <2>1, <2>2, <1>1
<1>5. Sent(z)
    BY <1>3, <1>4 DEF Sent
<1> QED BY <1>3, <1>5 DEF z

\* The operators of the two transports are the ones above.
LEMMA AgentOperators ==
    ASSUME NEW s, NEW o, NEW how
    PROVE  /\ Agent!TotalBytes(s) = TotalBytes(s) /\ Agent!Ids(s) = Ids(s)
           /\ Agent!Settle(o, s, how) = Settle(o, s, how)
<1>1. Agent!TotalBytes(s) = TotalBytes(s)
    BY DEF TotalBytes, Agent!TotalBytes, FoldSeq, FoldFunction, FoldFunctionOnSet,
           MapThenFoldSet, Agent!FoldSeq, Agent!FoldFunction, Agent!FoldFunctionOnSet,
           Agent!MapThenFoldSet
<1>2. Agent!Ids(s) = Ids(s)
    BY DEF Agent!Ids, Ids
<1>3. Agent!Settle(o, s, how) = Settle(o, s, how)
    BY <1>2 DEF Agent!Settle, Settle
<1> QED BY <1>1, <1>2, <1>3

\* The same for the server's transport.
LEMMA ServerOperators ==
    ASSUME NEW s, NEW o, NEW how
    PROVE  /\ Server!TotalBytes(s) = TotalBytes(s) /\ Server!Ids(s) = Ids(s)
           /\ Server!Settle(o, s, how) = Settle(o, s, how)
<1>1. Server!TotalBytes(s) = TotalBytes(s)
    BY DEF TotalBytes, Server!TotalBytes, FoldSeq, FoldFunction, FoldFunctionOnSet,
           MapThenFoldSet, Server!FoldSeq, Server!FoldFunction, Server!FoldFunctionOnSet,
           Server!MapThenFoldSet
<1>2. Server!Ids(s) = Ids(s)
    BY DEF Server!Ids, Ids
<1>3. Server!Settle(o, s, how) = Settle(o, s, how)
    BY <1>2 DEF Server!Settle, Settle
<1> QED BY <1>1, <1>2, <1>3
-----------------------------------------------------------------------------
(* The agent's transport. *)

Before == {"idle", "connecting", "handshaking"}

\* After n sends: the queue, its bytes, and what has gone to the socket.
AgentQueue(n) ==
    /\ Waiting(queue, outcome, n, MaxSends) /\ Sent(wire)
    /\ Len(queue) <= MaxQueuedMessages
    /\ queuedBytes = TotalBytes(queue) /\ queuedBytes <= MaxQueuedBytes
    /\ currentSend \in 0 .. MaxSends
    /\ tstate = "ready" =>
          Len(wire) = n - Len(queue) + (IF currentSend = 0 THEN 0 ELSE 1)
    /\ tstate = "ready" /\ currentSend # 0 => queue # <<>> /\ queue[1].id = currentSend
    /\ tstate \in Before => n = 0 /\ wire = <<>>

\* The state, the socket, the promises and the timers.
AgentLink ==
    /\ tstate \in Agent!States
    /\ socket \in {"none", "CONNECTING", "OPEN", "CLOSING", "CLOSED"}
    /\ buffered \in Nat /\ baseline \in Nat
    /\ startP \in {"none", "pending", "resolved", "rejected"}
    /\ closeP \in {"pending", "resolved"}
    /\ errors \in 0 .. 1 /\ closes \in 0 .. 1
    /\ handshakeTimer \in BOOLEAN /\ poll \in BOOLEAN /\ drain \in BOOLEAN
    /\ Agent!StateAgrees
    /\ Agent!WithinLimits /\ Agent!NoStall /\ Agent!ResolvedIsFlushed
    /\ tstate = "closed" => closes = 1 /\ startP # "pending" /\ ~handshakeTimer /\ ~poll

AgentInv == AgentLink /\ \E n : AgentQueue(n)

\* A step that leaves the queue and what was sent alone.
LEMMA AgentQuiet ==
    ASSUME NEW n, AgentQueue(n),
           queue' = queue, queuedBytes' = queuedBytes, outcome' = outcome,
           currentSend' = currentSend, wire' = wire,
           tstate' = "ready" => tstate = "ready" \/ (tstate = "handshaking" /\ currentSend = 0),
           tstate' \in Before => tstate \in Before
    PROVE  AgentQueue(n)'
<1>1. CASE tstate = "handshaking" /\ tstate' = "ready"
  <2>1. n = 0 /\ wire = <<>> /\ currentSend = 0 /\ Len(queue) = 0
      BY <1>1, SizesFit, WaitingFacts DEF AgentQueue, Before
  <2>2. Len(wire) = 0
      BY <2>1
  <2> QED BY <1>1, <2>1, <2>2 DEF AgentQueue, Before
<1>2. CASE ~(tstate = "handshaking" /\ tstate' = "ready")
  <2>1. tstate' = "ready" => tstate = "ready"
      BY <1>2
  <2> QED BY <2>1 DEF AgentQueue
<1> QED BY <1>1, <1>2

\* A step that rejects the queue, on the way to a state that sends nothing.
LEMMA AgentLeaves ==
    ASSUME NEW n, AgentQueue(n), NEW o, OnlySettles(outcome, o), Agent!RejectQueued(o),
           Sent(wire'), currentSend' \in 0 .. MaxSends, tstate' \notin Before \cup {"ready"}
    PROVE  AgentQueue(n)' /\ queue' = <<>>
<1>1. queue' = <<>> /\ queuedBytes' = 0 /\ outcome' = Settle(o, queue, "rejected")
    BY AgentOperators DEF Agent!RejectQueued
<1>2. Waiting(<<>>, Settle(o, queue, "rejected"), n, MaxSends)
    BY SizesFit, WaitingClear DEF AgentQueue
<1>3. Waiting(queue', outcome', n, MaxSends)
    BY <1>1, <1>2
<1>4. /\ Len(queue') <= MaxQueuedMessages
      /\ queuedBytes' = TotalBytes(queue') /\ queuedBytes' <= MaxQueuedBytes
  <2>1. Len(<<>>) = 0 /\ MaxQueuedMessages \in Nat /\ MaxQueuedBytes \in Nat
      BY SizesFit
  <2> QED BY <1>1, <2>1, TotalOfEmpty
<1> QED BY <1>1, <1>3, <1>4 DEF AgentQueue

\* Settling nothing is settling.
LEMMA AgentSame ==
    ASSUME NEW n, AgentQueue(n)
    PROVE  OnlySettles(outcome, outcome) /\ Sent(wire) /\ currentSend \in 0 .. MaxSends
    BY DEF AgentQueue, Waiting, OnlySettles

\* An end that leaves the state ready has nothing to send.
LEMMA AgentFinalizes ==
    ASSUME AgentLink, NEW n, AgentQueue(n), tstate # "closed",
           NEW o, OnlySettles(outcome, o), Agent!Finalize(o),
           Sent(wire'), currentSend' \in 0 .. MaxSends,
           socket' \in {"none", "CONNECTING", "OPEN", "CLOSING", "CLOSED"},
           buffered' \in Nat, baseline' \in Nat, errors' \in 0 .. 1, drain' \in BOOLEAN
    PROVE  AgentInv'
<1>1. /\ tstate' = "closed" /\ closes' = closes + 1 /\ handshakeTimer' = FALSE
      /\ poll' = FALSE /\ closeP' = "resolved" /\ Agent!RejectQueued(o)
      /\ startP' = IF startP = "pending" THEN "rejected" ELSE startP
    BY DEF Agent!Finalize, Agent!RejectStart
<1>2. AgentQueue(n)' /\ queue' = <<>>
    BY <1>1, AgentLeaves DEF Before
<1>3. closes' = 1
    BY <1>1 DEF AgentLink, Agent!StateAgrees
<1>4. Agent!StateAgrees' /\ Agent!WithinLimits' /\ Agent!NoStall' /\ Agent!ResolvedIsFlushed'
    BY <1>1, <1>2 DEF Agent!StateAgrees, Agent!WithinLimits, Agent!NoStall,
                      Agent!ResolvedIsFlushed
<1>5. startP' \in {"none", "resolved", "rejected"}
    BY <1>1 DEF AgentLink
<1>6. /\ tstate' \in Agent!States /\ closes' \in 0 .. 1 /\ closeP' \in {"pending", "resolved"}
      /\ handshakeTimer' \in BOOLEAN /\ poll' \in BOOLEAN
      /\ tstate' = "closed" => /\ closes' = 1 /\ startP' # "pending"
                               /\ ~handshakeTimer' /\ ~poll'
  <2>1. tstate' \in Agent!States /\ closes' \in 0 .. 1 /\ closeP' \in {"pending", "resolved"}
      BY <1>1, <1>3 DEF Agent!States
  <2>2. ~handshakeTimer' /\ ~poll' /\ handshakeTimer' \in BOOLEAN /\ poll' \in BOOLEAN
      BY <1>1
  <2>3. startP' # "pending"
      BY <1>5
  <2> QED BY <1>3, <2>1, <2>2, <2>3
<1>7. AgentLink'
    BY <1>4, <1>5, <1>6 DEF AgentLink
<1> QED BY <1>2, <1>7 DEF AgentInv

\* fail(): the transport fails, or is closed at once when its socket is or its
\* socket.close throws.
LEMMA AgentFails ==
    ASSUME AgentLink, NEW n, AgentQueue(n), tstate \notin {"closing", "closed"},
           NEW o, OnlySettles(outcome, o), Agent!Fail(o),
           Sent(wire'), currentSend' \in 0 .. MaxSends,
           buffered' \in Nat, baseline' \in Nat, drain' \in BOOLEAN
    PROVE  AgentInv'
<1>0. errors' \in 0 .. 1
    BY DEF Agent!Fail
<1>1. CASE Agent!Abandon(o)
  <2>1. Agent!Finalize(o) /\ socket' = socket
      BY <1>1 DEF Agent!Abandon
  <2> QED BY <1>0, <2>1, AgentFinalizes DEF AgentLink
<1>2. CASE ~Agent!Abandon(o)
  <2>1. /\ tstate' = "failed" /\ handshakeTimer' = FALSE /\ poll' = FALSE
        /\ Agent!RejectQueued(o) /\ closeP' = closeP /\ closes' = closes
        /\ startP' = IF startP = "pending" THEN "rejected" ELSE startP
        /\ socket' = "CLOSING"
      BY <1>2 DEF Agent!Fail, Agent!Closable, Agent!RejectStart, Agent!CloseSocket
  <2>2. AgentQueue(n)' /\ queue' = <<>>
      BY <2>1, AgentLeaves DEF Before
  <2>3. closes = 0 /\ closeP = "resolved"
      BY DEF AgentLink, Agent!StateAgrees
  <2>4. Agent!StateAgrees' /\ Agent!WithinLimits' /\ Agent!NoStall' /\ Agent!ResolvedIsFlushed'
      BY <2>1, <2>2, <2>3 DEF Agent!StateAgrees, Agent!WithinLimits, Agent!NoStall,
                        Agent!ResolvedIsFlushed
  <2>5. AgentLink'
      BY <1>0, <2>1, <2>3, <2>4 DEF AgentLink, Agent!States
  <2> QED BY <2>2, <2>5 DEF AgentInv
<1> QED BY <1>1, <1>2

\* start()
LEMMA AgentStarts ==
    ASSUME AgentLink, NEW n, AgentQueue(n), Agent!Start
    PROVE  AgentInv'
<1>1. CASE /\ tstate' = "connecting" /\ socket' = "CONNECTING" /\ startP' = "pending"
           /\ UNCHANGED <<closeP, handshakeTimer, errors, closes, Agent!sends, poll>>
  <2>1. AgentQueue(n)'
      BY <1>1, AgentQuiet DEF Agent!Start, Agent!sends, Agent!pump, Before
  <2>2. AgentLink'
      BY <1>1 DEF AgentLink, Agent!Start, Agent!sends, Agent!pump, Agent!States,
                  Agent!StateAgrees, Agent!WithinLimits, Agent!NoStall,
                  Agent!ResolvedIsFlushed
  <2> QED BY <2>1, <2>2 DEF AgentInv
<1>2. CASE /\ startP' = "rejected" /\ tstate' = "closed" /\ errors' = 1 /\ closes' = 1
           /\ UNCHANGED <<socket, closeP, handshakeTimer, Agent!sends, poll>>
  <2>1. AgentQueue(n)'
      BY <1>2, AgentQuiet DEF Agent!Start, Agent!sends, Agent!pump, Before
  <2>2. AgentLink'
      BY <1>2 DEF AgentLink, Agent!Start, Agent!sends, Agent!pump, Agent!States,
                  Agent!StateAgrees, Agent!WithinLimits, Agent!NoStall,
                  Agent!ResolvedIsFlushed
  <2> QED BY <2>1, <2>2 DEF AgentInv
<1> QED BY <1>1, <1>2 DEF Agent!Start

\* close()
LEMMA AgentCloses ==
    ASSUME AgentLink, NEW n, AgentQueue(n), Agent!Close
    PROVE  AgentInv'
<1>0. /\ tstate \notin {"closing", "closed"} /\ OnlySettles(outcome, outcome) /\ Sent(wire)
      /\ currentSend \in 0 .. MaxSends
      /\ UNCHANGED <<buffered, currentSend, baseline, drain, wire>>
    BY AgentSame DEF Agent!Close, Agent!Ended, Agent!pump
<1>1. CASE Agent!Abandon(outcome) /\ UNCHANGED errors
  <2>1. Agent!Finalize(outcome) /\ UNCHANGED <<socket, errors>>
      BY <1>1 DEF Agent!Abandon
  <2> QED BY <1>0, <2>1, AgentFinalizes DEF AgentLink
<1>2. CASE ~(Agent!Abandon(outcome) /\ UNCHANGED errors)
  <2>1. /\ tstate' = "closing" /\ closeP' = "pending" /\ handshakeTimer' = FALSE
        /\ poll' = FALSE /\ Agent!RejectQueued(outcome) /\ socket' = "CLOSING"
        /\ UNCHANGED <<startP, errors, closes>>
      BY <1>2 DEF Agent!Close, Agent!Closable, Agent!CloseSocket
  <2>2. AgentQueue(n)' /\ queue' = <<>>
      BY <1>0, <2>1, AgentLeaves DEF Before
  <2>3. closes = 0
      BY <1>0 DEF AgentLink, Agent!StateAgrees
  <2>4. Agent!StateAgrees' /\ Agent!WithinLimits' /\ Agent!NoStall' /\ Agent!ResolvedIsFlushed'
      BY <2>1, <2>2, <2>3 DEF Agent!StateAgrees, Agent!WithinLimits, Agent!NoStall,
                        Agent!ResolvedIsFlushed
  <2>5. AgentLink'
      BY <1>0, <2>1, <2>3, <2>4 DEF AgentLink, Agent!States
  <2> QED BY <2>2, <2>5 DEF AgentInv
<1> QED BY <1>1, <1>2

\* handleOpen
LEMMA AgentOpening ==
    ASSUME AgentLink, NEW n, AgentQueue(n), Agent!Opens
    PROVE  AgentInv'
<1>0. UNCHANGED <<currentSend, baseline, drain, wire>> /\ tstate = "connecting"
    BY DEF Agent!Opens, Agent!pump
<1>1. CASE /\ socket' = "OPEN" /\ tstate' = "handshaking"
           /\ handshakeTimer' = TRUE /\ buffered' = HelloBytes
           /\ UNCHANGED <<startP, closeP, errors, closes, Agent!sends, poll>>
  <2>1. AgentQueue(n)'
      BY <1>0, <1>1, AgentQuiet DEF Agent!sends, Before
  <2>2. AgentLink'
      BY <1>0, <1>1, SizesFit DEF AgentLink, Agent!sends, Agent!States,
                  Agent!StateAgrees, Agent!WithinLimits, Agent!NoStall,
                  Agent!ResolvedIsFlushed
  <2> QED BY <2>1, <2>2 DEF AgentInv
<1>2. CASE Agent!Fail(outcome) /\ UNCHANGED buffered
    BY <1>0, <1>2, AgentSame, AgentFails DEF AgentLink
<1> QED BY <1>1, <1>2 DEF Agent!Opens

\* The acknowledgement of the hello makes the transport ready.
LEMMA AgentAcknowledged ==
    ASSUME AgentLink, NEW n, AgentQueue(n), Agent!FrameAck
    PROVE  AgentInv'
<1>0. /\ UNCHANGED <<queue, queuedBytes, outcome, currentSend, baseline, wire, poll>>
      /\ UNCHANGED <<socket, closeP, errors, closes, buffered>>
      /\ tstate = "handshaking" /\ buffered = 0 /\ tstate' = "ready" /\ startP' = "resolved"
      /\ handshakeTimer' = FALSE /\ drain' = TRUE
    BY DEF Agent!FrameAck, Agent!sends
<1>1. currentSend = 0 /\ baseline = 0 /\ queue = <<>>
    BY <1>0 DEF AgentLink, Agent!StateAgrees
<1>2. AgentQueue(n)'
    BY <1>0, <1>1, AgentQuiet DEF Before
<1>3. queuedBytes = 0 /\ MaxQueuedBytes \in Nat
    BY <1>1, TotalOfEmpty, SizesFit DEF AgentQueue
<1>4. Agent!StateAgrees'
    BY <1>0, <1>1 DEF AgentLink, Agent!StateAgrees
<1>5. Agent!CurrentBytes' = 0
    BY <1>0, <1>1 DEF Agent!CurrentBytes
<1>6. Agent!WithinLimits' /\ Agent!NoStall' /\ Agent!ResolvedIsFlushed'
    BY <1>0, <1>1, <1>3, <1>5 DEF Agent!WithinLimits, Agent!NoStall, Agent!ResolvedIsFlushed
<1>7. AgentLink'
    BY <1>0, <1>4, <1>6 DEF AgentLink, Agent!States
<1> QED BY <1>2, <1>7 DEF AgentInv

\* bridge.close from the peer.
LEMMA AgentToldToClose ==
    ASSUME AgentLink, NEW n, AgentQueue(n), Agent!FrameClose
    PROVE  AgentInv'
<1>0. /\ tstate \in {"handshaking", "ready"}
      /\ UNCHANGED <<errors, buffered, currentSend, baseline, drain, wire>>
    BY DEF Agent!FrameClose, Agent!pump
<1>1. CASE Agent!Abandon(outcome)
  <2>1. Agent!Finalize(outcome) /\ socket' = socket
      BY <1>1 DEF Agent!Abandon
  <2> QED BY <1>0, <2>1, AgentSame, AgentFinalizes DEF AgentLink
<1>2. CASE ~Agent!Abandon(outcome)
  <2>1. /\ tstate' = "closing" /\ Agent!RejectQueued(outcome) /\ socket' = "CLOSING"
        /\ UNCHANGED <<startP, closeP, handshakeTimer, closes, poll>>
      BY <1>2 DEF Agent!FrameClose, Agent!CloseSocket
  <2>2. AgentQueue(n)' /\ queue' = <<>>
      BY <1>0, <2>1, AgentSame, AgentLeaves DEF Before
  <2>3. Agent!StateAgrees' /\ Agent!WithinLimits' /\ Agent!NoStall' /\ Agent!ResolvedIsFlushed'
      BY <1>0, <2>1, <2>2 DEF AgentLink, Agent!StateAgrees, Agent!WithinLimits,
                              Agent!NoStall, Agent!ResolvedIsFlushed
  <2>4. AgentLink'
      BY <1>0, <2>1, <2>3 DEF AgentLink, Agent!States
  <2> QED BY <2>2, <2>4 DEF AgentInv
<1> QED BY <1>1, <1>2

\* A frame or an event that makes the transport fail.
LEMMA AgentFailsAnyhow ==
    ASSUME AgentLink, NEW n, AgentQueue(n), Agent!Fails
    PROVE  AgentInv'
<1>1. /\ tstate \notin {"closing", "closed"} /\ Agent!Fail(outcome)
      /\ UNCHANGED <<buffered, currentSend, baseline, drain, wire>>
    BY DEF Agent!Fails, Agent!Ended, Agent!pump
<1> QED BY <1>1, AgentSame, AgentFails DEF AgentLink

\* The timer of the handshake.
LEMMA AgentTimesOut ==
    ASSUME AgentLink, NEW n, AgentQueue(n), Agent!HandshakeTimeout
    PROVE  AgentInv'
<1>0. UNCHANGED <<buffered, currentSend, baseline, drain, wire>>
    BY DEF Agent!HandshakeTimeout, Agent!pump
<1>1. CASE Agent!Ended
  <2>1. /\ handshakeTimer' = FALSE
        /\ UNCHANGED <<tstate, socket, startP, closeP, errors, closes, poll>>
        /\ UNCHANGED <<queue, queuedBytes, outcome>>
      BY <1>1 DEF Agent!HandshakeTimeout, Agent!sends
  <2>2. AgentQueue(n)'
      BY <1>0, <2>1, AgentQuiet
  <2>3. Agent!StateAgrees' /\ Agent!WithinLimits' /\ Agent!NoStall' /\ Agent!ResolvedIsFlushed'
      BY <1>0, <1>1, <2>1 DEF AgentLink, Agent!Ended, Agent!StateAgrees, Agent!WithinLimits,
                              Agent!NoStall, Agent!ResolvedIsFlushed
  <2>4. AgentLink'
      BY <1>0, <2>1, <2>3 DEF AgentLink
  <2> QED BY <2>2, <2>4 DEF AgentInv
<1>2. CASE ~Agent!Ended
  <2>1. Agent!Fail(outcome)
      BY <1>2 DEF Agent!HandshakeTimeout
  <2> QED BY <1>0, <1>2, <2>1, AgentSame, AgentFails DEF AgentLink, Agent!Ended
<1> QED BY <1>1, <1>2

\* The socket closes before its event is delivered, or opens for nobody.
LEMMA AgentLosesSocket ==
    ASSUME AgentLink, NEW n, AgentQueue(n), Agent!SocketDies \/ Agent!OpensUnheard
    PROVE  AgentInv'
<1>0. /\ UNCHANGED <<tstate, startP, closeP, handshakeTimer, errors, closes, buffered, poll>>
      /\ UNCHANGED <<queue, queuedBytes, outcome, currentSend, baseline, drain, wire>>
      /\ socket' \in {"CLOSING", "CLOSED"} \/ (socket' = "OPEN" /\ tstate = "closed")
    BY DEF Agent!SocketDies, Agent!OpensUnheard, Agent!sends, Agent!pump
<1>1. AgentQueue(n)'
    BY <1>0, AgentQuiet
<1>2. Agent!StateAgrees' /\ Agent!NoStall'
    BY <1>0 DEF AgentLink, Agent!StateAgrees, Agent!NoStall
<1>3. Agent!WithinLimits' /\ Agent!ResolvedIsFlushed'
    BY <1>0 DEF AgentLink, Agent!WithinLimits, Agent!ResolvedIsFlushed, Agent!CurrentBytes
<1>4. AgentLink'
    BY <1>0, <1>2, <1>3 DEF AgentLink
<1> QED BY <1>1, <1>4 DEF AgentInv

\* handleSocketClose
LEMMA AgentSeesClose ==
    ASSUME AgentLink, NEW n, AgentQueue(n), Agent!CloseEvent
    PROVE  AgentInv'
<1>1. /\ tstate # "closed" /\ Agent!Finalize(outcome)
      /\ UNCHANGED <<socket, buffered, currentSend, baseline, drain, wire>>
      /\ errors' = IF tstate = "closing" THEN errors ELSE 1
    BY DEF Agent!CloseEvent, Agent!pump
<1>2. errors' \in 0 .. 1
    BY <1>1 DEF AgentLink
<1> QED BY <1>1, <1>2, AgentSame, AgentFinalizes DEF AgentLink

\* The sizes of messages are natural numbers.
LEMMA BytesAreNumbers == ASSUME NEW b PROVE \A m \in Messages(b) : m.bytes \in Nat
<1>1. Sizes \subseteq Nat
    BY SizesFit
<1> QED BY <1>1 DEF Messages

\* The message in the socket's buffer is the first of the queue.
LEMMA CurrentFacts ==
    ASSUME AgentLink, NEW n, AgentQueue(n), tstate = "ready"
    PROVE  /\ Agent!CurrentBytes \in Nat /\ Agent!CurrentBytes <= queuedBytes
           /\ queuedBytes \in Nat /\ buffered \in Nat /\ buffered <= Agent!CurrentBytes
           /\ currentSend = 0 => Agent!CurrentBytes = 0
           /\ currentSend # 0 => queue # <<>> /\ Agent!CurrentBytes = queue[1].bytes
           /\ queuedBytes <= MaxQueuedBytes /\ MaxQueuedBytes \in Nat
<1>1. queue \in Seq(Messages(MaxSends)) /\ \A m \in Messages(MaxSends) : m.bytes \in Nat
    BY SizesFit, WaitingFacts, BytesAreNumbers DEF AgentQueue
<1>2. buffered \in Nat /\ buffered <= Agent!CurrentBytes
    BY DEF AgentLink, Agent!ResolvedIsFlushed
<1>3. /\ queuedBytes = TotalBytes(queue) /\ queuedBytes <= MaxQueuedBytes
      /\ currentSend # 0 => queue # <<>>
    BY DEF AgentQueue
<1>4. /\ queue # <<>> => /\ queuedBytes \in Nat /\ queue[1].bytes \in Nat
                         /\ queue[1].bytes <= queuedBytes
      /\ queue = <<>> => queuedBytes = 0
  <2>1. CASE queue = <<>>
      BY <2>1, <1>3, TotalOfEmpty
  <2>2. CASE queue # <<>>
    <3>1. /\ TotalBytes(queue) = queue[1].bytes + TotalBytes(Tail(queue))
          /\ queue[1].bytes \in Nat /\ TotalBytes(Tail(queue)) \in Nat
        BY <1>1, <2>2, TotalOfTail
    <3> QED BY <1>3, <2>2, <3>1
  <2> QED BY <2>1, <2>2
<1>5. /\ currentSend = 0 => Agent!CurrentBytes = 0
      /\ currentSend # 0 => Agent!CurrentBytes = queue[1].bytes
    BY <1>3 DEF Agent!CurrentBytes
<1> QED BY <1>2, <1>3, <1>4, <1>5, SizesFit

\* The socket sends some of what it has buffered.
LEMMA AgentFlushes ==
    ASSUME AgentLink, NEW n, AgentQueue(n), Agent!Flush
    PROVE  AgentInv'
<1>0. /\ UNCHANGED <<tstate, socket, startP, closeP, handshakeTimer, errors, closes, poll>>
      /\ UNCHANGED <<queue, queuedBytes, outcome, currentSend, baseline, drain, wire>>
      /\ buffered' \in 0 .. buffered - 1
    BY DEF Agent!Flush, Agent!link, Agent!sends, Agent!pump
<1>1. AgentQueue(n)'
    BY <1>0, AgentQuiet
<1>2. Agent!StateAgrees' /\ Agent!NoStall'
    BY <1>0 DEF AgentLink, Agent!StateAgrees, Agent!NoStall
<1>3. buffered' \in Nat /\ buffered' <= buffered
    BY <1>0 DEF AgentLink
<1>4. Agent!CurrentBytes' = Agent!CurrentBytes
    BY <1>0 DEF Agent!CurrentBytes
<1>5. Agent!WithinLimits' /\ Agent!ResolvedIsFlushed'
  <2>1. CASE tstate = "ready"
    <3>1. /\ Agent!CurrentBytes \in Nat /\ queuedBytes \in Nat /\ buffered \in Nat
          /\ buffered <= Agent!CurrentBytes /\ MaxQueuedBytes \in Nat
        BY <2>1, CurrentFacts
    <3>2. queuedBytes - Agent!CurrentBytes + buffered <= MaxQueuedBytes
        BY <2>1 DEF AgentLink, Agent!WithinLimits
    <3>3. queuedBytes' = queuedBytes /\ buffered' \in Nat /\ buffered' <= buffered
        BY <1>0, <1>3
    <3>4. queuedBytes' - Agent!CurrentBytes' + buffered' <= MaxQueuedBytes
      <4>1. queuedBytes - Agent!CurrentBytes + buffered' <= MaxQueuedBytes
        <5>1. \A c, m, u, f, g \in Nat : u - c + f <= m /\ g <= f => u - c + g <= m
            OBVIOUS
        <5> QED BY <5>1, <3>1, <3>2, <3>3
      <4> QED BY <4>1, <3>3, <1>4
    <3>5. buffered' <= Agent!CurrentBytes'
      <4>1. buffered' <= Agent!CurrentBytes
          BY <3>1, <3>3
      <4> QED BY <4>1, <1>4
    <3> QED BY <3>4, <3>5 DEF Agent!WithinLimits, Agent!ResolvedIsFlushed
  <2>2. CASE tstate # "ready"
      BY <2>2, <1>0 DEF Agent!WithinLimits, Agent!ResolvedIsFlushed
  <2> QED BY <2>1, <2>2
<1>6. AgentLink'
    BY <1>0, <1>2, <1>3, <1>5 DEF AgentLink
<1> QED BY <1>1, <1>6 DEF AgentInv

\* send(): the bound on the bytes that wait is checked before the message is queued.
LEMMA AgentSends ==
    ASSUME AgentLink, NEW n, AgentQueue(n), Agent!Send
    PROVE  AgentInv'
<1>0. /\ UNCHANGED <<tstate, socket, startP, closeP, handshakeTimer, errors, closes, poll>>
      /\ UNCHANGED <<buffered, currentSend, baseline, wire>> /\ drain' = TRUE
      /\ tstate = "ready" /\ Len(queue) < MaxQueuedMessages
    BY DEF Agent!Send, Agent!link
<1>1. PICK b \in Sizes, i \in DOMAIN outcome :
        /\ queuedBytes - Agent!CurrentBytes + Agent!Bigger(buffered, Agent!CurrentBytes) + b
              <= MaxQueuedBytes
        /\ outcome[i] = "none" /\ \A j \in 1 .. (i - 1) : outcome[j] # "none"
        /\ queue' = Append(queue, [id |-> i, bytes |-> b])
        /\ queuedBytes' = queuedBytes + b
        /\ outcome' = [outcome EXCEPT ![i] = "pending"]
    BY DEF Agent!Send
<1> DEFINE m == [id |-> i, bytes |-> b]
<1>2. /\ Agent!CurrentBytes \in Nat /\ Agent!CurrentBytes <= queuedBytes
      /\ queuedBytes \in Nat /\ buffered \in Nat /\ buffered <= Agent!CurrentBytes
      /\ MaxQueuedBytes \in Nat /\ (currentSend # 0 => queue # <<>>)
    BY <1>0, CurrentFacts
<1>3. b \in Nat
    BY SizesFit
<1>4. queuedBytes' <= MaxQueuedBytes /\ queuedBytes' - Agent!CurrentBytes + buffered <= MaxQueuedBytes
    BY <1>1, <1>2, <1>3 DEF Agent!Bigger
<1>5. /\ queue \in Seq(Messages(MaxSends)) /\ n \in Nat /\ Len(queue) \in Nat /\ DOMAIN outcome = 1 .. MaxSends
      /\ MaxSends \in Nat /\ MaxQueuedMessages \in Nat /\ Waiting(queue, outcome, n, MaxSends)
    BY SizesFit, WaitingFacts DEF AgentQueue
<1>6. i = n + 1 /\ Waiting(queue', outcome', n + 1, MaxSends)
  <2>1. i \in 1 .. MaxSends
      BY <1>5
  <2> HIDE DEF m
  <2>2. \A j \in 1 .. i - 1 : outcome[j] # "none"
      BY <1>1
  <2>3. outcome[i] = "none" /\ b \in Sizes
      BY <1>1
  <2>4. /\ i = n + 1
        /\ Waiting(Append(queue, [id |-> i, bytes |-> b]),
                   [outcome EXCEPT ![i] = "pending"], n + 1, MaxSends)
      BY <1>5, <2>1, <2>2, <2>3, WaitingAppend
  <2>5. /\ queue' = Append(queue, [id |-> i, bytes |-> b])
        /\ outcome' = [outcome EXCEPT ![i] = "pending"]
      BY <1>1
  <2> QED BY <2>4, <2>5
<1>7. m \in Messages(MaxSends)
    BY <1>5 DEF Messages
<1> HIDE DEF m
<1>8. /\ Len(queue') = Len(queue) + 1
      /\ queue # <<>> => queue'[1] = queue[1]
      /\ queue' # <<>>
  <2>1. queue' = Append(queue, m)
      BY <1>1 DEF m
  <2>2. /\ Len(queue') = Len(queue) + 1 /\ \A j \in 1 .. Len(queue) : queue'[j] = queue[j]
        /\ queue' # <<>>
      BY <2>1, <1>5, <1>7, AppendProperties
  <2>3. queue # <<>> => 1 \in 1 .. Len(queue)
      BY <1>5, EmptySeq
  <2> QED BY <2>2, <2>3
<1>9. queuedBytes' = TotalBytes(queue')
  <2>1. queue' = Append(queue, m) /\ m.bytes = b
      BY <1>1 DEF m
  <2>2. TotalBytes(Append(queue, m)) = TotalBytes(queue) + m.bytes
      BY <1>5, <1>7, BytesAreNumbers, TotalOfAppend
  <2> QED BY <1>1, <2>1, <2>2 DEF AgentQueue
<1>10. AgentQueue(n + 1)'
  <2>1. Len(queue') <= MaxQueuedMessages
      BY <1>0, <1>5, <1>8
  <2>2. Len(wire') = n + 1 - Len(queue') + (IF currentSend' = 0 THEN 0 ELSE 1)
    <3>1. Len(wire) = n - Len(queue) + (IF currentSend = 0 THEN 0 ELSE 1)
        BY <1>0 DEF AgentQueue
    <3> QED BY <3>1, <1>0, <1>5, <1>8
  <2>3. currentSend' # 0 => queue' # <<>> /\ queue'[1].id = currentSend'
      BY <1>0, <1>2, <1>8 DEF AgentQueue
  <2>4. tstate' \notin Before /\ Sent(wire') /\ currentSend' \in 0 .. MaxSends
      BY <1>0 DEF AgentQueue, Before
  <2>5. queuedBytes' <= MaxQueuedBytes
      BY <1>4
  <2>6. Waiting(queue', outcome', n + 1, MaxSends)
      BY <1>6
  <2>7. PICK k : k = n + 1
      OBVIOUS
  <2>8. Waiting(queue', outcome', k, MaxSends)
      BY <2>6, <2>7
  <2>9. Len(wire') = k - Len(queue') + (IF currentSend' = 0 THEN 0 ELSE 1)
      BY <2>2, <2>7, <1>5, <1>8
  <2>10. AgentQueue(k)'
      BY <1>9, <2>1, <2>3, <2>4, <2>5, <2>8, <2>9 DEF AgentQueue
  <2> QED BY <2>7, <2>10
<1>11. Agent!CurrentBytes' = Agent!CurrentBytes
    BY <1>0, <1>2, <1>8 DEF Agent!CurrentBytes
<1>12. Agent!StateAgrees' /\ Agent!NoStall'
    BY <1>0 DEF AgentLink, Agent!StateAgrees, Agent!NoStall
<1>13. Agent!WithinLimits' /\ Agent!ResolvedIsFlushed'
    BY <1>0, <1>2, <1>4, <1>11 DEF Agent!WithinLimits, Agent!ResolvedIsFlushed
<1>14. AgentLink'
    BY <1>0, <1>12, <1>13 DEF AgentLink
<1> QED BY <1>10, <1>14 DEF AgentInv

\* Nothing changes but the two flags of the pump, which then has nothing to do.
LEMMA AgentRests ==
    ASSUME AgentLink, NEW n, AgentQueue(n),
           UNCHANGED <<tstate, socket, startP, closeP, handshakeTimer, errors, closes, buffered>>,
           UNCHANGED <<queue, queuedBytes, outcome, currentSend, baseline, wire>>,
           poll' \in BOOLEAN, drain' \in BOOLEAN,
           ~poll \/ tstate # "ready" => ~poll' \/ tstate # "ready",
           tstate = "ready" /\ socket = "OPEN" =>
              /\ currentSend # 0 => poll'
              /\ queue # <<>> => drain' \/ (poll' /\ currentSend # 0),
           tstate \in Before \cup {"closed"} => ~poll'
    PROVE  AgentInv'
<1>1. AgentQueue(n)'
    BY AgentQuiet
<1>2. Agent!StateAgrees' /\ Agent!NoStall'
    BY DEF AgentLink, Agent!StateAgrees, Agent!NoStall, Before
<1>3. Agent!WithinLimits' /\ Agent!ResolvedIsFlushed'
    BY DEF AgentLink, Agent!WithinLimits, Agent!ResolvedIsFlushed, Agent!CurrentBytes
<1>4. AgentLink'
    BY <1>2, <1>3 DEF AgentLink
<1> QED BY <1>1, <1>4 DEF AgentInv

\* The timer of the pump: the message in the socket's buffer has left it.
LEMMA AgentPolls ==
    ASSUME AgentLink, NEW n, AgentQueue(n), Agent!Poll
    PROVE  AgentInv'
<1>1. CASE tstate # "ready" \/ currentSend = 0 \/ socket # "OPEN"
  <2>1. /\ poll' = FALSE
        /\ UNCHANGED <<tstate, socket, startP, closeP, handshakeTimer, errors, closes, buffered>>
        /\ UNCHANGED <<queue, queuedBytes, outcome, currentSend, baseline, wire, drain>>
      BY <1>1 DEF Agent!Poll, Agent!link, Agent!sends, Agent!pump
  <2>2. tstate = "ready" /\ socket = "OPEN" => currentSend = 0 /\ (queue # <<>> => drain)
      BY <1>1 DEF AgentLink, Agent!NoStall
  <2>3. poll' \in BOOLEAN /\ drain' \in BOOLEAN
      BY <2>1 DEF AgentLink
  <2> QED BY <2>1, <2>2, <2>3, AgentRests
<1>2. CASE ~(tstate # "ready" \/ currentSend = 0 \/ socket # "OPEN")
  <2>1. /\ buffered <= baseline /\ poll' = FALSE
        /\ currentSend' = 0 /\ baseline' = 0 /\ drain' = TRUE
        /\ outcome' = Settle(outcome, <<queue[1]>>, "resolved")
        /\ queue' = Tail(queue) /\ queuedBytes' = queuedBytes - queue[1].bytes
        /\ UNCHANGED <<tstate, socket, startP, closeP, handshakeTimer, errors, closes>>
        /\ UNCHANGED <<wire, buffered>>
      BY <1>2, AgentOperators DEF Agent!Poll, Agent!CurrentDone, Agent!link
  <2>2. tstate = "ready" /\ currentSend # 0 /\ queue # <<>> /\ baseline = 0 /\ buffered = 0
      BY <1>2, <2>1 DEF AgentLink, AgentQueue, Agent!StateAgrees
  <2>3. /\ queue \in Seq(Messages(MaxSends)) /\ n \in Nat /\ Len(queue) \in Nat
        /\ MaxSends \in Nat /\ MaxQueuedBytes \in Nat /\ Waiting(queue, outcome, n, MaxSends)
        /\ Len(queue) <= MaxQueuedMessages /\ MaxQueuedMessages \in Nat
      BY SizesFit, WaitingFacts DEF AgentQueue
  <2>4. Waiting(queue', outcome', n, MaxSends) /\ Len(queue') = Len(queue) - 1
      BY <2>1, <2>2, <2>3, WaitingTail
  <2>5. /\ queuedBytes' = TotalBytes(queue') /\ queuedBytes' <= MaxQueuedBytes
        /\ queuedBytes' \in Nat
    <3>1. /\ TotalBytes(queue) = queue[1].bytes + TotalBytes(Tail(queue))
          /\ queue[1].bytes \in Nat /\ TotalBytes(Tail(queue)) \in Nat
        BY <2>2, <2>3, BytesAreNumbers, TotalOfTail
    <3>2. queuedBytes = TotalBytes(queue) /\ queuedBytes <= MaxQueuedBytes
        BY DEF AgentQueue
    <3> QED BY <2>1, <2>3, <3>1, <3>2
  <2>6. AgentQueue(n)'
    <3>1. Len(wire) = n - Len(queue) + 1 /\ Sent(wire)
        BY <2>2 DEF AgentQueue
    <3>2. Len(wire') = n - Len(queue') + 0 /\ Sent(wire')
        BY <3>1, <2>1, <2>3, <2>4
    <3>3. tstate' \notin Before /\ currentSend' \in 0 .. MaxSends /\ Len(queue') <= MaxQueuedMessages
        BY <2>1, <2>2, <2>3, <2>4 DEF Before
    <3> QED BY <2>1, <2>4, <2>5, <3>2, <3>3 DEF AgentQueue
  <2>7. Agent!StateAgrees' /\ Agent!NoStall'
      BY <2>1, <2>2 DEF AgentLink, Agent!StateAgrees, Agent!NoStall
  <2>8. Agent!CurrentBytes' = 0
      BY <2>1 DEF Agent!CurrentBytes
  <2>9. Agent!WithinLimits' /\ Agent!ResolvedIsFlushed'
      BY <2>1, <2>2, <2>3, <2>5, <2>8 DEF Agent!WithinLimits, Agent!ResolvedIsFlushed
  <2>10. AgentLink'
      BY <2>1, <2>2, <2>7, <2>9 DEF AgentLink
  <2> QED BY <2>6, <2>10 DEF AgentInv
<1> QED BY <1>1, <1>2

\* The first k messages of the queue have gone through the socket.
LEMMA AgentPasses ==
    ASSUME AgentLink, NEW n, AgentQueue(n), tstate = "ready", currentSend = 0,
           NEW k \in 0 .. Len(queue), NEW ids, ids = [i \in 1 .. k |-> queue[i].id],
           NEW passed, passed = SubSeq(queue, 1, k),
           NEW rest, rest = SubSeq(queue, k + 1, Len(queue))
    PROVE  /\ Waiting(rest, Settle(outcome, passed, "resolved"), n, MaxSends)
           /\ OnlySettles(outcome, Settle(outcome, passed, "resolved"))
           /\ Len(rest) \in Nat /\ Len(rest) <= MaxQueuedMessages
           /\ TotalBytes(rest) = queuedBytes - TotalBytes(passed)
           /\ TotalBytes(rest) \in Nat /\ TotalBytes(rest) <= MaxQueuedBytes
           /\ Sent(wire \o ids) /\ Len(wire \o ids) = n - Len(rest)
           /\ n \in Nat /\ n <= MaxSends /\ MaxSends \in Nat /\ MaxQueuedBytes \in Nat
<1>1. /\ queue \in Seq(Messages(MaxSends)) /\ n \in Nat /\ n <= MaxSends /\ Len(queue) \in Nat
      /\ \A j \in 1 .. Len(queue) : queue[j].id = n - Len(queue) + j
      /\ MaxSends \in Nat /\ MaxQueuedBytes \in Nat /\ Waiting(queue, outcome, n, MaxSends)
      /\ Len(queue) <= MaxQueuedMessages /\ MaxQueuedMessages \in Nat
    BY SizesFit, WaitingFacts DEF AgentQueue
<1>2. /\ Waiting(rest, Settle(outcome, passed, "resolved"), n, MaxSends)
      /\ Len(rest) = Len(queue) - k
      /\ OnlySettles(outcome, Settle(outcome, passed, "resolved"))
    BY <1>1, WaitingTake
<1>3. Len(rest) \in Nat /\ Len(rest) <= MaxQueuedMessages
    BY <1>1, <1>2
<1>4. /\ TotalBytes(queue) = TotalBytes(passed) + TotalBytes(rest)
      /\ TotalBytes(passed) \in Nat /\ TotalBytes(rest) \in Nat
    BY <1>1, BytesAreNumbers, TotalOfParts
<1>5. queuedBytes = TotalBytes(queue) /\ queuedBytes <= MaxQueuedBytes
    BY DEF AgentQueue
<1>6. TotalBytes(rest) = queuedBytes - TotalBytes(passed) /\ TotalBytes(rest) <= MaxQueuedBytes
    BY <1>1, <1>4, <1>5
<1>7. Sent(wire) /\ Len(wire) = n - Len(queue) + 0
    BY DEF AgentQueue
<1>8. ids = [i \in 1 .. k |-> Len(wire) + i]
  <2>1. \A i \in 1 .. k : queue[i].id = Len(wire) + i
    <3>1. \A i \in 1 .. k : i \in 1 .. Len(queue)
        BY <1>1
    <3>2. Len(wire) = n - Len(queue)
        BY <1>1, <1>7
    <3> QED BY <1>1, <3>1, <3>2
  <2> QED BY <2>1
<1>9. Sent(wire \o ids) /\ Len(wire \o ids) = Len(wire) + k
  <2>1. k \in Nat
      BY <1>1
  <2> QED BY <1>7, <1>8, <2>1, SentMore
<1>10. Len(wire \o ids) = n - Len(rest)
  <2>1. Len(wire \o ids) = n - Len(queue) + 0 + k
      BY <1>7, <1>9
  <2>2. k \in Nat /\ n - Len(queue) + 0 + k = n - (Len(queue) - k)
      BY <1>1
  <2> QED BY <1>2, <2>1, <2>2
<1> QED BY <1>1, <1>2, <1>3, <1>4, <1>6, <1>9, <1>10

\* drainQueue on an open socket: messages go through, until one of them stays.
LEMMA AgentPumps ==
    ASSUME AgentLink, NEW n, AgentQueue(n), tstate = "ready", currentSend = 0, queue # <<>>,
           NEW k \in 0 .. Len(queue), Agent!PumpMessages(k), drain' = FALSE
    PROVE  AgentInv'
<1> DEFINE passed == SubSeq(queue, 1, k)
           rest == SubSeq(queue, k + 1, Len(queue))
           ids == [i \in 1 .. k |-> queue[i].id]
           resolved == Settle(outcome, passed, "resolved")
           Passed == /\ queue' = rest /\ queuedBytes' = queuedBytes - TotalBytes(passed)
                     /\ outcome' = resolved
<1>1. /\ Waiting(rest, resolved, n, MaxSends) /\ OnlySettles(outcome, resolved)
      /\ Len(rest) \in Nat /\ Len(rest) <= MaxQueuedMessages
      /\ TotalBytes(rest) = queuedBytes - TotalBytes(passed)
      /\ TotalBytes(rest) \in Nat /\ TotalBytes(rest) <= MaxQueuedBytes
      /\ Sent(wire \o ids) /\ Len(wire \o ids) = n - Len(rest)
      /\ n \in Nat /\ n <= MaxSends /\ MaxSends \in Nat /\ MaxQueuedBytes \in Nat
    BY AgentPasses
<1>2. buffered = 0 /\ baseline = 0 /\ Agent!CurrentBytes = 0
  <2>1. Agent!CurrentBytes = 0 /\ buffered \in Nat /\ buffered <= Agent!CurrentBytes
      BY CurrentFacts
  <2>2. baseline = 0
      BY DEF AgentLink, Agent!StateAgrees
  <2> QED BY <2>1, <2>2
<1>3. rest # <<>> => /\ rest[1].id = n - Len(rest) + 1 /\ rest[1].bytes \in Nat
                     /\ rest[1].bytes > 0 /\ rest[1].bytes <= MaxQueuedBytes
                     /\ rest[1].bytes <= TotalBytes(rest) /\ Len(rest) >= 1 /\ Len(rest) <= n
  <2> HIDE DEF rest, resolved, ids
  <2> SUFFICES ASSUME rest # <<>>
               PROVE  /\ rest[1].id = n - Len(rest) + 1 /\ rest[1].bytes \in Nat
                      /\ rest[1].bytes > 0 /\ rest[1].bytes <= MaxQueuedBytes
                      /\ rest[1].bytes <= TotalBytes(rest) /\ Len(rest) >= 1 /\ Len(rest) <= n
      OBVIOUS
  <2>1. /\ rest \in Seq(Messages(MaxSends)) /\ Len(rest) <= n
        /\ \A j \in 1 .. Len(rest) : /\ rest[j].id = n - Len(rest) + j
                                     /\ rest[j].bytes \in Nat
                                     /\ rest[j].bytes <= MaxQueuedBytes
                                     /\ rest[j].bytes > 0
      BY <1>1, WaitingFacts
  <2>2. Len(rest) >= 1 /\ 1 \in 1 .. Len(rest)
    <3>1. Len(rest) # 0
        BY <2>1, EmptySeq
    <3> QED BY <3>1, <1>1
  <2>3. /\ TotalBytes(rest) = rest[1].bytes + TotalBytes(Tail(rest))
        /\ rest[1].bytes \in Nat /\ TotalBytes(Tail(rest)) \in Nat
      BY <2>1, BytesAreNumbers, TotalOfTail
  <2>4. /\ rest[1].id = n - Len(rest) + 1 /\ rest[1].bytes > 0
        /\ rest[1].bytes <= MaxQueuedBytes
      BY <2>1, <2>2
  <2>5. rest[1].bytes <= TotalBytes(rest)
      BY <2>3
  <2> QED BY <2>1, <2>2, <2>3, <2>4, <2>5
<1>4. \/ /\ rest = <<>> /\ Passed /\ wire' = wire \o ids
         /\ UNCHANGED <<Agent!link, buffered, currentSend, baseline, poll>>
      \/ rest # <<>> /\ ~Agent!Fits(rest[1])
      \/ /\ rest # <<>> /\ Passed /\ wire' = Append(wire \o ids, rest[1].id)
         /\ buffered' \in (buffered + 1) .. (buffered + rest[1].bytes)
         /\ currentSend' = rest[1].id /\ baseline' = buffered /\ poll' = TRUE
         /\ UNCHANGED Agent!link
      \/ /\ wire' = wire \o ids /\ Agent!Fail(resolved)
         /\ UNCHANGED <<buffered, currentSend, baseline>>
    BY AgentOperators DEF Agent!PumpMessages
<1>5. AgentLink /\ AgentQueue(n) /\ tstate = "ready" /\ currentSend = 0 /\ drain' = FALSE
    OBVIOUS
<1> HIDE DEF rest, ids, resolved, passed
<1>6. CASE rest # <<>> /\ ~Agent!Fits(rest[1])
    BY <1>1, <1>2, <1>3, <1>6 DEF Agent!Fits
<1>7. CASE /\ wire' = wire \o ids /\ Agent!Fail(resolved)
           /\ UNCHANGED <<buffered, currentSend, baseline>>
  <2>1. /\ Sent(wire') /\ currentSend' \in 0 .. MaxSends /\ buffered' \in Nat
        /\ baseline' \in Nat /\ drain' \in BOOLEAN /\ tstate \notin {"closing", "closed"}
    <3>1. buffered' \in Nat /\ baseline' \in Nat
        BY <1>2, <1>7
    <3>2. Sent(wire')
        BY <1>1, <1>7
    <3>3. currentSend' \in 0 .. MaxSends
        BY <1>1, <1>5, <1>7
    <3> QED BY <1>5, <3>1, <3>2, <3>3
  <2> QED BY <1>1, <1>5, <1>7, <2>1, AgentFails
<1>8. CASE /\ rest = <<>> /\ Passed /\ wire' = wire \o ids
           /\ UNCHANGED <<Agent!link, buffered, currentSend, baseline, poll>>
  <2>1. /\ UNCHANGED <<tstate, socket, startP, closeP, handshakeTimer, errors, closes>>
        /\ UNCHANGED <<buffered, currentSend, baseline, poll>>
        /\ queue' = rest /\ queue' = <<>> /\ outcome' = resolved /\ wire' = wire \o ids
        /\ queuedBytes' = TotalBytes(rest)
      BY <1>1, <1>8 DEF Agent!link
  <2>2. AgentQueue(n)'
    <3>1. /\ Waiting(queue', outcome', n, MaxSends) /\ Sent(wire')
          /\ Len(queue') <= MaxQueuedMessages /\ queuedBytes' = TotalBytes(queue')
          /\ queuedBytes' <= MaxQueuedBytes
        BY <1>1, <2>1
    <3>2. Len(wire') = n - Len(queue') + 0
        BY <1>1, <2>1
    <3>3. tstate' \notin Before /\ currentSend' \in 0 .. MaxSends /\ currentSend' = 0
        BY <1>1, <1>5, <2>1 DEF Before
    <3> QED BY <3>1, <3>2, <3>3 DEF AgentQueue
  <2>3. Agent!StateAgrees' /\ Agent!NoStall'
      BY <1>5, <2>1 DEF AgentLink, Agent!StateAgrees, Agent!NoStall
  <2>4. Agent!CurrentBytes' = 0
      BY <2>1 DEF Agent!CurrentBytes
  <2>5. Agent!WithinLimits' /\ Agent!ResolvedIsFlushed'
    <3>1. buffered' = 0 /\ queuedBytes' \in Nat /\ queuedBytes' <= MaxQueuedBytes
        BY <1>1, <1>2, <2>1
    <3>2. queuedBytes' - 0 + 0 <= MaxQueuedBytes
        BY <3>1
    <3>3. queuedBytes' - Agent!CurrentBytes' + buffered' <= MaxQueuedBytes
        BY <2>4, <3>1, <3>2
    <3>4. buffered' <= Agent!CurrentBytes'
        BY <2>4, <3>1
    <3> QED BY <3>3, <3>4 DEF Agent!WithinLimits, Agent!ResolvedIsFlushed
  <2>6. AgentLink'
      BY <1>5, <2>1, <2>3, <2>5 DEF AgentLink
  <2> QED BY <2>2, <2>6 DEF AgentInv
<1>9. CASE /\ rest # <<>> /\ Passed /\ wire' = Append(wire \o ids, rest[1].id)
           /\ buffered' \in (buffered + 1) .. (buffered + rest[1].bytes)
           /\ currentSend' = rest[1].id /\ baseline' = buffered /\ poll' = TRUE
           /\ UNCHANGED Agent!link
  <2>1. /\ UNCHANGED <<tstate, socket, startP, closeP, handshakeTimer, errors, closes>>
        /\ queue' = rest /\ queue' # <<>> /\ outcome' = resolved
        /\ queuedBytes' = TotalBytes(rest) /\ baseline' = 0 /\ poll' = TRUE
        /\ currentSend' = rest[1].id /\ wire' = Append(wire \o ids, rest[1].id)
      BY <1>1, <1>2, <1>9 DEF Agent!link
  <2>2. buffered' \in Nat /\ buffered' <= rest[1].bytes
      BY <1>2, <1>3, <1>9
  <2>3. currentSend' \in 1 .. MaxSends
      BY <1>1, <1>3, <1>9
  <2>4. Sent(wire') /\ Len(wire') = n - Len(rest) + 1
    <3> DEFINE z == wire \o ids
    <3>1. rest[1].id = Len(z) + 1
        BY <1>1, <1>3, <1>9
    <3>2. Sent(z) /\ Len(z) = n - Len(rest)
        BY <1>1
    <3>3. wire' = Append(z, Len(z) + 1)
        BY <2>1, <3>1
    <3> HIDE DEF z
    <3>4. Sent(wire') /\ Len(wire') = Len(z) + 1
        BY <3>2, <3>3, SentNext
    <3> QED BY <3>2, <3>4
  <2>5. AgentQueue(n)'
    <3>1. /\ Waiting(queue', outcome', n, MaxSends) /\ Sent(wire')
          /\ Len(queue') <= MaxQueuedMessages /\ queuedBytes' = TotalBytes(queue')
          /\ queuedBytes' <= MaxQueuedBytes
        BY <1>1, <2>1, <2>4
    <3>2. Len(wire') = n - Len(queue') + 1
        BY <2>1, <2>4
    <3>3. /\ tstate' \notin Before /\ currentSend' \in 0 .. MaxSends /\ currentSend' # 0
          /\ queue' # <<>> /\ queue'[1].id = currentSend'
        BY <1>5, <2>1, <2>3 DEF Before
    <3> QED BY <3>1, <3>2, <3>3 DEF AgentQueue
  <2>6. Agent!StateAgrees' /\ Agent!NoStall'
    <3>1. currentSend' # 0
        BY <2>3
    <3> QED BY <1>5, <2>1, <3>1 DEF AgentLink, Agent!StateAgrees, Agent!NoStall
  <2>7. Agent!CurrentBytes' = rest[1].bytes
      BY <2>1, <2>3 DEF Agent!CurrentBytes
  <2>8. Agent!WithinLimits' /\ Agent!ResolvedIsFlushed'
    <3>1. /\ rest[1].bytes \in Nat /\ TotalBytes(rest) \in Nat /\ MaxQueuedBytes \in Nat
          /\ TotalBytes(rest) <= MaxQueuedBytes
        BY <1>1, <1>3, <1>9
    <3>2. \A a, c, f, x \in Nat : a <= x /\ f <= c => a - c + f <= x
        OBVIOUS
    <3>3. TotalBytes(rest) - rest[1].bytes + buffered' <= MaxQueuedBytes
        BY <2>2, <3>1, <3>2
    <3> QED BY <2>1, <2>2, <2>7, <3>3 DEF Agent!WithinLimits, Agent!ResolvedIsFlushed
  <2>9. baseline' \in Nat /\ drain' \in BOOLEAN /\ poll' \in BOOLEAN
      BY <1>5, <2>1
  <2>10. AgentLink'
      BY <1>5, <2>1, <2>2, <2>6, <2>8, <2>9 DEF AgentLink
  <2> QED BY <2>5, <2>10 DEF AgentInv
<1> QED BY <1>4, <1>6, <1>7, <1>8, <1>9

\* drainQueue
LEMMA AgentDrains ==
    ASSUME AgentLink, NEW n, AgentQueue(n), Agent!Drain
    PROVE  AgentInv'
<1>0. drain' = FALSE
    BY DEF Agent!Drain
<1>1. CASE currentSend # 0 \/ tstate # "ready" \/ queue = <<>>
  <2>1. /\ UNCHANGED <<tstate, socket, startP, closeP, handshakeTimer, errors, closes, buffered>>
        /\ UNCHANGED <<queue, queuedBytes, outcome, currentSend, baseline, wire, poll>>
      BY <1>1 DEF Agent!Drain, Agent!link, Agent!sends
  <2>2. tstate = "ready" /\ socket = "OPEN" =>
           /\ currentSend # 0 => poll
           /\ queue # <<>> => poll /\ currentSend # 0
      BY <1>1 DEF AgentLink, Agent!StateAgrees
  <2>3. poll' \in BOOLEAN /\ drain' \in BOOLEAN /\ (tstate \in Before \cup {"closed"} => ~poll')
      BY <1>0, <2>1 DEF AgentLink, Agent!StateAgrees, Before
  <2> QED BY <1>0, <2>1, <2>2, <2>3, AgentRests
<1>2. CASE ~(currentSend # 0 \/ tstate # "ready" \/ queue = <<>>) /\ socket # "OPEN"
  <2>1. Agent!Fail(outcome) /\ UNCHANGED <<buffered, currentSend, baseline, wire>>
      BY <1>2 DEF Agent!Drain
  <2>2. tstate \notin {"closing", "closed"} /\ drain' \in BOOLEAN
      BY <1>0, <1>2
  <2> QED BY <2>1, <2>2, AgentSame, AgentFails DEF AgentLink
<1>3. CASE ~(currentSend # 0 \/ tstate # "ready" \/ queue = <<>>) /\ socket = "OPEN"
  <2>1. PICK k \in 0 .. Len(queue) : Agent!PumpMessages(k)
      BY <1>3 DEF Agent!Drain
  <2> QED BY <1>0, <1>3, <2>1, AgentPumps
<1> QED BY <1>1, <1>2, <1>3

\* A step of the other end.
LEMMA AgentStutters ==
    ASSUME AgentInv, UNCHANGED agentVars
    PROVE  AgentInv'
<1>1. /\ UNCHANGED <<tstate, socket, startP, closeP, handshakeTimer, errors, closes, buffered>>
      /\ UNCHANGED <<queue, queuedBytes, outcome, currentSend, baseline, wire, poll, drain>>
    BY DEF agentVars
<1>2. PICK n : AgentQueue(n)
    BY DEF AgentInv
<1>3. AgentLink /\ poll' \in BOOLEAN /\ drain' \in BOOLEAN
    BY <1>1 DEF AgentInv, AgentLink
<1>4. tstate = "ready" /\ socket = "OPEN" =>
         /\ currentSend # 0 => poll
         /\ queue # <<>> => drain \/ (poll /\ currentSend # 0)
    BY <1>3 DEF AgentLink, Agent!StateAgrees, Agent!NoStall
<1>5. tstate \in Before \cup {"closed"} => ~poll
    BY <1>3 DEF AgentLink, Agent!StateAgrees, Before
<1> QED BY <1>1, <1>2, <1>3, <1>4, <1>5, AgentRests

\* A new transport.
LEMMA AgentBegins ==
    ASSUME Agent!Init
    PROVE  AgentInv
<1>1. /\ queue = <<>> /\ queuedBytes = 0 /\ wire = <<>> /\ currentSend = 0 /\ tstate = "idle"
      /\ outcome = [i \in 1 .. MaxSends |-> "none"]
      /\ MaxSends \in Nat /\ MaxQueuedMessages \in Nat /\ MaxQueuedBytes \in Nat
    BY SizesFit DEF Agent!Init
<1>2. Waiting(<<>>, outcome, 0, MaxSends)
  <2>1. outcome \in [1 .. MaxSends -> Answers] /\ \A i \in 1 .. MaxSends : outcome[i] = "none"
      BY <1>1 DEF Answers
  <2>2. <<>> \in Seq(Messages(MaxSends)) /\ Len(<<>>) = 0 /\ Ids(<<>>) = {}
      BY DEF Ids
  <2>3. 0 \in 0 .. MaxSends /\ \A i \in 1 .. MaxSends : i > 0
      BY <1>1
  <2> QED BY <2>1, <2>2, <2>3 DEF Waiting
<1>3. AgentQueue(0)
  <2>1. Len(<<>>) = 0 /\ Len(<<>>) <= MaxQueuedMessages /\ currentSend \in 0 .. MaxSends
      BY <1>1
  <2> QED BY <1>1, <1>2, <2>1, TotalOfEmpty, SentNothing DEF AgentQueue
<1>4. Agent!StateAgrees /\ Agent!WithinLimits /\ Agent!NoStall /\ Agent!ResolvedIsFlushed
    BY DEF Agent!Init, Agent!StateAgrees, Agent!WithinLimits, Agent!NoStall,
           Agent!ResolvedIsFlushed
<1>5. AgentLink
  <2>1. /\ tstate = "idle" /\ socket = "none" /\ buffered = 0 /\ baseline = 0
        /\ startP = "none" /\ closeP = "resolved" /\ errors = 0 /\ closes = 0
        /\ handshakeTimer = FALSE /\ poll = FALSE /\ drain = FALSE
      BY DEF Agent!Init
  <2>2. errors \in 0 .. 1 /\ closes \in 0 .. 1
      BY <2>1
  <2>3. handshakeTimer \in BOOLEAN /\ poll \in BOOLEAN /\ drain \in BOOLEAN
      BY <2>1
  <2> QED BY <1>4, <2>1, <2>2, <2>3 DEF AgentLink, Agent!States
<1> QED BY <1>3, <1>5 DEF AgentInv

\* Every step of the agent's transport keeps what is said of it.
LEMMA AgentHandles ==
    ASSUME AgentInv,
           \/ Agent!Start \/ Agent!Send \/ Agent!Close \/ Agent!Opens
           \/ Agent!OpensUnheard \/ Agent!FrameAck \/ Agent!FrameClose
           \/ Agent!Fails \/ Agent!HandshakeTimeout \/ Agent!SocketDies
           \/ Agent!CloseEvent \/ Agent!Flush \/ Agent!Drain \/ Agent!Poll
    PROVE  AgentInv'
<1>1. PICK n : AgentQueue(n)
    BY DEF AgentInv
<1>2. AgentLink
    BY DEF AgentInv
<1> QED BY <1>1, <1>2, AgentStarts, AgentSends, AgentCloses, AgentOpening, AgentAcknowledged,
           AgentToldToClose, AgentFailsAnyhow, AgentTimesOut, AgentLosesSocket,
           AgentSeesClose, AgentFlushes, AgentDrains, AgentPolls
-----------------------------------------------------------------------------
(* The server's transport. *)

\* After n sends: the queue, its bytes, and what has gone to the session.
ServerQueue(n) ==
    /\ Waiting(sQueue, sOutcome, n, MaxReplies) /\ Sent(sWire)
    /\ Len(sQueue) <= MaxQueuedMessages
    /\ sQueuedBytes = TotalBytes(sQueue) /\ sQueuedBytes <= MaxQueuedBytes
    /\ sState = "ready" /\ session = "ready" =>
          Len(sWire) = n - Len(sQueue) + (IF sInflight = Server!NoMessage THEN 0 ELSE 1)
    /\ sState = "ready" /\ sInflight # Server!NoMessage =>
          sQueue # <<>> /\ sQueue[1] = sInflight
    /\ sState = "idle" => n = 0 /\ sWire = <<>>

\* The state, the session, the callbacks and the loop.
ServerLink ==
    /\ sState \in {"idle", "ready", "failed", "closing", "closed"}
    /\ session \in {"none", "ready", "closing", "closed"}
    /\ sCloseP \in {"pending", "resolved"}
    /\ sErrors \in 0 .. 1 /\ sCloses \in 0 .. 1
    /\ sBound \in BOOLEAN /\ sDrain \in BOOLEAN
    /\ sInflight \in {Server!NoMessage} \cup Messages(MaxReplies)
    /\ Server!StateAgrees /\ Server!NoStall
    /\ sState = "closed" => sCloses = 1
    /\ sBound => sState \in {"ready", "closing"}
    /\ sCloseP = "pending" => session # "none"

ServerInv == ServerLink /\ \E n : ServerQueue(n)

\* What is queued stays as it is.
LEMMA ServerQuiet ==
    ASSUME NEW n, ServerQueue(n),
           sQueue' = sQueue, sQueuedBytes' = sQueuedBytes, sOutcome' = sOutcome,
           sInflight' = sInflight, sWire' = sWire,
           sState' = "ready" => sState = "ready" \/ (sState = "idle" /\ sInflight = Server!NoMessage),
           sState' = "idle" => sState = "idle",
           session' = "ready" => session = "ready" \/ sState' # "ready"
    PROVE  ServerQueue(n)'
<1>1. CASE sState = "idle" /\ sState' = "ready"
  <2>1. n = 0 /\ sWire = <<>> /\ sInflight = Server!NoMessage /\ Len(sQueue) = 0
      BY <1>1, SizesFit, WaitingFacts DEF ServerQueue
  <2>2. Len(sWire) = 0
      BY <2>1
  <2>3. Len(sWire') = n - Len(sQueue') + (IF sInflight' = Server!NoMessage THEN 0 ELSE 1)
      BY <2>1, <2>2
  <2> QED BY <1>1, <2>1, <2>3 DEF ServerQueue
<1>2. CASE ~(sState = "idle" /\ sState' = "ready")
  <2>1. sState' = "ready" => sState = "ready" /\ (session' = "ready" => session = "ready")
      BY <1>2
  <2> QED BY <2>1 DEF ServerQueue
<1> QED BY <1>1, <1>2

\* An end that leaves the state ready has nothing to send.
LEMMA ServerLeaves ==
    ASSUME NEW n, ServerQueue(n), NEW o, OnlySettles(sOutcome, o), Server!RejectQueued(o),
           sWire' = sWire, sState' \notin {"idle", "ready"}
    PROVE  ServerQueue(n)' /\ sQueue' = <<>>
<1>1. sQueue' = <<>> /\ sQueuedBytes' = 0 /\ sOutcome' = Settle(o, sQueue, "rejected")
    BY ServerOperators DEF Server!RejectQueued
<1>2. Waiting(<<>>, Settle(o, sQueue, "rejected"), n, MaxReplies)
    BY SizesFit, WaitingClear DEF ServerQueue
<1>3. Waiting(sQueue', sOutcome', n, MaxReplies)
    BY <1>1, <1>2
<1>4. /\ Len(sQueue') <= MaxQueuedMessages
      /\ sQueuedBytes' = TotalBytes(sQueue') /\ sQueuedBytes' <= MaxQueuedBytes
  <2>1. Len(<<>>) = 0 /\ MaxQueuedMessages \in Nat /\ MaxQueuedBytes \in Nat
      BY SizesFit
  <2> QED BY <1>1, <2>1, TotalOfEmpty
<1> QED BY <1>1, <1>3, <1>4 DEF ServerQueue

\* Settling nothing is settling.
LEMMA ServerSame ==
    ASSUME NEW n, ServerQueue(n)
    PROVE  OnlySettles(sOutcome, sOutcome) /\ Sent(sWire)
    BY DEF ServerQueue, Waiting, OnlySettles

\* finalizeClose: an end that leaves the state ready has nothing to send.
LEMMA ServerFinalizes ==
    ASSUME ServerLink, NEW n, ServerQueue(n), sState # "closed",
           NEW o, OnlySettles(sOutcome, o), Server!Finalize(o), sWire' = sWire,
           session' \in {"ready", "closing", "closed"}, sCloseP' \in {"pending", "resolved"},
           sErrors' \in 0 .. 1, sDrain' \in BOOLEAN,
           sInflight' \in {Server!NoMessage, sInflight}
    PROVE  ServerInv'
<1>1. /\ sState' = "closed" /\ sCloses' = sCloses + 1 /\ sBound' = FALSE
      /\ Server!RejectQueued(o)
    BY DEF Server!Finalize
<1>2. ServerQueue(n)' /\ sQueue' = <<>>
    BY <1>1, ServerLeaves
<1>3. sCloses' = 1
    BY <1>1 DEF ServerLink, Server!StateAgrees
<1>4. Server!StateAgrees' /\ Server!NoStall'
    BY <1>1, <1>2 DEF Server!StateAgrees, Server!NoStall
<1>5. sInflight' \in {Server!NoMessage} \cup Messages(MaxReplies)
    BY DEF ServerLink
<1>6. ServerLink'
  <2>1. sBound' \in BOOLEAN /\ ~sBound'
      BY <1>1
  <2>2. sState' = "closed" /\ sCloses' = 1 /\ sCloses' \in 0 .. 1
      BY <1>1, <1>3
  <2> QED BY <2>1, <2>2, <1>4, <1>5 DEF ServerLink
<1> QED BY <1>2, <1>6 DEF ServerInv

\* start()
LEMMA ServerStarts ==
    ASSUME ServerLink, NEW n, ServerQueue(n), Server!Start
    PROVE  ServerInv'
<1>1. /\ UNCHANGED <<session, sCloseP, sErrors, sCloses, sQueue, sQueuedBytes, sOutcome>>
      /\ UNCHANGED <<sInflight, sDrain, sWire>>
      /\ sState = "idle" /\ session # "none"
      /\ IF session = "ready" THEN sState' = "ready" /\ sBound' = TRUE
                              ELSE sState' = "failed" /\ UNCHANGED sBound
    BY DEF Server!Start, Server!sends
<1>2. sInflight = Server!NoMessage /\ sQueue = <<>> /\ sBound = FALSE
    BY <1>1 DEF ServerLink, Server!StateAgrees
<1>3. ServerQueue(n)'
    BY <1>1, <1>2, ServerQuiet
<1>4. Server!StateAgrees' /\ Server!NoStall'
    BY <1>1, <1>2 DEF ServerLink, Server!StateAgrees, Server!NoStall
<1>5. sState' \in {"ready", "failed"} /\ sBound' \in BOOLEAN /\ (sBound' => sState' = "ready")
    BY <1>1, <1>2
<1>6. ServerLink'
    BY <1>1, <1>4, <1>5 DEF ServerLink
<1> QED BY <1>3, <1>6 DEF ServerInv

\* close(), until its await.
LEMMA ServerCloses ==
    ASSUME ServerLink, NEW n, ServerQueue(n), Server!Close
    PROVE  ServerInv'
<1>1. /\ sState \notin {"closing", "closed"} /\ session # "none"
      /\ sState' = "closing" /\ sCloseP' = "pending" /\ Server!RejectQueued(sOutcome)
      /\ session' = IF session = "ready" THEN "closing" ELSE session
      /\ UNCHANGED <<sBound, sErrors, sCloses, sInflight, sDrain, sWire>>
    BY DEF Server!Close, Server!Ended, Server!CloseSession
<1>2. ServerQueue(n)' /\ sQueue' = <<>>
    BY <1>1, ServerSame, ServerLeaves
<1>3. session' \in {"closing", "closed"}
    BY <1>1 DEF ServerLink
<1>4. sCloses = 0
    BY <1>1 DEF ServerLink, Server!StateAgrees
<1>5. Server!StateAgrees' /\ Server!NoStall'
    BY <1>1, <1>2, <1>3, <1>4 DEF Server!StateAgrees, Server!NoStall
<1>6. ServerLink'
    BY <1>1, <1>3, <1>5 DEF ServerLink
<1> QED BY <1>2, <1>6 DEF ServerInv

\* A step that leaves the queue and the state of the transport alone.
LEMMA ServerKeeps ==
    ASSUME ServerLink, NEW n, ServerQueue(n),
           UNCHANGED <<sState, sBound, sCloses, sQueue, sQueuedBytes, sOutcome>>,
           UNCHANGED <<sInflight, sDrain, sWire>>,
           session' \in {"none", "ready", "closing", "closed"},
           session' = "none" => session = "none",
           session' = "ready" => session = "ready" \/ sState # "ready",
           sErrors' \in 0 .. 1, sCloseP' \in {sCloseP, "resolved"}
    PROVE  ServerInv'
<1>1. ServerQueue(n)'
    BY ServerQuiet
<1>2. Server!StateAgrees' /\ Server!NoStall'
    BY DEF ServerLink, Server!StateAgrees, Server!NoStall
<1>3. ServerLink'
    BY <1>2 DEF ServerLink
<1> QED BY <1>1, <1>3 DEF ServerInv

\* The rest of close().
LEMMA ServerCloseEnds ==
    ASSUME ServerLink, NEW n, ServerQueue(n), Server!CloseEnds
    PROVE  ServerInv'
<1>0. /\ sCloseP = "pending" /\ sCloseP' = "resolved" /\ sErrors' \in {sErrors, 1}
      /\ UNCHANGED <<session, sInflight, sDrain, sWire>>
    BY DEF Server!CloseEnds
<1>1. sErrors' \in 0 .. 1 /\ session \in {"ready", "closing", "closed"} /\ sDrain \in BOOLEAN
    BY <1>0 DEF ServerLink
<1>2. CASE sState = "closed"
  <2>1. UNCHANGED <<sState, sCloses, sBound, sQueue, sQueuedBytes, sOutcome>>
      BY <1>2 DEF Server!CloseEnds, Server!sends
  <2> QED BY <1>0, <1>1, <2>1, ServerKeeps
<1>3. CASE sState # "closed"
  <2>1. Server!Finalize(sOutcome)
      BY <1>3 DEF Server!CloseEnds
  <2> QED BY <1>0, <1>1, <1>3, <2>1, ServerSame, ServerFinalizes
<1> QED BY <1>2, <1>3

\* The gateway opens the session.
LEMMA ServerOpens ==
    ASSUME ServerLink, NEW n, ServerQueue(n), Server!SessionOpens
    PROVE  ServerInv'
<1>1. /\ session = "none" /\ session' = "ready"
      /\ UNCHANGED <<sState, sBound, sCloseP, sErrors, sCloses>>
      /\ UNCHANGED <<sQueue, sQueuedBytes, sOutcome, sInflight, sDrain, sWire>>
    BY DEF Server!SessionOpens, Server!sends
<1>2. sState = "idle" /\ sErrors \in 0 .. 1 /\ sCloseP \in {"pending", "resolved"}
    BY <1>1 DEF ServerLink, Server!StateAgrees
<1> QED BY <1>1, <1>2, ServerKeeps

\* The session leaves its ready state.
LEMMA ServerSessionLeaves ==
    ASSUME ServerLink, NEW n, ServerQueue(n), Server!SessionLeaves
    PROVE  ServerInv'
<1>1. /\ session = "ready" /\ session' = "closing"
      /\ UNCHANGED <<sState, sBound, sCloseP, sErrors, sCloses>>
      /\ UNCHANGED <<sQueue, sQueuedBytes, sOutcome, sInflight, sDrain, sWire>>
    BY DEF Server!SessionLeaves, Server!sends
<1>2. sErrors \in 0 .. 1 /\ sCloseP \in {"pending", "resolved"}
    BY <1>1 DEF ServerLink
<1> QED BY <1>1, <1>2, ServerKeeps

\* handleSessionClose
LEMMA ServerSessionCloses ==
    ASSUME ServerLink, NEW n, ServerQueue(n), Server!SessionCloses
    PROVE  ServerInv'
<1>0. /\ session \in {"ready", "closing"} /\ session' = "closed"
      /\ UNCHANGED <<sCloseP, sInflight, sDrain, sWire>>
    BY DEF Server!SessionCloses
<1>1. /\ sDrain \in BOOLEAN /\ sCloseP \in {"pending", "resolved"} /\ sErrors \in 0 .. 1
      /\ (sBound => sState # "closed")
    BY DEF ServerLink
<1>2. CASE sBound
  <2>1. /\ sErrors' \in {sErrors, IF sState = "closing" THEN sErrors ELSE 1}
        /\ Server!Finalize(sOutcome)
      BY <1>2 DEF Server!SessionCloses
  <2>2. sErrors' \in 0 .. 1
      BY <1>1, <2>1
  <2> QED BY <1>0, <1>1, <1>2, <2>1, <2>2, ServerSame, ServerFinalizes
<1>3. CASE ~sBound
  <2>1. UNCHANGED <<sState, sBound, sErrors, sCloses, sQueue, sQueuedBytes, sOutcome>>
      BY <1>3 DEF Server!SessionCloses, Server!sends
  <2> QED BY <1>0, <1>1, <2>1, ServerKeeps
<1> QED BY <1>2, <1>3

\* handleIncomingMessage throws.
LEMMA ServerBadMessage ==
    ASSUME ServerLink, NEW n, ServerQueue(n), Server!BadMessage
    PROVE  ServerInv'
<1>1. /\ sState = "ready" /\ session = "ready" /\ session' = "closing" /\ sErrors' = 1
      /\ Server!Finalize(sOutcome) /\ UNCHANGED <<sCloseP, sInflight, sDrain, sWire>>
    BY DEF Server!BadMessage, Server!Fail, Server!CloseSession
<1>2. sDrain \in BOOLEAN /\ sCloseP \in {"pending", "resolved"}
    BY DEF ServerLink
<1> QED BY <1>1, <1>2, ServerSame, ServerFinalizes

\* send()
LEMMA ServerSends ==
    ASSUME ServerLink, NEW n, ServerQueue(n), Server!Send
    PROVE  ServerInv'
<1>0. /\ UNCHANGED <<sState, session, sBound, sCloseP, sErrors, sCloses, sInflight, sWire>>
      /\ sDrain' = (sDrain \/ sInflight = Server!NoMessage)
      /\ sState = "ready" /\ Len(sQueue) < MaxQueuedMessages
    BY DEF Server!Send, Server!link
<1>1. PICK b \in Sizes, i \in DOMAIN sOutcome :
        /\ sQueuedBytes + b <= MaxQueuedBytes
        /\ sOutcome[i] = "none" /\ \A j \in 1 .. (i - 1) : sOutcome[j] # "none"
        /\ sQueue' = Append(sQueue, [id |-> i, bytes |-> b])
        /\ sQueuedBytes' = sQueuedBytes + b
        /\ sOutcome' = [sOutcome EXCEPT ![i] = "pending"]
    BY DEF Server!Send
<1> DEFINE m == [id |-> i, bytes |-> b]
<1>2. /\ sQueue \in Seq(Messages(MaxReplies)) /\ n \in Nat /\ Len(sQueue) \in Nat
      /\ DOMAIN sOutcome = 1 .. MaxReplies
      /\ MaxReplies \in Nat /\ MaxQueuedMessages \in Nat
      /\ Waiting(sQueue, sOutcome, n, MaxReplies)
    BY SizesFit, WaitingFacts DEF ServerQueue
<1> HIDE DEF m
<1>3. i = n + 1 /\ Waiting(sQueue', sOutcome', n + 1, MaxReplies)
  <2>1. i \in 1 .. MaxReplies
      BY <1>2
  <2>2. \A j \in 1 .. i - 1 : sOutcome[j] # "none"
      BY <1>1
  <2>3. sOutcome[i] = "none" /\ b \in Sizes
      BY <1>1
  <2>4. /\ i = n + 1
        /\ Waiting(Append(sQueue, [id |-> i, bytes |-> b]),
                   [sOutcome EXCEPT ![i] = "pending"], n + 1, MaxReplies)
      BY <1>2, <2>1, <2>2, <2>3, WaitingAppend
  <2>5. /\ sQueue' = Append(sQueue, [id |-> i, bytes |-> b])
        /\ sOutcome' = [sOutcome EXCEPT ![i] = "pending"]
      BY <1>1
  <2> QED BY <2>4, <2>5
<1>4. m \in Messages(MaxReplies) /\ m.bytes = b /\ sQueue' = Append(sQueue, m)
    BY <1>1, <1>2 DEF Messages, m
<1>5. /\ Len(sQueue') = Len(sQueue) + 1 /\ sQueue' # <<>>
      /\ sQueue # <<>> => sQueue'[1] = sQueue[1]
  <2>1. /\ Len(sQueue') = Len(sQueue) + 1 /\ \A j \in 1 .. Len(sQueue) : sQueue'[j] = sQueue[j]
        /\ sQueue' # <<>>
      BY <1>2, <1>4, AppendProperties
  <2>2. sQueue # <<>> => 1 \in 1 .. Len(sQueue)
      BY <1>2, EmptySeq
  <2> QED BY <2>1, <2>2
<1>6. sQueuedBytes' = TotalBytes(sQueue') /\ sQueuedBytes' <= MaxQueuedBytes
  <2>1. TotalBytes(Append(sQueue, m)) = TotalBytes(sQueue) + m.bytes
      BY <1>2, <1>4, BytesAreNumbers, TotalOfAppend
  <2> QED BY <1>1, <1>4, <2>1 DEF ServerQueue
<1>7. sInflight # Server!NoMessage => /\ sQueue # <<>> /\ sQueue[1] = sInflight
                                      /\ sQueue' # <<>> /\ sQueue'[1] = sInflight'
    BY <1>0, <1>5 DEF ServerQueue
<1>8. ServerQueue(n + 1)'
  <2>1. Len(sQueue') <= MaxQueuedMessages
      BY <1>0, <1>2, <1>5
  <2>2. session = "ready" =>
           Len(sWire') = n + 1 - Len(sQueue') + (IF sInflight' = Server!NoMessage THEN 0 ELSE 1)
    <3>1. session = "ready" =>
             Len(sWire) = n - Len(sQueue) + (IF sInflight = Server!NoMessage THEN 0 ELSE 1)
        BY <1>0 DEF ServerQueue
    <3> QED BY <3>1, <1>0, <1>2, <1>5
  <2>3. PICK k : k = n + 1
      OBVIOUS
  <2>4. Waiting(sQueue', sOutcome', k, MaxReplies)
      BY <1>3, <2>3
  <2>5. session' = "ready" =>
           Len(sWire') = k - Len(sQueue') + (IF sInflight' = Server!NoMessage THEN 0 ELSE 1)
      BY <1>0, <1>2, <1>5, <2>2, <2>3
  <2>6. Sent(sWire') /\ sState' # "idle" /\ (sInflight' # Server!NoMessage =>
                                               sQueue' # <<>> /\ sQueue'[1] = sInflight')
      BY <1>0, <1>7 DEF ServerQueue
  <2>7. ServerQueue(k)'
      BY <1>6, <2>1, <2>4, <2>5, <2>6 DEF ServerQueue
  <2> QED BY <2>3, <2>7
<1>9. Server!StateAgrees'
    BY <1>0, <1>7 DEF ServerLink, Server!StateAgrees
<1>10. Server!NoStall'
    BY <1>0 DEF Server!NoStall
<1>11. sDrain' \in BOOLEAN
    BY <1>0
<1>12. ServerLink'
    BY <1>0, <1>9, <1>10, <1>11 DEF ServerLink
<1> QED BY <1>8, <1>12 DEF ServerInv

\* The next message, if there is one, is handed to the session.
LEMMA ServerHands ==
    ASSUME ServerLink, NEW n, NEW q, Waiting(q, sOutcome', n, MaxReplies),
           Len(q) <= MaxQueuedMessages, sQueue' = q, sQueuedBytes' = TotalBytes(q),
           TotalBytes(q) <= MaxQueuedBytes, Sent(sWire), sState = "ready",
           session = "ready" => Len(sWire) = n - Len(q), Server!Hand(q),
           UNCHANGED <<sState, session, sBound, sCloseP, sErrors, sCloses>>,
           sDrain' \in BOOLEAN
    PROVE  ServerInv'
<1>1. /\ q \in Seq(Messages(MaxReplies)) /\ n \in Nat /\ Len(q) \in Nat /\ Len(q) <= n
      /\ \A j \in 1 .. Len(q) : q[j] \in Messages(MaxReplies) /\ q[j].id = n - Len(q) + j
    BY SizesFit, WaitingFacts
<1>2. CASE q = <<>>
  <2>1. sInflight' = Server!NoMessage /\ sWire' = sWire
      BY <1>2 DEF Server!Hand
  <2>2. ServerQueue(n)'
    <3>1. session' = "ready" => Len(sWire') = n - Len(sQueue') + 0
        BY <1>1, <2>1
    <3> QED BY <2>1, <3>1 DEF ServerQueue
  <2>3. Server!StateAgrees' /\ Server!NoStall'
      BY <1>2, <2>1 DEF ServerLink, Server!StateAgrees, Server!NoStall
  <2>4. ServerLink'
      BY <2>1, <2>3 DEF ServerLink
  <2> QED BY <2>2, <2>4 DEF ServerInv
<1>3. CASE q # <<>>
  <2>1. /\ sInflight' = q[1]
        /\ sWire' = IF session = "ready" THEN Append(sWire, q[1].id) ELSE sWire
      BY <1>3 DEF Server!Hand
  <2>2. Len(q) >= 1 /\ q[1] \in Messages(MaxReplies) /\ q[1].id = n - Len(q) + 1
    <3>1. Len(q) # 0
        BY <1>1, <1>3, EmptySeq
    <3>2. 1 \in 1 .. Len(q)
        BY <1>1, <3>1
    <3> QED BY <1>1, <3>2
  <2>3. q[1] # Server!NoMessage
    <3>1. q[1].id # 0
        BY <2>2, <1>1
    <3> QED BY <3>1 DEF Server!NoMessage
  <2>4. Sent(sWire') /\ (session = "ready" => Len(sWire') = n - Len(q) + 1)
    <3>1. CASE session = "ready"
      <4>1. Len(sWire) = n - Len(q) /\ q[1].id = Len(sWire) + 1
          BY <3>1, <2>2
      <4>2. sWire' = Append(sWire, Len(sWire) + 1)
          BY <2>1, <3>1, <4>1
      <4>3. Sent(sWire') /\ Len(sWire') = Len(sWire) + 1
          BY <4>2, SentNext
      <4> QED BY <4>1, <4>3
    <3>2. CASE session # "ready"
        BY <2>1, <3>2
    <3> QED BY <3>1, <3>2
  <2>5. ServerQueue(n)'
    <3>1. session' = "ready" => Len(sWire') = n - Len(sQueue') + 1
        BY <2>4
    <3>2. sInflight' # Server!NoMessage /\ sQueue' # <<>> /\ sQueue'[1] = sInflight'
        BY <1>3, <2>1, <2>3
    <3> QED BY <2>4, <3>1, <3>2 DEF ServerQueue
  <2>6. Server!StateAgrees' /\ Server!NoStall'
      BY <1>3, <2>1, <2>3 DEF ServerLink, Server!StateAgrees, Server!NoStall
  <2>7. ServerLink'
      BY <2>1, <2>2, <2>6 DEF ServerLink
  <2> QED BY <2>5, <2>7 DEF ServerInv
<1> QED BY <1>2, <1>3

\* Nothing changes but the flag of the loop and the message it awaits, which the
\* loop of an end that is not ready does not go on from.
LEMMA ServerRests ==
    ASSUME ServerLink, NEW n, ServerQueue(n),
           UNCHANGED <<sState, session, sBound, sCloseP, sErrors, sCloses>>,
           UNCHANGED <<sQueue, sQueuedBytes, sOutcome, sWire>>,
           sDrain' \in BOOLEAN, sInflight' \in {Server!NoMessage, sInflight},
           sState = "ready" => sInflight' = sInflight,
           sState = "ready" /\ sQueue # <<>> => sDrain' \/ sInflight # Server!NoMessage
    PROVE  ServerInv'
<1>1. ServerQueue(n)'
    BY DEF ServerQueue
<1>2. Server!StateAgrees' /\ Server!NoStall'
    BY DEF ServerLink, Server!StateAgrees, Server!NoStall
<1>3. ServerLink'
    BY <1>2 DEF ServerLink
<1> QED BY <1>1, <1>3 DEF ServerInv

\* drainQueue, until its first await.
LEMMA ServerDrains ==
    ASSUME ServerLink, NEW n, ServerQueue(n), Server!Drain
    PROVE  ServerInv'
<1>1. /\ sDrain' = FALSE
      /\ UNCHANGED <<sState, session, sBound, sCloseP, sErrors, sCloses>>
      /\ UNCHANGED <<sQueue, sQueuedBytes, sOutcome>>
      /\ IF sInflight = Server!NoMessage /\ sState = "ready" THEN Server!Hand(sQueue)
         ELSE UNCHANGED <<sInflight, sWire>>
    BY DEF Server!Drain, Server!link, Server!sends
<1>2. sDrain' \in BOOLEAN
    BY <1>1
<1>3. CASE sInflight = Server!NoMessage /\ sState = "ready"
  <2>1. /\ Waiting(sQueue, sOutcome', n, MaxReplies) /\ Len(sQueue) <= MaxQueuedMessages
        /\ sQueuedBytes' = TotalBytes(sQueue) /\ TotalBytes(sQueue) <= MaxQueuedBytes
        /\ Sent(sWire)
      BY <1>1 DEF ServerQueue
  <2>2. session = "ready" => Len(sWire) = n - Len(sQueue)
    <3>1. session = "ready" => Len(sWire) = n - Len(sQueue) + 0
        BY <1>3 DEF ServerQueue
    <3>2. n \in Nat /\ Len(sQueue) \in Nat
        BY SizesFit, WaitingFacts DEF ServerQueue
    <3> QED BY <3>1, <3>2
  <2> QED BY <1>1, <1>2, <1>3, <2>1, <2>2, ServerHands
<1>4. CASE ~(sInflight = Server!NoMessage /\ sState = "ready")
    BY <1>1, <1>2, <1>4, ServerRests
<1> QED BY <1>3, <1>4

\* An answer that comes after the transport has left the state ready finds its
\* message gone.
LEMMA ServerLate ==
    ASSUME ServerLink, NEW n, ServerQueue(n), sState # "ready", sInflight # Server!NoMessage,
           NEW how \in {"resolved", "rejected"}
    PROVE  /\ Settle(sOutcome, <<sInflight>>, how) = sOutcome
           /\ Server!TakeOff => sQueue' = sQueue /\ sQueuedBytes' = sQueuedBytes
<1>1. sQueue = <<>>
    BY DEF ServerLink, Server!StateAgrees
<1>2. Ids(sQueue) = {}
    BY <1>1 DEF Ids
<1>3. Settle(sOutcome, <<sInflight>>, how) = sOutcome
  <2>1. Waiting(sQueue, sOutcome, n, MaxReplies) /\ MaxReplies \in Nat
      BY SizesFit DEF ServerQueue
  <2>2. \A i \in Ids(<<sInflight>>) : i \notin Ids(sQueue)
      BY <1>2
  <2> QED BY <2>1, <2>2, WaitingSame
<1>4. ASSUME Server!TakeOff PROVE sQueue' = sQueue /\ sQueuedBytes' = sQueuedBytes
  <2>1. sQueue' = sQueue /\ sQueuedBytes' = sQueuedBytes - 0
      BY <1>1, <1>4 DEF Server!TakeOff
  <2>2. sQueuedBytes = 0
      BY <1>1, TotalOfEmpty DEF ServerQueue
  <2> QED BY <2>1, <2>2
<1> QED BY <1>3, <1>4

\* session.send resolves: the loop goes on with the next message.
LEMMA ServerResolves ==
    ASSUME ServerLink, NEW n, ServerQueue(n), Server!SendResolves
    PROVE  ServerInv'
<1>1. /\ sInflight # Server!NoMessage /\ Server!TakeOff
      /\ sOutcome' = Settle(sOutcome, <<sInflight>>, "resolved")
      /\ IF sState = "ready" THEN Server!Hand(sQueue')
         ELSE sInflight' = Server!NoMessage /\ UNCHANGED sWire
      /\ UNCHANGED <<sState, session, sBound, sCloseP, sErrors, sCloses, sDrain>>
    BY ServerOperators DEF Server!SendResolves, Server!link
<1>2. sDrain' \in BOOLEAN
    BY <1>1 DEF ServerLink
<1>3. CASE sState # "ready"
  <2>1. UNCHANGED <<sQueue, sQueuedBytes, sOutcome, sWire>> /\ sInflight' = Server!NoMessage
      BY <1>1, <1>3, ServerLate
  <2> QED BY <1>1, <1>2, <1>3, <2>1, ServerRests
<1>4. CASE sState = "ready"
  <2>1. sQueue # <<>> /\ sQueue[1] = sInflight
      BY <1>1, <1>4 DEF ServerQueue
  <2>2. /\ sQueue' = Tail(sQueue) /\ sQueuedBytes' = sQueuedBytes - sQueue[1].bytes
        /\ sOutcome' = Settle(sOutcome, <<sQueue[1]>>, "resolved")
      BY <1>1, <2>1 DEF Server!TakeOff
  <2>3. /\ sQueue \in Seq(Messages(MaxReplies)) /\ n \in Nat /\ Len(sQueue) \in Nat
        /\ MaxReplies \in Nat /\ MaxQueuedBytes \in Nat /\ MaxQueuedMessages \in Nat
        /\ Waiting(sQueue, sOutcome, n, MaxReplies) /\ Len(sQueue) <= MaxQueuedMessages
      BY SizesFit, WaitingFacts DEF ServerQueue
  <2>4. Waiting(sQueue', sOutcome', n, MaxReplies) /\ Len(sQueue') = Len(sQueue) - 1
      BY <2>1, <2>2, <2>3, WaitingTail
  <2>5. sQueuedBytes' = TotalBytes(sQueue') /\ TotalBytes(sQueue') <= MaxQueuedBytes
    <3>1. /\ TotalBytes(sQueue) = sQueue[1].bytes + TotalBytes(Tail(sQueue))
          /\ sQueue[1].bytes \in Nat /\ TotalBytes(Tail(sQueue)) \in Nat
        BY <2>1, <2>3, BytesAreNumbers, TotalOfTail
    <3>2. sQueuedBytes = TotalBytes(sQueue) /\ sQueuedBytes <= MaxQueuedBytes
        BY DEF ServerQueue
    <3> QED BY <2>2, <2>3, <3>1, <3>2
  <2>6. Sent(sWire) /\ (session = "ready" => Len(sWire) = n - Len(sQueue'))
    <3>1. Sent(sWire) /\ (session = "ready" => Len(sWire) = n - Len(sQueue) + 1)
        BY <1>1, <1>4 DEF ServerQueue
    <3>2. n - Len(sQueue) + 1 = n - (Len(sQueue) - 1)
        BY <2>3
    <3> QED BY <2>4, <3>1, <3>2
  <2>7. Len(sQueue') <= MaxQueuedMessages
      BY <2>3, <2>4
  <2> QED BY <1>1, <1>2, <1>4, <2>4, <2>5, <2>6, <2>7, ServerHands
<1> QED BY <1>3, <1>4

\* session.send rejects: the transport fails, unless it has ended.
LEMMA ServerRejects ==
    ASSUME ServerLink, NEW n, ServerQueue(n), Server!SendRejects
    PROVE  ServerInv'
<1>1. /\ sInflight # Server!NoMessage /\ sInflight' = Server!NoMessage
      /\ UNCHANGED <<sDrain, sWire>>
    BY DEF Server!SendRejects
<1>2. sDrain' \in BOOLEAN
    BY <1>1 DEF ServerLink
<1>3. CASE Server!Ended
  <2>1. /\ Server!TakeOff /\ sOutcome' = Settle(sOutcome, <<sInflight>>, "rejected")
        /\ UNCHANGED <<sState, session, sBound, sCloseP, sErrors, sCloses>>
        /\ sState # "ready"
      BY <1>3, ServerOperators DEF Server!SendRejects, Server!link, Server!Ended
  <2>2. UNCHANGED <<sQueue, sQueuedBytes, sOutcome>>
      BY <1>1, <2>1, ServerLate
  <2> QED BY <1>1, <1>2, <2>1, <2>2, ServerRests
<1>4. CASE ~Server!Ended
  <2> DEFINE o == Settle(sOutcome, <<sInflight>>, "rejected")
  <2>1. Server!Fail(o) /\ sState \notin {"closing", "closed"}
      BY <1>4, ServerOperators DEF Server!SendRejects, Server!Ended
  <2>2. OnlySettles(sOutcome, o)
      BY SizesFit, ServerSame, SettleSettles DEF ServerQueue
  <2> HIDE DEF o
  <2>3. /\ sErrors' = 1 /\ session' = (IF session = "ready" THEN "closing" ELSE session)
        /\ Server!Finalize(o) /\ UNCHANGED sCloseP
      BY <2>1 DEF Server!Fail, Server!CloseSession
  <2>4. session \in {"ready", "closing", "closed"} /\ sCloseP \in {"pending", "resolved"}
      BY <1>1 DEF ServerLink, Server!StateAgrees
  <2>5. session' \in {"ready", "closing", "closed"}
      BY <2>3, <2>4
  <2> QED BY <1>1, <1>2, <2>1, <2>2, <2>3, <2>4, <2>5, ServerFinalizes
<1> QED BY <1>3, <1>4

\* A step of the other end.
LEMMA ServerStutters ==
    ASSUME ServerInv, UNCHANGED serverVars
    PROVE  ServerInv'
<1>1. /\ UNCHANGED <<sState, session, sBound, sCloseP, sErrors, sCloses>>
      /\ UNCHANGED <<sQueue, sQueuedBytes, sOutcome, sInflight, sDrain, sWire>>
    BY DEF serverVars
<1>2. PICK n : ServerQueue(n)
    BY DEF ServerInv
<1>3. /\ ServerLink /\ sDrain' \in BOOLEAN
      /\ sState = "ready" /\ sQueue # <<>> => sDrain' \/ sInflight # Server!NoMessage
    BY <1>1 DEF ServerInv, ServerLink, Server!NoStall
<1> QED BY <1>1, <1>2, <1>3, ServerRests

\* A new transport.
LEMMA ServerBegins ==
    ASSUME Server!Init
    PROVE  ServerInv
<1>1. /\ sQueue = <<>> /\ sQueuedBytes = 0 /\ sWire = <<>> /\ sState = "idle"
      /\ sInflight = Server!NoMessage
      /\ sOutcome = [i \in 1 .. MaxReplies |-> "none"]
      /\ MaxReplies \in Nat /\ MaxQueuedMessages \in Nat /\ MaxQueuedBytes \in Nat
    BY SizesFit DEF Server!Init
<1>2. Waiting(<<>>, sOutcome, 0, MaxReplies)
  <2>1. sOutcome \in [1 .. MaxReplies -> Answers] /\ \A i \in 1 .. MaxReplies : sOutcome[i] = "none"
      BY <1>1 DEF Answers
  <2>2. <<>> \in Seq(Messages(MaxReplies)) /\ Len(<<>>) = 0 /\ Ids(<<>>) = {}
      BY DEF Ids
  <2>3. 0 \in 0 .. MaxReplies /\ \A i \in 1 .. MaxReplies : i > 0
      BY <1>1
  <2> QED BY <2>1, <2>2, <2>3 DEF Waiting
<1>3. ServerQueue(0)
  <2>1. Len(<<>>) = 0 /\ Len(<<>>) <= MaxQueuedMessages
      BY <1>1
  <2> QED BY <1>1, <1>2, <2>1, TotalOfEmpty, SentNothing DEF ServerQueue
<1>4. Server!StateAgrees /\ Server!NoStall
    BY DEF Server!Init, Server!StateAgrees, Server!NoStall
<1>5. ServerLink
  <2>1. /\ sState = "idle" /\ session = "none" /\ sBound = FALSE /\ sDrain = FALSE
        /\ sCloseP = "resolved" /\ sErrors = 0 /\ sCloses = 0
      BY DEF Server!Init
  <2>2. sErrors \in 0 .. 1 /\ sCloses \in 0 .. 1
      BY <2>1
  <2>3. sBound \in BOOLEAN /\ sDrain \in BOOLEAN /\ ~sBound
      BY <2>1
  <2> QED BY <1>1, <1>4, <2>1, <2>2, <2>3 DEF ServerLink
<1> QED BY <1>3, <1>5 DEF ServerInv

\* Every step of the server's transport keeps what is said of it.
LEMMA ServerHandles ==
    ASSUME ServerInv,
           \/ Server!Start \/ Server!Send \/ Server!Close \/ Server!CloseEnds
           \/ Server!SessionOpens \/ Server!SessionLeaves \/ Server!SessionCloses
           \/ Server!BadMessage \/ Server!Drain \/ Server!SendResolves \/ Server!SendRejects
    PROVE  ServerInv'
<1>1. PICK n : ServerQueue(n)
    BY DEF ServerInv
<1>2. ServerLink
    BY DEF ServerInv
<1> QED BY <1>1, <1>2, ServerStarts, ServerSends, ServerCloses, ServerCloseEnds, ServerOpens,
           ServerSessionLeaves, ServerSessionCloses, ServerBadMessage, ServerDrains,
           ServerResolves, ServerRejects
-----------------------------------------------------------------------------
(* Both ends. *)

EndsInv ==
    /\ AgentInv /\ ServerInv
    /\ conn \in {"connecting", "handshaking", "accepted", "refused"}

\* The invariant of both ends holds at first...
LEMMA EndsBegin == BridgeInit => EndsInv
<1> SUFFICES ASSUME BridgeInit PROVE EndsInv
    OBVIOUS
<1>1. Agent!Init /\ Server!Init /\ conn = "connecting"
    BY DEF BridgeInit
<1> QED BY <1>1, AgentBegins, ServerBegins DEF EndsInv

\* ... and after every step of either end,
LEMMA EndsStep == EndsInv /\ [BridgeNext]_bridgeVars => EndsInv'
<1> SUFFICES ASSUME EndsInv, [BridgeNext]_bridgeVars PROVE EndsInv'
    OBVIOUS
<1>0. /\ AgentInv /\ ServerInv
      /\ conn \in {"connecting", "handshaking", "accepted", "refused"}
    BY DEF EndsInv
<1>1. CASE Hello
  <2>1. UNCHANGED agentVars /\ conn' \in {"accepted", "refused"}
        /\ (Server!SessionOpens \/ UNCHANGED serverVars)
      BY <1>1 DEF Hello
  <2> QED BY <1>0, <2>1, AgentStutters, ServerHandles, ServerStutters DEF EndsInv
<1>2. CASE Ack
  <2>1. Agent!FrameAck /\ conn' = conn /\ UNCHANGED serverVars
      BY <1>2 DEF Ack
  <2> QED BY <1>0, <2>1, AgentHandles, ServerStutters DEF EndsInv
<1>3. CASE AgentReadsClose
  <2>1. Agent!FrameClose /\ conn' = conn /\ UNCHANGED serverVars
      BY <1>3 DEF AgentReadsClose
  <2> QED BY <1>0, <2>1, AgentHandles, ServerStutters DEF EndsInv
<1>4. CASE AgentActs
  <2>1. /\ \/ Agent!Start \/ Agent!Send \/ Agent!Close
           \/ Agent!OpensUnheard \/ Agent!Fails \/ Agent!HandshakeTimeout
           \/ Agent!SocketDies \/ Agent!CloseEvent \/ Agent!Flush
           \/ Agent!Drain \/ Agent!Poll
        /\ conn' = conn /\ UNCHANGED serverVars
      BY <1>4 DEF AgentActs
  <2> QED BY <1>0, <2>1, AgentHandles, ServerStutters DEF EndsInv
<1>5. CASE ServerActs
  <2>1. /\ \/ Server!Start \/ Server!Send \/ Server!Close \/ Server!CloseEnds
           \/ Server!SessionLeaves \/ Server!SessionCloses \/ Server!BadMessage
           \/ Server!Drain \/ Server!SendResolves \/ Server!SendRejects
        /\ conn' = conn /\ UNCHANGED agentVars
      BY <1>5 DEF ServerActs
  <2> QED BY <1>0, <2>1, ServerHandles, AgentStutters DEF EndsInv
<1>6. CASE UNCHANGED bridgeVars
  <2>1. conn' = conn /\ UNCHANGED agentVars /\ UNCHANGED serverVars
      BY <1>6 DEF bridgeVars
  <2> QED BY <1>0, <2>1, AgentStutters, ServerStutters DEF EndsInv
<1>7. CASE AgentOpens
  <2>1. Agent!Opens /\ conn' \in {conn, "handshaking"} /\ UNCHANGED serverVars
      BY <1>7 DEF AgentOpens
  <2> QED BY <1>0, <2>1, AgentHandles, ServerStutters DEF EndsInv
<1> QED BY <1>1, <1>2, <1>3, <1>4, <1>5, <1>6, <1>7 DEF BridgeNext

\* What was sent is 1, 2, 3, and so on.
LEMMA SentIsInOrder == ASSUME NEW w, Sent(w) PROVE w = [i \in 1 .. Len(w) |-> i]
<1>1. w \in Seq(Nat) /\ Len(w) \in Nat /\ \A i \in 1 .. Len(w) : w[i] = i
    BY LenProperties DEF Sent
<1>2. w = [i \in 1 .. Len(w) |-> w[i]]
    BY <1>1
<1> QED BY <1>1, <1>2

\* What the invariant says of the agent's transport in the terms of its module.
LEMMA AgentIsRight ==
    ASSUME AgentInv
    PROVE  /\ Agent!TypeOK /\ Agent!QueueIsTracked /\ Agent!WithinLimits /\ Agent!InOrder
           /\ Agent!NoStall /\ Agent!ResolvedIsFlushed /\ Agent!ClosedIsClean
           /\ Agent!NumbersAgree /\ Agent!StateAgrees
<1>1. PICK n : AgentQueue(n)
    BY DEF AgentInv
<1>2. AgentLink
    BY DEF AgentInv
<1>3. /\ queue \in Seq(Messages(MaxSends)) /\ outcome \in [1 .. MaxSends -> Answers]
      /\ n \in 0 .. MaxSends /\ \A i \in 1 .. MaxSends : outcome[i] = "none" <=> i > n
      /\ Len(queue) <= n /\ \A j \in 1 .. Len(queue) : queue[j].id = n - Len(queue) + j
      /\ \A i \in 1 .. MaxSends : outcome[i] = "pending" <=> i \in Ids(queue)
    BY <1>1 DEF AgentQueue, Waiting
<1>4. queuedBytes = TotalBytes(queue) /\ queuedBytes \in 0 .. MaxQueuedBytes
  <2>1. queuedBytes = TotalBytes(queue) /\ queuedBytes <= MaxQueuedBytes
      BY <1>1 DEF AgentQueue
  <2>2. TotalBytes(queue) \in Nat
      BY <1>3, BytesAreNumbers, TotalOfTail, TotalOfEmpty
  <2> QED BY <2>1, <2>2, SizesFit
<1>5. Agent!TypeOK
  <2>1. Len(queue) <= MaxQueuedMessages /\ wire \in Seq(Nat) /\ currentSend \in 0 .. MaxSends
      BY <1>1 DEF AgentQueue, Sent
  <2>2. queue \in Seq([id : 1 .. MaxSends, bytes : Sizes])
      BY <1>3 DEF Messages
  <2>3. outcome \in [1 .. MaxSends -> {"none", "pending", "resolved", "rejected"}]
      BY <1>3 DEF Answers
  <2>4. {handshakeTimer, poll, drain} \subseteq BOOLEAN
      BY <1>2 DEF AgentLink
  <2> QED BY <1>2, <1>4, <2>1, <2>2, <2>3, <2>4 DEF AgentLink, Agent!TypeOK
<1>6. Agent!QueueIsTracked
  <2>1. tstate = "ready" /\ currentSend # 0 => queue # <<>> /\ queue[1].id = currentSend
      BY <1>1 DEF AgentQueue
  <2> QED BY <1>3, <1>4, <2>1, AgentOperators DEF Agent!QueueIsTracked
<1>7. Agent!InOrder
    BY <1>1, SentIsInOrder DEF AgentQueue, Agent!InOrder
<1>8. Agent!NumbersAgree
  <2>1. /\ tstate = "ready" =>
              Len(wire) = n - Len(queue) + (IF currentSend = 0 THEN 0 ELSE 1)
        /\ tstate \in {"idle", "connecting", "handshaking"} => n = 0 /\ wire = <<>>
      BY <1>1 DEF AgentQueue, Before
  <2> QED BY <1>3, <2>1 DEF Agent!NumbersAgree
<1>9. Agent!StateAgrees /\ Agent!WithinLimits /\ Agent!NoStall /\ Agent!ResolvedIsFlushed
    BY <1>2 DEF AgentLink
<1>10. Agent!ClosedIsClean
  <2> SUFFICES ASSUME tstate = "closed"
               PROVE  /\ closes = 1 /\ startP # "pending" /\ closeP = "resolved"
                      /\ queue = <<>> /\ ~handshakeTimer /\ ~poll
                      /\ \A i \in 1 .. MaxSends : outcome[i] # "pending"
      BY DEF Agent!ClosedIsClean
  <2>1. closes = 1 /\ startP # "pending" /\ ~handshakeTimer /\ ~poll
      BY <1>2 DEF AgentLink
  <2>2. closeP = "resolved" /\ queue = <<>>
      BY <1>2, <1>9 DEF AgentLink, Agent!StateAgrees
  <2>3. Ids(queue) = {}
      BY <2>2 DEF Ids
  <2> QED BY <1>3, <2>1, <2>2, <2>3
<1> QED BY <1>5, <1>6, <1>7, <1>8, <1>9, <1>10

\* What the invariant says of the server's transport in the terms of its module.
LEMMA ServerIsRight ==
    ASSUME ServerInv
    PROVE  /\ Server!TypeOK /\ Server!QueueIsTracked /\ Server!InOrder
           /\ Server!NoStall /\ Server!ClosedIsClean
           /\ Server!NumbersAgree /\ Server!StateAgrees
<1>1. PICK n : ServerQueue(n)
    BY DEF ServerInv
<1>2. ServerLink
    BY DEF ServerInv
<1>3. /\ sQueue \in Seq(Messages(MaxReplies)) /\ sOutcome \in [1 .. MaxReplies -> Answers]
      /\ n \in 0 .. MaxReplies /\ \A i \in 1 .. MaxReplies : sOutcome[i] = "none" <=> i > n
      /\ Len(sQueue) <= n /\ \A j \in 1 .. Len(sQueue) : sQueue[j].id = n - Len(sQueue) + j
      /\ \A i \in 1 .. MaxReplies : sOutcome[i] = "pending" <=> i \in Ids(sQueue)
    BY <1>1 DEF ServerQueue, Waiting
<1>4. sQueuedBytes = TotalBytes(sQueue) /\ sQueuedBytes \in 0 .. MaxQueuedBytes
  <2>1. sQueuedBytes = TotalBytes(sQueue) /\ sQueuedBytes <= MaxQueuedBytes
      BY <1>1 DEF ServerQueue
  <2>2. TotalBytes(sQueue) \in Nat
      BY <1>3, BytesAreNumbers, TotalOfTail, TotalOfEmpty
  <2> QED BY <2>1, <2>2, SizesFit
<1>5. Server!TypeOK
  <2>1. Len(sQueue) <= MaxQueuedMessages /\ sWire \in Seq(Nat)
      BY <1>1 DEF ServerQueue, Sent
  <2>2. /\ sQueue \in Seq([id : 1 .. MaxReplies, bytes : Sizes])
        /\ sInflight \in {Server!NoMessage} \cup [id : 1 .. MaxReplies, bytes : Sizes]
      BY <1>2, <1>3 DEF Messages, ServerLink
  <2>3. sOutcome \in [1 .. MaxReplies -> {"none", "pending", "resolved", "rejected"}]
      BY <1>3 DEF Answers
  <2>4. {sBound, sDrain} \subseteq BOOLEAN
      BY <1>2 DEF ServerLink
  <2> QED BY <1>2, <1>4, <2>1, <2>2, <2>3, <2>4 DEF ServerLink, Server!TypeOK
<1>6. Server!QueueIsTracked
    BY <1>3, <1>4, ServerOperators DEF Server!QueueIsTracked
<1>7. Server!InOrder
    BY <1>1, SentIsInOrder DEF ServerQueue, Server!InOrder
<1>8. Server!NumbersAgree
  <2>1. /\ sState = "ready" /\ session = "ready" =>
              Len(sWire) = n - Len(sQueue) + (IF sInflight = Server!NoMessage THEN 0 ELSE 1)
        /\ sState = "idle" => n = 0 /\ sWire = <<>>
      BY <1>1 DEF ServerQueue
  <2> QED BY <1>3, <2>1 DEF Server!NumbersAgree
<1>9. Server!StateAgrees /\ Server!NoStall
    BY <1>2 DEF ServerLink
<1>10. Server!ClosedIsClean
  <2>1. ASSUME sState = "closed"
        PROVE  /\ sCloses = 1 /\ sQueue = <<>>
               /\ \A i \in 1 .. MaxReplies : sOutcome[i] # "pending"
    <3>1. sCloses = 1 /\ sQueue = <<>>
        BY <1>2, <1>9, <2>1 DEF ServerLink, Server!StateAgrees
    <3>2. Ids(sQueue) = {}
        BY <3>1 DEF Ids
    <3> QED BY <1>3, <3>1, <3>2
  <2>2. sBound => sState \in {"ready", "closing"}
      BY <1>2 DEF ServerLink
  <2> QED BY <2>1, <2>2 DEF Server!ClosedIsClean
<1> QED BY <1>5, <1>6, <1>7, <1>8, <1>9, <1>10

\* ... and implies the invariant that the run checks.
LEMMA EndsAreRight == EndsInv => BridgeInv
    BY AgentIsRight, ServerIsRight
    DEF EndsInv, BridgeInv, BridgeTypeOK, QueueIsTracked, WithinLimits, InOrder, EndsAgree,
        NoStall, ResolvedIsFlushed, ClosedIsClean

\* Whatever the sizes and limits: the two transports keep the count of what waits
\* and the order of the sends, their pumps go on, a send is resolved when it is
\* flushed, and a close leaves no promise, message, timer or callback behind.
THEOREM BridgeInvariant == BridgeSpec => []BridgeInv
<1>1. BridgeSpec => []EndsInv
    BY EndsBegin, EndsStep, PTL DEF BridgeSpec
<1> QED BY <1>1, EndsAreRight, PTL
-----------------------------------------------------------------------------
(***************************************************************************)
(* The reconnect controller, for every number of runs and every bound: it  *)
(* keeps one connection at most, its state has something that drives it,   *)
(* and neither a stop nor a final failure is undone by what an older life  *)
(* of the controller still awaits.                                         *)
(***************************************************************************)
USE NoRunIsNoRun, BoundsAreNats

RunStates == {"idle", "loading", "connecting", "closing"}
Transports == {"none", "starting", "ready", "failing", "leaving", "closing", "closed"}

LEMMA TypeParts ==
    TypeOK <=>
      /\ state \in States /\ life \in 0..MaxLives /\ failures \in 0..MaxFailures
      /\ current \in Runs \cup {NoRun} /\ stable \in Runs \cup {NoRun}
      /\ stopping \in Runs \cup {NoRun}
      /\ backoff \in 0..MaxLives
      /\ pc \in [Runs -> RunStates] /\ rlife \in [Runs -> 0..MaxLives]
      /\ failure \in [Runs -> Kinds \cup {"none"}]
      /\ transport \in [Runs -> Transports]
BY DEF TypeOK, RunStates, Transports

LEMMA InitInv == Init => Inv
BY DEF Init, Inv, TypeOK, OneConnection, StateHasDriver, RunAgrees, CurrentAgrees,
       OneActive, Active, States, Kinds

\* A state other than "connecting" has no run that can still act.
LEMMA NothingActive ==
    ASSUME Inv, state # "connecting"
    PROVE  /\ \A r \in Runs : ~Active(r)
           /\ state # "ready" => current = NoRun
           /\ state \in {"ready", "backoff"} => life > 0
BY DEF Inv, RunAgrees, CurrentAgrees, StateHasDriver, TypeOK

\* A run that can act is the only one, and its life is not over.
LEMMA ActiveIsAlone ==
    ASSUME Inv, NEW r \in Runs, Active(r)
    PROVE  /\ state = "connecting" /\ backoff = 0
           /\ rlife[r] = life /\ life > 0
           /\ \A s \in Runs : s # r => ~Active(s)
BY DEF Inv, RunAgrees, OneActive, StateHasDriver, Active

-----------------------------------------------------------------------------
(* A run begins, and the way a failed one goes on. *)

\* A run begins in a life that has no other one.
LEMMA BeginRunInv ==
    ASSUME Inv, NEW g \in 1..MaxLives, BeginRun(g),
           life' = g, life <= g, current = NoRun,
           \A r \in Runs : pc[r] # "idle" => rlife[r] # g,
           backoff' = 0, failures' \in 0..MaxFailures,
           stable' \in Runs \cup {NoRun}, UNCHANGED <<current, stopping>>
    PROVE  Inv'
<1>1. PICK r \in Runs :
        /\ Free(r)
        /\ pc' = [pc EXCEPT ![r] = "loading"]
        /\ rlife' = [rlife EXCEPT ![r] = g]
        /\ failure' = [failure EXCEPT ![r] = "none"]
        /\ transport' = [transport EXCEPT ![r] = "none"]
        /\ state' = "connecting"
    BY DEF BeginRun
<1>2. TypeOK
    BY DEF Inv
<1>3. TypeOK'
    BY <1>1, <1>2 DEF TypeOK, States
<1>4. /\ pc'[r] = "loading" /\ rlife'[r] = g /\ transport'[r] = "none"
      /\ \A s \in Runs : s # r =>
            /\ pc'[s] = pc[s] /\ rlife'[s] = rlife[s] /\ transport'[s] = transport[s]
    BY <1>1, <1>2 DEF TypeOK
<1>5. Active(r)' /\ \A s \in Runs : s # r => ~Active(s)'
    BY <1>4 DEF Active
<1>6. OneConnection'
    BY <1>4 DEF Inv, OneConnection
<1>7. StateHasDriver'
    BY <1>1, <1>4, <1>5 DEF StateHasDriver, Active
<1>8. RunAgrees' /\ CurrentAgrees' /\ OneActive'
    BY <1>1, <1>2, <1>4, <1>5 DEF Inv, TypeOK, RunAgrees, CurrentAgrees, OneActive
<1> QED BY <1>3, <1>6, <1>7, <1>8 DEF Inv

\* A run ends and its failure is counted, when it was the one that could act or
\* the attempt that was ready.
LEMMA TransitionInv ==
    ASSUME Inv, NEW r \in Runs, NEW kind \in Kinds \cup {"credential-failed",
                                                        "pairing-required"},
           rlife[r] = life, life > 0,
           \A s \in Runs : s # r => ~Active(s),
           current \in {r, NoRun}, backoff = 0,
           \/ kind \in Kinds /\ Transition(kind, rlife[r])
           \/ kind \notin Kinds /\ state' = kind /\ UNCHANGED <<failures, backoff>>,
           current' = NoRun, pc' = [pc EXCEPT ![r] = "idle"],
           \/ transport' = [transport EXCEPT ![r] = "closed"]
           \/ transport[r] = "none" /\ transport' = transport,
           stable' \in Runs \cup {NoRun}, stopping' \in Runs \cup {NoRun},
           UNCHANGED <<life, rlife, failure>>
    PROVE  Inv'
<1>1. TypeOK
    BY DEF Inv
<1>2. /\ state' \in States \ {"idle", "connecting", "ready", "stopped"}
      /\ failures' \in 0..MaxFailures
      /\ state' = "backoff" <=> backoff' # 0
      /\ backoff' \in {0, life}
    BY <1>1 DEF Transition, Kinds, States, TypeOK
<1>3. /\ pc'[r] = "idle" /\ transport'[r] \in {"none", "closed"}
      /\ \A s \in Runs : s # r =>
            pc'[s] = pc[s] /\ transport'[s] = transport[s]
    BY <1>1 DEF TypeOK
<1>4. TypeOK'
    BY <1>1, <1>2 DEF TypeOK
<1>5. \A s \in Runs : ~Active(s)'
    BY <1>3 DEF Active
<1>6. OneConnection'
    BY <1>3 DEF Inv, OneConnection
<1>7. StateHasDriver'
    BY <1>2 DEF StateHasDriver
<1>8. RunAgrees' /\ CurrentAgrees' /\ OneActive'
    BY <1>3, <1>5 DEF Inv, RunAgrees, CurrentAgrees, OneActive
<1> QED BY <1>4, <1>6, <1>7, <1>8 DEF Inv

-----------------------------------------------------------------------------
(* start and stop. *)

LEMMA StartInv == Inv /\ Start => Inv'
<1> SUFFICES ASSUME Inv, Start PROVE Inv'
    OBVIOUS
<1>1. TypeOK
    BY DEF Inv
<1>2. life + 1 \in 1..MaxLives /\ life <= life + 1
    BY <1>1 DEF Start, TypeOK
<1>3. current = NoRun
    BY NothingActive DEF Start
<1>4. \A r \in Runs : pc[r] # "idle" => rlife[r] # life + 1
    BY <1>1 DEF Inv, RunAgrees, TypeOK
<1>5. failures' \in 0..MaxFailures /\ stable' \in Runs \cup {NoRun}
    BY DEF Start
<1> QED BY <1>2, <1>3, <1>4, <1>5, BeginRunInv DEF Start

LEMMA StopInv == Inv /\ Stop => Inv'
<1> SUFFICES ASSUME Inv, Stop PROVE Inv'
    OBVIOUS
<1>1. TypeOK
    BY DEF Inv
<1>2. life' = life + 1 /\ life + 1 \in 1..MaxLives
    BY <1>1 DEF Stop, TypeOK
<1>3. /\ stopping' \in Runs \cup {NoRun} /\ transport' \in [Runs -> Transports]
      /\ \A r \in Runs : \/ transport'[r] = transport[r] /\ r # current
                         \/ r = current /\ transport'[r] \in {"leaving", "closing"}
    BY <1>1 DEF Stop, CloseCurrent, TypeOK, Transports
<1>4. TypeOK'
    BY <1>1, <1>2, <1>3 DEF Stop, TypeOK, States, Transports
<1>5. \A r \in Runs : ~Active(r)'
    BY <1>1, <1>2 DEF Stop, Inv, RunAgrees, TypeOK, Active
<1>6. OneConnection'
    BY <1>3 DEF Stop, Inv, OneConnection
<1>7. StateHasDriver'
    BY DEF Stop, StateHasDriver
<1>8. RunAgrees'
  <2> SUFFICES ASSUME NEW r \in Runs
               PROVE  /\ rlife[r] <= life' /\ (pc[r] # "idle" => rlife[r] > 0)
                      /\ pc[r] = "loading" => transport'[r] = "none"
                      /\ pc[r] = "connecting" =>
                            transport'[r] \in {"starting", "leaving", "closing"}
                      /\ pc[r] = "closing" => transport'[r] = "closing"
      BY <1>5 DEF RunAgrees, Stop
  <2>1. r = current => pc[r] \in {"connecting", "idle"}
      BY DEF Inv, CurrentAgrees
  <2> QED BY <1>1, <1>2, <1>3, <2>1 DEF Inv, RunAgrees, TypeOK
<1>9. CurrentAgrees' /\ OneActive'
    BY <1>5 DEF Stop, CurrentAgrees, OneActive
<1> QED BY <1>4, <1>6, <1>7, <1>8, <1>9 DEF Inv

-----------------------------------------------------------------------------
(* The awaits of a run. *)

LEMMA LoadInv == ASSUME Inv, NEW r \in Runs, Load(r) PROVE Inv'
<1>1. TypeOK /\ pc[r] = "loading" /\ transport[r] = "none"
    BY DEF Inv, RunAgrees, Load
<1>2. CASE ~CurrentLife(r)
  <2>1. /\ pc' = [pc EXCEPT ![r] = "idle"]
        /\ UNCHANGED <<state, life, failures, current, backoff, stable, stopping,
                      rlife, failure, transport>>
      BY <1>2 DEF Load, control
  <2>2. pc'[r] = "idle" /\ \A s \in Runs : s # r => pc'[s] = pc[s]
      BY <1>1, <2>1 DEF TypeOK
  <2>3. \A s \in Runs : Active(s)' <=> Active(s)
      BY <1>2, <2>1, <2>2 DEF Active, CurrentLife
  <2>4. TypeOK' /\ OneConnection'
      BY <1>1, <2>1 DEF Inv, TypeOK, OneConnection
  <2>5. StateHasDriver'
      BY <2>1, <2>3, <2>2 DEF Inv, StateHasDriver, Active
  <2>6. RunAgrees' /\ CurrentAgrees' /\ OneActive'
      BY <1>1, <2>1, <2>2, <2>3 DEF Inv, RunAgrees, CurrentAgrees, OneActive
  <2> QED BY <2>4, <2>5, <2>6 DEF Inv
<1>3. CASE CurrentLife(r)
  <2>1. Active(r)
      BY <1>1, <1>3 DEF Active, CurrentLife
  <2>2. /\ rlife[r] = life /\ life > 0 /\ backoff = 0 /\ state = "connecting"
        /\ current = NoRun /\ \A s \in Runs : s # r => ~Active(s)
      BY <1>1, <2>1, ActiveIsAlone DEF Inv, RunAgrees
  <2>3. CASE /\ state' \in {"credential-failed", "pairing-required"}
             /\ pc' = [pc EXCEPT ![r] = "idle"]
             /\ UNCHANGED <<life, failures, current, backoff, stable, stopping,
                           transport>>
    <3>1. UNCHANGED <<rlife, failure>> /\ state' \notin Kinds
        BY <2>3 DEF Load, Kinds
    <3> QED BY <1>1, <2>2, <2>3, <3>1, TransitionInv, TypeParts
  <2>4. ASSUME NEW k \in Kinds, Transition(k, rlife[r]),
               pc' = [pc EXCEPT ![r] = "idle"],
               UNCHANGED <<life, current, stable, stopping, transport>>
        PROVE  Inv'
    <3>1. UNCHANGED <<rlife, failure>>
        BY DEF Load
    <3> QED BY <1>1, <2>2, <2>4, <3>1, TransitionInv, TypeParts
  <2>5. CASE /\ current' = r
             /\ transport' = [transport EXCEPT ![r] = "starting"]
             /\ pc' = [pc EXCEPT ![r] = "connecting"]
             /\ UNCHANGED <<state, life, failures, backoff, stable, stopping>>
    <3>1. UNCHANGED <<rlife, failure>>
        BY DEF Load
    <3>2. /\ pc'[r] = "connecting" /\ transport'[r] = "starting"
          /\ \A s \in Runs : s # r =>
                pc'[s] = pc[s] /\ transport'[s] = transport[s]
        BY <1>1, <2>5 DEF TypeOK
    <3>3. \A s \in Runs : Active(s)' <=> s = r
        BY <2>2, <2>5, <3>1, <3>2 DEF Active
    <3>4. TypeOK' /\ OneConnection'
        BY <1>1, <2>2, <2>5, <3>1, <3>2 DEF Inv, TypeOK, OneConnection
    <3>5. StateHasDriver'
        BY <2>2, <2>5, <3>1, <3>2 DEF Inv, StateHasDriver
    <3>6. RunAgrees' /\ CurrentAgrees' /\ OneActive'
        BY <1>1, <2>2, <2>5, <3>1, <3>2, <3>3
        DEF Inv, RunAgrees, CurrentAgrees, OneActive
    <3> QED BY <3>4, <3>5, <3>6 DEF Inv
  <2> QED BY <1>3, <2>3, <2>4, <2>5 DEF Load
<1> QED BY <1>2, <1>3

LEMMA ConnectedInv == ASSUME Inv, NEW r \in Runs, Connected(r) PROVE Inv'
<1>1. TypeOK /\ current = r
    BY DEF Inv, OneConnection, Connected
<1>2. /\ life > 0 /\ rlife[r] = life /\ state = "connecting" /\ Active(r)
      /\ backoff = 0 /\ \A s \in Runs : s # r => ~Active(s)
    BY <1>1, ActiveIsAlone DEF Inv, CurrentAgrees, Active, Connected
<1>3. /\ state' = "ready" /\ stable' = r
      /\ UNCHANGED <<life, failures, current, backoff, stopping, rlife, failure>>
    BY <1>1 DEF Connected
<1>4. /\ pc'[r] = "idle" /\ transport'[r] = "ready"
      /\ \A s \in Runs : s # r => pc'[s] = pc[s] /\ transport'[s] = transport[s]
    BY <1>1 DEF Connected, TypeOK
<1>5. \A s \in Runs : ~Active(s)'
    BY <1>2, <1>3, <1>4 DEF Active
<1>6. TypeOK' /\ OneConnection'
    BY <1>1, <1>3, <1>4 DEF Connected, Inv, TypeOK, OneConnection, States
<1>7. StateHasDriver'
    BY <1>1, <1>2, <1>3, <1>4 DEF Inv, StateHasDriver
<1>8. RunAgrees' /\ CurrentAgrees' /\ OneActive'
    BY <1>1, <1>2, <1>3, <1>4, <1>5 DEF Inv, RunAgrees, CurrentAgrees, OneActive
<1> QED BY <1>6, <1>7, <1>8 DEF Inv

LEMMA FailsInv ==
    ASSUME Inv, NEW r \in Runs, NEW kind \in Kinds, Fails(r, kind) PROVE Inv'
<1>1. TypeOK /\ current = r
    BY DEF Inv, OneConnection, Fails
<1>2. UNCHANGED <<state, life, failures, backoff, stopping, rlife>>
    BY DEF Fails
<1>3. /\ life > 0 /\ rlife[r] = life
      /\ failure' \in [Runs -> Kinds \cup {"none"}]
    BY <1>1 DEF Fails, Inv, CurrentAgrees, TypeOK
<1>4. CASE pc[r] = "connecting"
  <2>1. /\ current' = NoRun /\ stable' = NoRun
        /\ transport' = [transport EXCEPT ![r] = "closing"]
        /\ pc' = [pc EXCEPT ![r] = "closing"]
      BY <1>1, <1>4 DEF Fails
  <2>2. /\ pc'[r] = "closing" /\ transport'[r] = "closing"
        /\ \A s \in Runs : s # r => pc'[s] = pc[s] /\ transport'[s] = transport[s]
      BY <1>1, <2>1 DEF TypeOK
  <2>3. \A s \in Runs : Active(s)' <=> Active(s)
      BY <1>2, <1>4, <2>2 DEF Active
  <2>4. Active(r) /\ state = "connecting" /\ \A s \in Runs : s # r => ~Active(s)
      BY <1>3, <1>4, ActiveIsAlone DEF Active
  <2>5. TypeOK' /\ OneConnection'
      BY <1>1, <1>2, <1>3, <2>1, <2>2 DEF Inv, TypeOK, OneConnection
  <2>6. StateHasDriver'
      BY <1>2, <2>2, <2>4, <1>3 DEF Inv, StateHasDriver
  <2>7. RunAgrees' /\ CurrentAgrees' /\ OneActive'
      BY <1>2, <1>3, <2>1, <2>2, <2>3, <2>4 DEF Inv, RunAgrees, CurrentAgrees, OneActive
  <2> QED BY <2>5, <2>6, <2>7 DEF Inv
<1>5. CASE pc[r] # "connecting"
  <2>1. /\ transport' = [transport EXCEPT ![r] = "failing"]
        /\ UNCHANGED <<current, stable, pc>>
      BY <1>5 DEF Fails
  <2>2. /\ transport'[r] = "failing"
        /\ \A s \in Runs : s # r => transport'[s] = transport[s]
      BY <1>1, <2>1 DEF TypeOK
  <2>3. pc[r] = "idle" /\ state = "ready"
      BY <1>1, <1>5 DEF Inv, CurrentAgrees
  <2>4. TypeOK' /\ OneConnection'
      BY <1>1, <1>2, <1>3, <2>1, <2>2 DEF Inv, TypeOK, OneConnection
  <2>5. StateHasDriver'
      BY <1>1, <1>2, <2>1, <2>2, <2>3 DEF Inv, StateHasDriver
  <2>6. RunAgrees' /\ CurrentAgrees' /\ OneActive'
      BY <1>1, <1>2, <2>1, <2>2, <2>3
      DEF Inv, RunAgrees, CurrentAgrees, OneActive, Active
  <2> QED BY <2>4, <2>5, <2>6 DEF Inv
<1> QED BY <1>4, <1>5

LEMMA RemoteClosesInv == ASSUME Inv, NEW r \in Runs, RemoteCloses(r) PROVE Inv'
<1>1. TypeOK /\ current = r
    BY DEF Inv, OneConnection, RemoteCloses
<1>2. UNCHANGED <<state, life, failures, current, backoff, stable, stopping, pc,
                  rlife, failure>>
    BY DEF RemoteCloses, control
<1>3. /\ transport'[r] = "leaving"
      /\ \A s \in Runs : s # r => transport'[s] = transport[s]
    BY <1>1 DEF RemoteCloses, TypeOK
<1>4. TypeOK' /\ OneConnection'
    BY <1>1, <1>2, <1>3 DEF RemoteCloses, Inv, TypeOK, OneConnection
<1>5. StateHasDriver'
    BY <1>1, <1>2, <1>3 DEF Inv, StateHasDriver
<1>6. RunAgrees' /\ CurrentAgrees' /\ OneActive'
    BY <1>1, <1>2, <1>3
    DEF RemoteCloses, Inv, RunAgrees, CurrentAgrees, OneActive, Active
<1> QED BY <1>4, <1>5, <1>6 DEF Inv

LEMMA ClosedInv == ASSUME Inv, NEW r \in Runs, Closed(r) PROVE Inv'
<1>1. /\ TypeOK /\ stopping' \in Runs \cup {NoRun}
      /\ pc' = [pc EXCEPT ![r] = "idle"]
      /\ transport' = [transport EXCEPT ![r] = "closed"]
      /\ UNCHANGED <<life, rlife, failure>>
    BY DEF Inv, Closed, TypeOK
<1>2. FailureOf(r, "retry") \in Kinds
    BY <1>1 DEF FailureOf, Kinds, TypeOK
<1>3. CASE current = r
  <2>1. /\ rlife[r] = life /\ life > 0 /\ backoff = 0
        /\ \A s \in Runs : s # r => ~Active(s)
      BY <1>3, ActiveIsAlone, NothingActive
      DEF Inv, CurrentAgrees, StateHasDriver, Active
  <2>2. current' = NoRun /\ stable' = NoRun /\ Transition(FailureOf(r, "retry"), rlife[r])
      BY <1>3 DEF Closed
  <2> QED BY <1>1, <1>2, <1>3, <2>1, <2>2, TransitionInv
<1>4. CASE current # r /\ pc[r] = "closing" /\ CurrentLife(r)
  <2>1. Active(r)
      BY <1>4 DEF Active, CurrentLife
  <2>2. /\ rlife[r] = life /\ life > 0 /\ backoff = 0 /\ current = NoRun
        /\ \A s \in Runs : s # r => ~Active(s)
      BY <1>4, <2>1, ActiveIsAlone DEF Inv, RunAgrees
  <2>3. /\ UNCHANGED <<current, stable>> /\ Transition(FailureOf(r, "retry"), rlife[r])
      BY <1>4 DEF Closed
  <2>4. stable' \in Runs \cup {NoRun}
      BY <1>1, <2>3 DEF TypeOK
  <2> QED BY <1>1, <1>2, <2>2, <2>3, <2>4, TransitionInv
<1>5. CASE current # r /\ ~(pc[r] = "closing" /\ CurrentLife(r))
  <2>1. UNCHANGED <<current, stable, state, failures, backoff>>
      BY <1>5 DEF Closed
  <2>2. /\ pc'[r] = "idle" /\ transport'[r] = "closed"
        /\ \A s \in Runs : s # r => pc'[s] = pc[s] /\ transport'[s] = transport[s]
      BY <1>1 DEF TypeOK
  <2>3. ~Active(r)
      BY <1>5 DEF Closed, Inv, RunAgrees, Active, CurrentLife, TypeOK
  <2>4. \A s \in Runs : Active(s)' <=> Active(s)
      BY <1>1, <2>2, <2>3 DEF Active
  <2>5. TypeOK' /\ OneConnection'
      BY <1>1, <2>1, <2>2 DEF Inv, TypeOK, OneConnection
  <2>6. StateHasDriver'
      BY <1>1, <1>5, <2>1, <2>2, <2>3 DEF Inv, StateHasDriver, Active, TypeOK
  <2>7. RunAgrees' /\ CurrentAgrees' /\ OneActive'
      BY <1>1, <1>5, <2>1, <2>2, <2>4 DEF Inv, RunAgrees, CurrentAgrees, OneActive, TypeOK
  <2> QED BY <2>5, <2>6, <2>7 DEF Inv
<1> QED BY <1>3, <1>4, <1>5

-----------------------------------------------------------------------------
(* Timers. *)

LEMMA BackoffInv == Inv /\ BackoffFires => Inv'
<1> SUFFICES ASSUME Inv, BackoffFires PROVE Inv'
    OBVIOUS
<1>1. /\ TypeOK /\ state = "backoff" /\ backoff = life
    BY DEF Inv, StateHasDriver, BackoffFires
<1>2. life \in 1..MaxLives /\ current = NoRun
    BY <1>1, NothingActive DEF TypeOK
<1>3. \A r \in Runs : pc[r] # "idle" => rlife[r] # life
    BY <1>1, NothingActive DEF Active
<1> QED BY <1>1, <1>2, <1>3, BeginRunInv DEF BackoffFires, TypeOK

LEMMA StableInv == Inv /\ StableFires => Inv'
<1> SUFFICES ASSUME Inv, StableFires PROVE Inv'
    OBVIOUS
<1>1. /\ UNCHANGED <<state, life, current, backoff, stopping, pc, rlife, failure,
                     transport>>
      /\ stable' = NoRun /\ failures' \in {0, failures}
    BY DEF StableFires, runs
<1> QED BY <1>1 DEF Inv, TypeOK, OneConnection, StateHasDriver, RunAgrees,
                    CurrentAgrees, OneActive, Active

LEMMA InvStep == Inv /\ [Next]_vars => Inv'
<1> SUFFICES ASSUME Inv, [Next]_vars PROVE Inv'
    OBVIOUS
<1>1. ASSUME NEW r \in Runs, RunStep(r) PROVE Inv'
    BY <1>1, LoadInv, ConnectedInv, FailsInv, RemoteClosesInv, ClosedInv DEF RunStep
<1>2. CASE UNCHANGED vars
    BY <1>2 DEF vars, control, runs, Inv, TypeOK, OneConnection, StateHasDriver,
                RunAgrees, CurrentAgrees, OneActive, Active
<1> QED BY <1>1, <1>2, StartInv, StopInv, BackoffInv, StableInv DEF Next

\* One connection at most and a state with its driver, after any starts, stops,
\* failures and late answers: what every await of local-bridge-reconnect.ts relies
\* on.
THEOREM ReconnectInvariant == Spec => []Inv
BY InitInv, InvStep, PTL DEF Spec

-----------------------------------------------------------------------------
(* What a step may not do. *)

\* A stop and a final failure stand until the next start or stop: the checks of
\* the lifecycle generation after each await suffice.
THEOREM FinalStaysAlways == Spec => FinalStays
<1> DEFINE A == (state \in Final /\ state' # state) =>
                  life' = life + 1 /\ state' \in {"connecting", "stopped"}
<1>1. Inv /\ Next => A
  <2> SUFFICES ASSUME Inv, Next, state \in Final
               PROVE  \/ state' = state
                      \/ life' = life + 1 /\ state' \in {"connecting", "stopped"}
      OBVIOUS
  <2>1. state # "connecting" /\ state # "ready" /\ state # "backoff"
      BY DEF Final
  <2>2. (\A r \in Runs : ~Active(r)) /\ current = NoRun
      BY <2>1, NothingActive
  <2>3. CASE Start
      BY <2>3 DEF Start, BeginRun
  <2>4. CASE Stop
      BY <2>4 DEF Stop
  <2>5. CASE BackoffFires
      BY <2>1, <2>5 DEF BackoffFires
  <2>6. CASE StableFires
      BY <2>6 DEF StableFires
  <2>7. ASSUME NEW r \in Runs, RunStep(r) PROVE state' = state
    <3>1. current # r
        BY <2>2
    <3>2. CASE Load(r)
        BY <2>2, <3>2 DEF Load, Active, CurrentLife, control
    <3>3. CASE Connected(r)
        BY <3>1, <3>3 DEF Connected
    <3>4. CASE RemoteCloses(r)
        BY <3>4 DEF RemoteCloses, control
    <3>5. CASE Closed(r)
        BY <2>2, <3>1, <3>5 DEF Closed, Active, CurrentLife
    <3>6. ASSUME NEW k \in Kinds, Fails(r, k) PROVE state' = state
        BY <3>6 DEF Fails
    <3> QED BY <2>7, <3>2, <3>3, <3>4, <3>5, <3>6 DEF RunStep
  <2> QED BY <2>3, <2>4, <2>5, <2>6, <2>7 DEF Next
<1> HIDE DEF A
<1>2. Inv /\ [Next]_vars => [A]_vars
    BY <1>1
<1>3. Spec => [][A]_vars
    BY <1>2, ReconnectInvariant, PTL DEF Spec
<1> QED BY <1>3 DEF FinalStays, A

\* The delay between attempts is set back only by a new start or by a connection
\* that was still the ready one when the timer of a stable connection fired.
THEOREM ResetOnlyWhenStableAlways == Spec => ResetOnlyWhenStable
<1> DEFINE A == failures' < failures =>
                  \/ life' = life + 1
                  \/ /\ state = "ready"
                     /\ transport[current] \in {"ready", "failing", "leaving"}
<1>1. Inv /\ Next => A
  <2> SUFFICES ASSUME Inv, Next PROVE A
      OBVIOUS
  <2>1. failures \in Nat
      BY DEF Inv, TypeOK
  <2>2. CASE Start \/ Stop
      BY <2>2 DEF Start, Stop
  <2>3. CASE BackoffFires
      BY <2>1, <2>3 DEF BackoffFires
  <2>4. CASE StableFires
      BY <2>1, <2>4 DEF StableFires, Inv, StateHasDriver
  <2>5. ASSUME NEW r \in Runs, RunStep(r) PROVE ~(failures' < failures)
      BY <2>1, <2>5 DEF RunStep, Load, Connected, RemoteCloses, Closed, Fails, control,
                        Transition
  <2> QED BY <2>1, <2>2, <2>3, <2>4, <2>5 DEF Next, Inv, TypeOK
<1> HIDE DEF A
<1>2. Inv /\ [Next]_vars => [A]_vars
    BY <1>1
<1>3. Spec => [][A]_vars
    BY <1>2, ReconnectInvariant, PTL DEF Spec
<1> QED BY <1>3 DEF ResetOnlyWhenStable, A
=============================================================================
