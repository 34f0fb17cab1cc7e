--------------------------- MODULE AgentToolsProofs ---------------------------
(***************************************************************************)
(* Proofs about the tools of the agent, for every value of the constants:  *)
(* the file tools (FileTools, FileReads), for every initial workspace,     *)
(* every set of requests and every limit, and shell.exec (ShellExec).      *)
(*                                                                         *)
(* Of the file tools, ToolsInv is inductive for the calls that change a    *)
(* workspace: the tree stays a tree, a file is at one place, and what a    *)
(* call has at its temporary path is its own.  ReadersInv adds the reader: *)
(* what it noted still holds of what has stayed, and every path it has to  *)
(* find is found, queued, listed or at hand.  The steps of the calls keep  *)
(* the second because a settled file does not change (Stable).             *)
(*                                                                         *)
(* The file begins with the paths and the trees themselves.                *)
(***************************************************************************)
EXTENDS FileReads, ShellExec, TLAPS, SequenceTheorems

(***************************************************************************)
(* Paths.                                                                  *)
(***************************************************************************)
AnyName == Names \cup Calls

LEMMA SubPath ==
    ASSUME NEW S, NEW s \in Seq(S), NEW m \in 1 .. Len(s) + 1, NEW n \in Nat, n <= Len(s)
    PROVE  /\ SubSeq(s, m, n) \in Seq(S)
           /\ Len(SubSeq(s, m, n)) = IF m <= n THEN n - m + 1 ELSE 0
           /\ \A i \in 1 .. n - m + 1 : SubSeq(s, m, n)[i] = s[m + i - 1]
<1>1. Len(s) \in Nat /\ \A i \in 1 .. Len(s) : s[i] \in S
    BY LenProperties, ElementOfSeq
<1>2. m \in Int /\ n \in Int /\ \A i \in m .. n : s[i] \in S
    BY <1>1
<1> QED BY <1>2, SubSeqProperties

LEMMA SamePath ==
    ASSUME NEW S, NEW s \in Seq(S), NEW t \in Seq(S), Len(s) = Len(t),
           \A i \in 1 .. Len(s) : s[i] = t[i]
    PROVE  s = t
BY SeqEqual

\* A prefix is shorter and agrees in every place.
LEMMA PrefixPlaces ==
    ASSUME NEW S, NEW s \in Seq(S), NEW t \in Seq(S)
    PROVE  IsPrefix(s, t) <=> Len(s) <= Len(t) /\ \A i \in 1 .. Len(s) : s[i] = t[i]
<1> USE LenProperties
<1>1. ASSUME Len(s) <= Len(t)
      PROVE  SubSeq(s, 1, Len(s)) = SubSeq(t, 1, Len(s))
                <=> \A i \in 1 .. Len(s) : s[i] = t[i]
  <2>1. /\ SubSeq(s, 1, Len(s)) = s
      BY SubSeqFull
  <2>2. /\ SubSeq(t, 1, Len(s)) \in Seq(S)
        /\ Len(SubSeq(t, 1, Len(s))) = Len(s)
        /\ \A i \in 1 .. Len(s) : SubSeq(t, 1, Len(s))[i] = t[i]
      BY <1>1, SubPath
  <2>3. ASSUME \A i \in 1 .. Len(s) : s[i] = t[i]
        PROVE  s = SubSeq(t, 1, Len(s))
      BY <2>2, <2>3, SamePath
  <2> QED BY <2>1, <2>2, <2>3
<1> QED BY <1>1 DEF IsPrefix

\* The prefixes of a path are its beginnings.
LEMMA PrefixIsBeginning ==
    ASSUME NEW S, NEW s \in Seq(S), NEW t \in Seq(S), IsPrefix(s, t)
    PROVE  s = SubSeq(t, 1, Len(s)) /\ Len(s) \in 0 .. Len(t)
<1>1. Len(s) <= Len(t) /\ Len(s) \in Nat /\ Len(t) \in Nat
    BY LenProperties DEF IsPrefix
<1>2. SubSeq(s, 1, Len(s)) = s
    BY SubSeqFull
<1> QED BY <1>1, <1>2 DEF IsPrefix

LEMMA BeginningIsPrefix ==
    ASSUME NEW S, NEW t \in Seq(S), NEW n \in 0 .. Len(t)
    PROVE  /\ SubSeq(t, 1, n) \in Seq(S) /\ Len(SubSeq(t, 1, n)) = n
           /\ IsPrefix(SubSeq(t, 1, n), t)
           /\ \A i \in 1 .. n : SubSeq(t, 1, n)[i] = t[i]
<1>1. Len(t) \in Nat
    BY LenProperties
<1> DEFINE b == SubSeq(t, 1, n)
<1>2. b \in Seq(S) /\ Len(b) = n /\ \A i \in 1 .. n : b[i] = t[i]
    BY <1>1, SubPath
<1> HIDE DEF b
<1>3. IsPrefix(b, t)
    BY <1>1, <1>2, PrefixPlaces
<1> QED BY <1>2, <1>3 DEF b

LEMMA PrefixOrder ==
    ASSUME NEW S
    PROVE  /\ \A s \in Seq(S) : IsPrefix(s, s) /\ IsPrefix(<<>>, s)
           /\ \A s, t \in Seq(S) : IsPrefix(s, t) /\ Len(s) = Len(t) => s = t
           /\ \A s, t \in Seq(S) : IsPrefix(s, t) /\ s # t => Len(s) < Len(t)
           /\ \A s, t, u \in Seq(S) : IsPrefix(s, t) /\ IsPrefix(t, u) => IsPrefix(s, u)
           /\ \A s, t, u \in Seq(S) :
                IsPrefix(s, u) /\ IsPrefix(t, u) /\ Len(s) <= Len(t) => IsPrefix(s, t)
<1>1. <<>> \in Seq(S) /\ Len(<<>>) = 0
    BY EmptySeq
<1>2. \A s \in Seq(S) : IsPrefix(s, s) /\ IsPrefix(<<>>, s)
  <2> TAKE s \in Seq(S)
  <2>1. Len(s) \in Nat
      BY LenProperties
  <2>2. IsPrefix(s, s)
      BY <2>1, PrefixPlaces
  <2>3. ASSUME NEW e \in Seq(S), Len(e) = 0 PROVE IsPrefix(e, s)
    <3>1. Len(e) <= Len(s) /\ \A i \in 1 .. Len(e) : e[i] = s[i]
        BY <2>1, <2>3
    <3> QED BY <3>1, PrefixPlaces
  <2> QED BY <1>1, <2>2, <2>3
<1>3. \A s, t \in Seq(S) : IsPrefix(s, t) /\ Len(s) = Len(t) => s = t
    BY PrefixPlaces, SamePath
<1>4. \A s, t \in Seq(S) : IsPrefix(s, t) /\ s # t => Len(s) < Len(t)
    BY <1>3, LenProperties DEF IsPrefix
<1>5. \A s, t, u \in Seq(S) : IsPrefix(s, t) /\ IsPrefix(t, u) => IsPrefix(s, u)
  <2> TAKE s, t, u \in Seq(S)
  <2> HAVE IsPrefix(s, t) /\ IsPrefix(t, u)
  <2>1. /\ Len(s) <= Len(t) /\ \A i \in 1 .. Len(s) : s[i] = t[i]
        /\ Len(t) <= Len(u) /\ \A i \in 1 .. Len(t) : t[i] = u[i]
      BY PrefixPlaces
  <2>2. Len(s) \in Nat /\ Len(t) \in Nat /\ Len(u) \in Nat
      BY LenProperties
  <2>3. Len(s) <= Len(u) /\ \A i \in 1 .. Len(s) : s[i] = u[i]
      BY <2>1, <2>2
  <2> QED BY <2>3, PrefixPlaces
<1>6. \A s, t, u \in Seq(S) :
         IsPrefix(s, u) /\ IsPrefix(t, u) /\ Len(s) <= Len(t) => IsPrefix(s, t)
  <2> TAKE s, t, u \in Seq(S)
  <2> HAVE IsPrefix(s, u) /\ IsPrefix(t, u) /\ Len(s) <= Len(t)
  <2>1. /\ \A i \in 1 .. Len(s) : s[i] = u[i]
        /\ \A i \in 1 .. Len(t) : t[i] = u[i]
      BY PrefixPlaces
  <2>2. Len(s) \in Nat /\ Len(t) \in Nat
      BY LenProperties
  <2>3. \A i \in 1 .. Len(s) : s[i] = t[i]
      BY <2>1, <2>2
  <2> QED BY <2>3, PrefixPlaces
<1> QED BY <1>2, <1>3, <1>4, <1>5, <1>6

\* A beginning of a beginning is one.
LEMMA BeginningOfBeginning ==
    ASSUME NEW S, NEW t \in Seq(S), NEW n \in 0 .. Len(t), NEW k \in 0 .. n
    PROVE  SubSeq(SubSeq(t, 1, n), 1, k) = SubSeq(t, 1, k)
<1>1. Len(t) \in Nat
    BY LenProperties
<1>2. /\ SubSeq(t, 1, n) \in Seq(S) /\ Len(SubSeq(t, 1, n)) = n
      /\ \A i \in 1 .. n : SubSeq(t, 1, n)[i] = t[i]
    BY BeginningIsPrefix
<1>3. k \in 0 .. Len(t) /\ k \in 0 .. Len(SubSeq(t, 1, n))
    BY <1>1, <1>2
<1>4. /\ SubSeq(t, 1, k) \in Seq(S) /\ Len(SubSeq(t, 1, k)) = k
      /\ \A i \in 1 .. k : SubSeq(t, 1, k)[i] = t[i]
    BY <1>3, BeginningIsPrefix
<1>5. /\ SubSeq(SubSeq(t, 1, n), 1, k) \in Seq(S) /\ Len(SubSeq(SubSeq(t, 1, n), 1, k)) = k
      /\ \A i \in 1 .. k : SubSeq(SubSeq(t, 1, n), 1, k)[i] = SubSeq(t, 1, n)[i]
    BY <1>2, <1>3, BeginningIsPrefix
<1>6. \A i \in 1 .. k : SubSeq(SubSeq(t, 1, n), 1, k)[i] = SubSeq(t, 1, k)[i]
    BY <1>2, <1>4, <1>5
<1> QED BY <1>4, <1>5, <1>6, SamePath

\* The path p with its prefix from replaced by to.
Moved(from, to, p) == to \o SubSeq(p, Len(from) + 1, Len(p))

LEMMA MovedPath ==
    ASSUME NEW S, NEW from \in Seq(S), NEW to \in Seq(S), NEW p \in Seq(S),
           IsPrefix(from, p)
    PROVE  /\ Moved(from, to, p) \in Seq(S)
           /\ Len(Moved(from, to, p)) = Len(to) + Len(p) - Len(from)
           /\ IsPrefix(to, Moved(from, to, p))
           /\ \A i \in 1 .. Len(to) : Moved(from, to, p)[i] = to[i]
           /\ \A i \in Int : i > Len(to) /\ i <= Len(to) + Len(p) - Len(from) =>
                Moved(from, to, p)[i] = p[i - Len(to) + Len(from)]
<1> DEFINE rest == SubSeq(p, Len(from) + 1, Len(p))
<1>1. /\ Len(from) <= Len(p) /\ Len(from) \in Nat /\ Len(p) \in Nat /\ Len(to) \in Nat
    BY LenProperties DEF IsPrefix
<1>2. /\ rest \in Seq(S) /\ Len(rest) = Len(p) - Len(from)
      /\ \A i \in 1 .. Len(p) - Len(from) : rest[i] = p[Len(from) + i]
  <2>1. Len(from) + 1 \in 1 .. Len(p) + 1
      BY <1>1
  <2>2. /\ rest \in Seq(S)
        /\ Len(rest) = IF Len(from) + 1 <= Len(p) THEN Len(p) - (Len(from) + 1) + 1 ELSE 0
        /\ \A i \in 1 .. Len(p) - (Len(from) + 1) + 1 : rest[i] = p[Len(from) + 1 + i - 1]
      BY <2>1, <1>1, SubPath
  <2> QED BY <1>1, <2>2
<1> HIDE DEF rest
<1>3. /\ to \o rest \in Seq(S)
      /\ Len(to \o rest) = Len(to) + Len(rest)
      /\ \A i \in 1 .. Len(to) + Len(rest) : (to \o rest)[i] =
            IF i <= Len(to) THEN to[i] ELSE rest[i - Len(to)]
    BY <1>2, ConcatProperties
<1>4. Moved(from, to, p) = to \o rest
    BY DEF Moved, rest
<1>5. \A i \in 1 .. Len(to) : (to \o rest)[i] = to[i]
    BY <1>1, <1>2, <1>3
<1>6. IsPrefix(to, to \o rest)
  <2>1. ASSUME NEW m \in Seq(S), Len(to) <= Len(m),
               \A i \in 1 .. Len(to) : m[i] = to[i]
        PROVE  IsPrefix(to, m)
      BY <2>1, <1>1, PrefixPlaces
  <2>2. Len(to) <= Len(to \o rest)
      BY <1>1, <1>2, <1>3
  <2> QED BY <1>3, <1>5, <2>1, <2>2
<1>7. ASSUME NEW i \in Int, i > Len(to), i <= Len(to) + Len(p) - Len(from)
      PROVE  (to \o rest)[i] = p[i - Len(to) + Len(from)]
  <2>1. (to \o rest)[i] = rest[i - Len(to)]
      BY <1>1, <1>2, <1>3, <1>7
  <2>2. i - Len(to) \in 1 .. Len(p) - Len(from)
      BY <1>1, <1>7
  <2>3. rest[i - Len(to)] = p[Len(from) + (i - Len(to))]
      BY <1>2, <2>2
  <2>4. Len(from) + (i - Len(to)) = i - Len(to) + Len(from)
      BY <1>1
  <2> QED BY <2>1, <2>3, <2>4
<1> QED BY <1>1, <1>2, <1>3, <1>4, <1>5, <1>6, <1>7

\* Moving back gives the path.
LEMMA MovedBack ==
    ASSUME NEW S, NEW from \in Seq(S), NEW to \in Seq(S), NEW p \in Seq(S),
           IsPrefix(from, p)
    PROVE  Moved(to, from, Moved(from, to, p)) = p
<1> DEFINE m == Moved(from, to, p)
           b == Moved(to, from, m)
<1>0. Len(from) \in Nat /\ Len(p) \in Nat /\ Len(to) \in Nat /\ Len(from) <= Len(p)
    BY LenProperties DEF IsPrefix
<1>1. /\ m \in Seq(S) /\ Len(m) = Len(to) + Len(p) - Len(from) /\ IsPrefix(to, m)
    BY MovedPath
<1>a. /\ \A i \in Int : i > Len(to) /\ i <= Len(to) + Len(p) - Len(from) =>
            m[i] = p[i - Len(to) + Len(from)]
    BY MovedPath
<1> HIDE DEF m
<1>2. /\ b \in Seq(S) /\ Len(b) = Len(from) + Len(m) - Len(to)
    BY <1>1, MovedPath
<1>b. /\ \A i \in 1 .. Len(from) : b[i] = from[i]
    BY <1>1, MovedPath
<1>c. /\ \A i \in Int : i > Len(from) /\ i <= Len(from) + Len(m) - Len(to) =>
            b[i] = m[i - Len(from) + Len(to)]
    BY <1>1, MovedPath, ZenonT(30)
<1> HIDE DEF b
<1>3. Len(b) = Len(p)
    BY <1>0, <1>1, <1>2
<1>4. ASSUME NEW i \in 1 .. Len(p) PROVE b[i] = p[i]
  <2>1. CASE i <= Len(from)
    <3>1. i \in 1 .. Len(from) /\ from[i] = p[i]
        BY <2>1, <1>0, PrefixPlaces
    <3> QED BY <1>b, <3>1
  <2>2. CASE i > Len(from)
    <3> DEFINE j == i - Len(from) + Len(to)
    <3>1. i > Len(from) /\ i <= Len(from) + Len(m) - Len(to) /\ i \in Int
        BY <2>2, <1>0, <1>1
    <3>2. b[i] = m[j]
        BY <1>c, <3>1
    <3>3. j \in Int /\ j > Len(to) /\ j <= Len(to) + Len(p) - Len(from) /\ j - Len(to) + Len(from) = i
        BY <2>2, <1>0
    <3> HIDE DEF j
    <3>4. m[j] = p[j - Len(to) + Len(from)]
        BY <1>a, <3>3
    <3> QED BY <3>2, <3>3, <3>4
  <2> QED BY <2>1, <2>2, <1>0
<1>5. b = p
    BY <1>2, <1>3, <1>4, SamePath
<1> QED BY <1>5 DEF b, m

\* The beginnings of a moved path are those of the new place, and moved ones.
LEMMA MovedBeginning ==
    ASSUME NEW S, NEW from \in Seq(S), NEW to \in Seq(S), NEW p \in Seq(S),
           IsPrefix(from, p), NEW k \in 0 .. Len(to) + Len(p) - Len(from)
    PROVE  /\ k <= Len(to) => SubSeq(Moved(from, to, p), 1, k) = SubSeq(to, 1, k)
           /\ k >= Len(to) =>
                LET n == k - Len(to) + Len(from) IN
                /\ n \in Len(from) .. Len(p)
                /\ IsPrefix(from, SubSeq(p, 1, n))
                /\ SubSeq(Moved(from, to, p), 1, k) = Moved(from, to, SubSeq(p, 1, n))
<1> DEFINE m == Moved(from, to, p)
<1>0. Len(from) \in Nat /\ Len(p) \in Nat /\ Len(to) \in Nat /\ Len(from) <= Len(p)
    BY LenProperties DEF IsPrefix
<1>1. /\ m \in Seq(S) /\ Len(m) = Len(to) + Len(p) - Len(from)
    BY MovedPath
<1>a. /\ \A i \in 1 .. Len(to) : m[i] = to[i]
    BY MovedPath
<1>b. /\ \A i \in Int : i > Len(to) /\ i <= Len(to) + Len(p) - Len(from) =>
            m[i] = p[i - Len(to) + Len(from)]
    BY MovedPath
<1> HIDE DEF m
<1> DEFINE b == SubSeq(m, 1, k)
<1>2. /\ b \in Seq(S) /\ Len(b) = k /\ \A i \in 1 .. k : b[i] = m[i]
    BY <1>0, <1>1, BeginningIsPrefix
<1> HIDE DEF b
<1>3. ASSUME k <= Len(to) PROVE b = SubSeq(to, 1, k)
  <2>1. /\ SubSeq(to, 1, k) \in Seq(S) /\ Len(SubSeq(to, 1, k)) = k
        /\ \A i \in 1 .. k : SubSeq(to, 1, k)[i] = to[i]
      BY <1>0, <1>3, BeginningIsPrefix
  <2>2. \A i \in 1 .. k : b[i] = SubSeq(to, 1, k)[i]
      BY <1>0, <1>a, <1>2, <1>3, <2>1
  <2> QED BY <1>2, <2>1, <2>2, SamePath
<1>4. ASSUME k >= Len(to), NEW n, n = k - Len(to) + Len(from)
      PROVE  n \in Len(from) .. Len(p) /\ IsPrefix(from, SubSeq(p, 1, n))
             /\ b = Moved(from, to, SubSeq(p, 1, n))
  <2> DEFINE q == SubSeq(p, 1, n)
             c == Moved(from, to, q)
  <2>1. n \in Len(from) .. Len(p) /\ n \in 0 .. Len(p)
      BY <1>0, <1>4
  <2>2. q \in Seq(S) /\ Len(q) = n /\ IsPrefix(q, p) /\ \A i \in 1 .. n : q[i] = p[i]
      BY <2>1, BeginningIsPrefix
  <2> HIDE DEF q
  <2>3. IsPrefix(from, q)
      BY <1>0, <2>1, <2>2, PrefixOrder
  <2>4. /\ c \in Seq(S) /\ Len(c) = Len(to) + Len(q) - Len(from)
      BY <2>2, <2>3, MovedPath
  <2>a. /\ \A i \in 1 .. Len(to) : c[i] = to[i]
      BY <2>2, <2>3, MovedPath
  <2>b. /\ \A i \in Int : i > Len(to) /\ i <= Len(to) + Len(q) - Len(from) =>
              c[i] = q[i - Len(to) + Len(from)]
      BY <2>2, <2>3, MovedPath, ZenonT(30)
  <2> HIDE DEF c
  <2>5. Len(c) = k
    <3>1. Len(c) = Len(to) + n - Len(from) /\ n = k - Len(to) + Len(from) /\ k \in Int
        BY <1>0, <1>4, <2>2, <2>4
    <3> QED BY <3>1, <1>0
  <2>6. ASSUME NEW i \in 1 .. k PROVE b[i] = c[i]
    <3>1. CASE i <= Len(to)
      <4>1. i \in 1 .. Len(to)
          BY <3>1, <1>0
      <4>2. b[i] = m[i] /\ m[i] = to[i] /\ c[i] = to[i]
          BY <4>1, <1>a, <1>2, <2>a
      <4> QED BY <4>2
    <3>2. CASE i > Len(to)
      <4>1. /\ i \in Int /\ i > Len(to)
            /\ i <= Len(to) + Len(p) - Len(from) /\ i <= Len(to) + Len(q) - Len(from)
            /\ i - Len(to) + Len(from) \in 1 .. n
          BY <3>2, <1>0, <1>4, <2>1, <2>2
      <4> HIDE <1>4
      <4>2. b[i] = p[i - Len(to) + Len(from)]
          BY <4>1, <1>b, <1>2
      <4>3. c[i] = q[i - Len(to) + Len(from)]
          BY <4>1, <2>b
      <4> QED BY <4>1, <4>2, <4>3, <2>2
    <3> QED BY <3>1, <3>2, <1>0
  <2>7. b = c
      BY <1>2, <2>4, <2>5, <2>6, SamePath
  <2> QED BY <2>1, <2>3, <2>7 DEF q, c
<1> QED BY <1>3, <1>4 DEF b, m
-----------------------------------------------------------------------------
(***************************************************************************)
(* The paths of the workspace: names, and at the end perhaps the name of a *)
(* call.                                                                   *)
(***************************************************************************)
LEMMA PathFacts ==
    /\ Paths \subseteq Seq(AnyName) /\ Seq(Names) \subseteq Paths
    /\ Seq(Names) \subseteq Seq(AnyName) /\ <<>> \in Paths
    /\ \A p \in Paths : Len(p) \in Nat /\ (p # <<>> => Len(p) > 0)
<1>1. Paths \subseteq Seq(AnyName)
    BY DEF Paths, AnyName
<1>2. Seq(Names) \subseteq Seq(AnyName)
    BY SeqMonotonic DEF AnyName
<1>3. ASSUME NEW p \in Seq(Names) PROVE p \in Paths
  <2>1. \A n \in 1 .. Len(p) : p[n] \in Names
      BY ElementOfSeq
  <2>2. \A n \in 1 .. Len(p) - 1 : p[n] \in Names
      BY <2>1, LenProperties
  <2> QED BY <2>2, <1>2 DEF Paths, AnyName
<1>4. <<>> \in Seq(Names)
    BY EmptySeq
<1>5. ASSUME NEW p \in Seq(AnyName) PROVE Len(p) \in Nat /\ (p # <<>> => Len(p) > 0)
    BY LenProperties, EmptySeq
<1> QED BY <1>1, <1>2, <1>3, <1>4, <1>5

\* What is above a path is named by Names.
LEMMA AbovePath ==
    ASSUME NEW p \in Paths, NEW n \in 0 .. Len(p) - 1
    PROVE  SubSeq(p, 1, n) \in Seq(Names) /\ SubSeq(p, 1, n) \in Paths
<1>1. p \in Seq(AnyName) /\ Len(p) \in Nat
    BY PathFacts
<1>2. \A i \in 1 .. n : p[i] \in Names
    BY <1>1 DEF Paths
<1>3. SubSeq(p, 1, n) \in Seq(Names)
    BY <1>1, <1>2, SubSeqProperties
<1> QED BY <1>3, PathFacts

LEMMA PrefixInPaths ==
    ASSUME NEW p \in Paths, NEW s \in Seq(AnyName), IsPrefix(s, p)
    PROVE  s \in Paths /\ (s # p => s \in Seq(Names))
<1>1. p \in Seq(AnyName) /\ Len(p) \in Nat
    BY PathFacts
<1>2. s = SubSeq(p, 1, Len(s)) /\ Len(s) \in 0 .. Len(p)
    BY <1>1, PrefixIsBeginning
<1>3. ASSUME s # p PROVE Len(s) \in 0 .. Len(p) - 1
  <2>1. Len(s) < Len(p)
      BY <1>1, <1>3, PrefixOrder
  <2> QED BY <1>1, <1>2, <2>1
<1>4. ASSUME s # p PROVE s \in Seq(Names) /\ s \in Paths
    BY <1>2, <1>3, <1>4, AbovePath
<1> QED BY <1>4

\* A temporary path is next to the path of its call.
LEMMA TemporaryFacts ==
    ASSUME NEW p \in Seq(Names), p # <<>>, NEW c \in Calls
    PROVE  LET t == Append(Front(p), c) IN
           /\ t \in Paths /\ t # <<>> /\ Len(t) = Len(p) /\ Last(t) = c
           /\ Front(t) = Front(p) /\ t # p /\ IsTemporary(t) /\ ~IsTemporary(p)
<1> DEFINE f == Front(p)
           t == Append(f, c)
<1>1. Len(p) \in Nat /\ Len(p) > 0 /\ p \in Paths
    BY PathFacts
<1>2. f \in Seq(Names) /\ Len(f) = Len(p) - 1
  <2>1. Len(p) - 1 \in 0 .. Len(p)
      BY <1>1
  <2> QED BY <2>1, BeginningIsPrefix DEF Front
<1>3. f \in Seq(AnyName) /\ c \in AnyName
    BY <1>2, PathFacts DEF AnyName
<1> HIDE DEF f
<1>4. /\ t \in Seq(AnyName) /\ t # <<>> /\ Len(t) = Len(f) + 1
      /\ \A i \in 1 .. Len(f) : t[i] = f[i]
      /\ t[Len(f) + 1] = c
    BY <1>3, AppendProperties
<1> HIDE DEF t
<1>5. Len(t) = Len(p)
    BY <1>1, <1>2, <1>4
<1>6. Last(t) = c
    BY <1>4 DEF Last
<1>7. t \in Paths
  <2>1. \A i \in 1 .. Len(f) : f[i] \in Names
      BY <1>2, ElementOfSeq
  <2>2. \A i \in 1 .. Len(t) - 1 : t[i] \in Names
      BY <2>1, <1>1, <1>2, <1>4
  <2> QED BY <2>2, <1>4 DEF Paths, AnyName
<1>8. Front(t) = f
  <2> DEFINE g == SubSeq(t, 1, Len(f))
  <2>1. Len(f) \in 0 .. Len(t)
      BY <1>1, <1>2, <1>4
  <2>2. /\ g \in Seq(AnyName) /\ Len(g) = Len(f) /\ \A i \in 1 .. Len(f) : g[i] = t[i]
      BY <1>4, <2>1, BeginningIsPrefix
  <2>3. Len(t) - 1 = Len(f)
      BY <1>1, <1>2, <1>4
  <2>4. Front(t) = g
      BY <2>3 DEF Front
  <2> HIDE DEF g
  <2>5. \A i \in 1 .. Len(g) : g[i] = f[i]
      BY <1>4, <2>2
  <2>6. g = f
      BY <1>3, <2>2, <2>5, SamePath
  <2> QED BY <2>4, <2>6
<1>9. Last(p) \in Names
    BY <1>1, ElementOfSeq DEF Last
<1>10. IsTemporary(t) /\ ~IsTemporary(p) /\ t # p
    BY <1>4, <1>6, <1>9, FileToolsAssumption DEF IsTemporary
<1> QED BY <1>4, <1>5, <1>6, <1>7, <1>8, <1>10 DEF f, t

LEMMA NamedIsNotTemporary ==
    ASSUME NEW p \in Seq(Names)
    PROVE  ~IsTemporary(p)
<1>1. CASE p # <<>>
  <2>1. Len(p) \in Nat /\ Len(p) > 0
      BY <1>1, PathFacts
  <2>2. Last(p) \in Names
      BY <2>1, ElementOfSeq DEF Last
  <2> QED BY <2>2, FileToolsAssumption DEF IsTemporary
<1> QED BY <1>1 DEF IsTemporary

\* A moved path is a path, and temporary when it was, unless it is the new place.
LEMMA MovedInPaths ==
    ASSUME NEW from \in Paths, NEW to \in Seq(Names), NEW p \in Paths, IsPrefix(from, p)
    PROVE  /\ Moved(from, to, p) \in Paths
           /\ p = from => Moved(from, to, p) = to
           /\ p # from => /\ Moved(from, to, p) # to /\ Moved(from, to, p) # <<>>
                          /\ Last(Moved(from, to, p)) = Last(p)
                          /\ p # <<>>
<1> DEFINE m == Moved(from, to, p)
<1>0. /\ from \in Seq(AnyName) /\ to \in Seq(AnyName) /\ p \in Seq(AnyName)
      /\ Len(from) \in Nat /\ Len(p) \in Nat /\ Len(to) \in Nat /\ Len(from) <= Len(p)
    BY PathFacts DEF IsPrefix
<1>1. m \in Seq(AnyName) /\ Len(m) = Len(to) + Len(p) - Len(from)
    BY <1>0, MovedPath
<1>2. \A i \in 1 .. Len(to) : m[i] = to[i]
    BY <1>0, MovedPath
<1>3. \A i \in Int : i > Len(to) /\ i <= Len(to) + Len(p) - Len(from) =>
            m[i] = p[i - Len(to) + Len(from)]
    BY <1>0, MovedPath
<1> HIDE DEF m
<1>4. ASSUME NEW i \in 1 .. Len(m) - 1 PROVE m[i] \in Names
  <2>1. CASE i <= Len(to)
      BY <2>1, <1>0, <1>2, ElementOfSeq
  <2>2. CASE i > Len(to)
    <3> DEFINE j == i - Len(to) + Len(from)
    <3>1. m[i] = p[j] /\ j \in 1 .. Len(p) - 1
        BY <2>2, <1>0, <1>1, <1>3
    <3> QED BY <3>1 DEF Paths
  <2> QED BY <2>1, <2>2, <1>0
<1>5. m \in Paths
    BY <1>1, <1>4 DEF Paths, AnyName
<1>6. ASSUME p = from PROVE m = to
  <2>1. Len(m) = Len(to)
      BY <1>6, <1>0, <1>1
  <2> QED BY <2>1, <1>0, <1>1, <1>2, SamePath
<1>7. ASSUME p # from
      PROVE  m # to /\ m # <<>> /\ Last(m) = Last(p) /\ p # <<>>
  <2>1. Len(from) < Len(p)
      BY <1>7, <1>0, PrefixOrder
  <2>2. Len(m) > Len(to) /\ Len(m) \in Nat
      BY <2>1, <1>0, <1>1
  <2>3. m # to /\ m # <<>> /\ p # <<>>
      BY <2>1, <2>2, <1>0, EmptySeq
  <2>4. m[Len(m)] = p[Len(m) - Len(to) + Len(from)]
      BY <2>2, <1>0, <1>1, <1>3
  <2>5. Len(m) - Len(to) + Len(from) = Len(p)
      BY <1>0, <1>1
  <2> QED BY <2>3, <2>4, <2>5 DEF Last
<1> QED BY <1>5, <1>6, <1>7 DEF m
-----------------------------------------------------------------------------
(***************************************************************************)
(* Workspaces.                                                             *)
(***************************************************************************)
AnyFile == Calls \cup Files
Workspace(t) == IsWorkspace(t, Paths, AnyFile)

\* A directory is above whatever is there.
LEMMA WorkspaceFacts ==
    ASSUME NEW t, Workspace(t)
    PROVE  /\ t = [p \in DOMAIN t |-> t[p]] /\ DOMAIN t \subseteq Paths
           /\ DOMAIN t \subseteq Seq(AnyName)
           /\ \A p \in DOMAIN t : t[p] = Dir \/ t[p] \in AnyFile
           /\ <<>> \in DOMAIN t /\ t[<<>>] = Dir
           /\ \A p \in DOMAIN t : \A s \in Seq(AnyName) :
                IsPrefix(s, p) /\ s # p => s \in DOMAIN t /\ t[s] = Dir
           /\ \A p, q \in DOMAIN t : t[p] = t[q] /\ p # q => t[p] = Dir
<1>1. t = [p \in DOMAIN t |-> t[p]] /\ \A p \in DOMAIN t : (t[p] = Dir \/ t[p] \in AnyFile)
    BY DEF Workspace, IsWorkspace
<1>2. DOMAIN t \subseteq Paths
    BY DEF Workspace, IsWorkspace
<1>3. \A p \in DOMAIN t : p \in Seq(AnyName) /\ Len(p) \in Nat
    BY <1>2, PathFacts
<1>4. \A p : At(t, p) = Dir => p \in DOMAIN t /\ t[p] = Dir
    BY FileToolsAssumption DEF At
<1>5. At(t, <<>>) = Dir
    BY DEF Workspace, IsWorkspace
<1>6. ASSUME NEW p \in DOMAIN t, NEW s \in Seq(AnyName), IsPrefix(s, p), s # p
      PROVE  s \in DOMAIN t /\ t[s] = Dir
  <2>1. s = SubSeq(p, 1, Len(s)) /\ Len(s) \in 0 .. Len(p) /\ Len(s) < Len(p)
      BY <1>3, <1>6, PrefixIsBeginning, PrefixOrder
  <2>2. Len(s) \in 0 .. Len(p) - 1
      BY <2>1, <1>3
  <2>3. At(t, SubSeq(p, 1, Len(s))) = Dir
      BY <2>2 DEF Workspace, IsWorkspace
  <2> QED BY <2>1, <2>3, <1>4
<1>7. \A p, q \in DOMAIN t : t[p] = t[q] /\ p # q => t[p] = Dir
    BY DEF Workspace, IsWorkspace
<1> QED BY <1>1, <1>2, <1>3, <1>4, <1>5, <1>6, <1>7

LEMMA WorkspaceFrom ==
    ASSUME NEW t, t = [p \in DOMAIN t |-> t[p]], DOMAIN t \subseteq Paths,
           \A p \in DOMAIN t : t[p] = Dir \/ t[p] \in AnyFile,
           <<>> \in DOMAIN t, t[<<>>] = Dir,
           \A p \in DOMAIN t : \A s \in Seq(AnyName) :
                IsPrefix(s, p) /\ s # p => s \in DOMAIN t /\ t[s] = Dir,
           \A p, q \in DOMAIN t : t[p] = t[q] /\ p # q => t[p] = Dir
    PROVE  Workspace(t)
<1>1. t \in [DOMAIN t -> {Dir} \cup AnyFile]
    OBVIOUS
<1>2. At(t, <<>>) = Dir
    BY DEF At
<1>3. ASSUME NEW p \in DOMAIN t, NEW n \in 0 .. Len(p) - 1
      PROVE  At(t, SubSeq(p, 1, n)) = Dir
  <2>1. p \in Seq(AnyName) /\ Len(p) \in Nat /\ n \in 0 .. Len(p)
      BY PathFacts
  <2> DEFINE s == SubSeq(p, 1, n)
  <2>2. s \in Seq(AnyName) /\ Len(s) = n /\ IsPrefix(s, p)
      BY <2>1, BeginningIsPrefix
  <2> HIDE DEF s
  <2>3. s \in DOMAIN t /\ t[s] = Dir
      BY <2>1, <2>2
  <2>4. At(t, s) = Dir
      BY <2>3 DEF At
  <2> QED BY <2>4 DEF s
<1> QED BY <1>1, <1>2, <1>3 DEF Workspace, IsWorkspace

LEMMA FrontFacts ==
    ASSUME NEW p \in Paths, p # <<>>
    PROVE  /\ Front(p) \in Seq(Names) /\ Front(p) \in Paths
           /\ Front(p) # p /\ IsPrefix(Front(p), p)
           /\ \A s \in Seq(AnyName) : IsPrefix(s, p) /\ s # p => IsPrefix(s, Front(p))
<1> DEFINE f == Front(p)
<1>1. p \in Seq(AnyName) /\ Len(p) \in Nat /\ Len(p) > 0
    BY PathFacts
<1>2. Len(p) - 1 \in 0 .. Len(p) /\ Len(p) - 1 \in 0 .. Len(p) - 1
    BY <1>1
<1>3. /\ f \in Seq(AnyName) /\ Len(f) = Len(p) - 1 /\ IsPrefix(f, p)
    BY <1>1, <1>2, BeginningIsPrefix DEF Front
<1>4. f \in Seq(Names) /\ f \in Paths
    BY <1>2, AbovePath DEF Front
<1> HIDE DEF f
<1>5. ASSUME NEW s \in Seq(AnyName), IsPrefix(s, p), s # p
      PROVE  IsPrefix(s, f)
  <2>1. Len(s) < Len(p) /\ Len(s) \in Nat
      BY <1>1, <1>5, PrefixOrder, LenProperties
  <2>2. Len(s) <= Len(f)
      BY <2>1, <1>1, <1>3
  <2> QED BY <2>2, <1>1, <1>3, <1>5, PrefixOrder
<1>6. f # p
    BY <1>1, <1>3
<1> QED BY <1>3, <1>4, <1>5, <1>6 DEF f

\* The directory of a path that can be created has everything above it.
LEMMA AboveFront ==
    ASSUME NEW t, Workspace(t), NEW p \in Paths, p # <<>>, At(t, Front(p)) = Dir,
           NEW s \in Seq(AnyName), IsPrefix(s, p), s # p
    PROVE  s \in DOMAIN t /\ t[s] = Dir
<1> DEFINE f == Front(p)
<1>1. f \in DOMAIN t /\ t[f] = Dir
    BY FileToolsAssumption DEF At
<1>2. IsPrefix(s, f)
    BY FrontFacts
<1> HIDE DEF f
<1> QED BY <1>1, <1>2, WorkspaceFacts

LEMMA WithOK ==
    ASSUME NEW t, Workspace(t), NEW path \in Paths, path # <<>>, CanCreate(t, path),
           NEW f \in AnyFile, \A p \in DOMAIN t : t[p] # f
    PROVE  /\ Workspace(With(t, path, f))
           /\ DOMAIN With(t, path, f) = DOMAIN t \cup {path}
           /\ path \notin DOMAIN t /\ With(t, path, f)[path] = f
           /\ \A p \in DOMAIN t : With(t, path, f)[p] = t[p]
<1> DEFINE w == With(t, path, f)
<1>0. \A p \in DOMAIN t : t[p] = Dir \/ t[p] \in AnyFile
    BY WorkspaceFacts
<1>1. path \notin DOMAIN t
    BY <1>0, FileToolsAssumption DEF CanCreate, At, AnyFile
<1>2. /\ w = [p \in DOMAIN w |-> w[p]] /\ DOMAIN w = DOMAIN t \cup {path}
      /\ w[path] = f /\ \A p \in DOMAIN t : w[p] = t[p]
    BY <1>1 DEF With
<1> HIDE DEF w
<1>3. DOMAIN w \subseteq Paths /\ <<>> \in DOMAIN w /\ w[<<>>] = Dir
    BY <1>2, WorkspaceFacts
<1>4. \A p \in DOMAIN w : w[p] = Dir \/ w[p] \in AnyFile
    BY <1>0, <1>2
<1>5. ASSUME NEW p \in DOMAIN w, NEW s \in Seq(AnyName), IsPrefix(s, p), s # p
      PROVE  s \in DOMAIN w /\ w[s] = Dir
  <2>1. CASE p \in DOMAIN t
      BY <2>1, <1>2, <1>5, WorkspaceFacts
  <2>2. CASE p = path
    <3>1. s \in DOMAIN t /\ t[s] = Dir
        BY <2>2, <1>5, AboveFront DEF CanCreate
    <3> QED BY <3>1, <1>2
  <2> QED BY <2>1, <2>2, <1>2
<1>6. \A p, q \in DOMAIN w : w[p] = w[q] /\ p # q => w[p] = Dir
    BY <1>2, WorkspaceFacts
<1>7. Workspace(w)
    BY <1>2, <1>3, <1>4, <1>5, <1>6, WorkspaceFrom
<1> QED BY <1>1, <1>2, <1>7 DEF w

LEMMA WithAllOK ==
    ASSUME NEW t, Workspace(t), NEW path \in Seq(Names), CanMakeAll(t, path)
    PROVE  /\ Workspace(WithAll(t, path))
           /\ DOMAIN t \subseteq DOMAIN WithAll(t, path)
           /\ \A p \in DOMAIN t : WithAll(t, path)[p] = t[p]
           /\ \A p \in DOMAIN WithAll(t, path) \ DOMAIN t :
                 WithAll(t, path)[p] = Dir /\ p \in Seq(Names)
<1> DEFINE w == WithAll(t, path)
           above == {SubSeq(path, 1, n) : n \in 0 .. Len(path)}
<1>0. path \in Seq(AnyName) /\ path \in Paths /\ Len(path) \in Nat
    BY PathFacts
<1>1. /\ w = [p \in DOMAIN w |-> w[p]] /\ DOMAIN w = DOMAIN t \cup above
      /\ \A p \in DOMAIN t : w[p] = t[p]
      /\ \A p \in DOMAIN w \ DOMAIN t : w[p] = Dir
    BY DEF WithAll
<1> HIDE DEF w
<1>2. \A p \in above : p \in Seq(Names) /\ p \in Seq(AnyName) /\ IsPrefix(p, path)
    BY <1>0, BeginningIsPrefix
<1>3. \A p \in Seq(AnyName) : IsPrefix(p, path) => p \in above
    BY <1>0, PrefixIsBeginning
<1>4. \A p \in above : At(t, p) \in {Dir, Absent}
    BY DEF CanMakeAll
<1> HIDE DEF above
<1>5. \A p \in above : w[p] = Dir
  <2> TAKE p \in above
  <2>1. CASE p \in DOMAIN t
    <3>1. t[p] \in {Dir, Absent}
        BY <2>1, <1>4 DEF At
    <3>2. t[p] = Dir \/ t[p] \in AnyFile
        BY <2>1, WorkspaceFacts
    <3> QED BY <3>1, <3>2, <2>1, <1>1, FileToolsAssumption DEF AnyFile
  <2>2. CASE p \notin DOMAIN t
      BY <2>2, <1>1
  <2> QED BY <2>1, <2>2
<1>6. DOMAIN w \subseteq Paths
    BY <1>1, <1>2, WorkspaceFacts, PathFacts
<1>7. <<>> \in DOMAIN w /\ w[<<>>] = Dir
    BY <1>1, WorkspaceFacts
<1>8. \A p \in DOMAIN w : w[p] = Dir \/ w[p] \in AnyFile
    BY <1>1, WorkspaceFacts
<1>9. ASSUME NEW p \in DOMAIN w, NEW s \in Seq(AnyName), IsPrefix(s, p), s # p
      PROVE  s \in DOMAIN w /\ w[s] = Dir
  <2>1. CASE p \in DOMAIN t
      BY <2>1, <1>1, <1>9, WorkspaceFacts
  <2>2. CASE p \in above
    <3>1. IsPrefix(s, path)
        BY <2>2, <1>0, <1>2, <1>9, PrefixOrder
    <3> QED BY <3>1, <1>1, <1>3, <1>5
  <2> QED BY <2>1, <2>2, <1>1
<1>10. \A p, q \in DOMAIN w : w[p] = w[q] /\ p # q => w[p] = Dir
    BY <1>1, WorkspaceFacts
<1>11. Workspace(w)
    BY <1>1, <1>6, <1>7, <1>8, <1>9, <1>10, WorkspaceFrom
<1>12. \A p \in DOMAIN w \ DOMAIN t : w[p] = Dir /\ p \in Seq(Names)
    BY <1>1, <1>2
<1> QED BY <1>1, <1>11, <1>12 DEF w

\* Where one directory can be made, all above it are there.
LEMMA CreateMakesAll ==
    ASSUME NEW t, Workspace(t), NEW path \in Seq(Names), path # <<>>, CanCreate(t, path)
    PROVE  CanMakeAll(t, path)
<1>0. path \in Seq(AnyName) /\ path \in Paths /\ Len(path) \in Nat
    BY PathFacts
<1>1. ASSUME NEW n \in 0 .. Len(path) PROVE At(t, SubSeq(path, 1, n)) \in {Dir, Absent}
  <2> DEFINE s == SubSeq(path, 1, n)
  <2>1. s \in Seq(AnyName) /\ IsPrefix(s, path)
      BY <1>0, BeginningIsPrefix
  <2> HIDE DEF s
  <2>2. CASE s = path
      BY <2>2 DEF CanCreate, s
  <2>3. CASE s # path
    <3>1. s \in DOMAIN t /\ t[s] = Dir
        BY <2>1, <2>3, <1>0, AboveFront DEF CanCreate
    <3> QED BY <3>1 DEF At, s
  <2> QED BY <2>2, <2>3
<1> QED BY <1>1 DEF CanMakeAll

LEMMA WithoutOK ==
    ASSUME NEW t, Workspace(t), NEW path, path # <<>>, Below(t, path) = {}
    PROVE  /\ Workspace(Without(t, path))
           /\ DOMAIN Without(t, path) = DOMAIN t \ {path}
           /\ \A p \in DOMAIN t \ {path} : Without(t, path)[p] = t[p]
<1> DEFINE w == Without(t, path)
<1>1. /\ w = [p \in DOMAIN w |-> w[p]] /\ DOMAIN w = DOMAIN t \ {path}
      /\ \A p \in DOMAIN w : w[p] = t[p]
    BY DEF Without
<1> HIDE DEF w
<1>2. DOMAIN w \subseteq Paths /\ <<>> \in DOMAIN w /\ w[<<>>] = Dir
    BY <1>1, WorkspaceFacts
<1>3. \A p \in DOMAIN w : w[p] = Dir \/ w[p] \in AnyFile
    BY <1>1, WorkspaceFacts
<1>4. ASSUME NEW p \in DOMAIN w, NEW s \in Seq(AnyName), IsPrefix(s, p), s # p
      PROVE  s \in DOMAIN w /\ w[s] = Dir
  <2>1. s # path
      BY <1>1, <1>4 DEF Below, IsStrictPrefix
  <2> QED BY <2>1, <1>1, <1>4, WorkspaceFacts
<1>5. \A p, q \in DOMAIN w : w[p] = w[q] /\ p # q => w[p] = Dir
    BY <1>1, WorkspaceFacts
<1>6. Workspace(w)
    BY <1>1, <1>2, <1>3, <1>4, <1>5, WorkspaceFrom
<1> QED BY <1>1, <1>6 DEF w

LEMMA MovedSame ==
    ASSUME NEW S, NEW from \in Seq(S), NEW p \in Seq(S), IsPrefix(from, p)
    PROVE  Moved(from, from, p) = p
<1> DEFINE m == Moved(from, from, p)
<1>0. Len(from) \in Nat /\ Len(p) \in Nat /\ Len(from) <= Len(p)
    BY LenProperties DEF IsPrefix
<1>1. m \in Seq(S) /\ Len(m) = Len(from) + Len(p) - Len(from)
    BY MovedPath
<1>2. \A i \in 1 .. Len(from) : m[i] = from[i]
    BY MovedPath
<1>3. \A i \in Int : i > Len(from) /\ i <= Len(from) + Len(p) - Len(from) =>
            m[i] = p[i - Len(from) + Len(from)]
    BY MovedPath
<1> HIDE DEF m
<1>4. Len(m) = Len(p)
    BY <1>0, <1>1
<1>5. ASSUME NEW i \in 1 .. Len(p) PROVE m[i] = p[i]
  <2>1. CASE i <= Len(from)
    <3>1. i \in 1 .. Len(from) /\ from[i] = p[i]
        BY <2>1, <1>0, PrefixPlaces
    <3> QED BY <3>1, <1>2
  <2>2. CASE i > Len(from)
    <3>1. m[i] = p[i - Len(from) + Len(from)]
        BY <2>2, <1>0, <1>3
    <3>2. i - Len(from) + Len(from) = i
        BY <1>0
    <3> QED BY <3>1, <3>2
  <2> QED BY <2>1, <2>2, <1>0
<1>6. m = p
    BY <1>1, <1>4, <1>5, SamePath
<1> QED BY <1>6 DEF m

\* Renaming a path to itself changes nothing.
LEMMA RenamedToItself ==
    ASSUME NEW t, Workspace(t), NEW from \in Paths
    PROVE  Renamed(t, from, from) = t
<1>0. from \in Seq(AnyName)
    BY PathFacts
<1> DEFINE carried == {p \in DOMAIN t : IsPrefix(from, p)}
           kept == (DOMAIN t \ carried) \ {from}
<1>1. \A p \in carried : Moved(from, from, p) = p
    BY <1>0, MovedSame, WorkspaceFacts
<1>2. Renamed(t, from, from) =
        [q \in kept \cup {Moved(from, from, p) : p \in carried} |->
            IF q \in kept THEN t[q] ELSE t[Moved(from, from, q)]]
    BY DEF Renamed, Moved
<1>3. from \in DOMAIN t => from \in carried
    BY <1>0, PrefixOrder
<1>4. kept \cup {Moved(from, from, p) : p \in carried} = DOMAIN t
    BY <1>1, <1>3
<1>5. \A q \in DOMAIN t : q \notin kept => q \in carried
    BY <1>3
<1>6. Renamed(t, from, from) = [q \in DOMAIN t |-> t[q]]
    BY <1>1, <1>2, <1>4, <1>5
<1> QED BY <1>6, WorkspaceFacts

\* What can be renamed goes to a place with nothing below it.
LEMMA RenamePlace ==
    ASSUME NEW t, Workspace(t), NEW from \in Paths, NEW to \in Seq(Names),
           CanRename(t, from, to), to # from
    PROVE  /\ ~IsPrefix(from, to) /\ Below(t, to) = {} /\ to # <<>>
           /\ from \in DOMAIN t /\ from # <<>>
           /\ Front(to) \in DOMAIN t /\ t[Front(to)] = Dir
<1>0. from \in Seq(AnyName) /\ to \in Seq(AnyName) /\ to \in Paths
    BY PathFacts
<1>1. ~IsPrefix(from, to)
    BY DEF CanRename
<1>2. from \in DOMAIN t
    BY DEF CanRename, At
<1>3. from # <<>>
    BY <1>0, <1>1, PrefixOrder
<1>4. Front(to) \in DOMAIN t /\ t[Front(to)] = Dir
    BY FileToolsAssumption DEF CanRename, At
<1>5. Below(t, to) = {}
  <2> SUFFICES ASSUME NEW p \in DOMAIN t, IsPrefix(to, p), to # p PROVE FALSE
      BY WorkspaceFacts DEF Below, IsStrictPrefix
  <2>1. to \in DOMAIN t /\ t[to] = Dir
      BY <1>0, WorkspaceFacts
  <2>2. At(t, to) = Dir
      BY <2>1 DEF At
  <2>3. CanRemoveDirectory(t, to)
      BY <2>2, FileToolsAssumption DEF CanRename, IsFile
  <2>4. p \in Below(t, to)
      BY DEF Below, IsStrictPrefix
  <2> QED BY <2>3, <2>4 DEF CanRemoveDirectory
<1>6. to # <<>>
  <2> SUFFICES ASSUME to = <<>> PROVE FALSE
      OBVIOUS
  <2>1. IsPrefix(to, from)
      BY <1>0, PrefixOrder
  <2>2. from \in Below(t, to)
      BY <2>1, <1>2 DEF Below, IsStrictPrefix
  <2> QED BY <2>2, <1>5
<1> QED BY <1>1, <1>2, <1>3, <1>4, <1>5, <1>6

\* What is there after a rename.
LEMMA RenamedTree ==
    ASSUME NEW t, Workspace(t), NEW from \in Paths, NEW to \in Seq(Names),
           CanRename(t, from, to), to # from
    PROVE  LET w == Renamed(t, from, to) IN
           /\ w = [p \in DOMAIN w |-> w[p]]
           /\ \A p \in DOMAIN t : ~IsPrefix(from, p) /\ p # to =>
                 p \in DOMAIN w /\ w[p] = t[p]
           /\ \A p \in DOMAIN t : IsPrefix(from, p) =>
                 Moved(from, to, p) \in DOMAIN w /\ w[Moved(from, to, p)] = t[p]
           /\ \A q \in DOMAIN w :
                 \/ q \in DOMAIN t /\ ~IsPrefix(from, q) /\ q # to
                 \/ \E p \in DOMAIN t : IsPrefix(from, p) /\ q = Moved(from, to, p)
<1> DEFINE w == Renamed(t, from, to)
           carried == {p \in DOMAIN t : IsPrefix(from, p)}
           kept == (DOMAIN t \ carried) \ {to}
<1>0. from \in Seq(AnyName) /\ to \in Seq(AnyName) /\ to \in Paths
    BY PathFacts
<1>1. w = [q \in kept \cup {Moved(from, to, p) : p \in carried} |->
              IF q \in kept THEN t[q] ELSE t[Moved(to, from, q)]]
    BY DEF Renamed, Moved
<1>2. \A p \in carried : /\ Moved(to, from, Moved(from, to, p)) = p
                         /\ IsPrefix(to, Moved(from, to, p))
  <2> TAKE p \in carried
  <2>1. p \in Seq(AnyName) /\ IsPrefix(from, p)
      BY WorkspaceFacts
  <2>2. Moved(to, from, Moved(from, to, p)) = p
      BY <2>1, <1>0, MovedBack
  <2>3. IsPrefix(to, Moved(from, to, p))
      BY <2>1, <1>0, MovedPath
  <2> QED BY <2>2, <2>3
<1>3. \A p \in carried : Moved(from, to, p) \notin kept
  <2> SUFFICES ASSUME NEW p \in carried, Moved(from, to, p) \in kept PROVE FALSE
      OBVIOUS
  <2> DEFINE q == Moved(from, to, p)
  <2>1. q \in DOMAIN t /\ q # to /\ IsPrefix(to, q)
      BY <1>2
  <2> HIDE DEF q
  <2>2. q \in Below(t, to)
      BY <2>1 DEF Below, IsStrictPrefix
  <2> QED BY <2>2, RenamePlace
<1>4. DOMAIN w = kept \cup {Moved(from, to, p) : p \in carried}
    BY <1>1
<1>5. \A q \in DOMAIN w : w[q] = IF q \in kept THEN t[q] ELSE t[Moved(to, from, q)]
    BY <1>1
<1>6. w = [p \in DOMAIN w |-> w[p]]
    BY <1>1
<1> HIDE DEF w
<1>7. \A p \in carried : Moved(from, to, p) \in DOMAIN w /\ w[Moved(from, to, p)] = t[p]
    BY <1>2, <1>3, <1>4, <1>5
<1>8. \A p \in kept : p \in DOMAIN w /\ w[p] = t[p]
    BY <1>4, <1>5
<1>9. \A q \in DOMAIN w : q \in kept \/ \E p \in carried : q = Moved(from, to, p)
    BY <1>4
<1>10. \A p \in DOMAIN t : ~IsPrefix(from, p) /\ p # to => p \in DOMAIN w /\ w[p] = t[p]
    BY <1>8
<1>11. \A p \in DOMAIN t : IsPrefix(from, p) =>
                 Moved(from, to, p) \in DOMAIN w /\ w[Moved(from, to, p)] = t[p]
    BY <1>7
<1>12. \A q \in DOMAIN w :
                 \/ q \in DOMAIN t /\ ~IsPrefix(from, q) /\ q # to
                 \/ \E p \in DOMAIN t : IsPrefix(from, p) /\ q = Moved(from, to, p)
    BY <1>9
<1> QED BY <1>6, <1>10, <1>11, <1>12 DEF w

LEMMA RenamedOK ==
    ASSUME NEW t, Workspace(t), NEW from \in Paths, NEW to \in Seq(Names),
           CanRename(t, from, to)
    PROVE  Workspace(Renamed(t, from, to))
<1>1. CASE to = from
    BY <1>1, RenamedToItself
<1>2. CASE to # from
  <2> DEFINE w == Renamed(t, from, to)
  <2>0. from \in Seq(AnyName) /\ to \in Seq(AnyName) /\ to \in Paths
      BY PathFacts
  <2>1. ~IsPrefix(from, to) /\ Below(t, to) = {} /\ to # <<>> /\ from # <<>>
      BY <1>2, RenamePlace
  <2>2. At(t, Front(to)) = Dir
      BY DEF CanRename
  <2>3. w = [p \in DOMAIN w |-> w[p]]
      BY <1>2, RenamedTree
  <2>4. \A p \in DOMAIN t : ~IsPrefix(from, p) /\ p # to => p \in DOMAIN w /\ w[p] = t[p]
      BY <1>2, RenamedTree
  <2>5. \A p \in DOMAIN t : IsPrefix(from, p) =>
                 Moved(from, to, p) \in DOMAIN w /\ w[Moved(from, to, p)] = t[p]
      BY <1>2, RenamedTree
  <2>6. \A q \in DOMAIN w :
                 \/ q \in DOMAIN t /\ ~IsPrefix(from, q) /\ q # to
                 \/ \E p \in DOMAIN t : IsPrefix(from, p) /\ q = Moved(from, to, p)
      BY <1>2, RenamedTree
  <2> HIDE DEF w
  <2>7. DOMAIN w \subseteq Paths
    <3>1. \A p \in DOMAIN t : IsPrefix(from, p) => Moved(from, to, p) \in Paths
        BY MovedInPaths, WorkspaceFacts
    <3> QED BY <3>1, <2>6, WorkspaceFacts
  <2>8. \A p \in DOMAIN w : w[p] = Dir \/ w[p] \in AnyFile
      BY <2>4, <2>5, <2>6, WorkspaceFacts
  <2>9. <<>> \in DOMAIN w /\ w[<<>>] = Dir
    <3>1. ~IsPrefix(from, <<>>)
      <4>1. <<>> \in Seq(AnyName) /\ Len(<<>>) = 0 /\ Len(from) \in Nat /\ Len(from) > 0
          BY <2>1, EmptySeq, PathFacts
      <4> QED BY <4>1 DEF IsPrefix
    <3> QED BY <3>1, <2>1, <2>4, WorkspaceFacts
  <2>10. ASSUME NEW q \in DOMAIN w, NEW s \in Seq(AnyName), IsPrefix(s, q), s # q
         PROVE  s \in DOMAIN w /\ w[s] = Dir
    <3>1. CASE q \in DOMAIN t /\ ~IsPrefix(from, q) /\ q # to
      <4>0. q \in Seq(AnyName)
          BY <3>1, WorkspaceFacts
      <4>1. s \in DOMAIN t /\ t[s] = Dir
          BY <3>1, <2>10, WorkspaceFacts
      <4>2. ~IsPrefix(from, s)
          BY <3>1, <4>0, <2>0, <2>10, PrefixOrder
      <4>3. s # to
          BY <3>1, <2>1, <2>10 DEF Below, IsStrictPrefix
      <4> QED BY <4>1, <4>2, <4>3, <2>4
    <3>2. ASSUME NEW p \in DOMAIN t, IsPrefix(from, p), q = Moved(from, to, p)
          PROVE  s \in DOMAIN w /\ w[s] = Dir
      <4>0. p \in Seq(AnyName) /\ q \in Seq(AnyName) /\ Len(q) = Len(to) + Len(p) - Len(from)
        <5>1. p \in Seq(AnyName)
            BY <3>2, WorkspaceFacts
        <5> QED BY <5>1, <2>0, <3>2, MovedPath
      <4>1. s = SubSeq(q, 1, Len(s)) /\ Len(s) \in 0 .. Len(q)
          BY <4>0, <2>10, PrefixIsBeginning
      <4> DEFINE k == Len(s)
                 n == k - Len(to) + Len(from)
                 b == SubSeq(p, 1, n)
      <4>2. k \in 0 .. Len(to) + Len(p) - Len(from) /\ k \in Nat /\ Len(to) \in Nat
          BY <4>0, <4>1, <2>0, LenProperties
      <4>3. CASE k >= Len(to)
        <5>1. n \in Len(from) .. Len(p) /\ IsPrefix(from, b)
              /\ SubSeq(q, 1, k) = Moved(from, to, b)
            BY <4>0, <4>2, <4>3, <2>0, <3>2, MovedBeginning
        <5>2. n \in 0 .. Len(p)
            BY <5>1, <4>0, <2>0, LenProperties
        <5>3. b \in Seq(AnyName) /\ IsPrefix(b, p)
            BY <4>0, <5>2, BeginningIsPrefix
        <5>4. IsPrefix(from, b) /\ s = Moved(from, to, b)
            BY <5>1, <4>1
        <5> HIDE DEF b
        <5>5. b # p
            BY <5>4, <2>10, <3>2
        <5>6. b \in DOMAIN t /\ t[b] = Dir
            BY <5>3, <5>5, WorkspaceFacts
        <5> QED BY <5>4, <5>6, <2>5
      <4>4. CASE k <= Len(to) /\ k # Len(to)
        <5>1. SubSeq(q, 1, k) = SubSeq(to, 1, k)
            BY <4>0, <4>2, <4>4, <2>0, <3>2, MovedBeginning
        <5>2. k \in 0 .. Len(to)
            BY <4>2, <4>4
        <5>3. IsPrefix(SubSeq(to, 1, k), to) /\ Len(SubSeq(to, 1, k)) = k
            BY <5>2, <2>0, BeginningIsPrefix
        <5>4. s = SubSeq(to, 1, k)
            BY <5>1, <4>1
        <5>5. IsPrefix(s, to) /\ s # to
            BY <5>3, <5>4, <4>4
        <5>6. s \in DOMAIN t /\ t[s] = Dir
            BY <5>5, <2>0, <2>1, <2>2, AboveFront
        <5>7. ~IsPrefix(from, s)
            BY <5>5, <2>0, <2>1, PrefixOrder
        <5> QED BY <5>5, <5>6, <5>7, <2>4
      <4> QED BY <4>2, <4>3, <4>4
    <3> QED BY <3>1, <3>2, <2>6
  <2>11. ASSUME NEW p \in DOMAIN w, NEW q \in DOMAIN w, w[p] = w[q], p # q
         PROVE  w[p] = Dir
    <3>1. PICK p0 \in DOMAIN t : /\ w[p] = t[p0]
                                 /\ \/ p0 = p /\ ~IsPrefix(from, p)
                                    \/ IsPrefix(from, p0) /\ p = Moved(from, to, p0)
        BY <2>4, <2>5, <2>6
    <3>2. PICK q0 \in DOMAIN t : /\ w[q] = t[q0]
                                 /\ \/ q0 = q /\ ~IsPrefix(from, q)
                                    \/ IsPrefix(from, q0) /\ q = Moved(from, to, q0)
        BY <2>4, <2>5, <2>6
    <3>3. p0 # q0
        BY <3>1, <3>2, <2>11
    <3>4. t[p0] = t[q0]
        BY <3>1, <3>2, <2>11
    <3>5. \A x, y \in DOMAIN t : t[x] = t[y] /\ x # y => t[x] = Dir
        BY WorkspaceFacts
    <3>6. t[p0] = Dir
        BY <3>3, <3>4, <3>5
    <3> QED BY <3>1, <3>6
  <2>12. Workspace(w)
      BY <2>3, <2>7, <2>8, <2>9, <2>10, <2>11, WorkspaceFrom
  <2> QED BY <2>12 DEF w
<1> QED BY <1>1, <1>2
-----------------------------------------------------------------------------
(***************************************************************************)
(* The calls that change the workspace.                                    *)
(***************************************************************************)
ToolsInv == ToolTypes /\ CallsAgree /\ ContentsAgree /\ PlacesAgree

CallStates == [req : Requests, pc : CallPcs, out : {"none", "ok", "error"},
               existed : BOOLEAN, file : AnyFile \cup {Absent}]

LEMMA RequestFacts ==
    ASSUME NEW r \in Requests
    PROVE  /\ r.kind \in {"write", "patch", "mkdir", "move", "delete"}
           /\ r.path \in Seq(Names)
           /\ r.kind = "write" => r.overwrite \in BOOLEAN /\ r.parents \in BOOLEAN
           /\ r.kind \in {"mkdir", "delete"} => r.recursive \in BOOLEAN
           /\ r.kind = "move" => r.to \in Seq(Names) /\ r.overwrite \in BOOLEAN
           /\ r.kind = "delete" => r.path # <<>>
<1>1. r \in PossibleRequests
    BY FileToolsAssumption
<1>2. CASE r \in [kind : {"write"}, path : Seq(Names), overwrite : BOOLEAN, parents : BOOLEAN]
    BY <1>2
<1>3. CASE r \in [kind : {"patch"}, path : Seq(Names)]
    BY <1>3
<1>4. CASE r \in [kind : {"mkdir"}, path : Seq(Names), recursive : BOOLEAN]
    BY <1>4
<1>5. CASE r \in [kind : {"move"}, path : Seq(Names), to : Seq(Names), overwrite : BOOLEAN]
    BY <1>5
<1>6. CASE r \in [kind : {"delete"}, path : Seq(Names) \ {<<>>}, recursive : BOOLEAN]
    BY <1>6
<1> QED BY <1>1, <1>2, <1>3, <1>4, <1>5, <1>6 DEF PossibleRequests

LEMMA CallFacts ==
    ASSUME ToolTypes, NEW c \in Calls
    PROVE  /\ call[c] # Idle => call[c] \in CallStates
           /\ call[c] = Idle <=> call[c].pc = "idle"
           /\ Running(c) => call[c] # Idle
           /\ call[c] # Idle => Path(c) \in Seq(Names) /\ call[c].pc \in CallPcs
<1>1. call[c] \in {Idle} \cup CallStates
    BY DEF ToolTypes, CallStates, AnyFile
<1>2. Idle.pc = "idle"
    BY DEF Idle
<1>3. ASSUME call[c] \in CallStates
      PROVE  call[c].pc \in CallPcs /\ call[c].pc # "idle" /\ Path(c) \in Seq(Names)
  <2>1. call[c].pc \in CallPcs /\ call[c].req \in Requests
      BY <1>3 DEF CallStates
  <2>2. call[c].pc # "idle"
      BY <2>1 DEF CallPcs
  <2> QED BY <2>1, <2>2, RequestFacts DEF Path, Request
<1> QED BY <1>1, <1>2, <1>3 DEF Running

\* What becomes of a call when it goes on, and when it ends.
Changes(c, s) ==
    /\ call' \in [Calls -> {Idle} \cup CallStates]
    /\ \A d \in Calls : d # c => call'[d] = call[d]
    /\ call'[c] = s /\ call'[c] # Idle

LEMMA ChangeFacts ==
    ASSUME ToolTypes, NEW c \in Calls, NEW s \in CallStates,
           call' = [call EXCEPT ![c] = s]
    PROVE  Changes(c, s)
<1>1. s # Idle
    BY DEF CallStates, Idle, CallPcs
<1>2. call \in [Calls -> {Idle} \cup CallStates]
    BY DEF ToolTypes, CallStates, AnyFile
<1> QED BY <1>1, <1>2 DEF Changes

LEMMA GotoFacts ==
    ASSUME ToolTypes, NEW c \in Calls, call[c] # Idle, NEW pc \in CallPcs, Goto(c, pc)
    PROVE  /\ Changes(c, [call[c] EXCEPT !.pc = pc])
           /\ call'[c].pc = pc /\ call'[c].req = call[c].req
           /\ call'[c].out = call[c].out /\ call'[c].file = call[c].file
           /\ call'[c].existed = call[c].existed
<1> DEFINE s == [call[c] EXCEPT !.pc = pc]
<1>1. call[c] \in CallStates
    BY CallFacts
<1>2. /\ s \in CallStates /\ s.pc = pc /\ s.req = call[c].req /\ s.out = call[c].out
      /\ s.file = call[c].file /\ s.existed = call[c].existed
    BY <1>1 DEF CallStates
<1>3. call' = [call EXCEPT ![c] = s]
    BY DEF Goto
<1> HIDE DEF s
<1>4. Changes(c, s)
    BY <1>2, <1>3, ChangeFacts
<1>5. call'[c] = s
    BY <1>4 DEF Changes
<1> QED BY <1>2, <1>4, <1>5 DEF s

LEMMA EndFacts ==
    ASSUME ToolTypes, NEW c \in Calls, call[c] # Idle, NEW out \in {"none", "ok", "error"},
           End(c, out)
    PROVE  /\ Changes(c, [req |-> Request(c), pc |-> "done", out |-> out,
                          existed |-> FALSE, file |-> Absent])
           /\ call'[c].pc = "done" /\ call'[c].req = call[c].req
           /\ call'[c].out = out
<1> DEFINE s == [req |-> Request(c), pc |-> "done", out |-> out,
                 existed |-> FALSE, file |-> Absent]
<1>1. Request(c) \in Requests
    BY CallFacts DEF CallStates, Request
<1>2. s \in CallStates /\ s.pc = "done" /\ s.req = call[c].req /\ s.out = out
    BY <1>1 DEF CallStates, CallPcs, Request
<1>3. call' = [call EXCEPT ![c] = s]
    BY DEF End
<1> HIDE DEF s
<1>4. Changes(c, s)
    BY <1>2, <1>3, ChangeFacts
<1>5. call'[c] = s
    BY <1>4 DEF Changes
<1> QED BY <1>2, <1>4, <1>5 DEF s

\* What a call in a state has found out.
CallAgrees(c) ==
    LET pc == call[c].pc IN
       /\ pc \in Phases(c) \cup {"resolve", "lstat", "done", "dead"}
       /\ pc \in {"rename", "cleanup"} => Replacing(c)
       /\ pc \in {"parents", "read", "open", "fill", "rename", "cleanup"} => Path(c) # <<>>
       /\ pc = "rmtree" => Request(c).recursive
       /\ pc = "move" => Request(c).overwrite \/ ~call[c].existed
       /\ pc = "read" => call[c].file # Absent

PlaceAgrees(p) ==
       /\ tree[p] \in Calls => Opened(tree[p])
       /\ IsTemporary(p) =>
             /\ tree[p] = Last(p) /\ Replacing(Last(p))
             /\ \/ /\ call[Last(p)].pc \in {"fill", "rename", "cleanup", "dead"}
                   /\ p = TemporaryPath(Last(p))
                \/ Last(p) \in stranded
       /\ ~IsTemporary(p) /\ tree[p] \in Calls /\ Replacing(tree[p]) =>
             /\ data[tree[p]] = want[tree[p]] /\ call[tree[p]].out = "ok"
             /\ call[tree[p]].pc \in {"cleanup", "done", "dead"}

\* A tree in which no file is anywhere it was not before.
OnlyFewer(old, new) ==
    /\ Workspace(new)
    /\ \A p \in DOMAIN new : \/ p \in DOMAIN old /\ new[p] = old[p]
                             \/ new[p] = Dir /\ ~IsTemporary(p)

LEMMA SameIsFewer ==
    ASSUME ToolTypes
    PROVE  OnlyFewer(tree, tree)
BY DEF OnlyFewer, ToolTypes, Workspace, AnyFile

\* A step of one call that writes nothing and puts no file anywhere.
LEMMA CallStep ==
    ASSUME ToolsInv, NEW c \in Calls, call[c] # Idle,
           NEW s, Changes(c, s), call'[c].req = call[c].req,
           UNCHANGED <<data, want>>, OnlyFewer(tree, tree'),
           stranded \subseteq stranded', stranded' \subseteq Calls,
           failures' \in 0 .. MaxFailures,
           CallAgrees(c)',
           Opened(c) => Opened(c)',
           call'[c].pc = "fill" => call[c].pc = "fill",
           call'[c].pc = "rename" => call[c].pc = "rename",
           call[c].pc \in {"fill", "rename", "cleanup", "dead"} =>
              \/ call'[c].pc \in {"fill", "rename", "cleanup", "dead"}
              \/ ~Replacing(c) \/ c \in stranded' \/ TemporaryPath(c) \notin DOMAIN tree',
           call[c].pc \in {"cleanup", "done", "dead"} =>
              call'[c].pc \in {"cleanup", "done", "dead"} /\ call'[c].out = call[c].out
    PROVE  ToolsInv'
<1>1. ToolTypes'
    BY DEF ToolsInv, ToolTypes, Changes, OnlyFewer, CallStates, Workspace, AnyFile
<1>2. \A d \in Calls : d # c => call'[d] = call[d]
    BY DEF Changes
<1>3. \A d \in Calls : call'[d] # Idle => CallAgrees(d)'
  <2> TAKE d \in Calls
  <2>1. CASE d = c
      BY <2>1
  <2>2. CASE d # c
    <3> SUFFICES ASSUME call[d] # Idle PROVE CallAgrees(d)'
        BY <1>2, <2>2
    <3>1. CallAgrees(d)
        BY DEF ToolsInv, CallsAgree, CallAgrees
    <3> QED BY <1>2, <2>2, <3>1 DEF CallAgrees, Phases, Replacing, Request, Path
  <2> QED BY <2>1, <2>2
<1>4. CallsAgree'
    BY <1>3 DEF CallsAgree, CallAgrees
<1>5. ContentsAgree'
  <2>1. \A d \in Calls : ~Opened(d)' => ~Opened(d)
      BY <1>2 DEF Opened
  <2>2. \A d \in Calls : /\ call'[d].pc = "fill" => call[d].pc = "fill"
                         /\ call'[d].pc = "rename" => call[d].pc = "rename"
      BY <1>2
  <2> QED BY <2>1, <2>2 DEF ToolsInv, ContentsAgree
<1>6. PlacesAgree'
  <2> SUFFICES ASSUME NEW p \in DOMAIN tree', p \in DOMAIN tree, tree'[p] = tree[p]
               PROVE  /\ tree[p] \in Calls => Opened(tree[p])'
                      /\ IsTemporary(p) =>
                          /\ tree[p] = Last(p) /\ Replacing(Last(p))'
                          /\ \/ /\ call'[Last(p)].pc \in {"fill", "rename", "cleanup", "dead"}
                                /\ p = TemporaryPath(Last(p))'
                             \/ Last(p) \in stranded'
                      /\ ~IsTemporary(p) /\ tree[p] \in Calls /\ Replacing(tree[p])' =>
                          /\ data[tree[p]] = want[tree[p]] /\ call'[tree[p]].out = "ok"
                          /\ call'[tree[p]].pc \in {"cleanup", "done", "dead"}
      BY FileToolsAssumption DEF PlacesAgree, OnlyFewer, IsTemporary
  <2> DEFINE d == Last(p)
  <2>0. PICK f : f = tree[p]
      OBVIOUS
  <2>1. f \in Calls => Opened(f)
      BY <2>0 DEF ToolsInv, PlacesAgree
  <2>2. \A e \in Calls : /\ Replacing(e)' = Replacing(e)
                         /\ TemporaryPath(e)' = TemporaryPath(e)
      BY <1>2 DEF Replacing, TemporaryPath, Path, Request
  <2>3. IsTemporary(p) =>
             /\ f = d /\ d \in Calls /\ Replacing(d)
             /\ \/ /\ call[d].pc \in {"fill", "rename", "cleanup", "dead"}
                   /\ p = TemporaryPath(d)
                \/ d \in stranded
      BY <2>0 DEF ToolsInv, PlacesAgree, IsTemporary
  <2>4. ~IsTemporary(p) /\ f \in Calls /\ Replacing(f) =>
             /\ data[f] = want[f] /\ call[f].out = "ok"
             /\ call[f].pc \in {"cleanup", "done", "dead"}
      BY <2>0 DEF ToolsInv, PlacesAgree
  <2> HIDE DEF d
  <2>5. f \in Calls => Opened(f)'
      BY <2>1, <1>2 DEF Opened
  <2>6. IsTemporary(p) =>
          /\ f = d /\ Replacing(d)'
          /\ \/ /\ call'[d].pc \in {"fill", "rename", "cleanup", "dead"}
                /\ p = TemporaryPath(d)'
             \/ d \in stranded'
      BY <2>2, <2>3, <1>2
  <2>7. ~IsTemporary(p) /\ f \in Calls /\ Replacing(f)' =>
          /\ data[f] = want[f] /\ call'[f].out = "ok"
          /\ call'[f].pc \in {"cleanup", "done", "dead"}
      BY <2>2, <2>4, <1>2
  <2> QED BY <2>0, <2>5, <2>6, <2>7 DEF d
<1> QED BY <1>1, <1>4, <1>5, <1>6 DEF ToolsInv

LEMMA SameRequest ==
    ASSUME NEW c \in Calls, call'[c].req = call[c].req
    PROVE  /\ Request(c)' = Request(c) /\ Path(c)' = Path(c)
           /\ Replacing(c)' = Replacing(c) /\ Phases(c)' = Phases(c)
           /\ TemporaryPath(c)' = TemporaryPath(c)
BY DEF Request, Path, Replacing, Phases, TemporaryPath

\* A call goes on from one await to another, neither with its file open.
LEMMA GotoStep ==
    ASSUME ToolsInv, NEW c \in Calls, call[c] # Idle, NEW pc \in CallPcs, Goto(c, pc),
           UNCHANGED <<data, want, stranded>>, OnlyFewer(tree, tree'),
           failures' \in 0 .. MaxFailures,
           call[c].pc \notin {"fill", "rename", "cleanup", "done", "dead"},
           pc \notin {"fill", "rename", "cleanup", "done", "dead", "move", "read"},
           pc \in Phases(c) \cup {"lstat"},
           pc \in {"parents", "open"} => Path(c) # <<>>,
           pc = "rmtree" => Request(c).recursive
    PROVE  ToolsInv'
<1>0. ToolTypes
    BY DEF ToolsInv
<1>1. Changes(c, [call[c] EXCEPT !.pc = pc]) /\ call'[c].pc = pc
      /\ call'[c].req = call[c].req
    BY <1>0, GotoFacts
<1>2. CallAgrees(c)'
    BY <1>1, SameRequest DEF CallAgrees
<1>3. ~Opened(c)
    BY DEF Opened
<1>4. stranded \subseteq Calls
    BY <1>0 DEF ToolTypes
<1> QED BY <1>1, <1>2, <1>3, <1>4, CallStep

\* A call ends; when it has its file open, that is no longer at its place.
LEMMA EndStep ==
    ASSUME ToolsInv, NEW c \in Calls, call[c] # Idle, NEW out \in {"none", "ok", "error"},
           End(c, out),
           UNCHANGED <<data, want>>, OnlyFewer(tree, tree'),
           stranded \subseteq stranded', stranded' \subseteq Calls,
           failures' \in 0 .. MaxFailures,
           call[c].pc \notin {"done", "dead"},
           call[c].pc \in {"fill", "rename", "cleanup"} =>
              ~Replacing(c) \/ c \in stranded' \/ TemporaryPath(c) \notin DOMAIN tree',
           call[c].pc = "cleanup" => out = call[c].out
    PROVE  ToolsInv'
<1>0. ToolTypes
    BY DEF ToolsInv
<1> DEFINE s == [req |-> Request(c), pc |-> "done", out |-> out,
                 existed |-> FALSE, file |-> Absent]
<1>1. Changes(c, s) /\ call'[c].pc = "done" /\ call'[c].req = call[c].req
      /\ call'[c].out = out
    BY <1>0, EndFacts
<1>2. CallAgrees(c)'
    BY <1>1 DEF CallAgrees
<1>3. Opened(c)'
    BY <1>1 DEF Opened
<1> HIDE DEF s
<1> QED BY <1>1, <1>2, <1>3, CallStep

LEMMA FailsStep ==
    ASSUME ToolsInv, NEW c \in Calls, Running(c), Fails(c), failures' \in 0 .. MaxFailures
    PROVE  ToolsInv'
<1>0. ToolTypes /\ call[c] # Idle /\ call[c].pc \notin {"done", "dead"}
      /\ UNCHANGED <<tree, data, want>>
    BY CallFacts DEF ToolsInv, Fails, Running
<1>1. OnlyFewer(tree, tree') /\ stranded \subseteq Calls
    BY <1>0, SameIsFewer DEF ToolTypes
<1>2. CASE Replacing(c) /\ call[c].pc \in {"open", "fill", "rename"}
  <2> DEFINE s == [call[c] EXCEPT !.pc = "cleanup", !.out = "error"]
  <2>1. call' = [call EXCEPT ![c].pc = "cleanup", ![c].out = "error"] /\ stranded' = stranded
      BY <1>2 DEF Fails
  <2>2. call[c] \in CallStates
      BY <1>0, CallFacts
  <2>3. s \in CallStates /\ s.pc = "cleanup" /\ s.req = call[c].req
      BY <2>2 DEF CallStates, CallPcs
  <2>4. call' = [call EXCEPT ![c] = s]
      BY <2>1
  <2> HIDE DEF s
  <2>5. Changes(c, s) /\ call'[c].pc = "cleanup" /\ call'[c].req = call[c].req
      BY <1>0, <2>3, <2>4, ChangeFacts DEF Changes
  <2>6. Path(c) # <<>> /\ "cleanup" \in Phases(c)
    <3>1. Path(c) # <<>>
        BY <1>0, <1>2 DEF ToolsInv, CallsAgree
    <3>2. Request(c).kind \in {"write", "patch"}
        BY <1>2 DEF Replacing
    <3> QED BY <3>1, <3>2 DEF Phases
  <2>7. CallAgrees(c)'
      BY <1>2, <2>5, <2>6, SameRequest DEF CallAgrees
  <2>8. Opened(c)'
      BY <2>5 DEF Opened
  <2> QED BY <1>0, <1>1, <1>2, <2>1, <2>5, <2>7, <2>8, CallStep
<1>3. CASE ~(Replacing(c) /\ call[c].pc \in {"open", "fill", "rename"}) /\ call[c].pc = "cleanup"
  <2>1. End(c, call[c].out) /\ stranded' = stranded \cup {c}
      BY <1>3 DEF Fails
  <2>2. call[c].out \in {"none", "ok", "error"}
      BY <1>0, CallFacts DEF CallStates
  <2> QED BY <1>0, <1>1, <2>1, <2>2, EndStep
<1>4. CASE ~(Replacing(c) /\ call[c].pc \in {"open", "fill", "rename"}) /\ call[c].pc # "cleanup"
  <2>1. End(c, "error") /\ stranded' = stranded
      BY <1>4 DEF Fails
  <2>2. call[c].pc \in {"fill", "rename", "cleanup"} => ~Replacing(c)
      BY <1>4
  <2> QED BY <1>0, <1>1, <1>4, <2>1, <2>2, EndStep
<1> QED BY <1>2, <1>3, <1>4

\* A call that has not begun has opened nothing and is nowhere.
LEMMA BeginStep ==
    ASSUME ToolsInv, NEW c \in Calls, NEW r \in Requests, Begin(c, r) \/ Refuse(c, r),
           failures' = failures
    PROVE  ToolsInv'
<1>0. ToolTypes /\ call[c] = Idle /\ call[c].pc = "idle" /\ UNCHANGED fileVars
    BY CallFacts DEF ToolsInv, Begin, Refuse
<1>1. PICK s \in CallStates : call' = [call EXCEPT ![c] = s] /\ s.req = r
                              /\ s.pc \in {"resolve", "done"}
  <2>1. CASE Begin(c, r)
    <3> DEFINE s == [req |-> r, pc |-> "resolve", out |-> "none",
                     existed |-> FALSE, file |-> Absent]
    <3>1. s \in CallStates /\ s.req = r /\ s.pc = "resolve"
        BY DEF CallStates, CallPcs
    <3>2. call' = [call EXCEPT ![c] = s]
        BY <2>1 DEF Begin
    <3> QED BY <3>1, <3>2
  <2>2. CASE Refuse(c, r)
    <3> DEFINE s == [req |-> r, pc |-> "done", out |-> "error",
                     existed |-> FALSE, file |-> Absent]
    <3>1. s \in CallStates /\ s.req = r /\ s.pc = "done"
        BY DEF CallStates, CallPcs
    <3>2. call' = [call EXCEPT ![c] = s]
        BY <2>2 DEF Refuse
    <3> QED BY <3>1, <3>2
  <2> QED BY <2>1, <2>2
<1>2. Changes(c, s) /\ call'[c] = s
    BY <1>0, <1>1, ChangeFacts DEF Changes
<1>3. \A d \in Calls : d # c => call'[d] = call[d]
    BY <1>2 DEF Changes
<1>4. ~Opened(c)
    BY <1>0 DEF Opened
<1>5. ToolTypes'
    BY <1>0, <1>2 DEF ToolTypes, fileVars, Changes, CallStates, AnyFile
<1>6. \A d \in Calls : call'[d] # Idle => CallAgrees(d)'
  <2> TAKE d \in Calls
  <2>1. CASE d = c
      BY <2>1, <1>1, <1>2 DEF CallAgrees
  <2>2. CASE d # c
    <3> SUFFICES ASSUME call[d] # Idle PROVE CallAgrees(d)'
        BY <1>3, <2>2
    <3>1. CallAgrees(d)
        BY DEF ToolsInv, CallsAgree, CallAgrees
    <3> QED BY <1>3, <2>2, <3>1 DEF CallAgrees, Phases, Replacing, Request, Path
  <2> QED BY <2>1, <2>2
<1>7. CallsAgree'
    BY <1>6 DEF CallsAgree, CallAgrees
<1>8. ContentsAgree'
  <2>1. \A d \in Calls : ~Opened(d)' => ~Opened(d)
      BY <1>3, <1>4 DEF Opened
  <2>2. \A d \in Calls : /\ call'[d].pc = "fill" => call[d].pc = "fill"
                         /\ call'[d].pc = "rename" => call[d].pc = "rename"
      BY <1>1, <1>2, <1>3
  <2> QED BY <1>0, <2>1, <2>2 DEF ToolsInv, ContentsAgree, fileVars
<1>9. PlacesAgree'
  <2> SUFFICES ASSUME NEW p \in DOMAIN tree' PROVE PlaceAgrees(p)'
      BY DEF PlacesAgree, PlaceAgrees
  <2>0. p \in DOMAIN tree /\ tree' = tree /\ data' = data /\ want' = want
        /\ stranded' = stranded
      BY <1>0 DEF fileVars
  <2>1. tree[p] # c
      BY <1>4, <2>0 DEF ToolsInv, PlacesAgree
  <2>2. \A d \in Calls : d # c => /\ Opened(d)' = Opened(d)
                                  /\ Replacing(d)' = Replacing(d)
                                  /\ TemporaryPath(d)' = TemporaryPath(d)
      BY <1>3 DEF Opened, Replacing, TemporaryPath, Path, Request
  <2>3. PICK f : f = tree[p]
      OBVIOUS
  <2>4. f \in Calls => Opened(f)
      BY <2>0, <2>3 DEF ToolsInv, PlacesAgree
  <2>5. IsTemporary(p) =>
             /\ f = Last(p) /\ f \in Calls /\ Replacing(f)
             /\ \/ /\ call[f].pc \in {"fill", "rename", "cleanup", "dead"}
                   /\ p = TemporaryPath(f)
                \/ f \in stranded
      BY <2>0, <2>3 DEF ToolsInv, PlacesAgree, IsTemporary
  <2>6. ~IsTemporary(p) /\ f \in Calls /\ Replacing(f) =>
             /\ data[f] = want[f] /\ call[f].out = "ok"
             /\ call[f].pc \in {"cleanup", "done", "dead"}
      BY <2>0, <2>3 DEF ToolsInv, PlacesAgree
  <2>7. f \in Calls => f # c /\ call'[f] = call[f] /\ Opened(f)'
            /\ Replacing(f)' = Replacing(f) /\ TemporaryPath(f)' = TemporaryPath(f)
      BY <1>3, <2>1, <2>2, <2>3, <2>4
  <2> QED BY <2>0, <2>3, <2>5, <2>6, <2>7 DEF PlaceAgrees
<1> QED BY <1>5, <1>7, <1>8, <1>9 DEF ToolsInv

\* The process ends: what was running is dead where it was.
LEMMA CrashStep ==
    ASSUME ToolsInv, ToolsCrash
    PROVE  ToolsInv'
<1>0. ToolTypes /\ UNCHANGED <<tree, data, want, stranded>>
    BY DEF ToolsInv, ToolsCrash
<1>1. /\ call' \in [Calls -> {Idle} \cup CallStates]
      /\ \A c \in Calls : /\ call'[c].req = call[c].req \/ call[c] = Idle
                          /\ call'[c] = Idle <=> call[c] = Idle
                          /\ call'[c] # call[c] =>
                                /\ Running(c) /\ call'[c].pc = "dead"
  <2>1. ASSUME NEW c \in Calls
        PROVE  LET s == IF Running(c) THEN [call[c] EXCEPT !.pc = "dead"] ELSE call[c] IN
               /\ s \in {Idle} \cup CallStates
               /\ call[c] # Idle => s.req = call[c].req
               /\ s = Idle <=> call[c] = Idle
               /\ s # call[c] => Running(c) /\ s.pc = "dead"
    <3>1. CASE Running(c)
      <4> DEFINE s == [call[c] EXCEPT !.pc = "dead"]
      <4>1. call[c] \in CallStates /\ call[c] # Idle
          BY <3>1, <1>0, CallFacts
      <4>2. s \in CallStates /\ s.pc = "dead" /\ s.req = call[c].req
          BY <4>1 DEF CallStates, CallPcs
      <4>3. s # Idle
          BY <4>2 DEF Idle
      <4> QED BY <3>1, <4>1, <4>2, <4>3
    <3>2. CASE ~Running(c)
        BY <3>2, <1>0, CallFacts
    <3> QED BY <3>1, <3>2
  <2>2. call' = [c \in Calls |-> IF Running(c) THEN [call[c] EXCEPT !.pc = "dead"] ELSE call[c]]
      BY DEF ToolsCrash
  <2> QED BY <2>1, <2>2
<1>2. ToolTypes'
  <2>1. failures' \in 0 .. MaxFailures
      BY <1>0, FileToolsAssumption DEF ToolsCrash, ToolTypes
  <2> QED BY <1>0, <1>1, <2>1 DEF ToolTypes, CallStates, AnyFile
<1>3. CallsAgree'
  <2>1. ASSUME NEW c \in Calls, call'[c] # Idle PROVE CallAgrees(c)'
    <3>1. CASE call'[c] = call[c]
      <4>1. CallAgrees(c)
          BY <2>1, <1>1 DEF ToolsInv, CallsAgree, CallAgrees
      <4> QED BY <3>1, <4>1 DEF CallAgrees, Phases, Replacing, Request, Path
    <3>2. CASE call'[c] # call[c]
        BY <3>2, <1>1 DEF CallAgrees
    <3> QED BY <3>1, <3>2
  <2> QED BY <2>1 DEF CallsAgree, CallAgrees
<1>4. ContentsAgree'
  <2>1. \A d \in Calls : ~Opened(d)' => ~Opened(d)
      BY <1>1 DEF Opened
  <2>2. \A d \in Calls : /\ call'[d].pc = "fill" => call[d].pc = "fill"
                         /\ call'[d].pc = "rename" => call[d].pc = "rename"
      BY <1>1
  <2> QED BY <1>0, <2>1, <2>2 DEF ToolsInv, ContentsAgree
<1>5. PlacesAgree'
  <2> SUFFICES ASSUME NEW p \in DOMAIN tree' PROVE PlaceAgrees(p)'
      BY DEF PlacesAgree, PlaceAgrees
  <2>3. PICK f : f = tree[p]
      OBVIOUS
  <2>4. f \in Calls => Opened(f) /\ call[f] # Idle
      BY <1>0, <2>3, CallFacts DEF ToolsInv, PlacesAgree, Opened
  <2>5. IsTemporary(p) =>
             /\ f = Last(p) /\ f \in Calls /\ Replacing(f)
             /\ \/ /\ call[f].pc \in {"fill", "rename", "cleanup", "dead"}
                   /\ p = TemporaryPath(f)
                \/ f \in stranded
      BY <1>0, <2>3 DEF ToolsInv, PlacesAgree, IsTemporary
  <2>6. ~IsTemporary(p) /\ f \in Calls /\ Replacing(f) =>
             /\ data[f] = want[f] /\ call[f].out = "ok"
             /\ call[f].pc \in {"cleanup", "done", "dead"}
      BY <1>0, <2>3 DEF ToolsInv, PlacesAgree
  <2>7. f \in Calls => /\ Opened(f)' /\ Replacing(f)' = Replacing(f)
                       /\ TemporaryPath(f)' = TemporaryPath(f)
      BY <1>1, <2>4, SameRequest DEF Opened
  <2>8. f \in Calls => \/ call'[f] = call[f]
                       \/ call'[f].pc = "dead" /\ call'[f].out = call[f].out
    <3> SUFFICES ASSUME f \in Calls, Running(f)
                 PROVE  call'[f].out = call[f].out
        BY <1>1
    <3>1. call'[f] = [call[f] EXCEPT !.pc = "dead"] /\ call[f] \in CallStates
        BY <1>0, CallFacts DEF ToolsCrash
    <3> QED BY <3>1 DEF CallStates
  <2> QED BY <1>0, <2>3, <2>5, <2>6, <2>7, <2>8 DEF PlaceAgrees
<1> QED BY <1>2, <1>3, <1>4, <1>5 DEF ToolsInv
-----------------------------------------------------------------------------
(***************************************************************************)
(* The steps of a call, one lemma for each.                                *)
(***************************************************************************)
LEMMA RootIsDirectory ==
    ASSUME ToolTypes
    PROVE  Workspace(tree) /\ At(tree, <<>>) = Dir
BY DEF ToolTypes, Workspace, AnyFile, IsWorkspace

LEMMA ProceedsStep ==
    ASSUME ToolsInv, NEW c \in Calls, call[c].pc \in {"resolve", "lstat"},
           NEW pc, Proceeds(c, pc), failures' \in 0 .. MaxFailures,
           \/ pc \in {"ok", "error"}
           \/ /\ pc \in {"parents", "open"} => Path(c) # <<>>
              /\ pc \notin {"fill", "rename", "cleanup", "move", "read", "rmtree"}
              /\ pc \in Phases(c) \cup {"lstat"}
    PROVE  ToolsInv'
<1>0. ToolTypes /\ call[c] # Idle /\ UNCHANGED fileVars
    BY CallFacts DEF ToolsInv, Proceeds
<1>1. OnlyFewer(tree, tree') /\ stranded \subseteq Calls
      /\ UNCHANGED <<data, want, stranded>>
    BY <1>0, SameIsFewer DEF ToolTypes, fileVars
<1>2. CASE pc \in {"ok", "error"}
  <2>1. End(c, pc)
      BY <1>2 DEF Proceeds
  <2> QED BY <1>0, <1>1, <1>2, <2>1, EndStep
<1>3. CASE pc \notin {"ok", "error"}
  <2>1. Goto(c, pc)
      BY <1>3 DEF Proceeds
  <2>2. call[c].pc \notin {"done", "dead"} /\ call[c] \in CallStates
      BY <1>0, CallFacts
  <2>3. pc \in CallPcs /\ pc \notin {"done", "dead"}
    <3>1. Request(c).kind \in {"write", "patch", "mkdir", "move", "delete"}
        BY <2>2, RequestFacts DEF Request, CallStates
    <3> QED BY <3>1, <1>3 DEF Phases, CallPcs
  <2> QED BY <1>0, <1>1, <1>3, <2>1, <2>3, GotoStep
<1> QED BY <1>2, <1>3

\* A call goes on whether its path is there, or is taken to be absent.
LEMMA ResolvesStep ==
    ASSUME ToolsInv, NEW c \in Calls, call[c].pc = "resolve",
           NEW exists \in BOOLEAN, Resolves(c, exists), exists \/ Path(c) # <<>>,
           failures' \in 0 .. MaxFailures
    PROVE  ToolsInv'
<1> DEFINE pc == CASE Request(c).kind = "write"  -> ResolvedToWrite(c, exists)
                   [] Request(c).kind = "mkdir"  -> ResolvedToMakeDirectory(exists)
                   [] Request(c).kind = "delete" -> ResolvedToDelete(exists)
                   [] OTHER -> "lstat"
<1>1. Proceeds(c, pc)
    BY DEF Resolves
<1>2. \/ pc \in {"ok", "error", "lstat"}
      \/ pc \in {"parents", "open"} /\ ~exists /\ Request(c).kind = "write"
      \/ pc = "mkdir" /\ Request(c).kind = "mkdir"
    BY DEF ResolvedToWrite, ResolvedToMakeDirectory, ResolvedToDelete, Prepared
<1>3. \/ pc \in {"ok", "error"}
      \/ /\ pc \in {"parents", "open"} => Path(c) # <<>>
         /\ pc \notin {"fill", "rename", "cleanup", "move", "read", "rmtree"}
         /\ pc \in Phases(c) \cup {"lstat"}
    BY <1>2 DEF Phases
<1> HIDE DEF pc
<1> QED BY <1>1, <1>3, ProceedsStep

LEMMA ResolvePathStep ==
    ASSUME ToolsInv, NEW c \in Calls, ResolvePath(c), failures' = failures
    PROVE  ToolsInv'
<1>1. ToolTypes /\ failures' \in 0 .. MaxFailures
    BY DEF ToolsInv, ToolTypes
<1>2. Here(c) # Absent \/ Path(c) # <<>>
    BY <1>1, RootIsDirectory, FileToolsAssumption DEF Here
<1> QED BY <1>1, <1>2, ResolvesStep DEF ResolvePath

LEMMA LstatStep ==
    ASSUME ToolsInv, NEW c \in Calls, Lstat(c), failures' = failures
    PROVE  ToolsInv'
<1> DEFINE pc == CASE Request(c).kind = "write"  -> LstatToWrite(c)
                   [] Request(c).kind = "patch"  -> LstatToPatch(c)
                   [] Request(c).kind = "mkdir"  -> LstatToMakeDirectory(c)
                   [] Request(c).kind = "move"   -> LstatToMove(c)
                   [] Request(c).kind = "delete" -> LstatToDelete(c)
<1>1. call[c].pc = "lstat" /\ Proceeds(c, pc)
    BY DEF Lstat
<1>2. ToolTypes /\ call[c] # Idle
    BY <1>1, CallFacts DEF ToolsInv
<1>3. Request(c).kind \in {"write", "patch", "mkdir", "move", "delete"}
    BY <1>2, CallFacts, RequestFacts DEF Request, CallStates
<1>4. \/ pc \in {"ok", "error"}
      \/ pc \in {"parents", "open"} /\ IsFile(tree, Path(c)) /\ Request(c).kind = "write"
      \/ pc = "openToRead" /\ Request(c).kind = "patch"
      \/ pc = "resolveTo" /\ Request(c).kind = "move"
      \/ pc \in {"readdir", "rm"} /\ Request(c).kind = "delete"
    BY <1>3 DEF LstatToWrite, LstatToPatch, LstatToMakeDirectory, LstatToMove,
                LstatToDelete, Prepared
<1>5. IsFile(tree, Path(c)) => Path(c) # <<>>
    BY <1>2, RootIsDirectory DEF IsFile
<1>6. \/ pc \in {"ok", "error"}
      \/ /\ pc \in {"parents", "open"} => Path(c) # <<>>
         /\ pc \notin {"fill", "rename", "cleanup", "move", "read", "rmtree"}
         /\ pc \in Phases(c) \cup {"lstat"}
    BY <1>4, <1>5 DEF Phases
<1>7. failures' \in 0 .. MaxFailures
    BY <1>2 DEF ToolTypes
<1> HIDE DEF pc
<1> QED BY <1>1, <1>6, <1>7, ProceedsStep

\* What a call at an await of its own knows.
LEMMA AtAwait ==
    ASSUME ToolsInv, NEW c \in Calls,
           call[c].pc \in {"parents", "openToRead", "read", "open", "fill", "rename",
              "cleanup", "mkdir", "resolveTo", "move", "readdir", "rmdir", "rm", "rmtree"}
    PROVE  /\ ToolTypes /\ call[c] # Idle /\ Running(c)
           /\ Request(c) \in Requests /\ Path(c) \in Seq(Names)
           /\ CallAgrees(c)
           /\ call[c].pc \in Phases(c)
           /\ stranded \subseteq Calls /\ failures \in 0 .. MaxFailures
           /\ Workspace(tree) /\ OnlyFewer(tree, tree)
<1>1. ToolTypes /\ Running(c)
    BY DEF ToolsInv, Running
<1>2. call[c] # Idle
    BY <1>1, CallFacts
<1>3. Request(c) \in Requests /\ Path(c) \in Seq(Names)
    BY <1>1, <1>2, CallFacts DEF CallStates, Request
<1>4. CallAgrees(c)
    BY <1>2 DEF ToolsInv, CallsAgree, CallAgrees
<1>5. call[c].pc \in Phases(c)
    BY <1>4 DEF CallAgrees
<1>6. stranded \subseteq Calls /\ failures \in 0 .. MaxFailures
    BY <1>1 DEF ToolTypes
<1> QED BY <1>1, <1>2, <1>3, <1>4, <1>5, <1>6, RootIsDirectory, SameIsFewer

LEMMA FailedStep ==
    ASSUME ToolsInv, NEW c \in Calls, Fails(c), failures' = failures,
           call[c].pc \in {"parents", "openToRead", "read", "open", "fill", "rename",
              "cleanup", "mkdir", "resolveTo", "move", "readdir", "rmdir", "rm", "rmtree"}
    PROVE  ToolsInv'
BY AtAwait, FailsStep

LEMMA MakeParentsStep ==
    ASSUME ToolsInv, NEW c \in Calls, MakeParents(c), failures' = failures
    PROVE  ToolsInv'
<1>1. call[c].pc = "parents"
    BY DEF MakeParents
<1>2. CASE CanMakeAll(tree, Front(Path(c)))
  <2>1. tree' = WithAll(tree, Front(Path(c))) /\ Goto(c, "open")
        /\ UNCHANGED <<data, want, stranded>>
      BY <1>2 DEF MakeParents
  <2>2. Path(c) # <<>> /\ Path(c) \in Paths /\ Front(Path(c)) \in Seq(Names)
      BY <1>1, AtAwait, PathFacts, FrontFacts DEF CallAgrees
  <2>3. OnlyFewer(tree, tree')
    <3>1. Workspace(tree)
        BY <1>1, AtAwait
    <3> QED BY <1>2, <2>1, <2>2, <3>1, WithAllOK, NamedIsNotTemporary DEF OnlyFewer
  <2>4. "open" \in Phases(c) /\ "open" \in CallPcs
      BY <1>1, AtAwait, RequestFacts DEF Phases, CallPcs
  <2> QED BY <1>1, <2>1, <2>2, <2>3, <2>4, AtAwait, GotoStep
<1>3. CASE ~CanMakeAll(tree, Front(Path(c)))
    BY <1>1, <1>3, FailedStep DEF MakeParents
<1> QED BY <1>2, <1>3

LEMMA OpenToReadStep ==
    ASSUME ToolsInv, NEW c \in Calls, OpenToRead(c), failures' = failures
    PROVE  ToolsInv'
<1>1. call[c].pc = "openToRead"
    BY DEF OpenToRead
<1>a. ToolTypes /\ call[c] # Idle /\ CallAgrees(c) /\ call[c].pc \in Phases(c)
      /\ stranded \subseteq Calls /\ failures \in 0 .. MaxFailures /\ OnlyFewer(tree, tree)
    BY <1>1, AtAwait
<1>2. CASE IsFile(tree, Path(c))
  <2> DEFINE s == [call[c] EXCEPT !.pc = "read", !.file = Here(c)]
  <2>1. call' = [call EXCEPT ![c].pc = "read", ![c].file = Here(c)] /\ UNCHANGED fileVars
      BY <1>2 DEF OpenToRead
  <2>2. Here(c) \in AnyFile /\ Path(c) # <<>>
    <3>1. Here(c) \notin {Dir, Absent} /\ Path(c) \in DOMAIN tree /\ Here(c) = tree[Path(c)]
        BY <1>2 DEF IsFile, Here, At
    <3>2. Workspace(tree)
        BY <1>1, AtAwait
    <3> QED BY <3>1, <3>2, WorkspaceFacts
  <2>3. call[c] \in CallStates
      BY <1>a, CallFacts
  <2>4. s \in CallStates /\ s.pc = "read" /\ s.req = call[c].req /\ s.file = Here(c)
      BY <2>2, <2>3 DEF CallStates, CallPcs
  <2>5. call' = [call EXCEPT ![c] = s]
      BY <2>1
  <2> HIDE DEF s
  <2>6. Changes(c, s) /\ call'[c] = s
      BY <1>a, <2>4, <2>5, ChangeFacts DEF Changes
  <2>7. call'[c].pc = "read" /\ call'[c].req = call[c].req /\ call'[c].file \in AnyFile
      BY <2>2, <2>4, <2>6
  <2>8. "read" \in Phases(c) /\ call'[c].file # Absent
    <3>1. Request(c).kind = "patch"
        BY <1>1, <1>a, AtAwait, RequestFacts DEF Phases
    <3> QED BY <3>1, <2>7, FileToolsAssumption DEF Phases, AnyFile
  <2>9. CallAgrees(c)'
      BY <2>2, <2>7, <2>8, SameRequest DEF CallAgrees
  <2>10. ~Opened(c)
      BY <1>1 DEF Opened
  <2>11. OnlyFewer(tree, tree') /\ UNCHANGED <<data, want, stranded>>
      BY <1>a, <2>1 DEF fileVars
  <2> QED BY <1>1, <1>a, <2>6, <2>7, <2>9, <2>10, <2>11, CallStep
<1>3. CASE ~IsFile(tree, Path(c))
    BY <1>1, <1>3, FailedStep DEF OpenToRead
<1> QED BY <1>2, <1>3

LEMMA RemoveTemporaryStep ==
    ASSUME ToolsInv, NEW c \in Calls, RemoveTemporary(c), failures' = failures
    PROVE  ToolsInv'
<1>1. call[c].pc = "cleanup" /\ tree' = Without(tree, TemporaryPath(c))
      /\ End(c, call[c].out) /\ UNCHANGED <<data, want, stranded>>
    BY DEF RemoveTemporary
<1>2. ToolTypes /\ call[c] # Idle /\ CallAgrees(c) /\ Path(c) \in Seq(Names)
      /\ stranded \subseteq Calls /\ failures \in 0 .. MaxFailures /\ Workspace(tree)
    BY <1>1, AtAwait
<1>3. Path(c) # <<>>
    BY <1>1, <1>2 DEF CallAgrees
<1> DEFINE t == TemporaryPath(c)
<1>4. t # <<>> /\ IsTemporary(t) /\ t \in Paths
    BY <1>2, <1>3, TemporaryFacts DEF TemporaryPath
<1>5. Below(tree, t) = {}
  <2> SUFFICES ASSUME NEW p \in DOMAIN tree, IsPrefix(t, p), t # p PROVE FALSE
      BY DEF Below, IsStrictPrefix
  <2>1. t \in DOMAIN tree /\ tree[t] = Dir
      BY <1>2, <1>4, PathFacts, WorkspaceFacts
  <2>2. tree[t] \in Calls
      BY <1>4, <2>1 DEF ToolsInv, PlacesAgree, IsTemporary
  <2> QED BY <2>1, <2>2, FileToolsAssumption
<1>6. OnlyFewer(tree, tree') /\ t \notin DOMAIN tree'
  <2>1. tree' = Without(tree, t)
      BY <1>1
  <2> HIDE DEF t
  <2>2. Workspace(tree') /\ DOMAIN tree' = DOMAIN tree \ {t}
        /\ \A p \in DOMAIN tree \ {t} : tree'[p] = tree[p]
      BY <2>1, <1>2, <1>4, <1>5, WithoutOK
  <2> QED BY <2>2 DEF OnlyFewer
<1>7. call[c].out \in {"none", "ok", "error"}
    BY <1>2, CallFacts DEF CallStates
<1> QED BY <1>1, <1>2, <1>6, <1>7, EndStep

LEMMA MakeDirectoryStep ==
    ASSUME ToolsInv, NEW c \in Calls, MakeDirectory(c), failures' = failures
    PROVE  ToolsInv'
<1>1. call[c].pc = "mkdir"
    BY DEF MakeDirectory
<1> DEFINE can == IF Request(c).recursive THEN CanMakeAll(tree, Path(c))
                                          ELSE CanCreate(tree, Path(c))
<1>2. ToolTypes /\ call[c] # Idle /\ Path(c) \in Seq(Names) /\ Workspace(tree)
      /\ stranded \subseteq Calls /\ failures \in 0 .. MaxFailures
    BY <1>1, AtAwait
<1>3. CASE can
  <2>1. tree' = WithAll(tree, Path(c)) /\ End(c, "ok") /\ UNCHANGED <<data, want, stranded>>
      BY <1>3 DEF MakeDirectory
  <2>2. CanMakeAll(tree, Path(c))
    <3> SUFFICES ASSUME CanCreate(tree, Path(c)) PROVE CanMakeAll(tree, Path(c))
        BY <1>3
    <3>1. Path(c) # <<>>
        BY <1>2, RootIsDirectory, FileToolsAssumption DEF CanCreate
    <3> QED BY <3>1, <1>2, CreateMakesAll
  <2>3. OnlyFewer(tree, tree')
      BY <1>2, <2>1, <2>2, WithAllOK, NamedIsNotTemporary DEF OnlyFewer
  <2> QED BY <1>1, <1>2, <2>1, <2>3, EndStep
<1>4. CASE ~can
    BY <1>1, <1>4, FailedStep DEF MakeDirectory
<1> QED BY <1>3, <1>4

LEMMA ResolvesToStep ==
    ASSUME ToolsInv, NEW c \in Calls, call[c].pc = "resolveTo",
           NEW existed \in BOOLEAN, ResolvesTo(c, existed), failures' \in 0 .. MaxFailures
    PROVE  ToolsInv'
<1>1. UNCHANGED <<tree, data, want, stranded>>
    BY DEF ResolvesTo, fileVars
<1>2. ToolTypes /\ call[c] # Idle /\ CallAgrees(c) /\ call[c].pc \in Phases(c)
      /\ Request(c) \in Requests /\ stranded \subseteq Calls
      /\ OnlyFewer(tree, tree)
    BY AtAwait
<1>3. CASE existed /\ ~Request(c).overwrite
    BY <1>1, <1>2, <1>3, EndStep DEF ResolvesTo
<1>4. CASE ~(existed /\ ~Request(c).overwrite)
  <2> DEFINE s == [call[c] EXCEPT !.pc = "move", !.existed = existed]
  <2>1. call' = [call EXCEPT ![c].pc = "move", ![c].existed = existed]
      BY <1>4 DEF ResolvesTo
  <2>2. call[c] \in CallStates
      BY <1>2, CallFacts
  <2>3. s \in CallStates /\ s.pc = "move" /\ s.req = call[c].req /\ s.existed = existed
      BY <2>2 DEF CallStates, CallPcs
  <2>4. call' = [call EXCEPT ![c] = s]
      BY <2>1
  <2> HIDE DEF s
  <2>5. Changes(c, s) /\ call'[c] = s
      BY <1>2, <2>3, <2>4, ChangeFacts DEF Changes
  <2>6. call'[c].pc = "move" /\ call'[c].req = call[c].req
        /\ (Request(c).overwrite \/ ~call'[c].existed)
      BY <1>4, <2>3, <2>5
  <2>7. "move" \in Phases(c)
      BY <1>2, RequestFacts DEF Phases
  <2>8. CallAgrees(c)'
      BY <2>6, <2>7, SameRequest DEF CallAgrees
  <2>9. ~Opened(c)
      BY DEF Opened
  <2> QED BY <1>1, <1>2, <2>5, <2>6, <2>8, <2>9, CallStep
<1> QED BY <1>3, <1>4

LEMMA ResolveDestinationStep ==
    ASSUME ToolsInv, NEW c \in Calls, ResolveDestination(c), failures' = failures
    PROVE  ToolsInv'
<1>1. failures' \in 0 .. MaxFailures
    BY DEF ToolsInv, ToolTypes
<1> QED BY <1>1, ResolvesToStep DEF ResolveDestination

LEMMA RemovedStep ==
    ASSUME ToolsInv, NEW p \in DOMAIN tree, p # <<>>, Below(tree, p) = {}, Removed(p)
    PROVE  OnlyFewer(tree, tree') /\ UNCHANGED <<data, want, stranded>>
           /\ \A q \in DOMAIN tree : q # p => q \in DOMAIN tree' /\ tree'[q] = tree[q]
<1>1. Workspace(tree) /\ tree' = Without(tree, p) /\ UNCHANGED <<data, want, stranded>>
    BY RootIsDirectory DEF ToolsInv, Removed
<1>2. Workspace(tree') /\ DOMAIN tree' = DOMAIN tree \ {p}
      /\ \A q \in DOMAIN tree \ {p} : tree'[q] = tree[q]
    BY <1>1, WithoutOK
<1> QED BY <1>1, <1>2 DEF OnlyFewer

\* Nothing is below a file.
LEMMA BelowFile ==
    ASSUME NEW t, Workspace(t), NEW p \in DOMAIN t, t[p] # Dir
    PROVE  Below(t, p) = {} /\ p # <<>>
BY WorkspaceFacts DEF Below, IsStrictPrefix

LEMMA ReadDirectoryStep ==
    ASSUME ToolsInv, NEW c \in Calls, ReadDirectory(c), failures' = failures
    PROVE  ToolsInv'
<1>1. call[c].pc = "readdir"
    BY DEF ReadDirectory
<1>2. CASE CanRemoveDirectory(tree, Path(c))
  <2>1. Goto(c, "rmdir") /\ UNCHANGED <<tree, data, want, stranded>>
      BY <1>2 DEF ReadDirectory, fileVars
  <2>2. call[c] # Idle /\ OnlyFewer(tree, tree) /\ failures \in 0 .. MaxFailures
        /\ Request(c) \in Requests /\ call[c].pc \in Phases(c)
      BY <1>1, AtAwait
  <2>3. "rmdir" \in Phases(c) /\ "rmdir" \in CallPcs
      BY <1>1, <2>2, RequestFacts DEF Phases, CallPcs
  <2> QED BY <1>1, <2>1, <2>2, <2>3, GotoStep
<1>3. CASE ~CanRemoveDirectory(tree, Path(c))
    BY <1>1, <1>3, FailedStep DEF ReadDirectory
<1> QED BY <1>2, <1>3

LEMMA RemoveDirectoryStep ==
    ASSUME ToolsInv, NEW c \in Calls, RemoveDirectory(c), failures' = failures
    PROVE  ToolsInv'
<1>1. call[c].pc = "rmdir"
    BY DEF RemoveDirectory
<1>2. CASE CanRemoveDirectory(tree, Path(c))
  <2>1. Removed(Path(c)) /\ End(c, "ok")
      BY <1>2 DEF RemoveDirectory
  <2>2. call[c] # Idle /\ failures \in 0 .. MaxFailures /\ stranded \subseteq Calls
        /\ Request(c) \in Requests /\ call[c].pc \in Phases(c)
      BY <1>1, AtAwait
  <2>3. Request(c).kind = "delete"
      BY <1>1, <2>2, RequestFacts DEF Phases
  <2>4. Path(c) # <<>> /\ Path(c) \in DOMAIN tree /\ Below(tree, Path(c)) = {}
      BY <1>2, <2>2, <2>3, RequestFacts, FileToolsAssumption
         DEF CanRemoveDirectory, At, Path
  <2>5. OnlyFewer(tree, tree') /\ UNCHANGED <<data, want, stranded>>
      BY <2>1, <2>4, RemovedStep
  <2> QED BY <1>1, <2>1, <2>2, <2>5, EndStep
<1>3. CASE ~CanRemoveDirectory(tree, Path(c))
    BY <1>1, <1>3, FailedStep DEF RemoveDirectory
<1> QED BY <1>2, <1>3

LEMMA RemovePathStep ==
    ASSUME ToolsInv, NEW c \in Calls, RemovePath(c), failures' = failures
    PROVE  ToolsInv'
<1>1. call[c].pc = "rm"
    BY DEF RemovePath
<1>2. call[c] # Idle /\ failures \in 0 .. MaxFailures /\ stranded \subseteq Calls
      /\ Request(c) \in Requests /\ call[c].pc \in Phases(c) /\ Workspace(tree)
      /\ OnlyFewer(tree, tree)
    BY <1>1, AtAwait
<1>3. CASE IsFile(tree, Path(c))
  <2>1. Removed(Path(c)) /\ End(c, "ok")
    <3>1. Here(c) # Dir
        BY <1>3 DEF IsFile, Here
    <3> QED BY <1>3, <3>1 DEF RemovePath
  <2>2. Path(c) \in DOMAIN tree /\ tree[Path(c)] # Dir
      BY <1>3 DEF IsFile, At
  <2>3. Path(c) # <<>> /\ Below(tree, Path(c)) = {}
      BY <1>2, <2>2, BelowFile
  <2>5. OnlyFewer(tree, tree') /\ UNCHANGED <<data, want, stranded>>
      BY <2>1, <2>2, <2>3, RemovedStep
  <2> QED BY <1>1, <1>2, <2>1, <2>5, EndStep
<1>4. CASE ~IsFile(tree, Path(c)) /\ Here(c) = Dir /\ Request(c).recursive
  <2>1. Goto(c, "rmtree") /\ UNCHANGED <<tree, data, want, stranded>>
      BY <1>4 DEF RemovePath, fileVars
  <2>2. "rmtree" \in Phases(c) /\ "rmtree" \in CallPcs
      BY <1>1, <1>2, RequestFacts DEF Phases, CallPcs
  <2> QED BY <1>1, <1>2, <1>4, <2>1, <2>2, GotoStep
<1>5. CASE ~IsFile(tree, Path(c)) /\ ~(Here(c) = Dir /\ Request(c).recursive)
    BY <1>1, <1>5, FailedStep DEF RemovePath
<1> QED BY <1>3, <1>4, <1>5

LEMMA RemoveTreeStep ==
    ASSUME ToolsInv, NEW c \in Calls, RemoveTree(c), failures' = failures
    PROVE  ToolsInv'
<1>1. call[c].pc = "rmtree"
    BY DEF RemoveTree
<1>2. ToolTypes /\ call[c] # Idle /\ failures \in 0 .. MaxFailures /\ stranded \subseteq Calls
      /\ Request(c) \in Requests /\ call[c].pc \in Phases(c) /\ Workspace(tree)
      /\ OnlyFewer(tree, tree) /\ CallAgrees(c)
    BY <1>1, AtAwait
<1>3. Path(c) # <<>>
  <2>1. Request(c).kind = "delete"
      BY <1>1, <1>2, RequestFacts DEF Phases
  <2> QED BY <1>2, <2>1, RequestFacts DEF Path
<1>4. ASSUME NEW p \in Below(tree, Path(c)) \cup ({Path(c)} \cap DOMAIN tree),
             Below(tree, p) = {}, Removed(p),
             IF p = Path(c) THEN End(c, "ok") ELSE UNCHANGED call
      PROVE  ToolsInv'
  <2>1. p \in DOMAIN tree /\ p # <<>>
    <3>1. <<>> \in DOMAIN tree /\ DOMAIN tree \subseteq Seq(AnyName)
        BY <1>2, WorkspaceFacts
    <3>2. Path(c) \in Seq(AnyName)
        BY <1>1, AtAwait, PathFacts
    <3>3. ASSUME p = <<>>, IsPrefix(Path(c), p) PROVE Path(c) = <<>>
      <4>1. IsPrefix(p, Path(c))
          BY <3>2, <3>3, PrefixOrder
      <4>2. Len(p) = 0 /\ Len(Path(c)) <= Len(p) /\ Len(Path(c)) \in Nat
          BY <3>2, <3>3, EmptySeq, LenProperties DEF IsPrefix
      <4>3. Len(Path(c)) = Len(p) /\ p \in Seq(AnyName)
          BY <3>1, <3>3, <4>2
      <4> QED BY <3>2, <3>3, <4>3, PrefixOrder
    <3> QED BY <1>3, <3>3 DEF Below, IsStrictPrefix
  <2>2. OnlyFewer(tree, tree') /\ UNCHANGED <<data, want, stranded>>
      BY <1>4, <2>1, RemovedStep
  <2>3. CASE p = Path(c)
      BY <1>1, <1>2, <1>4, <2>2, <2>3, EndStep
  <2>4. CASE p # Path(c)
    <3>1. call' = call
        BY <1>4, <2>4
    <3>2. Changes(c, call[c]) /\ call'[c].req = call[c].req
        BY <1>2, <3>1 DEF Changes, ToolTypes, CallStates, AnyFile
    <3>3. CallAgrees(c)'
        BY <1>2, <3>1 DEF CallAgrees, Phases, Replacing, Request, Path
    <3>4. ~Opened(c)
        BY <1>1 DEF Opened
    <3> QED BY <1>1, <1>2, <2>2, <3>1, <3>2, <3>3, <3>4, CallStep
  <2> QED BY <2>3, <2>4
<1>5. ASSUME End(c, "ok"), UNCHANGED fileVars PROVE ToolsInv'
  <2>1. UNCHANGED <<tree, data, want, stranded>>
      BY <1>5 DEF fileVars
  <2> QED BY <1>1, <1>2, <1>5, <2>1, EndStep
<1>6. ASSUME Fails(c) PROVE ToolsInv'
    BY <1>1, <1>6, FailedStep
<1> QED BY <1>4, <1>5, <1>6 DEF RemoveTree

\* A step of one call that opens, fills or places its own file.
LEMMA OthersKeep ==
    ASSUME ToolsInv, NEW c \in Calls, NEW s, Changes(c, s), call'[c].req = call[c].req
    PROVE  /\ \A d \in Calls : d # c => call'[d] = call[d]
           /\ \A d \in Calls : call'[d] # Idle /\ d # c => CallAgrees(d)'
           /\ \A d \in Calls : /\ Replacing(d)' = Replacing(d)
                               /\ TemporaryPath(d)' = TemporaryPath(d)
           /\ \A d \in Calls : d # c => Opened(d)' = Opened(d)
<1>1. \A d \in Calls : d # c => call'[d] = call[d]
    BY DEF Changes
<1>2. \A d \in Calls : call'[d].req = call[d].req
    BY <1>1
<1>3. ASSUME NEW d \in Calls, call'[d] # Idle, d # c PROVE CallAgrees(d)'
  <2>1. call'[d] = call[d] /\ CallAgrees(d)
      BY <1>1, <1>3 DEF ToolsInv, CallsAgree, CallAgrees
  <2> QED BY <2>1 DEF CallAgrees, Phases, Replacing, Request, Path
<1>4. \A d \in Calls : /\ Replacing(d)' = Replacing(d)
                       /\ TemporaryPath(d)' = TemporaryPath(d)
    BY <1>2, SameRequest
<1>5. \A d \in Calls : d # c => Opened(d)' = Opened(d)
    BY <1>1 DEF Opened
<1> QED BY <1>1, <1>3, <1>4, <1>5

\* What a place says of the file at it, for the file as a constant.
LEMMA PlaceFacts ==
    ASSUME ToolsInv, NEW p \in DOMAIN tree, NEW f, f = tree[p]
    PROVE  /\ f \in Calls => Opened(f)
           /\ IsTemporary(p) =>
                /\ f = Last(p) /\ f \in Calls /\ Replacing(f)
                /\ \/ /\ call[f].pc \in {"fill", "rename", "cleanup", "dead"}
                      /\ p = TemporaryPath(f)
                   \/ f \in stranded
           /\ ~IsTemporary(p) /\ f \in Calls /\ Replacing(f) =>
                /\ data[f] = want[f] /\ call[f].out = "ok"
                /\ call[f].pc \in {"cleanup", "done", "dead"}
BY DEF ToolsInv, PlacesAgree, IsTemporary

LEMMA ReadContentStep ==
    ASSUME ToolsInv, NEW c \in Calls, ReadContent(c), failures' = failures
    PROVE  ToolsInv'
<1>1. call[c].pc = "read" /\ UNCHANGED <<tree, data, stranded>>
    BY DEF ReadContent
<1>2. ToolTypes /\ call[c] # Idle /\ CallAgrees(c) /\ call[c].pc \in Phases(c)
      /\ Request(c) \in Requests /\ stranded \subseteq Calls
      /\ failures \in 0 .. MaxFailures /\ OnlyFewer(tree, tree)
    BY <1>1, AtAwait
<1>3. CASE End(c, "error") /\ UNCHANGED want
    BY <1>1, <1>2, <1>3, EndStep
<1>4. CASE Goto(c, "open") /\ want' = [want EXCEPT ![c] = data[call[c].file]]
  <2>1. Changes(c, [call[c] EXCEPT !.pc = "open"]) /\ call'[c].pc = "open"
        /\ call'[c].req = call[c].req
      BY <1>2, <1>4, GotoFacts DEF CallPcs
  <2>2. "open" \in Phases(c) /\ Path(c) # <<>>
      BY <1>1, <1>2, RequestFacts DEF Phases, CallAgrees
  <2>3. CallAgrees(c)'
      BY <2>1, <2>2, SameRequest DEF CallAgrees
  <2>4. CallsAgree'
      BY <2>1, <2>3, OthersKeep DEF CallsAgree, CallAgrees
  <2>5. call[c].file \in AnyFile
      BY <1>1, <1>2, CallFacts DEF CallStates, CallAgrees
  <2>6. /\ data \in [AnyFile -> Seq(AnyFile)] /\ want \in [AnyFile -> Seq(AnyFile)]
        /\ want' \in [AnyFile -> Seq(AnyFile)]
      BY <1>2, <1>4, <2>5 DEF ToolTypes, AnyFile
  <2>7. ToolTypes'
      BY <1>1, <1>2, <2>1, <2>6 DEF ToolTypes, Changes, CallStates, AnyFile, IsWorkspace
  <2>8. /\ \A f \in AnyFile : f # c => want'[f] = want[f]
        /\ data[c] = <<>> /\ c \in AnyFile /\ c \notin Files
    <3>1. ~Opened(c)
        BY <1>1 DEF Opened
    <3> QED BY <1>4, <2>6, <3>1, FileToolsAssumption DEF ToolsInv, ContentsAgree, AnyFile
  <2>9. ContentsAgree'
    <3>1. IsPrefix(data[c], want'[c])
        BY <2>6, <2>8, PrefixOrder
    <3>2. \A f \in AnyFile : IsPrefix(data[f], want'[f])
        BY <2>8, <3>1 DEF ToolsInv, ContentsAgree, AnyFile
    <3>3. \A f \in Files : data[f] = want'[f]
        BY <2>8 DEF ToolsInv, ContentsAgree, AnyFile
    <3>4. \A d \in Calls : /\ ~Opened(d)' => data[d] = <<>>
                           /\ call'[d].pc = "fill" => data[d] # want'[d]
                           /\ call'[d].pc = "rename" => data[d] = want'[d]
      <4> TAKE d \in Calls
      <4>1. CASE d = c
          BY <4>1, <2>1, <2>8
      <4>2. CASE d # c
        <5>1. call'[d] = call[d] /\ Opened(d)' = Opened(d) /\ want'[d] = want[d]
            BY <4>2, <2>1, <2>8, OthersKeep DEF AnyFile
        <5> QED BY <5>1 DEF ToolsInv, ContentsAgree
      <4> QED BY <4>1, <4>2
    <3> QED BY <1>1, <3>2, <3>3, <3>4 DEF ContentsAgree, AnyFile
  <2>10. PlacesAgree'
    <3> SUFFICES ASSUME NEW p \in DOMAIN tree, NEW f, f = tree[p]
                 PROVE  PlaceAgrees(p)'
        BY <1>1 DEF PlacesAgree, PlaceAgrees
    <3>1. f \in Calls => f # c
        BY <1>1, PlaceFacts DEF Opened
    <3>2. f \in Calls => /\ call'[f] = call[f] /\ Opened(f)' = Opened(f)
                         /\ want'[f] = want[f] /\ Replacing(f)' = Replacing(f)
                         /\ TemporaryPath(f)' = TemporaryPath(f)
        BY <2>1, <2>8, <3>1, OthersKeep DEF AnyFile
    <3> QED BY <1>1, <3>2, PlaceFacts DEF PlaceAgrees
  <2> QED BY <2>4, <2>7, <2>9, <2>10 DEF ToolsInv
<1> QED BY <1>3, <1>4 DEF ReadContent

LEMMA OpenOutputStep ==
    ASSUME ToolsInv, NEW c \in Calls, OpenOutput(c), failures' = failures
    PROVE  ToolsInv'
<1>1. call[c].pc = "open"
    BY DEF OpenOutput
<1>2. ToolTypes /\ call[c] # Idle /\ CallAgrees(c) /\ call[c].pc \in Phases(c)
      /\ Request(c) \in Requests /\ stranded \subseteq Calls /\ Path(c) \in Seq(Names)
      /\ failures \in 0 .. MaxFailures /\ Workspace(tree)
    BY <1>1, AtAwait
<1> DEFINE o == OutputPath(c)
<1>3. CASE CanCreate(tree, o)
  <2>1. tree' = With(tree, o, c) /\ want' = [want EXCEPT ![c] = Append(@, c)]
        /\ Goto(c, "fill") /\ UNCHANGED <<data, stranded>>
      BY <1>3 DEF OpenOutput
  <2>2. Path(c) # <<>> /\ "fill" \in Phases(c) /\ "fill" \in CallPcs
      BY <1>1, <1>2, RequestFacts DEF CallAgrees, Phases, CallPcs
  <2>3. o # <<>> /\ o \in Paths /\ (IsTemporary(o) <=> Replacing(c))
        /\ (Replacing(c) => o = TemporaryPath(c) /\ Last(o) = c)
    <3>1. CASE Replacing(c)
        BY <3>1, <1>2, <2>2, TemporaryFacts DEF OutputPath, TemporaryPath
    <3>2. CASE ~Replacing(c)
        BY <3>2, <1>2, <2>2, PathFacts, NamedIsNotTemporary DEF OutputPath
    <3> QED BY <3>1, <3>2
  <2> HIDE DEF o
  <2>4. ~Opened(c) /\ c \in AnyFile /\ c \notin Files
      BY <1>1, FileToolsAssumption DEF Opened, AnyFile
  <2>5. \A p \in DOMAIN tree : tree[p] # c
      BY <2>4, PlaceFacts
  <2>6. /\ Workspace(tree') /\ DOMAIN tree' = DOMAIN tree \cup {o} /\ o \notin DOMAIN tree
        /\ tree'[o] = c /\ \A p \in DOMAIN tree : tree'[p] = tree[p]
    <3>0. /\ Workspace(tree) /\ o \in Paths /\ o # <<>> /\ c \in AnyFile
          /\ CanCreate(tree, o) /\ \A p \in DOMAIN tree : tree[p] # c
        BY <1>2, <1>3, <2>3, <2>4, <2>5
    <3>1. /\ Workspace(With(tree, o, c)) /\ o \notin DOMAIN tree
          /\ DOMAIN With(tree, o, c) = DOMAIN tree \cup {o}
        BY <3>0, WithOK
    <3>2. /\ With(tree, o, c)[o] = c
          /\ \A p \in DOMAIN tree : With(tree, o, c)[p] = tree[p]
        BY <3>1 DEF With
    <3> QED BY <2>1, <3>1, <3>2
  <2>7. Changes(c, [call[c] EXCEPT !.pc = "fill"]) /\ call'[c].pc = "fill"
        /\ call'[c].req = call[c].req
      BY <1>2, <2>1, <2>2, GotoFacts
  <2>8. CallAgrees(c)'
      BY <2>2, <2>7, SameRequest DEF CallAgrees
  <2>9. CallsAgree'
      BY <2>7, <2>8, OthersKeep DEF CallsAgree, CallAgrees
  <2>10. /\ data \in [AnyFile -> Seq(AnyFile)] /\ want \in [AnyFile -> Seq(AnyFile)]
      BY <1>2 DEF ToolTypes, AnyFile
  <2>11. /\ want' \in [AnyFile -> Seq(AnyFile)]
         /\ \A f \in AnyFile : f # c => want'[f] = want[f]
         /\ want'[c] # <<>>
    <3>1. Append(want[c], c) \in Seq(AnyFile) /\ Append(want[c], c) # <<>>
        BY <2>4, <2>10, AppendProperties
    <3> QED BY <2>1, <2>4, <2>10, <3>1
  <2>12. ToolTypes'
      BY <1>2, <2>1, <2>6, <2>7, <2>11 DEF ToolTypes, Changes, CallStates, AnyFile, Workspace
  <2>13. data[c] = <<>>
      BY <2>4 DEF ToolsInv, ContentsAgree
  <2>14. ContentsAgree'
    <3>1. IsPrefix(data[c], want'[c])
        BY <2>4, <2>11, <2>13, PrefixOrder
    <3>2. \A f \in AnyFile : IsPrefix(data[f], want'[f])
        BY <2>11, <3>1 DEF ToolsInv, ContentsAgree, AnyFile
    <3>3. \A f \in Files : data[f] = want'[f]
        BY <2>4, <2>11 DEF ToolsInv, ContentsAgree, AnyFile
    <3>4. \A d \in Calls : /\ ~Opened(d)' => data[d] = <<>>
                           /\ call'[d].pc = "fill" => data[d] # want'[d]
                           /\ call'[d].pc = "rename" => data[d] = want'[d]
      <4> TAKE d \in Calls
      <4>1. CASE d = c
          BY <4>1, <2>7, <2>11, <2>13
      <4>2. CASE d # c
        <5>1. call'[d] = call[d] /\ Opened(d)' = Opened(d) /\ want'[d] = want[d]
            BY <4>2, <2>7, <2>11, OthersKeep DEF AnyFile
        <5> QED BY <5>1 DEF ToolsInv, ContentsAgree
      <4> QED BY <4>1, <4>2
    <3> QED BY <2>1, <3>2, <3>3, <3>4 DEF ContentsAgree, AnyFile
  <2>15. Opened(c)' /\ Replacing(c)' = Replacing(c) /\ TemporaryPath(c)' = TemporaryPath(c)
      BY <2>7, SameRequest DEF Opened
  <2>16. PlacesAgree'
    <3> SUFFICES ASSUME NEW p \in DOMAIN tree' PROVE PlaceAgrees(p)'
        BY DEF PlacesAgree, PlaceAgrees
    <3>1. CASE p = o
        BY <3>1, <2>3, <2>6, <2>7, <2>15 DEF PlaceAgrees
    <3>2. CASE p \in DOMAIN tree
      <4>0. PICK f : f = tree[p]
          OBVIOUS
      <4>1. f # c /\ tree'[p] = f
          BY <3>2, <4>0, <2>5, <2>6
      <4>2. f \in Calls => /\ call'[f] = call[f] /\ Opened(f)' = Opened(f)
                           /\ want'[f] = want[f] /\ Replacing(f)' = Replacing(f)
                           /\ TemporaryPath(f)' = TemporaryPath(f)
          BY <2>7, <2>11, <4>1, OthersKeep DEF AnyFile
      <4> QED BY <2>1, <3>2, <4>0, <4>1, <4>2, PlaceFacts DEF PlaceAgrees
    <3> QED BY <3>1, <3>2, <2>6
  <2> QED BY <2>9, <2>12, <2>14, <2>16 DEF ToolsInv
<1>4. CASE ~CanCreate(tree, o)
    BY <1>1, <1>4, FailedStep DEF OpenOutput
<1> QED BY <1>3, <1>4

LEMMA FillStep ==
    ASSUME ToolsInv, NEW c \in Calls, Fill(c), failures' = failures
    PROVE  ToolsInv'
<1>1. call[c].pc = "fill" /\ UNCHANGED <<tree, want, stranded>>
      /\ data' = [data EXCEPT ![c] = SubSeq(want[c], 1, Len(@) + 1)]
    BY DEF Fill
<1>2. ToolTypes /\ call[c] # Idle /\ CallAgrees(c) /\ call[c].pc \in Phases(c)
      /\ Request(c) \in Requests /\ stranded \subseteq Calls
      /\ failures \in 0 .. MaxFailures
    BY <1>1, AtAwait
<1>3. /\ data \in [AnyFile -> Seq(AnyFile)] /\ want \in [AnyFile -> Seq(AnyFile)]
    BY <1>2 DEF ToolTypes, AnyFile
<1>4. c \in AnyFile /\ c \notin Files
    BY FileToolsAssumption DEF AnyFile
<1> DEFINE old == data[c]
           all == want[c]
           new == SubSeq(all, 1, Len(old) + 1)
<1>5. old \in Seq(AnyFile) /\ all \in Seq(AnyFile) /\ IsPrefix(old, all) /\ old # all
    BY <1>1, <1>3, <1>4 DEF ToolsInv, ContentsAgree, AnyFile
<1>6. Len(old) + 1 \in 0 .. Len(all)
  <2> HIDE DEF old, all
  <2>1. Len(old) < Len(all) /\ Len(old) \in Nat /\ Len(all) \in Nat
      BY <1>5, PrefixOrder, LenProperties
  <2> QED BY <2>1
<1>7. new \in Seq(AnyFile) /\ IsPrefix(new, all)
    BY <1>5, <1>6, BeginningIsPrefix
<1>8. /\ data' \in [AnyFile -> Seq(AnyFile)] /\ data'[c] = new
      /\ \A f \in AnyFile : f # c => data'[f] = data[f]
    BY <1>1, <1>3, <1>4, <1>7
<1> HIDE DEF new
<1>9. PICK s : /\ Changes(c, s) /\ call'[c].req = call[c].req
               /\ call'[c].pc \in {"fill", "rename", "done"}
               /\ call'[c].pc = "fill" => data'[c] # want[c]
               /\ call'[c].pc = "rename" => data'[c] = want[c] /\ Replacing(c)
               /\ call'[c].pc = "done" => ~Replacing(c)
  <2>1. CASE data'[c] # want[c]
    <3>1. call' = call
        BY <2>1 DEF Fill
    <3>2. Changes(c, call[c]) /\ call'[c].req = call[c].req
        BY <1>2, <3>1 DEF Changes, ToolTypes, CallStates, AnyFile
    <3> QED BY <1>1, <2>1, <3>1, <3>2
  <2>2. CASE data'[c] = want[c] /\ Replacing(c)
    <3>1. Goto(c, "rename")
        BY <2>2 DEF Fill
    <3> QED BY <1>2, <2>2, <3>1, GotoFacts DEF CallPcs
  <2>3. CASE data'[c] = want[c] /\ ~Replacing(c)
    <3>1. End(c, "ok")
        BY <2>3 DEF Fill
    <3> QED BY <1>2, <2>3, <3>1, EndFacts
  <2> QED BY <2>1, <2>2, <2>3
<1>10. ToolTypes'
    BY <1>1, <1>2, <1>8, <1>9 DEF ToolTypes, Changes, CallStates, AnyFile, IsWorkspace
<1>11. CallAgrees(c)'
  <2>1. "rename" \in Phases(c) /\ "fill" \in Phases(c) /\ Path(c) # <<>>
      BY <1>1, <1>2, RequestFacts DEF Phases, CallAgrees
  <2>2. /\ Replacing(c)' = Replacing(c) /\ Phases(c)' = Phases(c) /\ Path(c)' = Path(c)
      BY <1>9, SameRequest
  <2> QED BY <1>9, <2>1, <2>2 DEF CallAgrees
<1>12. CallsAgree'
    BY <1>9, <1>11, OthersKeep DEF CallsAgree, CallAgrees
<1>13. Opened(c)' /\ Opened(c)
    BY <1>1, <1>9 DEF Opened
<1>14. ContentsAgree'
  <2>1. \A f \in AnyFile : IsPrefix(data'[f], want[f])
      BY <1>7, <1>8 DEF ToolsInv, ContentsAgree, AnyFile
  <2>2. \A f \in Files : data'[f] = want[f]
      BY <1>4, <1>8 DEF ToolsInv, ContentsAgree, AnyFile
  <2>3. \A d \in Calls : /\ ~Opened(d)' => data'[d] = <<>>
                         /\ call'[d].pc = "fill" => data'[d] # want[d]
                         /\ call'[d].pc = "rename" => data'[d] = want[d]
    <3> TAKE d \in Calls
    <3>1. CASE d = c
        BY <3>1, <1>9, <1>13
    <3>2. CASE d # c
      <4>1. call'[d] = call[d] /\ Opened(d)' = Opened(d) /\ data'[d] = data[d]
          BY <3>2, <1>8, <1>9, OthersKeep DEF AnyFile
      <4> QED BY <4>1 DEF ToolsInv, ContentsAgree
    <3> QED BY <3>1, <3>2
  <2> QED BY <1>1, <2>1, <2>2, <2>3 DEF ContentsAgree, AnyFile
<1>15. PlacesAgree'
  <2> SUFFICES ASSUME NEW p \in DOMAIN tree, NEW f, f = tree[p]
               PROVE  PlaceAgrees(p)'
      BY <1>1 DEF PlacesAgree, PlaceAgrees
  <2>1. /\ f \in Calls => Opened(f)
        /\ IsTemporary(p) =>
             /\ f = Last(p) /\ f \in Calls /\ Replacing(f)
             /\ \/ /\ call[f].pc \in {"fill", "rename", "cleanup", "dead"}
                   /\ p = TemporaryPath(f)
                \/ f \in stranded
      BY PlaceFacts
  <2>2. ~IsTemporary(p) /\ f \in Calls /\ Replacing(f) =>
             /\ data[f] = want[f] /\ call[f].out = "ok"
             /\ call[f].pc \in {"cleanup", "done", "dead"}
      BY PlaceFacts
  <2>3. /\ Replacing(c)' = Replacing(c) /\ TemporaryPath(c)' = TemporaryPath(c)
      BY <1>9, SameRequest
  <2>4. CASE f = c
      BY <2>1, <2>2, <2>3, <2>4, <1>1, <1>9, <1>13 DEF PlaceAgrees
  <2>5. CASE f # c
    <3>1. f \in Calls => /\ call'[f] = call[f] /\ Opened(f)' = Opened(f)
                         /\ data'[f] = data[f] /\ Replacing(f)' = Replacing(f)
                         /\ TemporaryPath(f)' = TemporaryPath(f)
        BY <1>8, <1>9, <2>5, OthersKeep DEF AnyFile
    <3> QED BY <1>1, <2>1, <2>2, <3>1 DEF PlaceAgrees
  <2> QED BY <2>4, <2>5
<1> QED BY <1>10, <1>12, <1>14, <1>15 DEF ToolsInv

\* The temporary file of a call that replaces, and what its rename does.
LEMMA ReplacedTree ==
    ASSUME ToolsInv, NEW c \in Calls, call[c].pc = "rename",
           CanRename(tree, TemporaryPath(c), Path(c))
    PROVE  LET from == TemporaryPath(c)
               to == Path(c)
               w == Renamed(tree, from, to)
           IN  /\ from \in DOMAIN tree /\ tree[from] = c /\ IsTemporary(from)
               /\ to \in Seq(Names) /\ ~IsTemporary(to) /\ Workspace(w)
               /\ to \in DOMAIN w /\ w[to] = c /\ from # to
               /\ \A p \in DOMAIN w : p # to => p \in DOMAIN tree /\ p # from /\ w[p] = tree[p]
               /\ \A p \in DOMAIN tree : p # from /\ p # to => p \in DOMAIN w /\ w[p] = tree[p]
<1> DEFINE from == TemporaryPath(c)
           to == Path(c)
           w == Renamed(tree, from, to)
<1>1. Workspace(tree) /\ to \in Seq(Names) /\ to # <<>>
    BY AtAwait DEF CallAgrees
<1>2. from \in Paths /\ from # to /\ IsTemporary(from) /\ ~IsTemporary(to) /\ Last(from) = c
    BY <1>1, TemporaryFacts DEF TemporaryPath
<1>3. CanRename(tree, from, to)
    OBVIOUS
<1> HIDE DEF from, to
<1>4. from \in DOMAIN tree
    BY <1>1, <1>2, <1>3, RenamePlace
<1>5. tree[from] = c /\ c # Dir
    BY <1>2, <1>4, FileToolsAssumption DEF ToolsInv, PlacesAgree
<1>6. \A p \in DOMAIN tree : IsPrefix(from, p) <=> p = from
  <2>1. Below(tree, from) = {}
      BY <1>1, <1>4, <1>5, BelowFile
  <2>2. IsPrefix(from, from)
      BY <1>2, PathFacts, PrefixOrder
  <2> QED BY <2>1, <2>2 DEF Below, IsStrictPrefix
<1>7. Moved(from, to, from) = to
    BY <1>1, <1>2, PathFacts, PrefixOrder, MovedInPaths
<1>8. Workspace(w)
    BY <1>1, <1>2, <1>3, RenamedOK
<1>9. \A p \in DOMAIN tree : ~IsPrefix(from, p) /\ p # to => p \in DOMAIN w /\ w[p] = tree[p]
    BY <1>1, <1>2, <1>3, RenamedTree
<1>10. \A p \in DOMAIN tree : IsPrefix(from, p) =>
                 Moved(from, to, p) \in DOMAIN w /\ w[Moved(from, to, p)] = tree[p]
    BY <1>1, <1>2, <1>3, RenamedTree
<1>11. \A q \in DOMAIN w :
                 \/ q \in DOMAIN tree /\ ~IsPrefix(from, q) /\ q # to
                 \/ \E p \in DOMAIN tree : IsPrefix(from, p) /\ q = Moved(from, to, p)
    BY <1>1, <1>2, <1>3, RenamedTree
<1> HIDE DEF w
<1>12. to \in DOMAIN w /\ w[to] = c
    BY <1>4, <1>5, <1>6, <1>7, <1>10
<1>13. \A p \in DOMAIN w : p # to => p \in DOMAIN tree /\ p # from /\ w[p] = tree[p]
    BY <1>4, <1>6, <1>7, <1>9, <1>11
<1>14. \A p \in DOMAIN tree : p # from /\ p # to => p \in DOMAIN w /\ w[p] = tree[p]
    BY <1>6, <1>9
<1> QED BY <1>1, <1>2, <1>4, <1>5, <1>8, <1>12, <1>13, <1>14 DEF from, to, w

LEMMA ReplaceStep ==
    ASSUME ToolsInv, NEW c \in Calls, Replace(c), failures' = failures
    PROVE  ToolsInv'
<1>1. call[c].pc = "rename"
    BY DEF Replace
<1>2. ToolTypes /\ call[c] # Idle /\ CallAgrees(c) /\ call[c].pc \in Phases(c)
      /\ Request(c) \in Requests /\ stranded \subseteq Calls
      /\ failures \in 0 .. MaxFailures
    BY <1>1, AtAwait
<1>3. CASE CanRename(tree, TemporaryPath(c), Path(c))
  <2> DEFINE from == TemporaryPath(c)
             to == Path(c)
             s == [call[c] EXCEPT !.pc = "cleanup", !.out = "ok"]
  <2>1. tree' = Renamed(tree, from, to) /\ UNCHANGED <<data, want, stranded>>
        /\ call' = [call EXCEPT ![c].pc = "cleanup", ![c].out = "ok"]
      BY <1>3 DEF Replace
  <2>2. call[c] \in CallStates
      BY <1>2, CallFacts
  <2>3. s \in CallStates /\ s.pc = "cleanup" /\ s.req = call[c].req /\ s.out = "ok"
      BY <2>2 DEF CallStates, CallPcs
  <2>4. call' = [call EXCEPT ![c] = s]
      BY <2>1
  <2> HIDE DEF s
  <2>5. Changes(c, s) /\ call'[c] = s
      BY <1>2, <2>3, <2>4, ChangeFacts DEF Changes
  <2>6. call'[c].pc = "cleanup" /\ call'[c].req = call[c].req /\ call'[c].out = "ok"
      BY <2>3, <2>5
  <2>7. /\ Workspace(tree') /\ to \in DOMAIN tree' /\ tree'[to] = c /\ ~IsTemporary(to)
        /\ \A p \in DOMAIN tree' : p # to => p \in DOMAIN tree /\ p # from /\ tree'[p] = tree[p]
      BY <1>1, <1>3, <2>1, ReplacedTree
  <2> HIDE DEF from, to
  <2>8. ToolTypes'
      BY <1>2, <2>1, <2>5, <2>7 DEF ToolTypes, Changes, CallStates, AnyFile, Workspace
  <2>9. Replacing(c) /\ "cleanup" \in Phases(c) /\ Path(c) # <<>> /\ Opened(c)
      BY <1>1, <1>2, RequestFacts DEF Phases, CallAgrees, Opened
  <2>10. CallAgrees(c)'
      BY <2>6, <2>9, SameRequest DEF CallAgrees
  <2>11. CallsAgree'
      BY <2>5, <2>6, <2>10, OthersKeep DEF CallsAgree, CallAgrees
  <2>12. Opened(c)' /\ Replacing(c)' = Replacing(c) /\ TemporaryPath(c)' = TemporaryPath(c)
      BY <2>6, SameRequest DEF Opened
  <2>13. ContentsAgree'
    <3>1. \A d \in Calls : /\ ~Opened(d)' => data[d] = <<>>
                           /\ call'[d].pc = "fill" => data[d] # want[d]
                           /\ call'[d].pc = "rename" => data[d] = want[d]
      <4> TAKE d \in Calls
      <4>1. CASE d = c
          BY <4>1, <2>6, <2>12
      <4>2. CASE d # c
        <5>1. call'[d] = call[d] /\ Opened(d)' = Opened(d)
            BY <4>2, <2>5, <2>6, OthersKeep
        <5> QED BY <5>1 DEF ToolsInv, ContentsAgree
      <4> QED BY <4>1, <4>2
    <3> QED BY <2>1, <3>1 DEF ToolsInv, ContentsAgree
  <2>14. data[c] = want[c]
      BY <1>1 DEF ToolsInv, ContentsAgree
  <2>15. PlacesAgree'
    <3> SUFFICES ASSUME NEW p \in DOMAIN tree' PROVE PlaceAgrees(p)'
        BY DEF PlacesAgree, PlaceAgrees
    <3>1. CASE p = to
        BY <3>1, <2>1, <2>6, <2>7, <2>12, <2>14 DEF PlaceAgrees
    <3>2. CASE p # to
      <4>0. p \in DOMAIN tree /\ tree'[p] = tree[p]
          BY <2>7, <3>2
      <4>1. PICK f : f = tree[p]
          OBVIOUS
      <4>2. /\ f \in Calls => Opened(f)
            /\ IsTemporary(p) =>
                 /\ f = Last(p) /\ f \in Calls /\ Replacing(f)
                 /\ \/ /\ call[f].pc \in {"fill", "rename", "cleanup", "dead"}
                       /\ p = TemporaryPath(f)
                    \/ f \in stranded
          BY <4>0, <4>1, PlaceFacts
      <4>3. ~IsTemporary(p) /\ f \in Calls /\ Replacing(f) =>
                 /\ data[f] = want[f] /\ call[f].out = "ok"
                 /\ call[f].pc \in {"cleanup", "done", "dead"}
          BY <4>0, <4>1, PlaceFacts
      <4>4. CASE f = c
          BY <4>0, <4>1, <4>2, <4>3, <4>4, <1>1, <2>1, <2>6, <2>12 DEF PlaceAgrees
      <4>5. CASE f # c
        <5>1. f \in Calls => /\ call'[f] = call[f] /\ Opened(f)' = Opened(f)
                             /\ Replacing(f)' = Replacing(f)
                             /\ TemporaryPath(f)' = TemporaryPath(f)
            BY <2>5, <2>6, <4>5, OthersKeep
        <5> QED BY <4>0, <4>1, <4>2, <4>3, <5>1, <2>1 DEF PlaceAgrees
      <4> QED BY <4>4, <4>5
    <3> QED BY <3>1, <3>2
  <2> QED BY <2>8, <2>11, <2>13, <2>15 DEF ToolsInv
<1>4. CASE ~CanRename(tree, TemporaryPath(c), Path(c))
    BY <1>1, <1>4, FailedStep DEF Replace
<1> QED BY <1>3, <1>4

\* Where what is there after a move was before.
LEMMA MovedTree ==
    ASSUME ToolTypes, NEW from \in Seq(Names), NEW to \in Seq(Names),
           CanRename(tree, from, to), NEW q \in DOMAIN Renamed(tree, from, to)
    PROVE  \E p \in DOMAIN tree :
              /\ Renamed(tree, from, to)[q] = tree[p]
              /\ \/ q = p
                 \/ /\ IsTemporary(q) <=> IsTemporary(p)
                    /\ IsTemporary(p) => Last(q) = Last(p) /\ p \in Below(tree, from)
<1>0. Workspace(tree) /\ from \in Paths /\ DOMAIN tree \subseteq Paths
    BY RootIsDirectory, PathFacts, WorkspaceFacts
<1>1. CASE to = from
  <2>1. Renamed(tree, from, to) = tree
      BY <1>0, <1>1, RenamedToItself
  <2> QED BY <2>1
<1>2. CASE to # from
  <2> DEFINE w == Renamed(tree, from, to)
  <2>1. \A p \in DOMAIN tree : ~IsPrefix(from, p) /\ p # to => p \in DOMAIN w /\ w[p] = tree[p]
      BY <1>0, <1>2, RenamedTree
  <2>2. \A p \in DOMAIN tree : IsPrefix(from, p) =>
                 Moved(from, to, p) \in DOMAIN w /\ w[Moved(from, to, p)] = tree[p]
      BY <1>0, <1>2, RenamedTree
  <2>3. \/ q \in DOMAIN tree /\ ~IsPrefix(from, q) /\ q # to
        \/ \E p \in DOMAIN tree : IsPrefix(from, p) /\ q = Moved(from, to, p)
      BY <1>0, <1>2, RenamedTree
  <2>4. CASE q \in DOMAIN tree /\ ~IsPrefix(from, q) /\ q # to
      BY <2>1, <2>4
  <2>5. ASSUME NEW p \in DOMAIN tree, IsPrefix(from, p), q = Moved(from, to, p)
        PROVE  /\ w[q] = tree[p]
               /\ IsTemporary(q) <=> IsTemporary(p)
               /\ IsTemporary(p) => Last(q) = Last(p) /\ p \in Below(tree, from)
    <3>1. w[q] = tree[p]
        BY <2>2, <2>5
    <3>2. CASE p = from
      <4>1. q = to
          BY <1>0, <2>5, <3>2, MovedInPaths
      <4> QED BY <3>1, <3>2, <4>1, NamedIsNotTemporary
    <3>3. CASE p # from
      <4>1. q # <<>> /\ Last(q) = Last(p) /\ p # <<>>
          BY <1>0, <2>5, <3>3, MovedInPaths
      <4>2. p \in Below(tree, from)
          BY <2>5, <3>3 DEF Below, IsStrictPrefix
      <4> QED BY <3>1, <4>1, <4>2 DEF IsTemporary
    <3> QED BY <3>2, <3>3
  <2> QED BY <2>3, <2>4, <2>5
<1> QED BY <1>1, <1>2

LEMMA MoveStep ==
    ASSUME ToolsInv, NEW c \in Calls, Move(c), failures' = failures
    PROVE  ToolsInv'
<1>1. call[c].pc = "move"
    BY DEF Move
<1>2. ToolTypes /\ call[c] # Idle /\ CallAgrees(c) /\ call[c].pc \in Phases(c)
      /\ Request(c) \in Requests /\ stranded \subseteq Calls
      /\ failures \in 0 .. MaxFailures /\ Workspace(tree)
    BY <1>1, AtAwait
<1>3. CASE CanRename(tree, Path(c), Request(c).to)
  <2> DEFINE from == Path(c)
             to == Request(c).to
             left == {Last(p) : p \in {q \in Below(tree, from) : IsTemporary(q)}}
             s == [req |-> Request(c), pc |-> "done", out |-> "ok",
                   existed |-> FALSE, file |-> Absent]
  <2>1. tree' = Renamed(tree, from, to) /\ UNCHANGED <<data, want>>
        /\ stranded' = stranded \cup left /\ End(c, "ok")
      BY <1>3 DEF Move
  <2>2. from \in Seq(Names) /\ to \in Seq(Names)
    <3>1. Request(c).kind = "move"
        BY <1>1, <1>2, RequestFacts DEF Phases
    <3> QED BY <1>2, <3>1, RequestFacts DEF Path
  <2>3. Workspace(tree')
      BY <1>2, <1>3, <2>1, <2>2, RenamedOK, PathFacts
  <2>4. \A q \in DOMAIN tree' : \E p \in DOMAIN tree :
              /\ tree'[q] = tree[p]
              /\ \/ q = p
                 \/ /\ IsTemporary(q) <=> IsTemporary(p)
                    /\ IsTemporary(p) => Last(q) = Last(p) /\ p \in Below(tree, from)
      BY <1>2, <1>3, <2>1, <2>2, MovedTree
  <2>5. left \subseteq Calls
      BY DEF IsTemporary
  <2>6. \A p \in Below(tree, from) : IsTemporary(p) => Last(p) \in stranded'
      BY <2>1
  <2>7. Changes(c, s) /\ call'[c].pc = "done" /\ call'[c].req = call[c].req
      BY <1>2, <2>1, EndFacts
  <2>8. stranded' \subseteq Calls /\ stranded \subseteq stranded'
      BY <1>2, <2>1, <2>5
  <2> HIDE DEF from, to, left, s
  <2>9. ToolTypes'
      BY <1>2, <2>1, <2>3, <2>7, <2>8 DEF ToolTypes, Changes, CallStates, AnyFile, Workspace
  <2>10. CallAgrees(c)'
      BY <2>7 DEF CallAgrees
  <2>11. CallsAgree'
      BY <2>7, <2>10, OthersKeep DEF CallsAgree, CallAgrees
  <2>12. ~Opened(c) /\ Opened(c)'
      BY <1>1, <2>7 DEF Opened
  <2>13. ContentsAgree'
    <3>1. \A d \in Calls : /\ ~Opened(d)' => data[d] = <<>>
                           /\ call'[d].pc = "fill" => data[d] # want[d]
                           /\ call'[d].pc = "rename" => data[d] = want[d]
      <4> TAKE d \in Calls
      <4>1. CASE d = c
          BY <4>1, <2>7, <2>12
      <4>2. CASE d # c
        <5>1. call'[d] = call[d] /\ Opened(d)' = Opened(d)
            BY <4>2, <2>7, OthersKeep
        <5> QED BY <5>1 DEF ToolsInv, ContentsAgree
      <4> QED BY <4>1, <4>2
    <3> QED BY <2>1, <3>1 DEF ToolsInv, ContentsAgree
  <2>14. PlacesAgree'
    <3> SUFFICES ASSUME NEW q \in DOMAIN tree' PROVE PlaceAgrees(q)'
        BY DEF PlacesAgree, PlaceAgrees
    <3>1. PICK p \in DOMAIN tree :
              /\ tree'[q] = tree[p]
              /\ \/ q = p
                 \/ /\ IsTemporary(q) <=> IsTemporary(p)
                    /\ IsTemporary(p) => Last(q) = Last(p) /\ p \in Below(tree, from)
        BY <2>4
    <3>2. PICK f : f = tree[p]
        OBVIOUS
    <3>3. /\ f \in Calls => Opened(f)
          /\ IsTemporary(p) =>
               /\ f = Last(p) /\ f \in Calls /\ Replacing(f)
               /\ \/ /\ call[f].pc \in {"fill", "rename", "cleanup", "dead"}
                     /\ p = TemporaryPath(f)
                  \/ f \in stranded
        BY <3>2, PlaceFacts
    <3>4. ~IsTemporary(p) /\ f \in Calls /\ Replacing(f) =>
               /\ data[f] = want[f] /\ call[f].out = "ok"
               /\ call[f].pc \in {"cleanup", "done", "dead"}
        BY <3>2, PlaceFacts
    <3>5. f \in Calls => /\ f # c /\ call'[f] = call[f] /\ Opened(f)' = Opened(f)
                         /\ Replacing(f)' = Replacing(f)
                         /\ TemporaryPath(f)' = TemporaryPath(f)
        BY <2>7, <2>12, <3>3, OthersKeep
    <3>6. IsTemporary(q) => /\ IsTemporary(p) /\ Last(q) = Last(p)
                            /\ q = p \/ Last(p) \in stranded'
        BY <2>6, <3>1
    <3>7. IsTemporary(q) => /\ f = Last(q) /\ Replacing(f)'
                            /\ \/ /\ call'[f].pc \in {"fill", "rename", "cleanup", "dead"}
                                  /\ q = TemporaryPath(f)'
                               \/ f \in stranded'
        BY <2>8, <3>3, <3>5, <3>6
    <3>8. ~IsTemporary(q) => ~IsTemporary(p)
        BY <3>1
    <3> QED BY <2>1, <3>1, <3>2, <3>3, <3>4, <3>5, <3>7, <3>8 DEF PlaceAgrees
  <2> QED BY <2>9, <2>11, <2>13, <2>14 DEF ToolsInv
<1>4. CASE ~CanRename(tree, Path(c), Request(c).to)
    BY <1>1, <1>4, FailedStep DEF Move
<1> QED BY <1>3, <1>4

LEMMA ToolsUnchanged ==
    ASSUME ToolsInv, UNCHANGED toolVars
    PROVE  ToolsInv'
<1>1. ToolTypes'
    BY DEF ToolsInv, ToolTypes, toolVars, IsWorkspace
<1>2. CallsAgree'
    BY DEF ToolsInv, CallsAgree, toolVars, Phases, Replacing, Request, Path
<1>3. ContentsAgree'
    BY DEF ToolsInv, ContentsAgree, toolVars, Opened
<1>4. PlacesAgree'
    BY DEF ToolsInv, PlacesAgree, toolVars, Opened, Replacing, TemporaryPath, Request, Path
<1> QED BY <1>1, <1>2, <1>3, <1>4 DEF ToolsInv

LEMMA ToolsInitial ==
    ASSUME ToolsInit
    PROVE  ToolsInv
<1>0. /\ tree = InitialTree /\ stranded = {} /\ failures = 0 /\ want = data
      /\ data = [f \in AnyFile |-> IF f \in Files THEN <<f, f>> ELSE <<>>]
      /\ call = [c \in Calls |-> Idle]
    BY DEF ToolsInit, AnyFile
<1>1. Workspace(tree) /\ \A p \in DOMAIN tree : (tree[p] = Dir \/ tree[p] \in Files)
      /\ DOMAIN tree \subseteq Seq(Names)
  <2>1. IsWorkspace(InitialTree, Seq(Names), Files)
      BY FileToolsAssumption
  <2>2. /\ InitialTree \in [DOMAIN InitialTree -> {Dir} \cup Files]
        /\ DOMAIN InitialTree \subseteq Seq(Names)
      BY <2>1 DEF IsWorkspace
  <2>3. /\ InitialTree \in [DOMAIN InitialTree -> {Dir} \cup AnyFile]
        /\ DOMAIN InitialTree \subseteq Paths
      BY <2>2, PathFacts DEF AnyFile
  <2>4. IsWorkspace(InitialTree, Paths, AnyFile)
      BY <2>1, <2>3 DEF IsWorkspace
  <2> QED BY <1>0, <2>2, <2>4 DEF Workspace
<1>2. data \in [AnyFile -> Seq(AnyFile)]
  <2>1. \A f \in Files : <<f, f>> \in Seq(AnyFile)
      BY DEF AnyFile
  <2>2. <<>> \in Seq(AnyFile)
      BY EmptySeq
  <2> QED BY <1>0, <2>1, <2>2
<1>3. ToolTypes
    BY <1>0, <1>1, <1>2, FileToolsAssumption DEF ToolTypes, Workspace, AnyFile
<1>4. \A c \in Calls : call[c] = Idle /\ call[c].pc = "idle"
    BY <1>0 DEF Idle
<1>5. CallsAgree
    BY <1>4 DEF CallsAgree
<1>6. ContentsAgree
  <2>1. \A f \in AnyFile : IsPrefix(data[f], want[f])
      BY <1>0, <1>2, PrefixOrder
  <2>2. \A c \in Calls : data[c] = <<>> /\ call[c].pc \notin {"fill", "rename"}
      BY <1>0, <1>4, FileToolsAssumption DEF AnyFile
  <2> QED BY <1>0, <2>1, <2>2 DEF ContentsAgree, AnyFile
<1>7. PlacesAgree
  <2>1. \A p \in DOMAIN tree : ~IsTemporary(p) /\ tree[p] \notin Calls
      BY <1>1, NamedIsNotTemporary, FileToolsAssumption
  <2> QED BY <2>1 DEF PlacesAgree
<1> QED BY <1>3, <1>5, <1>6, <1>7 DEF ToolsInv

LEMMA StepKeeps ==
    ASSUME ToolsInv, NEW c \in Calls, Step(c), failures' = failures
    PROVE  ToolsInv'
<1>1. CASE ResolvePath(c) \/ Lstat(c)
    BY <1>1, ResolvePathStep, LstatStep
<1>2. CASE MakeParents(c) \/ OpenToRead(c) \/ ReadContent(c)
    BY <1>2, MakeParentsStep, OpenToReadStep, ReadContentStep
<1>3. CASE OpenOutput(c) \/ Fill(c) \/ Replace(c) \/ RemoveTemporary(c)
    BY <1>3, OpenOutputStep, FillStep, ReplaceStep, RemoveTemporaryStep
<1>4. CASE MakeDirectory(c) \/ ResolveDestination(c) \/ Move(c)
    BY <1>4, MakeDirectoryStep, ResolveDestinationStep, MoveStep
<1>5. CASE ReadDirectory(c) \/ RemoveDirectory(c) \/ RemovePath(c) \/ RemoveTree(c)
    BY <1>5, ReadDirectoryStep, RemoveDirectoryStep, RemovePathStep, RemoveTreeStep
<1> QED BY <1>1, <1>2, <1>3, <1>4, <1>5 DEF Step

LEMMA ToolsNextKeeps ==
    ASSUME ToolsInv, ToolsNext
    PROVE  ToolsInv'
<1>1. ASSUME NEW c \in Calls, Step(c), UNCHANGED failures PROVE ToolsInv'
    BY <1>1, StepKeeps
<1>2. ASSUME NEW c \in Calls, NEW r \in Requests, Begin(c, r) \/ Refuse(c, r),
             UNCHANGED failures
      PROVE  ToolsInv'
    BY <1>2, BeginStep
<1>3. ASSUME NEW c \in Calls, Fault(c) PROVE ToolsInv'
  <2>1. failures' \in 0 .. MaxFailures
      BY <1>3, FileToolsAssumption DEF Fault, ToolsInv, ToolTypes
  <2>2. CASE Fails(c)
      BY <1>3, <2>1, <2>2, FailsStep DEF Fault
  <2>3. CASE Overlooks(c)
      BY <2>1, <2>3, ResolvesStep, ResolvesToStep DEF Overlooks
  <2> QED BY <1>3, <2>2, <2>3 DEF Fault
<1> QED BY <1>1, <1>2, <1>3 DEF ToolsNext

\* A read that fails on its own account counts as a failure and no more.
LEMMA FailureCounted ==
    ASSUME ToolsInv, UNCHANGED <<fileVars, call>>, failures' \in 0 .. MaxFailures
    PROVE  ToolsInv'
<1>0. UNCHANGED <<tree, data, want, stranded, call>>
    BY DEF fileVars
<1>1. ToolTypes'
    BY <1>0 DEF ToolsInv, ToolTypes, IsWorkspace
<1>2. CallsAgree'
    BY <1>0 DEF ToolsInv, CallsAgree, Phases, Replacing, Request, Path
<1>3. ContentsAgree'
    BY <1>0 DEF ToolsInv, ContentsAgree, Opened
<1>4. PlacesAgree'
    BY <1>0 DEF ToolsInv, PlacesAgree, Opened, Replacing, TemporaryPath, Request, Path
<1> QED BY <1>1, <1>2, <1>3, <1>4 DEF ToolsInv

LEMMA NextKeepsTools ==
    ASSUME ToolsInv, [Next]_vars
    PROVE  ToolsInv'
<1>1. CASE ToolsNext
    BY <1>1, ToolsNextKeeps
<1>2. CASE UNCHANGED toolVars
    BY <1>2, ToolsUnchanged
<1>3. ASSUME NEW r \in Readers, ReadFault(r), UNCHANGED <<fileVars, call>> PROVE ToolsInv'
  <2>1. failures' \in 0 .. MaxFailures
      BY <1>3, FileToolsAssumption DEF ReadFault, ToolsInv, ToolTypes
  <2> QED BY <1>3, <2>1, FailureCounted
<1>4. CASE Crash
    BY <1>4, CrashStep DEF Crash
<1>5. CASE UNCHANGED vars
    BY <1>5, ToolsUnchanged DEF vars
<1> QED BY <1>1, <1>2, <1>3, <1>4, <1>5 DEF Next

THEOREM ToolsInvariant == Spec => []ToolsInv
<1>1. Init => ToolsInv
    BY ToolsInitial DEF Init
<1>2. ToolsInv /\ [Next]_vars => ToolsInv'
    BY NextKeepsTools
<1> QED BY <1>1, <1>2, PTL DEF Spec

\* No temporary file is left behind by a call that ended.
THEOREM NoTemporaryStays == Spec => []NoTemporaryLeft
<1>1. ToolsInv => NoTemporaryLeft
    BY DEF ToolsInv, PlacesAgree, NoTemporaryLeft
<1> QED BY <1>1, ToolsInvariant, PTL

\* A file is replaced as a whole or not at all, across failures and crashes.
THEOREM AtomicReplacement == Spec => []ReplaceIsAtomic
<1>1. ASSUME ToolsInv PROVE ReplaceIsAtomic
  <2> SUFFICES ASSUME NEW p \in DOMAIN tree, NEW f, f = tree[p], f # Dir, ~IsTemporary(p)
               PROVE  /\ data[f] # want[f] => f \in Calls /\ ~Replacing(f)
                      /\ f \in Calls /\ Replacing(f) /\ call[f].pc = "done" =>
                             call[f].out = "ok"
      BY DEF ReplaceIsAtomic
  <2>1. f \in AnyFile
      BY <1>1, RootIsDirectory, WorkspaceFacts DEF ToolsInv
  <2>2. f \in Files => data[f] = want[f]
      BY <1>1 DEF ToolsInv, ContentsAgree
  <2>3. f \in Calls /\ Replacing(f) => data[f] = want[f] /\ call[f].out = "ok"
      BY <1>1, PlaceFacts
  <2> QED BY <2>1, <2>2, <2>3 DEF AnyFile
<1> QED BY <1>1, ToolsInvariant, PTL
-----------------------------------------------------------------------------
(***************************************************************************)
(* What a call takes from its path.                                        *)
(***************************************************************************)
\* What a step that keeps a path takes is not there.
LEMMA NotTaken ==
    ASSUME NEW p \in DOMAIN tree, p \in DOMAIN tree', tree'[p] = tree[p]
    PROVE  ~Takes(p)
BY DEF Takes, At

LEMMA ReplaceTakes ==
    ASSUME ToolsInv, NEW c \in Calls, Replace(c), NEW p \in DOMAIN tree, Takes(p)
    PROVE  AskedFor(c, p) /\ call'[c] # call[c]
<1>1. call[c].pc = "rename"
    BY DEF Replace
<1>2. ToolTypes /\ call[c] # Idle /\ CallAgrees(c) /\ call[c].pc \in Phases(c)
      /\ Request(c) \in Requests
    BY <1>1, AtAwait
<1>3. CanRename(tree, TemporaryPath(c), Path(c))
    BY <1>2, NotTaken DEF Replace, Fails
<1> DEFINE from == TemporaryPath(c)
           to == Path(c)
<1>4. tree' = Renamed(tree, from, to)
    BY <1>3 DEF Replace
<1>5. /\ IsTemporary(from)
      /\ \A q \in DOMAIN tree : q # from /\ q # to => q \in DOMAIN tree' /\ tree'[q] = tree[q]
    BY <1>1, <1>3, <1>4, ReplacedTree
<1> HIDE DEF from, to
<1>6. p = to
    BY <1>5, NotTaken DEF Takes
<1>7. Replacing(c) /\ Request(c).kind \in {"write", "patch"}
    BY <1>1, <1>2, RequestFacts DEF CallAgrees, Phases
<1>8. AskedFor(c, p)
    BY <1>6, <1>7 DEF AskedFor, to, Path
<1>9. call'[c] # call[c]
  <2>1. call' = [call EXCEPT ![c].pc = "cleanup", ![c].out = "ok"] /\ call[c] \in CallStates
      BY <1>2, <1>3, CallFacts DEF Replace
  <2>2. call \in [Calls -> {Idle} \cup CallStates]
      BY <1>2 DEF ToolTypes, CallStates, AnyFile
  <2>3. call'[c].pc = "cleanup"
      BY <2>1, <2>2 DEF CallStates
  <2> QED BY <1>1, <2>3
<1> QED BY <1>8, <1>9

\* What a step that ends a running call does to it.
LEMMA EndChanges ==
    ASSUME ToolTypes, NEW c \in Calls, Running(c), NEW out \in {"none", "ok", "error"},
           End(c, out)
    PROVE  call'[c] # call[c]
<1>1. call'[c].pc = "done"
    BY CallFacts, EndFacts
<1> QED BY <1>1 DEF Running

LEMMA MoveTakes ==
    ASSUME ToolsInv, NEW c \in Calls, Move(c), NEW p \in DOMAIN tree, Takes(p)
    PROVE  (AskedFor(c, p) \/ MovesUnasked(c, p)) /\ call'[c] # call[c]
<1>1. call[c].pc = "move"
    BY DEF Move
<1>2. ToolTypes /\ Running(c) /\ CallAgrees(c) /\ call[c].pc \in Phases(c)
      /\ Request(c) \in Requests /\ Path(c) \in Seq(Names) /\ Workspace(tree)
    BY <1>1, AtAwait
<1> DEFINE from == Path(c)
           to == Request(c).to
<1>3. CanRename(tree, from, to)
    BY <1>2, NotTaken DEF Move, Fails
<1>4. tree' = Renamed(tree, from, to) /\ End(c, "ok")
    BY <1>3 DEF Move
<1>5. Request(c).kind = "move"
    BY <1>1, <1>2, RequestFacts DEF Phases
<1>6. to \in Seq(Names) /\ from \in Seq(Names)
    BY <1>2, <1>5, RequestFacts
<1>7. IsPrefix(from, p) \/ p = to
  <2>1. CASE to = from
    <3>1. tree' = tree
        BY <1>2, <1>4, <1>6, <2>1, RenamedToItself, PathFacts
    <3> QED BY <3>1, NotTaken
  <2>2. CASE to # from
    <3>1. from \in Paths
        BY <1>6, PathFacts
    <3> HIDE DEF from, to
    <3>2. ~IsPrefix(from, p) /\ p # to => p \in DOMAIN tree' /\ tree'[p] = tree[p]
        BY <1>2, <1>3, <1>4, <1>6, <2>2, <3>1, RenamedTree
    <3> QED BY <3>2, NotTaken
  <2> QED BY <2>1, <2>2
<1>8. Request(c).overwrite \/ ~call[c].existed
    BY <1>1, <1>2 DEF CallAgrees
<1>9. AskedFor(c, p) \/ MovesUnasked(c, p)
    BY <1>1, <1>5, <1>7, <1>8 DEF AskedFor, MovesUnasked, Path
<1> QED BY <1>2, <1>4, <1>9, EndChanges

LEMMA RemovalTakes ==
    ASSUME ToolsInv, NEW c \in Calls,
           RemoveDirectory(c) \/ RemovePath(c) \/ RemoveTree(c),
           NEW p \in DOMAIN tree, Takes(p)
    PROVE  AskedFor(c, p) /\ (call'[c] # call[c] \/ call[c].pc = "rmtree")
<1>1. call[c].pc \in {"rmdir", "rm", "rmtree"}
    BY DEF RemoveDirectory, RemovePath, RemoveTree
<1>2. ToolTypes /\ Running(c) /\ CallAgrees(c) /\ call[c].pc \in Phases(c)
      /\ Request(c) \in Requests /\ Path(c) \in Seq(Names) /\ Workspace(tree)
    BY <1>1, AtAwait
<1>3. Request(c).kind = "delete"
    BY <1>1, <1>2, RequestFacts DEF Phases
<1>4. ASSUME NEW q, Removed(q) PROVE p = q
  <2>1. p # q => p \in DOMAIN tree' /\ tree'[p] = tree[p]
      BY <1>4 DEF Removed, Without
  <2> QED BY <2>1, NotTaken
<1>5. ~(UNCHANGED tree)
    BY NotTaken
<1>6. CASE RemoveDirectory(c)
  <2>1. Removed(Path(c)) /\ CanRemoveDirectory(tree, Path(c))
      BY <1>5, <1>6 DEF RemoveDirectory, Fails
  <2>2. tree[p] = Dir
      BY <1>4, <2>1 DEF CanRemoveDirectory, At
  <2> QED BY <2>2 DEF Takes
<1>7. CASE RemovePath(c)
  <2>1. IsFile(tree, Path(c)) /\ Here(c) # Dir
      BY <1>5, <1>7 DEF RemovePath, Fails, fileVars, IsFile, Here
  <2>2. Removed(Path(c)) /\ End(c, "ok")
      BY <1>7, <2>1 DEF RemovePath
  <2>3. call'[c] # call[c]
      BY <1>2, <2>2, EndChanges
  <2> QED BY <1>3, <1>4, <2>2, <2>3 DEF AskedFor, Path
<1>8. CASE RemoveTree(c)
  <2>1. call[c].pc = "rmtree" /\ Request(c).recursive
      BY <1>2, <1>8 DEF RemoveTree, CallAgrees
  <2>2. PICK q \in Below(tree, Path(c)) \cup ({Path(c)} \cap DOMAIN tree) : Removed(q)
      BY <1>5, <1>8 DEF RemoveTree, Fails, fileVars
  <2>3. p = q
      BY <1>4, <2>2
  <2>4. p = Path(c) \/ IsPrefix(Path(c), p)
      BY <2>2, <2>3 DEF Below, IsStrictPrefix
  <2> QED BY <1>3, <2>1, <2>4 DEF AskedFor, Path
<1> QED BY <1>6, <1>7, <1>8

LEMMA OthersTakeNothing ==
    ASSUME ToolsInv, NEW c \in Calls,
           \/ ResolvePath(c) \/ Lstat(c)
           \/ MakeParents(c) \/ OpenToRead(c) \/ ReadContent(c)
           \/ OpenOutput(c) \/ Fill(c) \/ RemoveTemporary(c)
           \/ MakeDirectory(c) \/ ResolveDestination(c) \/ ReadDirectory(c),
           NEW p \in DOMAIN tree
    PROVE  ~Takes(p)
<1>1. ASSUME UNCHANGED tree PROVE ~Takes(p)
    BY <1>1, NotTaken
<1>2. ASSUME NEW q, tree' = WithAll(tree, q) PROVE ~Takes(p)
  <2>1. p \in DOMAIN tree' /\ tree'[p] = tree[p]
      BY <1>2 DEF WithAll
  <2> QED BY <2>1, NotTaken
<1>3. CASE ResolvePath(c) \/ Lstat(c)
    BY <1>1, <1>3 DEF ResolvePath, Resolves, Lstat, Proceeds, fileVars
<1>4. CASE MakeParents(c) \/ MakeDirectory(c)
    BY <1>1, <1>2, <1>4 DEF MakeParents, MakeDirectory, Fails
<1>5. CASE OpenToRead(c) \/ ReadContent(c) \/ Fill(c) \/ ResolveDestination(c)
           \/ ReadDirectory(c)
    BY <1>1, <1>5 DEF OpenToRead, ReadContent, Fill, ResolveDestination, ResolvesTo,
                      ReadDirectory, fileVars, Fails
<1>6. CASE OpenOutput(c)
  <2>1. CASE CanCreate(tree, OutputPath(c))
    <3>1. tree' = With(tree, OutputPath(c), c)
        BY <1>6, <2>1 DEF OpenOutput
    <3>2. p # OutputPath(c)
      <4>1. Workspace(tree)
          BY RootIsDirectory DEF ToolsInv
      <4>2. tree[p] # Absent
          BY <4>1, WorkspaceFacts, FileToolsAssumption DEF AnyFile
      <4> QED BY <2>1, <4>2 DEF CanCreate, At
    <3>3. p \in DOMAIN tree' /\ tree'[p] = tree[p]
        BY <3>1, <3>2 DEF With
    <3> QED BY <3>3, NotTaken
  <2>2. CASE ~CanCreate(tree, OutputPath(c))
      BY <1>1, <1>6, <2>2 DEF OpenOutput, Fails
  <2> QED BY <2>1, <2>2
<1>7. CASE RemoveTemporary(c)
  <2>1. call[c].pc = "cleanup" /\ tree' = Without(tree, TemporaryPath(c))
      BY <1>7 DEF RemoveTemporary
  <2>2. Path(c) \in Seq(Names) /\ Path(c) # <<>>
      BY <2>1, AtAwait DEF CallAgrees
  <2>3. IsTemporary(TemporaryPath(c))
      BY <2>2, TemporaryFacts DEF TemporaryPath
  <2>4. p # TemporaryPath(c) => p \in DOMAIN tree' /\ tree'[p] = tree[p]
      BY <2>1 DEF Without
  <2> QED BY <2>3, <2>4, NotTaken DEF Takes
<1> QED BY <1>3, <1>4, <1>5, <1>6, <1>7

LEMMA StepTakes ==
    ASSUME ToolsInv, NEW c \in Calls, Step(c), NEW p \in DOMAIN tree, Takes(p)
    PROVE  IsStepOf(c) /\ (AskedFor(c, p) \/ MovesUnasked(c, p))
<1>1. \/ Replace(c) \/ Move(c)
      \/ RemoveDirectory(c) \/ RemovePath(c) \/ RemoveTree(c)
    BY OthersTakeNothing DEF Step
<1>2. Running(c)
    BY <1>1 DEF Running, Replace, Move, RemoveDirectory, RemovePath, RemoveTree
<1> QED BY <1>1, <1>2, ReplaceTakes, MoveTakes, RemovalTakes DEF IsStepOf

\* An await that fails, and a path taken for absent, leave the tree as it is.
LEMMA FaultTakesNothing ==
    ASSUME NEW c \in Calls, Fault(c)
    PROVE  UNCHANGED tree
<1>1. CASE Fails(c)
    BY <1>1 DEF Fails
<1>2. CASE Overlooks(c)
    BY <1>2 DEF Overlooks, Resolves, ResolvesTo, Proceeds, fileVars
<1> QED BY <1>1, <1>2 DEF Fault

\* A file leaves its path only by a step of a call that was asked for it, or of
\* a move without overwrite whose look at its destination found nothing there;
\* in particular a write, a patch, a mkdir and a delete take nothing else.
THEOREM OnlyMovesTake == Spec => OnlyMovesTakeUnasked
<1> DEFINE A == \A p \in DOMAIN tree :
          Takes(p) => \E c \in Calls :
              IsStepOf(c) /\ (AskedFor(c, p) \/ MovesUnasked(c, p))
<1>1. ASSUME ToolsInv, [Next]_vars PROVE [A]_toolVars
  <2> SUFFICES ASSUME NEW p \in DOMAIN tree, Takes(p), ~(UNCHANGED tree)
               PROVE  \E c \in Calls :
                          IsStepOf(c) /\ (AskedFor(c, p) \/ MovesUnasked(c, p))
      BY NotTaken
  <2>1. ToolsNext
      BY <1>1 DEF Next, vars, toolVars, fileVars, Crash, ToolsCrash
  <2>2. PICK c \in Calls : Step(c)
      BY <2>1, FaultTakesNothing DEF ToolsNext, Begin, Refuse, fileVars
  <2> QED BY <1>1, <2>2, StepTakes
<1>2. ToolsInv /\ [Next]_vars => [A]_toolVars
    BY <1>1
<1>3. Spec => [][A]_toolVars
    BY <1>2, ToolsInvariant, PTL DEF Spec
<1> QED BY <1>3 DEF OnlyMovesTakeUnasked
-----------------------------------------------------------------------------
(***************************************************************************)
(* The readers.  The invariant of a reader is stated of its state s and of *)
(* what has stayed for it, kept, so that a step of the reader is a fact    *)
(* about two records.                                                      *)
(***************************************************************************)
ReaderStates ==
    [req : ReadRequests, pc : ReadPcs, out : {"none", "ok", "error"},
     aborted : BOOLEAN, at : Paths, size : Nat,
     file : AnyFile \cup {Absent}, got : Seq(AnyFile \cup {0}),
     queue : Seq(Paths), found : SUBSET [path : Paths, isDirectory : BOOLEAN],
     entries : SUBSET Paths, truncated : BOOLEAN, files : Nat, bytes : Nat]

Reads(s) == s.pc \notin {"idle", "done", "dead"}
Walks(s) == /\ s.pc \in {"scan", "entries", "file", "open", "read"}
            /\ s.req.kind \in {"list", "search"}

Agrees(s, kept) ==
       /\ s.pc \in {"scan", "entries"} => s.req.kind \in {"list", "search"}
       /\ s.pc = "file" => s.req.kind = "search"
       /\ s.pc \in {"open", "read"} => s.req.kind \in {"read", "search"}
       /\ s.pc = "scan" => s.queue # <<>>
       /\ s.pc \in {"resolve", "lstat", "scan"} => s.found = {}
       /\ s.pc = "entries" => s.found # {}
       /\ Reads(s) => ~s.truncated
       /\ s.pc \in {"open", "read"} /\ s.req.kind = "read" => s.at = s.req.path
       /\ s.pc = "read" => Settled(s.file)
       /\ s.got # <<>> => s.pc = "done" /\ Settled(s.file)
       /\ \A e \in s.found :
             e.path \in DOMAIN kept => e.isDirectory = (kept[e.path] = Dir)
       /\ s.pc \in {"open", "read"} /\ s.at \in DOMAIN kept /\ kept[s.at] # Dir =>
             LET size == Len(want[kept[s.at]])
             IN  s.size = IF s.req.kind = "read" THEN Smaller(s.req.limit, size) ELSE size
       /\ s.pc = "read" /\ s.at \in DOMAIN kept => s.file = kept[s.at]

\* What has stayed: still there while the reader reads, and whole.
KeptTyped(kept) == /\ kept \in [DOMAIN kept -> {Dir} \cup AnyFile]
                   /\ DOMAIN kept \subseteq Paths
KeptThere(kept) == \A p \in DOMAIN kept : At(tree, p) = kept[p]
KeptWhole(kept) == \A p \in DOMAIN kept :
                      kept[p] # Dir => Settled(kept[p]) /\ Whole(kept[p])

WantedOf(q, kept) ==
    LET there == {p \in DOMAIN kept : IsPrefix(q.path, p)}
        files == {p \in there : kept[p] # Dir}
    IN  IF q.kind = "list"
        THEN {p \in there : Len(p) - Len(q.path) \in 1 .. q.depth}
        ELSE {p \in files : /\ Len(want[kept[p]]) <= MaxFileSize
                            /\ Contains(want[kept[p]], q.query)}

QueuedFor(s, p) == \E n \in DOMAIN s.queue : IsStrictPrefix(s.queue[n], p)
FoundFor(s, p) == \E e \in s.found :
                     e.path = p \/ (e.isDirectory /\ IsStrictPrefix(e.path, p))
AtHand(s, p) == s.pc \in {"file", "open", "read"} /\ s.at = p

Complete(s, kept) ==
    Walks(s) => \A p \in WantedOf(s.req, kept) :
                   p \in s.entries \/ QueuedFor(s, p) \/ FoundFor(s, p) \/ AtHand(s, p)

\* The answer of a reader.
Answers(s, kept) ==
    LET q == s.req
        files == {p \in DOMAIN kept : kept[p] # Dir}
    IN  /\ q.kind \in {"list", "search"} => WantedOf(q, kept) \subseteq s.entries
        /\ q.kind = "read" /\ q.path \in files =>
              LET all == want[kept[q.path]]
              IN  s.got = SubSeq(all, 1, Smaller(q.limit, Len(all)))

\* What was read, got, is the beginning of the content all, with zeros after it
\* where isBinaryBuffer does not look.
BeginsVersion(got, all) ==
    \E k \in 0 .. Len(got) :
       /\ IsPrefix(SubSeq(got, 1, k), all)
       /\ \A n \in k + 1 .. Len(got) : got[n] = 0 /\ n > MaxChecked

Version(s) == s.got # <<>> => BeginsVersion(s.got, want[s.file])

Good(s, kept) ==
    /\ KeptTyped(kept) /\ KeptWhole(kept)
    /\ Reads(s) => KeptThere(kept)
    /\ s # Idle => s \in ReaderStates /\ Agrees(s, kept)
    /\ Complete(s, kept)
    /\ s.pc = "done" => Version(s)
    /\ s.pc = "done" /\ s.out = "ok" /\ ~s.truncated => Answers(s, kept)

ReadersInv ==
    /\ ToolsInv
    /\ reader = [r \in Readers |-> reader[r]] /\ stayed = [r \in Readers |-> stayed[r]]
    /\ \A r \in Readers : Good(reader[r], stayed[r])

LEMMA ReadRequestFacts ==
    ASSUME NEW q \in ReadRequests
    PROVE  /\ q.kind \in {"read", "stat", "list", "search"} /\ q.path \in Seq(Names)
           /\ q.kind = "list" => q.depth \in Nat
           /\ q.kind = "search" => q.query \in AnyFile
           /\ q.kind \in {"read", "list", "search"} => q.limit \in Nat
<1>1. q \in PossibleReads
    BY FileReadsAssumption
<1>2. CASE q \in [kind : {"read"}, path : Seq(Names), limit : Nat]
    BY <1>2
<1>3. CASE q \in [kind : {"stat"}, path : Seq(Names)]
    BY <1>3
<1>4. CASE q \in [kind : {"list"}, path : Seq(Names), depth : Nat, limit : Nat]
    BY <1>4
<1>5. CASE q \in [kind : {"search"}, path : Seq(Names), query : Calls \cup Files, limit : Nat]
    BY <1>5 DEF AnyFile
<1> QED BY <1>1, <1>2, <1>3, <1>4, <1>5 DEF PossibleReads

Finished(s, out) ==
    [s EXCEPT !.pc = "done", !.out = out, !.at = <<>>, !.size = 0,
              !.queue = <<>>, !.found = {}, !.files = 0, !.bytes = 0]

Proceeded(s) ==
    IF s.truncated \/ (s.found = {} /\ s.queue = <<>>)
    THEN Finished(s, "ok")
    ELSE [s EXCEPT !.pc = IF s.found = {} THEN "scan" ELSE "entries"]

\* A reader that ends has its answer.
LEMMA FinishGood ==
    ASSUME NEW s \in ReaderStates, NEW kept, KeptTyped(kept), KeptWhole(kept),
           NEW out \in {"ok", "error"},
           s.got # <<>> => Settled(s.file) /\ BeginsVersion(s.got, want[s.file]),
           out = "ok" /\ ~s.truncated => Answers(s, kept)
    PROVE  Good(Finished(s, out), kept)
<1> DEFINE t == Finished(s, out)
<1>1. /\ t \in ReaderStates /\ t.pc = "done" /\ t.out = out /\ t.req = s.req
      /\ t.got = s.got /\ t.file = s.file /\ t.entries = s.entries
      /\ t.truncated = s.truncated /\ t.found = {}
  <2>1. <<>> \in Paths /\ <<>> \in Seq(Paths)
      BY PathFacts, EmptySeq
  <2> QED BY <2>1 DEF Finished, ReaderStates, ReadPcs
<1> HIDE DEF t
<1>2. Agrees(t, kept)
    BY <1>1 DEF Agrees, Reads
<1>3. Complete(t, kept) /\ ~Reads(t)
    BY <1>1 DEF Complete, Walks, Reads
<1>4. Version(t)
    BY <1>1 DEF Version
<1>5. t.out = "ok" /\ ~t.truncated => Answers(t, kept)
    BY <1>1 DEF Answers
<1> QED BY <1>1, <1>2, <1>3, <1>4, <1>5 DEF Good, t

\* A reader that goes on has what it has to find before it.
LEMMA ProceedGood ==
    ASSUME NEW s \in ReaderStates, NEW kept,
           KeptTyped(kept), KeptWhole(kept), KeptThere(kept),
           s.req.kind \in {"list", "search"}, s.got = <<>>,
           \A e \in s.found :
              e.path \in DOMAIN kept => e.isDirectory = (kept[e.path] = Dir),
           \A p \in WantedOf(s.req, kept) :
              p \in s.entries \/ QueuedFor(s, p) \/ FoundFor(s, p)
    PROVE  Good(Proceeded(s), kept)
<1>1. CASE s.truncated \/ (s.found = {} /\ s.queue = <<>>)
  <2>1. ~s.truncated => Answers(s, kept)
    <3> SUFFICES ASSUME ~s.truncated PROVE WantedOf(s.req, kept) \subseteq s.entries
        BY DEF Answers
    <3>1. s.found = {} /\ DOMAIN s.queue = {}
        BY <1>1
    <3> QED BY <3>1 DEF QueuedFor, FoundFor
  <2>2. Proceeded(s) = Finished(s, "ok")
      BY <1>1 DEF Proceeded
  <2> QED BY <2>1, <2>2, FinishGood
<1>2. CASE ~(s.truncated \/ (s.found = {} /\ s.queue = <<>>))
  <2> DEFINE t == [s EXCEPT !.pc = IF s.found = {} THEN "scan" ELSE "entries"]
  <2>1. /\ t \in ReaderStates /\ t.pc = (IF s.found = {} THEN "scan" ELSE "entries")
        /\ t.req = s.req /\ t.got = s.got /\ t.found = s.found /\ t.queue = s.queue
        /\ t.entries = s.entries /\ t.truncated = s.truncated
      BY DEF ReaderStates, ReadPcs
  <2>2. Proceeded(s) = t
      BY <1>2 DEF Proceeded
  <2> HIDE DEF t
  <2>3. Agrees(t, kept)
      BY <1>2, <2>1 DEF Agrees
  <2>4. Complete(t, kept)
    <3>1. \A p : QueuedFor(t, p) = QueuedFor(s, p) /\ FoundFor(t, p) = FoundFor(s, p)
        BY <2>1 DEF QueuedFor, FoundFor
    <3> QED BY <2>1, <3>1 DEF Complete
  <2>5. t.pc # "done"
      BY <2>1
  <2> QED BY <2>1, <2>2, <2>3, <2>4, <2>5 DEF Good
<1> QED BY <1>1, <1>2
-----------------------------------------------------------------------------
\* The content of a settled file is fixed, and once whole it stays whole.
Stable ==
    \A f \in AnyFile : Settled(f) =>
       Settled(f)' /\ want'[f] = want[f] /\ (Whole(f) => Whole(f)')

LEMMA OpenedIsPc ==
    ASSUME NEW c \in Calls, Running(c), Opened(c)
    PROVE  call[c].pc \in {"fill", "rename", "cleanup"}
BY DEF Running, Opened

LEMMA StepIsStable ==
    ASSUME ToolsInv, NEW c \in Calls, Step(c) \/ Fails(c) \/ Overlooks(c), Running(c)
    PROVE  Stable
<1>1. ToolTypes /\ call[c] # Idle
    BY CallFacts DEF ToolsInv
<1>2. call \in [Calls -> {Idle} \cup CallStates]
    BY <1>1 DEF ToolTypes, CallStates, AnyFile
<1>3. /\ data \in [AnyFile -> Seq(AnyFile)] /\ want \in [AnyFile -> Seq(AnyFile)]
    BY <1>1 DEF ToolTypes, AnyFile
<1>4. \A d \in Calls : d # c => call'[d] = call[d]
    BY <1>2 DEF Step, Fails, Overlooks, Resolves, ResolvePath, Lstat, Proceeds, MakeParents,
        OpenToRead, ReadContent, OpenOutput, Fill, Replace, RemoveTemporary, MakeDirectory,
        ResolvesTo, ResolveDestination, Move, ReadDirectory, RemoveDirectory, RemovePath,
        RemoveTree,
        Goto, End
<1>5. Opened(c) => Opened(c)'
  <2> SUFFICES ASSUME call[c].pc \in {"fill", "rename", "cleanup"} PROVE Opened(c)'
      BY OpenedIsPc
  <2>1. ASSUME Fails(c) PROVE Opened(c)'
    <3>1. CASE call[c].pc = "cleanup" \/ ~Replacing(c)
      <4>1. End(c, call[c].out) \/ End(c, "error")
          BY <2>1, <3>1 DEF Fails
      <4>2. call[c].out \in {"none", "ok", "error"}
          BY <1>1, CallFacts DEF CallStates
      <4> QED BY <1>1, <4>1, <4>2, EndFacts DEF Opened
    <3>2. CASE call[c].pc # "cleanup" /\ Replacing(c)
      <4>1. call' = [call EXCEPT ![c].pc = "cleanup", ![c].out = "error"]
          BY <2>1, <3>2 DEF Fails
      <4>2. call[c] \in CallStates
          BY <1>1, CallFacts
      <4> QED BY <1>2, <4>1, <4>2 DEF CallStates, Opened
    <3> QED BY <3>1, <3>2
  <2>2. CASE Fill(c)
    <3>1. call' = call \/ Goto(c, "rename") \/ End(c, "ok")
        BY <2>2 DEF Fill
    <3>2. call' = call => Opened(c)'
        BY DEF Opened
    <3>3. "rename" \in CallPcs
        BY DEF CallPcs
    <3> QED BY <1>1, <3>1, <3>2, <3>3, GotoFacts, EndFacts DEF Opened
  <2>3. CASE Replace(c)
    <3>1. CASE CanRename(tree, TemporaryPath(c), Path(c))
      <4>1. call' = [call EXCEPT ![c].pc = "cleanup", ![c].out = "ok"]
          BY <2>3, <3>1 DEF Replace
      <4>2. call[c] \in CallStates
          BY <1>1, CallFacts
      <4> QED BY <1>2, <4>1, <4>2 DEF CallStates, Opened
    <3>2. CASE ~CanRename(tree, TemporaryPath(c), Path(c))
        BY <2>1, <2>3, <3>2 DEF Replace
    <3> QED BY <3>1, <3>2
  <2>4. CASE RemoveTemporary(c)
    <3>1. End(c, call[c].out)
        BY <2>4 DEF RemoveTemporary
    <3>2. call[c].out \in {"none", "ok", "error"}
        BY <1>1, CallFacts DEF CallStates
    <3> QED BY <1>1, <3>1, <3>2, EndFacts DEF Opened
  <2>5. CASE Step(c)
    <3>1. Fill(c) \/ Replace(c) \/ RemoveTemporary(c)
        BY <2>5 DEF Step, ResolvePath, Lstat, MakeParents, OpenToRead, ReadContent,
            OpenOutput, MakeDirectory, ResolveDestination, Move, ReadDirectory,
            RemoveDirectory, RemovePath, RemoveTree
    <3> QED BY <3>1, <2>2, <2>3, <2>4
  <2>6. ~Overlooks(c)
      BY DEF Overlooks
  <2> QED BY <2>1, <2>5, <2>6
<1>6. \A f \in AnyFile : f # c => data'[f] = data[f] /\ want'[f] = want[f]
    BY <1>3 DEF Step, Fails, Overlooks, Resolves, ResolvePath, Lstat, Proceeds, MakeParents,
        OpenToRead, ReadContent, OpenOutput, Fill, Replace, RemoveTemporary, MakeDirectory,
        ResolvesTo, ResolveDestination, Move, ReadDirectory, RemoveDirectory, RemovePath,
        RemoveTree,
        Removed, fileVars
<1>7. ASSUME Opened(c) PROVE want'[c] = want[c]
  <2>1. call[c].pc \notin {"read", "open"}
      BY <1>7 DEF Opened
  <2>2. want' = want
      BY <2>1 DEF Step, Fails, Overlooks, Resolves, ResolvePath, Lstat, Proceeds, MakeParents,
        OpenToRead, ReadContent, OpenOutput, Fill, Replace, RemoveTemporary, MakeDirectory,
        ResolvesTo, ResolveDestination, Move, ReadDirectory, RemoveDirectory, RemovePath,
        RemoveTree,
        Removed, fileVars
  <2> QED BY <2>2
<1>8. ASSUME Whole(c) PROVE data'[c] = data[c]
  <2>1. ~Fill(c)
      BY <1>8 DEF Fill, Whole, ToolsInv, ContentsAgree
  <2>2. data' = data
      BY <2>1 DEF Step, Fails, Overlooks, Resolves, ResolvePath, Lstat, Proceeds, MakeParents,
        OpenToRead, ReadContent, OpenOutput, Replace, RemoveTemporary, MakeDirectory,
        ResolvesTo, ResolveDestination, Move, ReadDirectory, RemoveDirectory, RemovePath,
        RemoveTree,
        Removed, fileVars
  <2> QED BY <2>2
<1>9. ASSUME NEW f \in AnyFile, Settled(f)
      PROVE  Settled(f)' /\ want'[f] = want[f] /\ (Whole(f) => Whole(f)')
  <2>1. CASE f = c
    <3>1. Opened(c)
        BY <1>9, <2>1, FileToolsAssumption DEF Settled
    <3> QED BY <2>1, <3>1, <1>5, <1>7, <1>8 DEF Settled, Whole
  <2>2. CASE f # c
    <3>1. f \in Calls => (Opened(f) => Opened(f)')
        BY <1>4, <2>2 DEF Opened
    <3> QED BY <1>6, <1>9, <2>2, <3>1 DEF Settled, Whole
  <2> QED BY <2>1, <2>2
<1> QED BY <1>9 DEF Stable

LEMMA NothingIsStable ==
    ASSUME UNCHANGED <<fileVars, call>>
    PROVE  Stable
BY DEF Stable, Settled, Opened, Whole, fileVars

LEMMA ToolsStable ==
    ASSUME ToolsInv, ToolsNext \/ ToolsCrash
    PROVE  Stable
<1>1. ASSUME NEW c \in Calls, Step(c) \/ Fault(c) PROVE Stable
  <2>1. Running(c)
    <3>1. CASE Step(c)
        BY <3>1 DEF Running, Step, ResolvePath, Lstat, MakeParents, OpenToRead, ReadContent,
            OpenOutput, Fill, Replace, RemoveTemporary, MakeDirectory, ResolveDestination,
            Move, ReadDirectory, RemoveDirectory, RemovePath, RemoveTree
    <3>2. CASE Fault(c)
        BY <3>2 DEF Fault
    <3> QED BY <1>1, <3>1, <3>2
  <2> QED BY <1>1, <2>1, StepIsStable DEF Fault
<1>2. ASSUME NEW c \in Calls, NEW r \in Requests, Begin(c, r) \/ Refuse(c, r)
      PROVE  Stable
  <2>1. call[c].pc = "idle" /\ UNCHANGED <<tree, data, want>>
      BY <1>2 DEF Begin, Refuse, Idle, fileVars
  <2>2. \A d \in Calls : Opened(d) => d # c
      BY <2>1 DEF Opened
  <2>3. \A d \in Calls : d # c => call'[d] = call[d]
    <3>1. call \in [Calls -> {Idle} \cup CallStates]
        BY DEF ToolsInv, ToolTypes, CallStates, AnyFile
    <3> QED BY <1>2, <3>1 DEF Begin, Refuse
  <2>4. \A d \in Calls : Opened(d) => Opened(d)'
      BY <2>2, <2>3 DEF Opened
  <2> QED BY <2>1, <2>4 DEF Stable, Settled, Whole
<1>3. CASE ToolsCrash
  <2>1. UNCHANGED <<tree, data, want>>
      BY <1>3 DEF ToolsCrash
  <2>2. ASSUME NEW d \in Calls, Opened(d) PROVE Opened(d)'
    <3>1. CASE Running(d)
      <4>1. call'[d] = [call[d] EXCEPT !.pc = "dead"] /\ call[d] \in CallStates
          BY <1>3, <3>1, CallFacts DEF ToolsCrash, ToolsInv
      <4> QED BY <4>1 DEF CallStates, Opened
    <3>2. CASE ~Running(d)
      <4>1. call'[d] = call[d]
          BY <1>3, <3>2 DEF ToolsCrash
      <4> QED BY <2>2, <4>1 DEF Opened
    <3> QED BY <3>1, <3>2
  <2> QED BY <2>1, <2>2 DEF Stable, Settled, Whole
<1> QED BY <1>1, <1>2, <1>3 DEF ToolsNext
-----------------------------------------------------------------------------
\* A reader that does not move, or dies, while the calls go on.
LEMMA ReaderStays ==
    ASSUME Stable, NEW s, NEW kept, Good(s, kept), NEW m,
           KeptTyped(m), DOMAIN m \subseteq DOMAIN kept,
           \A p \in DOMAIN m : m[p] = kept[p],
           ~Reads(s) => m = kept,
           NEW t, t = s \/ (Reads(s) /\ t = [s EXCEPT !.pc = "dead"]),
           Reads(t) => KeptThere(m)'
    PROVE  Good(t, m)'
<1>0. \A p \in DOMAIN kept : kept[p] # Dir =>
          /\ kept[p] \in AnyFile /\ Settled(kept[p]) /\ Whole(kept[p])
          /\ Settled(kept[p])' /\ Whole(kept[p])' /\ want'[kept[p]] = want[kept[p]]
    BY DEF Good, KeptTyped, KeptWhole, Stable
<1>1. KeptWhole(m)'
    BY <1>0 DEF KeptWhole
<1>2. CASE t = s
  <2>1. ASSUME s # Idle PROVE s \in ReaderStates /\ Agrees(s, m)'
    <3>1. s \in ReaderStates /\ Agrees(s, kept)
        BY <2>1 DEF Good
    <3>2. Settled(s.file) => Settled(s.file)'
      <4>1. Settled(s.file) => s.file \in AnyFile
          BY DEF Settled, AnyFile
      <4> QED BY <4>1 DEF Stable
    <3>3. /\ \A e \in s.found :
               e.path \in DOMAIN m => e.isDirectory = (m[e.path] = Dir)
          /\ s.pc = "read" /\ s.at \in DOMAIN m => s.file = m[s.at]
        BY <3>1 DEF Agrees
    <3>4. s.pc \in {"open", "read"} /\ s.at \in DOMAIN m /\ m[s.at] # Dir =>
             s.size = IF s.req.kind = "read"
                      THEN Smaller(s.req.limit, Len(want'[m[s.at]])) ELSE Len(want'[m[s.at]])
        BY <3>1, <1>0 DEF Agrees
    <3> QED BY <3>1, <3>2, <3>3, <3>4 DEF Agrees
  <2>2. \A q, p : p \in WantedOf(q, m)' => p \in WantedOf(q, kept)
      BY <1>0 DEF WantedOf
  <2>3. Complete(s, m)'
      BY <2>2 DEF Good, Complete
  <2>4. ASSUME s.pc = "done" PROVE Version(s)'
    <3>1. s # Idle
        BY <2>4 DEF Idle
    <3>2. s.got # <<>> => Settled(s.file) /\ s.file \in AnyFile
        BY <3>1 DEF Good, Agrees, Settled, AnyFile
    <3>3. s.got # <<>> => BeginsVersion(s.got, want[s.file]) /\ want'[s.file] = want[s.file]
        BY <2>4, <3>2 DEF Good, Version, Stable
    <3> QED BY <3>3 DEF Version, BeginsVersion
  <2>5. ASSUME s.pc = "done", s.out = "ok", ~s.truncated PROVE Answers(s, m)'
    <3>1. m = kept /\ Answers(s, kept)
        BY <2>5 DEF Good, Reads
    <3>2. \A q, p : p \in WantedOf(q, m)' => p \in WantedOf(q, kept)
        BY <2>2
    <3>3. s.req.kind \in {"list", "search"} => WantedOf(s.req, m)' \subseteq s.entries
        BY <3>1, <3>2 DEF Answers
    <3>4. s.req.kind = "read" /\ s.req.path \in DOMAIN kept /\ kept[s.req.path] # Dir =>
             s.got = SubSeq(want'[kept[s.req.path]], 1,
                            Smaller(s.req.limit, Len(want'[kept[s.req.path]])))
        BY <3>1, <1>0 DEF Answers
    <3> QED BY <3>1, <3>3, <3>4 DEF Answers
  <2> QED BY <1>1, <1>2, <2>1, <2>3, <2>4, <2>5 DEF Good
<1>3. CASE Reads(s) /\ t = [s EXCEPT !.pc = "dead"]
  <2>1. s # Idle
      BY <1>3 DEF Reads, Idle
  <2>2. s \in ReaderStates /\ s.got = <<>> /\ Agrees(s, kept)
      BY <1>3, <2>1 DEF Good, Agrees, Reads
  <2>3. t \in ReaderStates /\ t.pc = "dead" /\ t.got = <<>> /\ t.found = s.found
      BY <1>3, <2>2 DEF ReaderStates, ReadPcs
  <2>4. \A e \in t.found : e.path \in DOMAIN m => e.isDirectory = (m[e.path] = Dir)
      BY <2>2, <2>3 DEF Agrees
  <2>5. Agrees(t, m)' /\ ~Reads(t)
      BY <2>3, <2>4 DEF Agrees, Reads
  <2>6. Complete(t, m)'
      BY <2>3 DEF Complete, Walks
  <2> QED BY <1>1, <2>3, <2>5, <2>6 DEF Good
<1> QED BY <1>2, <1>3
-----------------------------------------------------------------------------
(***************************************************************************)
(* The steps of a reader in the state s.                                   *)
(***************************************************************************)
LEMMA QueueFacts ==
    ASSUME NEW s \in ReaderStates, s.queue # <<>>, NEW t, t.queue = Tail(s.queue), NEW p,
           QueuedFor(s, p)
    PROVE  IsStrictPrefix(Head(s.queue), p) \/ QueuedFor(t, p)
<1> DEFINE queue == s.queue
<1>1. queue \in Seq(Paths) /\ queue # <<>>
    BY DEF ReaderStates
<1>2. PICK n \in DOMAIN queue : IsStrictPrefix(queue[n], p)
    BY DEF QueuedFor
<1> HIDE DEF queue
<1>3. Len(queue) \in Nat /\ n \in 1 .. Len(queue)
    BY <1>1, <1>2, LenProperties
<1>4. /\ Tail(queue) \in Seq(Paths) /\ Len(Tail(queue)) = Len(queue) - 1
      /\ \A i \in 1 .. Len(Tail(queue)) : Tail(queue)[i] = queue[i + 1]
    BY <1>1, HeadTailProperties
<1>5. CASE n = 1
  <2>1. Head(queue) = queue[1]
      BY <1>1
  <2> QED BY <1>2, <1>5, <2>1 DEF queue
<1>6. CASE n # 1
  <2>1. n - 1 \in 1 .. Len(Tail(queue)) /\ n - 1 + 1 = n
      BY <1>3, <1>4, <1>6
  <2>2. Tail(queue)[n - 1] = queue[n]
      BY <1>4, <2>1
  <2>3. n - 1 \in DOMAIN Tail(queue)
      BY <1>4, <2>1, LenProperties
  <2>4. t.queue = Tail(queue)
      BY DEF queue
  <2>5. \E k \in DOMAIN t.queue : IsStrictPrefix(t.queue[k], p)
      BY <1>2, <2>2, <2>3, <2>4
  <2> QED BY <2>5 DEF QueuedFor
<1> QED BY <1>5, <1>6

\* What an await that throws leaves of a reader.
LEMMA ReadFailsGood ==
    ASSUME NEW r \in Readers, NEW s \in ReaderStates, s = reader[r], ReadFails(r),
           NEW kept, KeptTyped(kept), KeptWhole(kept), KeptThere(kept), Agrees(s, kept),
           Reads(s), s.pc # "entries",
           s.pc = "scan" =>
              \A p \in WantedOf(s.req, kept) :
                 \/ p \in s.entries
                 \/ QueuedFor(s, p) /\ ~IsStrictPrefix(Head(s.queue), p),
           s.pc \in {"file", "open", "read"} /\ s.req.kind = "search" =>
              \A p \in WantedOf(s.req, kept) :
                 p \in s.entries \/ QueuedFor(s, p) \/ FoundFor(s, p)
    PROVE  \E t : reader' = [reader EXCEPT ![r] = t] /\ Good(t, kept)
<1>0. s.got = <<>> /\ s.req.kind \in {"read", "stat", "list", "search"}
    BY ReadRequestFacts DEF Agrees, Reads, ReaderStates
<1>1. CASE s.pc = "scan"
  <2> DEFINE t == [s EXCEPT !.queue = Tail(@)]
  <2>1. s.queue # <<>> /\ s.found = {} /\ s.req.kind \in {"list", "search"}
      BY <1>1 DEF Agrees
  <2>2. Tail(s.queue) \in Seq(Paths)
      BY <2>1, HeadTailProperties DEF ReaderStates
  <2>3. /\ t \in ReaderStates /\ t.queue = Tail(s.queue) /\ t.found = {} /\ t.req = s.req
        /\ t.got = <<>> /\ t.entries = s.entries
      BY <1>0, <2>1, <2>2 DEF ReaderStates
  <2>4. reader' = [reader EXCEPT ![r] = Proceeded(t)]
      BY <1>1 DEF ReadFails, Proceed, Proceeded, Finish, Finished, Becomes
  <2> HIDE DEF t
  <2>5. \A p \in WantedOf(t.req, kept) : p \in t.entries \/ QueuedFor(t, p)
      BY <1>1, <2>1, <2>3, QueueFacts
  <2>6. Good(Proceeded(t), kept)
      BY <2>1, <2>3, <2>5, ProceedGood
  <2> QED BY <2>4, <2>6
<1>2. CASE s.pc # "scan" /\ s.req.kind = "search" /\ s.pc \notin {"resolve", "lstat"}
  <2>1. reader' = [reader EXCEPT ![r] = Proceeded(s)]
      BY <1>2 DEF ReadFails, Proceed, Proceeded, Finish, Finished, Becomes
  <2>2. s.pc \in {"file", "open", "read"}
      BY <1>2 DEF ReaderStates, ReadPcs, Reads
  <2>3. Good(Proceeded(s), kept)
      BY <1>0, <1>2, <2>2, ProceedGood DEF Agrees
  <2> QED BY <2>1, <2>3
<1>3. CASE s.pc # "scan" /\ ~(s.req.kind = "search" /\ s.pc \notin {"resolve", "lstat"})
  <2>1. reader' = [reader EXCEPT ![r] = Finished(s, "error")]
      BY <1>3 DEF ReadFails, Finish, Finished, Becomes
  <2>2. Good(Finished(s, "error"), kept)
      BY <1>0, FinishGood
  <2> QED BY <2>1, <2>2
<1> QED BY <1>1, <1>2, <1>3

\* A reader in the middle.
LEMMA ReaderFacts ==
    ASSUME ReadersInv, NEW r \in Readers, NEW s, s = reader[r], NEW kept, kept = stayed[r],
           Reads(s)
    PROVE  /\ s \in ReaderStates /\ Agrees(s, kept) /\ s.got = <<>> /\ ~s.truncated
           /\ KeptTyped(kept) /\ KeptWhole(kept) /\ KeptThere(kept)
           /\ Complete(s, kept) /\ s.req \in ReadRequests
<1>1. s # Idle
    BY DEF Reads, Idle
<1>2. Good(s, kept)
    BY DEF ReadersInv
<1>3. s \in ReaderStates /\ Agrees(s, kept)
    BY <1>1, <1>2 DEF Good
<1> QED BY <1>2, <1>3 DEF Good, Agrees, Reads, ReaderStates

LEMMA ResolveReadGood ==
    ASSUME ReadersInv, NEW r \in Readers, NEW s, s = reader[r], NEW kept, kept = stayed[r],
           ResolveRead(r)
    PROVE  \E t : reader' = [reader EXCEPT ![r] = t] /\ Good(t, kept)
<1>1. s.pc = "resolve" /\ Reads(s)
    BY DEF ResolveRead, Reads
<1>2. /\ s \in ReaderStates /\ Agrees(s, kept) /\ s.got = <<>> /\ ~s.truncated
      /\ KeptTyped(kept) /\ KeptWhole(kept) /\ KeptThere(kept)
    BY <1>1, ReaderFacts
<1>3. CASE ReadFails(r)
    BY <1>1, <1>2, <1>3, ReadFailsGood
<1>4. CASE ~ReadFails(r)
  <2> DEFINE t == [s EXCEPT !.pc = "lstat"]
  <2>1. reader' = [reader EXCEPT ![r] = t]
      BY <1>4 DEF ResolveRead, Becomes
  <2>2. /\ t \in ReaderStates /\ t.pc = "lstat" /\ t.got = <<>> /\ ~t.truncated
        /\ t.found = s.found
      BY <1>2 DEF ReaderStates, ReadPcs
  <2> HIDE DEF t
  <2>3. Agrees(t, kept)
      BY <1>1, <1>2, <2>2 DEF Agrees
  <2>4. Good(t, kept)
      BY <1>2, <2>2, <2>3 DEF Good, Complete, Walks
  <2> QED BY <2>1, <2>4
<1> QED BY <1>3, <1>4

\* What is at a path while a reader reads.
LEMMA ThereFacts ==
    ASSUME ToolsInv, NEW kept, KeptTyped(kept), KeptWhole(kept), KeptThere(kept)
    PROVE  /\ \A p \in DOMAIN kept : p \in DOMAIN tree /\ tree[p] = kept[p]
           /\ \A p \in DOMAIN kept : kept[p] # Dir =>
                 /\ kept[p] \in AnyFile /\ IsFile(tree, p)
                 /\ data[kept[p]] = want[kept[p]] /\ want[kept[p]] \in Seq(AnyFile)
           /\ \A p \in DOMAIN tree : tree[p] # Dir =>
                 tree[p] \in AnyFile /\ Settled(tree[p]) /\ data[tree[p]] \in Seq(AnyFile)
<1>1. \A p \in DOMAIN kept : kept[p] = Dir \/ kept[p] \in AnyFile
    BY DEF KeptTyped
<1>2. \A p \in DOMAIN kept : p \in DOMAIN tree /\ tree[p] = kept[p]
    BY <1>1, FileToolsAssumption DEF KeptThere, At, AnyFile
<1>3. data \in [AnyFile -> Seq(AnyFile)] /\ want \in [AnyFile -> Seq(AnyFile)]
    BY DEF ToolsInv, ToolTypes, AnyFile
<1>4. ASSUME NEW p \in DOMAIN kept, kept[p] # Dir
      PROVE  /\ kept[p] \in AnyFile /\ IsFile(tree, p)
             /\ data[kept[p]] = want[kept[p]] /\ want[kept[p]] \in Seq(AnyFile)
  <2>1. kept[p] \in AnyFile /\ At(tree, p) = kept[p]
      BY <1>1, <1>4 DEF KeptThere
  <2>2. IsFile(tree, p)
      BY <2>1, FileToolsAssumption DEF IsFile, AnyFile
  <2>3. data[kept[p]] = want[kept[p]]
      BY <1>4 DEF KeptWhole, Whole
  <2> QED BY <1>3, <2>1, <2>2, <2>3
<1>5. ASSUME NEW p \in DOMAIN tree, tree[p] # Dir
      PROVE  tree[p] \in AnyFile /\ Settled(tree[p]) /\ data[tree[p]] \in Seq(AnyFile)
  <2>1. tree[p] \in AnyFile
      BY <1>5, RootIsDirectory, WorkspaceFacts DEF ToolsInv
  <2>2. tree[p] \in Calls => Opened(tree[p])
      BY DEF ToolsInv, PlacesAgree
  <2> QED BY <1>3, <2>1, <2>2 DEF Settled, AnyFile
<1> QED BY <1>2, <1>4, <1>5

LEMMA LstatReadGood ==
    ASSUME ReadersInv, NEW r \in Readers, NEW s, s = reader[r], NEW kept, kept = stayed[r],
           LstatRead(r)
    PROVE  \E t : reader' = [reader EXCEPT ![r] = t] /\ Good(t, kept)
<1>1. s.pc = "lstat" /\ Reads(s)
    BY DEF LstatRead, Reads
<1>2. /\ s \in ReaderStates /\ Agrees(s, kept) /\ s.got = <<>> /\ ~s.truncated
      /\ KeptTyped(kept) /\ KeptWhole(kept) /\ KeptThere(kept) /\ s.req \in ReadRequests
    BY <1>1, ReaderFacts
<1> DEFINE q == s.req
           what == At(tree, q.path)
           u == [s EXCEPT !.at = q.path]
<1>3. q.kind \in {"read", "stat", "list", "search"} /\ q.path \in Seq(Names)
      /\ q.path \in Paths /\ q.path \in Seq(AnyName)
    BY <1>2, ReadRequestFacts, PathFacts
<1>4. /\ u \in ReaderStates /\ u.req = q /\ u.at = q.path /\ u.got = <<>> /\ u.found = {}
      /\ u.pc = "lstat" /\ ~u.truncated
    BY <1>1, <1>2, <1>3 DEF ReaderStates, Agrees
<1>5. ToolsInv
    BY DEF ReadersInv
<1>6. what # Absent => q.path \in DOMAIN tree /\ tree[q.path] = what
    BY DEF At
<1>7. ASSUME ReadFails(r)
      PROVE  \E t : reader' = [reader EXCEPT ![r] = t] /\ Good(t, kept)
    BY <1>1, <1>2, <1>7, ReadFailsGood
<1>8. ASSUME NEW t, reader' = [reader EXCEPT ![r] = t], t \in ReaderStates, t.req = q,
             t.found = {}, t.got = <<>>, ~t.truncated, t.queue = <<q.path>>, t.pc = "scan",
             q.kind \in {"list", "search"},
             \A p \in WantedOf(q, kept) : IsStrictPrefix(q.path, p)
      PROVE  \E v : reader' = [reader EXCEPT ![r] = v] /\ Good(v, kept)
  <2>1. Agrees(t, kept)
      BY <1>8 DEF Agrees
  <2>2. DOMAIN t.queue = {1} /\ t.queue[1] = q.path
      BY <1>8
  <2>3. Complete(t, kept)
      BY <1>8, <2>2 DEF Complete, QueuedFor
  <2>4. Good(t, kept)
      BY <1>2, <1>8, <2>1, <2>3 DEF Good
  <2> QED BY <1>8, <2>4
<1>9. \A p \in DOMAIN kept : p \in DOMAIN tree /\ tree[p] = kept[p] /\ p \in Seq(AnyName)
    BY <1>2, <1>5, ThereFacts, PathFacts DEF KeptTyped
<1>10. CASE what = Absent
  <2>1. ReadFails(r)
      BY <1>10 DEF LstatRead
  <2> QED BY <1>7, <2>1
<1>11. CASE what # Absent /\ q.kind = "read"
  <2>1. LstatToRead(r, u, what)
      BY <1>11 DEF LstatRead
  <2>2. CASE what = Dir
    <3>1. ReadFails(r)
        BY <2>1, <2>2 DEF LstatToRead
    <3> QED BY <1>7, <3>1
  <2>3. ASSUME what # Dir PROVE what \in AnyFile /\ data[what] \in Seq(AnyFile)
      BY <1>2, <1>5, <1>6, <1>11, <2>3, ThereFacts
  <2>4. ASSUME q.path \in DOMAIN kept
        PROVE  kept[q.path] = what /\ (what # Dir => want[what] = data[what])
      BY <1>2, <1>5, <1>6, <1>9, <1>11, <2>4, ThereFacts
  <2>5. q.limit \in Nat
      BY <1>2, <1>11, ReadRequestFacts
  <2>6. CASE what # Dir /\ data[what] = <<>>
    <3>1. reader' = [reader EXCEPT ![r] = Finished(u, "ok")]
        BY <2>1, <2>6 DEF LstatToRead, Finish, Finished, Becomes
    <3>2. Answers(u, kept)
      <4>1. ASSUME q.path \in DOMAIN kept, kept[q.path] # Dir
            PROVE  LET all == want[kept[q.path]] IN
                   u.got = SubSeq(all, 1, Smaller(q.limit, Len(all)))
        <5>1. want[kept[q.path]] = <<>>
            BY <2>4, <2>6, <4>1
        <5>2. Smaller(q.limit, Len(<<>>)) = 0
            BY <2>5, EmptySeq DEF Smaller
        <5>3. SubSeq(<<>>, 1, 0) = <<>>
            OBVIOUS
        <5> DEFINE all == want[kept[q.path]]
        <5>4. u.got = SubSeq(all, 1, Smaller(q.limit, Len(all)))
          <6>1. all = <<>> /\ u.got = <<>>
              BY <1>4, <5>1
          <6> HIDE DEF all, u, q
          <6> QED BY <5>2, <5>3, <6>1
        <5> QED BY <5>4
      <4> QED BY <1>4, <1>11, <4>1 DEF Answers
    <3> HIDE DEF u
    <3>3. Good(Finished(u, "ok"), kept)
        BY <1>2, <1>4, <3>2, FinishGood
    <3> QED BY <3>1, <3>3
  <2>7. CASE what # Dir /\ data[what] # <<>>
    <3> DEFINE t == [u EXCEPT !.pc = "open", !.size = Smaller(q.limit, Len(data[what]))]
    <3>1. reader' = [reader EXCEPT ![r] = t]
        BY <2>1, <2>7, <1>4 DEF LstatToRead, Becomes
    <3>2. Smaller(q.limit, Len(data[what])) \in Nat
        BY <2>3, <2>5, <2>7, LenProperties DEF Smaller
    <3>t. t \in ReaderStates
      <4>1. "open" \in ReadPcs
          BY DEF ReadPcs
      <4> HIDE DEF u, what
      <4> QED BY <1>4, <3>2, <4>1 DEF ReaderStates
    <3>f. /\ t.pc = "open" /\ t.req = q /\ t.at = q.path
          /\ t.got = <<>> /\ t.found = {} /\ ~t.truncated
          /\ t.size = Smaller(q.limit, Len(data[what]))
      <4> HIDE DEF u, what
      <4> QED BY <1>4 DEF ReaderStates
    <3>3. /\ t \in ReaderStates /\ t.pc = "open" /\ t.req = q /\ t.at = q.path
          /\ t.got = <<>> /\ t.found = {} /\ ~t.truncated
          /\ t.size = Smaller(q.limit, Len(data[what]))
        BY <3>t, <3>f
    <3> HIDE DEF t, u, what
    <3>4. Agrees(t, kept)
        BY <1>11, <2>4, <3>3 DEF Agrees
    <3>5. Complete(t, kept)
        BY <1>11, <3>3 DEF Complete, Walks
    <3>6. Good(t, kept)
        BY <1>2, <3>3, <3>4, <3>5 DEF Good
    <3> QED BY <3>1, <3>6
  <2> QED BY <2>2, <2>6, <2>7
<1>12. CASE what # Absent /\ q.kind = "list"
  <2>1. LstatToList(r, u, what)
      BY <1>12 DEF LstatRead
  <2>2. CASE what # Dir
    <3>1. ReadFails(r)
        BY <2>1, <2>2 DEF LstatToList
    <3> QED BY <1>7, <3>1
  <2>3. CASE what = Dir
    <3> DEFINE t == [u EXCEPT !.pc = "scan", !.queue = <<u.at>>]
    <3>1. reader' = [reader EXCEPT ![r] = t]
        BY <2>1, <2>3 DEF LstatToList, Becomes
    <3>2. <<u.at>> \in Seq(Paths) /\ <<u.at>> = <<q.path>>
        BY <1>3, <1>4
    <3>3. /\ t \in ReaderStates /\ t.pc = "scan" /\ t.req = q /\ t.queue = <<q.path>>
          /\ t.got = <<>> /\ t.found = {} /\ ~t.truncated
        BY <1>4, <3>2 DEF ReaderStates, ReadPcs
    <3>4. ASSUME NEW p \in WantedOf(q, kept) PROVE IsStrictPrefix(q.path, p)
      <4>1. IsPrefix(q.path, p) /\ Len(p) - Len(q.path) \in 1 .. q.depth /\ p \in DOMAIN kept
          BY <1>12 DEF WantedOf
      <4>2. q.path # p
          BY <4>1, <1>3, <1>9, LenProperties
      <4> QED BY <4>1, <4>2 DEF IsStrictPrefix
    <3> HIDE DEF t, u
    <3> QED BY <1>8, <1>12, <3>1, <3>3, <3>4
  <2> QED BY <2>2, <2>3
<1>13. CASE what # Absent /\ q.kind = "search"
  <2>1. LstatToSearch(r, u, what)
      BY <1>13 DEF LstatRead
  <2>2. \A p \in WantedOf(q, kept) : IsPrefix(q.path, p) /\ p \in DOMAIN kept
                                     /\ kept[p] # Dir /\ tree[p] # Dir
      BY <1>9, <1>13 DEF WantedOf
  <2>3. CASE what = Dir
    <3> DEFINE t == [u EXCEPT !.pc = "scan", !.queue = <<u.at>>]
    <3>1. reader' = [reader EXCEPT ![r] = t]
        BY <2>1, <2>3 DEF LstatToSearch, Becomes
    <3>2. <<u.at>> \in Seq(Paths) /\ <<u.at>> = <<q.path>>
        BY <1>3, <1>4
    <3>3. /\ t \in ReaderStates /\ t.pc = "scan" /\ t.req = q /\ t.queue = <<q.path>>
          /\ t.got = <<>> /\ t.found = {} /\ ~t.truncated
        BY <1>4, <3>2 DEF ReaderStates, ReadPcs
    <3>4. ASSUME NEW p \in WantedOf(q, kept) PROVE IsStrictPrefix(q.path, p)
        BY <1>6, <1>13, <2>2, <2>3 DEF IsStrictPrefix
    <3> HIDE DEF t, u
    <3> QED BY <1>8, <1>13, <3>1, <3>3, <3>4
  <2>4. CASE what # Dir
    <3> DEFINE t == [u EXCEPT !.pc = "file"]
    <3>1. reader' = [reader EXCEPT ![r] = t]
        BY <2>1, <2>4 DEF LstatToSearch, Becomes
    <3>3. /\ t \in ReaderStates /\ t.pc = "file" /\ t.req = q /\ t.at = q.path
          /\ t.got = <<>> /\ t.found = {} /\ ~t.truncated
        BY <1>4 DEF ReaderStates, ReadPcs
    <3> HIDE DEF t, u
    <3>4. Agrees(t, kept)
        BY <1>13, <3>3 DEF Agrees
    <3>5. ASSUME NEW p \in WantedOf(q, kept) PROVE AtHand(t, p)
      <4>1. p = q.path
        <5> SUFFICES ASSUME p # q.path PROVE FALSE
            OBVIOUS
        <5>1. tree[q.path] = Dir
            BY <1>3, <1>5, <1>9, <2>2, RootIsDirectory, WorkspaceFacts DEF ToolsInv
        <5> QED BY <5>1, <1>6, <1>13, <2>4
      <4> QED BY <3>3, <4>1 DEF AtHand
    <3>6. Complete(t, kept)
        BY <3>3, <3>5 DEF Complete
    <3>7. Good(t, kept)
        BY <1>2, <3>3, <3>4, <3>6 DEF Good
    <3> QED BY <3>1, <3>7
  <2> QED BY <2>3, <2>4
<1>14. CASE what # Absent /\ q.kind = "stat"
  <2>1. reader' = [reader EXCEPT ![r] = Finished(u, "ok")]
      BY <1>14 DEF LstatRead, Finish, Finished, Becomes
  <2>2. Answers(u, kept)
      BY <1>4, <1>14 DEF Answers
  <2> HIDE DEF u
  <2>3. Good(Finished(u, "ok"), kept)
      BY <1>2, <1>4, <2>2, FinishGood
  <2> QED BY <2>1, <2>3
<1> QED BY <1>3, <1>10, <1>11, <1>12, <1>13, <1>14

\* The entry of a directory that leads to what is below it.
LEMMA ChildFacts ==
    ASSUME ToolsInv, NEW d \in DOMAIN tree, NEW p \in DOMAIN tree, IsStrictPrefix(d, p)
    PROVE  \E e \in Children(tree, d) : e = p \/ (tree[e] = Dir /\ IsStrictPrefix(e, p))
<1>0. d \in Seq(AnyName) /\ p \in Seq(AnyName) /\ Workspace(tree)
    BY RootIsDirectory, WorkspaceFacts DEF ToolsInv
<1>1. IsPrefix(d, p) /\ d # p
    BY DEF IsStrictPrefix
<1>2. Len(d) < Len(p) /\ Len(d) \in Nat /\ Len(p) \in Nat
    BY <1>0, <1>1, PrefixOrder, LenProperties
<1> DEFINE n == Len(d) + 1
           e == SubSeq(p, 1, n)
<1>3. n \in 0 .. Len(p)
    BY <1>2
<1>4. e \in Seq(AnyName) /\ Len(e) = n /\ IsPrefix(e, p)
    BY <1>0, <1>3, BeginningIsPrefix
<1> HIDE DEF e
<1>5. IsPrefix(d, e) /\ d # e
    BY <1>0, <1>1, <1>2, <1>4, PrefixOrder
<1>6. e \in DOMAIN tree /\ (e = p \/ tree[e] = Dir)
    BY <1>0, <1>4, WorkspaceFacts
<1>7. e \in Children(tree, d)
    BY <1>4, <1>5, <1>6 DEF Children, Below, IsStrictPrefix
<1> QED BY <1>4, <1>6, <1>7 DEF IsStrictPrefix

LEMMA ScanGood ==
    ASSUME ReadersInv, NEW r \in Readers, NEW s, s = reader[r], NEW kept, kept = stayed[r],
           Scan(r)
    PROVE  \E t : reader' = [reader EXCEPT ![r] = t] /\ Good(t, kept)
<1>1. s.pc = "scan" /\ Reads(s)
    BY DEF Scan, Reads
<1>2. /\ s \in ReaderStates /\ Agrees(s, kept) /\ s.got = <<>> /\ ~s.truncated
      /\ KeptTyped(kept) /\ KeptWhole(kept) /\ KeptThere(kept) /\ s.req \in ReadRequests
    BY <1>1, ReaderFacts
<1>3. /\ s.queue # <<>> /\ s.found = {} /\ s.req.kind \in {"list", "search"}
    BY <1>1, <1>2 DEF Agrees
<1>4. s.queue \in Seq(Paths) /\ Tail(s.queue) \in Seq(Paths) /\ Head(s.queue) \in Paths
  <2>1. s.queue \in Seq(Paths)
      BY <1>2 DEF ReaderStates
  <2> QED BY <1>3, <2>1, HeadTailProperties
<1>5. \A p \in WantedOf(s.req, kept) :
         /\ p \in s.entries \/ QueuedFor(s, p)
         /\ p \in DOMAIN kept /\ p \in DOMAIN tree /\ tree[p] = kept[p]
  <2>1. Complete(s, kept)
      BY <1>1, ReaderFacts
  <2>2. \A p \in WantedOf(s.req, kept) : p \in s.entries \/ QueuedFor(s, p)
      BY <1>1, <1>3, <2>1 DEF Complete, Walks, FoundFor, AtHand
  <2>3. \A p \in WantedOf(s.req, kept) : p \in DOMAIN kept
      BY DEF WantedOf
  <2> QED BY <1>2, <2>2, <2>3, ThereFacts DEF ReadersInv
<1>6. ToolsInv /\ Workspace(tree)
    BY RootIsDirectory DEF ReadersInv, ToolsInv
<1> DEFINE d == Head(s.queue)
<1>7. CASE s.aborted
  <2>1. reader' = [reader EXCEPT ![r] = Finished(s, "error")]
      BY <1>7 DEF Scan, Finish, Finished, Becomes
  <2>2. Good(Finished(s, "error"), kept)
      BY <1>2, FinishGood
  <2> QED BY <2>1, <2>2
<1>8. CASE ~s.aborted /\ At(tree, d) # Dir
  <2>1. ReadFails(r)
      BY <1>8 DEF Scan
  <2>2. \A p \in WantedOf(s.req, kept) : ~IsStrictPrefix(d, p)
    <3> SUFFICES ASSUME NEW p \in DOMAIN tree, IsPrefix(d, p), d # p PROVE FALSE
        BY <1>5 DEF IsStrictPrefix
    <3>1. d \in DOMAIN tree /\ tree[d] = Dir
        BY <1>4, <1>6, WorkspaceFacts, PathFacts
    <3> QED BY <1>8, <3>1 DEF At
  <2>3. s.pc = "scan" => \A p \in WantedOf(s.req, kept) :
                 \/ p \in s.entries
                 \/ QueuedFor(s, p) /\ ~IsStrictPrefix(Head(s.queue), p)
      BY <1>5, <2>2
  <2> QED BY <1>1, <1>2, <2>1, <2>3, ReadFailsGood
<1>9. CASE ~s.aborted /\ At(tree, d) = Dir
  <2> DEFINE found == {[path |-> p, isDirectory |-> tree[p] = Dir] : p \in Children(tree, d)}
             t == [s EXCEPT !.at = d, !.queue = Tail(s.queue), !.found = found]
  <2>1. reader' = [reader EXCEPT ![r] = Proceeded(t)]
      BY <1>9 DEF Scan, Proceed, Proceeded, Finish, Finished, Becomes
  <2>2. Children(tree, d) \subseteq Paths /\ Children(tree, d) \subseteq DOMAIN tree
      BY <1>6, WorkspaceFacts DEF Children, Below
  <2>3. found \in SUBSET [path : Paths, isDirectory : BOOLEAN]
    <3> SUFFICES ASSUME NEW p \in Children(tree, d)
                 PROVE  [path |-> p, isDirectory |-> tree[p] = Dir]
                           \in [path : Paths, isDirectory : BOOLEAN]
        OBVIOUS
    <3>1. p \in Paths /\ (tree[p] = Dir) \in BOOLEAN
        BY <2>2
    <3> QED BY <3>1
  <2>4. /\ t \in ReaderStates /\ t.req = s.req /\ t.got = <<>> /\ t.entries = s.entries
        /\ t.queue = Tail(s.queue) /\ t.found = found
      BY <1>2, <1>4, <2>3 DEF ReaderStates
  <2>5. \A e \in found : e.path \in DOMAIN kept => e.isDirectory = (kept[e.path] = Dir)
      BY <1>2, <1>6, ThereFacts
  <2>6. ASSUME NEW p \in DOMAIN tree, IsStrictPrefix(d, p)
        PROVE  \E e \in found : e.path = p \/ (e.isDirectory /\ IsStrictPrefix(e.path, p))
    <3>1. d \in DOMAIN tree
        BY <1>9, FileToolsAssumption DEF At
    <3>2. PICK e \in Children(tree, d) : e = p \/ (tree[e] = Dir /\ IsStrictPrefix(e, p))
        BY <1>6, <2>6, <3>1, ChildFacts
    <3> DEFINE x == [path |-> e, isDirectory |-> tree[e] = Dir]
    <3>3. x \in found /\ x.path = e /\ x.isDirectory = (tree[e] = Dir)
        OBVIOUS
    <3> HIDE DEF x, found
    <3> QED BY <3>2, <3>3
  <2> HIDE DEF t, found
  <2>7. ASSUME NEW p \in WantedOf(t.req, kept)
        PROVE  p \in t.entries \/ QueuedFor(t, p) \/ FoundFor(t, p)
    <3>1. p \in s.entries \/ QueuedFor(s, p)
        BY <1>5, <2>4, <2>7
    <3>2. p \in DOMAIN tree
        BY <1>5, <2>4, <2>7
    <3>3. IsStrictPrefix(d, p) => FoundFor(t, p)
        BY <2>4, <2>6, <3>2 DEF FoundFor
    <3>4. QueuedFor(s, p) => IsStrictPrefix(d, p) \/ QueuedFor(t, p)
        BY <1>2, <1>3, <2>4, QueueFacts
    <3> QED BY <2>4, <3>1, <3>3, <3>4
  <2>8. Good(Proceeded(t), kept)
      BY <1>2, <1>3, <2>4, <2>5, <2>7, ProceedGood
  <2> QED BY <2>1, <2>8
<1> QED BY <1>7, <1>8, <1>9

LEMMA AppendFacts ==
    ASSUME NEW s \in ReaderStates, NEW x \in Paths, NEW t, t.queue = Append(s.queue, x), NEW p
    PROVE  QueuedFor(s, p) \/ IsStrictPrefix(x, p) => QueuedFor(t, p)
<1> DEFINE queue == s.queue
           more == Append(queue, x)
<1>1. queue \in Seq(Paths) /\ Len(queue) \in Nat
  <2>1. queue \in Seq(Paths)
      BY DEF ReaderStates
  <2> QED BY <2>1, LenProperties
<1>2. t.queue = more
    OBVIOUS
<1> HIDE DEF queue
<1>3. /\ Len(more) = Len(queue) + 1 /\ more \in Seq(Paths)
      /\ \A i \in 1 .. Len(queue) : more[i] = queue[i]
      /\ more[Len(queue) + 1] = x
    BY <1>1, AppendProperties
<1> HIDE DEF more
<1>4. DOMAIN more = 1 .. Len(queue) + 1 /\ DOMAIN queue = 1 .. Len(queue)
    BY <1>1, <1>3, LenProperties
<1>5. ASSUME IsStrictPrefix(x, p) PROVE QueuedFor(t, p)
  <2>1. Len(queue) + 1 \in DOMAIN more
      BY <1>1, <1>4
  <2> QED BY <1>2, <1>3, <1>5, <2>1 DEF QueuedFor
<1>6. ASSUME QueuedFor(s, p) PROVE QueuedFor(t, p)
  <2>1. PICK n \in DOMAIN queue : IsStrictPrefix(queue[n], p)
      BY <1>6 DEF QueuedFor, queue
  <2>2. n \in DOMAIN more /\ more[n] = queue[n]
      BY <1>1, <1>3, <1>4, <2>1
  <2> QED BY <1>2, <2>1, <2>2 DEF QueuedFor
<1> QED BY <1>5, <1>6

LEMMA EntryGood ==
    ASSUME ReadersInv, NEW r \in Readers, NEW s, s = reader[r], NEW kept, kept = stayed[r],
           Entry(r)
    PROVE  \E t : reader' = [reader EXCEPT ![r] = t] /\ Good(t, kept)
<1>1. s.pc = "entries" /\ Reads(s)
    BY DEF Entry, Reads
<1>2. /\ s \in ReaderStates /\ Agrees(s, kept) /\ s.got = <<>> /\ ~s.truncated
      /\ KeptTyped(kept) /\ KeptWhole(kept) /\ KeptThere(kept) /\ s.req \in ReadRequests
    BY <1>1, ReaderFacts
<1>3. /\ s.req.kind \in {"list", "search"}
      /\ \A x \in s.found : x.path \in DOMAIN kept => x.isDirectory = (kept[x.path] = Dir)
    BY <1>1, <1>2 DEF Agrees
<1>4. PICK e \in s.found :
        LET u == [s EXCEPT !.found = @ \ {e}] IN
        IF u.aborted THEN Finish(r, u, "error")
        ELSE IF u.req.kind = "list" THEN ListEntry(r, u, e)
        ELSE SearchEntry(r, u, e)
    BY DEF Entry
<1> DEFINE u == [s EXCEPT !.found = @ \ {e}]
           q == s.req
<1>5. /\ e \in [path : Paths, isDirectory : BOOLEAN]
      /\ e.path \in Paths /\ e.isDirectory \in BOOLEAN
  <2>1. s.found \in SUBSET [path : Paths, isDirectory : BOOLEAN]
      BY <1>2 DEF ReaderStates
  <2> QED BY <2>1
<1>6. /\ u \in ReaderStates /\ u.req = q /\ u.got = <<>> /\ u.found = s.found \ {e}
      /\ u.pc = "entries" /\ ~u.truncated /\ u.aborted = s.aborted
      /\ u.entries = s.entries /\ u.queue = s.queue
    BY <1>1, <1>2 DEF ReaderStates
<1>7. ASSUME NEW p \in WantedOf(q, kept)
      PROVE  /\ p \in DOMAIN kept
             /\ \/ p \in u.entries \/ QueuedFor(u, p) \/ FoundFor(u, p)
                \/ e.path = p \/ (e.isDirectory /\ IsStrictPrefix(e.path, p))
  <2>1. p \in DOMAIN kept
      BY <1>7 DEF WantedOf
  <2>2. Complete(s, kept)
      BY <1>1, ReaderFacts
  <2>3. p \in s.entries \/ QueuedFor(s, p) \/ FoundFor(s, p)
      BY <1>1, <1>3, <1>7, <2>2 DEF Complete, Walks, AtHand
  <2> HIDE DEF u
  <2>4. QueuedFor(s, p) => QueuedFor(u, p)
      BY <1>6 DEF QueuedFor
  <2>5. FoundFor(s, p) => \/ FoundFor(u, p) \/ e.path = p
                          \/ (e.isDirectory /\ IsStrictPrefix(e.path, p))
      BY <1>6 DEF FoundFor
  <2> QED BY <1>6, <2>1, <2>3, <2>4, <2>5
<1>8. CASE s.aborted
  <2>1. reader' = [reader EXCEPT ![r] = Finished(u, "error")]
      BY <1>4, <1>6, <1>8 DEF Finish, Finished, Becomes
  <2> HIDE DEF u
  <2>2. Good(Finished(u, "error"), kept)
      BY <1>2, <1>6, FinishGood
  <2> QED BY <2>1, <2>2
<1>9. CASE ~s.aborted /\ q.kind = "list"
  <2> DEFINE listed == u.entries \cup {e.path}
             next == [u EXCEPT !.entries = listed,
                               !.truncated = Cardinality(listed) >= q.limit]
             deep == e.isDirectory /\ Len(e.path) - Len(q.path) < q.depth
             t == IF deep THEN Queued(next, e) ELSE next
  <2>1. ListEntry(r, u, e)
      BY <1>4, <1>6, <1>9
  <2>2. reader' = [reader EXCEPT ![r] = Proceeded(t)]
    <3> HIDE DEF u, q
    <3>1. Proceed(r, t)
        BY <1>6, <2>1 DEF ListEntry
    <3> HIDE DEF t
    <3> QED BY <3>1 DEF Proceed, Proceeded, Finish, Finished, Becomes
  <2>3. listed \in SUBSET Paths
      BY <1>5, <1>6 DEF ReaderStates
  <2> HIDE DEF u, listed
  <2>4. /\ next \in ReaderStates /\ next.req = q /\ next.got = <<>> /\ next.found = u.found
        /\ next.entries = listed /\ next.queue = u.queue
    <3>1. (Cardinality(listed) >= q.limit) \in BOOLEAN
        OBVIOUS
    <3>2. next \in ReaderStates
        BY <1>6, <2>3, <3>1 DEF ReaderStates
    <3> QED BY <1>6, <3>2 DEF ReaderStates
  <2> HIDE DEF next
  <2>5. next.queue \in Seq(Paths) /\ Append(next.queue, e.path) \in Seq(Paths)
    <3>1. next.queue \in Seq(Paths)
        BY <2>4 DEF ReaderStates
    <3> QED BY <1>5, <3>1, AppendProperties
  <2>6. /\ t \in ReaderStates /\ t.req = q /\ t.got = <<>> /\ t.found = u.found
        /\ t.entries = listed
        /\ t.queue = IF deep THEN Append(next.queue, e.path) ELSE next.queue
      BY <2>4, <2>5 DEF ReaderStates, Queued
  <2> HIDE DEF t
  <2>7. ASSUME NEW p \in WantedOf(q, kept)
        PROVE  p \in t.entries \/ QueuedFor(t, p) \/ FoundFor(t, p)
    <3>1. p \in u.entries \/ e.path = p => p \in t.entries
        BY <2>6 DEF listed
    <3>2. FoundFor(u, p) => FoundFor(t, p)
        BY <2>6 DEF FoundFor
    <3>3. QueuedFor(u, p) => QueuedFor(next, p)
        BY <2>4 DEF QueuedFor
    <3>4. ~deep => (QueuedFor(next, p) => QueuedFor(t, p))
        BY <2>6 DEF QueuedFor
    <3>5. deep => (QueuedFor(next, p) \/ IsStrictPrefix(e.path, p) => QueuedFor(t, p))
        BY <1>5, <2>4, <2>6, AppendFacts
    <3>6. ASSUME e.isDirectory, IsStrictPrefix(e.path, p) PROVE deep
      <4>1. Len(p) - Len(q.path) \in 1 .. q.depth /\ p \in DOMAIN kept
          BY <1>9, <2>7 DEF WantedOf
      <4>2. p \in Seq(AnyName) /\ e.path \in Seq(AnyName) /\ q.path \in Seq(AnyName)
            /\ q.depth \in Nat
          BY <1>2, <1>5, <1>9, <4>1, PathFacts, ReadRequestFacts DEF KeptTyped
      <4>3. Len(e.path) < Len(p)
          BY <3>6, <4>2, PrefixOrder DEF IsStrictPrefix
      <4>4. Len(e.path) \in Nat /\ Len(p) \in Nat /\ Len(q.path) \in Nat
          BY <4>2, LenProperties
      <4> HIDE DEF q
      <4>5. Len(p) - Len(q.path) <= q.depth
          BY <4>1, <4>2, <4>4
      <4>6. Len(e.path) - Len(q.path) < q.depth
        <5>1. \A a, b, c, d \in Nat : a < b /\ b - c <= d => a - c < d
            OBVIOUS
        <5>2. q.depth \in Nat
            BY <4>2
        <5> QED BY <4>3, <4>4, <4>5, <5>1, <5>2
      <4> QED BY <3>6, <4>6
    <3> QED BY <1>7, <2>7, <3>1, <3>2, <3>3, <3>4, <3>5, <3>6
  <2>8. Good(Proceeded(t), kept)
      BY <1>2, <1>3, <1>6, <2>6, <2>7, ProceedGood
  <2> QED BY <2>2, <2>8
<1>10. CASE ~s.aborted /\ q.kind = "search"
  <2>1. SearchEntry(r, u, e)
      BY <1>4, <1>6, <1>10
  <2>2. \A p \in WantedOf(q, kept) : kept[p] # Dir
      BY <1>10 DEF WantedOf
  <2>3. CASE e.isDirectory
    <3> DEFINE t == Queued(u, e)
    <3>1. reader' = [reader EXCEPT ![r] = Proceeded(t)]
        BY <2>1, <2>3 DEF SearchEntry, Proceed, Proceeded, Finish, Finished, Becomes
    <3>2. u.queue \in Seq(Paths) /\ Append(u.queue, e.path) \in Seq(Paths)
      <4>1. u.queue \in Seq(Paths)
          BY <1>6 DEF ReaderStates
      <4> QED BY <1>5, <4>1, AppendProperties
    <3> HIDE DEF u
    <3>3. /\ t \in ReaderStates /\ t.req = q /\ t.got = <<>> /\ t.found = u.found
          /\ t.entries = u.entries /\ t.queue = Append(u.queue, e.path)
        BY <1>6, <3>2 DEF ReaderStates, Queued
    <3> HIDE DEF t
    <3>4. ASSUME NEW p \in WantedOf(q, kept)
          PROVE  p \in t.entries \/ QueuedFor(t, p) \/ FoundFor(t, p)
      <4>1. FoundFor(u, p) => FoundFor(t, p)
          BY <3>3 DEF FoundFor
      <4>2. QueuedFor(u, p) \/ IsStrictPrefix(e.path, p) => QueuedFor(t, p)
          BY <1>5, <1>6, <3>3, AppendFacts
      <4>3. e.path # p
          BY <1>3, <1>7, <2>2, <2>3, <3>4
      <4> QED BY <1>7, <3>3, <3>4, <4>1, <4>2, <4>3
    <3>5. Good(Proceeded(t), kept)
        BY <1>2, <1>3, <1>6, <3>3, <3>4, ProceedGood
    <3> QED BY <3>1, <3>5
  <2>4. CASE ~e.isDirectory
    <3> DEFINE t == [u EXCEPT !.pc = "file", !.at = e.path]
    <3>1. reader' = [reader EXCEPT ![r] = t]
        BY <2>1, <2>4 DEF SearchEntry, Becomes
    <3> HIDE DEF u
    <3>2. /\ t \in ReaderStates /\ t.req = q /\ t.got = <<>> /\ t.found = u.found
          /\ t.entries = u.entries /\ t.queue = u.queue /\ t.pc = "file"
          /\ t.at = e.path /\ ~t.truncated
        BY <1>5, <1>6 DEF ReaderStates, ReadPcs
    <3> HIDE DEF t
    <3>3. Agrees(t, kept)
        BY <1>3, <1>6, <1>10, <3>2 DEF Agrees
    <3>4. ASSUME NEW p \in WantedOf(q, kept)
          PROVE  p \in t.entries \/ QueuedFor(t, p) \/ FoundFor(t, p) \/ AtHand(t, p)
      <4>1. FoundFor(u, p) => FoundFor(t, p)
          BY <3>2 DEF FoundFor
      <4>2. QueuedFor(u, p) => QueuedFor(t, p)
          BY <3>2 DEF QueuedFor
      <4>3. e.path = p => AtHand(t, p)
          BY <3>2 DEF AtHand
      <4> QED BY <1>7, <2>4, <3>2, <3>4, <4>1, <4>2, <4>3
    <3>5. Complete(t, kept)
        BY <3>2, <3>4 DEF Complete
    <3>6. Good(t, kept)
        BY <1>2, <3>2, <3>3, <3>5 DEF Good
    <3> QED BY <3>1, <3>6
  <2> QED BY <2>3, <2>4
<1> QED BY <1>3, <1>8, <1>9, <1>10
-----------------------------------------------------------------------------
LEMMA SearchFileGood ==
    ASSUME ReadersInv, NEW r \in Readers, NEW s, s = reader[r], NEW kept, kept = stayed[r],
           SearchFile(r)
    PROVE  \E t : reader' = [reader EXCEPT ![r] = t] /\ Good(t, kept)
<1>1. s.pc = "file" /\ Reads(s)
    BY DEF SearchFile, Reads
<1>2. /\ s \in ReaderStates /\ Agrees(s, kept) /\ s.got = <<>> /\ ~s.truncated
      /\ KeptTyped(kept) /\ KeptWhole(kept) /\ KeptThere(kept) /\ s.req \in ReadRequests
      /\ Complete(s, kept) /\ ToolsInv
    BY <1>1, ReaderFacts DEF ReadersInv
<1> DEFINE q == s.req
           u == [s EXCEPT !.files = @ + 1]
           what == At(tree, s.at)
           size == Len(data[what])
<1>3. /\ q.kind = "search"
      /\ \A x \in s.found : x.path \in DOMAIN kept => x.isDirectory = (kept[x.path] = Dir)
    BY <1>1, <1>2 DEF Agrees
<1>4. /\ u \in ReaderStates /\ u.req = q /\ u.got = <<>> /\ u.found = s.found /\ u.at = s.at
      /\ u.queue = s.queue /\ u.entries = s.entries /\ ~u.truncated /\ u.bytes = s.bytes
      /\ u.aborted = s.aborted /\ u.pc = "file" /\ u.bytes \in Nat
  <2>0. s.files + 1 \in Nat
      BY <1>2 DEF ReaderStates
  <2>1. u \in ReaderStates
      BY <2>0, <1>2 DEF ReaderStates
  <2>2. /\ u.req = q /\ u.got = <<>> /\ u.found = s.found /\ u.at = s.at
        /\ u.queue = s.queue /\ u.entries = s.entries /\ ~u.truncated /\ u.bytes = s.bytes
        /\ u.aborted = s.aborted /\ u.pc = "file"
      BY <1>1, <1>2 DEF ReaderStates
  <2>3. u.bytes \in Nat
      BY <2>1 DEF ReaderStates
  <2> QED BY <2>1, <2>2, <2>3
<1>5. ASSUME NEW p \in WantedOf(q, kept)
      PROVE  /\ p \in u.entries \/ QueuedFor(u, p) \/ FoundFor(u, p) \/ s.at = p
             /\ p \in DOMAIN kept /\ kept[p] # Dir /\ Len(want[kept[p]]) <= MaxFileSize
  <2>1. p \in s.entries \/ QueuedFor(s, p) \/ FoundFor(s, p) \/ AtHand(s, p)
      BY <1>1, <1>2, <1>3, <1>5 DEF Complete, Walks
  <2>2. p \in DOMAIN kept /\ kept[p] # Dir /\ Len(want[kept[p]]) <= MaxFileSize
      BY <1>3, <1>5 DEF WantedOf
  <2> HIDE DEF u
  <2> QED BY <1>4, <2>1, <2>2 DEF QueuedFor, FoundFor, AtHand
<1>6. ASSUME s.at \in DOMAIN kept, kept[s.at] # Dir
      PROVE  /\ what = kept[s.at] /\ what \notin {Dir, Absent}
             /\ size = Len(want[kept[s.at]])
  <2>1. tree[s.at] = kept[s.at] /\ s.at \in DOMAIN tree /\ IsFile(tree, s.at)
        /\ data[kept[s.at]] = want[kept[s.at]]
      BY <1>2, <1>6, ThereFacts
  <2> QED BY <2>1 DEF At, IsFile
<1>7. CASE s.aborted
  <2>1. reader' = [reader EXCEPT ![r] = Finished(u, "error")]
      BY <1>4, <1>7 DEF SearchFile, Finish, Finished, Becomes
  <2> HIDE DEF u
  <2>2. Good(Finished(u, "error"), kept)
      BY <1>2, <1>4, FinishGood
  <2> QED BY <2>1, <2>2
<1>8. ASSUME Proceed(r, [u EXCEPT !.truncated = TRUE])
      PROVE  \E t : reader' = [reader EXCEPT ![r] = t] /\ Good(t, kept)
  <2> DEFINE t == [u EXCEPT !.truncated = TRUE]
  <2> HIDE DEF u
  <2>1. t \in ReaderStates /\ t.truncated /\ t.got = <<>>
      BY <1>4 DEF ReaderStates
  <2>2. Proceed(r, t)
      BY <1>8
  <2> HIDE DEF t
  <2>3. reader' = [reader EXCEPT ![r] = Finished(t, "ok")]
      BY <2>1, <2>2 DEF Proceed, Finish, Finished, Becomes
  <2>4. Good(Finished(t, "ok"), kept)
      BY <1>2, <2>1, FinishGood
  <2> QED BY <2>3, <2>4
<1>9. CASE ~s.aborted /\ u.files > MaxFiles
  <2>1. Proceed(r, [u EXCEPT !.truncated = TRUE])
      BY <1>4, <1>9 DEF SearchFile
  <2> QED BY <1>8, <2>1
<1>10. CASE /\ ~s.aborted /\ ~(u.files > MaxFiles)
            /\ what \in {Dir, Absent} \/ size > MaxFileSize
  <2>1. Proceed(r, u)
      BY <1>4, <1>10 DEF SearchFile
  <2>2. ASSUME NEW p \in WantedOf(q, kept), s.at = p PROVE FALSE
    <3>1. p \in DOMAIN kept /\ kept[p] # Dir /\ Len(want[kept[p]]) <= MaxFileSize
        BY <1>5, <2>2
    <3>2. what \notin {Dir, Absent} /\ size = Len(want[kept[p]])
        BY <1>6, <2>2, <3>1
    <3>3. Len(want[kept[p]]) \in Nat
      <4>1. want[kept[p]] \in Seq(AnyFile)
          BY <1>2, <3>1, ThereFacts
      <4> QED BY <4>1, LenProperties
    <3> QED BY <1>10, <3>1, <3>2, <3>3, FileReadsAssumption
  <2> HIDE DEF u
  <2>3. reader' = [reader EXCEPT ![r] = Proceeded(u)]
      BY <2>1 DEF Proceed, Proceeded, Finish, Finished, Becomes
  <2>4. \A p \in WantedOf(u.req, kept) : p \in u.entries \/ QueuedFor(u, p) \/ FoundFor(u, p)
      BY <1>4, <1>5, <2>2
  <2>5. Good(Proceeded(u), kept)
      BY <1>2, <1>3, <1>4, <2>4, ProceedGood
  <2> QED BY <2>3, <2>5
<1>11. CASE /\ ~s.aborted /\ ~(u.files > MaxFiles)
            /\ ~(what \in {Dir, Absent} \/ size > MaxFileSize)
  <2>1. CASE u.bytes + size > MaxBytes
    <3>1. Proceed(r, [u EXCEPT !.truncated = TRUE])
        BY <1>4, <1>11, <2>1 DEF SearchFile
    <3> QED BY <1>8, <3>1
  <2>2. CASE ~(u.bytes + size > MaxBytes)
    <3> DEFINE t == [u EXCEPT !.pc = "open", !.size = size, !.bytes = @ + size]
    <3>1. reader' = [reader EXCEPT ![r] = t]
        BY <1>4, <1>11, <2>2 DEF SearchFile, Becomes
    <3>2. size \in Nat
      <4>1. s.at \in DOMAIN tree /\ tree[s.at] = what /\ what # Dir
          BY <1>11 DEF At
      <4>2. data[what] \in Seq(AnyFile)
          BY <1>2, <4>1, ThereFacts
      <4> QED BY <4>2, LenProperties
    <3> HIDE DEF u, size
    <3>3. /\ t \in ReaderStates /\ t.req = q /\ t.got = <<>> /\ t.found = u.found
          /\ t.at = s.at /\ t.queue = u.queue /\ t.entries = u.entries /\ ~t.truncated
          /\ t.pc = "open" /\ t.size = size
      <4>1. u.bytes + size \in Nat
          BY <1>4, <3>2
      <4> DEFINE sum == u.bytes + size
      <4>2. t = [u EXCEPT !.pc = "open", !.size = size, !.bytes = sum]
          OBVIOUS
      <4> HIDE DEF sum
      <4>3. sum \in Nat
          BY <4>1 DEF sum
      <4> HIDE DEF t
      <4>4. t \in ReaderStates
          BY <1>4, <3>2, <4>2, <4>3 DEF ReaderStates, ReadPcs
      <4> QED BY <1>4, <4>2, <4>4 DEF ReaderStates
    <3> HIDE DEF t
    <3>4. t.at \in DOMAIN kept /\ kept[t.at] # Dir => t.size = Len(want[kept[t.at]])
        BY <1>6, <3>3
    <3>5. Agrees(t, kept)
        BY <1>3, <1>4, <3>3, <3>4 DEF Agrees
    <3>6. ASSUME NEW p \in WantedOf(q, kept)
          PROVE  p \in t.entries \/ QueuedFor(t, p) \/ FoundFor(t, p) \/ AtHand(t, p)
      <4>1. QueuedFor(u, p) => QueuedFor(t, p)
          BY <3>3 DEF QueuedFor
      <4>2. FoundFor(u, p) => FoundFor(t, p)
          BY <3>3 DEF FoundFor
      <4>3. s.at = p => AtHand(t, p)
          BY <3>3 DEF AtHand
      <4> QED BY <1>5, <3>3, <3>6, <4>1, <4>2, <4>3
    <3>7. Complete(t, kept)
        BY <3>3, <3>6 DEF Complete
    <3>8. Good(t, kept)
        BY <1>2, <3>3, <3>5, <3>7 DEF Good
    <3> QED BY <3>1, <3>8
  <2> QED BY <2>1, <2>2
<1> QED BY <1>7, <1>9, <1>10, <1>11

LEMMA OpenFileGood ==
    ASSUME ReadersInv, NEW r \in Readers, NEW s, s = reader[r], NEW kept, kept = stayed[r],
           OpenFile(r)
    PROVE  \E t : reader' = [reader EXCEPT ![r] = t] /\ Good(t, kept)
<1>1. s.pc = "open" /\ Reads(s)
    BY DEF OpenFile, Reads
<1>2. /\ s \in ReaderStates /\ Agrees(s, kept) /\ s.got = <<>> /\ ~s.truncated
      /\ KeptTyped(kept) /\ KeptWhole(kept) /\ KeptThere(kept) /\ s.req \in ReadRequests
      /\ Complete(s, kept) /\ ToolsInv
    BY <1>1, ReaderFacts DEF ReadersInv
<1>3. \A p \in DOMAIN kept : tree[p] = kept[p] /\ (kept[p] # Dir => IsFile(tree, p))
    BY <1>2, ThereFacts
<1>4. CASE ~IsFile(tree, s.at)
  <2>1. ReadFails(r)
      BY <1>4 DEF OpenFile
  <2>2. ASSUME s.req.kind = "search", NEW p \in WantedOf(s.req, kept)
        PROVE  p \in s.entries \/ QueuedFor(s, p) \/ FoundFor(s, p)
    <3>1. p \in s.entries \/ QueuedFor(s, p) \/ FoundFor(s, p) \/ AtHand(s, p)
        BY <1>1, <1>2, <2>2 DEF Complete, Walks
    <3>2. p \in DOMAIN kept /\ kept[p] # Dir
        BY <2>2 DEF WantedOf
    <3> QED BY <1>3, <1>4, <3>1, <3>2 DEF AtHand
  <2> QED BY <1>1, <1>2, <2>1, <2>2, ReadFailsGood
<1>5. CASE IsFile(tree, s.at)
  <2> DEFINE t == [s EXCEPT !.pc = "read", !.file = At(tree, s.at)]
  <2>1. reader' = [reader EXCEPT ![r] = t]
      BY <1>5 DEF OpenFile, Becomes
  <2>2. /\ s.at \in DOMAIN tree /\ At(tree, s.at) = tree[s.at] /\ tree[s.at] # Dir
      BY <1>5 DEF IsFile, At
  <2>3. tree[s.at] \in AnyFile /\ Settled(tree[s.at])
      BY <1>2, <2>2, ThereFacts
  <2>4. /\ t \in ReaderStates /\ t.req = s.req /\ t.got = <<>> /\ t.found = s.found
        /\ t.at = s.at /\ t.queue = s.queue /\ t.entries = s.entries /\ ~t.truncated
        /\ t.pc = "read" /\ t.size = s.size /\ t.file = tree[s.at]
      BY <1>2, <2>2, <2>3 DEF ReaderStates, ReadPcs
  <2> HIDE DEF t
  <2>5. t.at \in DOMAIN kept => t.file = kept[t.at]
      BY <1>3, <2>4
  <2>6. s.at \in DOMAIN kept /\ kept[s.at] # Dir =>
             LET size == Len(want[kept[s.at]])
             IN  s.size = IF s.req.kind = "read" THEN Smaller(s.req.limit, size) ELSE size
      BY <1>1, <1>2 DEF Agrees
  <2>7. /\ s.req.kind \in {"read", "search"}
        /\ s.req.kind = "read" => s.at = s.req.path
        /\ \A x \in s.found : x.path \in DOMAIN kept => x.isDirectory = (kept[x.path] = Dir)
      BY <1>1, <1>2 DEF Agrees
  <2>8. Agrees(t, kept)
      BY <2>3, <2>4, <2>5, <2>6, <2>7 DEF Agrees
  <2>9. Complete(t, kept)
    <3>1. \A p : /\ QueuedFor(t, p) = QueuedFor(s, p) /\ FoundFor(t, p) = FoundFor(s, p)
                 /\ AtHand(s, p) => AtHand(t, p)
        BY <1>1, <2>4 DEF QueuedFor, FoundFor, AtHand
    <3> QED BY <1>1, <1>2, <2>4, <3>1 DEF Complete, Walks
  <2>10. Good(t, kept)
      BY <1>2, <2>4, <2>8, <2>9 DEF Good
  <2> QED BY <2>1, <2>10
<1> QED BY <1>4, <1>5
-----------------------------------------------------------------------------
\* A buffer without a zero is the beginning of the file.
\* The buffer has the blocks of the file, as far as there are any.
LEMMA BufferFacts ==
    ASSUME ToolsInv, NEW r \in Readers, NEW s \in ReaderStates, s = reader[r],
           s.file \in AnyFile
    PROVE  /\ Buffer(r) \in Seq(AnyFile \cup {0}) /\ Len(Buffer(r)) = s.size
           /\ \A n \in 1 .. s.size :
                 Buffer(r)[n] = IF n <= Len(data[s.file]) THEN data[s.file][n] ELSE 0
           /\ s.size <= Len(data[s.file]) => Buffer(r) = SubSeq(data[s.file], 1, s.size)
<1> DEFINE d == data[s.file]
           b == Buffer(r)
<1>1. d \in Seq(AnyFile) /\ Len(d) \in Nat /\ s.size \in Nat
  <2>1. data \in [AnyFile -> Seq(AnyFile)]
      BY DEF ToolsInv, ToolTypes, AnyFile
  <2>2. d \in Seq(AnyFile)
      BY <2>1
  <2> QED BY <2>2, LenProperties DEF ReaderStates
<1>2. b = [n \in 1 .. s.size |-> IF n <= Len(d) THEN d[n] ELSE 0]
    BY DEF Buffer
<1> HIDE DEF d, b
<1>3. \A n \in 1 .. s.size : b[n] = (IF n <= Len(d) THEN d[n] ELSE 0)
    BY <1>2
<1>4. \A n \in 1 .. Len(d) : d[n] \in AnyFile
    BY <1>1, ElementOfSeq
<1>5. b \in [1 .. s.size -> AnyFile \cup {0}]
  <2> SUFFICES ASSUME NEW n \in 1 .. s.size PROVE b[n] \in AnyFile \cup {0}
      BY <1>2
  <2>1. n <= Len(d) => n \in 1 .. Len(d)
      BY <1>1
  <2> QED BY <1>3, <1>4, <2>1
<1>6. b \in Seq(AnyFile \cup {0}) /\ Len(b) = s.size
    BY <1>1, <1>5, SeqDef, LenProperties
<1>7. ASSUME s.size <= Len(d) PROVE b = SubSeq(d, 1, s.size)
  <2>1. /\ SubSeq(d, 1, s.size) \in Seq(AnyFile) /\ Len(SubSeq(d, 1, s.size)) = s.size
        /\ \A n \in 1 .. s.size : SubSeq(d, 1, s.size)[n] = d[n]
      BY <1>1, <1>7, BeginningIsPrefix
  <2>2. SubSeq(d, 1, s.size) = [n \in 1 .. s.size |-> SubSeq(d, 1, s.size)[n]]
      BY <1>1, <2>1, LenProperties
  <2>3. \A n \in 1 .. s.size : b[n] = SubSeq(d, 1, s.size)[n]
      BY <1>1, <1>3, <1>7, <2>1
  <2> QED BY <1>2, <2>2, <2>3
<1> QED BY <1>3, <1>6, <1>7 DEF d, b

\* A buffer that passes for text begins a version of the file.
LEMMA TextBegins ==
    ASSUME ToolsInv, NEW r \in Readers, NEW s \in ReaderStates, s = reader[r],
           s.file \in AnyFile, ~IsBinaryBuffer(Buffer(r))
    PROVE  BeginsVersion(Buffer(r), want[s.file])
<1> DEFINE d == data[s.file]
           b == Buffer(r)
           all == want[s.file]
           k == IF s.size <= Len(d) THEN s.size ELSE Len(d)
<1>1. d \in Seq(AnyFile) /\ all \in Seq(AnyFile) /\ IsPrefix(d, all)
    BY DEF ToolsInv, ToolTypes, ContentsAgree, AnyFile
<1>2. Len(d) \in Nat /\ s.size \in Nat
    BY <1>1, LenProperties DEF ReaderStates
<1>3. /\ b \in Seq(AnyFile \cup {0}) /\ Len(b) = s.size
      /\ \A n \in 1 .. s.size : b[n] = (IF n <= Len(d) THEN d[n] ELSE 0)
    BY BufferFacts
<1>4. \A n \in 1 .. s.size : n <= MaxChecked => b[n] # 0
  <2>1. DOMAIN b = 1 .. s.size
      BY <1>3, LenProperties
  <2> QED BY <2>1 DEF IsBinaryBuffer
<1> HIDE DEF d, b, all
<1>5. k \in 0 .. s.size /\ k <= Len(d)
    BY <1>2
<1>6. \A n \in k + 1 .. s.size : b[n] = 0 /\ n > MaxChecked
  <2> SUFFICES ASSUME NEW n \in k + 1 .. s.size PROVE b[n] = 0 /\ n > MaxChecked
      OBVIOUS
  <2>1. n \in 1 .. s.size /\ ~(n <= Len(d))
      BY <1>2
  <2>2. b[n] = 0
      BY <1>3, <2>1
  <2>3. ~(n <= MaxChecked)
      BY <1>4, <2>1, <2>2
  <2> QED BY <1>2, <2>1, <2>2, <2>3, FileReadsAssumption
<1>7. IsPrefix(SubSeq(b, 1, k), all)
  <2>1. \A n \in 1 .. k : b[n] = d[n]
      BY <1>2, <1>3, <1>5
  <2> HIDE DEF k
  <2>2. SubSeq(b, 1, k) = SubSeq(d, 1, k)
    <3>1. SubSeq(b, 1, k) = [n \in 1 .. k |-> b[n]]
        BY <1>2, <1>3, <1>5
    <3>2. SubSeq(d, 1, k) = [n \in 1 .. k |-> d[n]]
        BY <1>1, <1>2, <1>5
    <3> QED BY <2>1, <3>1, <3>2
  <2>3. SubSeq(d, 1, k) \in Seq(AnyFile) /\ IsPrefix(SubSeq(d, 1, k), d)
      BY <1>1, <1>2, <1>5, BeginningIsPrefix
  <2> QED BY <1>1, <2>2, <2>3, PrefixOrder
<1> QED BY <1>3, <1>5, <1>6, <1>7 DEF BeginsVersion, b, all

LEMMA ReadFileGood ==
    ASSUME ReadersInv, NEW r \in Readers, NEW s, s = reader[r], NEW kept, kept = stayed[r],
           ReadFile(r)
    PROVE  \E t : reader' = [reader EXCEPT ![r] = t] /\ Good(t, kept)
<1>1. s.pc = "read" /\ Reads(s)
    BY DEF ReadFile, Reads
<1>2. /\ s \in ReaderStates /\ Agrees(s, kept) /\ s.got = <<>> /\ ~s.truncated
      /\ KeptTyped(kept) /\ KeptWhole(kept) /\ KeptThere(kept) /\ s.req \in ReadRequests
      /\ Complete(s, kept) /\ ToolsInv
    BY <1>1, ReaderFacts DEF ReadersInv
<1> DEFINE q == s.req
           b == Buffer(r)
           d == data[s.file]
<1>3. /\ q.kind \in {"read", "search"} /\ (q.kind = "read" => s.at = q.path)
      /\ Settled(s.file) /\ (s.at \in DOMAIN kept => s.file = kept[s.at])
      /\ \A x \in s.found : x.path \in DOMAIN kept => x.isDirectory = (kept[x.path] = Dir)
    BY <1>1, <1>2 DEF Agrees
<1>4. s.file \in AnyFile /\ d \in Seq(AnyFile) /\ IsPrefix(d, want[s.file])
  <2>1. s.file \in AnyFile
      BY <1>3 DEF Settled, AnyFile
  <2> QED BY <1>2, <2>1 DEF ToolsInv, ToolTypes, ContentsAgree, AnyFile
<1>5. ASSUME s.at \in DOMAIN kept, kept[s.at] # Dir
      PROVE  /\ d = want[kept[s.at]]
             /\ q.kind = "read" => s.size = Smaller(q.limit, Len(d))
             /\ q.kind = "search" => s.size = Len(d)
  <2>1. s.size = IF q.kind = "read" THEN Smaller(q.limit, Len(want[kept[s.at]]))
                                    ELSE Len(want[kept[s.at]])
      BY <1>1, <1>2, <1>5 DEF Agrees
  <2>2. data[kept[s.at]] = want[kept[s.at]] /\ s.file = kept[s.at]
      BY <1>2, <1>3, <1>5, ThereFacts
  <2> QED BY <2>1, <2>2
<1>6. ASSUME q.kind = "search", NEW p \in WantedOf(q, kept)
      PROVE  /\ p \in s.entries \/ QueuedFor(s, p) \/ FoundFor(s, p) \/ s.at = p
             /\ p \in DOMAIN kept /\ kept[p] # Dir /\ Contains(want[kept[p]], q.query)
  <2>1. p \in s.entries \/ QueuedFor(s, p) \/ FoundFor(s, p) \/ AtHand(s, p)
      BY <1>1, <1>2, <1>6 DEF Complete, Walks
  <2>2. p \in DOMAIN kept /\ kept[p] # Dir /\ Contains(want[kept[p]], q.query)
      BY <1>6 DEF WantedOf
  <2> QED BY <2>1, <2>2 DEF AtHand
<1>7. s.size \in Nat /\ Len(d) \in Nat /\ (q.kind = "read" => q.limit \in Nat)
  <2>1. s.size \in Nat
      BY <1>2 DEF ReaderStates
  <2> QED BY <1>2, <1>4, <2>1, LenProperties, ReadRequestFacts
<1>8. CASE IsBinaryBuffer(b)
  <2>1. ReadFails(r)
      BY <1>8 DEF ReadFile
  <2>2. ASSUME q.kind = "search", NEW p \in WantedOf(q, kept), s.at = p PROVE FALSE
    <3>1. s.size = Len(d)
        BY <1>5, <1>6, <2>2
    <3>2. PICK n \in 1 .. s.size : b[n] = 0
        BY <1>8 DEF IsBinaryBuffer, Buffer
    <3>3. b[n] = d[n]
        BY <1>7, <3>1, <3>2 DEF Buffer
    <3>4. d[n] \in AnyFile
        BY <1>4, <3>1, <3>2, ElementOfSeq
    <3> QED BY <3>2, <3>3, <3>4, FileReadsAssumption DEF AnyFile
  <2>3. s.req.kind = "search" =>
          \A p \in WantedOf(s.req, kept) : p \in s.entries \/ QueuedFor(s, p) \/ FoundFor(s, p)
      BY <1>6, <2>2
  <2> QED BY <1>1, <1>2, <2>1, <2>3, ReadFailsGood
<1>9. CASE ~IsBinaryBuffer(b)
  <2>0. /\ b \in Seq(AnyFile \cup {0}) /\ BeginsVersion(b, want[s.file])
        /\ \A n \in 1 .. s.size : b[n] = (IF n <= Len(d) THEN d[n] ELSE 0)
        /\ s.size <= Len(d) => b = SubSeq(d, 1, s.size)
      BY <1>2, <1>4, <1>9, BufferFacts, TextBegins
  <2> HIDE DEF b, d
  <2>1. CASE q.kind = "read"
    <3> DEFINE u == [s EXCEPT !.got = b]
    <3>1. reader' = [reader EXCEPT ![r] = Finished(u, "ok")]
      <4>1. Finish(r, u, "ok")
          BY <1>9, <2>1 DEF ReadFile, b
      <4> HIDE DEF u
      <4> QED BY <4>1 DEF Finish, Finished, Becomes
    <3>2. /\ u \in ReaderStates /\ u.got = b /\ u.file = s.file /\ u.req = q
        BY <1>2, <2>0 DEF ReaderStates
    <3> HIDE DEF u
    <3>4. Answers(u, kept)
      <4>1. ASSUME q.path \in DOMAIN kept, kept[q.path] # Dir
            PROVE  b = SubSeq(want[kept[q.path]], 1,
                              Smaller(q.limit, Len(want[kept[q.path]])))
        <5>1. d = want[kept[q.path]] /\ s.size = Smaller(q.limit, Len(d))
            BY <1>3, <1>5, <2>1, <4>1
        <5>2. s.size <= Len(d)
            BY <1>7, <2>1, <5>1 DEF Smaller
        <5> QED BY <2>0, <5>1, <5>2
      <4> QED BY <2>1, <3>2, <4>1 DEF Answers
    <3>5. Good(Finished(u, "ok"), kept)
        BY <1>2, <1>3, <2>0, <3>2, <3>4, FinishGood
    <3> QED BY <3>1, <3>5
  <2>2. CASE q.kind = "search" /\ \E n \in 1 .. s.size : b[n] = q.query
    <3> DEFINE hits == s.entries \cup {s.at}
               t == [s EXCEPT !.entries = hits, !.truncated = Cardinality(hits) >= q.limit]
    <3>1. Proceed(r, t)
        BY <1>9, <2>2 DEF ReadFile, b
    <3>2. hits \in SUBSET Paths /\ (Cardinality(hits) >= q.limit) \in BOOLEAN
        BY <1>2 DEF ReaderStates
    <3> HIDE DEF hits
    <3>3. /\ t \in ReaderStates /\ t.req = q /\ t.got = <<>> /\ t.found = s.found
          /\ t.queue = s.queue /\ t.entries = hits
        BY <1>2, <3>2 DEF ReaderStates
    <3> HIDE DEF t
    <3>4. reader' = [reader EXCEPT ![r] = Proceeded(t)]
        BY <3>1 DEF Proceed, Proceeded, Finish, Finished, Becomes
    <3>5. ASSUME NEW p \in WantedOf(q, kept)
          PROVE  p \in t.entries \/ QueuedFor(t, p) \/ FoundFor(t, p)
      <4>1. p \in s.entries \/ QueuedFor(s, p) \/ FoundFor(s, p) \/ s.at = p
          BY <1>6, <2>2, <3>5
      <4>2. p \in s.entries \/ s.at = p => p \in t.entries
          BY <3>3 DEF hits
      <4> QED BY <3>3, <4>1, <4>2 DEF QueuedFor, FoundFor
    <3>6. Good(Proceeded(t), kept)
        BY <1>2, <1>3, <2>2, <3>3, <3>5, ProceedGood
    <3> QED BY <3>4, <3>6
  <2>3. CASE q.kind = "search" /\ ~ \E n \in 1 .. s.size : b[n] = q.query
    <3>1. Proceed(r, s)
        BY <1>9, <2>3 DEF ReadFile, b
    <3>2. reader' = [reader EXCEPT ![r] = Proceeded(s)]
        BY <3>1 DEF Proceed, Proceeded, Finish, Finished, Becomes
    <3>3. ASSUME NEW p \in WantedOf(q, kept), s.at = p PROVE FALSE
      <4>1. p \in DOMAIN kept /\ kept[p] # Dir /\ Contains(want[kept[p]], q.query)
          BY <1>6, <2>3, <3>3
      <4>2. d = want[kept[p]] /\ s.size = Len(d)
          BY <1>5, <2>3, <3>3, <4>1
      <4>3. \E n \in 1 .. Len(d) : d[n] = q.query
          BY <4>1, <4>2 DEF Contains
      <4> QED BY <1>7, <2>0, <2>3, <4>2, <4>3
    <3>4. \A p \in WantedOf(q, kept) : p \in s.entries \/ QueuedFor(s, p) \/ FoundFor(s, p)
        BY <1>6, <2>3, <3>3
    <3>5. Good(Proceeded(s), kept)
        BY <1>2, <1>3, <2>3, <3>4, ProceedGood
    <3> QED BY <3>2, <3>5
  <2> QED BY <1>3, <2>1, <2>2, <2>3
<1> QED BY <1>8, <1>9

LEMMA AbortGood ==
    ASSUME ReadersInv, NEW r \in Readers, NEW s, s = reader[r], NEW kept, kept = stayed[r],
           Abort(r)
    PROVE  \E t : reader' = [reader EXCEPT ![r] = t] /\ Good(t, kept)
<1>1. Reads(s)
    BY DEF Abort, Reading, Reads
<1>2. /\ s \in ReaderStates /\ Agrees(s, kept) /\ KeptTyped(kept) /\ KeptWhole(kept)
      /\ KeptThere(kept) /\ Complete(s, kept)
    BY <1>1, ReaderFacts
<1> DEFINE t == [s EXCEPT !.aborted = TRUE]
<1>3. reader' = [reader EXCEPT ![r] = t]
    BY DEF Abort
<1>4. /\ t \in ReaderStates /\ t.pc = s.pc /\ t.req = s.req /\ t.got = s.got
      /\ t.found = s.found /\ t.at = s.at /\ t.queue = s.queue /\ t.entries = s.entries
      /\ t.truncated = s.truncated /\ t.size = s.size /\ t.file = s.file
    BY <1>2 DEF ReaderStates
<1> HIDE DEF t
<1>5. Agrees(t, kept)
    BY <1>2, <1>4 DEF Agrees, Reads
<1>6. Complete(t, kept)
  <2>1. \A p : /\ QueuedFor(t, p) = QueuedFor(s, p) /\ FoundFor(t, p) = FoundFor(s, p)
               /\ AtHand(s, p) = AtHand(t, p)
      BY <1>4 DEF QueuedFor, FoundFor, AtHand
  <2> QED BY <1>2, <1>4, <2>1 DEF Complete, Walks
<1>7. t.pc # "done"
    BY <1>1, <1>4 DEF Reads
<1> QED BY <1>2, <1>3, <1>4, <1>5, <1>6, <1>7 DEF Good
-----------------------------------------------------------------------------
LEMMA SameGood ==
    ASSUME UNCHANGED <<fileVars, call>>, NEW s, NEW kept, Good(s, kept)
    PROVE  Good(s, kept)'
<1>1. Stable
    BY NothingIsStable
<1>2. KeptTyped(kept) /\ (Reads(s) => KeptThere(kept)')
    BY DEF Good, KeptThere, fileVars
<1> QED BY <1>1, <1>2, ReaderStays

LEMMA GoodThen ==
    ASSUME NEW r \in Readers, NEW x, NEW k, x = reader'[r], k = stayed'[r], Good(x, k)'
    PROVE  Good(reader[r], stayed[r])'
BY DEF Good, KeptTyped, KeptWhole, KeptThere, Reads, Agrees, Complete, Walks, WantedOf,
       QueuedFor, FoundFor, AtHand, Version, Answers

\* A reader begins with all that is whole.
LEMMA BeginGood ==
    ASSUME ToolsInv, NEW q \in ReadRequests, NEW kept,
           kept = [p \in {p \in DOMAIN tree : tree[p] # Dir => Whole(tree[p])} |-> tree[p]]
    PROVE  Good(Begun(q), kept)
<1>1. /\ tree \in [DOMAIN tree -> {Dir} \cup AnyFile] /\ DOMAIN tree \subseteq Paths
    BY RootIsDirectory, WorkspaceFacts DEF ToolsInv
<1>2. \A p \in DOMAIN kept : p \in DOMAIN tree /\ kept[p] = tree[p]
                             /\ (tree[p] # Dir => Whole(tree[p]))
    OBVIOUS
<1>3. KeptTyped(kept)
    BY <1>1, <1>2 DEF KeptTyped
<1>4. KeptWhole(kept)
  <2> SUFFICES ASSUME NEW p \in DOMAIN kept, kept[p] # Dir
               PROVE  Settled(kept[p]) /\ Whole(kept[p])
      BY DEF KeptWhole
  <2>1. tree[p] \in AnyFile /\ (tree[p] \in Calls => Opened(tree[p]))
      BY <1>1, <1>2 DEF ToolsInv, PlacesAgree
  <2> QED BY <1>2, <2>1 DEF Settled, AnyFile
<1>5. KeptThere(kept)
    BY <1>2 DEF KeptThere, At
<1> DEFINE s == Begun(q)
<1>6. /\ s \in ReaderStates /\ s.pc = "resolve" /\ s.got = <<>> /\ s.found = {}
      /\ ~s.truncated
  <2>1. <<>> \in Paths /\ <<>> \in Seq(Paths) /\ <<>> \in Seq(AnyFile)
      BY PathFacts, EmptySeq
  <2> QED BY <2>1 DEF Begun, ReaderStates, ReadPcs
<1> HIDE DEF s
<1>7. Agrees(s, kept)
    BY <1>6 DEF Agrees
<1>8. Complete(s, kept)
    BY <1>6 DEF Complete, Walks
<1>9. Good(s, kept)
    BY <1>3, <1>4, <1>5, <1>6, <1>7, <1>8 DEF Good
<1> QED BY <1>9 DEF s

\* A reader that a failure passes by has not lost what it may still find.
LEMMA ReadFaultGood ==
    ASSUME ReadersInv, NEW r \in Readers, NEW s, s = reader[r], NEW kept, kept = stayed[r],
           ReadFault(r), NEW lost, lost = IF s.pc = "scan" THEN Head(s.queue) ELSE s.at,
           NEW m, m = [p \in {p \in DOMAIN kept : ~IsPrefix(lost, p)} |-> kept[p]]
    PROVE  \E t : reader' = [reader EXCEPT ![r] = t] /\ Good(t, m)
<1>1. Reads(s) /\ s.pc # "entries" /\ ReadFails(r)
    BY DEF ReadFault, Reading, Reads
<1>2. /\ s \in ReaderStates /\ Agrees(s, kept) /\ KeptTyped(kept) /\ KeptWhole(kept)
      /\ KeptThere(kept) /\ Complete(s, kept)
    BY <1>1, ReaderFacts
<1>3. /\ DOMAIN m \subseteq DOMAIN kept
      /\ \A p \in DOMAIN m : m[p] = kept[p] /\ ~IsPrefix(lost, p)
    OBVIOUS
<1>4. KeptTyped(m)
    BY <1>2, <1>3 DEF KeptTyped
<1>5. KeptWhole(m) /\ KeptThere(m)
    BY <1>2, <1>3 DEF KeptWhole, KeptThere
<1>6. Agrees(s, m)
    BY <1>2, <1>3 DEF Agrees
<1>7. \A p \in WantedOf(s.req, m) : p \in WantedOf(s.req, kept) /\ p \in DOMAIN m
    BY <1>3 DEF WantedOf
<1>8. s.pc = "scan" => \A p \in WantedOf(s.req, m) :
                 \/ p \in s.entries
                 \/ QueuedFor(s, p) /\ ~IsStrictPrefix(Head(s.queue), p)
  <2> SUFFICES ASSUME s.pc = "scan", NEW p \in WantedOf(s.req, m)
               PROVE  \/ p \in s.entries
                      \/ QueuedFor(s, p) /\ ~IsStrictPrefix(Head(s.queue), p)
      OBVIOUS
  <2>1. s.found = {} /\ Walks(s)
      BY <1>2 DEF Agrees, Walks
  <2>2. p \in s.entries \/ QueuedFor(s, p)
      BY <1>2, <1>7, <2>1 DEF Complete, FoundFor, AtHand
  <2>3. ~IsPrefix(Head(s.queue), p)
      BY <1>3, <1>7
  <2> QED BY <2>2, <2>3 DEF IsStrictPrefix
<1>9. s.pc \in {"file", "open", "read"} /\ s.req.kind = "search" =>
              \A p \in WantedOf(s.req, m) :
                 p \in s.entries \/ QueuedFor(s, p) \/ FoundFor(s, p)
  <2> SUFFICES ASSUME s.pc \in {"file", "open", "read"}, s.req.kind = "search",
                      NEW p \in WantedOf(s.req, m)
               PROVE  p \in s.entries \/ QueuedFor(s, p) \/ FoundFor(s, p)
      OBVIOUS
  <2>1. p \in s.entries \/ QueuedFor(s, p) \/ FoundFor(s, p) \/ s.at = p
      BY <1>2, <1>7 DEF Complete, Walks, AtHand
  <2>2. ~IsPrefix(s.at, p)
      BY <1>3, <1>7
  <2>3. IsPrefix(s.at, s.at)
    <3>1. s.at \in Seq(AnyName)
        BY <1>2, PathFacts DEF ReaderStates
    <3> QED BY <3>1, PrefixOrder
  <2> QED BY <2>1, <2>2, <2>3
<1> QED BY <1>1, <1>2, <1>4, <1>5, <1>6, <1>8, <1>9, ReadFailsGood

LEMMA ReadStepGood ==
    ASSUME ReadersInv, NEW r \in Readers, ReadStep(r) \/ Abort(r)
    PROVE  \E t : reader' = [reader EXCEPT ![r] = t] /\ Good(t, stayed[r])
<1>1. CASE ResolveRead(r)
    BY <1>1, ResolveReadGood
<1>2. CASE LstatRead(r)
    BY <1>2, LstatReadGood
<1>3. CASE Scan(r)
    BY <1>3, ScanGood
<1>4. CASE Entry(r)
    BY <1>4, EntryGood
<1>5. CASE SearchFile(r)
    BY <1>5, SearchFileGood
<1>6. CASE OpenFile(r)
    BY <1>6, OpenFileGood
<1>7. CASE ReadFile(r)
    BY <1>7, ReadFileGood
<1>8. CASE Abort(r)
    BY <1>8, AbortGood
<1> QED BY <1>1, <1>2, <1>3, <1>4, <1>5, <1>6, <1>7, <1>8 DEF ReadStep

\* One reader moves, the files and the calls do not.
LEMMA OneReaderMoves ==
    ASSUME ReadersInv, UNCHANGED <<fileVars, call>>, NEW r \in Readers, NEW t, NEW m,
           reader' = [reader EXCEPT ![r] = t], stayed' = [stayed EXCEPT ![r] = m],
           Good(t, m), ToolsInv'
    PROVE  ReadersInv'
<1>1. /\ reader = [i \in Readers |-> reader[i]] /\ stayed = [i \in Readers |-> stayed[i]]
      /\ \A i \in Readers : Good(reader[i], stayed[i])
    BY DEF ReadersInv
<1>2. /\ reader' = [i \in Readers |-> reader'[i]] /\ stayed' = [i \in Readers |-> stayed'[i]]
      /\ reader'[r] = t /\ stayed'[r] = m
      /\ \A i \in Readers : i # r => reader'[i] = reader[i] /\ stayed'[i] = stayed[i]
    BY <1>1
<1>3. ASSUME NEW i \in Readers PROVE Good(reader[i], stayed[i])'
  <2>1. \E x, k : x = reader'[i] /\ k = stayed'[i] /\ Good(x, k)
      BY <1>1, <1>2
  <2>2. PICK x, k : x = reader'[i] /\ k = stayed'[i] /\ Good(x, k)
      BY <2>1
  <2>3. Good(x, k)'
      BY <2>2, SameGood
  <2> QED BY <2>2, <2>3, GoodThen
<1> QED BY <1>2, <1>3 DEF ReadersInv

\* The calls go on next to the readers.
LEMMA ToolsMove ==
    ASSUME ReadersInv, ToolsNext, Watch, UNCHANGED reader, ToolsInv'
    PROVE  ReadersInv'
<1>1. /\ reader = [i \in Readers |-> reader[i]]
      /\ \A i \in Readers : Good(reader[i], stayed[i])
    BY DEF ReadersInv
<1>2. stayed' = [i \in Readers |-> stayed'[i]]
    BY DEF Watch
<1>3. Stable
    BY ToolsStable DEF ReadersInv
<1>4. ASSUME NEW i \in Readers PROVE Good(reader[i], stayed[i])'
  <2>1. PICK s, kept, m : s = reader[i] /\ kept = stayed[i] /\ m = stayed'[i]
      OBVIOUS
  <2>2. Good(s, kept)
      BY <1>1, <2>1
  <2>3. CASE Reads(s)
    <3>1. m = [p \in {p \in DOMAIN kept : At(tree', p) = kept[p]} |-> kept[p]]
        BY <2>1, <2>3 DEF Watch, Reading, Reads
    <3>2. DOMAIN m \subseteq DOMAIN kept /\ \A p \in DOMAIN m : m[p] = kept[p]
        BY <3>1
    <3>3. KeptThere(m)'
        BY <3>1 DEF KeptThere, At
    <3>4. KeptTyped(m)
        BY <2>2, <3>2, <3>1 DEF Good, KeptTyped
    <3>5. Good(s, m)'
        BY <1>3, <2>2, <2>3, <3>2, <3>3, <3>4, ReaderStays
    <3> QED BY <2>1, <3>5, GoodThen
  <2>4. CASE ~Reads(s)
    <3>1. m = kept
        BY <2>1, <2>4 DEF Watch, Reading, Reads
    <3>2. KeptTyped(m)
        BY <2>2, <3>1 DEF Good
    <3>3. Good(s, m)'
        BY <1>3, <2>2, <2>4, <3>1, <3>2, ReaderStays
    <3> QED BY <2>1, <3>3, GoodThen
  <2> QED BY <2>3, <2>4
<1> QED BY <1>1, <1>2, <1>4 DEF ReadersInv

LEMMA AllCrash ==
    ASSUME ReadersInv, Crash, ToolsInv'
    PROVE  ReadersInv'
<1>1. /\ stayed = [i \in Readers |-> stayed[i]]
      /\ \A i \in Readers : Good(reader[i], stayed[i])
    BY DEF ReadersInv
<1>2. reader' = [i \in Readers |-> reader'[i]] /\ stayed' = [i \in Readers |-> stayed'[i]]
    BY <1>1 DEF Crash
<1>3. Stable
    BY ToolsStable DEF ReadersInv, Crash
<1>4. ASSUME NEW i \in Readers PROVE Good(reader[i], stayed[i])'
  <2>1. PICK s, kept, t : s = reader[i] /\ kept = stayed[i] /\ t = reader'[i]
      OBVIOUS
  <2>2. Good(s, kept) /\ stayed'[i] = kept
      BY <1>1, <2>1 DEF Crash
  <2>3. t = IF Reads(s) THEN [s EXCEPT !.pc = "dead"] ELSE s
      BY <2>1 DEF Crash, Reading, Reads
  <2>4. ~Reads(t)
    <3>1. CASE Reads(s)
      <4>1. s \in ReaderStates
          BY <2>2, <3>1 DEF Good, Reads, Idle
      <4>2. t.pc = "dead"
          BY <2>3, <3>1, <4>1 DEF ReaderStates
      <4> QED BY <4>2 DEF Reads
    <3> QED BY <2>3, <3>1
  <2>5. KeptTyped(kept)
      BY <2>2 DEF Good
  <2>6. Good(t, kept)'
      BY <1>3, <2>2, <2>3, <2>4, <2>5, ReaderStays
  <2> QED BY <2>1, <2>2, <2>6, GoodThen
<1> QED BY <1>2, <1>4 DEF ReadersInv
-----------------------------------------------------------------------------
LEMMA ReadersInitial == Init => ReadersInv
<1> SUFFICES ASSUME Init PROVE ReadersInv
    OBVIOUS
<1>1. ToolsInv
    BY ToolsInitial DEF Init
<1>2. ASSUME NEW r \in Readers PROVE Good(reader[r], stayed[r])
  <2>1. reader[r] = Idle /\ Idle.pc = "idle" /\ stayed[r] = << >> /\ DOMAIN << >> = {}
      BY DEF Init, Idle
  <2>2. KeptTyped(stayed[r]) /\ KeptWhole(stayed[r])
    <3>1. stayed[r] = [p \in DOMAIN stayed[r] |-> stayed[r][p]]
        BY <2>1
    <3> QED BY <2>1, <3>1 DEF KeptTyped, KeptWhole
  <2>3. ~Reads(reader[r]) /\ ~Walks(reader[r]) /\ reader[r].pc # "done"
      BY <2>1 DEF Reads, Walks
  <2> QED BY <2>1, <2>2, <2>3 DEF Good, Complete
<1> QED BY <1>1, <1>2 DEF Init, ReadersInv

LEMMA NextKeepsReaders ==
    ASSUME ReadersInv, [Next]_vars
    PROVE  ReadersInv'
<1>0. /\ ToolsInv /\ ToolsInv'
      /\ reader = [i \in Readers |-> reader[i]] /\ stayed = [i \in Readers |-> stayed[i]]
      /\ \A i \in Readers : Good(reader[i], stayed[i])
    BY NextKeepsTools DEF ReadersInv
<1>1. CASE ToolsNext /\ Watch /\ UNCHANGED reader
    BY <1>0, <1>1, ToolsMove
<1>2. ASSUME NEW r \in Readers, ReadStep(r) \/ Abort(r), UNCHANGED toolVars
      PROVE  ReadersInv'
  <2>1. PICK t : reader' = [reader EXCEPT ![r] = t] /\ Good(t, stayed[r])
      BY <1>2, ReadStepGood
  <2>2. stayed' = stayed /\ UNCHANGED <<fileVars, call>>
      BY <1>2 DEF ReadStep, Abort, toolVars, fileVars
  <2>3. PICK m : m = stayed[r]
      OBVIOUS
  <2>4. stayed' = [stayed EXCEPT ![r] = m]
      BY <1>0, <2>2, <2>3
  <2> QED BY <1>0, <2>1, <2>2, <2>3, <2>4, OneReaderMoves
<1>3. ASSUME NEW r \in Readers, NEW q \in ReadRequests, BeginRead(r, q), UNCHANGED toolVars
      PROVE  ReadersInv'
  <2>1. PICK m : m = [p \in {p \in DOMAIN tree : tree[p] # Dir => Whole(tree[p])} |-> tree[p]]
      OBVIOUS
  <2>2. Good(Begun(q), m)
      BY <1>0, <2>1, BeginGood
  <2>3. /\ reader' = [reader EXCEPT ![r] = Begun(q)] /\ stayed' = [stayed EXCEPT ![r] = m]
        /\ UNCHANGED <<fileVars, call>>
      BY <1>3, <2>1 DEF BeginRead, toolVars, fileVars
  <2> QED BY <1>0, <2>2, <2>3, OneReaderMoves
<1>4. ASSUME NEW r \in Readers, ReadFault(r), UNCHANGED <<fileVars, call>>
      PROVE  ReadersInv'
  <2>1. PICK s, kept : s = reader[r] /\ kept = stayed[r]
      OBVIOUS
  <2>2. PICK lost : lost = IF s.pc = "scan" THEN Head(s.queue) ELSE s.at
      OBVIOUS
  <2>3. PICK m : m = [p \in {p \in DOMAIN kept : ~IsPrefix(lost, p)} |-> kept[p]]
      OBVIOUS
  <2>4. PICK t : reader' = [reader EXCEPT ![r] = t] /\ Good(t, m)
      BY <1>4, <2>1, <2>2, <2>3, ReadFaultGood
  <2>5. stayed' = [stayed EXCEPT ![r] = m]
      BY <1>0, <1>4, <2>1, <2>2, <2>3 DEF ReadFault
  <2> QED BY <1>0, <1>4, <2>4, <2>5, OneReaderMoves
<1>5. CASE Crash
    BY <1>0, <1>5, AllCrash
<1>6. CASE UNCHANGED vars
  <2>1. reader' = reader /\ stayed' = stayed /\ UNCHANGED <<fileVars, call>>
      BY <1>6 DEF vars, readVars, toolVars, fileVars
  <2>2. ASSUME NEW i \in Readers PROVE Good(reader[i], stayed[i])'
    <3>1. PICK x, k : x = reader[i] /\ k = stayed[i]
        OBVIOUS
    <3>2. Good(x, k)'
        BY <1>0, <2>1, <3>1, SameGood
    <3> QED BY <2>1, <3>1, <3>2, GoodThen
  <2> QED BY <1>0, <2>1, <2>2 DEF ReadersInv
<1> QED BY <1>1, <1>2, <1>3, <1>4, <1>5, <1>6 DEF Next

\* Every reader has found what it has to find of what has stayed, or has it
\* before it, whatever the calls do to the tree it walks.
THEOREM ReadersInvariant == Spec => []ReadersInv
<1>1. Init => ReadersInv
    BY ReadersInitial
<1>2. ReadersInv /\ [Next]_vars => ReadersInv'
    BY NextKeepsReaders
<1> QED BY <1>1, <1>2, PTL DEF Spec
LEMMA ReadersHoldTogether ==
    ASSUME ReadersInv
    PROVE  ReadTypes /\ ReadersAgree /\ StayedIsThere /\ WalksAreComplete
<1>1. \A r \in Readers : Good(reader[r], stayed[r])
    BY DEF ReadersInv
<1>2. ReadTypes
  <2>1. ASSUME NEW r \in Readers
        PROVE  /\ reader[r] \in {Idle} \cup ReaderStates /\ KeptTyped(stayed[r])
      BY <1>1 DEF Good
  <2>2. reader \in [Readers -> {Idle} \cup ReaderStates]
      BY <2>1 DEF ReadersInv
  <2> QED BY <2>1, <2>2 DEF ReadersInv, ReadTypes, ReaderStates, KeptTyped, AnyFile
<1>3. ReadersAgree
  <2>1. \A r \in Readers : reader[r] # Idle => Agrees(reader[r], stayed[r])
      BY <1>1 DEF Good
  <2> QED BY <2>1 DEF ReadersAgree, Agrees, Reading, Reads
<1>4. StayedIsThere
  <2>1. \A r \in Readers : KeptWhole(stayed[r]) /\ (Reading(r) => KeptThere(stayed[r]))
      BY <1>1 DEF Good, Reading, Reads
  <2> QED BY <2>1 DEF StayedIsThere, KeptWhole, KeptThere
<1>5. ASSUME NEW r \in Readers, Walking(r), NEW p \in Wanted(r)
      PROVE  p \in reader[r].entries \/ Waits(r, p)
  <2>1. Complete(reader[r], stayed[r]) /\ Walks(reader[r])
      BY <1>1, <1>5 DEF Good, Walking, Walks
  <2>2. p \in WantedOf(reader[r].req, stayed[r])
      BY <1>5 DEF Wanted, WantedOf
  <2> QED BY <2>1, <2>2 DEF Complete, Waits, QueuedFor, FoundFor, AtHand
<1> QED BY <1>2, <1>3, <1>4, <1>5 DEF WalksAreComplete

\* The tree stays a tree in which every file is one of the program's, at one
\* place and with no more than it is to have; no temporary file is left; what a
\* reader has found out stays true, and a walk loses nothing of what stays.
THEOREM FilesAndReadersHold == Spec => []Inv
<1>1. ReadersInv /\ NoTemporaryLeft => Inv
    BY ReadersHoldTogether DEF Inv, ReadersInv, ToolsInv
<1> QED BY <1>1, ReadersInvariant, NoTemporaryStays, PTL

\* What did not change while a reader ran is in its answer.
THEOREM WhatStayedWasFound == Spec => []WhatStaysIsFound
<1>1. ReadersInv => WhatStaysIsFound
  <2> SUFFICES ASSUME ReadersInv, NEW r \in Readers,
                      reader[r].pc = "done", reader[r].out = "ok", ~reader[r].truncated
               PROVE  LET q == reader[r].req
                          files == {p \in DOMAIN stayed[r] : stayed[r][p] # Dir}
                      IN  /\ q.kind \in {"list", "search"} => Wanted(r) \subseteq reader[r].entries
                          /\ q.kind = "read" /\ q.path \in files =>
                                LET all == want[stayed[r][q.path]]
                                IN  reader[r].got = SubSeq(all, 1, Smaller(q.limit, Len(all)))
      BY DEF WhatStaysIsFound
  <2>1. Answers(reader[r], stayed[r])
      BY DEF ReadersInv, Good
  <2>2. Wanted(r) = WantedOf(reader[r].req, stayed[r])
      BY DEF Wanted, WantedOf
  <2> QED BY <2>1, <2>2 DEF Answers
<1> QED BY <1>1, ReadersInvariant, PTL

\* A read returns the beginning of one version of a file.
THEOREM ReadsHaveOneVersion == Spec => []ReadIsOneVersion
<1>1. ReadersInv => ReadIsOneVersion
    BY DEF ReadersInv, Good, Version, BeginsVersion, ReadIsOneVersion
<1> QED BY <1>1, ReadersInvariant, PTL
-----------------------------------------------------------------------------
(***************************************************************************)
(* shell.exec, which shares nothing with the file tools: one call, for     *)
(* every set of descendants and every budget.  IInv is inductive, so an    *)
(* answer holds exactly the output up to the budget, and a call that       *)
(* terminated its tree leaves no process behind.                           *)
(***************************************************************************)
USE Parameters DEF Processes, processes, output, control

LEMMA ExecInitial ==
    ASSUME ExecInit
    PROVE  IInv
<1>1. CaptureIsExact
  <2>1. written - unread = 0 /\ captured = 0
      BY DEF ExecInit
  <2>2. ~truncated
      BY Zenon DEF ExecInit
  <2>3. ~(0 > MaxOutput)
      OBVIOUS
  <2> QED BY <2>1, <2>2, <2>3 DEF CaptureIsExact
<1>2. TypeOK
  <2>1. truncated \in BOOLEAN /\ exitSeen \in BOOLEAN /\ aborted \in BOOLEAN
      BY Zenon DEF ExecInit
  <2>2. /\ reason \in Reasons /\ outcome \in Outcomes
        /\ termination \in {"none", "grace", "done"}
        /\ timer \in {"unset", "armed", "fired", "cleared"}
        /\ command \in {"before", "running", "closing", "done"}
      BY Zenon DEF ExecInit, Reasons, Outcomes
  <2>3. /\ live \subseteq born /\ born \subseteq Processes
        /\ group \subseteq born /\ holders \subseteq born
        /\ written \in Nat /\ unread \in 0..written
        /\ captured \in 0..MaxOutput
    <3>1. /\ live = {} /\ born = {} /\ group = {} /\ holders = {}
          /\ written = 0 /\ unread = 0 /\ captured = 0
        BY DEF ExecInit
    <3> QED BY <3>1
  <2> QED BY <2>1, <2>2, <2>3 DEF TypeOK
<1>3. KilledIsDead /\ UnspawnedIsEmpty /\ NothingBefore /\ AnsweredAtEnd
    BY DEF ExecInit, KilledIsDead, UnspawnedIsEmpty, NothingBefore,
        AnsweredAtEnd
<1> QED BY <1>1, <1>2, <1>3 DEF IInv

\* A request for termination only kills, and only starts the grace period.
LEMMA RequestLemma ==
    ASSUME TypeOK, NEW r \in Reasons, RequestTermination(r)
    PROVE  /\ reason' \in Reasons
           /\ live' \subseteq live
           /\ \/ termination' = termination
              \/ termination = "none" /\ termination' = "grace" /\ command = "running"
BY DEF TypeOK, RequestTermination, SignalGroup, Reasons

\* A chunk is counted as far as the budget goes.
LEMMA AppendLemma ==
    ASSUME TypeOK, CaptureIsExact,
           NEW n \in Nat, n <= unread,
           unread' = unread - n, written' = written, AppendOutput(n)
    PROVE  /\ CaptureIsExact'
           /\ captured' \in 0..MaxOutput /\ truncated' \in BOOLEAN
           /\ reason' \in Reasons /\ live' \subseteq live
           /\ \/ termination' = termination
              \/ termination = "none" /\ termination' = "grace" /\ command = "running"
<1>1. /\ CaptureIsExact'
      /\ captured' \in 0..MaxOutput /\ truncated' \in BOOLEAN
  <2>1. /\ written \in Nat /\ unread \in 0..written /\ unread' \in 0..written
        /\ captured \in 0..MaxOutput /\ written' = written
      BY DEF TypeOK
  <2>2. CASE truncated /\ captured' = captured /\ truncated' = truncated
      BY <2>1, <2>2 DEF CaptureIsExact
  <2>3. CASE ~truncated /\ n > MaxOutput - captured /\ captured' = MaxOutput
             /\ truncated' = TRUE
    <3>1. truncated'
        BY <2>3, Zenon
    <3> QED BY <2>1, <2>3, <3>1 DEF CaptureIsExact
  <2>4. CASE ~truncated /\ n <= MaxOutput - captured
             /\ captured' = captured + n /\ truncated' = truncated
    <3>1. ~truncated' /\ truncated' \in BOOLEAN
        BY <2>4, Zenon DEF TypeOK
    <3> QED BY <2>1, <2>4, <3>1 DEF CaptureIsExact
  <2> QED BY <2>2, <2>3, <2>4, Zenon DEF AppendOutput
<1>2. CASE RequestTermination("output")
    BY <1>1, <1>2, RequestLemma DEF Reasons
<1>3. CASE UNCHANGED <<reason, termination, live>>
    BY <1>1, <1>3 DEF TypeOK
<1> QED BY <1>2, <1>3 DEF AppendOutput

-----------------------------------------------------------------------------
LEMMA ExecNextKeeps ==
    ASSUME IInv, [ExecNext]_execVars
    PROVE  IInv'
<1> USE DEF IInv
<1>1. CASE Start
  <2>1. /\ Leader \notin born /\ born = {} /\ written = 0 /\ unread = 0
        /\ termination = "none" /\ command = "before" /\ outcome # "ok"
      BY <1>1 DEF Start, NothingBefore, UnspawnedIsEmpty,
          TypeOK, AnsweredAtEnd
  <2>2. CaptureIsExact' /\ KilledIsDead'
      BY <1>1, <2>1 DEF Start, CaptureIsExact, KilledIsDead
  <2>3. /\ command' \in {"running", "done"} /\ outcome' # "ok"
        /\ outcome' \in Outcomes /\ timer' \in {timer, "armed"}
        /\ live' \subseteq born' /\ born' \subseteq Processes
        /\ group' \subseteq born' /\ holders' \subseteq born'
        /\ (Leader \notin born' => born' = {})
      BY <1>1, <2>1 DEF Start, TypeOK, Outcomes
  <2>4. TypeOK'
      BY <1>1, <2>3 DEF Start, TypeOK
  <2>5. UnspawnedIsEmpty' /\ NothingBefore' /\ AnsweredAtEnd'
      BY <1>1, <2>1, <2>3 DEF Start, UnspawnedIsEmpty, NothingBefore,
          AnsweredAtEnd
  <2> QED BY <2>2, <2>4, <2>5
<1>2. CASE SpawnError
    BY <1>2 DEF SpawnError, TypeOK, CaptureIsExact,
        KilledIsDead, UnspawnedIsEmpty, NothingBefore,
        AnsweredAtEnd, PipeEnded, Outcomes
<1>3. CASE TimerFires
  <2>1. RequestTermination("timeout") /\ "timeout" \in Reasons
      BY <1>3 DEF TimerFires, Reasons
  <2>2. TypeOK'
      BY <1>3, <2>1, RequestLemma DEF TimerFires, TypeOK
  <2>3. CaptureIsExact' /\ UnspawnedIsEmpty' /\ NothingBefore'
      BY <1>3, <2>1, RequestLemma DEF TimerFires, CaptureIsExact,
          UnspawnedIsEmpty, NothingBefore
  <2>4. KilledIsDead' /\ AnsweredAtEnd'
      BY <1>3, <2>1, RequestLemma DEF TimerFires, KilledIsDead,
          AnsweredAtEnd, PipeEnded
  <2> QED BY <2>2, <2>3, <2>4
<1>4. CASE OnAbort
  <2>1. CASE command \in {"running", "closing"}
    <3>1. RequestTermination("cancelled") /\ "cancelled" \in Reasons
        BY <1>4, <2>1 DEF OnAbort, Reasons
    <3>2. TypeOK'
        BY <1>4, <3>1, RequestLemma DEF OnAbort, TypeOK
    <3>3. CaptureIsExact' /\ UnspawnedIsEmpty' /\ NothingBefore'
        BY <1>4, <3>1, RequestLemma DEF OnAbort, CaptureIsExact,
            UnspawnedIsEmpty, NothingBefore
    <3>4. KilledIsDead' /\ AnsweredAtEnd'
        BY <1>4, <3>1, RequestLemma DEF OnAbort, KilledIsDead,
            AnsweredAtEnd, PipeEnded
    <3> QED BY <3>2, <3>3, <3>4
  <2>2. CASE command \notin {"running", "closing"}
      BY <1>4, <2>2 DEF OnAbort, TypeOK, CaptureIsExact,
          KilledIsDead, UnspawnedIsEmpty, NothingBefore,
          AnsweredAtEnd, PipeEnded
  <2> QED BY <2>1, <2>2
<1>5. ASSUME NEW n \in 1..MaxWritten, Read(n) PROVE IInv'
  <2>1. n \in Nat /\ n <= unread /\ unread' = unread - n /\ written' = written
        /\ AppendOutput(n) /\ command = "running" /\ command' = command
      BY <1>5 DEF Read
  <2>2. /\ CaptureIsExact'
        /\ captured' \in 0..MaxOutput /\ truncated' \in BOOLEAN
        /\ reason' \in Reasons /\ live' \subseteq live
        /\ \/ termination' = termination
           \/ termination = "none" /\ termination' = "grace"
      BY <2>1, AppendLemma
  <2>3. TypeOK'
      BY <1>5, <2>1, <2>2 DEF Read, TypeOK
  <2>4. /\ KilledIsDead' /\ UnspawnedIsEmpty'
        /\ NothingBefore' /\ AnsweredAtEnd'
      BY <1>5, <2>1, <2>2 DEF Read, TypeOK, KilledIsDead,
          UnspawnedIsEmpty, NothingBefore, AnsweredAtEnd,
          PipeEnded
  <2> QED BY <2>2, <2>3, <2>4
<1>6. CASE GraceEnds
    BY <1>6 DEF GraceEnds, TypeOK, CaptureIsExact, KilledIsDead,
        UnspawnedIsEmpty, NothingBefore, AnsweredAtEnd,
        PipeEnded
<1>7. CASE SeeExit
    BY <1>7 DEF SeeExit, TypeOK, CaptureIsExact, KilledIsDead,
        UnspawnedIsEmpty, NothingBefore, AnsweredAtEnd,
        PipeEnded
<1>8. CASE CloseEvent
    BY <1>8 DEF CloseEvent, Answer, TypeOK, CaptureIsExact,
        KilledIsDead, UnspawnedIsEmpty, NothingBefore,
        AnsweredAtEnd, PipeEnded, Outcomes
<1>9. CASE Settle
    BY <1>9 DEF Settle, Answer, TypeOK, CaptureIsExact,
        KilledIsDead, UnspawnedIsEmpty, NothingBefore,
        AnsweredAtEnd, PipeEnded, Outcomes
<1>10. ASSUME NEW p \in Processes, NEW d \in Descendants, Fork(p, d)
       PROVE IInv'
    BY <1>10 DEF Fork, TypeOK, CaptureIsExact, KilledIsDead,
        UnspawnedIsEmpty, NothingBefore, AnsweredAtEnd,
        PipeEnded
<1>11. ASSUME NEW d \in Detachers, LeaveGroup(d) PROVE IInv'
    BY <1>11 DEF LeaveGroup, TypeOK, CaptureIsExact,
        KilledIsDead, UnspawnedIsEmpty, NothingBefore,
        AnsweredAtEnd, PipeEnded
<1>12. ASSUME NEW p \in Processes, ClosePipe(p) PROVE IInv'
    BY <1>12 DEF ClosePipe, TypeOK, CaptureIsExact,
        KilledIsDead, UnspawnedIsEmpty, NothingBefore,
        AnsweredAtEnd, PipeEnded
<1>13. ASSUME NEW p \in Processes, ProcessExits(p) PROVE IInv'
    BY <1>13 DEF ProcessExits, TypeOK, CaptureIsExact,
        KilledIsDead, UnspawnedIsEmpty, NothingBefore,
        AnsweredAtEnd, PipeEnded
<1>14. ASSUME NEW p \in Processes, NEW n \in 1..MaxWritten, ProcessWrites(p, n)
       PROVE IInv'
    BY <1>14 DEF ProcessWrites, TypeOK, CaptureIsExact,
        KilledIsDead, UnspawnedIsEmpty, NothingBefore,
        AnsweredAtEnd, PipeEnded
<1>15. CASE UNCHANGED execVars
    BY <1>15 DEF execVars, TypeOK, CaptureIsExact, KilledIsDead,
        UnspawnedIsEmpty, NothingBefore, AnsweredAtEnd,
        PipeEnded
<1> QED
    BY <1>1, <1>2, <1>3, <1>4, <1>5, <1>6, <1>7, <1>8, <1>9, <1>10, <1>11,
       <1>12, <1>13, <1>14, <1>15 DEF ExecNext, RuntimeNext, ProcessNext

\* The invariant of runProcess: what was read is captured up to the budget, a
\* killed group is dead, and an answer comes at the end of the pipe.
THEOREM ExecInvariant == ExecSpec => []IInv
<1>1. ExecInit => IInv
    BY ExecInitial
<1>2. IInv /\ [ExecNext]_execVars => IInv'
    BY ExecNextKeeps
<1> QED BY <1>1, <1>2, PTL DEF ExecSpec

\* A successful answer holds the output exactly, up to maxOutputBytes.
THEOREM ExactOutput == ExecSpec => []OutputIsExact
<1>1. IInv => OutputIsExact
    BY DEF IInv, TypeOK, CaptureIsExact, AnsweredAtEnd,
        PipeEnded, OutputIsExact
<1> QED BY <1>1, ExecInvariant, PTL

\* No process of the child's group survives the answer to a terminated call.
THEOREM Terminated == ExecSpec => []NoSurvivors
<1>1. IInv => NoSurvivors
    BY DEF IInv, TypeOK, KilledIsDead, UnspawnedIsEmpty,
        AnsweredAtEnd, NoSurvivors
<1> QED BY <1>1, ExecInvariant, PTL
==============================================================================
