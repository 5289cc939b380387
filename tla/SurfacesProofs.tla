---------------------------- MODULE SurfacesProofs ----------------------------
(* Proofs about Surfaces, for every host: native presentations follow the    *)
(* mirror, and a stop keeps what the windows looked like.                    *)
EXTENDS Surfaces, FiniteSetTheorems, SequenceTheorems, WellFoundedInduction,
        TLAPS

IsSeq(q) == \E S : q \in Seq(S)

-----------------------------------------------------------------------------
(* Sequences                                                                 *)

LEMMA AppendIs ==
  ASSUME NEW q, IsSeq(q), NEW x
  PROVE  /\ IsSeq(Append(q, x)) /\ Len(q) \in Nat
         /\ Len(Append(q, x)) = Len(q) + 1 /\ Append(q, x)[Len(q) + 1] = x
         /\ \A i \in 1 .. Len(q) : Append(q, x)[i] = q[i]
         /\ \A i \in 1 .. Len(q) + 1 : i = Len(q) + 1 \/ i \in 1 .. Len(q)
<1>1. PICK S : q \in Seq(S)
  BY DEF IsSeq
<1>2. PICK T : T = S \cup {x}
  OBVIOUS
<1>3. q \in Seq(T) /\ x \in T
  BY <1>1, <1>2
<1>4. Append(q, x) \in Seq(T)
  BY <1>3
<1> QED
  BY <1>3, <1>4 DEF IsSeq

LEMMA RangeIs ==
  ASSUME NEW q, IsSeq(q), NEW x
  PROVE  x \in Range(q) <=> \E i \in 1 .. Len(q) : q[i] = x
<1>1. PICK S : q \in Seq(S)
  BY DEF IsSeq
<1>2. DOMAIN q = 1 .. Len(q)
  BY <1>1
<1> QED
  BY <1>2 DEF Range

LEMMA RangeAppend ==
  ASSUME NEW q, IsSeq(q), NEW x
  PROVE  Range(Append(q, x)) = Range(q) \cup {x}
<1>0. PICK a, n :
                 /\ a = Append(q, x) /\ IsSeq(a) /\ n = Len(q) /\ n \in Nat
                 /\ Len(a) = n + 1 /\ a[n + 1] = x
                 /\ \A i \in 1 .. n : a[i] = q[i]
                 /\ \A i \in 1 .. n + 1 : i = n + 1 \/ i \in 1 .. n
  BY AppendIs
<1>1. \A y : y \in Range(a) <=> \E i \in 1 .. n + 1 : a[i] = y
  <2>1. IsSeq(a)
    BY <1>0
  <2>2. \A y : y \in Range(a) <=> \E i \in 1 .. Len(a) : a[i] = y
    BY <2>1, RangeIs
  <2> QED
    BY <1>0, <2>2
<1>2. \A y : y \in Range(q) <=> \E i \in 1 .. n : q[i] = y
  BY <1>0, RangeIs
<1>3. \A y : y \in Range(a) => y \in Range(q) \cup {x}
  BY <1>0, <1>1, <1>2
<1>4. x \in Range(a)
  BY <1>0, <1>1
<1>5. \A y : y \in Range(q) => y \in Range(a)
  <2>1. \A i \in 1 .. n : i \in 1 .. n + 1
    BY <1>0
  <2> QED
    BY <1>0, <1>1, <1>2, <2>1
<1> QED
  BY <1>0, <1>3, <1>4, <1>5

LEMMA RemoveAtIs ==
  ASSUME NEW q, IsSeq(q), NEW k \in 1 .. Len(q)
  PROVE  /\ IsSeq(RemoveAt(q, k)) /\ Len(q) \in Nat
         /\ Len(RemoveAt(q, k)) = Len(q) - 1
         /\ \A j \in 1 .. Len(q) - 1 :
              RemoveAt(q, k)[j] = IF j < k THEN q[j] ELSE q[j + 1]
<1>1. PICK S : q \in Seq(S)
  BY DEF IsSeq
<1> DEFINE a == SubSeq(q, 1, k - 1)
           b == SubSeq(q, k + 1, Len(q))
<1>2. /\ a \in Seq(S) /\ Len(a) = k - 1
      /\ \A j \in 1 .. k - 1 : a[j] = q[j]
  <2>1. k - 1 \in Nat /\ Len(q) \in Nat
    BY <1>1
  <2> QED
    BY <1>1, <2>1
<1>3. /\ b \in Seq(S) /\ Len(b) = Len(q) - k
      /\ \A j \in 1 .. Len(q) - k : b[j] = q[k + j]
  <2>1. k + 1 \in Nat /\ Len(q) \in Nat /\ k <= Len(q) /\ k + 1 <= Len(q) + 1
    BY <1>1
  <2>2. b \in Seq(S)
    BY <1>1, <2>1
  <2>3. Len(b) = Len(q) - k
    BY <1>1, <2>1
  <2>4. ASSUME NEW j \in 1 .. Len(q) - k PROVE b[j] = q[k + j]
    <3>1. b[j] = q[(k + 1) + j - 1]
      BY <1>1, <2>1
    <3>2. (k + 1) + j - 1 = k + j
      BY <2>1
    <3> QED
      BY <3>1, <3>2
  <2> QED
    BY <2>2, <2>3, <2>4
<1>4. RemoveAt(q, k) = a \o b
  BY DEF RemoveAt
<1> HIDE DEF a, b
<1>5. a \o b \in Seq(S) /\ Len(a \o b) = Len(a) + Len(b)
  <2>1. a \in Seq(S) /\ b \in Seq(S)
    BY <1>2, <1>3
  <2> QED
    BY <2>1
<1>6. ASSUME NEW j \in 1 .. Len(q) - 1
      PROVE  (a \o b)[j] = IF j < k THEN q[j] ELSE q[j + 1]
  <2>0. Len(q) \in Nat /\ k \in Nat /\ k <= Len(q) /\ j \in Nat
    BY <1>1
  <2>1. CASE j < k
    <3>1. j \in 1 .. Len(a)
      BY <1>2, <2>0, <2>1
    <3>2. (a \o b)[j] = a[j]
      BY <1>2, <1>3, <3>1
    <3> QED
      BY <1>2, <2>1, <3>1, <3>2
  <2>2. CASE ~ (j < k)
    <3>1. /\ j \in Len(a) + 1 .. Len(a) + Len(b) /\ j - Len(a) \in 1 .. Len(b)
          /\ k + (j - Len(a)) = j + 1
      BY <1>2, <1>3, <2>0, <2>2
    <3>2. (a \o b)[j] = b[j - Len(a)]
      <4>1. Len(a) \in Nat /\ Len(b) \in Nat /\ j \in 1 .. Len(a) + Len(b)
            /\ ~ (j <= Len(a))
        BY <1>2, <1>3, <3>1
      <4> QED
        BY <1>2, <1>3, <4>1
    <3> QED
      BY <1>3, <2>2, <3>1, <3>2
  <2> QED
    BY <2>1, <2>2
<1>7. Len(a) + Len(b) = Len(q) - 1 /\ Len(q) \in Nat
  BY <1>1, <1>2, <1>3
<1> QED
  BY <1>4, <1>5, <1>6, <1>7 DEF IsSeq

LEMMA MinIs ==
  ASSUME NEW I, I \subseteq Nat, I # {}
  PROVE  Min(I) \in I /\ \A j \in I : Min(I) <= j
<1>1. PICK i \in I : \A j \in I : ~ (<<j, i>> \in OpToRel(<, Nat))
  BY NatLessThanWellFounded, WFMin
<1>2. \A j \in I : ~ (j < i)
  <2>1. \A j \in I : j < i => <<j, i>> \in OpToRel(<, Nat)
    BY DEF OpToRel
  <2> QED
    BY <1>1, <2>1
<1>3. \A j \in I : i <= j
  BY <1>2
<1> QED
  BY <1>3 DEF Min

LEMMA MaxIs ==
  ASSUME NEW n \in Nat, NEW I, I \subseteq 1 .. n, I # {}
  PROVE  Max(I) \in I /\ \A j \in I : j <= Max(I)
<1> DEFINE J == {n - i : i \in I}
<1>1. J \subseteq Nat /\ J # {}
  <2>1. \A i \in I : i \in 1 .. n
    OBVIOUS
  <2>2. \A i \in I : n - i \in Nat
    BY <2>1
  <2> QED
    BY <2>2
<1>2. Min(J) \in J /\ \A j \in J : Min(J) <= j
  <2> HIDE DEF J
  <2> QED
    BY <1>1, MinIs
<1>3. PICK i \in I : Min(J) = n - i
  BY <1>2
<1>4. \A j \in I : n - i <= n - j
  BY <1>2, <1>3
<1>5. \A j \in I : i >= j
  BY <1>4
<1>6. \A x \in I : (\A y \in I : x >= y) => \A j \in I : j <= x
  OBVIOUS
<1> QED
  BY <1>5, <1>6 DEF Max

\* A sequence without duplicates loses exactly the element at k.
NoDup(q) == \A i, j \in 1 .. Len(q) : q[i] = q[j] => i = j

LEMMA RemoveAtRange ==
  ASSUME NEW q, IsSeq(q), NEW k \in 1 .. Len(q), NoDup(q)
  PROVE  /\ Range(RemoveAt(q, k)) = Range(q) \ {q[k]}
         /\ NoDup(RemoveAt(q, k))
<1>1. PICK r, n :
        /\ r = RemoveAt(q, k) /\ IsSeq(r) /\ n = Len(q) /\ n \in Nat
        /\ Len(r) = n - 1
        /\ \A j \in 1 .. n - 1 : r[j] = IF j < k THEN q[j] ELSE q[j + 1]
  BY RemoveAtIs
<1>2. \A y : y \in Range(r) <=> \E i \in 1 .. n - 1 : r[i] = y
  <2>1. \A y : y \in Range(r) <=> \E i \in 1 .. Len(r) : r[i] = y
    BY <1>1, RangeIs
  <2> QED
    BY <1>1, <2>1
<1>3. \A y : y \in Range(q) <=> \E i \in 1 .. n : q[i] = y
  BY <1>1, RangeIs
<1>4. k \in 1 .. n /\ \A i, j \in 1 .. n : q[i] = q[j] => i = j
  BY <1>1 DEF NoDup
<1>5. ASSUME NEW j \in 1 .. n - 1
      PROVE  r[j] \in Range(q) /\ r[j] # q[k]
  <2>1. CASE j < k
    <3>1. j \in 1 .. n /\ j # k /\ r[j] = q[j]
      BY <1>1, <1>4, <2>1
    <3> QED
      BY <1>3, <1>4, <3>1
  <2>2. CASE ~ (j < k)
    <3>1. j + 1 \in 1 .. n /\ j + 1 # k /\ r[j] = q[j + 1]
      BY <1>1, <1>4, <2>2
    <3> QED
      BY <1>3, <1>4, <3>1
  <2> QED
    BY <2>1, <2>2
<1>6. ASSUME NEW i \in 1 .. n, i # k PROVE q[i] \in Range(r)
  <2>1. CASE i < k
    <3>1. i \in 1 .. n - 1 /\ r[i] = q[i]
      BY <1>1, <1>4, <2>1
    <3> QED
      BY <1>2, <3>1
  <2>2. CASE ~ (i < k)
    <3>1. i - 1 \in 1 .. n - 1 /\ ~ (i - 1 < k) /\ (i - 1) + 1 = i
      BY <1>1, <1>4, <1>6, <2>2
    <3>2. r[i - 1] = q[i]
      BY <1>1, <3>1
    <3> QED
      BY <1>2, <3>1, <3>2
  <2> QED
    BY <2>1, <2>2
<1>7. Range(r) = Range(q) \ {q[k]}
  <2>1. \A y : y \in Range(r) => y \in Range(q) /\ y # q[k]
    BY <1>2, <1>5
  <2>2. \A y : y \in Range(q) /\ y # q[k] => y \in Range(r)
    BY <1>3, <1>6
  <2> QED
    BY <2>1, <2>2
<1>8. ASSUME NEW i \in 1 .. n - 1, NEW j \in 1 .. n - 1, r[i] = r[j] PROVE i = j
  <2> DEFINE at(m) == IF m < k THEN m ELSE m + 1
  <2>1. \A m \in 1 .. n - 1 : at(m) \in 1 .. n /\ r[m] = q[at(m)]
    BY <1>1, <1>4
  <2>2. at(i) = at(j)
    BY <1>4, <1>8, <2>1
  <2> QED
    BY <1>1, <1>4, <2>2
<1>9. NoDup(r)
  BY <1>1, <1>8 DEF NoDup
<1> QED
  BY <1>1, <1>7, <1>9

-----------------------------------------------------------------------------
(* The filter of the z-order.                                                *)

Keeps(q, S, n, g) ==
  IF n = 0 THEN <<>>
  ELSE IF q[n] \in S THEN Append(g[n - 1], q[n])
  ELSE g[n - 1]

\* g is the filter's function on the first m elements.
IsKept(q, S, m, g) == g = [n \in 0 .. m |-> Keeps(q, S, n, g)]

\* The function that Only defines by recursion exists.
LEMMA KeptExists ==
  ASSUME NEW q, NEW S, NEW m \in Nat
  PROVE  \E g : IsKept(q, S, m, g)
<1> DEFINE Bad == {k \in Nat : ~ \E g : IsKept(q, S, k, g)}
<1>1. SUFFICES ASSUME Bad # {} PROVE FALSE
  OBVIOUS
<1>2. PICK k \in Bad : \A j \in Bad : k <= j
  <2>1. Bad \subseteq Nat
    OBVIOUS
  <2> HIDE DEF Bad
  <2> QED
    BY <1>1, <2>1, MinIs
<1>3. \A j \in Nat : j < k => \E g : IsKept(q, S, j, g)
  BY <1>2
<1>4. CASE k = 0
  <2>1. IsKept(q, S, 0, [n \in 0 .. 0 |-> <<>>])
    BY DEF IsKept, Keeps
  <2> QED
    BY <1>4, <2>1
<1>5. CASE k # 0
  <2>1. k - 1 \in Nat /\ k - 1 < k
    BY <1>5
  <2>2. PICK g : IsKept(q, S, k - 1, g)
    BY <1>3, <2>1
  <2> DEFINE h == [n \in 0 .. k |-> Keeps(q, S, n, g)]
  <2>3. \A n \in 0 .. (k - 1) : h[n] = g[n]
    BY <2>1, <2>2 DEF IsKept
  <2>4. \A n \in 0 .. k : Keeps(q, S, n, h) = Keeps(q, S, n, g)
    <3>1. \A n \in 0 .. k : n # 0 => h[n - 1] = g[n - 1]
      BY <2>3
    <3> HIDE DEF h
    <3> QED
      BY <3>1 DEF Keeps
  <2>5. h = [n \in 0 .. k |-> Keeps(q, S, n, h)]
    BY <2>4
  <2> QED
    BY <2>5 DEF IsKept
<1> QED
  BY <1>4, <1>5

\* The filter keeps what is in the set, and nothing else.
LEMMA OnlyIs ==
  ASSUME NEW q, IsSeq(q), NEW S
  PROVE  Only(q, S) \in Seq(S) /\ Range(Only(q, S)) = Range(q) \cap S
<1>0. Len(q) \in Nat
  BY AppendIs
<1>1. PICK g : IsKept(q, S, Len(q), g) /\ Only(q, S) = g[Len(q)]
  <2> DEFINE kept == CHOOSE g : IsKept(q, S, Len(q), g)
  <2>1. IsKept(q, S, Len(q), kept)
    BY <1>0, KeptExists
  <2>2. Only(q, S) = kept[Len(q)]
    BY DEF Only, IsKept, Keeps
  <2> QED
    BY <2>1, <2>2
<1> DEFINE Good(n) ==
      /\ g[n] \in Seq(S)
      /\ \A x : x \in Range(g[n]) <=> x \in S /\ \E i \in 1 .. n : q[i] = x
<1> DEFINE Bad == {k \in 0 .. Len(q) : ~ Good(k)}
<1>2. ASSUME Bad = {} PROVE Only(q, S) \in Seq(S) /\ Range(Only(q, S)) = Range(q) \cap S
  <2>1. Good(Len(q))
    BY <1>0, <1>2
  <2> QED
    BY <1>1, <2>1, RangeIs
<1>3. SUFFICES ASSUME Bad # {} PROVE FALSE
  BY <1>2
<1>4. PICK k \in Bad : \A j \in Bad : k <= j
  <2>1. Bad \subseteq Nat
    BY <1>0
  <2> HIDE DEF Bad
  <2> QED
    BY <1>3, <2>1, MinIs
<1>5. k \in 0 .. Len(q) /\ ~ Good(k)
  OBVIOUS
<1>6. g[k] = Keeps(q, S, k, g)
  BY <1>1, <1>5 DEF IsKept
<1>7. CASE k = 0
  <2>1. g[0] = <<>>
    BY <1>6, <1>7 DEF Keeps
  <2>2. Range(<<>>) = {}
    BY DEF Range
  <2> QED
    BY <1>5, <1>7, <2>1, <2>2
<1>8. CASE k # 0
  <2>1. k - 1 \in 0 .. Len(q) /\ k - 1 < k /\ k \in 1 .. Len(q)
    BY <1>0, <1>5, <1>8
  <2>2. Good(k - 1)
    <3>1. k - 1 \notin Bad
      <4>1. ~ (k <= k - 1)
        BY <2>1
      <4> HIDE DEF Bad
      <4> QED
        BY <1>4, <4>1
    <3> HIDE DEF Good
    <3> QED
      BY <2>1, <3>1
  <2>3. \A x : (\E i \in 1 .. k : q[i] = x) <=> x = q[k] \/ \E i \in 1 .. k - 1 : q[i] = x
    <3>1. \A i : i \in 1 .. k <=> i = k \/ i \in 1 .. k - 1
      BY <2>1
    <3> QED
      BY <3>1
  <2>4. CASE q[k] \notin S
    <3>1. g[k] = g[k - 1]
      BY <1>6, <1>8, <2>4 DEF Keeps
    <3> QED
      BY <1>5, <2>2, <2>3, <2>4, <3>1
  <2>5. CASE q[k] \in S
    <3>1. g[k] = Append(g[k - 1], q[k])
      BY <1>6, <1>8, <2>5 DEF Keeps
    <3>2. g[k] \in Seq(S)
      BY <2>2, <2>5, <3>1
    <3>3. IsSeq(g[k - 1])
      BY <2>2 DEF IsSeq
    <3>4. Range(g[k]) = Range(g[k - 1]) \cup {q[k]}
      BY <3>1, <3>3, RangeAppend
    <3> QED
      BY <1>5, <2>2, <2>3, <2>5, <3>2, <3>4
  <2> QED
    BY <2>4, <2>5
<1> QED
  BY <1>7, <1>8
LEMMA CatIs ==
  ASSUME NEW a, NEW b, IsSeq(a), IsSeq(b)
  PROVE  /\ IsSeq(a \o b) /\ Len(a) \in Nat /\ Len(b) \in Nat
         /\ Len(a \o b) = Len(a) + Len(b)
         /\ \A i \in 1 .. Len(a) : (a \o b)[i] = a[i]
         /\ \A i \in 1 .. Len(b) : (a \o b)[Len(a) + i] = b[i]
         /\ \A i \in 1 .. Len(a) + Len(b) :
              i \in 1 .. Len(a) \/ \E j \in 1 .. Len(b) : i = Len(a) + j
<1>1. PICK S : a \in Seq(S)
  BY DEF IsSeq
<1>2. PICK T : b \in Seq(T)
  BY DEF IsSeq
<1>3. PICK U : U = S \cup T
  OBVIOUS
<1>4. a \in Seq(U) /\ b \in Seq(U)
  BY <1>1, <1>2, <1>3
<1>5. /\ a \o b \in Seq(U) /\ Len(a) \in Nat /\ Len(b) \in Nat
      /\ Len(a \o b) = Len(a) + Len(b)
  BY <1>4
<1>6. \A i \in 1 .. Len(a) : (a \o b)[i] = a[i]
  BY <1>4
<1>7. ASSUME NEW i \in 1 .. Len(b) PROVE (a \o b)[Len(a) + i] = b[i]
  <2>1. /\ Len(a) + i \in 1 .. Len(a) + Len(b) /\ ~ (Len(a) + i <= Len(a))
        /\ (Len(a) + i) - Len(a) = i
    BY <1>5
  <2> QED
    BY <1>4, <1>5, <2>1
<1>8. ASSUME NEW i \in 1 .. Len(a) + Len(b), i \notin 1 .. Len(a)
      PROVE  \E j \in 1 .. Len(b) : i = Len(a) + j
  <2>1. i - Len(a) \in 1 .. Len(b) /\ i = Len(a) + (i - Len(a))
    BY <1>5, <1>8
  <2> QED
    BY <2>1
<1> QED
  BY <1>5, <1>6, <1>7, <1>8 DEF IsSeq

LEMMA TailIs ==
  ASSUME NEW q, IsSeq(q), q # <<>>
  PROVE  /\ IsSeq(Tail(q)) /\ Len(q) \in Nat \ {0} /\ Len(Tail(q)) = Len(q) - 1
         /\ \A i \in 1 .. Len(q) - 1 : Tail(q)[i] = q[i + 1]
         /\ Head(q) = q[1]
<1>1. PICK S : q \in Seq(S)
  BY DEF IsSeq
<1>2. Tail(q) \in Seq(S)
  BY <1>1
<1> QED
  BY <1>1, <1>2 DEF IsSeq

LEMMA EmptyIs == IsSeq(<<>>) /\ Len(<<>>) = 0
<1>1. <<>> \in Seq({})
  OBVIOUS
<1> QED
  BY <1>1 DEF IsSeq

-----------------------------------------------------------------------------
(* The inductive invariant                                                   *)

IsModel(m) == m = [surfaces |-> m.surfaces, current |-> m.current, z |-> m.z,
                   size |-> m.size, bounds |-> m.bounds]

Ops == {"add", "remove", "makeCurrent", "zOrder", "bounds", "size", "drain", "save"}
Wakes == {"initial", "incremental", "stop", "finished"}
Adds(q) == {i \in 1 .. Len(q) : q[i].op = "add"}

\* The types, and that a surface is created once.
TypeOK ==
  /\ IsModel(mirror) /\ IsSeq(mirror.surfaces)
  /\ channel = [state |-> channel.state, data |-> channel.data]
  /\ IsSeq(channel.data.surfaces)
  /\ IsModel(model) /\ model.surfaces \in Seq(Ids) /\ model.z \in Seq(Ids)
  /\ \E V : model.bounds \in [Ids -> V]
  /\ NoDup(model.surfaces)
  /\ \A i \in 1 .. Len(model.surfaces) : model.surfaces[i] <= created
  /\ created \in Nat /\ created + Cardinality(Adds(work)) <= MaxSurfaces
  /\ IsSeq(work)
  /\ \A i \in 1 .. Len(work) :
       work[i].op \in Ops /\ (work[i].op = "zOrder" => IsSeq(work[i].order))
  /\ wakes \in Seq(Wakes)

\* The first publication comes before everything else the GUI thread does.
Starting == mpc = "start" \/ (wakes # <<>> /\ Head(wakes) = "initial")
Started ==
  /\ mpc = "start" => wakes = <<>>
  /\ \A i \in 1 .. Len(wakes) : wakes[i] = "initial" => i = 1
  /\ Starting => gpc = "loop" /\ loaded = <<>> /\ ~stop

\* Presenters are loaded once, a window before its button, and are those of
\* the mirror, but for what a running update has still to load or unload.
Presenting ==
  /\ gpc \in {"loop", "initialize", "unload", "load", "stopping", "ending", "ended"}
  /\ IsSeq(loaded) /\ NoDup(loaded)
  /\ \A i \in 1 .. Len(loaded) :
       \E j \in 1 .. i : loaded[j] = <<loaded[i][1], "window">>
  /\ gpc \in {"loop", "stopping"} => Range(loaded) = Presenters
  /\ gpc \in {"initialize", "load", "ending"} => Range(loaded) \subseteq Presenters
  /\ gpc = "ended" => loaded = <<>>

\* Before the windows' state is posted no bounds are; from then on the bounds
\* of every window that was shown are posted or in the model, and on Windows
\* the z-order is posted or complete.
Before == ~stop /\ gpc # "stopping"
BoundsOf(q, s) == {i \in 1 .. Len(q) : q[i].op = "bounds" /\ q[i].s = s}
Stopping ==
  /\ mpc \in {"save", "done"} => stop /\ work = <<>>
  /\ mpc = "done" => saved = model
  /\ Before => /\ \A s \in Ids : atStop[s] = None
               /\ \A i \in 1 .. Len(work) : work[i].op # "bounds"
  /\ \A s \in Ids : atStop[s] # None =>
       /\ \A i \in BoundsOf(work, s) : work[i].v = atStop[s]
       /\ BoundsOf(work, s) # {} \/ model.bounds[s] = atStop[s]
  /\ host = "windows" /\ ~Before =>
       \/ \E i \in 1 .. Len(work) : work[i].op = "zOrder"
       \/ Range(model.surfaces) \subseteq Range(model.z)

IndInv == TypeOK /\ Started /\ Presenting /\ Stopping

LEMMA IndInvImplies == IndInv => PresentedIsLive /\ StopKeepsWindows
<1> SUFFICES ASSUME IndInv PROVE PresentedIsLive /\ StopKeepsWindows
  OBVIOUS
<1>1. ASSUME NEW p \in Range(loaded) PROVE <<p[1], "window">> \in Range(loaded)
  <2>1. IsSeq(loaded)
    BY DEF IndInv, Presenting
  <2>2. PICK i \in 1 .. Len(loaded) : loaded[i] = p
    BY <2>1, RangeIs
  <2>3. PICK j \in 1 .. i : loaded[j] = <<p[1], "window">>
    BY <2>2 DEF IndInv, Presenting
  <2>4. j \in 1 .. Len(loaded)
    BY <2>1, AppendIs
  <2> QED
    BY <2>1, <2>3, <2>4, RangeIs
<1>2. PresentedIsLive
  BY <1>1 DEF IndInv, Presenting, PresentedIsLive
<1>3. ASSUME mpc = "done", NEW s \in Range(saved.surfaces)
      PROVE  /\ atStop[s] # None => saved.bounds[s] = atStop[s]
             /\ host = "windows" => s \in Range(saved.z)
  <2>1. saved = model /\ stop /\ work = <<>>
    BY <1>3 DEF IndInv, Stopping
  <2>2. IsSeq(model.surfaces) /\ model.surfaces \in Seq(Ids)
    BY DEF IndInv, TypeOK, IsSeq
  <2>3. PICK i \in 1 .. Len(model.surfaces) : model.surfaces[i] = s
    BY <1>3, <2>1, <2>2, RangeIs
  <2>4. s \in Ids
    BY <2>2, <2>3
  <2>5. BoundsOf(work, s) = {} /\ 1 .. Len(work) = {}
    BY <2>1, EmptyIs DEF BoundsOf
  <2>6. atStop[s] # None => model.bounds[s] = atStop[s]
    BY <2>4, <2>5 DEF IndInv, Stopping
  <2>7. host = "windows" => Range(model.surfaces) \subseteq Range(model.z)
    BY <2>1, <2>5 DEF IndInv, Stopping, Before
  <2> QED
    BY <1>3, <2>1, <2>6, <2>7
<1> QED
  BY <1>2, <1>3 DEF StopKeepsWindows
-----------------------------------------------------------------------------
(* What the GUI thread posts while the application is not being stopped.     *)

HarmlessOps == {"remove", "makeCurrent", "size", "save", "drain"}
Harmless(ws) == IsSeq(ws) /\ \A i \in 1 .. Len(ws) : ws[i].op \in HarmlessOps

Posting == \/ work' = work
           \/ ~stop /\ \E ws : Harmless(ws) /\ work' = work \o ws
Adding == /\ ~stop /\ created + Cardinality(Adds(work)) < MaxSurfaces
          /\ \E w : w.op = "add" /\ work' = Append(work, w)

LEMMA HarmlessEmpty == Harmless(<<>>)
BY EmptyIs DEF Harmless

LEMMA HarmlessOne ==
  ASSUME NEW w, w.op \in HarmlessOps
  PROVE  Harmless(<<w>>)
<1>1. <<w>> \in Seq({w}) /\ Len(<<w>>) = 1
  OBVIOUS
<1>2. \A i \in 1 .. Len(<<w>>) : <<w>>[i] = w
  BY <1>1
<1>3. PICK q : q = <<w>>
  OBVIOUS
<1>4. IsSeq(q)
  BY <1>1, <1>3 DEF IsSeq
<1>5. \A i \in 1 .. Len(q) : q[i] = w
  BY <1>2, <1>3
<1> QED
  BY <1>3, <1>4, <1>5 DEF Harmless

LEMMA HarmlessCat ==
  ASSUME NEW a, NEW b, Harmless(a), Harmless(b)
  PROVE  Harmless(a \o b)
<1>1. PICK c : c = a \o b
  OBVIOUS
<1>2. /\ IsSeq(c) /\ Len(a) \in Nat /\ Len(b) \in Nat /\ Len(c) = Len(a) + Len(b)
      /\ \A i \in 1 .. Len(a) : c[i] = a[i]
      /\ \A i \in 1 .. Len(b) : c[Len(a) + i] = b[i]
      /\ \A i \in 1 .. Len(a) + Len(b) :
           i \in 1 .. Len(a) \/ \E j \in 1 .. Len(b) : i = Len(a) + j
  BY <1>1, CatIs DEF Harmless
<1>3. ASSUME NEW i \in 1 .. Len(c) PROVE c[i].op \in HarmlessOps
  <2>1. CASE i \in 1 .. Len(a)
    BY <1>2, <2>1 DEF Harmless
  <2>2. CASE i \notin 1 .. Len(a)
    <3>1. PICK j \in 1 .. Len(b) : i = Len(a) + j
      BY <1>2, <2>2
    <3>2. c[i] = b[j]
      BY <1>2, <3>1
    <3> QED
      BY <3>2 DEF Harmless
  <2> QED
    BY <2>1, <2>2
<1> QED
  BY <1>1, <1>2, <1>3 DEF Harmless

\* A size for each surface.
LEMMA HarmlessSizes ==
  ASSUME NEW q, IsSeq(q), NEW f
  PROVE  Harmless([i \in DOMAIN q |-> [op |-> "size", s |-> q[i], v |-> f[q[i]]]])
<1>1. PICK S : q \in Seq(S)
  BY DEF IsSeq
<1>2. DOMAIN q = 1 .. Len(q) /\ Len(q) \in Nat
  BY <1>1
<1> DEFINE m == [i \in 1 .. Len(q) |-> [op |-> "size", s |-> q[i], v |-> f[q[i]]]]
           R == {[op |-> "size", s |-> q[i], v |-> f[q[i]]] : i \in 1 .. Len(q)}
<1>3. m \in [1 .. Len(q) -> R]
  OBVIOUS
<1>4. m \in Seq(R) /\ Len(m) = Len(q)
  <2> HIDE DEF m, R
  <2> QED
    BY <1>2, <1>3
<1>5. \A i \in 1 .. Len(q) : m[i].op = "size"
  OBVIOUS
<1>6. Harmless(m)
  <2> HIDE DEF m, R
  <2> QED
    BY <1>4, <1>5 DEF Harmless, IsSeq, HarmlessOps
<1> QED
  BY <1>2, <1>6

\* The queue is extended: no bounds, no z-order, and no addition too many.
Grows ==
  /\ IsSeq(work') /\ (stop => work' = work)
  /\ \A i \in 1 .. Len(work) : i \in 1 .. Len(work') /\ work'[i] = work[i]
  /\ \A i \in 1 .. Len(work') :
       i \in 1 .. Len(work) \/ work'[i].op \in HarmlessOps \cup {"add"}
  /\ created + Cardinality(Adds(work')) <= MaxSurfaces

LEMMA AddsFinite ==
  ASSUME NEW q, IsSeq(q)
  PROVE  IsFiniteSet(Adds(q)) /\ Cardinality(Adds(q)) \in Nat
<1>1. Len(q) \in Nat
  BY AppendIs
<1>2. IsFiniteSet(1 .. Len(q))
  BY <1>1, FS_Interval
<1>3. Adds(q) \in SUBSET (1 .. Len(q))
  BY DEF Adds
<1>4. IsFiniteSet(Adds(q))
  BY <1>2, <1>3, FS_Subset
<1> QED
  BY <1>4, FS_CardinalityType

LEMMA PostingGrows ==
  ASSUME TypeOK, Posting \/ Adding
  PROVE  Grows
<1>1. /\ IsSeq(work) /\ created \in Nat /\ MaxSurfaces \in Nat
      /\ created + Cardinality(Adds(work)) <= MaxSurfaces
  BY SurfacesAssumption DEF TypeOK
<1>2. CASE work' = work
  BY <1>1, <1>2 DEF Grows
<1>3. CASE ~stop /\ \E ws : Harmless(ws) /\ work' = work \o ws
  <2>1. PICK ws : Harmless(ws) /\ work' = work \o ws
    BY <1>3
  <2>2. PICK c : c = work \o ws
    OBVIOUS
  <2>3. /\ IsSeq(c) /\ Len(work) \in Nat /\ Len(ws) \in Nat
        /\ Len(c) = Len(work) + Len(ws)
        /\ \A i \in 1 .. Len(work) : c[i] = work[i]
        /\ \A i \in 1 .. Len(ws) : c[Len(work) + i] = ws[i]
        /\ \A i \in 1 .. Len(work) + Len(ws) :
             i \in 1 .. Len(work) \/ \E j \in 1 .. Len(ws) : i = Len(work) + j
    <3>1. IsSeq(work) /\ IsSeq(ws)
      BY <1>1, <2>1 DEF Harmless
    <3>2. PICK w : w = work
      OBVIOUS
    <3>3. PICK d : d = w \o ws
      OBVIOUS
    <3>4. /\ IsSeq(d) /\ Len(w) \in Nat /\ Len(ws) \in Nat
          /\ Len(d) = Len(w) + Len(ws)
          /\ \A i \in 1 .. Len(w) : d[i] = w[i]
          /\ \A i \in 1 .. Len(ws) : d[Len(w) + i] = ws[i]
          /\ \A i \in 1 .. Len(w) + Len(ws) :
               i \in 1 .. Len(w) \/ \E j \in 1 .. Len(ws) : i = Len(w) + j
      <4>1. IsSeq(w) /\ IsSeq(ws)
        BY <3>1, <3>2
      <4> QED
        BY <4>1, <3>3, CatIs
    <3> QED
      BY <2>2, <3>2, <3>3, <3>4
  <2>4. ASSUME NEW i \in 1 .. Len(c), i \notin 1 .. Len(work)
        PROVE  c[i].op \in HarmlessOps
    <3>1. PICK j \in 1 .. Len(ws) : i = Len(work) + j
      BY <2>3, <2>4
    <3>2. c[i] = ws[j]
      BY <2>3, <3>1
    <3> QED
      BY <2>1, <3>2 DEF Harmless
  <2>5. \A i \in 1 .. Len(work) : i \in 1 .. Len(c)
    BY <2>3
  <2>6. Adds(c) = Adds(work)
    BY <2>3, <2>4, <2>5 DEF Adds, HarmlessOps
  <2> QED
    BY <1>1, <1>3, <2>1, <2>2, <2>3, <2>4, <2>5, <2>6 DEF Grows
<1>4. CASE Adding
  <2>1. PICK w : w.op = "add" /\ work' = Append(work, w)
    BY <1>4 DEF Adding
  <2>2. PICK c, n :
          /\ c = Append(work, w) /\ IsSeq(c) /\ n = Len(work) /\ n \in Nat
          /\ Len(c) = n + 1 /\ c[n + 1] = w
          /\ \A i \in 1 .. n : c[i] = work[i]
          /\ \A i \in 1 .. n + 1 : i = n + 1 \/ i \in 1 .. n
    BY <1>1, AppendIs
  <2>3. Adds(c) = Adds(work) \cup {n + 1}
    <3>1. \A i : i \in 1 .. n + 1 <=> i = n + 1 \/ i \in 1 .. n
      BY <2>2
    <3>2. Len(c) = n + 1 /\ Len(work) = n
      BY <2>2
    <3> QED
      BY <2>1, <2>2, <3>1, <3>2 DEF Adds
  <2>4. n + 1 \notin Adds(work)
    BY <2>2 DEF Adds
  <2>5. IsFiniteSet(Adds(work)) /\ Cardinality(Adds(work)) \in Nat
    BY <1>1, AddsFinite
  <2>6. Cardinality(Adds(c)) = Cardinality(Adds(work)) + 1
    BY <2>3, <2>4, <2>5, FS_AddElement
  <2>7. created + Cardinality(Adds(c)) <= MaxSurfaces
    BY <1>1, <1>4, <2>5, <2>6 DEF Adding
  <2>8. \A i \in 1 .. Len(work) : i \in 1 .. Len(c) /\ c[i] = work[i]
    BY <2>2
  <2>9. \A i \in 1 .. Len(c) : i \in 1 .. Len(work) \/ c[i].op = "add"
    BY <2>1, <2>2
  <2>10. work' = c /\ ~stop /\ IsSeq(c)
    BY <1>4, <2>1, <2>2 DEF Adding
  <2> QED
    BY <2>7, <2>8, <2>9, <2>10 DEF Grows
<1> QED
  BY <1>2, <1>3, <1>4 DEF Posting

\* A step of the GUI thread or the user that leaves the model alone.
LEMMA GuiKeepsTypes ==
  ASSUME TypeOK, Grows, UNCHANGED <<model, created>>,
         IsModel(mirror'), IsSeq(mirror'.surfaces),
         channel' = [state |-> channel'.state, data |-> channel'.data],
         IsSeq(channel'.data.surfaces), wakes' \in Seq(Wakes)
  PROVE  TypeOK'
<1>1. \A i \in 1 .. Len(work') :
        work'[i].op \in Ops /\ (work'[i].op = "zOrder" => IsSeq(work'[i].order))
  <2>1. \A i \in 1 .. Len(work) :
          work[i].op \in Ops /\ (work[i].op = "zOrder" => IsSeq(work[i].order))
    BY DEF TypeOK
  <2>2. \A x : x \in HarmlessOps \cup {"add"} => x \in Ops /\ x # "zOrder"
    BY DEF HarmlessOps, Ops
  <2> QED
    BY <2>1, <2>2 DEF Grows
<1>2. created + Cardinality(Adds(work')) <= MaxSurfaces /\ IsSeq(work')
  BY DEF Grows
<1> QED
  BY <1>1, <1>2 DEF TypeOK

LEMMA GuiKeepsStopping ==
  ASSUME TypeOK, Stopping, Grows, UNCHANGED <<host, model, atStop>>,
         mpc' \in {"save", "done"} => UNCHANGED <<mpc, saved>>,
         stop' = stop \/ (host # "windows" /\ stop' = TRUE),
         gpc' = gpc \/ (gpc # "stopping" /\ gpc' # "stopping")
  PROVE  Stopping'
<1>1. /\ (stop => stop' /\ work' = work)
      /\ \A i \in 1 .. Len(work) : i \in 1 .. Len(work') /\ work'[i] = work[i]
      /\ \A i \in 1 .. Len(work') :
           i \in 1 .. Len(work) \/ work'[i].op \notin {"bounds", "zOrder"}
  BY DEF Grows, HarmlessOps
<1>2. Before' => Before
  BY <1>1 DEF Before
<1>3. host = "windows" => (Before => Before')
  BY DEF Before
<1>4. \A s : BoundsOf(work', s) = BoundsOf(work, s)
  BY <1>1 DEF BoundsOf
<1>5. \A i : \A s : i \in BoundsOf(work, s) => work'[i] = work[i]
  BY <1>1 DEF BoundsOf
<1>6. mpc' \in {"save", "done"} => stop' /\ work' = <<>>
  BY <1>1 DEF Stopping
<1>7. mpc' = "done" => saved' = model'
  BY DEF Stopping
<1>8. Before' => /\ \A s \in Ids : atStop'[s] = None
                 /\ \A i \in 1 .. Len(work') : work'[i].op # "bounds"
  BY <1>1, <1>2 DEF Stopping
<1>9. ASSUME NEW s \in Ids, atStop'[s] # None
      PROVE  /\ \A i \in BoundsOf(work', s) : work'[i].v = atStop'[s]
             /\ BoundsOf(work', s) # {} \/ model'.bounds[s] = atStop'[s]
  BY <1>4, <1>5, <1>9 DEF Stopping
<1>10. host' = "windows" /\ ~Before' =>
         \/ \E i \in 1 .. Len(work') : work'[i].op = "zOrder"
         \/ Range(model'.surfaces) \subseteq Range(model'.z)
  <2>1. (\E i \in 1 .. Len(work) : work[i].op = "zOrder") =>
          \E i \in 1 .. Len(work') : work'[i].op = "zOrder"
    BY <1>1
  <2> QED
    BY <1>3, <2>1 DEF Stopping
<1> QED
  BY <1>6, <1>7, <1>8, <1>9, <1>10 DEF Stopping
-----------------------------------------------------------------------------
(* Inputs of the user                                                        *)

UserStep ==
  /\ loaded # <<>> /\ gpc = "loop"
  /\ UNCHANGED <<host, modelVars, mpc, channel, gpc, mirror, loaded, atStop>>
  /\ wakes' = wakes \/ wakes' = Append(wakes, "stop")
  /\ stop' = stop \/ (host # "windows" /\ stop' = TRUE)
  /\ Posting \/ Adding

LEMMA PostsHarmless ==
  ASSUME NEW ws, Harmless(ws), work' = Posted(ws)
  PROVE  Posting
BY DEF Posted, Posting

LEMMA PageShownHarmless ==
  ASSUME NEW s
  PROVE  Harmless(PageShown(s))
<1>1. PICK w : w = Invoke("makeCurrent", s)
  OBVIOUS
<1>2. w.op \in HarmlessOps
  BY <1>1 DEF Invoke, HarmlessOps
<1> QED
  BY <1>1, <1>2, HarmlessOne DEF PageShown

LEMMA PersistStateHarmless == Harmless(PersistState)
<1>1. PICK w : w = [op |-> "save"]
  OBVIOUS
<1>2. w.op \in HarmlessOps
  BY <1>1 DEF HarmlessOps
<1> QED
  BY <1>1, <1>2, HarmlessOne DEF PersistState

LEMMA AddClickPosts ==
  ASSUME TypeOK, NEW s, AddClick(s)
  PROVE  Posting \/ Adding
<1>1. IsSeq(work)
  BY DEF TypeOK
<1>2. PICK S : work \in Seq(S)
  BY <1>1 DEF IsSeq
<1>3. DOMAIN work = 1 .. Len(work)
  BY <1>2
<1>4. AddsQueued = Cardinality(Adds(work))
  BY <1>3 DEF AddsQueued, Adds
<1>5. CASE stop
  BY <1>5 DEF AddClick, Posts, Posted, Posting
<1>6. CASE ~stop
  <2>1. PICK w : w = Invoke("add", s)
    OBVIOUS
  <2>2. w.op = "add"
    BY <2>1 DEF Invoke
  <2>3. work' = work \o <<w>>
    BY <1>6, <2>1 DEF AddClick, Posts, Posted
  <2>4. work' = Append(work, w)
    <3>1. PICK T : T = S \cup {w}
      OBVIOUS
    <3>2. work \in Seq(T) /\ w \in T
      BY <1>2, <3>1
    <3> QED
      BY <2>3, <3>2
  <2> QED
    BY <1>4, <1>6, <2>2, <2>4 DEF AddClick, Adding
<1> QED
  BY <1>5, <1>6

LEMMA RemoveClickPosts ==
  ASSUME NEW s, RemoveClick(s)
  PROVE  Posting
<1>1. PICK w : w = Invoke("remove", s)
  OBVIOUS
<1>2. w.op \in HarmlessOps
  BY <1>1 DEF Invoke, HarmlessOps
<1>3. Harmless(<<w>>)
  BY <1>2, HarmlessOne
<1> QED
  BY <1>1, <1>3, PostsHarmless DEF RemoveClick, Posts

LEMMA ResizesPosts ==
  ASSUME TypeOK, NEW v, Resizes(v)
  PROVE  Posting
<1>1. PICK q : q = mirror.surfaces
  OBVIOUS
<1>2. IsSeq(q)
  BY <1>1 DEF TypeOK
<1>3. PICK f : f = [x \in Range(q) |-> v]
  OBVIOUS
<1>4. \A i \in DOMAIN q : f[q[i]] = v
  BY <1>3 DEF Range
<1>5. PICK m : m = [i \in DOMAIN q |-> [op |-> "size", s |-> q[i], v |-> f[q[i]]]]
  OBVIOUS
<1>6. Harmless(m)
  BY <1>2, <1>5, HarmlessSizes
<1>7. m = [i \in DOMAIN q |-> [op |-> "size", s |-> q[i], v |-> v]]
  BY <1>4, <1>5
<1>8. work' = Posted(m)
  BY <1>1, <1>7 DEF Resizes, Posts, Map
<1> QED
  BY <1>6, <1>8, PostsHarmless

LEMMA UserIs ==
  ASSUME TypeOK, User
  PROVE  UserStep
<1>1. ASSUME NEW h, Input(h)
      PROVE  /\ host = h /\ loaded # <<>> /\ gpc = "loop"
             /\ UNCHANGED <<host, modelVars, mpc, channel, gpc, mirror, loaded, atStop>>
  BY <1>1 DEF Input, GuiFree
<1>2. ASSUME NEW s, Posts(PageShown(s))
      PROVE  Posting /\ UNCHANGED <<stop, wakes>>
  <2>1. PICK ws : ws = PageShown(s)
    OBVIOUS
  <2>2. Harmless(ws)
    BY <2>1, PageShownHarmless
  <2> QED
    BY <1>2, <2>1, <2>2, PostsHarmless DEF Posts
<1>3. ASSUME NEW s, AddClick(s)
      PROVE  (Posting \/ Adding) /\ UNCHANGED <<stop, wakes>>
  BY <1>3, AddClickPosts DEF AddClick, Posts
<1>4. ASSUME NEW s, RemoveClick(s)
      PROVE  Posting /\ UNCHANGED <<stop, wakes>>
  BY <1>4, RemoveClickPosts DEF RemoveClick, Posts
<1>5. ASSUME NEW v, Resizes(v)
      PROVE  Posting /\ UNCHANGED <<stop, wakes>>
  BY <1>5, ResizesPosts DEF Resizes, Posts
<1>6. ASSUME UNCHANGED <<work, stop, wakes>>
      PROVE  Posting /\ UNCHANGED <<stop, wakes>>
  BY <1>6 DEF Posting
<1>7. PostApplicationStop => Posting /\ stop' = stop /\ wakes' = Append(wakes, "stop")
  BY DEF PostApplicationStop, Posting
<1>8. StopSession => Posting /\ stop' = TRUE /\ wakes' = wakes
  BY DEF StopSession, Posting
<1>9. ASSUME NEW s, SurfaceHostWndProc(s) PROVE UserStep
  <2>1. Input("windows")
    BY <1>9 DEF SurfaceHostWndProc
  <2>2. \/ UNCHANGED <<work, stop, wakes>> \/ Posts(PageShown(s)) \/ PostApplicationStop
    BY <1>9 DEF SurfaceHostWndProc
  <2> QED
    BY <1>1, <1>2, <1>6, <1>7, <2>1, <2>2 DEF UserStep
<1>10. ASSUME NEW s, WinOnCommand(s) \/ LinuxOnCommand(s) PROVE UserStep
  <2>1. Input("windows") \/ Input("linux")
    BY <1>10 DEF WinOnCommand, LinuxOnCommand
  <2>2. AddClick(s) \/ RemoveClick(s) \/ PostApplicationStop
    BY <1>10 DEF WinOnCommand, LinuxOnCommand
  <2> QED
    BY <1>1, <1>3, <1>4, <1>7, <2>1, <2>2 DEF UserStep
<1>11. ASSUME NEW s, LinuxWindowEvent(s) PROVE UserStep
  <2>1. Input("linux")
    BY <1>11 DEF LinuxWindowEvent
  <2>2. CASE \E v \in Sizes \ {native[s]} : Posts(<<[op |-> "size", s |-> s, v |-> v]>>)
    <3>1. PICK v : Posts(<<[op |-> "size", s |-> s, v |-> v]>>)
      BY <2>2
    <3>2. PICK w : w = [op |-> "size", s |-> s, v |-> v]
      OBVIOUS
    <3>3. w.op \in HarmlessOps
      BY <3>2 DEF HarmlessOps
    <3>4. Harmless(<<w>>)
      BY <3>3, HarmlessOne
    <3>5. Posting /\ UNCHANGED <<stop, wakes>>
      BY <3>1, <3>2, <3>4, PostsHarmless DEF Posts
    <3> QED
      BY <1>1, <2>1, <3>5 DEF UserStep
  <2>3. CASE Posts(PageShown(s)) \/ PostApplicationStop
    BY <1>1, <1>2, <1>7, <2>1, <2>3 DEF UserStep
  <2> QED
    BY <1>11, <2>2, <2>3 DEF LinuxWindowEvent
<1>12. ASSUME NEW s, SelectSurface(s) PROVE UserStep
  BY <1>1, <1>2, <1>12 DEF SelectSurface, UserStep
<1>13. ASSUME NEW s, AndroidPageShown(s) PROVE UserStep
  <2>1. PICK a, b : a = PageShown(s) /\ b = PersistState
    OBVIOUS
  <2>2. PICK ws : ws = a \o b
    OBVIOUS
  <2>3. Harmless(ws)
    BY <2>1, <2>2, PageShownHarmless, PersistStateHarmless, HarmlessCat
  <2>4. Posts(ws) /\ Input("android")
    BY <1>13, <2>1, <2>2 DEF AndroidPageShown
  <2>5. Posting /\ UNCHANGED <<stop, wakes>>
    BY <2>3, <2>4, PostsHarmless DEF Posts
  <2> QED
    BY <1>1, <2>4, <2>5 DEF UserStep
<1>14. ASSUME NEW s, AddFromSurface(s) PROVE UserStep
  BY <1>1, <1>3, <1>14 DEF AddFromSurface, UserStep
<1>15. ASSUME NEW s, RemoveSurface(s) PROVE UserStep
  <2>1. Input("android") /\ (StopSession \/ RemoveClick(s))
    BY <1>15 DEF RemoveSurface
  <2> QED
    BY <1>1, <1>4, <1>8, <2>1 DEF UserStep
<1>16. CASE WebReportPresentationSize \/ AndroidReportPresentationSize
  <2>1. (Input("web") \/ Input("android")) /\ \E v \in Sizes : Resizes(v)
    BY <1>16 DEF WebReportPresentationSize, AndroidReportPresentationSize
  <2>2. PICK h \in {"web", "android"} : Input(h)
    BY <2>1
  <2>3. Posting /\ UNCHANGED <<stop, wakes>>
    BY <1>5, <2>1
  <2> QED
    BY <1>1, <2>2, <2>3 DEF UserStep
<1>17. CASE AddCurrent
  <2>1. PICK e : Input("web") /\ AddClick(e)
    BY <1>17 DEF AddCurrent
  <2> QED
    BY <1>1, <1>3, <2>1 DEF UserStep
<1>18. CASE RemoveCurrent
  <2>1. PICK e : Input("web") /\ (StopSession \/ RemoveClick(e))
    BY <1>18 DEF RemoveCurrent
  <2> QED
    BY <1>1, <1>4, <1>8, <2>1 DEF UserStep
<1>19. CASE WebRequestStop \/ AndroidRequestStop
  <2>1. (Input("web") \/ Input("android")) /\ StopSession
    BY <1>19 DEF WebRequestStop, AndroidRequestStop
  <2>2. PICK h \in {"web", "android"} : Input(h)
    BY <2>1
  <2>3. host = h /\ host # "windows"
    BY <1>1, <2>2
  <2>4. /\ loaded # <<>> /\ gpc = "loop"
        /\ UNCHANGED <<host, modelVars, mpc, channel, gpc, mirror, loaded, atStop>>
    BY <1>1, <2>2
  <2> QED
    BY <1>8, <2>1, <2>3, <2>4 DEF UserStep
<1> QED
  BY <1>9, <1>10, <1>11, <1>12, <1>13, <1>14, <1>15, <1>16, <1>17, <1>18, <1>19
     DEF User

\* The wakes that stand for a message more or a message less.
LEMMA WakesAppend ==
  ASSUME TypeOK, Started, mpc # "start", mpc' # "start", NEW k \in Wakes,
         k # "initial", wakes' = Append(wakes, k)
  PROVE  /\ wakes' \in Seq(Wakes)
         /\ \A i \in 1 .. Len(wakes') : wakes'[i] = "initial" => i = 1
         /\ Starting' => Starting
<1>1. wakes \in Seq(Wakes)
  BY DEF TypeOK
<1>2. /\ wakes' \in Seq(Wakes) /\ Len(wakes') = Len(wakes) + 1
      /\ wakes'[Len(wakes) + 1] = k
      /\ \A i \in 1 .. Len(wakes) : wakes'[i] = wakes[i]
  BY <1>1
<1>3. \A i \in 1 .. Len(wakes') : wakes'[i] = "initial" => i \in 1 .. Len(wakes)
  <2>1. \A i \in 1 .. Len(wakes') : i \in 1 .. Len(wakes) \/ i = Len(wakes) + 1
    BY <1>1, <1>2
  <2> QED
    BY <1>2, <2>1
<1>4. \A i \in 1 .. Len(wakes') : wakes'[i] = "initial" => i = 1
  BY <1>2, <1>3 DEF Started
<1>5. ASSUME Starting' PROVE Starting
  <2>1. wakes' # <<>> /\ Head(wakes') = "initial"
    BY <1>5 DEF Starting
  <2>2. wakes'[1] = "initial" /\ 1 \in 1 .. Len(wakes')
    BY <1>2, <2>1
  <2>3. 1 \in 1 .. Len(wakes)
    BY <1>3, <2>2
  <2>5. wakes[1] = "initial"
    BY <1>2, <2>2, <2>3
  <2>6. wakes # <<>>
    BY <1>1, <2>3
  <2>4. wakes # <<>> /\ Head(wakes) = "initial"
    BY <1>1, <2>5, <2>6
  <2> QED
    BY <2>4 DEF Starting
<1> QED
  BY <1>2, <1>4, <1>5

LEMMA WakesTail ==
  ASSUME TypeOK, Started, mpc # "start", mpc' # "start", wakes # <<>>,
         wakes' = Tail(wakes)
  PROVE  /\ wakes' \in Seq(Wakes)
         /\ \A i \in 1 .. Len(wakes') : wakes'[i] = "initial" => i = 1
         /\ ~Starting'
<1>1. wakes \in Seq(Wakes)
  BY DEF TypeOK
<1>2. /\ wakes' \in Seq(Wakes) /\ Len(wakes') = Len(wakes) - 1
      /\ \A i \in 1 .. Len(wakes') : wakes'[i] = wakes[i + 1]
  BY <1>1
<1>3. \A i \in 1 .. Len(wakes') : wakes'[i] # "initial"
  <2>1. \A i \in 1 .. Len(wakes') : i + 1 \in 1 .. Len(wakes) /\ i + 1 # 1
    BY <1>1, <1>2
  <2> QED
    BY <1>2, <2>1 DEF Started
<1>4. ~Starting'
  <2>1. wakes' # <<>> => Head(wakes') = wakes'[1] /\ 1 \in 1 .. Len(wakes')
    BY <1>2
  <2> QED
    BY <1>3, <2>1 DEF Starting
<1> QED
  BY <1>2, <1>3, <1>4

LEMMA UserKeeps ==
  ASSUME IndInv, User
  PROVE  IndInv'
<1>1. UserStep
  BY UserIs DEF IndInv
<1>2. mpc # "start" /\ ~Starting
  BY <1>1 DEF UserStep, IndInv, Started, Starting
<1>3. /\ wakes' \in Seq(Wakes)
      /\ \A i \in 1 .. Len(wakes') : wakes'[i] = "initial" => i = 1
      /\ ~Starting'
  <2>1. CASE wakes' = wakes
    BY <1>1, <1>2, <2>1 DEF IndInv, TypeOK, Started, Starting, UserStep
  <2>2. CASE wakes' = Append(wakes, "stop")
    <3>1. "stop" \in Wakes /\ "stop" # "initial" /\ mpc' # "start"
      BY <1>1, <1>2 DEF Wakes, UserStep
    <3> QED
      BY <1>2, <2>2, <3>1, WakesAppend DEF IndInv
  <2> QED
    BY <1>1, <2>1, <2>2 DEF UserStep
<1>4. Started'
  BY <1>1, <1>2, <1>3 DEF Started, UserStep
<1>5. Grows
  BY <1>1, PostingGrows DEF IndInv, UserStep
<1>6. TypeOK'
  BY <1>1, <1>3, <1>5, GuiKeepsTypes DEF IndInv, TypeOK, UserStep, modelVars
<1>7. Stopping'
  BY <1>1, <1>5, GuiKeepsStopping DEF IndInv, UserStep, modelVars
<1>8. Presenting'
  BY <1>1 DEF IndInv, Presenting, Presenters, Chrome, UserStep
<1> QED
  BY <1>4, <1>6, <1>7, <1>8 DEF IndInv
-----------------------------------------------------------------------------
(* The GUI thread: publications, presenters                                  *)

LEMMA HydrateIs ==
  ASSUME NEW ui, IsModel(ui), NEW p
  PROVE  LET m == HydrateInjectedPublicationGraph(
                    ReadAndInjectPublicationLayers(ui, p), p)
         IN  IsModel(m) /\ m.surfaces = p.surfaces
<1>1. PICK a, b : a = p.size @@ ui.size /\ b = p.bounds @@ ui.bounds
  OBVIOUS
<1>2. PICK m : m = [ui EXCEPT !.size = a, !.bounds = b]
  OBVIOUS
<1>3. m = ReadAndInjectPublicationLayers(ui, p)
  BY <1>1, <1>2, Zenon DEF ReadAndInjectPublicationLayers
<1>4. m = [surfaces |-> ui.surfaces, current |-> ui.current, z |-> ui.z,
           size |-> a, bounds |-> b]
  BY <1>2 DEF IsModel
<1>5. HydrateInjectedPublicationGraph(m, p) =
        [surfaces |-> p.surfaces, current |-> p.current, z |-> p.z,
         size |-> a, bounds |-> b]
  <2>1. HydrateInjectedPublicationGraph(m, p) =
          [m EXCEPT !.surfaces = p.surfaces, !.current = p.current, !.z = p.z]
    BY DEF HydrateInjectedPublicationGraph
  <2>2. PICK x, y, v : x = p.surfaces /\ y = p.current /\ v = p.z
    OBVIOUS
  <2>3. PICK m1 : m1 = [m EXCEPT !.surfaces = x]
    OBVIOUS
  <2>4. m1 = [surfaces |-> x, current |-> ui.current, z |-> ui.z,
              size |-> a, bounds |-> b]
    BY <1>4, <2>3
  <2>5. PICK m2 : m2 = [m1 EXCEPT !.current = y]
    OBVIOUS
  <2>6. m2 = [surfaces |-> x, current |-> y, z |-> ui.z, size |-> a, bounds |-> b]
    BY <2>4, <2>5
  <2>7. PICK m3 : m3 = [m2 EXCEPT !.z = v]
    OBVIOUS
  <2>8. m3 = [surfaces |-> x, current |-> y, z |-> v, size |-> a, bounds |-> b]
    BY <2>6, <2>7
  <2>9. HydrateInjectedPublicationGraph(m, p) = m3
    BY <2>1, <2>2, <2>3, <2>5, <2>7
  <2> QED
    BY <2>2, <2>8, <2>9
<1> QED
  BY <1>3, <1>5 DEF IsModel

LEMMA NoMirrorIs == IsModel(NoMirror) /\ NoMirror.surfaces = <<>>
BY DEF NoMirror, IsModel

LEMMA RangeEmpty == Range(<<>>) = {}
BY DEF Range

LEMMA ConsumeKeeps ==
  ASSUME IndInv, NEW h, NEW kind \in {"initial", "incremental"}, NEW slot,
         Consumes(h, kind, slot)
  PROVE  IndInv'
<1>1. /\ gpc = "loop" /\ wakes # <<>> /\ Head(wakes) = kind
      /\ wakes' = Tail(wakes)
      /\ mirror' = IF kind = "initial" THEN LoadInitialPublication(channel.data)
                   ELSE DeserializeObjectGraphFromBuffer(mirror, channel.data)
      /\ channel' = [channel EXCEPT !.state = slot]
      /\ gpc' = IF kind = "initial" THEN "initialize" ELSE "unload"
      /\ UNCHANGED <<host, modelVars, work, stop, mpc, loaded, atStop>>
  BY DEF Consumes, GuiFree
<1>2. mpc # "start" /\ mpc' # "start"
  BY <1>1 DEF IndInv, Started
<1>3. /\ wakes' \in Seq(Wakes)
      /\ \A i \in 1 .. Len(wakes') : wakes'[i] = "initial" => i = 1
      /\ ~Starting'
  BY <1>1, <1>2, WakesTail DEF IndInv
<1>4. IsModel(mirror') /\ IsSeq(mirror'.surfaces)
  <2>1. PICK p : p = channel.data
    OBVIOUS
  <2>2. IsModel(mirror) /\ IsSeq(p.surfaces)
    BY <2>1 DEF IndInv, TypeOK
  <2>3. PICK ui : IsModel(ui) /\ (ui = NoMirror \/ ui = mirror)
          /\ mirror' = HydrateInjectedPublicationGraph(
                         ReadAndInjectPublicationLayers(ui, p), p)
    BY <1>1, <2>1, <2>2, NoMirrorIs
       DEF LoadInitialPublication, DeserializeObjectGraphFromBuffer
  <2> QED
    BY <2>2, <2>3, HydrateIs
<1>5. /\ channel' = [state |-> channel'.state, data |-> channel'.data]
      /\ channel'.data = channel.data
  <2>1. channel = [state |-> channel.state, data |-> channel.data]
    BY DEF IndInv, TypeOK
  <2>2. channel' = [state |-> slot, data |-> channel.data]
    BY <1>1, <2>1
  <2> QED
    BY <2>2
<1>6. Grows
  BY <1>1, PostingGrows DEF IndInv, Posting
<1>7. TypeOK'
  <2>1. IsSeq(channel'.data.surfaces)
    BY <1>5 DEF IndInv, TypeOK
  <2> QED
    BY <1>1, <1>3, <1>4, <1>5, <1>6, <2>1, GuiKeepsTypes DEF IndInv, modelVars
<1>8. Stopping'
  BY <1>1, <1>6, GuiKeepsStopping DEF IndInv, modelVars
<1>9. Started'
  BY <1>2, <1>3 DEF Started
<1>10. Presenting'
  <2>1. CASE kind = "initial"
    <3>1. loaded' = <<>> /\ gpc' = "initialize" /\ loaded = <<>>
      BY <1>1, <2>1 DEF IndInv, Started, Starting
    <3> QED
      BY <1>1, <3>1, RangeEmpty DEF IndInv, Presenting
  <2>2. CASE kind = "incremental"
    <3>1. gpc' = "unload"
      BY <1>1, <2>2
    <3> QED
      BY <1>1, <3>1 DEF IndInv, Presenting
  <2> QED
    BY <2>1, <2>2
<1> QED
  BY <1>7, <1>8, <1>9, <1>10 DEF IndInv

\* The order of loading: the window of each presenter is before it.
WindowFirst(q) ==
  \A i \in 1 .. Len(q) : \E j \in 1 .. i : q[j] = <<q[i][1], "window">>

LEMMA AppendPresenter ==
  ASSUME NEW q, IsSeq(q), NoDup(q), WindowFirst(q), NEW p, p \notin Range(q),
         p = <<p[1], "window">> \/ <<p[1], "window">> \in Range(q)
  PROVE  NoDup(Append(q, p)) /\ WindowFirst(Append(q, p))
<1>1. PICK a, n :
        /\ a = Append(q, p) /\ IsSeq(a) /\ n = Len(q) /\ n \in Nat
        /\ Len(a) = n + 1 /\ a[n + 1] = p
        /\ \A i \in 1 .. n : a[i] = q[i]
        /\ \A i \in 1 .. n + 1 : i = n + 1 \/ i \in 1 .. n
  BY AppendIs
<1>2. \A i \in 1 .. n : q[i] # p
  BY <1>1, RangeIs
<1>3. NoDup(a)
  <2>1. \A i, j \in 1 .. n : q[i] = q[j] => i = j
    BY <1>1 DEF NoDup
  <2>2. \A i, j \in 1 .. n + 1 : a[i] = a[j] => i = j
    BY <1>1, <1>2, <2>1
  <2> QED
    BY <1>1, <2>2 DEF NoDup
<1>4. ASSUME NEW i \in 1 .. n + 1 PROVE \E j \in 1 .. i : a[j] = <<a[i][1], "window">>
  <2>1. CASE i \in 1 .. n
    <3>1. PICK j \in 1 .. i : q[j] = <<q[i][1], "window">>
      BY <1>1, <2>1 DEF WindowFirst
    <3>2. j \in 1 .. n /\ a[j] = q[j] /\ a[i] = q[i]
      BY <1>1, <2>1
    <3> QED
      BY <3>1, <3>2
  <2>2. CASE i = n + 1
    <3>1. CASE p = <<p[1], "window">>
      <4>1. i \in 1 .. i /\ a[i] = <<a[i][1], "window">>
        BY <1>1, <2>2, <3>1
      <4> QED
        BY <4>1
    <3>2. CASE <<p[1], "window">> \in Range(q)
      <4>1. PICK j \in 1 .. n : q[j] = <<p[1], "window">>
        BY <1>1, <3>2, RangeIs
      <4>2. j \in 1 .. i /\ a[j] = q[j] /\ a[i] = p
        BY <1>1, <2>2
      <4> QED
        BY <4>1, <4>2
    <3> QED
      BY <3>1, <3>2
  <2> QED
    BY <1>1, <2>1, <2>2
<1>5. WindowFirst(a)
  BY <1>1, <1>4 DEF WindowFirst
<1> QED
  BY <1>1, <1>3, <1>5

\* The newest presenter of a set that holds no window without its button.
LEMMA RemovePresenter ==
  ASSUME NEW q, IsSeq(q), NoDup(q), WindowFirst(q), NEW ps, NEW k \in 1 .. Len(q),
         q[k] \in ps,
         \A i \in 1 .. Len(q) : q[i] \in ps => i <= k,
         \A i \in 1 .. Len(q) : <<q[i][1], "window">> \in ps => q[i] \in ps
  PROVE  WindowFirst(RemoveAt(q, k))
<1>1. PICK r, n :
        /\ r = RemoveAt(q, k) /\ IsSeq(r) /\ n = Len(q) /\ n \in Nat
        /\ Len(r) = n - 1
        /\ \A j \in 1 .. n - 1 : r[j] = IF j < k THEN q[j] ELSE q[j + 1]
  BY RemoveAtIs
<1>2. k \in 1 .. n
  BY <1>1
<1>3. ASSUME NEW i \in 1 .. n - 1 PROVE \E j \in 1 .. i : r[j] = <<r[i][1], "window">>
  <2>1. PICK m \in 1 .. n : m = IF i < k THEN i ELSE i + 1
    BY <1>1, <1>2
  <2>2. r[i] = q[m] /\ m # k
    BY <1>1, <1>2, <2>1
  <2>3. PICK j \in 1 .. m : q[j] = <<q[m][1], "window">>
    BY <1>1 DEF WindowFirst
  <2>4. j # k
    <3> SUFFICES ASSUME j = k PROVE FALSE
      OBVIOUS
    <3>1. q[m] \in ps
      BY <1>1, <2>3
    <3>2. m <= k
      BY <1>1, <3>1
    <3> QED
      BY <1>2, <2>2, <3>2
  <2>5. CASE j < k
    <3>1. j \in 1 .. i /\ j \in 1 .. n - 1 /\ r[j] = q[j]
      BY <1>1, <1>2, <2>1, <2>5
    <3> QED
      BY <2>2, <2>3, <3>1
  <2>6. CASE k < j
    <3>1. j - 1 \in 1 .. i /\ j - 1 \in 1 .. n - 1 /\ ~ (j - 1 < k) /\ (j - 1) + 1 = j
      BY <1>1, <1>2, <2>1, <2>6
    <3>2. r[j - 1] = q[j]
      BY <1>1, <3>1
    <3> QED
      BY <2>2, <2>3, <3>1, <3>2
  <2> QED
    BY <1>2, <2>4, <2>5, <2>6
<1> QED
  BY <1>1, <1>3 DEF WindowFirst
-----------------------------------------------------------------------------
(* The GUI thread: steps that leave the messages and the mirror alone        *)

Quiet ==
  /\ Posting
  /\ channel' = channel \/ channel' = [channel EXCEPT !.state = "free"]
  /\ UNCHANGED <<host, model, created, saved, mpc, stop, wakes, mirror, atStop>>

LEMMA QuietKeeps ==
  ASSUME IndInv, Quiet,
         ~Starting \/ UNCHANGED <<gpc, loaded>>,
         gpc' = gpc \/ (gpc # "stopping" /\ gpc' # "stopping")
  PROVE  TypeOK' /\ Started' /\ Stopping'
<1>1. Grows
  BY PostingGrows DEF IndInv, Quiet
<1>2. /\ channel' = [state |-> channel'.state, data |-> channel'.data]
      /\ channel'.data = channel.data
  <2>1. channel = [state |-> channel.state, data |-> channel.data]
    BY DEF IndInv, TypeOK
  <2>2. channel' = [state |-> "free", data |-> channel.data] \/ channel' = channel
    BY <2>1 DEF Quiet
  <2> QED
    BY <2>1, <2>2
<1>3. TypeOK'
  <2>1. /\ IsModel(mirror') /\ IsSeq(mirror'.surfaces) /\ wakes' \in Seq(Wakes)
        /\ IsSeq(channel'.data.surfaces)
    BY <1>2 DEF IndInv, TypeOK, Quiet
  <2> QED
    BY <1>1, <1>2, <2>1, GuiKeepsTypes DEF IndInv, Quiet
<1>4. Stopping'
  BY <1>1, GuiKeepsStopping DEF IndInv, Quiet
<1>5. Started'
  BY DEF IndInv, Started, Starting, Quiet
<1> QED
  BY <1>3, <1>4, <1>5

LEMMA BusyNotStarting ==
  ASSUME IndInv, gpc # "loop" \/ stop
  PROVE  ~Starting
BY DEF IndInv, Started

LEMMA LoadKeeps ==
  ASSUME IndInv, NEW h, NEW p, Loads(h, p), Posting
  PROVE  IndInv'
<1>1. /\ gpc \in {"initialize", "load"} /\ p \in Presenters /\ p \notin Range(loaded)
      /\ ReadyForPresentation(p) /\ loaded' = Append(loaded, p)
      /\ UNCHANGED <<host, modelVars, stop, mpc, channel, wakes, gpc, mirror, atStop>>
  BY DEF Loads
<1>2. TypeOK' /\ Started' /\ Stopping'
  BY <1>1, QuietKeeps, BusyNotStarting DEF Quiet, modelVars
<1>3. PICK q : q = loaded
  OBVIOUS
<1>4. IsSeq(q) /\ NoDup(q) /\ WindowFirst(q) /\ p \notin Range(q)
      /\ Range(q) \subseteq Presenters
  BY <1>1, <1>3 DEF IndInv, Presenting, WindowFirst
<1>5. p = <<p[1], "window">> \/ <<p[1], "window">> \in Range(q)
  <2>1. p = <<p[1], p[2]>> /\ p[2] \in {"window", "button"}
    BY <1>1 DEF Presenters, Chrome
  <2> QED
    BY <1>1, <1>3, <2>1 DEF ReadyForPresentation
<1>6. PICK a : a = Append(q, p)
  OBVIOUS
<1>7. IsSeq(a) /\ NoDup(a) /\ WindowFirst(a) /\ Range(a) = Range(q) \cup {p}
  BY <1>4, <1>5, <1>6, AppendIs, AppendPresenter, RangeAppend
<1>8. loaded' = a /\ Presenters' = Presenters
  BY <1>1, <1>3, <1>6 DEF Presenters, Chrome
<1>9. Presenting'
  BY <1>1, <1>4, <1>7, <1>8 DEF Presenting, WindowFirst
<1> QED
  BY <1>2, <1>9 DEF IndInv

\* The publication is shown: what is loaded is what the mirror reaches.
LEMMA SettleKeeps ==
  ASSUME IndInv, NEW h, NEW ws, Harmless(ws), Settles(h, ws),
         channel' = channel \/ channel' = [channel EXCEPT !.state = "free"]
  PROVE  IndInv'
<1>1. /\ gpc \in {"initialize", "load"} /\ Presenters \subseteq Range(loaded)
      /\ work' = Posted(ws) /\ gpc' = "loop"
      /\ UNCHANGED <<host, modelVars, stop, mpc, wakes, mirror, loaded, atStop>>
  BY DEF Settles
<1>2. Posting
  BY <1>1, PostsHarmless
<1>3. TypeOK' /\ Started' /\ Stopping'
  BY <1>1, <1>2, QuietKeeps, BusyNotStarting DEF Quiet, modelVars
<1>4. Range(loaded) = Presenters /\ Presenters' = Presenters
  BY <1>1 DEF IndInv, Presenting, Presenters, Chrome
<1>5. Presenting'
  BY <1>1, <1>4 DEF IndInv, Presenting
<1> QED
  BY <1>3, <1>5 DEF IndInv

\* What the hosts answer a publication with.
LEMMA SizesHarmless ==
  ASSUME TypeOK
  PROVE  Harmless(ReportPresentationSizes)
<1>1. PICK q, f : q = mirror.surfaces /\ f = native
  OBVIOUS
<1>2. IsSeq(q)
  BY <1>1 DEF TypeOK
<1>3. PICK m : m = [i \in DOMAIN q |-> [op |-> "size", s |-> q[i], v |-> f[q[i]]]]
  OBVIOUS
<1>4. Harmless(m)
  BY <1>2, <1>3, HarmlessSizes
<1>5. ReportPresentationSizes = m
  BY <1>1, <1>3, Zenon DEF ReportPresentationSizes, Map, SizeOf
<1> QED
  BY <1>4, <1>5

LEMMA SettlesKeep ==
  ASSUME IndInv, WinSettles \/ LinuxSettles \/ WebSettles \/ PublishPages
  PROVE  IndInv'
<1>1. CASE WinSettles
  <2>1. PICK ws : ws = <<>>
    OBVIOUS
  <2>2. Settles("windows", ws) /\ channel' = channel
    BY <1>1, <2>1 DEF WinSettles
  <2>3. Harmless(ws)
    BY <2>1, HarmlessEmpty
  <2> QED
    BY <2>2, <2>3, SettleKeeps
<1>2. CASE LinuxSettles
  <2>1. PICK ws : ws = IF gpc = "initialize" THEN RestoreActiveSurfaceZOrder ELSE <<>>
    OBVIOUS
  <2>2. Settles("linux", ws) /\ channel' = channel
    BY <1>2, <2>1 DEF LinuxSettles
  <2>3. PICK c, l : c = mirror.current /\ l = Last(mirror.surfaces)
    OBVIOUS
  <2>4. ws = <<>> \/ ws = PageShown(c) \/ ws = PageShown(l)
    BY <2>1, <2>3 DEF RestoreActiveSurfaceZOrder
  <2>5. Harmless(ws)
    BY <2>4, HarmlessEmpty, PageShownHarmless
  <2> QED
    BY <2>2, <2>5, SettleKeeps
<1>3. CASE WebSettles
  <2>1. PICK a, b, c, e :
          /\ a = EnsureModelCurrentSeeded /\ b = ReportPresentationSizes
          /\ c = PersistState
          /\ e = IF EffectiveCurrentId = None THEN <<>> ELSE PageShown(EffectiveCurrentId)
    OBVIOUS
  <2>2. Harmless(b) /\ Harmless(c)
    BY <2>1, SizesHarmless, PersistStateHarmless DEF IndInv
  <2>3. Harmless(a)
    <3>1. PICK x : x = Head(mirror.surfaces)
      OBVIOUS
    <3>2. a = <<>> \/ a = PageShown(x)
      BY <2>1, <3>1 DEF EnsureModelCurrentSeeded
    <3> QED
      BY <3>2, HarmlessEmpty, PageShownHarmless
  <2>4. Harmless(e)
    <3>1. PICK x : x = EffectiveCurrentId
      OBVIOUS
    <3>2. e = <<>> \/ e = PageShown(x)
      BY <2>1, <3>1
    <3> QED
      BY <3>2, HarmlessEmpty, PageShownHarmless
  <2>5. PICK d : d = IF gpc = "initialize" THEN a \o b ELSE b \o e
    OBVIOUS
  <2>6. Harmless(d)
    BY <2>2, <2>3, <2>4, <2>5, HarmlessCat
  <2>7. PICK ws : ws = d \o c
    OBVIOUS
  <2>8. Harmless(ws)
    BY <2>2, <2>6, <2>7, HarmlessCat
  <2>9. Settles("web", ws) /\ channel' = [channel EXCEPT !.state = "free"]
    BY <1>3, <2>1, <2>5, <2>7 DEF WebSettles, QueueIndexedDbPersist
  <2> QED
    BY <2>8, <2>9, SettleKeeps
<1>4. CASE PublishPages
  <2>1. PICK shown :
          /\ shown \in IF mirror.current # None \/ mirror.surfaces = <<>> THEN {<<>>}
                    ELSE {PageShown(s) \o PersistState : s \in Range(mirror.surfaces)}
          /\ Settles("android", ReportPresentationSizes \o shown)
    BY <1>4 DEF PublishPages
  <2>2. Harmless(shown)
    <3>1. CASE shown = <<>>
      BY <3>1, HarmlessEmpty
    <3>2. CASE \E s : shown = PageShown(s) \o PersistState
      <4>1. PICK s : shown = PageShown(s) \o PersistState
        BY <3>2
      <4>2. PICK x, y : x = PageShown(s) /\ y = PersistState
        OBVIOUS
      <4>3. Harmless(x) /\ Harmless(y) /\ shown = x \o y
        BY <4>1, <4>2, PageShownHarmless, PersistStateHarmless
      <4> QED
        BY <4>3, HarmlessCat
    <3> QED
      BY <2>1, <3>1, <3>2
  <2>3. PICK b : b = ReportPresentationSizes
    OBVIOUS
  <2>4. PICK ws : ws = b \o shown
    OBVIOUS
  <2>5. Harmless(ws)
    BY <2>2, <2>3, <2>4, SizesHarmless, HarmlessCat DEF IndInv
  <2>6. Settles("android", ws) /\ channel' = channel
    BY <1>4, <2>1, <2>3, <2>4 DEF PublishPages
  <2> QED
    BY <2>5, <2>6, SettleKeeps
<1> QED
  BY <1>1, <1>2, <1>3, <1>4

LEMMA EnsureKeeps ==
  ASSUME IndInv, GuiEnsuresDrain
  PROVE  IndInv'
<1>1. /\ EnsureDrainScheduled
      /\ UNCHANGED <<host, modelVars, stop, mpc, channel, wakes, gpc, mirror, loaded,
                     atStop>>
  BY DEF GuiEnsuresDrain
<1>2. PICK w : w = [op |-> "drain"]
  OBVIOUS
<1>3. w.op \in HarmlessOps
  BY <1>2 DEF HarmlessOps
<1>4. PICK ws : ws = <<w>>
  OBVIOUS
<1>5. Harmless(ws)
  BY <1>3, <1>4, HarmlessOne
<1>6. Posting
  BY <1>1, <1>2, <1>4, <1>5, PostsHarmless DEF EnsureDrainScheduled, Posting
<1>7. TypeOK' /\ Started' /\ Stopping'
  BY <1>1, <1>6, QuietKeeps DEF Quiet, modelVars
<1>8. Presenting'
  BY <1>1 DEF IndInv, Presenting, Presenters, Chrome
<1> QED
  BY <1>7, <1>8 DEF IndInv

LEMMA FinishKeeps ==
  ASSUME IndInv, NEW h, Finishes(h)
  PROVE  IndInv'
<1>1. /\ gpc = "loop" /\ mpc = "done" /\ gpc' = "ending" /\ work' = work
      /\ UNCHANGED <<host, modelVars, stop, mpc, channel, wakes, mirror, loaded, atStop>>
  BY DEF Finishes, GuiFree
<1>2. ~Starting
  BY <1>1, BusyNotStarting DEF IndInv, Stopping
<1>3. TypeOK' /\ Started' /\ Stopping'
  BY <1>1, <1>2, QuietKeeps DEF Quiet, Posting, modelVars
<1>4. Presenting'
  BY <1>1 DEF IndInv, Presenting, Presenters, Chrome
<1> QED
  BY <1>3, <1>4 DEF IndInv

LEMMA UnloadedKeeps ==
  ASSUME IndInv, UnloadedRemoved
  PROVE  IndInv'
<1>1. /\ gpc = "unload" /\ gpc' = "load" /\ work' = work
      /\ Range(loaded) \subseteq Presenters
      /\ UNCHANGED <<host, modelVars, stop, mpc, channel, wakes, mirror, loaded, atStop>>
  BY DEF UnloadedRemoved
<1>2. TypeOK' /\ Started' /\ Stopping'
  BY <1>1, QuietKeeps, BusyNotStarting DEF Quiet, Posting, modelVars
<1>3. Presenting'
  BY <1>1 DEF IndInv, Presenting, Presenters, Chrome
<1> QED
  BY <1>2, <1>3 DEF IndInv

LEMMA UnloadKeeps ==
  ASSUME IndInv, UnloadRemoved \/ UnloadPresenters
  PROVE  IndInv'
<1>1. PICK ps :
        /\ UnloadLatest(ps)
        /\ \/ gpc = "unload" /\ ps = Range(loaded) \ Presenters
           \/ gpc = "ending" /\ ps = Presenters
  BY DEF UnloadRemoved, UnloadPresenters
<1>2. /\ gpc' = gpc /\ work' = work
      /\ UNCHANGED <<host, modelVars, stop, mpc, channel, wakes, mirror, atStop>>
  BY DEF UnloadRemoved, UnloadPresenters
<1>3. TypeOK' /\ Started' /\ Stopping'
  BY <1>1, <1>2, QuietKeeps, BusyNotStarting DEF Quiet, Posting, modelVars
<1>4. PICK q, n, k :
        /\ q = loaded /\ n = Len(q)
        /\ k = SelectLastInSeq(q, LAMBDA p : p \in ps)
  OBVIOUS
<1>5. /\ IsSeq(q) /\ NoDup(q) /\ WindowFirst(q) /\ n \in Nat
  BY <1>4, AppendIs DEF IndInv, Presenting, WindowFirst
<1>6. k \in 1 .. n /\ q[k] \in ps /\ \A i \in 1 .. n : q[i] \in ps => i <= k
  <2> DEFINE I == {i \in 1 .. n : q[i] \in ps}
  <2>1. I # {}
    <3>1. PICK x : x \in Range(q) /\ x \in ps
      BY <1>1, <1>4 DEF UnloadLatest
    <3>2. PICK i \in 1 .. Len(q) : q[i] = x
      BY <1>5, <3>1, RangeIs
    <3> QED
      BY <1>4, <3>1, <3>2
  <2>2. k = Max(I)
    BY <1>4, <2>1 DEF SelectLastInSeq
  <2>3. I \subseteq 1 .. n
    OBVIOUS
  <2>4. Max(I) \in I /\ \A j \in I : j <= Max(I)
    <3> HIDE DEF I
    <3> QED
      BY <1>5, <2>1, <2>3, MaxIs
  <2> QED
    BY <2>2, <2>4
<1>7. \A i \in 1 .. n : <<q[i][1], "window">> \in ps => q[i] \in ps
  <2>1. \A i \in 1 .. n : q[i] \in Range(q)
    BY <1>4, <1>5, RangeIs
  <2>2. CASE gpc = "ending"
    BY <1>1, <1>4, <2>1, <2>2 DEF IndInv, Presenting
  <2>3. CASE gpc = "unload" /\ ps = Range(loaded) \ Presenters
    <3>1. ASSUME NEW x \in Presenters PROVE <<x[1], "window">> \in Presenters
      BY DEF Presenters, Chrome
    <3> QED
      BY <1>4, <2>1, <2>3, <3>1
  <2> QED
    BY <1>1, <2>2, <2>3
<1>8. PICK r : r = RemoveAt(q, k)
  OBVIOUS
<1>9. IsSeq(r) /\ NoDup(r) /\ WindowFirst(r) /\ Range(r) = Range(q) \ {q[k]}
  BY <1>4, <1>5, <1>6, <1>7, <1>8, RemoveAtIs, RemoveAtRange, RemovePresenter
<1>10. loaded' = r
  BY <1>1, <1>4, <1>8, Zenon DEF UnloadLatest
<1>11. Presenters' = Presenters
  BY <1>2 DEF Presenters, Chrome
<1>12. Presenting'
  BY <1>1, <1>2, <1>4, <1>9, <1>10, <1>11 DEF IndInv, Presenting, WindowFirst
<1> QED
  BY <1>3, <1>12 DEF IndInv

LEMMA EndKeeps ==
  ASSUME IndInv, EndGui
  PROVE  IndInv'
<1>1. /\ gpc = "ending" /\ Range(loaded) \cap Presenters = {} /\ mirror' = NoMirror
      /\ gpc' = "ended" /\ work' = work
      /\ UNCHANGED <<host, modelVars, stop, mpc, channel, wakes, loaded, atStop>>
  BY DEF EndGui
<1>2. Grows
  BY <1>1, PostingGrows DEF IndInv, Posting
<1>3. TypeOK'
  <2>1. IsModel(mirror') /\ IsSeq(mirror'.surfaces)
    BY <1>1, NoMirrorIs, EmptyIs
  <2>2. /\ channel' = [state |-> channel'.state, data |-> channel'.data]
        /\ IsSeq(channel'.data.surfaces) /\ wakes' \in Seq(Wakes)
    BY <1>1 DEF IndInv, TypeOK
  <2> QED
    BY <1>1, <1>2, <2>1, <2>2, GuiKeepsTypes DEF IndInv, modelVars
<1>4. Stopping'
  BY <1>1, <1>2, GuiKeepsStopping DEF IndInv, modelVars
<1>5. Started'
  BY <1>1, BusyNotStarting DEF IndInv, Started, Starting
<1>6. loaded = <<>>
  <2>1. Range(loaded) = {} /\ IsSeq(loaded)
    BY <1>1 DEF IndInv, Presenting
  <2>2. \A i \in 1 .. Len(loaded) : loaded[i] \in Range(loaded)
    BY <2>1, RangeIs
  <2>3. Len(loaded) = 0
    <3>1. Len(loaded) \in Nat
      BY <2>1, AppendIs
    <3> QED
      BY <2>1, <2>2, <3>1
  <2> QED
    BY <2>1, <2>3 DEF IsSeq
<1>7. Presenting'
  BY <1>1, <1>6, RangeEmpty DEF IndInv, Presenting
<1> QED
  BY <1>3, <1>4, <1>5, <1>7 DEF IndInv

LEMMA RequestStopKeeps ==
  ASSUME IndInv, RequestStop
  PROVE  IndInv'
<1>1. /\ gpc = "stopping" /\ stop' = TRUE /\ gpc' = "loop" /\ work' = work
      /\ UNCHANGED <<host, modelVars, mpc, channel, wakes, mirror, loaded, atStop>>
  BY DEF RequestStop
<1>2. TypeOK'
  BY <1>1 DEF IndInv, TypeOK, modelVars
<1>3. Started'
  BY <1>1, BusyNotStarting DEF IndInv, Started, Starting
<1>4. Presenting'
  BY <1>1 DEF IndInv, Presenting, Presenters, Chrome
<1>5. Stopping'
  BY <1>1 DEF IndInv, Stopping, Before, BoundsOf, modelVars
<1> QED
  BY <1>2, <1>3, <1>4, <1>5 DEF IndInv

-----------------------------------------------------------------------------
(* A stop: what the windows look like is posted                              *)

LEMMA RangeCat ==
  ASSUME NEW a, NEW b, IsSeq(a), IsSeq(b)
  PROVE  Range(a \o b) = Range(a) \cup Range(b)
<1>0. PICK c, n, m : c = a \o b /\ n = Len(a) /\ m = Len(b)
  OBVIOUS
<1>1. /\ c = a \o b /\ n = Len(a) /\ m = Len(b)
      /\ IsSeq(c) /\ n \in Nat /\ m \in Nat /\ Len(c) = n + m
      /\ \A i \in 1 .. n : c[i] = a[i]
      /\ \A i \in 1 .. m : c[n + i] = b[i]
      /\ \A i \in 1 .. n + m : i \in 1 .. n \/ \E j \in 1 .. m : i = n + j
  BY <1>0, CatIs
<1>2. \A x : x \in Range(c) <=> \E i \in 1 .. n + m : c[i] = x
  <2>0. IsSeq(c)
    BY <1>1
  <2>1. \A x : x \in Range(c) <=> \E i \in 1 .. Len(c) : c[i] = x
    BY <2>0, RangeIs
  <2> QED
    BY <1>1, <2>1
<1>3. \A x : /\ x \in Range(a) <=> \E i \in 1 .. n : a[i] = x
             /\ x \in Range(b) <=> \E i \in 1 .. m : b[i] = x
  BY <1>1, RangeIs
<1>4. ASSUME NEW x \in Range(c) PROVE x \in Range(a) \cup Range(b)
  BY <1>1, <1>2, <1>3
<1>5. ASSUME NEW x \in Range(a) PROVE x \in Range(c)
  <2>1. PICK i \in 1 .. n : a[i] = x
    BY <1>3
  <2>2. i \in 1 .. n + m
    BY <1>1
  <2> QED
    BY <1>1, <1>2, <2>1, <2>2
<1>6. ASSUME NEW x \in Range(b) PROVE x \in Range(c)
  <2>1. PICK i \in 1 .. m : b[i] = x
    BY <1>3
  <2>2. n + i \in 1 .. n + m
    BY <1>1
  <2> QED
    BY <1>1, <1>2, <2>1, <2>2
<1> QED
  BY <1>1, <1>4, <1>5, <1>6

LEMMA OneIs ==
  ASSUME NEW w
  PROVE  IsSeq(<<w>>) /\ Range(<<w>>) = {w}
<1>1. <<w>> \in Seq({w}) /\ Len(<<w>>) = 1
  OBVIOUS
<1>2. PICK q : q = <<w>>
  OBVIOUS
<1>3. IsSeq(q) /\ Len(q) = 1 /\ q[1] = w
  BY <1>1, <1>2 DEF IsSeq
<1>4. \A x : x \in Range(q) <=> x = w
  <2>1. \A i : i \in 1 .. 1 <=> i = 1
    OBVIOUS
  <2> QED
    BY <1>3, <2>1, RangeIs
<1> QED
  BY <1>2, <1>3, <1>4

\* The bounds of every window, and of nothing else; on Windows a z-order.
WindowState(q, f, h, ws) ==
  /\ IsSeq(ws)
  /\ \A x \in Range(ws) :
       /\ x.op \in {"bounds", "zOrder", "makeCurrent"}
       /\ x.op = "bounds" => x.s \in Range(q) /\ x.v = f[x.s]
       /\ x.op = "zOrder" => IsSeq(x.order)
  /\ \A s \in Range(q) : \E x \in Range(ws) : x.op = "bounds" /\ x.s = s
  /\ h = "windows" => \E x \in Range(ws) : x.op = "zOrder"

LEMMA BoundsAre ==
  ASSUME NEW q, IsSeq(q), NEW f
  PROVE  LET b == [i \in DOMAIN q |-> [op |-> "bounds", s |-> q[i], v |-> f[q[i]]]]
         IN  /\ IsSeq(b)
             /\ Range(b) = {[op |-> "bounds", s |-> x, v |-> f[x]] : x \in Range(q)}
<1>1. PICK S : q \in Seq(S)
  BY DEF IsSeq
<1>2. DOMAIN q = 1 .. Len(q) /\ Len(q) \in Nat
  BY <1>1
<1> DEFINE m == [i \in 1 .. Len(q) |-> [op |-> "bounds", s |-> q[i], v |-> f[q[i]]]]
           R == {[op |-> "bounds", s |-> q[i], v |-> f[q[i]]] : i \in 1 .. Len(q)}
<1>3. m \in [1 .. Len(q) -> R]
  OBVIOUS
<1>4. m \in Seq(R)
  <2> HIDE DEF m, R
  <2> QED
    BY <1>2, <1>3
<1>5. Range(m) = R
  BY DEF Range
<1>6. Range(q) = {q[i] : i \in 1 .. Len(q)}
  BY <1>2 DEF Range
<1>7. R = {[op |-> "bounds", s |-> x, v |-> f[x]] : x \in Range(q)}
  BY <1>6
<1>8. IsSeq(m)
  BY <1>4 DEF IsSeq
<1> QED
  BY <1>2, <1>5, <1>7, <1>8

LEMMA QueuesKeeps ==
  ASSUME IndInv, NEW h, NEW ws, WindowState(mirror.surfaces, native, host, ws),
         QueuesWindowState(h, ws)
  PROVE  IndInv'
<1>1. /\ gpc = "loop" /\ wakes # <<>> /\ Head(wakes) = "stop" /\ wakes' = Tail(wakes)
      /\ work' = Posted(ws)
      /\ atStop' = IF stop THEN atStop
                   ELSE [s \in Ids |-> IF s \in Range(mirror.surfaces) THEN native[s]
                                       ELSE None]
      /\ gpc' = "stopping"
      /\ UNCHANGED <<host, modelVars, stop, mpc, channel, mirror, loaded>>
  BY DEF QueuesWindowState, GuiFree
<1>2. mpc # "start" /\ mpc' # "start"
  BY <1>1 DEF IndInv, Started
<1>3. /\ wakes' \in Seq(Wakes)
      /\ \A i \in 1 .. Len(wakes') : wakes'[i] = "initial" => i = 1
      /\ ~Starting'
  BY <1>1, <1>2, WakesTail DEF IndInv
<1>4. Started'
  BY <1>2, <1>3 DEF Started
<1>5. Presenting'
  BY <1>1 DEF IndInv, Presenting, Presenters, Chrome
<1>6. CASE stop
  <2>1. work' = work /\ atStop' = atStop
    BY <1>1, <1>6 DEF Posted
  <2>2. TypeOK'
    BY <1>1, <1>3, <2>1 DEF IndInv, TypeOK, modelVars
  <2>3. Stopping'
    BY <1>1, <1>6, <2>1 DEF IndInv, Stopping, Before, BoundsOf, modelVars
  <2> QED
    BY <1>4, <1>5, <2>2, <2>3 DEF IndInv
<1>7. CASE ~stop
  <2>1. work' = work \o ws
    BY <1>1, <1>7 DEF Posted
  <2>0. PICK q : q = work
    OBVIOUS
  <2>11. PICK n, m, c : c = q \o ws /\ n = Len(q) /\ m = Len(ws)
    OBVIOUS
  <2>2. /\ q = work /\ n = Len(q) /\ m = Len(ws) /\ c = q \o ws
        /\ IsSeq(c) /\ n \in Nat /\ m \in Nat /\ Len(c) = n + m
        /\ \A i \in 1 .. n : c[i] = q[i]
        /\ \A i \in 1 .. m : c[n + i] = ws[i]
        /\ \A i \in 1 .. n + m : i \in 1 .. n \/ \E j \in 1 .. m : i = n + j
    <3>1. IsSeq(q) /\ IsSeq(ws)
      BY <2>0 DEF IndInv, TypeOK, WindowState
    <3>2. /\ IsSeq(c) /\ n \in Nat /\ m \in Nat /\ Len(c) = n + m
          /\ \A i \in 1 .. n : c[i] = q[i]
          /\ \A i \in 1 .. m : c[n + i] = ws[i]
          /\ \A i \in 1 .. n + m : i \in 1 .. n \/ \E j \in 1 .. m : i = n + j
      BY <3>1, <2>11, CatIs
    <3> QED
      BY <2>0, <2>11, <3>2
  <2>3. work' = c /\ work = q
    BY <2>1, <2>2
  <2>4. \A i \in 1 .. m : ws[i] \in Range(ws)
    BY <2>2, RangeIs DEF WindowState
  <2>5. \A i \in 1 .. n + m : i \in 1 .. n \/ c[i] \in Range(ws)
    BY <2>2, <2>4
  <2>6. \A x \in Range(ws) : \E i \in 1 .. n + m : c[i] = x
    <3>1. ASSUME NEW x \in Range(ws) PROVE \E i \in 1 .. n + m : c[i] = x
      <4>1. PICK i \in 1 .. m : ws[i] = x
        BY <2>2, RangeIs DEF WindowState
      <4>2. n + i \in 1 .. n + m /\ c[n + i] = x
        BY <2>2, <4>1
      <4> QED
        BY <4>2
    <3> QED
      BY <3>1
  <2>7. \A i \in 1 .. n : i \in 1 .. n + m /\ c[i] = q[i]
    BY <2>2
  <2>8. Adds(c) = Adds(q)
    <3>1. \A x \in Range(ws) : x.op # "add"
      BY DEF WindowState
    <3>2. \A i \in 1 .. n + m : c[i].op = "add" => i \in 1 .. n
      BY <2>5, <3>1
    <3>3. \A i : i \in 1 .. n + m /\ c[i].op = "add" <=> i \in 1 .. n /\ q[i].op = "add"
      BY <2>7, <3>2
    <3>4. Len(c) = n + m /\ Len(q) = n
      BY <2>2
    <3> QED
      BY <3>3, <3>4 DEF Adds
  <2>9. TypeOK'
    <3>1. \A i \in 1 .. Len(c) :
            c[i].op \in Ops /\ (c[i].op = "zOrder" => IsSeq(c[i].order))
      <4>1. \A i \in 1 .. n :
              q[i].op \in Ops /\ (q[i].op = "zOrder" => IsSeq(q[i].order))
        BY <2>2 DEF IndInv, TypeOK
      <4>2. \A x \in Range(ws) : x.op \in Ops /\ (x.op = "zOrder" => IsSeq(x.order))
        BY DEF WindowState, Ops
      <4> QED
        BY <2>2, <2>5, <2>7, <4>1, <4>2
    <3>2. created + Cardinality(Adds(c)) <= MaxSurfaces
      BY <2>3, <2>8 DEF IndInv, TypeOK
    <3> QED
      BY <1>1, <1>3, <2>2, <2>3, <3>1, <3>2 DEF IndInv, TypeOK, modelVars
  <2>10. Stopping'
    <3>1. mpc' \notin {"save", "done"} /\ ~Before'
      BY <1>1, <1>7 DEF IndInv, Stopping, Before
    <3>2. \A i \in 1 .. n : q[i].op # "bounds"
      BY <1>1, <1>7, <2>2 DEF IndInv, Stopping, Before
    <3>3. ASSUME NEW s \in Ids, atStop'[s] # None
          PROVE  /\ \A i \in BoundsOf(c, s) : c[i].v = atStop'[s]
                 /\ BoundsOf(c, s) # {}
      <4>1. s \in Range(mirror.surfaces) /\ atStop'[s] = native[s]
        BY <1>1, <1>7, <3>3
      <4>2. ASSUME NEW i \in BoundsOf(c, s) PROVE c[i].v = atStop'[s]
        <5>1. i \in 1 .. n + m /\ c[i].op = "bounds" /\ c[i].s = s
          BY <2>2 DEF BoundsOf
        <5>2. c[i] \in Range(ws)
          BY <2>5, <2>7, <3>2, <5>1
        <5> QED
          BY <4>1, <5>1, <5>2 DEF WindowState
      <4>3. PICK x \in Range(ws) : x.op = "bounds" /\ x.s = s
        BY <4>1 DEF WindowState
      <4>4. PICK i \in 1 .. n + m : c[i] = x
        BY <2>6
      <4>5. i \in BoundsOf(c, s)
        BY <2>2, <4>3, <4>4 DEF BoundsOf
      <4> QED
        BY <4>2, <4>5
    <3>4. host = "windows" => \E i \in 1 .. Len(c) : c[i].op = "zOrder"
      BY <2>2, <2>6 DEF WindowState
    <3> QED
      BY <1>1, <2>3, <3>1, <3>3, <3>4 DEF Stopping
  <2> QED
    BY <1>4, <1>5, <2>9, <2>10 DEF IndInv
<1> QED
  BY <1>6, <1>7

LEMMA StopRequestKeeps ==
  ASSUME IndInv, WinRequestApplicationStop \/ LinuxRequestApplicationStop
  PROVE  IndInv'
<1>1. PICK q, f : q = mirror.surfaces /\ f = native
  OBVIOUS
<1>2. IsSeq(q)
  BY <1>1 DEF IndInv, TypeOK
<1>3. PICK b : b = [i \in DOMAIN q |-> [op |-> "bounds", s |-> q[i], v |-> f[q[i]]]]
  OBVIOUS
<1>4. /\ IsSeq(b)
      /\ Range(b) = {[op |-> "bounds", s |-> x, v |-> f[x]] : x \in Range(q)}
  BY <1>2, <1>3, BoundsAre
<1>5. QueueAllWindowBounds = b
  BY <1>1, <1>3, Zenon DEF QueueAllWindowBounds, Map, QueueCurrentBounds
<1>6. ASSUME NEW focus \in Focused
      PROVE  /\ IsSeq(focus)
             /\ \A x \in Range(focus) : x.op = "makeCurrent"
  <2>1. CASE focus = <<>>
    BY <2>1, EmptyIs, RangeEmpty
  <2>2. CASE \E s : focus = PageShown(s)
    <3>1. PICK s : focus = PageShown(s)
      BY <2>2
    <3>2. PICK w : w = Invoke("makeCurrent", s)
      OBVIOUS
    <3>3. focus = <<w>> /\ w.op = "makeCurrent"
      BY <3>1, <3>2 DEF PageShown, Invoke
    <3> QED
      BY <3>3, OneIs
  <2> QED
    BY <2>1, <2>2 DEF Focused
<1>7. \A x \in Range(b) : x.op = "bounds" /\ x.s \in Range(q) /\ x.v = f[x.s]
  BY <1>4
<1>8. \A s \in Range(q) : \E x \in Range(b) : x.op = "bounds" /\ x.s = s
  <2>1. ASSUME NEW s \in Range(q) PROVE \E x \in Range(b) : x.op = "bounds" /\ x.s = s
    <3>1. PICK x : x = [op |-> "bounds", s |-> s, v |-> f[s]]
      OBVIOUS
    <3>2. x \in Range(b)
      BY <1>4, <3>1
    <3>3. x.op = "bounds" /\ x.s = s
      BY <3>1
    <3> QED
      BY <3>2, <3>3
  <2> QED
    BY <2>1
<1>9. CASE WinRequestApplicationStop
  <2>1. PICK z \in Orders, focus \in Focused :
          QueuesWindowState("windows",
            QueueAllWindowBounds \o QueueDesktopZOrderSnapshot(z) \o focus)
    BY <1>9 DEF WinRequestApplicationStop
  <2>2. IsSeq(z)
    <3>1. PICK S : S = Range(mirror.surfaces)
      OBVIOUS
    <3>2. z \in [1 .. Len(q) -> S] /\ Len(q) \in Nat
      BY <1>1, <1>2, <3>1, AppendIs DEF Orders
    <3>3. z \in Seq(S)
      BY <3>2
    <3> QED
      BY <3>3 DEF IsSeq
  <2>3. PICK w : w = [op |-> "zOrder", order |-> z]
    OBVIOUS
  <2>4. PICK o, d, ws : o = <<w>> /\ d = b \o o /\ ws = d \o focus
    OBVIOUS
  <2>5. IsSeq(o) /\ Range(o) = {w}
    BY <2>4, OneIs
  <2>6. IsSeq(d) /\ Range(d) = Range(b) \cup {w}
    BY <1>4, <2>4, <2>5, CatIs, RangeCat
  <2>7. IsSeq(ws) /\ Range(ws) = Range(b) \cup {w} \cup Range(focus)
    BY <1>6, <2>4, <2>6, CatIs, RangeCat
  <2>8. QueuesWindowState("windows", ws)
    BY <1>5, <2>1, <2>3, <2>4 DEF QueueDesktopZOrderSnapshot
  <2>9. w.op = "zOrder" /\ w.order = z
    BY <2>3
  <2>10. \A x \in Range(ws) :
           /\ x.op \in {"bounds", "zOrder", "makeCurrent"}
           /\ x.op = "bounds" => x.s \in Range(q) /\ x.v = f[x.s]
           /\ x.op = "zOrder" => IsSeq(x.order)
    BY <1>6, <1>7, <2>2, <2>7, <2>9
  <2>11. \A s \in Range(q) : \E x \in Range(ws) : x.op = "bounds" /\ x.s = s
    BY <1>8, <2>7
  <2>12. \E x \in Range(ws) : x.op = "zOrder"
    BY <2>7, <2>9
  <2>13. WindowState(mirror.surfaces, native, host, ws)
    BY <1>1, <2>7, <2>10, <2>11, <2>12 DEF WindowState
  <2> QED
    BY <2>8, <2>13, QueuesKeeps
<1>10. CASE LinuxRequestApplicationStop
  <2>1. PICK focus \in Focused : QueuesWindowState("linux", focus \o QueueAllWindowBounds)
    BY <1>10 DEF LinuxRequestApplicationStop
  <2>2. PICK ws : ws = focus \o b
    OBVIOUS
  <2>3. IsSeq(ws) /\ Range(ws) = Range(focus) \cup Range(b)
    BY <1>4, <1>6, <2>2, CatIs, RangeCat
  <2>4. QueuesWindowState("linux", ws)
    BY <1>5, <2>1, <2>2
  <2>5. host # "windows"
    BY <2>4 DEF QueuesWindowState
  <2>6. \A x \in Range(ws) :
          /\ x.op \in {"bounds", "zOrder", "makeCurrent"}
          /\ x.op = "bounds" => x.s \in Range(q) /\ x.v = f[x.s]
          /\ x.op = "zOrder" => IsSeq(x.order)
    BY <1>6, <1>7, <2>3
  <2>7. \A s \in Range(q) : \E x \in Range(ws) : x.op = "bounds" /\ x.s = s
    BY <1>8, <2>3
  <2>8. WindowState(mirror.surfaces, native, host, ws)
    BY <1>1, <2>3, <2>5, <2>6, <2>7 DEF WindowState
  <2> QED
    BY <2>4, <2>8, QueuesKeeps
<1> QED
  BY <1>9, <1>10

LEMMA GuiKeeps ==
  ASSUME IndInv, GuiStep
  PROVE  IndInv'
<1>1. CASE \E h, kind, slot : kind \in {"initial", "incremental"} /\ Consumes(h, kind, slot)
  BY <1>1, ConsumeKeeps
<1>2. ASSUME NEW s, WinWindowOnLoad(s) \/ WinButtonOnLoad(s) \/ LinuxOnLoad(s)
                    \/ OnSurfacePageLoaded(s) \/ AndroidOnLoad(s)
      PROVE  IndInv'
  <2>1. \E h, p : Loads(h, p)
    BY <1>2 DEF WinWindowOnLoad, WinButtonOnLoad, LinuxOnLoad, OnSurfacePageLoaded,
                AndroidOnLoad
  <2>2. Posting
    <3>1. CASE LinuxOnLoad(s)
      <4>1. PICK w : w = [op |-> "size", s |-> s, v |-> mirror.bounds[s]]
        OBVIOUS
      <4>2. w.op \in HarmlessOps
        BY <4>1 DEF HarmlessOps
      <4>3. PICK ws : ws = <<w>>
        OBVIOUS
      <4>4. Harmless(ws)
        BY <4>2, <4>3, HarmlessOne
      <4>5. work' = Posted(ws)
        BY <3>1, <4>1, <4>3 DEF LinuxOnLoad
      <4> QED
        BY <4>4, <4>5, PostsHarmless
    <3>2. CASE ~LinuxOnLoad(s)
      BY <1>2, <3>2 DEF WinWindowOnLoad, WinButtonOnLoad, OnSurfacePageLoaded,
                        AndroidOnLoad, Posting
    <3> QED
      BY <3>1, <3>2
  <2> QED
    BY <2>1, <2>2, LoadKeeps
<1>3. CASE WinFinishes \/ LinuxOnModelFinished \/ FinishStopAndSync \/ UnloadUi
  BY <1>3, FinishKeeps
     DEF WinFinishes, LinuxOnModelFinished, FinishStopAndSync, UnloadUi
<1>4. CASE Windows
  <2>1. WinOnInitialPublished \/ WinOnIncrementalPublished =>
          \E h, kind, slot : kind \in {"initial", "incremental"} /\ Consumes(h, kind, slot)
    BY DEF WinOnInitialPublished, WinOnIncrementalPublished, ConsumesCopy
  <2> QED
    BY <1>1, <1>2, <1>3, <1>4, <2>1, SettlesKeep, EnsureKeeps, StopRequestKeeps DEF Windows
<1>5. CASE Linux
  <2>1. LinuxOnInitialPublished \/ LinuxOnIncrementalPublished =>
          \E h, kind, slot : kind \in {"initial", "incremental"} /\ Consumes(h, kind, slot)
    BY DEF LinuxOnInitialPublished, LinuxOnIncrementalPublished, ConsumesCopy
  <2> QED
    BY <1>1, <1>2, <1>3, <1>5, <2>1, SettlesKeep, StopRequestKeeps DEF Linux
<1>6. CASE Web
  <2>1. WebConsumePublication =>
          \E h, kind, slot : kind \in {"initial", "incremental"} /\ Consumes(h, kind, slot)
    BY DEF WebConsumePublication
  <2> QED
    BY <1>1, <1>2, <1>3, <1>6, <2>1, SettlesKeep DEF Web
<1>7. CASE Android
  <2>1. AndroidConsumePublication =>
          \E h, kind, slot : kind \in {"initial", "incremental"} /\ Consumes(h, kind, slot)
    BY DEF AndroidConsumePublication, ConsumesCopy
  <2> QED
    BY <1>1, <1>2, <1>3, <1>7, <2>1, SettlesKeep DEF Android
<1> QED
  BY <1>4, <1>5, <1>6, <1>7, UnloadKeeps, UnloadedKeeps, RequestStopKeeps, EndKeeps
     DEF GuiStep

-----------------------------------------------------------------------------
(* The model: what an event makes of it                                      *)

GoodModel(m, c) ==
  /\ IsModel(m) /\ m.surfaces \in Seq(Ids) /\ m.z \in Seq(Ids)
  /\ \E V : m.bounds \in [Ids -> V]
  /\ NoDup(m.surfaces)
  /\ \A i \in 1 .. Len(m.surfaces) : m.surfaces[i] <= c

LEMMA SameSurfaces ==
  ASSUME NEW m, NEW c, GoodModel(m, c), NEW x, NEW y,
         NEW m1, m1 = [surfaces |-> m.surfaces, current |-> x, z |-> m.z,
                       size |-> y, bounds |-> m.bounds]
  PROVE  /\ GoodModel(m1, c)
         /\ m1.surfaces = m.surfaces /\ m1.z = m.z /\ m1.bounds = m.bounds
<1>1. /\ m1.surfaces = m.surfaces /\ m1.z = m.z /\ m1.bounds = m.bounds
      /\ m1.current = x /\ m1.size = y
  OBVIOUS
<1>2. IsModel(m1)
  BY <1>1 DEF IsModel
<1> QED
  BY <1>1, <1>2 DEF GoodModel

LEMMA ApplyCurrent ==
  ASSUME NEW m, NEW c, GoodModel(m, c), NEW s, NEW m1,
         m1 = Apply(m, SetCurrentSurfaceEvent(s))
  PROVE  /\ GoodModel(m1, c)
         /\ m1.surfaces = m.surfaces /\ m1.z = m.z /\ m1.bounds = m.bounds
<1>1. m1 = [m EXCEPT !.current = s]
  BY DEF Apply, SetCurrentSurfaceEvent, Event
<1>2. m1 = [surfaces |-> m.surfaces, current |-> s, z |-> m.z,
            size |-> m.size, bounds |-> m.bounds]
  BY <1>1 DEF GoodModel, IsModel
<1>3. PICK y : y = m.size
  OBVIOUS
<1> QED
  BY <1>2, <1>3, SameSurfaces

LEMMA ApplySize ==
  ASSUME NEW m, NEW c, GoodModel(m, c), NEW s, NEW v, NEW m1,
         m1 = Apply(m, SurfacePresentationSizeChangedEvent(s, v))
  PROVE  /\ GoodModel(m1, c)
         /\ m1.surfaces = m.surfaces /\ m1.z = m.z /\ m1.bounds = m.bounds
<1>1. m1 = [m EXCEPT !.size[s] = v]
  BY DEF Apply, SurfacePresentationSizeChangedEvent, Event
<1>2. PICK y : y = [m.size EXCEPT ![s] = v]
  OBVIOUS
<1>3. m1 = [m EXCEPT !.size = y]
  BY <1>1, <1>2
<1>4. m1 = [surfaces |-> m.surfaces, current |-> m.current, z |-> m.z,
            size |-> y, bounds |-> m.bounds]
  BY <1>3 DEF GoodModel, IsModel
<1>5. PICK x : x = m.current
  OBVIOUS
<1> QED
  BY <1>4, <1>5, SameSurfaces

LEMMA ApplyBounds ==
  ASSUME NEW m, NEW c, GoodModel(m, c), NEW s, NEW v, NEW m1,
         m1 = Apply(m, SurfaceBoundsChangedEvent(s, v))
  PROVE  /\ GoodModel(m1, c)
         /\ m1.surfaces = m.surfaces /\ m1.z = m.z
         /\ \A r \in Ids : m1.bounds[r] = IF r = s THEN v ELSE m.bounds[r]
<1>1. m1 = [m EXCEPT !.bounds[s] = v]
  BY DEF Apply, SurfaceBoundsChangedEvent, Event
<1>2. PICK b : b = [m.bounds EXCEPT ![s] = v]
  OBVIOUS
<1>3. m1 = [m EXCEPT !.bounds = b]
  BY <1>1, <1>2
<1>4. m1 = [surfaces |-> m.surfaces, current |-> m.current, z |-> m.z,
            size |-> m.size, bounds |-> b]
  BY <1>3 DEF GoodModel, IsModel
<1>5. /\ m1.surfaces = m.surfaces /\ m1.z = m.z /\ m1.bounds = b
      /\ m1.current = m.current /\ m1.size = m.size
  BY <1>4
<1>6. IsModel(m1)
  BY <1>4, <1>5 DEF IsModel
<1>7. PICK V : m.bounds \in [Ids -> V]
  BY DEF GoodModel
<1>8. PICK W : W = V \cup {v}
  OBVIOUS
<1>9. /\ b \in [Ids -> W]
      /\ \A r \in Ids : b[r] = IF r = s THEN v ELSE m.bounds[r]
  BY <1>2, <1>7, <1>8
<1> QED
  BY <1>5, <1>6, <1>9 DEF GoodModel

LEMMA ApplyZOrder ==
  ASSUME NEW m, NEW c, GoodModel(m, c), NEW z \in Seq(Ids), NEW m1,
         m1 = Apply(m, SetDesktopZOrderEvent(z))
  PROVE  /\ GoodModel(m1, c)
         /\ m1.surfaces = m.surfaces /\ m1.z = z /\ m1.bounds = m.bounds
<1>1. m1 = [m EXCEPT !.z = z]
  BY DEF Apply, SetDesktopZOrderEvent, Event
<1>2. m1 = [surfaces |-> m.surfaces, current |-> m.current, z |-> z,
            size |-> m.size, bounds |-> m.bounds]
  BY <1>1 DEF GoodModel, IsModel
<1>3. /\ m1.surfaces = m.surfaces /\ m1.z = z /\ m1.bounds = m.bounds
      /\ m1.current = m.current /\ m1.size = m.size
  BY <1>2
<1>4. IsModel(m1)
  BY <1>2, <1>3 DEF IsModel
<1> QED
  BY <1>3, <1>4 DEF GoodModel

LEMMA ApplyAdd ==
  ASSUME NEW m, NEW c \in Nat, GoodModel(m, c), c < MaxSurfaces, NEW m1,
         m1 = Apply(m, AddSurfaceEvent(c + 1))
  PROVE  /\ GoodModel(m1, c + 1) /\ m1.bounds = m.bounds
         /\ Range(m1.surfaces) = Range(m.surfaces) \cup {c + 1}
         /\ Range(m1.z) = Range(m.z) \cup {c + 1}
<1>0. PICK s : s = c + 1
  OBVIOUS
<1>1. m1 = [m EXCEPT !.surfaces = Append(@, s), !.z = Append(@, s)]
  BY <1>0 DEF Apply, AddSurfaceEvent, Event
<1>2. PICK p, q, x, y : p = m.surfaces /\ q = m.z /\ x = Append(p, s) /\ y = Append(q, s)
  OBVIOUS
<1>3. PICK m2 : m2 = [m EXCEPT !.surfaces = x]
  OBVIOUS
<1>4. m2 = [surfaces |-> x, current |-> m.current, z |-> q,
            size |-> m.size, bounds |-> m.bounds]
  BY <1>2, <1>3 DEF GoodModel, IsModel
<1>5. m1 = [m2 EXCEPT !.z = y]
  <2>1. m1 = [[m EXCEPT !.surfaces = Append(m.surfaces, s)] EXCEPT !.z = Append(@, s)]
    BY <1>1
  <2>2. m2.z = q
    BY <1>4
  <2> QED
    BY <1>2, <1>3, <2>1, <2>2
<1>6. m1 = [surfaces |-> x, current |-> m.current, z |-> y,
            size |-> m.size, bounds |-> m.bounds]
  BY <1>4, <1>5
<1>7. /\ m1.surfaces = x /\ m1.z = y /\ m1.bounds = m.bounds
      /\ m1.current = m.current /\ m1.size = m.size
  BY <1>6
<1>8. IsModel(m1)
  BY <1>6, <1>7 DEF IsModel
<1>9. s \in Ids /\ MaxSurfaces \in Nat
  BY <1>0, SurfacesAssumption DEF Ids
<1>10. p \in Seq(Ids) /\ q \in Seq(Ids)
  BY <1>2 DEF GoodModel
<1>11. x \in Seq(Ids) /\ y \in Seq(Ids)
  BY <1>2, <1>9, <1>10
<1>12. IsSeq(p) /\ IsSeq(q)
  BY <1>10 DEF IsSeq
<1>13. Range(x) = Range(p) \cup {s} /\ Range(y) = Range(q) \cup {s}
  BY <1>2, <1>12, RangeAppend
<1>14. /\ Len(p) \in Nat /\ Len(x) = Len(p) + 1 /\ x[Len(p) + 1] = s
       /\ \A i \in 1 .. Len(p) : x[i] = p[i]
       /\ \A i \in 1 .. Len(p) + 1 : i = Len(p) + 1 \/ i \in 1 .. Len(p)
  BY <1>2, <1>12, AppendIs
<1>15. \A i \in 1 .. Len(p) : p[i] <= c /\ p[i] \in Nat
  <2>1. \A i \in 1 .. Len(p) : p[i] <= c
    BY <1>2 DEF GoodModel
  <2>2. \A i \in 1 .. Len(p) : p[i] \in Ids
    BY <1>10
  <2>3. \A i \in Ids : i \in Nat
    BY <1>9 DEF Ids
  <2> QED
    BY <2>1, <2>2, <2>3
<1>16. NoDup(p)
  BY <1>2 DEF GoodModel
<1>17. NoDup(x)
  <2>1. \A i \in 1 .. Len(p) : p[i] # s
    BY <1>0, <1>15
  <2>2. \A i, j \in 1 .. Len(p) + 1 : x[i] = x[j] => i = j
    BY <1>14, <1>16, <2>1 DEF NoDup
  <2> QED
    BY <1>14, <2>2 DEF NoDup
<1>18. \A i \in 1 .. Len(x) : x[i] <= c + 1
  BY <1>0, <1>14, <1>15
<1> QED
  BY <1>0, <1>2, <1>7, <1>8, <1>11, <1>13, <1>17, <1>18 DEF GoodModel

LEMMA ApplyRemoveIs ==
  ASSUME NEW m, NEW c, GoodModel(m, c), NEW s \in Range(m.surfaces), NEW m1,
         m1 = Apply(m, RemoveSurfaceEvent(s))
  PROVE  /\ GoodModel(m1, c) /\ m1.bounds = m.bounds
         /\ Range(m1.surfaces) = Range(m.surfaces) \ {s}
         /\ Range(m1.z) = Range(m.z) \ {s}
<1>1. m1 = ApplyRemove(m, s)
  BY DEF Apply, RemoveSurfaceEvent, Event
<1>2. PICK p, q, x, y, d :
        /\ p = m.surfaces /\ q = m.z /\ x = RemoveFirst(p, s)
        /\ y = Only(q, Range(q) \ {s})
        /\ d = IF m.current = s THEN None ELSE m.current
  OBVIOUS
<1>3. m1 = [surfaces |-> x, current |-> d, z |-> y, size |-> m.size, bounds |-> m.bounds]
  <2>1. PICK m2 : m2 = [m EXCEPT !.surfaces = x]
    OBVIOUS
  <2>2. m2 = [surfaces |-> x, current |-> m.current, z |-> q,
              size |-> m.size, bounds |-> m.bounds]
    BY <1>2, <2>1 DEF GoodModel, IsModel
  <2>3. PICK m3 : m3 = [m2 EXCEPT !.z = y]
    OBVIOUS
  <2>4. m3 = [surfaces |-> x, current |-> m.current, z |-> y,
              size |-> m.size, bounds |-> m.bounds]
    BY <2>2, <2>3
  <2>5. PICK m4 : m4 = [m3 EXCEPT !.current = d]
    OBVIOUS
  <2>6. m4 = [surfaces |-> x, current |-> d, z |-> y,
              size |-> m.size, bounds |-> m.bounds]
    BY <2>4, <2>5
  <2>7. m2.z = q /\ m3.current = m.current
    BY <2>2, <2>4
  <2>8. m1 = [[[m EXCEPT !.surfaces = RemoveFirst(m.surfaces, s)]
                  EXCEPT !.z = Only(m2.z, Range(m2.z) \ {s})]
                  EXCEPT !.current = IF m3.current = s THEN None ELSE m3.current]
    BY <1>1, <1>2, <2>1, <2>3, <2>7, Zenon DEF ApplyRemove
  <2> QED
    BY <1>2, <2>1, <2>3, <2>5, <2>6, <2>7, <2>8
<1>4. /\ m1.surfaces = x /\ m1.z = y /\ m1.bounds = m.bounds
      /\ m1.current = d /\ m1.size = m.size
  BY <1>3
<1>5. IsModel(m1)
  BY <1>3, <1>4 DEF IsModel
<1>6. p \in Seq(Ids) /\ q \in Seq(Ids) /\ NoDup(p)
  BY <1>2 DEF GoodModel
<1>7. IsSeq(p) /\ IsSeq(q)
  BY <1>6 DEF IsSeq
<1>8. Range(y) = Range(q) \ {s} /\ y \in Seq(Ids)
  <2>1. PICK S : S = Range(q) \ {s}
    OBVIOUS
  <2>2. y \in Seq(S) /\ Range(y) = Range(q) \cap S
    BY <1>2, <1>7, <2>1, OnlyIs
  <2>3. S \subseteq Ids
    BY <1>6, <2>1 DEF Range
  <2>4. y \in Seq(Ids)
    BY <2>2, <2>3
  <2> QED
    BY <2>1, <2>2, <2>4
<1>9. PICK k \in 1 .. Len(p) : x = RemoveAt(p, k) /\ p[k] = s
  <2> DEFINE I == {i \in 1 .. Len(p) : p[i] = s}
  <2>1. s \in Range(p)
    BY <1>2
  <2>2. PICK i \in 1 .. Len(p) : p[i] = s
    BY <1>7, <2>1, RangeIs
  <2>3. I # {} /\ I \subseteq Nat
    BY <2>2
  <2>4. Min(I) \in I
    <3> HIDE DEF I
    <3> QED
      BY <2>3, MinIs
  <2>5. x = RemoveAt(p, Min(I))
    BY <1>2, <2>2, <2>3 DEF RemoveFirst, SelectInSeq
  <2> QED
    BY <2>4, <2>5
<1>10. Range(x) = Range(p) \ {s} /\ NoDup(x)
  BY <1>6, <1>7, <1>9, RemoveAtRange
<1>11. x \in Seq(Ids)
  <2>1. IsSeq(x)
    BY <1>7, <1>9, RemoveAtIs
  <2>2. \A i \in 1 .. Len(x) : x[i] \in Range(p)
    BY <1>10, <2>1, RangeIs
  <2>3. Range(p) \subseteq Ids
    BY <1>6 DEF Range
  <2>4. PICK S : x \in Seq(S)
    BY <2>1 DEF IsSeq
  <2>5. \A i \in 1 .. Len(x) : x[i] \in Ids
    BY <2>2, <2>3
  <2>6. x \in [1 .. Len(x) -> Ids] /\ Len(x) \in Nat
    BY <2>4, <2>5
  <2> QED
    BY <2>6
<1>12. \A i \in 1 .. Len(x) : x[i] <= c
  <2>1. IsSeq(x)
    BY <1>11 DEF IsSeq
  <2>2. ASSUME NEW i \in 1 .. Len(x) PROVE x[i] <= c
    <3>1. x[i] \in Range(p)
      BY <1>10, <2>1, RangeIs
    <3>2. PICK j \in 1 .. Len(p) : p[j] = x[i]
      BY <1>7, <3>1, RangeIs
    <3> QED
      BY <1>2, <3>2 DEF GoodModel
  <2> QED
    BY <2>2
<1> QED
  BY <1>2, <1>4, <1>5, <1>8, <1>10, <1>11, <1>12 DEF GoodModel

-----------------------------------------------------------------------------
(* The model thread: a task is run                                           *)

\* What running the task w does to the model.
Committed(w) ==
  /\ GoodModel(model', created')
  /\ \A s \in Ids : model'.bounds[s] =
       IF w.op = "bounds" /\ w.s = s THEN w.v ELSE model.bounds[s]
  /\ w.op = "zOrder" \/ Range(model.surfaces) \subseteq Range(model.z) =>
       Range(model'.surfaces) \subseteq Range(model'.z)

LEMMA TypesGoodModel ==
  ASSUME TypeOK
  PROVE  GoodModel(model, created) /\ created \in Nat
BY DEF TypeOK, GoodModel

\* A z-order that is made to fit has a place for every live surface.
LEMMA ResolvedIs ==
  ASSUME NEW ids, IsSeq(ids), NEW p \in Seq(Ids)
  PROVE  LET known == Only(ids, Range(p))
             r == known \o Only(p, Range(p) \ Range(known))
         IN  r \in Seq(Ids) /\ Range(p) \subseteq Range(r)
<1>1. PICK L, k : L = Range(p) /\ k = Only(ids, L)
  OBVIOUS
<1>2. PICK D, o : D = L \ Range(k) /\ o = Only(p, D)
  OBVIOUS
<1>3. IsSeq(p)
  BY DEF IsSeq
<1>4. k \in Seq(L) /\ o \in Seq(D) /\ Range(o) = Range(p) \cap D
  BY <1>1, <1>2, <1>3, OnlyIs
<1>5. L \subseteq Ids /\ D \subseteq Ids
  BY <1>1, <1>2 DEF Range
<1>6. k \in Seq(Ids) /\ o \in Seq(Ids)
  BY <1>4, <1>5
<1>7. k \o o \in Seq(Ids)
  BY <1>6
<1>8. Range(k \o o) = Range(k) \cup Range(o)
  BY <1>6, RangeCat DEF IsSeq
<1>9. Range(p) \subseteq Range(k) \cup Range(o)
  BY <1>1, <1>2, <1>4
<1> QED
  BY <1>1, <1>2, <1>7, <1>8, <1>9

LEMMA CommitIs ==
  ASSUME TypeOK, NEW w, w.op \in Ops \ {"drain", "save"},
         w.op = "zOrder" => IsSeq(w.order),
         w.op = "add" => created < MaxSurfaces,
         Commit(Perform(w)),
         created' = IF w.op = "add" THEN created + 1 ELSE created
  PROVE  Committed(w)
<1>1. PICK m, c : m = model /\ c = created
  OBVIOUS
<1>2. GoodModel(m, c) /\ c \in Nat
  BY <1>1, TypesGoodModel
<1>3. PICK E : E = Perform(w)
  OBVIOUS
<1>4. PICK m1, c1 : m1 = model' /\ c1 = created'
  OBVIOUS
<1>5. (E = {} /\ m1 = m) \/ \E e \in E : m1 = Apply(m, e)
  BY <1>1, <1>3, <1>4 DEF Commit
<1>6. ASSUME GoodModel(m1, c1),
             \A s \in Ids : m1.bounds[s] =
               IF w.op = "bounds" /\ w.s = s THEN w.v ELSE m.bounds[s],
             w.op = "zOrder" \/ Range(m.surfaces) \subseteq Range(m.z) =>
               Range(m1.surfaces) \subseteq Range(m1.z)
      PROVE  Committed(w)
  BY <1>1, <1>4, <1>6 DEF Committed
<1>7. CASE w.op = "add"
  <2>1. E = {AddSurfaceEvent(c + 1)} /\ c1 = c + 1 /\ c < MaxSurfaces
    BY <1>1, <1>3, <1>4, <1>7 DEF Perform, AddSurface
  <2>2. m1 = Apply(m, AddSurfaceEvent(c + 1))
    BY <1>5, <2>1
  <2>3. /\ GoodModel(m1, c + 1) /\ m1.bounds = m.bounds
        /\ Range(m1.surfaces) = Range(m.surfaces) \cup {c + 1}
        /\ Range(m1.z) = Range(m.z) \cup {c + 1}
    BY <1>2, <2>1, <2>2, ApplyAdd
  <2> QED
    BY <1>6, <1>7, <2>1, <2>3
<1>8. CASE w.op # "add"
  <2>1. c1 = c
    BY <1>1, <1>4, <1>8
  <2>2. CASE w.op = "remove"
    <3>1. PICK s : s = w.s
      OBVIOUS
    <3>2. E = {} \/ (s \in Range(m.surfaces) /\ E = {RemoveSurfaceEvent(s)})
      BY <1>1, <1>3, <2>2, <3>1 DEF Perform, RemoveLive, Live
    <3>3. CASE m1 = m
      BY <1>2, <1>6, <2>1, <2>2, <3>3
    <3>4. CASE m1 # m
      <4>1. s \in Range(m.surfaces) /\ m1 = Apply(m, RemoveSurfaceEvent(s))
        BY <1>5, <3>2, <3>4
      <4>2. /\ GoodModel(m1, c) /\ m1.bounds = m.bounds
            /\ Range(m1.surfaces) = Range(m.surfaces) \ {s}
            /\ Range(m1.z) = Range(m.z) \ {s}
        BY <1>2, <4>1, ApplyRemoveIs
      <4> QED
        BY <1>6, <2>1, <2>2, <4>2
    <3> QED
      BY <3>3, <3>4
  <2>3. CASE w.op = "makeCurrent"
    <3>1. PICK s : s = w.s
      OBVIOUS
    <3>2. E = {} \/ E = {SetCurrentSurfaceEvent(s)}
      BY <1>3, <2>3, <3>1 DEF Perform, MakeCurrent
    <3>3. m1 = m \/ m1 = Apply(m, SetCurrentSurfaceEvent(s))
      BY <1>5, <3>2
    <3>4. /\ GoodModel(m1, c)
          /\ m1.surfaces = m.surfaces /\ m1.z = m.z /\ m1.bounds = m.bounds
      BY <1>2, <3>3, ApplyCurrent
    <3> QED
      BY <1>6, <2>1, <2>3, <3>4
  <2>4. CASE w.op = "size"
    <3>1. PICK s, v : s = w.s /\ v = w.v
      OBVIOUS
    <3>2. E = {} \/ E = {SurfacePresentationSizeChangedEvent(s, v)}
      BY <1>3, <2>4, <3>1 DEF Perform, SetPresentationSize
    <3>3. m1 = m \/ m1 = Apply(m, SurfacePresentationSizeChangedEvent(s, v))
      BY <1>5, <3>2
    <3>4. /\ GoodModel(m1, c)
          /\ m1.surfaces = m.surfaces /\ m1.z = m.z /\ m1.bounds = m.bounds
      BY <1>2, <3>3, ApplySize
    <3> QED
      BY <1>6, <2>1, <2>4, <3>4
  <2>5. CASE w.op = "bounds"
    <3>1. PICK s, v : s = w.s /\ v = w.v
      OBVIOUS
    <3>2. \/ E = {} /\ m.bounds[s] = v
          \/ E = {SurfaceBoundsChangedEvent(s, v)}
      BY <1>1, <1>3, <2>5, <3>1 DEF Perform, SetDesktopBounds
    <3>3. \/ m1 = m /\ m.bounds[s] = v
          \/ m1 = Apply(m, SurfaceBoundsChangedEvent(s, v))
      BY <1>5, <3>2
    <3>4. /\ GoodModel(m1, c)
          /\ m1.surfaces = m.surfaces /\ m1.z = m.z
          /\ \A r \in Ids : m1.bounds[r] = IF r = s THEN v ELSE m.bounds[r]
      BY <1>2, <3>3, ApplyBounds
    <3> QED
      BY <1>6, <2>1, <2>5, <3>1, <3>4
  <2>6. CASE w.op = "zOrder"
    <3>1. PICK ids, p : ids = w.order /\ p = m.surfaces
      OBVIOUS
    <3>2. IsSeq(ids) /\ p \in Seq(Ids)
      BY <1>2, <2>6, <3>1 DEF GoodModel
    <3>3. PICK k : k = Only(ids, Range(p))
      OBVIOUS
    <3>4. PICK r : r = k \o Only(p, Range(p) \ Range(k))
      OBVIOUS
    <3>5. r \in Seq(Ids) /\ Range(p) \subseteq Range(r)
      BY <3>2, <3>3, <3>4, ResolvedIs
    <3>6. E = SetDesktopZOrderFromObjIds(ids)
      BY <1>3, <2>6, <3>1 DEF Perform
    <3>7. (E = {} /\ m.z = r) \/ E = {SetDesktopZOrderEvent(r)}
      BY <1>1, <3>1, <3>3, <3>4, <3>6, Zenon DEF SetDesktopZOrderFromObjIds
    <3>8. (m1 = m /\ m.z = r) \/ m1 = Apply(m, SetDesktopZOrderEvent(r))
      BY <1>5, <3>7
    <3>9. /\ GoodModel(m1, c)
          /\ m1.surfaces = m.surfaces /\ m1.z = r /\ m1.bounds = m.bounds
      BY <1>2, <3>5, <3>8, ApplyZOrder
    <3> QED
      BY <1>6, <2>1, <2>6, <3>1, <3>5, <3>9
  <2> QED
    BY <1>8, <2>2, <2>3, <2>4, <2>5, <2>6 DEF Ops
<1> QED
  BY <1>7, <1>8

LEMMA AddsTail ==
  ASSUME NEW q, IsSeq(q), q # <<>>
  PROVE  /\ Cardinality(Adds(q)) \in Nat /\ Cardinality(Adds(Tail(q))) \in Nat
         /\ Cardinality(Adds(q)) =
              Cardinality(Adds(Tail(q))) + IF Head(q).op = "add" THEN 1 ELSE 0
<1>1. PICK t, n :
        /\ t = Tail(q) /\ n = Len(q) /\ IsSeq(t) /\ n \in Nat \ {0} /\ Len(t) = n - 1
        /\ \A i \in 1 .. n - 1 : t[i] = q[i + 1]
        /\ Head(q) = q[1]
  BY TailIs
<1> DEFINE A == Adds(q)
           B == Adds(t)
           f == [i \in B |-> i + 1]
<1>2. /\ \A i : i \in B => i \in Nat /\ i + 1 \in A
      /\ \A i \in A : i # 1 => i - 1 \in B
      /\ 1 \in A <=> Head(q).op = "add"
  <2>1. \A i \in 1 .. n - 1 : i \in Nat /\ i + 1 \in 1 .. n
    BY <1>1
  <2>2. \A i \in 1 .. n : i # 1 => i - 1 \in 1 .. n - 1 /\ (i - 1) + 1 = i
    BY <1>1
  <2>3. 1 \in 1 .. n
    BY <1>1
  <2> QED
    BY <1>1, <2>1, <2>2, <2>3 DEF Adds
<1>3. IsFiniteSet(A) /\ Cardinality(A) \in Nat
  BY AddsFinite
<1>4. IsFiniteSet(B) /\ Cardinality(B) \in Nat
  <2>1. IsSeq(t)
    BY <1>1
  <2> QED
    BY <2>1, AddsFinite
<1>5. (\A i \in A : i \in Nat) /\ (\A i \in B : i \in Nat \ {0})
  BY DEF Adds
<1>6. Cardinality(A \ {1}) = Cardinality(B)
  <2> HIDE DEF A, B
  <2>1. f \in Bijection(B, A \ {1})
    <3>1. f \in [B -> A \ {1}]
      BY <1>2, <1>5
    <3>2. \A x, y \in B : f[x] = f[y] => x = y
      BY <1>5
    <3>3. \A y \in A \ {1} : \E x \in B : f[x] = y
      <4> SUFFICES ASSUME NEW y \in A \ {1} PROVE \E x \in B : f[x] = y
        OBVIOUS
      <4>1. y - 1 \in B /\ (y - 1) + 1 = y
        BY <1>2, <1>5
      <4>2. f[y - 1] = y
        BY <4>1
      <4> QED
        BY <4>1, <4>2
    <3> HIDE DEF f
    <3> QED
      BY <3>1, <3>2, <3>3 DEF Bijection, Injection, Surjection, IsInjective
  <2> QED
    BY <1>4, <2>1, FS_Bijection DEF ExistsBijection
<1>7. Cardinality(A \ {1}) = IF 1 \in A THEN Cardinality(A) - 1 ELSE Cardinality(A)
  <2> HIDE DEF A
  <2> QED
    BY <1>3, FS_RemoveElement
<1>8. Cardinality(A) = Cardinality(B) + IF Head(q).op = "add" THEN 1 ELSE 0
  <2> HIDE DEF A, B
  <2> QED
    BY <1>2, <1>3, <1>4, <1>6, <1>7
<1> QED
  BY <1>1, <1>3, <1>4, <1>8

\* A task less: the others stay, in their order.
TakesFirst ==
  /\ work # <<>> /\ work' = Tail(work)
  /\ Cardinality(Adds(work)) \in Nat /\ Cardinality(Adds(work')) \in Nat
  /\ Cardinality(Adds(work)) =
       Cardinality(Adds(work')) + IF work[1].op = "add" THEN 1 ELSE 0
  /\ IsSeq(work') /\ Head(work) = work[1]
  /\ 1 \in 1 .. Len(work)
  /\ \A i \in 1 .. Len(work') : i + 1 \in 1 .. Len(work) /\ work'[i] = work[i + 1]
  /\ \A i \in 1 .. Len(work) :
       i # 1 => i - 1 \in 1 .. Len(work') /\ work'[i - 1] = work[i]

LEMMA TakesFirstIs ==
  ASSUME TypeOK, work # <<>>, work' = Tail(work)
  PROVE  TakesFirst
<1>1. PICK q, t : q = work /\ t = Tail(q)
  OBVIOUS
<1>2. IsSeq(q) /\ q # <<>>
  BY <1>1 DEF TypeOK
<1>3. /\ IsSeq(t) /\ Len(q) \in Nat \ {0} /\ Len(t) = Len(q) - 1
      /\ \A i \in 1 .. Len(q) - 1 : t[i] = q[i + 1]
      /\ Head(q) = q[1]
  BY <1>1, <1>2, TailIs
<1>4. /\ Cardinality(Adds(q)) \in Nat /\ Cardinality(Adds(t)) \in Nat
      /\ Cardinality(Adds(q)) = Cardinality(Adds(t)) + IF Head(q).op = "add" THEN 1 ELSE 0
  BY <1>1, <1>2, AddsTail
<1>5. /\ 1 \in 1 .. Len(q)
      /\ \A i \in 1 .. Len(t) : i + 1 \in 1 .. Len(q) /\ t[i] = q[i + 1]
  BY <1>3
<1>6. \A i \in 1 .. Len(q) : i # 1 => i - 1 \in 1 .. Len(t) /\ t[i - 1] = q[i]
  <2>1. \A i \in 1 .. Len(q) : i # 1 => i - 1 \in 1 .. Len(q) - 1 /\ (i - 1) + 1 = i
    BY <1>3
  <2> QED
    BY <1>3, <2>1
<1>7. work = q /\ work' = t
  BY <1>1
<1> QED
  BY <1>2, <1>3, <1>4, <1>5, <1>6, <1>7 DEF TakesFirst

LEMMA RunWorkKeeps ==
  ASSUME IndInv, RunWork
  PROVE  IndInv'
<1>1. /\ mpc = "wait" /\ work # <<>> /\ work' = Tail(work)
      /\ mpc' \in {"drain", "publish"}
      /\ UNCHANGED <<host, stop, channel, wakes, gpc, mirror, loaded, atStop>>
  BY DEF RunWork, guiVars
<1>2. TakesFirst
  BY <1>1, TakesFirstIs DEF IndInv
<1>3. PICK w : w = Head(work)
  OBVIOUS
<1>4. w = work[1] /\ 1 \in 1 .. Len(work)
  BY <1>2, <1>3 DEF TakesFirst
<1>5. w.op \in Ops /\ (w.op = "zOrder" => IsSeq(w.order))
  BY <1>4 DEF IndInv, TypeOK
<1>6. created' = IF w.op = "add" THEN created + 1 ELSE created
  BY <1>3 DEF RunWork, modelVars
<1>7. created \in Nat /\ created + Cardinality(Adds(work)) <= MaxSurfaces
      /\ MaxSurfaces \in Nat
  BY SurfacesAssumption DEF IndInv, TypeOK
<1>8. created' \in Nat /\ created' + Cardinality(Adds(work')) <= MaxSurfaces
  BY <1>2, <1>4, <1>6, <1>7 DEF TakesFirst
<1>9. w.op = "add" => created < MaxSurfaces
  BY <1>2, <1>4, <1>7 DEF TakesFirst
<1>10. Committed(w)
  <2>1. CASE w.op \in {"drain", "save"}
    <3>1. model' = model /\ created' = created
      BY <1>3, <1>6, <2>1 DEF RunWork, modelVars
    <3> QED
      BY <2>1, <3>1, TypesGoodModel DEF IndInv, Committed
  <2>2. CASE w.op \notin {"drain", "save"}
    <3>1. Commit(Perform(w))
      BY <1>3, <2>2 DEF RunWork
    <3> QED
      BY <1>5, <1>6, <1>9, <2>2, <3>1, CommitIs DEF IndInv
  <2> QED
    BY <2>1, <2>2
<1>11. TypeOK'
  <2>1. \A i \in 1 .. Len(work') :
          work'[i].op \in Ops /\ (work'[i].op = "zOrder" => IsSeq(work'[i].order))
    BY <1>2 DEF IndInv, TypeOK, TakesFirst
  <2>2. /\ IsModel(model') /\ model'.surfaces \in Seq(Ids) /\ model'.z \in Seq(Ids)
        /\ \E V : model'.bounds \in [Ids -> V]
        /\ NoDup(model'.surfaces)
        /\ \A i \in 1 .. Len(model'.surfaces) : model'.surfaces[i] <= created'
    BY <1>10 DEF Committed, GoodModel
  <2>3. IsSeq(work')
    BY <1>2 DEF TakesFirst
  <2> QED
    BY <1>1, <1>8, <2>1, <2>2, <2>3 DEF IndInv, TypeOK
<1>12. Started'
  BY <1>1 DEF IndInv, Started, Starting
<1>13. Presenting'
  BY <1>1 DEF IndInv, Presenting, Presenters, Chrome
<1>14. Stopping'
  <2>1. mpc' \notin {"save", "done"} /\ Before' = Before
    BY <1>1 DEF Before
  <2>2. Before => /\ \A s \in Ids : atStop'[s] = None
                  /\ \A i \in 1 .. Len(work') : work'[i].op # "bounds"
    BY <1>1, <1>2 DEF IndInv, Stopping, TakesFirst
  <2>3. ASSUME NEW s \in Ids, atStop'[s] # None
        PROVE  /\ \A i \in BoundsOf(work', s) : work'[i].v = atStop'[s]
               /\ BoundsOf(work', s) # {} \/ model'.bounds[s] = atStop'[s]
    <3>1. /\ \A i \in BoundsOf(work, s) : work[i].v = atStop[s]
          /\ BoundsOf(work, s) # {} \/ model.bounds[s] = atStop[s]
      BY <1>1, <2>3 DEF IndInv, Stopping
    <3>2. ASSUME NEW i \in BoundsOf(work', s) PROVE work'[i].v = atStop'[s]
      <4>1. i + 1 \in BoundsOf(work, s) /\ work'[i] = work[i + 1]
        BY <1>2 DEF TakesFirst, BoundsOf
      <4> QED
        BY <1>1, <3>1, <4>1
    <3>3. CASE w.op = "bounds" /\ w.s = s
      <4>1. 1 \in BoundsOf(work, s)
        BY <1>4, <3>3 DEF BoundsOf
      <4>2. model'.bounds[s] = w.v
        BY <1>10, <3>3 DEF Committed
      <4> QED
        BY <1>1, <1>4, <3>1, <3>2, <4>1, <4>2
    <3>4. CASE ~ (w.op = "bounds" /\ w.s = s)
      <4>1. model'.bounds[s] = model.bounds[s]
        BY <1>10, <3>4 DEF Committed
      <4>2. \A i \in BoundsOf(work, s) : i - 1 \in BoundsOf(work', s)
        <5>1. \A i \in BoundsOf(work, s) : i # 1
          BY <1>4, <3>4 DEF BoundsOf
        <5> QED
          BY <1>2, <5>1 DEF TakesFirst, BoundsOf
      <4> QED
        BY <1>1, <3>1, <3>2, <4>1, <4>2
    <3> QED
      BY <3>3, <3>4
  <2>4. ASSUME host' = "windows", ~Before'
        PROVE  \/ \E i \in 1 .. Len(work') : work'[i].op = "zOrder"
               \/ Range(model'.surfaces) \subseteq Range(model'.z)
    <3>1. \/ \E i \in 1 .. Len(work) : work[i].op = "zOrder"
          \/ Range(model.surfaces) \subseteq Range(model.z)
      BY <1>1, <2>1, <2>4 DEF IndInv, Stopping
    <3>2. CASE w.op = "zOrder" \/ Range(model.surfaces) \subseteq Range(model.z)
      BY <1>10, <3>2 DEF Committed
    <3>3. CASE w.op # "zOrder" /\ \E i \in 1 .. Len(work) : work[i].op = "zOrder"
      <4>1. PICK i \in 1 .. Len(work) : work[i].op = "zOrder" /\ i # 1
        BY <1>4, <3>3
      <4>2. i - 1 \in 1 .. Len(work') /\ work'[i - 1].op = "zOrder"
        BY <1>2, <4>1 DEF TakesFirst
      <4> QED
        BY <4>2
    <3> QED
      BY <3>1, <3>2, <3>3
  <2> QED
    BY <2>1, <2>2, <2>3, <2>4 DEF Stopping
<1> QED
  BY <1>11, <1>12, <1>13, <1>14 DEF IndInv

\* A size that the drain applies leaves the surfaces, their bounds and order.
LEMMA DrainApplyKeeps ==
  ASSUME IndInv, DrainApply
  PROVE  IndInv'
<1>1. /\ mpc = "drainNext" /\ mpc' = "drainErase"
      /\ UNCHANGED <<host, created, work, stop, channel, wakes, gpc, mirror, loaded,
                     atStop>>
  BY DEF DrainApply, guiVars
<1>2. PICK s : Commit(SetPresentationSize(s, slots[s]))
  BY DEF DrainApply
<1>3. PICK m, m1, c, v : m = model /\ m1 = model' /\ c = created /\ v = slots[s]
  OBVIOUS
<1>4. m1 = m \/ m1 = Apply(m, SurfacePresentationSizeChangedEvent(s, v))
  BY <1>2, <1>3 DEF Commit, SetPresentationSize
<1>5. GoodModel(m, c)
  BY <1>3, TypesGoodModel DEF IndInv
<1>6. /\ GoodModel(m1, c)
      /\ m1.surfaces = m.surfaces /\ m1.z = m.z /\ m1.bounds = m.bounds
  BY <1>4, <1>5, ApplySize
<1>7. /\ GoodModel(model', created')
      /\ model'.surfaces = model.surfaces /\ model'.z = model.z
      /\ model'.bounds = model.bounds
  BY <1>1, <1>3, <1>6
<1>8. TypeOK'
  BY <1>1, <1>7 DEF IndInv, TypeOK, GoodModel
<1>9. Started'
  BY <1>1 DEF IndInv, Started, Starting
<1>10. Presenting'
  BY <1>1 DEF IndInv, Presenting, Presenters, Chrome
<1>11. Stopping'
  BY <1>1, <1>7 DEF IndInv, Stopping, Before, BoundsOf
<1> QED
  BY <1>8, <1>9, <1>10, <1>11 DEF IndInv

\* Steps of the model thread that leave model and queue alone, or add a drain.
LEMMA ThreadKeeps ==
  ASSUME IndInv, mpc # "start", mpc' # "start", Posting,
         mpc' \notin {"save", "done"},
         UNCHANGED <<host, model, created, saved, stop, channel, wakes, gpc, mirror,
                     loaded, atStop>>
  PROVE  IndInv'
<1>1. Grows
  BY PostingGrows DEF IndInv
<1>2. TypeOK'
  <2>1. /\ IsModel(mirror') /\ IsSeq(mirror'.surfaces) /\ wakes' \in Seq(Wakes)
        /\ channel' = [state |-> channel'.state, data |-> channel'.data]
        /\ IsSeq(channel'.data.surfaces)
    BY DEF IndInv, TypeOK
  <2> QED
    BY <1>1, <2>1, GuiKeepsTypes DEF IndInv
<1>3. Started'
  BY DEF IndInv, Started, Starting
<1>4. Presenting'
  BY DEF IndInv, Presenting, Presenters, Chrome
<1>5. Stopping'
  BY <1>1, GuiKeepsStopping DEF IndInv
<1> QED
  BY <1>2, <1>3, <1>4, <1>5 DEF IndInv

LEMMA PublishIs ==
  ASSUME TypeOK, NEW kind, Publish(kind)
  PROVE  /\ channel' = [state |-> channel'.state, data |-> channel'.data]
         /\ IsSeq(channel'.data.surfaces) /\ wakes' = Append(wakes, kind)
<1>1. PICK m, d : m = model /\ d = SerializeObjectGraphToBuffer(m)
  OBVIOUS
<1>2. d.surfaces = m.surfaces
  BY <1>1 DEF SerializeObjectGraphToBuffer
<1>3. channel' = [state |-> "published", data |-> d] /\ wakes' = Append(wakes, kind)
  BY <1>1 DEF Publish
<1>4. IsSeq(m.surfaces)
  BY <1>1 DEF TypeOK, IsSeq
<1> QED
  BY <1>2, <1>3, <1>4

LEMMA PublishKeeps ==
  ASSUME IndInv, PublishInitial \/ PublishNext
  PROVE  IndInv'
<1>1. CASE PublishInitial
  <2>1. /\ mpc = "start" /\ Publish("initial") /\ mpc' = "wait"
        /\ UNCHANGED <<host, model, created, saved, work, stop, gpc, mirror, loaded, atStop>>
    BY <1>1 DEF PublishInitial, modelVars
  <2>2. /\ channel' = [state |-> channel'.state, data |-> channel'.data]
        /\ IsSeq(channel'.data.surfaces) /\ wakes' = Append(wakes, "initial")
    BY <2>1, PublishIs DEF IndInv
  <2>3. wakes = <<>> /\ gpc = "loop" /\ loaded = <<>> /\ ~stop
    BY <2>1 DEF IndInv, Started, Starting
  <2>4. /\ wakes' = <<"initial">> /\ wakes' \in Seq(Wakes)
        /\ \A i \in 1 .. Len(wakes') : wakes'[i] = "initial" => i = 1
    BY <2>2, <2>3 DEF Wakes
  <2>5. Grows
    BY <2>1, PostingGrows DEF IndInv, Posting
  <2>6. TypeOK'
    <3>1. IsModel(mirror') /\ IsSeq(mirror'.surfaces)
      BY <2>1 DEF IndInv, TypeOK
    <3> QED
      BY <2>1, <2>2, <2>4, <2>5, <3>1, GuiKeepsTypes DEF IndInv
  <2>7. Started'
    BY <2>1, <2>3, <2>4 DEF Started
  <2>8. Presenting'
    BY <2>1 DEF IndInv, Presenting, Presenters, Chrome
  <2>9. Stopping'
    BY <2>1, <2>5, GuiKeepsStopping DEF IndInv
  <2> QED
    BY <2>6, <2>7, <2>8, <2>9 DEF IndInv
<1>2. CASE PublishNext
  <2>1. /\ mpc = "publish" /\ mpc' \in {"publish", "wait"} /\ Posting
        /\ UNCHANGED <<host, model, created, saved, work, stop, gpc, mirror, loaded, atStop>>
        /\ Publish("incremental") \/ UNCHANGED <<channel, wakes>>
    BY <1>2 DEF PublishNext, Posting
  <2>2. CASE UNCHANGED <<channel, wakes>>
    <3>1. mpc # "start" /\ mpc' # "start" /\ mpc' \notin {"save", "done"}
      BY <2>1
    <3> QED
      BY <2>1, <2>2, <3>1, ThreadKeeps
  <2>3. CASE Publish("incremental")
    <3>1. /\ channel' = [state |-> channel'.state, data |-> channel'.data]
          /\ IsSeq(channel'.data.surfaces) /\ wakes' = Append(wakes, "incremental")
      BY <2>3, PublishIs DEF IndInv
    <3>2. mpc # "start" /\ mpc' # "start" /\ mpc' \notin {"save", "done"}
          /\ "incremental" \in Wakes
      BY <2>1 DEF Wakes
    <3>3. /\ wakes' \in Seq(Wakes)
          /\ \A i \in 1 .. Len(wakes') : wakes'[i] = "initial" => i = 1
          /\ Starting' => Starting
      BY <3>1, <3>2, WakesAppend DEF IndInv
    <3>4. Grows
      BY <2>1, PostingGrows DEF IndInv
    <3>5. TypeOK'
      <4>1. IsModel(mirror') /\ IsSeq(mirror'.surfaces)
        BY <2>1 DEF IndInv, TypeOK
      <4> QED
        BY <2>1, <3>1, <3>3, <3>4, <4>1, GuiKeepsTypes DEF IndInv
    <3>6. Started'
      BY <2>1, <3>2, <3>3 DEF IndInv, Started
    <3>7. Presenting'
      BY <2>1 DEF IndInv, Presenting, Presenters, Chrome
    <3>8. Stopping'
      BY <2>1, <3>2, <3>4, GuiKeepsStopping DEF IndInv
    <3> QED
      BY <3>5, <3>6, <3>7, <3>8 DEF IndInv
  <2> QED
    BY <2>1, <2>2, <2>3
<1> QED
  BY <1>1, <1>2

LEMMA EndOfModelKeeps ==
  ASSUME IndInv, BreakOnStop \/ SaveAndEnd
  PROVE  IndInv'
<1>1. CASE BreakOnStop
  <2>1. /\ mpc = "wait" /\ stop /\ work = <<>> /\ mpc' = "save"
        /\ UNCHANGED <<host, model, created, saved, work, stop, channel, wakes, gpc, mirror,
                       loaded, atStop>>
    BY <1>1 DEF BreakOnStop, modelVars, guiVars
  <2>2. TypeOK'
    BY <2>1 DEF IndInv, TypeOK
  <2>3. Started' /\ Presenting'
    BY <2>1 DEF IndInv, Started, Starting, Presenting, Presenters, Chrome
  <2>4. Stopping'
    BY <2>1 DEF IndInv, Stopping, Before, BoundsOf
  <2> QED
    BY <2>2, <2>3, <2>4 DEF IndInv
<1>2. CASE SaveAndEnd
  <2>1. /\ mpc = "save" /\ saved' = model /\ mpc' = "done"
        /\ wakes' = Append(wakes, "finished")
        /\ UNCHANGED <<host, model, created, work, stop, channel, gpc, mirror, loaded,
                       atStop>>
    BY <1>2 DEF SaveAndEnd
  <2>2. mpc # "start" /\ mpc' # "start" /\ "finished" \in Wakes
    BY <2>1 DEF Wakes
  <2>3. /\ wakes' \in Seq(Wakes)
        /\ \A i \in 1 .. Len(wakes') : wakes'[i] = "initial" => i = 1
        /\ Starting' => Starting
    BY <2>1, <2>2, WakesAppend DEF IndInv
  <2>4. TypeOK'
    BY <2>1, <2>3 DEF IndInv, TypeOK
  <2>5. Started'
    BY <2>1, <2>2, <2>3 DEF IndInv, Started
  <2>6. Presenting'
    BY <2>1 DEF IndInv, Presenting, Presenters, Chrome
  <2>7. Stopping'
    BY <2>1 DEF IndInv, Stopping, Before, BoundsOf
  <2> QED
    BY <2>4, <2>5, <2>6, <2>7 DEF IndInv
<1> QED
  BY <1>1, <1>2

LEMMA ModelKeeps ==
  ASSUME IndInv, ModelStep
  PROVE  IndInv'
<1>1. CASE WakeToPublish
  BY <1>1, ThreadKeeps DEF WakeToPublish, Posting, modelVars, guiVars
<1>2. CASE DrainKeys
  BY <1>2, ThreadKeeps DEF DrainKeys, Posting, guiVars
<1>3. CASE DrainErase
  BY <1>3, ThreadKeeps DEF DrainErase, Posting, guiVars
<1>4. CASE DrainDone
  <2>1. /\ mpc = "drainNext" /\ mpc' = "publish"
        /\ EnsureDrainScheduled \/ work' = work
        /\ UNCHANGED <<host, model, created, saved, stop, channel, wakes, gpc, mirror,
                       loaded, atStop>>
    BY <1>4 DEF DrainDone, guiVars
  <2>2. PICK w : w = [op |-> "drain"]
    OBVIOUS
  <2>3. w.op \in HarmlessOps
    BY <2>2 DEF HarmlessOps
  <2>4. PICK ws : ws = <<w>>
    OBVIOUS
  <2>5. Harmless(ws)
    BY <2>3, <2>4, HarmlessOne
  <2>6. Posting
    BY <2>1, <2>2, <2>4, <2>5, PostsHarmless DEF EnsureDrainScheduled, Posting
  <2> QED
    BY <2>1, <2>6, ThreadKeeps
<1> QED
  BY <1>1, <1>2, <1>3, <1>4, RunWorkKeeps, DrainApplyKeeps, PublishKeeps, EndOfModelKeeps
     DEF ModelStep

-----------------------------------------------------------------------------
LEMMA InitIndInv == Init => IndInv
<1> SUFFICES ASSUME Init PROVE IndInv
  OBVIOUS
<1>1. /\ dirty = <<>> /\ work = <<>> /\ stop = FALSE /\ mpc = "start"
      /\ channel = [state |-> "free", data |-> SerializeObjectGraphToBuffer(NoMirror)]
      /\ wakes = <<>> /\ gpc = "loop" /\ mirror = NoMirror /\ loaded = <<>>
      /\ atStop = [s \in Ids |-> None]
  BY DEF Init
<1>2. MaxSurfaces \in Nat /\ MaxSurfaces >= 1 /\ 1 \in Ids
  BY SurfacesAssumption DEF Ids
<1>3. Len(work) = 0 /\ Len(wakes) = 0 /\ Len(loaded) = 0
  BY <1>1, EmptyIs
<1>4. Adds(work) = {} /\ Cardinality({}) = 0
  BY <1>3, FS_EmptySet DEF Adds
<1>5. /\ IsModel(mirror) /\ IsSeq(mirror.surfaces)
  BY <1>1, NoMirrorIs, EmptyIs
<1>6. /\ channel = [state |-> channel.state, data |-> channel.data]
      /\ IsSeq(channel.data.surfaces)
  <2>1. PICK m, d : m = NoMirror /\ d = SerializeObjectGraphToBuffer(m)
    OBVIOUS
  <2>2. d.surfaces = <<>>
    BY <2>1, NoMirrorIs DEF SerializeObjectGraphToBuffer
  <2>3. channel = [state |-> "free", data |-> d]
    BY <1>1, <2>1
  <2> QED
    BY <2>2, <2>3, EmptyIs
<1>7. GoodModel(model, created) /\ created \in Nat /\ created <= MaxSurfaces
  <2>1. ASSUME NEW n \in {1, 2}, n <= MaxSurfaces, NEW z \in Seq(Ids), NEW c,
               NEW m, m = Profile(n, z, c)
        PROVE  GoodModel(m, n)
    <3>1. PICK q, p, b, e : q = [i \in 1 .. n |-> i] /\ p = NoMirror
                         /\ b = [s \in Ids |-> NewSurface.bounds] /\ e = NewSurface.bounds
      OBVIOUS
    <3>2. p = [surfaces |-> <<>>, current |-> None, z |-> <<>>,
               size |-> [s \in Ids |-> NewSurface.size], bounds |-> b]
      BY <3>1 DEF NoMirror
    <3>3. PICK m1 : m1 = [p EXCEPT !.surfaces = q]
      OBVIOUS
    <3>4. m1 = [surfaces |-> q, current |-> None, z |-> <<>>, size |-> p.size, bounds |-> b]
      BY <3>2, <3>3
    <3>5. PICK m2 : m2 = [m1 EXCEPT !.z = z]
      OBVIOUS
    <3>6. m2 = [surfaces |-> q, current |-> None, z |-> z, size |-> p.size, bounds |-> b]
      BY <3>4, <3>5
    <3>7. m = [m2 EXCEPT !.current = c]
      BY <2>1, <3>1, <3>3, <3>5 DEF Profile
    <3>8. m = [surfaces |-> q, current |-> c, z |-> z, size |-> p.size, bounds |-> b]
      BY <3>6, <3>7
    <3>9. /\ m.surfaces = q /\ m.current = c /\ m.z = z /\ m.size = p.size
          /\ m.bounds = b
      BY <3>8
    <3>10. IsModel(m)
      BY <3>8, <3>9 DEF IsModel
    <3>11. b \in [Ids -> {e}]
      BY <3>1
    <3>12. q \in Seq(Ids) /\ Len(q) = n /\ \A i \in 1 .. n : q[i] = i
      <4>1. q \in [1 .. n -> Ids] /\ n \in Nat
        BY <1>2, <2>1, <3>1 DEF Ids
      <4> QED
        BY <3>1, <4>1
    <3>13. NoDup(q) /\ \A i \in 1 .. Len(q) : q[i] <= n
      BY <3>12 DEF NoDup
    <3> QED
      BY <3>9, <3>10, <3>11, <3>12, <3>13 DEF GoodModel
  <2>2. PICK c : \/ model = Profile(1, <<>>, c) /\ created = 1
                 \/ MaxSurfaces > 1 /\ model = Profile(2, <<2, 1>>, c) /\ created = 2
    BY DEF Init
  <2>3. CASE model = Profile(1, <<>>, c) /\ created = 1
    <3>1. PICK m, z : m = model /\ z = <<>>
      OBVIOUS
    <3>2. z \in Seq(Ids) /\ 1 \in {1, 2} /\ 1 <= MaxSurfaces
      BY <1>2, <3>1
    <3>3. GoodModel(m, 1)
      BY <2>1, <2>3, <3>1, <3>2
    <3> QED
      BY <1>2, <2>3, <3>1, <3>3
  <2>4. CASE MaxSurfaces > 1 /\ model = Profile(2, <<2, 1>>, c) /\ created = 2
    <3>1. PICK m, z : m = model /\ z = <<2, 1>>
      OBVIOUS
    <3>2. 2 \in {1, 2} /\ 2 <= MaxSurfaces /\ 2 \in Ids
      BY <1>2, <2>4 DEF Ids
    <3>3. z \in Seq(Ids)
      BY <1>2, <3>1, <3>2
    <3>4. GoodModel(m, 2)
      BY <2>1, <2>4, <3>1, <3>2, <3>3
    <3> QED
      BY <2>4, <3>1, <3>2, <3>4
  <2> QED
    BY <2>2, <2>3, <2>4
<1>8. TypeOK
  <2>1. created + Cardinality(Adds(work)) <= MaxSurfaces
    BY <1>4, <1>7
  <2>2. wakes \in Seq(Wakes) /\ IsSeq(work)
    BY <1>1, EmptyIs
  <2>3. \A i \in 1 .. Len(work) : FALSE
    BY <1>3
  <2>4. /\ IsModel(model) /\ model.surfaces \in Seq(Ids) /\ model.z \in Seq(Ids)
        /\ \E V : model.bounds \in [Ids -> V]
        /\ NoDup(model.surfaces)
        /\ \A i \in 1 .. Len(model.surfaces) : model.surfaces[i] <= created
    BY <1>7 DEF GoodModel
  <2> QED
    BY <1>5, <1>6, <1>7, <2>1, <2>2, <2>3, <2>4 DEF TypeOK
<1>9. Started
  BY <1>1, <1>3 DEF Started
<1>10. Presenting
  <2>1. Range(loaded) = {}
    BY <1>1, RangeEmpty
  <2>2. Presenters = {}
    <3>1. Range(mirror.surfaces) = {}
      BY <1>1, NoMirrorIs, RangeEmpty
    <3> QED
      BY <3>1 DEF Presenters
  <2>3. IsSeq(loaded) /\ NoDup(loaded)
    BY <1>1, <1>3, EmptyIs DEF NoDup
  <2> QED
    BY <1>1, <1>3, <2>1, <2>2, <2>3 DEF Presenting
<1>11. Stopping
  <2>1. Before /\ \A s \in Ids : atStop[s] = None
    BY <1>1 DEF Before
  <2> QED
    BY <1>1, <1>3, <2>1 DEF Stopping
<1> QED
  BY <1>8, <1>9, <1>10, <1>11 DEF IndInv

LEMMA NextIndInv == IndInv /\ [Next]_vars => IndInv'
<1> SUFFICES ASSUME IndInv, [Next]_vars PROVE IndInv'
  OBVIOUS
<1>1. CASE Next
  BY <1>1, ModelKeeps, GuiKeeps, UserKeeps DEF Next
<1>2. CASE UNCHANGED vars
  <2>1. UNCHANGED <<host, model, created, saved, work, stop, mpc, channel, wakes, gpc,
                    mirror, loaded, atStop>>
    BY <1>2 DEF vars, modelVars, guiVars
  <2>2. TypeOK'
    BY <2>1 DEF IndInv, TypeOK
  <2>3. Started' /\ Presenting'
    BY <2>1 DEF IndInv, Started, Starting, Presenting, Presenters, Chrome
  <2>4. Stopping'
    BY <2>1 DEF IndInv, Stopping, Before, BoundsOf
  <2> QED
    BY <2>2, <2>3, <2>4 DEF IndInv
<1> QED
  BY <1>1, <1>2

\* The GUI thread's presenters follow the mirror (LoadPresenters and
\* UnloadPresenters of the four hosts): back in its loop it shows exactly what
\* the mirror reaches, a button never without its window, and at the end none
\* is left.  The order of loading, window before button, is what makes
\* unloading the newest first safe.
THEOREM SurfacesPresentedIsLive == Spec => []PresentedIsLive
<1>1. Init => IndInv
  BY InitIndInv
<1>2. IndInv /\ [Next]_vars => IndInv'
  BY NextIndInv
<1>3. IndInv => PresentedIsLive
  BY IndInvImplies
<1> QED
  BY <1>1, <1>2, <1>3, PTL DEF Spec

\* RequestApplicationStop of a desktop host posts what the windows look like
\* before it stops the session, and the model thread drains its queue before
\* it saves (the loop of SurfacesModelSession): the bounds and the z-order
\* reach the profile whatever else was queued.
THEOREM SurfacesStopKeepsWindows == Spec => []StopKeepsWindows
<1>1. Init => IndInv
  BY InitIndInv
<1>2. IndInv /\ [Next]_vars => IndInv'
  BY NextIndInv
<1>3. IndInv => StopKeepsWindows
  BY IndInvImplies
<1> QED
  BY <1>1, <1>2, <1>3, PTL DEF Spec
=============================================================================
