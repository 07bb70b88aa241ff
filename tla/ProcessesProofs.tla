--------------------------- MODULE ProcessesProofs ---------------------------
(***************************************************************************)
(* Proofs about the small programs of Uni/CProg (BinRel and ListSums), and *)
(* about all ten programs of MCProcesses together: the type invariants,    *)
(* nobody is taken for somebody else, and everything that was written is   *)
(* read.                                                                   *)
(***************************************************************************)
EXTENDS BsysProofs, Selection

\* Induction over a set of numbers.
LEMMA Upwards ==
  ASSUME NEW S, 0 \in S, \A k \in Nat : k \in S => k + 1 \in S
  PROVE  Nat \subseteq S
<1> DEFINE Bad == Nat \ S
<1>1. SUFFICES ASSUME Bad # {} PROVE FALSE
  OBVIOUS
<1>2. PICK m \in Bad : \A k \in Bad : m <= k
  BY <1>1, LeastNat
<1>3. m \in Nat /\ m # 0 /\ m - 1 \in Nat /\ m - 1 \in S
  BY <1>2
<1> QED
  BY <1>2, <1>3

\* The functions that Chosen computes along a sequence exist.
Along(g, s, S, m) ==
  [k \in 0 .. m |-> IF k = 0 THEN <<>> ELSE IF s[k] \in S THEN Append(g[k - 1], s[k]) ELSE g[k - 1]]

\* For a sequence of any length there is such a function: the first length
\* without one would follow a length that has one.
LEMMA AlongExists ==
  ASSUME NEW s, NEW S
  PROVE  \A m \in Nat : \E g : g = Along(g, s, S, m)
<1> DEFINE Good == {m \in Nat : \E g : g = Along(g, s, S, m)}
<1>1. 0 \in Good
  <2> DEFINE g == [k \in 0 .. 0 |-> <<>>]
  <2>1. g = Along(g, s, S, 0)
    BY DEF Along
  <2> QED
    BY <2>1
<1>2. ASSUME NEW m \in Nat, m \in Good PROVE m + 1 \in Good
  <2>1. PICK g : g = Along(g, s, S, m)
    BY <1>2
  <2> DEFINE a == IF s[m + 1] \in S THEN Append(g[m], s[m + 1]) ELSE g[m]
             h == [k \in 0 .. m + 1 |-> IF k = m + 1 THEN a ELSE g[k]]
  <2>2. \A k \in 0 .. m : g[k] = IF k = 0 THEN <<>> ELSE IF s[k] \in S THEN Append(g[k - 1], s[k]) ELSE g[k - 1]
    BY <2>1 DEF Along
  <2>3. ASSUME NEW k \in 0 .. m + 1
        PROVE  h[k] = IF k = 0 THEN <<>> ELSE IF s[k] \in S THEN Append(h[k - 1], s[k]) ELSE h[k - 1]
    <3>1. CASE k = m + 1
      <4>1. h[k] = a /\ h[k - 1] = g[m] /\ k # 0
        BY <3>1
      <4> QED
        BY <3>1, <4>1
    <3>2. CASE k # m + 1
      <4>1. k \in 0 .. m /\ h[k] = g[k] /\ (k # 0 => h[k - 1] = g[k - 1])
        BY <3>2
      <4> HIDE DEF h, a
      <4> QED
        BY <2>2, <4>1
    <3> QED
      BY <3>1, <3>2
  <2>4. DOMAIN h = 0 .. m + 1 /\ h = [k \in 0 .. m + 1 |-> h[k]]
    OBVIOUS
  <2> HIDE DEF h
  <2>5. h = Along(h, s, S, m + 1)
    BY <2>3, <2>4 DEF Along
  <2> QED
    BY <2>5
<1> HIDE DEF Good
<1>3. Nat \subseteq Good
  BY <1>1, <1>2, Upwards
<1> QED
  BY <1>3 DEF Good

\* Chosen is the last value of such a function.
LEMMA ChosenAlong ==
  ASSUME NEW s, NEW S, Len(s) \in Nat
  PROVE  \E g : /\ Chosen(s, S) = g[Len(s)]
                /\ g[0] = <<>>
                /\ \A k \in 1 .. Len(s) : g[k] = IF s[k] \in S THEN Append(g[k - 1], s[k]) ELSE g[k - 1]
<1> DEFINE g == CHOOSE g : g = Along(g, s, S, Len(s))
<1>1. g = Along(g, s, S, Len(s))
  BY AlongExists
<1>2. Chosen(s, S) = g[Len(s)]
  BY DEF Chosen, Along
<1> HIDE DEF g
<1>3. g[0] = <<>> /\ \A k \in 1 .. Len(s) : g[k] = IF s[k] \in S THEN Append(g[k - 1], s[k]) ELSE g[k - 1]
  <2>1. 0 \in 0 .. Len(s) /\ \A k \in 1 .. Len(s) : k \in 0 .. Len(s) /\ k # 0
    OBVIOUS
  <2>2. \A k \in 0 .. Len(s) : g[k] = IF k = 0 THEN <<>> ELSE IF s[k] \in S THEN Append(g[k - 1], s[k]) ELSE g[k - 1]
    BY <1>1 DEF Along
  <2> QED
    BY <2>1, <2>2
<1> QED
  BY <1>2, <1>3

\* What is chosen of a sequence: its members in S, in an order that it has.
LEMMA ChosenIs ==
  ASSUME NEW T, NEW s \in Seq(T), NEW S
  PROVE  /\ Chosen(s, S) \in Seq(T) /\ Len(Chosen(s, S)) <= Len(s)
         /\ \A e : (\E j \in DOMAIN Chosen(s, S) : Chosen(s, S)[j] = e)
                   <=> e \in S /\ \E j \in DOMAIN s : s[j] = e
         /\ \A K : (\A a, b \in DOMAIN s : K[s[a]] \in Int /\ (a < b => K[s[a]] < K[s[b]]))
                 => \A x, y \in DOMAIN Chosen(s, S) : x < y => K[Chosen(s, S)[x]] < K[Chosen(s, S)[y]]
<1>0. Len(s) \in Nat /\ DOMAIN s = 1 .. Len(s)
  OBVIOUS
<1>1. PICK g : /\ Chosen(s, S) = g[Len(s)]
               /\ g[0] = <<>>
               /\ \A k \in 1 .. Len(s) : g[k] = IF s[k] \in S THEN Append(g[k - 1], s[k]) ELSE g[k - 1]
  BY <1>0, ChosenAlong
<1> DEFINE Typed(q, m) == q \in Seq(T) /\ Len(q) <= m
           Is(q, m) == \A e : (\E j \in DOMAIN q : q[j] = e) <=> e \in S /\ \E j \in 1 .. m : s[j] = e
           Grows(K) == \A a, b \in DOMAIN s : K[s[a]] \in Int /\ (a < b => K[s[a]] < K[s[b]])
           Up(q, K) == \A x, y \in DOMAIN q : x < y => K[q[x]] < K[q[y]]
           Good == {m \in Nat : m <= Len(s) => Typed(g[m], m) /\ Is(g[m], m) /\ \A K : Grows(K) => Up(g[m], K)}
<1>2. 0 \in Good
  <2>1. Typed(<<>>, 0) /\ Is(<<>>, 0) /\ \A K : Up(<<>>, K)
    OBVIOUS
  <2> QED
    BY <1>1, <2>1
<1>3. ASSUME NEW m \in Nat, m \in Good PROVE m + 1 \in Good
  <2>1. SUFFICES ASSUME m + 1 <= Len(s)
                 PROVE  Typed(g[m + 1], m + 1) /\ Is(g[m + 1], m + 1) /\ \A K : Grows(K) => Up(g[m + 1], K)
    OBVIOUS
  <2>2. Typed(g[m], m) /\ Is(g[m], m) /\ \A K : Grows(K) => Up(g[m], K)
    BY <1>0, <1>3, <2>1
  <2>3. m + 1 \in 1 .. Len(s) /\ (m + 1) - 1 = m /\ s[m + 1] \in T /\ 1 .. m \subseteq DOMAIN s
        /\ 1 .. m + 1 = (1 .. m) \cup {m + 1}
    BY <1>0, <2>1
  <2>4. g[m + 1] = IF s[m + 1] \in S THEN Append(g[m], s[m + 1]) ELSE g[m]
    BY <1>1, <2>3
  <2>5. CASE s[m + 1] \notin S
    <3>1. g[m + 1] = g[m]
      BY <2>4, <2>5
    <3>2. Typed(g[m], m + 1)
      <4>1. Len(g[m]) \in Nat
        BY <2>2, LenProperties
      <4> QED
        BY <2>2, <4>1
    <3>3. Is(g[m], m + 1)
      BY <2>2, <2>3, <2>5
    <3> HIDE DEF Typed, Is, Grows, Up
    <3> QED
      BY <2>2, <3>1, <3>2, <3>3
  <2>6. CASE s[m + 1] \in S
    <3> DEFINE q == g[m]
               r == Append(q, s[m + 1])
    <3>1. /\ r \in Seq(T) /\ Len(q) \in Nat /\ Len(r) = Len(q) + 1
          /\ \A j \in 1 .. Len(q) : r[j] = q[j]
          /\ r[Len(q) + 1] = s[m + 1]
      BY <2>2, <2>3, AppendProperties, LenProperties
    <3>2. DOMAIN q = 1 .. Len(q) /\ DOMAIN r = 1 .. Len(q) + 1 /\ DOMAIN r = DOMAIN q \cup {Len(q) + 1}
      BY <2>2, <3>1
    <3>3. g[m + 1] = r
      BY <2>4, <2>6
    <3>4. Is(q, m) /\ \A K : Grows(K) => Up(q, K)
      BY <2>2
    <3> HIDE DEF r, q
    <3>5. Is(r, m + 1)
      <4>1. ASSUME NEW e PROVE (\E j \in DOMAIN r : r[j] = e) <=> (\E j \in DOMAIN q : q[j] = e) \/ e = s[m + 1]
        BY <3>1, <3>2
      <4>2. ASSUME NEW e PROVE (\E j \in 1 .. m + 1 : s[j] = e) <=> (\E j \in 1 .. m : s[j] = e) \/ e = s[m + 1]
        BY <2>3
      <4> QED
        BY <2>6, <3>4, <4>1, <4>2
    <3>6. ASSUME NEW K, Grows(K) PROVE Up(r, K)
      <4>1. \A x \in DOMAIN q : \E j \in 1 .. m : q[x] = s[j]
        BY <3>4
      <4>2. \A x \in DOMAIN q : K[q[x]] < K[s[m + 1]]
        <5>1. \A j \in 1 .. m : j \in DOMAIN s /\ j < m + 1 /\ m + 1 \in DOMAIN s
          BY <1>0, <2>3
        <5> QED
          BY <3>6, <4>1, <5>1
      <4>3. Up(q, K)
        BY <3>4, <3>6
      <4> SUFFICES ASSUME NEW x \in DOMAIN r, NEW y \in DOMAIN r, x < y PROVE K[r[x]] < K[r[y]]
        OBVIOUS
      <4>4. x \in DOMAIN q /\ r[x] = q[x] /\ (y \in DOMAIN q => r[y] = q[y]) /\ (y \notin DOMAIN q => r[y] = s[m + 1])
        BY <3>1, <3>2
      <4> QED
        BY <4>2, <4>3, <4>4
    <3>7. Typed(r, m + 1)
      <4>1. Len(q) <= m
        BY <2>2 DEF q
      <4> QED
        BY <3>1, <4>1
    <3> HIDE DEF Typed, Is, Grows, Up
    <3> QED
      BY <3>3, <3>5, <3>6, <3>7
  <2> QED
    BY <2>5, <2>6
<1>4. Nat \subseteq Good
  <2> HIDE DEF Good
  <2> QED
    BY <1>2, <1>3, Upwards
<1>5. Typed(g[Len(s)], Len(s)) /\ Is(g[Len(s)], Len(s)) /\ \A K : Grows(K) => Up(g[Len(s)], K)
  <2>1. Len(s) \in Good
    <3> HIDE DEF Good
    <3> QED
      BY <1>0, <1>4
  <2> HIDE DEF Typed, Is, Grows, Up
  <2> QED
    BY <1>0, <2>1
<1> QED
  BY <1>0, <1>1, <1>5

\* One instance of that lemma: what is chosen are the members in S.
LEMMA ChosenMember ==
  ASSUME NEW T, NEW s \in Seq(T), NEW S, NEW e
  PROVE  (\E j \in DOMAIN Chosen(s, S) : Chosen(s, S)[j] = e) <=> (e \in S /\ \E j \in DOMAIN s : s[j] = e)
<1>1. \A x : (\E j \in DOMAIN Chosen(s, S) : Chosen(s, S)[j] = x) <=> x \in S /\ \E j \in DOMAIN s : s[j] = x
  BY ChosenIs
<1> QED
  BY <1>1

\* If a measure grows along s, it grows along what is chosen of s.
LEMMA ChosenGrows ==
  ASSUME NEW T, NEW s \in Seq(T), NEW S, NEW K,
         \A a, b \in DOMAIN s : K[s[a]] \in Int /\ (a < b => K[s[a]] < K[s[b]])
  PROVE  \A x, y \in DOMAIN Chosen(s, S) : x < y => K[Chosen(s, S)[x]] < K[Chosen(s, S)[y]]
  BY ChosenIs

\* If the members in S come first, they are what is chosen.
LEMMA ChosenFirst ==
  ASSUME NEW s, NEW S, Len(s) \in Nat, NEW m \in 0 .. Len(s),
         \A k \in 1 .. Len(s) : s[k] \in S <=> k <= m
  PROVE  Chosen(s, S) = [k \in 1 .. m |-> s[k]]
<1>1. PICK g : /\ Chosen(s, S) = g[Len(s)]
               /\ g[0] = <<>>
               /\ \A k \in 1 .. Len(s) : g[k] = IF s[k] \in S THEN Append(g[k - 1], s[k]) ELSE g[k - 1]
  BY ChosenAlong
<1> DEFINE First(l) == [k \in 1 .. l |-> s[k]]
           Good == {l \in Nat : l <= Len(s) => g[l] = First(IF l <= m THEN l ELSE m)}
<1>2. 0 \in Good
  <2>1. First(0) = <<>>
    OBVIOUS
  <2> QED
    BY <1>1, <2>1
<1>3. ASSUME NEW l \in Nat, l \in Good PROVE l + 1 \in Good
  <2>1. SUFFICES ASSUME l + 1 <= Len(s) PROVE g[l + 1] = First(IF l + 1 <= m THEN l + 1 ELSE m)
    OBVIOUS
  <2>2. /\ l + 1 \in 1 .. Len(s) /\ (l + 1) - 1 = l
        /\ g[l] = First(IF l <= m THEN l ELSE m)
    BY <1>3, <2>1
  <2>3. g[l + 1] = IF s[l + 1] \in S THEN Append(g[l], s[l + 1]) ELSE g[l]
    BY <1>1, <2>2
  <2>4. CASE l + 1 <= m
    <3>1. g[l + 1] = Append(First(l), s[l + 1])
      BY <2>2, <2>3, <2>4
    <3>2. Append(First(l), s[l + 1]) = First(l + 1)
      OBVIOUS
    <3> QED
      BY <2>4, <3>1, <3>2
  <2>5. CASE ~ (l + 1 <= m)
    <3>1. (IF l <= m THEN l ELSE m) = m
      BY <2>5
    <3> QED
      BY <2>2, <2>3, <2>5, <3>1
  <2> QED
    BY <2>4, <2>5
<1>4. Len(s) \in Good
  <2> HIDE DEF Good
  <2>1. Nat \subseteq Good
    BY <1>2, <1>3, Upwards
  <2> QED
    BY <2>1
<1>5. (IF Len(s) <= m THEN Len(s) ELSE m) = m
  OBVIOUS
<1> QED
  BY <1>1, <1>4, <1>5

\* Choosing members is choosing their places.
LEMMA ChosenPlaces ==
  ASSUME NEW s, NEW S, Len(s) \in Nat
  PROVE  LET places == Chosen([k \in 1 .. Len(s) |-> k], {k \in 1 .. Len(s) : s[k] \in S})
         IN  Chosen(s, S) = [k \in DOMAIN places |-> s[places[k]]]
<1> DEFINE id == [k \in 1 .. Len(s) |-> k]
           P == {k \in 1 .. Len(s) : s[k] \in S}
<1>0. Len(id) = Len(s) /\ (\A k \in 1 .. Len(s) : id[k] = k) /\ \A k \in 1 .. Len(s) : k \in P <=> s[k] \in S
  OBVIOUS
<1> HIDE DEF id, P
<1>1. PICK g : /\ Chosen(s, S) = g[Len(s)]
               /\ g[0] = <<>>
               /\ \A k \in 1 .. Len(s) : g[k] = IF s[k] \in S THEN Append(g[k - 1], s[k]) ELSE g[k - 1]
  BY ChosenAlong
<1>2. PICK h : /\ Chosen(id, P) = h[Len(s)]
               /\ h[0] = <<>>
               /\ \A k \in 1 .. Len(s) : h[k] = IF id[k] \in P THEN Append(h[k - 1], id[k]) ELSE h[k - 1]
  BY <1>0, ChosenAlong
<1> DEFINE Good == {l \in Nat : l <= Len(s) => h[l] \in Seq(Nat) /\ g[l] = [k \in DOMAIN h[l] |-> s[h[l][k]]]}
<1>3. 0 \in Good
  <2>1. [k \in DOMAIN <<>> |-> s[<<>>[k]]] = <<>>
    OBVIOUS
  <2> QED
    BY <1>1, <1>2, <2>1
<1>4. ASSUME NEW l \in Nat, l \in Good PROVE l + 1 \in Good
  <2>1. SUFFICES ASSUME l + 1 <= Len(s)
                 PROVE  h[l + 1] \in Seq(Nat) /\ g[l + 1] = [k \in DOMAIN h[l + 1] |-> s[h[l + 1][k]]]
    OBVIOUS
  <2>2. /\ l + 1 \in 1 .. Len(s) /\ (l + 1) - 1 = l
        /\ h[l] \in Seq(Nat) /\ g[l] = [k \in DOMAIN h[l] |-> s[h[l][k]]]
    BY <1>4, <2>1
  <2>3. /\ g[l + 1] = IF s[l + 1] \in S THEN Append(g[l], s[l + 1]) ELSE g[l]
        /\ h[l + 1] = IF s[l + 1] \in S THEN Append(h[l], l + 1) ELSE h[l]
    BY <1>0, <1>1, <1>2, <2>2
  <2>4. CASE s[l + 1] \in S
    <3> DEFINE a == h[l]
    <3>1. a \in Seq(Nat) /\ g[l] = [k \in DOMAIN a |-> s[a[k]]]
      BY <2>2
    <3> HIDE DEF a
    <3>2. Append([k \in DOMAIN a |-> s[a[k]]], s[l + 1])
            = [k \in DOMAIN Append(a, l + 1) |-> s[Append(a, l + 1)[k]]]
      <4>1. Len(a) \in Nat /\ DOMAIN a = 1 .. Len(a)
        BY <3>1
      <4> QED
        BY <3>1, <4>1
    <3>3. Append(a, l + 1) \in Seq(Nat)
      BY <3>1, AppendProperties
    <3>4. g[l + 1] = Append([k \in DOMAIN a |-> s[a[k]]], s[l + 1]) /\ h[l + 1] = Append(a, l + 1)
      BY <2>3, <2>4, <3>1 DEF a
    <3> QED
      BY <3>2, <3>3, <3>4
  <2>5. CASE s[l + 1] \notin S
    BY <2>2, <2>3, <2>5
  <2> QED
    BY <2>4, <2>5
<1>5. Len(s) \in Good
  <2> HIDE DEF Good
  <2>1. Nat \subseteq Good
    BY <1>3, <1>4, Upwards
  <2> QED
    BY <2>1
<1>6. Chosen(s, S) = [k \in DOMAIN Chosen(id, P) |-> s[Chosen(id, P)[k]]]
  BY <1>1, <1>2, <1>5
<1> QED
  BY <1>6 DEF id, P

-----------------------------------------------------------------------------
(* binRel.c: the three forms of a relation and one pass of closure         *)

\* The operators of the libraries that a program brings along are those that
\* the lemmas of this module speak of.
LEMMA RelChosen == \A s, S : Rel!Chosen(s, S) = Chosen(s, S)
  BY DEF Rel!Chosen, Chosen
RelBounds == MaxN \in Nat

\* Every field of the matrix has its place in the order of the loops.
LEMMA FieldPlaces ==
  ASSUME NEW m \in Nat, m > 0, NEW a \in 0 .. m - 1, NEW b \in 0 .. m - 1
  PROVE  /\ (a * m + b) \div m = a /\ (a * m + b) % m = b
         /\ a * m + b + 1 \in 1 .. m * m
<1> DEFINE p == a * m + b
           q == p \div m
           r == p % m
<1>1. p \in Nat
  BY Z3
<1>2. q \in Nat /\ r \in 0 .. m - 1 /\ p = m * q + r
  BY <1>1
<1>3. a * m + b = m * q + r
  BY <1>2
<1> HIDE DEF q, r, p
<1>4. q = a
  <2>1. CASE q >= a + 1
    <3>1. m * q >= m * (a + 1)
      BY <1>2, <2>1
    <3>2. m * (a + 1) = a * m + m
      OBVIOUS
    <3>3. a * m \in Int /\ m * q \in Int
      BY <1>2
    <3> QED
      BY <1>2, <1>3, <3>1, <3>2, <3>3
  <2>2. CASE q <= a - 1
    <3>1. m * q <= m * (a - 1)
      BY <1>2, <2>2
    <3>2. m * (a - 1) = a * m - m
      OBVIOUS
    <3>3. a * m \in Int /\ m * q \in Int
      BY <1>2
    <3> QED
      BY <1>2, <1>3, <3>1, <3>2, <3>3
  <2> QED
    BY <1>2, <2>1, <2>2
<1>5. r = b
  BY <1>2, <1>3, <1>4
<1>6. a * m + b + 1 \in 1 .. m * m
  <2>1. a * m <= (m - 1) * m
    OBVIOUS
  <2>2. (m - 1) * m = m * m - m
    OBVIOUS
  <2> QED
    BY <2>1, <2>2
<1> QED
  BY <1>4, <1>5, <1>6 DEF p, q, r

\* The fields are the pairs, in the order of a number system with base n.
LEMMA FieldsAre ==
  ASSUME n \in Nat
  PROVE  /\ Rel!Fields \in Seq(Rel!Nodes \X Rel!Nodes) /\ DOMAIN Rel!Fields = 1 .. n * n
         /\ \A r \in 1 .. n * n : /\ Rel!Fields[r][1] \in Rel!Nodes /\ Rel!Fields[r][2] \in Rel!Nodes
                                  /\ Rel!Fields[r] = <<Rel!Fields[r][1], Rel!Fields[r][2]>>
                                  /\ Rel!Fields[r][1] * n + Rel!Fields[r][2] = r - 1
         /\ \A a, b \in Rel!Nodes : a * n + b + 1 \in 1 .. n * n /\ Rel!Fields[a * n + b + 1] = <<a, b>>
<1>1. n * n \in Nat
  OBVIOUS
<1>2. ASSUME NEW r \in 1 .. n * n
      PROVE  /\ (r - 1) \div n \in Rel!Nodes /\ (r - 1) % n \in Rel!Nodes
             /\ ((r - 1) \div n) * n + ((r - 1) % n) = r - 1
  <2> DEFINE p == r - 1
             q == p \div n
             m == p % n
  <2>1. n > 0 /\ p \in Nat /\ p < n * n
    <3>1. n # 0
      BY <1>1
    <3> QED
      BY <1>1, <3>1
  <2>2. q \in Nat /\ m \in 0 .. n - 1 /\ p = n * q + m
    BY <2>1
  <2> HIDE DEF p, q, m
  <2>3. q < n
    <3>1. CASE q >= n
      <4>1. n * q >= n * n /\ n * q \in Int
        BY <2>2, <3>1
      <4> QED
        BY <1>1, <2>1, <2>2, <4>1
    <3> QED
      BY <2>2, <3>1
  <2>4. q * n = n * q
    BY <2>2
  <2>5. q \in Rel!Nodes /\ m \in Rel!Nodes
    BY <2>2, <2>3 DEF Rel!Nodes
  <2>6. q * n + m = p
    BY <2>2, <2>4
  <2> QED
    BY <2>5, <2>6 DEF p, q, m
<1>3. \A r \in 1 .. n * n : Rel!Fields[r] = <<(r - 1) \div n, (r - 1) % n>>
  BY DEF Rel!Fields
<1>4. Rel!Fields \in [1 .. n * n -> Rel!Nodes \X Rel!Nodes]
  <2>1. \A r \in 1 .. n * n : <<(r - 1) \div n, (r - 1) % n>> \in Rel!Nodes \X Rel!Nodes
    BY <1>2
  <2> QED
    BY <2>1 DEF Rel!Fields
<1>5. Rel!Fields \in Seq(Rel!Nodes \X Rel!Nodes) /\ DOMAIN Rel!Fields = 1 .. n * n
  BY <1>1, <1>4
<1>6. \A r \in 1 .. n * n : /\ Rel!Fields[r][1] \in Rel!Nodes /\ Rel!Fields[r][2] \in Rel!Nodes
                            /\ Rel!Fields[r] = <<Rel!Fields[r][1], Rel!Fields[r][2]>>
                            /\ Rel!Fields[r][1] * n + Rel!Fields[r][2] = r - 1
  <2> SUFFICES ASSUME NEW r \in 1 .. n * n
               PROVE  /\ Rel!Fields[r][1] \in Rel!Nodes /\ Rel!Fields[r][2] \in Rel!Nodes
                      /\ Rel!Fields[r] = <<Rel!Fields[r][1], Rel!Fields[r][2]>>
                      /\ Rel!Fields[r][1] * n + Rel!Fields[r][2] = r - 1
    OBVIOUS
  <2> DEFINE a == (r - 1) \div n
             b == (r - 1) % n
  <2>1. Rel!Fields[r] = <<a, b>> /\ a \in Rel!Nodes /\ b \in Rel!Nodes /\ a * n + b = r - 1
    BY <1>2, <1>3
  <2> HIDE DEF a, b
  <2> QED
    BY <2>1
<1>7. ASSUME NEW a \in Rel!Nodes, NEW b \in Rel!Nodes
      PROVE  a * n + b + 1 \in 1 .. n * n /\ Rel!Fields[a * n + b + 1] = <<a, b>>
  <2>1. n > 0 /\ a \in 0 .. n - 1 /\ b \in 0 .. n - 1
    BY DEF Rel!Nodes
  <2>2. a * n + b + 1 \in 1 .. n * n /\ (a * n + b) \div n = a /\ (a * n + b) % n = b
    BY <2>1, FieldPlaces
  <2>3. a * n \in Int /\ (a * n + b + 1) - 1 = a * n + b
    BY <2>1
  <2> QED
    BY <1>3, <2>2, <2>3
<1> QED
  BY <1>5, <1>6, <1>7

\* The list and the array that are made of a matrix say what it says.
LEMMA FormsOf ==
  ASSUME n \in Nat, NEW M, M \subseteq Rel!Nodes \X Rel!Nodes
  PROVE  /\ Rel!SameRelation(M, Rel!MatZuLi(M), Rel!MatZuAr(M))
         /\ Rel!Range(Rel!MatZuLi(M)) \subseteq Rel!Nodes \X Rel!Nodes
<1> DEFINE li == Rel!MatZuLi(M)
<1>1. /\ li \in Seq(Rel!Nodes \X Rel!Nodes)
      /\ \A e : (\E j \in DOMAIN li : li[j] = e) <=> e \in M /\ \E j \in DOMAIN Rel!Fields : Rel!Fields[j] = e
      /\ \A K : (\A a, b \in DOMAIN Rel!Fields : K[Rel!Fields[a]] \in Int /\ (a < b => K[Rel!Fields[a]] < K[Rel!Fields[b]]))
              => \A x, y \in DOMAIN li : x < y => K[li[x]] < K[li[y]]
  <2>1. Rel!Fields \in Seq(Rel!Nodes \X Rel!Nodes)
    BY FieldsAre
  <2>2. li = Chosen(Rel!Fields, M)
    BY RelChosen DEF Rel!MatZuLi
  <2> DEFINE T == Rel!Nodes \X Rel!Nodes
  <2>3. Rel!Fields \in Seq(T)
    BY <2>1
  <2> HIDE DEF li, T
  <2>4. /\ Chosen(Rel!Fields, M) \in Seq(T)
        /\ \A e : (\E j \in DOMAIN Chosen(Rel!Fields, M) : Chosen(Rel!Fields, M)[j] = e)
                  <=> e \in M /\ \E j \in DOMAIN Rel!Fields : Rel!Fields[j] = e
        /\ \A K : (\A a, b \in DOMAIN Rel!Fields : K[Rel!Fields[a]] \in Int /\ (a < b => K[Rel!Fields[a]] < K[Rel!Fields[b]]))
                => \A x, y \in DOMAIN Chosen(Rel!Fields, M) :
                      x < y => K[Chosen(Rel!Fields, M)[x]] < K[Chosen(Rel!Fields, M)[y]]
    <3>1. Chosen(Rel!Fields, M) \in Seq(T)
      BY <2>3, ChosenIs
    <3>2. ASSUME NEW e
          PROVE  (\E j \in DOMAIN Chosen(Rel!Fields, M) : Chosen(Rel!Fields, M)[j] = e)
                   <=> (e \in M /\ \E j \in DOMAIN Rel!Fields : Rel!Fields[j] = e)
      BY <2>3, ChosenMember
    <3>3. ASSUME NEW K, \A a, b \in DOMAIN Rel!Fields :
                           K[Rel!Fields[a]] \in Int /\ (a < b => K[Rel!Fields[a]] < K[Rel!Fields[b]])
          PROVE  \A x, y \in DOMAIN Chosen(Rel!Fields, M) :
                    x < y => K[Chosen(Rel!Fields, M)[x]] < K[Chosen(Rel!Fields, M)[y]]
      BY <2>3, <3>3, ChosenGrows
    <3> QED
      BY <3>1, <3>2, <3>3, Zenon
  <2> QED
    BY <2>2, <2>4, Zenon DEF T
<1> HIDE DEF li
<1>2. Rel!Range(li) = M
  <2>1. \A e \in M : \E j \in DOMAIN Rel!Fields : Rel!Fields[j] = e
    <3> SUFFICES ASSUME NEW e \in M PROVE \E j \in DOMAIN Rel!Fields : Rel!Fields[j] = e
      OBVIOUS
    <3>1. PICK a \in Rel!Nodes, b \in Rel!Nodes : e = <<a, b>>
      OBVIOUS
    <3> QED
      BY <3>1, FieldsAre
  <2> QED
    BY <1>1, <2>1 DEF Rel!Range
<1>3. Rel!Increasing(li, LAMBDA p : p[1] * n + p[2])
  <2> DEFINE K == [p \in Rel!Nodes \X Rel!Nodes |-> p[1] * n + p[2]]
  <2>1. \A r \in DOMAIN Rel!Fields : K[Rel!Fields[r]] = r - 1 /\ r \in Int
    <3> SUFFICES ASSUME NEW r \in 1 .. n * n PROVE K[Rel!Fields[r]] = r - 1 /\ r \in Int
      BY FieldsAre
    <3>1. /\ Rel!Fields[r][1] \in Rel!Nodes /\ Rel!Fields[r][2] \in Rel!Nodes
          /\ Rel!Fields[r] = <<Rel!Fields[r][1], Rel!Fields[r][2]>>
          /\ Rel!Fields[r][1] * n + Rel!Fields[r][2] = r - 1
      BY FieldsAre
    <3>2. Rel!Fields[r] \in Rel!Nodes \X Rel!Nodes
      BY <3>1
    <3>3. r \in Int
      OBVIOUS
    <3> QED
      BY <3>1, <3>2, <3>3
  <2>2. \A p \in Rel!Nodes \X Rel!Nodes : K[p] = p[1] * n + p[2]
    OBVIOUS
  <2> HIDE DEF K
  <2>3. \A x, y \in DOMAIN li : x < y => K[li[x]] < K[li[y]]
    <3>1. \A a, b \in DOMAIN Rel!Fields : K[Rel!Fields[a]] \in Int /\ (a < b => K[Rel!Fields[a]] < K[Rel!Fields[b]])
      BY <2>1
    <3> QED
      BY <1>1, <3>1
  <2>4. \A x \in DOMAIN li : li[x] \in Rel!Nodes \X Rel!Nodes
    BY <1>1
  <2> QED
    BY <2>2, <2>3, <2>4 DEF Rel!Increasing
<1>4. ASSUME NEW i0 \in Rel!Nodes
      PROVE  /\ Rel!Range(Rel!MatZuAr(M)[i0]) = {j \in Rel!Nodes : <<i0, j>> \in M}
             /\ Rel!Increasing(Rel!MatZuAr(M)[i0], LAMBDA j : j)
  <2> DEFINE s == [j \in 1 .. n |-> j - 1]
             S == {j \in Rel!Nodes : <<i0, j>> \in M}
             ar == Chosen(s, S)
  <2>1. Rel!MatZuAr(M)[i0] = ar
    BY RelChosen DEF Rel!MatZuAr
  <2>2. s \in Seq(Rel!Nodes) /\ DOMAIN s = 1 .. n /\ \A j \in 1 .. n : s[j] = j - 1
    BY DEF Rel!Nodes
  <2> HIDE DEF s, S
  <2>3. /\ ar \in Seq(Rel!Nodes)
        /\ \A e : (\E j \in DOMAIN ar : ar[j] = e) <=> e \in S /\ \E j \in DOMAIN s : s[j] = e
        /\ \A K : (\A a, b \in DOMAIN s : K[s[a]] \in Int /\ (a < b => K[s[a]] < K[s[b]]))
                => \A x, y \in DOMAIN ar : x < y => K[ar[x]] < K[ar[y]]
    <3>0. s \in Seq(Rel!Nodes)
      BY <2>2
    <3>1. Chosen(s, S) \in Seq(Rel!Nodes)
      BY <3>0, ChosenIs
    <3>2. ASSUME NEW e
          PROVE  (\E j \in DOMAIN Chosen(s, S) : Chosen(s, S)[j] = e) <=> (e \in S /\ \E j \in DOMAIN s : s[j] = e)
      BY <3>0, ChosenMember
    <3>3. ASSUME NEW K, \A a, b \in DOMAIN s : K[s[a]] \in Int /\ (a < b => K[s[a]] < K[s[b]])
          PROVE  \A x, y \in DOMAIN Chosen(s, S) : x < y => K[Chosen(s, S)[x]] < K[Chosen(s, S)[y]]
      BY <3>0, <3>3, ChosenGrows
    <3> QED
      BY <3>1, <3>2, <3>3, Zenon
  <2> HIDE DEF ar
  <2>4. \A e \in S : \E j \in DOMAIN s : s[j] = e
    <3> SUFFICES ASSUME NEW e \in S PROVE \E j \in DOMAIN s : s[j] = e
      OBVIOUS
    <3>1. e + 1 \in 1 .. n /\ s[e + 1] = e
      BY <2>2 DEF S, Rel!Nodes
    <3> QED
      BY <2>2, <3>1
  <2>5. Rel!Range(ar) = S
    BY <2>3, <2>4 DEF Rel!Range
  <2>6. Rel!Increasing(ar, LAMBDA j : j)
    <3> DEFINE K == [j \in Rel!Nodes |-> j]
    <3>1. \A j \in Rel!Nodes : K[j] = j /\ j \in Int
      BY DEF Rel!Nodes
    <3>2. \A a \in DOMAIN s : s[a] \in Rel!Nodes /\ s[a] = a - 1 /\ a \in Int
      BY <2>2 DEF Rel!Nodes
    <3> HIDE DEF K
    <3>3. \A x, y \in DOMAIN ar : x < y => K[ar[x]] < K[ar[y]]
      <4>1. \A a, b \in DOMAIN s : K[s[a]] \in Int /\ (a < b => K[s[a]] < K[s[b]])
        BY <3>1, <3>2
      <4> QED
        BY <2>3, <4>1
    <3>4. \A x \in DOMAIN ar : ar[x] \in Rel!Nodes
      BY <2>3
    <3> QED
      BY <3>1, <3>3, <3>4 DEF Rel!Increasing
  <2> QED
    BY <2>1, <2>5, <2>6 DEF S
<1>5. UNION {{<<i0, j>> : j \in Rel!Range(Rel!MatZuAr(M)[i0])} : i0 \in Rel!Nodes} = M
  <2> DEFINE U == UNION {{<<i0, j>> : j \in Rel!Range(Rel!MatZuAr(M)[i0])} : i0 \in Rel!Nodes}
  <2>1. ASSUME NEW e \in U PROVE e \in M
    <3>1. PICK i0 \in Rel!Nodes : e \in {<<i0, j>> : j \in Rel!Range(Rel!MatZuAr(M)[i0])}
      OBVIOUS
    <3>2. PICK j \in Rel!Range(Rel!MatZuAr(M)[i0]) : e = <<i0, j>>
      BY <3>1
    <3>3. Rel!Range(Rel!MatZuAr(M)[i0]) = {k \in Rel!Nodes : <<i0, k>> \in M}
      BY <1>4
    <3> QED
      BY <3>2, <3>3
  <2>2. ASSUME NEW e \in M PROVE e \in U
    <3>1. PICK i0 \in Rel!Nodes, j \in Rel!Nodes : e = <<i0, j>>
      OBVIOUS
    <3>2. Rel!Range(Rel!MatZuAr(M)[i0]) = {k \in Rel!Nodes : <<i0, k>> \in M}
      BY <1>4
    <3>3. j \in Rel!Range(Rel!MatZuAr(M)[i0])
      BY <2>2, <3>1, <3>2
    <3>4. e \in {<<i0, k>> : k \in Rel!Range(Rel!MatZuAr(M)[i0])}
      BY <3>1, <3>3
    <3> QED
      BY <3>4
  <2> QED
    BY <2>1, <2>2
<1> QED
  BY <1>2, <1>3, <1>4, <1>5 DEF li, Rel!SameRelation

-----------------------------------------------------------------------------
\* The relation made reflexive and symmetric, with which the pass begins.
Doubled == Rmat \cup {<<i0, i0>> : i0 \in Rel!Nodes} \cup {<<p[2], p[1]>> : p \in Rmat}

RelShapes ==
    /\ rpc \in {"input", "closure", "pass", "convert", "done"}
    /\ n \in Nat /\ round \in 0 .. n * n + 1
    /\ Rmat \subseteq Rel!Nodes \X Rel!Nodes /\ Smat \subseteq Rel!Nodes \X Rel!Nodes
    /\ rpc = "input" => Rli = <<>>
    /\ rpc # "input" => Rli = Rel!MatZuLi(Rmat) /\ Rar = Rel!MatZuAr(Rmat)
    /\ rpc # "done" => Sli = <<>>
    /\ rpc = "done" => Sli = Rel!MatZuLi(Smat) /\ Sar = Rel!MatZuAr(Smat)

\* After the round of i and j the successors of j are those of i, if it was one.
RoundsInv ==
    /\ round >= 1
    /\ Doubled \subseteq Smat
    /\ \A p \in Smat : Rel!Linked(p[1], p[2])
    /\ \A i0, j, k \in Rel!Nodes :
         i0 * n + j + 1 < round /\ <<i0, j>> \in Doubled /\ <<j, k>> \in Doubled => <<i0, k>> \in Smat

RelInv ==
    /\ RelShapes
    /\ rpc \in {"pass", "convert", "done"} => RoundsInv
    /\ rpc \in {"convert", "done"} => round > n * n

\* The invariant of binRel.c holds at the beginning.
LEMMA RelInit == ASSUME RelBounds, Rel!Init PROVE RelInv
<1>1. n \in Nat /\ n * n \in Nat
  BY DEF Rel!Init, RelBounds
<1> QED
  BY <1>1 DEF Rel!Init, RelInv, RelShapes

\* Pairs that R links.
LEMMA DoubledLinked ==
  ASSUME n \in Nat, Rmat \subseteq Rel!Nodes \X Rel!Nodes
  PROVE  \A p \in Doubled : p \in Rel!Nodes \X Rel!Nodes /\ Rel!Linked(p[1], p[2])
<1>1. \A p \in Rmat : p \in Rel!Nodes \X Rel!Nodes /\ p[1] \in Rel!Nodes /\ p[2] \in Rel!Nodes
  OBVIOUS
<1>2. ASSUME NEW i0 \in Rel!Nodes PROVE Rel!Linked(i0, i0)
  BY DEF Rel!Linked
<1>3. ASSUME NEW p \in Rmat PROVE Rel!Linked(p[1], p[2]) /\ Rel!Linked(p[2], p[1])
  BY <1>1 DEF Rel!Linked
<1> QED
  BY <1>1, <1>2, <1>3 DEF Doubled

\* To be linked is transitive.
LEMMA LinkedOn ==
  ASSUME NEW i0, NEW j, NEW k, Rel!Linked(i0, j), Rel!Linked(j, k)
  PROVE  Rel!Linked(i0, k)
BY DEF Rel!Linked

\* Until the pass, and after it: nothing is made but lists.
LEMMA RelOutside ==
  ASSUME RelBounds, RelInv, Rel!ReadPair \/ Rel!EndInput \/ Rel!Begin \/ Rel!Convert
  PROVE  RelInv'
<1>0. RelShapes /\ n \in Nat
  BY DEF RelInv, RelShapes
<1>1. CASE Rel!ReadPair
  <2>1. PICK a \in Rel!Nodes, b \in Rel!Nodes : Rmat' = Rmat \cup {<<a, b>>}
    BY <1>1 DEF Rel!ReadPair
  <2>2. Rmat' \subseteq Rel!Nodes \X Rel!Nodes
    BY <1>0, <2>1 DEF RelShapes
  <2> QED
    BY <1>0, <1>1, <2>2 DEF Rel!ReadPair, RelInv, RelShapes, Rel!Nodes
<1>2. CASE Rel!EndInput
  <2>1. Rel!MatZuLi(Rmat)' = Rel!MatZuLi(Rmat) /\ Rel!MatZuAr(Rmat)' = Rel!MatZuAr(Rmat)
    BY <1>2 DEF Rel!EndInput, Rel!MatZuLi, Rel!MatZuAr, Rel!Fields, Rel!Nodes
  <2> QED
    BY <1>0, <1>2, <2>1 DEF Rel!EndInput, RelInv, RelShapes, Rel!Nodes
<1>3. CASE Rel!Begin
  <2>1. /\ rpc = "closure" /\ round' = 1 /\ UNCHANGED <<n, Rmat, Rli, Rar, Sli, Sar>>
        /\ rpc' \in {"convert", "pass"}
    BY <1>3 DEF Rel!Begin
  <2>2. Rel!MatZuLi(Rmat)' = Rel!MatZuLi(Rmat) /\ Rel!MatZuAr(Rmat)' = Rel!MatZuAr(Rmat) /\ Doubled' = Doubled
    BY <2>1 DEF Rel!MatZuLi, Rel!MatZuAr, Rel!Fields, Rel!Nodes, Doubled
  <2>3. rpc' = "convert" => n = 0
    <3>1. SUFFICES ASSUME rpc' = "convert", n > 0 PROVE FALSE
      BY <1>0
    <3>2. Rel!adjazenzmatrix(Rmat)
      BY <1>3, <3>1 DEF Rel!Begin
    <3>3. 0 \in Rel!Nodes
      BY <1>0, <3>1 DEF Rel!Nodes
    <3> QED
      BY <3>2, <3>3 DEF Rel!adjazenzmatrix, Rel!Reflexive
  <2>4. Smat' = Doubled
    <3>1. CASE Rel!adjazenzmatrix(Rmat)
      <4>1. n = 0 /\ Smat' = Rmat
        BY <1>3, <2>3, <3>1 DEF Rel!Begin
      <4>2. Rel!Nodes = {} /\ Rmat = {}
        BY <1>0, <4>1 DEF Rel!Nodes, RelShapes
      <4> QED
        BY <4>1, <4>2 DEF Doubled
    <3>2. CASE ~ Rel!adjazenzmatrix(Rmat)
      BY <1>3, <3>2 DEF Rel!Begin, Doubled
    <3> QED
      BY <3>1, <3>2
  <2>5. \A p \in Doubled : p \in Rel!Nodes \X Rel!Nodes /\ Rel!Linked(p[1], p[2])
    BY <1>0, DoubledLinked DEF RelShapes
  <2>6. RoundsInv'
    <3>1. \A p \in Smat' : Rel!Linked(p[1], p[2])'
      BY <2>1, <2>4, <2>5 DEF Rel!Linked, Rel!Nodes
    <3>2. \A i0, j \in Rel!Nodes : ~ (i0 * n + j + 1 < 1)
      <4>1. ASSUME NEW i0 \in Rel!Nodes, NEW j \in Rel!Nodes PROVE i0 * n + j \in Nat
        <5>1. i0 \in Nat /\ j \in Nat /\ i0 * n \in Nat
          BY <1>0 DEF Rel!Nodes
        <5> QED
          BY <5>1
      <4> QED
        BY <4>1
    <3> QED
      BY <2>1, <2>2, <2>4, <3>1, <3>2 DEF RoundsInv, Rel!Nodes
  <2>7. RelShapes'
    <3>1. 1 \in 0 .. n * n + 1
      <4>1. n * n \in Nat
        BY <1>0
      <4> QED
        BY <4>1
    <3>2. Smat' \subseteq Rel!Nodes \X Rel!Nodes
      BY <2>4, <2>5
    <3> QED
      BY <1>0, <2>1, <2>2, <3>1, <3>2 DEF RelShapes, Rel!Nodes
  <2>8. rpc' = "convert" => round' > n' * n'
    BY <2>1, <2>3
  <2> QED
    BY <2>1, <2>6, <2>7, <2>8 DEF RelInv
<1>4. CASE Rel!Convert
  <2>1. /\ rpc' = "done" /\ Sli' = Rel!MatZuLi(Smat) /\ Sar' = Rel!MatZuAr(Smat)
        /\ UNCHANGED <<n, Rmat, Smat, Rli, Rar, round>>
        /\ rpc \in {"convert", "pass"} /\ (rpc = "pass" => round > n * n)
    BY <1>4 DEF Rel!Convert
  <2>2. Rel!MatZuLi(Rmat)' = Rel!MatZuLi(Rmat) /\ Rel!MatZuAr(Rmat)' = Rel!MatZuAr(Rmat)
        /\ Rel!MatZuLi(Smat)' = Rel!MatZuLi(Smat) /\ Rel!MatZuAr(Smat)' = Rel!MatZuAr(Smat)
    BY <2>1 DEF Rel!MatZuLi, Rel!MatZuAr, Rel!Fields, Rel!Nodes
  <2>3. RelShapes'
    BY <1>0, <2>1, <2>2 DEF RelShapes, Rel!Nodes
  <2>4. RoundsInv'
    BY <2>1 DEF RelInv, RoundsInv, Doubled, Rel!Nodes, Rel!Linked
  <2>5. round' > n' * n'
    BY <2>1 DEF RelInv
  <2> QED
    BY <2>1, <2>3, <2>4, <2>5 DEF RelInv
<1> QED
  BY <1>1, <1>2, <1>3, <1>4

\* One round of the pass.
LEMMA RelPass ==
  ASSUME RelBounds, RelInv, Rel!Pass
  PROVE  RelInv'
<1>0. RelShapes /\ RoundsInv /\ n \in Nat
  BY DEF RelInv, RelShapes, Rel!Pass
<1> DEFINE a == Rel!Fields[round][1]
           b == Rel!Fields[round][2]
           New == {p \in {a} \X Rel!Nodes : <<a, b>> \in Smat /\ <<b, p[2]>> \in Smat}
<1>1. /\ rpc = "pass" /\ round <= n * n /\ Smat' = Smat \cup New /\ round' = round + 1
      /\ UNCHANGED <<rpc, n, Rmat, Rli, Sli, Rar, Sar>>
  BY DEF Rel!Pass
<1>2. round \in 1 .. n * n /\ round \in Nat /\ n * n \in Nat
  <2>1. n * n \in Nat
    BY <1>0
  <2> QED
    BY <1>0, <1>1, <2>1 DEF RelShapes, RoundsInv
<1>3. a \in Rel!Nodes /\ b \in Rel!Nodes /\ a * n + b = round - 1
  BY <1>0, <1>2, FieldsAre
<1> HIDE DEF a, b
<1>4. \A p \in New : \E k \in Rel!Nodes : p = <<a, k>> /\ <<a, b>> \in Smat /\ <<b, k>> \in Smat
  OBVIOUS
<1>5. \A k \in Rel!Nodes : <<a, b>> \in Smat /\ <<b, k>> \in Smat => <<a, k>> \in New
  OBVIOUS
<1> HIDE DEF New
<1>6. Rel!MatZuLi(Rmat)' = Rel!MatZuLi(Rmat) /\ Rel!MatZuAr(Rmat)' = Rel!MatZuAr(Rmat)
      /\ Doubled' = Doubled /\ Rel!Nodes' = Rel!Nodes
  BY <1>1 DEF Rel!MatZuLi, Rel!MatZuAr, Rel!Fields, Rel!Nodes, Doubled
<1>7. Smat' \subseteq Rel!Nodes \X Rel!Nodes
  <2>1. \A p \in New : p \in Rel!Nodes \X Rel!Nodes
    <3>1. \A k \in Rel!Nodes : <<a, k>> \in Rel!Nodes \X Rel!Nodes
      BY <1>3
    <3> HIDE DEF New
    <3> QED
      BY <1>4, <3>1
  <2>2. Smat \subseteq Rel!Nodes \X Rel!Nodes
    BY <1>0 DEF RelShapes
  <2> QED
    BY <1>1, <2>1, <2>2
<1>8. RelShapes'
  <2>1. round' \in 0 .. n * n + 1
    BY <1>1, <1>2
  <2> QED
    BY <1>0, <1>1, <1>6, <1>7, <2>1 DEF RelShapes
<1>9. \A p \in Smat' : Rel!Linked(p[1], p[2])
  <2>1. ASSUME NEW p \in New PROVE Rel!Linked(p[1], p[2])
    <3>1. PICK k \in Rel!Nodes : p = <<a, k>> /\ <<a, b>> \in Smat /\ <<b, k>> \in Smat
      BY <1>4
    <3>2. Rel!Linked(a, b) /\ Rel!Linked(b, k)
      <4>1. \A q \in Smat : Rel!Linked(q[1], q[2])
        BY <1>0 DEF RoundsInv
      <4>2. <<a, b>>[1] = a /\ <<a, b>>[2] = b /\ <<b, k>>[1] = b /\ <<b, k>>[2] = k
        OBVIOUS
      <4> QED
        BY <3>1, <4>1, <4>2
    <3> QED
      BY <3>1, <3>2, LinkedOn
  <2> QED
    BY <1>0, <1>1, <2>1 DEF RoundsInv
<1>10. \A x, y : Rel!Linked(x, y)' <=> Rel!Linked(x, y)
  BY <1>1 DEF Rel!Linked, Rel!Nodes
<1>11. ASSUME NEW i0 \in Rel!Nodes, NEW j \in Rel!Nodes, NEW k \in Rel!Nodes,
              i0 * n + j + 1 < round + 1, <<i0, j>> \in Doubled, <<j, k>> \in Doubled
       PROVE  <<i0, k>> \in Smat'
  <2>1. i0 * n + j + 1 \in Nat
    <3>1. i0 \in Nat /\ j \in Nat /\ i0 * n \in Nat
      BY <1>0 DEF Rel!Nodes
    <3> QED
      BY <3>1
  <2>2. CASE i0 * n + j + 1 < round
    BY <1>0, <1>1, <1>11, <2>2 DEF RoundsInv
  <2>3. CASE i0 * n + j + 1 = round
    <3>1. i0 = a /\ j = b
      <4>1. Rel!Fields[i0 * n + j + 1] = <<i0, j>>
        BY <1>0, FieldsAre
      <4>2. Rel!Fields[round] = <<a, b>>
        BY <1>0, <1>2, FieldsAre DEF a, b
      <4> QED
        BY <2>3, <4>1, <4>2
    <3>2. <<i0, j>> \in Smat /\ <<j, k>> \in Smat
      BY <1>0, <1>11 DEF RoundsInv
    <3> QED
      BY <1>1, <1>5, <3>1, <3>2
  <2> QED
    BY <1>2, <1>11, <2>1, <2>2, <2>3
<1>12. RoundsInv'
  BY <1>0, <1>1, <1>2, <1>6, <1>9, <1>10, <1>11 DEF RoundsInv
<1> QED
  BY <1>1, <1>8, <1>12 DEF RelInv

\* Every step of binRel.c keeps the invariant.
LEMMA RelNext == ASSUME RelBounds, RelInv, Rel!Next PROVE RelInv'
BY RelOutside, RelPass DEF Rel!Next

\* In a graph of three nodes two steps lead as far as any path.
LEMMA TwoSteps ==
  ASSUME n \in 0 .. 3, Rmat \subseteq Rel!Nodes \X Rel!Nodes,
         NEW i0 \in Rel!Nodes, NEW j \in Rel!Nodes, Rel!Linked(i0, j)
  PROVE  \E b \in Rel!Nodes : <<i0, b>> \in Doubled /\ <<b, j>> \in Doubled
<1> DEFINE C == {k \in Rel!Nodes : \E b \in Rel!Nodes : <<i0, b>> \in Doubled /\ <<b, k>> \in Doubled}
<1>1. \A k \in Rel!Nodes : <<k, k>> \in Doubled
  BY DEF Doubled
<1>2. i0 \in C /\ C \in SUBSET Rel!Nodes
  BY <1>1
<1>3. ASSUME NEW x \in Rel!Nodes, NEW y \in Rel!Nodes, <<x, y>> \in Doubled, x \in C, y \notin C
      PROVE  FALSE
  <2>1. PICK b \in Rel!Nodes : <<i0, b>> \in Doubled /\ <<b, x>> \in Doubled
    BY <1>3
  <2>2. y # i0 /\ y # b /\ y # x
    BY <1>1, <1>2, <1>3, <2>1
  <2>3. x # i0 /\ x # b /\ b # i0
    BY <1>1, <1>3, <2>1
  <2>4. Rel!Nodes \subseteq 0 .. 2
    BY DEF Rel!Nodes
  <2> QED
    BY <2>2, <2>3, <2>4
<1>4. \A p \in Rmat : /\ p[1] \in Rel!Nodes /\ p[2] \in Rel!Nodes
                      /\ <<p[1], p[2]>> \in Doubled /\ <<p[2], p[1]>> \in Doubled
  <2> SUFFICES ASSUME NEW p \in Rmat
               PROVE  /\ p[1] \in Rel!Nodes /\ p[2] \in Rel!Nodes
                      /\ <<p[1], p[2]>> \in Doubled /\ <<p[2], p[1]>> \in Doubled
    OBVIOUS
  <2>1. p = <<p[1], p[2]>> /\ p[1] \in Rel!Nodes /\ p[2] \in Rel!Nodes
    OBVIOUS
  <2> QED
    BY <2>1 DEF Doubled
<1> HIDE DEF C
<1>5. \A p \in Rmat : p[1] \in C <=> p[2] \in C
  BY <1>3, <1>4
<1>6. j \in C
  BY <1>2, <1>5 DEF Rel!Linked
<1> QED
  BY <1>6 DEF C

\* What is said of binRel.c follows: with at most three elements one pass is
\* enough.
LEMMA RelHolds == ASSUME RelBounds, RelInv PROVE Rel!TypeOK /\ Rel!ClosureIsLinked /\ Rel!FormsAgree
<1>0. RelShapes /\ n \in Nat /\ Rmat \subseteq Rel!Nodes \X Rel!Nodes /\ Smat \subseteq Rel!Nodes \X Rel!Nodes
  BY DEF RelInv, RelShapes
<1>1. Rel!TypeOK
  <2>1. Rel!Range(<<>>) = {}
    BY DEF Rel!Range
  <2>2. Rel!Range(Rli) \subseteq Rel!Nodes \X Rel!Nodes
    BY <1>0, <2>1, FormsOf DEF RelShapes
  <2>3. Rel!Range(Sli) \subseteq Rel!Nodes \X Rel!Nodes
    BY <1>0, <2>1, FormsOf DEF RelShapes
  <2>4. {Rmat, Smat} \subseteq SUBSET (Rel!Nodes \X Rel!Nodes)
    BY <1>0
  <2> QED
    BY <1>0, <2>2, <2>3, <2>4 DEF Rel!TypeOK, RelShapes
<1>2. Rel!ClosureIsLinked
  <2> SUFFICES ASSUME rpc = "done" PROVE Rel!ClosureIsLinked
    BY DEF Rel!ClosureIsLinked
  <2>1. RoundsInv /\ round > n * n
    BY DEF RelInv
  <2>2. \A p \in Smat : Rel!Linked(p[1], p[2])
    BY <2>1 DEF RoundsInv
  <2>3. Rmat \subseteq Smat
    BY <2>1 DEF RoundsInv, Doubled
  <2>4. ASSUME n <= 3, NEW i0 \in Rel!Nodes, NEW j \in Rel!Nodes, Rel!Linked(i0, j) PROVE <<i0, j>> \in Smat
    <3>1. PICK b \in Rel!Nodes : <<i0, b>> \in Doubled /\ <<b, j>> \in Doubled
      BY <1>0, <2>4, TwoSteps
    <3>2. i0 * n + b + 1 \in 1 .. n * n
      BY <1>0, FieldsAre
    <3>3. i0 * n + b + 1 < round
      <4>1. n * n \in Nat /\ round \in Int
        BY <1>0 DEF RelShapes
      <4> QED
        BY <2>1, <3>2, <4>1
    <3> QED
      BY <2>1, <3>1, <3>3 DEF RoundsInv
  <2> QED
    BY <2>2, <2>3, <2>4 DEF Rel!ClosureIsLinked
<1>3. Rel!FormsAgree
  BY <1>0, FormsOf DEF Rel!FormsAgree, RelShapes
<1> QED
  BY <1>1, <1>2, <1>3

-----------------------------------------------------------------------------
(* listen.c: the list of sums                                              *)

\* The operators of the libraries that a program brings along are those that
\* the lemmas of this module speak of.
LEMMA ListChosen == \A s, S : List!Chosen(s, S) = Chosen(s, S)
  BY DEF List!Chosen, Chosen

\* The nodes in the order of the joined list: the first list, then the second
\* from its end (Pos); addtwo puts a new node at every third place (NodeAt).
Len1 == Len(given[1])
Len2 == Len(given[2])
Both == Len1 + Len2
Pos(m) == IF m <= Len1 THEN m ELSE 2 * Len1 + Len2 + 1 - m
NodeAt(m) == IF m % 3 # 0 THEN Pos(m) ELSE Both + (m \div 3)

\* The elements are where main has drawn them.
DrawnElems ==
  \A k \in 1 .. Both : elem[k] = IF k <= Len1 THEN given[1][k] ELSE given[2][k - Len1]

ListShapes ==
  /\ given = <<given[1], given[2]>> /\ given[1] \in Seq(Elements) /\ given[2] \in Seq(Elements)
  /\ Len1 <= MaxLen /\ Len2 <= MaxLen
  /\ elem \in [List!Nodes -> Nat]
  /\ next \in [List!Nodes -> {List!Null} \cup List!Nodes]
  /\ \A k \in 1 .. used : next[k] \in {List!Null} \cup 1 .. used
  /\ keeps \in BOOLEAN

\* While main draws, the lists are given, the second one turned round.
DrawInv ==
  lipc \in {"draw1", "draw2"} =>
    /\ used = Both /\ freed = {} /\ DrawnElems
    /\ lipc = "draw1" => Len2 = 0 /\ lauf = Len1
    /\ liste1 = IF Len1 = 0 THEN List!Null ELSE 1
    /\ liste2 = IF Len2 = 0 THEN List!Null ELSE Both
    /\ \A k \in List!Nodes :
         next[k] = IF k < Len1 THEN k + 1 ELSE IF k > Len1 + 1 /\ k <= Both THEN k - 1 ELSE List!Null

\* The node at place p after t rounds of addtwo, and how many places there are.
NodeIn(t, p) == IF p <= 3 * t THEN NodeAt(p) ELSE Pos(p)
Top(t) == IF Both <= 3 * t THEN 3 * t ELSE Both

Chain(t) == \A p \in 1 .. Top(t) : next[NodeIn(t, p)] = IF p < Top(t) THEN NodeIn(t, p + 1) ELSE List!Null
Sums(t)  == \A s \in 1 .. t : elem[Both + s] = elem[Pos(3 * s - 2)] + IF 3 * s > Both THEN 0 ELSE elem[Pos(3 * s - 1)]

\* The heap after t rounds of addtwo.
Rounds(t) ==
  /\ used = Both + t /\ 3 * t <= Both + 1
  /\ liste = (IF 3 * t < Both THEN Pos(3 * t + 1) ELSE List!Null)
  /\ liste1 = (IF Both = 0 THEN List!Null ELSE Pos(1))
  /\ freed = {}
  /\ DrawnElems /\ Chain(t) /\ Sums(t)

AddInv == lipc = "addtwo" => \E t \in Nat : Rounds(t)

\* The list clreven gets: its sums are in place.
SumPlaces == Len(List!Summed)
Built ==
  /\ \E t \in Nat : used = Both + t /\ SumPlaces = 3 * t /\ 3 * t \in {Both, Both + 1}
  /\ \A m \in 1 .. SumPlaces : elem[NodeAt(m)] = List!Summed[m]

EvenAt(p) == List!Summed[p] % 2 = 0
AtOrNull(p) == IF p <= SumPlaces THEN NodeAt(p) ELSE List!Null
Linked(p) == next[NodeAt(p)] = AtOrNull(p + 1)
Passed(p) == next[NodeAt(p)] = IF EvenAt(p + 1) THEN AtOrNull(p + 2) ELSE AtOrNull(p + 1)
EvenNodes(m) == {NodeAt(p) : p \in {p \in 1 .. m : EvenAt(p)}}

\* clreven has freed the even numbers of the first q places, which are all,
\* and liste1 follows.
FrontAt(q) ==
  /\ \A p \in 1 .. q : EvenAt(p)
  /\ freed = EvenNodes(q) /\ liste = AtOrNull(q + 1) /\ liste1 = liste
FrontInv ==
  lipc = "front" => Built /\ (\A p \in 1 .. SumPlaces : Linked(p)) /\ \E q \in 0 .. SumPlaces : FrontAt(q)

\* clreven has passed the places q + 1 to m - 1: those behind are linked as
\* addtwo left them, those before skip the even number that followed.
InsideAt(q, m) ==
  /\ (\A p \in 1 .. q : EvenAt(p)) /\ ~ EvenAt(q + 1)
  /\ liste1 = NodeAt(q + 1) /\ liste = NodeAt(m - 1) /\ lauf = AtOrNull(m)
  /\ freed = EvenNodes(m - 1)
  /\ \A p \in m - 1 .. SumPlaces : Linked(p)
  /\ \A p \in q + 1 .. m - 2 : Passed(p)
InsideInv ==
  lipc = "inside" => Built /\ \E q \in 0 .. SumPlaces - 1 : \E m \in q + 2 .. SumPlaces + 1 : InsideAt(q, m)

\* freigabe has freed the first j - 1 odd numbers of the list that is left.
OddPlaces == Chosen([m \in 1 .. SumPlaces |-> m], {m \in 1 .. SumPlaces : List!Summed[m] \in {e \in Int : e % 2 = 1}})
OddNode(j) == IF j <= Len(OddPlaces) THEN NodeAt(OddPlaces[j]) ELSE List!Null
FreeAt(j) ==
  /\ liste = OddNode(j)
  /\ freed = EvenNodes(SumPlaces) \cup {OddNode(i0) : i0 \in 1 .. j - 1}
OddsLinked ==
  /\ liste1 = OddNode(1)
  /\ \A j \in 1 .. Len(OddPlaces) : next[OddNode(j)] = OddNode(j + 1)
FreeInv ==
  lipc = "free" => /\ Built
                   /\ List!EvensApart => OddsLinked /\ \E j \in 1 .. Len(OddPlaces) + 1 : FreeAt(j)
\* Undefined behaviour has a cause: a length addtwo cannot treat, or even
\* numbers that clreven reads after it has freed them.
UndefInv ==
  lipc = "undefined" =>
    \/ Both % 3 = 1 /\ freed = {}
    \/ \E m \in 2 .. SumPlaces : EvenAt(m) /\ ~ (List!EvensApart /\ keeps)

ListInv == ListShapes /\ List!TypeOK /\ DrawInv /\ AddInv /\ FrontInv /\ InsideInv /\ FreeInv /\ UndefInv
ListBounds == MaxLen \in Nat /\ Elements \subseteq Nat

\* Division by three, as addtwo skips every third element.
LEMMA Thirds ==
  \A m \in Nat : /\ m % 3 \in 0 .. 2 /\ m \div 3 \in Nat /\ m = 3 * (m \div 3) + (m % 3)
                 /\ \A s \in Nat : m = 3 * s => m % 3 = 0 /\ m \div 3 = s
                 /\ \A s \in Nat : m = 3 * s + 1 => m % 3 = 1
                 /\ \A s \in Nat : m = 3 * s + 2 => m % 3 = 2
  OBVIOUS

\* The lengths of the two lists are numbers.
LEMMA ListNumbers ==
  ASSUME ListBounds, ListShapes
  PROVE  /\ Len1 \in Nat /\ Len2 \in Nat /\ Both \in Nat /\ Both = Len1 + Len2
         /\ given[1] \in Seq(Elements) /\ given[2] \in Seq(Elements)
         /\ given = <<given[1], given[2]>>
         /\ List!Nodes = 1 .. 3 * MaxLen + 1
  BY DEF ListBounds, ListShapes, Len1, Len2, Both, List!Nodes

\* Pos is an order of the nodes of both lists.
LEMMA PosIs ==
  ASSUME Len1 \in Nat, Len2 \in Nat
  PROVE  /\ \A p \in 1 .. Both : Pos(p) \in 1 .. Both
         /\ \A p, r \in 1 .. Both : Pos(p) = Pos(r) => p = r
  BY DEF Pos, Both

\* After t rounds no node is at two places.
LEMMA NodeIs ==
  ASSUME Len1 \in Nat, Len2 \in Nat, NEW t \in Nat, 3 * t <= Both + 1
  PROVE  /\ \A p \in 1 .. Top(t) : NodeIn(t, p) \in 1 .. Both + t
         /\ \A p, r \in 1 .. Top(t) : NodeIn(t, p) = NodeIn(t, r) => p = r
         /\ \A s \in 1 .. t : NodeIn(t, 3 * s) = Both + s
<1>0. Both \in Nat
  BY DEF Both
<1> DEFINE Sum(p) == p <= 3 * t /\ p % 3 = 0
<1>1. ASSUME NEW p \in 1 .. Top(t)
      PROVE  /\ Sum(p) => p \div 3 \in 1 .. t /\ p = 3 * (p \div 3) /\ NodeIn(t, p) = Both + (p \div 3)
             /\ ~ Sum(p) => p \in 1 .. Both /\ NodeIn(t, p) = Pos(p)
  <2>1. p \in Nat /\ p % 3 \in 0 .. 2 /\ p \div 3 \in Nat /\ p = 3 * (p \div 3) + (p % 3)
    BY <1>0, Thirds DEF Top
  <2>2. CASE Sum(p)
    BY <2>1, <2>2, <1>0 DEF NodeIn, NodeAt
  <2>3. CASE ~ Sum(p)
    <3>1. p \in 1 .. Both
      BY <2>1, <2>3, <1>0 DEF Top
    <3>2. NodeIn(t, p) = Pos(p)
      BY <2>1, <2>3 DEF NodeIn, NodeAt
    <3> QED
      BY <2>3, <3>1, <3>2
  <2> QED
    BY <2>2, <2>3
<1>2. ASSUME NEW p \in 1 .. Top(t) PROVE NodeIn(t, p) \in 1 .. Both + t
  BY <1>0, <1>1, PosIs
<1>3. ASSUME NEW p \in 1 .. Top(t), NEW r \in 1 .. Top(t), NodeIn(t, p) = NodeIn(t, r) PROVE p = r
  <2> HIDE DEF Sum
  <2>1. CASE Sum(p) /\ Sum(r)
    BY <1>0, <1>1, <1>3, <2>1
  <2>2. CASE ~ Sum(p) /\ ~ Sum(r)
    BY <1>1, <1>3, <2>2, PosIs
  <2>3. CASE Sum(p) /\ ~ Sum(r)
    BY <1>0, <1>1, <1>3, <2>3, PosIs
  <2>4. CASE ~ Sum(p) /\ Sum(r)
    BY <1>0, <1>1, <1>3, <2>4, PosIs
  <2> QED
    BY <2>1, <2>2, <2>3, <2>4
<1>4. ASSUME NEW s \in 1 .. t PROVE NodeIn(t, 3 * s) = Both + s
  <2>1. 3 * s \in Nat /\ (3 * s) % 3 = 0 /\ (3 * s) \div 3 = s /\ 3 * s <= 3 * t
    BY Thirds
  <2> QED
    BY <2>1 DEF NodeIn, NodeAt
<1> QED
  BY <1>2, <1>3, <1>4

\* The nodes from x on are w, when w is a chain of nodes from x to the end.
LEMMA WalkIs ==
  ASSUME NEW x, NEW w, used \in Nat, Len(w) \in 0 .. used + 1, w \in Seq(List!Nodes),
         List!Null \notin List!Nodes,
         x = (IF Len(w) = 0 THEN List!Null ELSE w[1]),
         \A k \in 1 .. Len(w) : next[w[k]] = IF k < Len(w) THEN w[k + 1] ELSE List!Null
  PROVE  List!NodesFrom(x) = w
<1> DEFINE Step(a, k) == IF k = 0 THEN x ELSE LET y == a[k - 1] IN IF y = List!Null THEN List!Null ELSE next[y]
           Is(a) == a = [k \in 0 .. used |-> Step(a, k)]
           h == [k \in 0 .. used |-> IF k < Len(w) THEN w[k + 1] ELSE List!Null]
           at == CHOOSE a : Is(a)
<1>0. Len(w) \in Nat /\ w = [k \in 1 .. Len(w) |-> w[k]] /\ \A k \in 1 .. Len(w) : w[k] \in List!Nodes /\ w[k] # List!Null
  BY LenProperties
<1>1. Is(h)
  <2>1. ASSUME NEW k \in 0 .. used PROVE h[k] = Step(h, k)
    <3>1. CASE k = 0
      BY <1>0, <3>1
    <3>2. CASE k # 0
      <4>1. k - 1 \in 0 .. used
        BY <3>2
      <4>2. CASE k - 1 < Len(w)
        <5>1. h[k - 1] = w[k] /\ k \in 1 .. Len(w) /\ w[k] # List!Null
          BY <1>0, <4>1, <4>2, <3>2
        <5>2. next[w[k]] = IF k < Len(w) THEN w[k + 1] ELSE List!Null
          BY <5>1
        <5>3. h[k] = IF k < Len(w) THEN w[k + 1] ELSE List!Null
          OBVIOUS
        <5> HIDE DEF h
        <5> QED
          BY <3>2, <5>1, <5>2, <5>3
      <4>3. CASE ~ (k - 1 < Len(w))
        <5>1. h[k - 1] = List!Null /\ h[k] = List!Null
          BY <1>0, <4>1, <4>3
        <5> HIDE DEF h
        <5> QED
          BY <3>2, <5>1
      <4> QED
        BY <4>2, <4>3
    <3> QED
      BY <3>1, <3>2
  <2>2. h = [k \in 0 .. used |-> h[k]]
    OBVIOUS
  <2> HIDE DEF h, Step
  <2> QED
    BY <2>1, <2>2
<1>2. Is(at)
  <2> HIDE DEF Is, h
  <2> QED
    BY <1>1
<1>3. List!NodesFrom(x) = Chosen([k \in 1 .. used + 1 |-> at[k - 1]], List!Nodes)
  BY ListChosen DEF List!NodesFrom
<1> HIDE DEF at
<1> DEFINE Good == {k \in Nat : k <= used => at[k] = h[k]}
<1>4. 0 \in Good
  <2>1. 0 \in 0 .. used
    OBVIOUS
  <2>2. at[0] = Step(at, 0) /\ h[0] = Step(h, 0)
    BY <1>1, <1>2, <2>1
  <2> HIDE DEF h
  <2> QED
    BY <2>2
<1>5. ASSUME NEW k \in Nat, k \in Good PROVE k + 1 \in Good
  <2>1. SUFFICES ASSUME k + 1 <= used PROVE at[k + 1] = h[k + 1]
    OBVIOUS
  <2> HIDE DEF h
  <2>2. k + 1 \in 0 .. used /\ (k + 1) - 1 = k /\ k + 1 # 0 /\ at[k] = h[k]
    BY <1>5, <2>1
  <2>3. at[k + 1] = Step(at, k + 1) /\ h[k + 1] = Step(h, k + 1)
    <3> HIDE DEF Step
    <3> QED
      BY <1>1, <1>2, <2>2
  <2> QED
    BY <2>2, <2>3
<1>6. ASSUME NEW k \in 0 .. used PROVE at[k] = h[k]
  <2>1. Nat \subseteq Good
    <3> HIDE DEF Good
    <3> QED
      BY <1>4, <1>5, Upwards
  <2> HIDE DEF h
  <2> QED
    BY <2>1
<1> DEFINE s == [k \in 1 .. used + 1 |-> at[k - 1]]
<1>7. /\ Len(s) = used + 1
      /\ \A k \in 1 .. used + 1 : s[k] = IF k <= Len(w) THEN w[k] ELSE List!Null
  <2>1. \A k \in 1 .. used + 1 : k - 1 \in 0 .. used /\ s[k] = at[k - 1]
    OBVIOUS
  <2>2. \A k \in 1 .. used + 1 : at[k - 1] = h[k - 1]
    BY <1>6
  <2>3. ASSUME NEW k \in 1 .. used + 1 PROVE h[k - 1] = IF k <= Len(w) THEN w[k] ELSE List!Null
    BY <1>0
  <2> HIDE DEF h
  <2> QED
    BY <2>1, <2>2, <2>3
<1> HIDE DEF s
<1>8. \A k \in 1 .. Len(s) : s[k] \in List!Nodes <=> k <= Len(w)
  BY <1>0, <1>7
<1>9. Chosen(s, List!Nodes) = [k \in 1 .. Len(w) |-> s[k]]
  BY <1>0, <1>7, <1>8, ChosenFirst
<1>10. [k \in 1 .. Len(w) |-> s[k]] = w
  BY <1>0, <1>7
<1> QED
  BY <1>3, <1>9, <1>10 DEF s

\* The invariant of listen.c holds at the beginning.
LEMMA ListInit == ListBounds /\ List!Init => ListInv
<1> SUFFICES ASSUME ListBounds, List!Init PROVE ListInv
  OBVIOUS
<1>0. keeps \in BOOLEAN /\ MaxLen \in Nat /\ given = <<<<>>, <<>>>>
  BY DEF List!Init, ListBounds
<1>1. given[1] = <<>> /\ given[2] = <<>> /\ Len1 = 0 /\ Len2 = 0 /\ Both = 0
  BY <1>0 DEF Len1, Len2, Both
<1>2. ListShapes
  BY <1>0, <1>1 DEF List!Init, ListShapes
<1>3. List!TypeOK
  BY <1>0 DEF List!Init, List!TypeOK
<1>4. DrawInv
  <2>1. \A k \in List!Nodes : k \in Nat /\ ~ (k < 0) /\ ~ (k <= 0) /\ next[k] = List!Null
    BY <1>0 DEF List!Init, List!Nodes
  <2>2. used = 0 /\ freed = {} /\ liste1 = List!Null /\ liste2 = List!Null /\ lauf = 0 /\ DrawnElems
    BY <1>1 DEF List!Init, DrawnElems, List!Null
  <2> QED
    BY <1>1, <2>1, <2>2 DEF DrawInv
<1> QED
  BY <1>2, <1>3, <1>4 DEF List!Init, ListInv, AddInv, FrontInv, InsideInv, FreeInv, UndefInv

\* A number is drawn for the first list, which grows at its end.
LEMMA ListDraw1 ==
  ASSUME ListBounds, ListInv, NEW e \in Elements, List!Draw1(e)
  PROVE  ListInv'
<1> DEFINE k == used + 1
<1>0. /\ ListShapes /\ List!TypeOK /\ DrawInv /\ lipc = "draw1" /\ Len1 < MaxLen /\ MaxLen \in Nat /\ e \in Nat
      /\ lipc' = lipc /\ UNCHANGED <<keeps, freed, liste2, liste>>
  BY DEF ListInv, List!Draw1, Len1, ListBounds
<1>1. /\ used = Len1 /\ Both = Len1 /\ Len2 = 0 /\ lauf = Len1 /\ freed = {} /\ DrawnElems
      /\ liste1 = (IF Len1 = 0 THEN List!Null ELSE 1) /\ liste2 = List!Null
      /\ \A x \in List!Nodes : next[x] = IF x < Len1 THEN x + 1 ELSE IF x > Len1 + 1 /\ x <= Len1 THEN x - 1 ELSE List!Null
  BY <1>0, ListNumbers DEF DrawInv
<1>2. /\ Len1 \in Nat /\ given[1] \in Seq(Elements) /\ given[2] \in Seq(Elements) /\ List!Nodes = 1 .. 3 * MaxLen + 1
      /\ given = <<given[1], given[2]>> /\ MaxLen \in Nat
  BY <1>0, ListNumbers DEF ListShapes
<1>3. /\ given'[1] = Append(given[1], e) /\ given'[2] = given[2]
      /\ given' = <<given'[1], given'[2]>> /\ given'[1] \in Seq(Elements) /\ given'[2] \in Seq(Elements)
  BY <1>2 DEF List!Draw1
<1>4. /\ Len1' = k /\ Len2' = 0 /\ Both' = k /\ k \in List!Nodes /\ k = Len1 + 1
      /\ \A j \in 1 .. Len1 : given'[1][j] = given[1][j]
      /\ given'[1][k] = e
  BY <1>0, <1>1, <1>2, <1>3 DEF Len1, Len2, Both
<1>5. /\ used' = k /\ lauf' = k /\ elem' = [elem EXCEPT ![k] = e]
      /\ next' = (IF liste1 = List!Null THEN next ELSE [next EXCEPT ![lauf] = k])
      /\ liste1' = (IF liste1 = List!Null THEN k ELSE liste1)
  BY DEF List!Draw1
<1>6. ListShapes'
  <2>1. next' \in [List!Nodes -> {List!Null} \cup List!Nodes] /\ elem' \in [List!Nodes -> Nat]
    BY <1>0, <1>1, <1>2, <1>4, <1>5 DEF ListShapes
  <2>2. ASSUME NEW x \in 1 .. used' PROVE next'[x] \in {List!Null} \cup 1 .. used'
    <3>1. used' = Len1 + 1 /\ x \in List!Nodes /\ x \in 1 .. Len1 + 1 /\ k = Len1 + 1
      BY <1>1, <1>2, <1>4, <1>5
    <3>2. next[x] \in {List!Null} \cup 1 .. Len1 + 1
      BY <3>1, <1>1, <1>2
    <3>3. next'[x] = next[x] \/ next'[x] = k
      BY <3>1, <1>0, <1>5 DEF ListShapes
    <3> QED
      BY <3>1, <3>2, <3>3, <1>2
  <2>3. keeps' \in BOOLEAN
    BY <1>0 DEF ListShapes
  <2>4. given' = <<given'[1], given'[2]>> /\ given'[1] \in Seq(Elements) /\ given'[2] \in Seq(Elements)
    BY <1>3
  <2>5. Len1' <= MaxLen /\ Len2' <= MaxLen
    BY <1>0, <1>1, <1>4, <1>2
  <2> QED
    BY <2>1, <2>2, <2>3, <2>4, <2>5 DEF ListShapes
<1>7. List!TypeOK'
  BY <1>0, <1>1, <1>2, <1>4, <1>5 DEF List!TypeOK, List!Null
<1>8. DrawInv'
  <2>1. DrawnElems'
    <3> SUFFICES ASSUME NEW x \in 1 .. k PROVE elem'[x] = given'[1][x]
      BY <1>4 DEF DrawnElems
    <3>1. CASE x = k
      BY <3>1, <1>0, <1>4, <1>5 DEF ListShapes
    <3>2. CASE x # k
      <4>1. x \in 1 .. Len1 /\ x \in List!Nodes
        BY <3>2, <1>0, <1>2, <1>4
      <4>2. elem'[x] = elem[x]
        BY <3>2, <4>1, <1>0, <1>5 DEF ListShapes
      <4>3. elem[x] = given[1][x]
        BY <4>1, <1>1 DEF DrawnElems
      <4> QED
        BY <4>1, <4>2, <4>3, <1>4
    <3> QED
      BY <3>1, <3>2
  <2>2. liste1' = IF Len1' = 0 THEN List!Null ELSE 1
    BY <1>1, <1>2, <1>4, <1>5 DEF List!Null
  <2>3. \A x \in List!Nodes : next'[x] = IF x < Len1' THEN x + 1 ELSE IF x > Len1' + 1 /\ x <= Both' THEN x - 1 ELSE List!Null
    <3>1. CASE Len1 = 0
      BY <3>1, <1>1, <1>2, <1>4, <1>5
    <3>2. CASE Len1 # 0
      <4>1. next' = [next EXCEPT ![Len1] = k] /\ Len1 \in List!Nodes
        BY <3>2, <1>0, <1>1, <1>2, <1>5 DEF List!Null
      <4> QED
        BY <3>2, <4>1, <1>0, <1>1, <1>2, <1>4 DEF ListShapes
    <3> QED
      BY <3>1, <3>2
  <2> QED
    BY <1>0, <1>1, <1>4, <1>5, <2>1, <2>2, <2>3 DEF DrawInv
<1> QED
  BY <1>0, <1>6, <1>7, <1>8 DEF ListInv, AddInv, FrontInv, InsideInv, FreeInv, UndefInv

\* The zero ends the first list.
LEMMA ListZero1 ==
  ASSUME ListBounds, ListInv, List!Zero1
  PROVE  ListInv'
<1>0. /\ ListShapes /\ List!TypeOK /\ DrawInv /\ lipc = "draw1" /\ lipc' = "draw2"
      /\ UNCHANGED <<keeps, elem, next, used, freed, liste1, liste2, liste, lauf, given>>
  BY DEF ListInv, List!Zero1, List!heap
<1>1. ListShapes' /\ List!TypeOK'
  BY <1>0 DEF ListShapes, List!TypeOK, Len1, Len2, Both
<1>2. DrawInv'
  BY <1>0 DEF DrawInv, Len1, Len2, Both, DrawnElems
<1> QED
  BY <1>0, <1>1, <1>2 DEF ListInv, AddInv, FrontInv, InsideInv, FreeInv, UndefInv

\* A number is drawn for the second list, which grows at its head.
LEMMA ListDraw2 ==
  ASSUME ListBounds, ListInv, NEW e \in Elements, List!Draw2(e)
  PROVE  ListInv'
<1> DEFINE k == used + 1
<1>0. /\ ListShapes /\ List!TypeOK /\ DrawInv /\ lipc = "draw2" /\ Len2 < MaxLen /\ MaxLen \in Nat /\ e \in Nat
      /\ lipc' = lipc /\ UNCHANGED <<keeps, freed, liste1, liste, lauf>>
  BY DEF ListInv, List!Draw2, Len2, ListBounds
<1>1. /\ used = Both /\ freed = {} /\ DrawnElems
      /\ liste1 = (IF Len1 = 0 THEN List!Null ELSE 1) /\ liste2 = (IF Len2 = 0 THEN List!Null ELSE Both)
      /\ \A x \in List!Nodes : next[x] = IF x < Len1 THEN x + 1 ELSE IF x > Len1 + 1 /\ x <= Both THEN x - 1 ELSE List!Null
  BY <1>0 DEF DrawInv
<1>2. /\ Len1 \in Nat /\ Len2 \in Nat /\ Both = Len1 + Len2 /\ Len1 <= MaxLen
      /\ given[1] \in Seq(Elements) /\ given[2] \in Seq(Elements) /\ List!Nodes = 1 .. 3 * MaxLen + 1
      /\ given = <<given[1], given[2]>> /\ MaxLen \in Nat
  BY <1>0, ListNumbers DEF ListShapes
<1>3. /\ given'[2] = Append(given[2], e) /\ given'[1] = given[1]
      /\ given' = <<given'[1], given'[2]>> /\ given'[1] \in Seq(Elements) /\ given'[2] \in Seq(Elements)
  <2>1. given' = [given EXCEPT ![2] = Append(@, e)]
    BY DEF List!Draw2
  <2>2. given' = <<given[1], Append(given[2], e)>>
    BY <2>1, <1>2
  <2>3. Append(given[2], e) \in Seq(Elements)
    BY <1>2
  <2> QED
    BY <2>2, <2>3, <1>2
<1>4. /\ Len1' = Len1 /\ Len2' = Len2 + 1 /\ Both' = k /\ k \in List!Nodes /\ k = Len1 + Len2 + 1
      /\ \A j \in 1 .. Len2 : given'[2][j] = given[2][j]
      /\ given'[2][Len2 + 1] = e
  BY <1>0, <1>1, <1>2, <1>3 DEF Len1, Len2, Both
<1>5. /\ used' = k /\ liste2' = k /\ elem' = [elem EXCEPT ![k] = e] /\ next' = [next EXCEPT ![k] = liste2]
      /\ liste2 \in {List!Null} \cup 1 .. used
  BY <1>0 DEF List!Draw2, List!TypeOK
<1>6. ListShapes'
  <2>1. next' \in [List!Nodes -> {List!Null} \cup List!Nodes] /\ elem' \in [List!Nodes -> Nat]
    BY <1>0, <1>1, <1>2, <1>4, <1>5 DEF ListShapes
  <2>2. ASSUME NEW x \in 1 .. used' PROVE next'[x] \in {List!Null} \cup 1 .. used'
    <3>0. used \in Nat /\ used' = used + 1 /\ x \in List!Nodes /\ (x = k \/ x \in 1 .. used)
      BY <1>1, <1>2, <1>4, <1>5
    <3>1. next'[x] = IF x = k THEN liste2 ELSE next[x]
      BY <3>0, <1>0, <1>5 DEF ListShapes
    <3>2. x \in 1 .. used => next[x] \in {List!Null} \cup 1 .. used
      BY <1>0 DEF ListShapes
    <3>3. {List!Null} \cup 1 .. used \subseteq {List!Null} \cup 1 .. used + 1
      BY <3>0
    <3> HIDE DEF List!Null
    <3> QED
      BY <3>0, <3>1, <3>2, <3>3, <1>5
  <2>3. keeps' \in BOOLEAN
    BY <1>0 DEF ListShapes
  <2>4. Len1' <= MaxLen /\ Len2' <= MaxLen
    BY <1>0, <1>2, <1>4
  <2>5. given' = <<given'[1], given'[2]>> /\ given'[1] \in Seq(Elements) /\ given'[2] \in Seq(Elements)
    BY <1>3
  <2> HIDE DEF k
  <2> QED
    BY <2>1, <2>2, <2>3, <2>4, <2>5 DEF ListShapes
<1>7. List!TypeOK'
  <2>1. used' \in 0 .. 3 * MaxLen + 1 /\ used \in Nat /\ used' = used + 1
    BY <1>1, <1>2, <1>4, <1>5
  <2>2. {liste1, liste, lauf} \subseteq {List!Null} \cup 1 .. used'
    BY <2>1, <1>0 DEF List!TypeOK
  <2>3. liste2' \in {List!Null} \cup 1 .. used'
    BY <2>1, <1>5
  <2>4. {liste1', liste2', liste', lauf'} \subseteq {List!Null} \cup 1 .. used'
    BY <2>2, <2>3, <1>0
  <2> QED
    BY <2>1, <2>4, <1>0, <1>1 DEF List!TypeOK
<1>8. DrawInv'
  <2>1. DrawnElems'
    <3> SUFFICES ASSUME NEW x \in 1 .. Both'
                 PROVE  elem'[x] = IF x <= Len1 THEN given[1][x] ELSE given'[2][x - Len1]
      BY <1>3, <1>4 DEF DrawnElems
    <3>1. CASE x = k
      BY <3>1, <1>0, <1>2, <1>4, <1>5 DEF ListShapes
    <3>2. CASE x # k
      <4>1. x \in 1 .. Both /\ x \in List!Nodes
        BY <3>2, <1>0, <1>1, <1>2, <1>4
      <4>2. elem'[x] = elem[x]
        BY <3>2, <4>1, <1>0, <1>5 DEF ListShapes
      <4>3. ~ (x <= Len1) => x - Len1 \in 1 .. Len2
        BY <4>1, <1>2
      <4> QED
        BY <4>1, <4>2, <4>3, <1>1, <1>4 DEF DrawnElems
    <3> QED
      BY <3>1, <3>2
  <2>3. \A x \in List!Nodes : next'[x] = IF x < Len1' THEN x + 1 ELSE IF x > Len1' + 1 /\ x <= Both' THEN x - 1 ELSE List!Null
    <3> SUFFICES ASSUME NEW x \in List!Nodes
                 PROVE  next'[x] = IF x < Len1 THEN x + 1 ELSE IF x > Len1 + 1 /\ x <= k THEN x - 1 ELSE List!Null
      BY <1>4
    <3>1. CASE x = k
      <4>1. next'[x] = IF Len2 = 0 THEN List!Null ELSE Both
        BY <3>1, <1>0, <1>1, <1>4, <1>5 DEF ListShapes
      <4> QED
        BY <3>1, <4>1, <1>2, <1>4
    <3>2. CASE x # k
      <4>1. next'[x] = next[x]
        BY <3>2, <1>0, <1>5 DEF ListShapes
      <4> QED
        BY <3>2, <4>1, <1>1, <1>2, <1>4
    <3> QED
      BY <3>1, <3>2
  <2> QED
    BY <1>0, <1>1, <1>2, <1>4, <1>5, <2>1, <2>3 DEF DrawInv
<1> QED
  BY <1>0, <1>6, <1>7, <1>8 DEF ListInv, AddInv, FrontInv, InsideInv, FreeInv, UndefInv

\* verkettung hangs the second list at the last node of the first.
LEMMA ListVerkettung ==
  ASSUME ListBounds, ListInv, List!verkettung
  PROVE  ListInv'
<1>0. /\ ListShapes /\ List!TypeOK /\ DrawInv /\ lipc = "draw2" /\ MaxLen \in Nat
      /\ lipc' = "addtwo" /\ liste' = liste1' /\ UNCHANGED <<keeps, elem, used, freed, liste2, lauf, given>>
  BY DEF ListInv, List!verkettung, ListBounds
<1>1. /\ used = Both /\ freed = {} /\ DrawnElems
      /\ liste1 = (IF Len1 = 0 THEN List!Null ELSE 1) /\ liste2 = (IF Len2 = 0 THEN List!Null ELSE Both)
      /\ \A x \in List!Nodes : next[x] = IF x < Len1 THEN x + 1 ELSE IF x > Len1 + 1 /\ x <= Both THEN x - 1 ELSE List!Null
  BY <1>0 DEF DrawInv
<1>2. /\ Len1 \in Nat /\ Len2 \in Nat /\ Both = Len1 + Len2 /\ Both \in Nat /\ Len1 <= MaxLen /\ Len2 <= MaxLen
      /\ MaxLen \in Nat /\ List!Nodes = 1 .. 3 * MaxLen + 1
  BY <1>0, ListNumbers DEF ListShapes
<1>3. Len1' = Len1 /\ Len2' = Len2 /\ Both' = Both
  BY <1>0 DEF Len1, Len2, Both
<1>4. /\ liste1' = (IF Both = 0 THEN List!Null ELSE Pos(1))
      /\ next' \in [List!Nodes -> {List!Null} \cup List!Nodes]
      /\ \A x \in List!Nodes : next'[x] = IF x < Len1 THEN x + 1 ELSE IF x > Len1 + 1 /\ x <= Both THEN x - 1
                                          ELSE IF x = Len1 /\ Len2 # 0 THEN Both ELSE List!Null
  <2>1. CASE Len1 = 0
    <3>1. liste1' = liste2 /\ next' = next
      BY <2>1, <1>1 DEF List!verkettung
    <3>2. \A x \in List!Nodes : x # Len1
      BY <2>1, <1>2
    <3> QED
      BY <2>1, <3>1, <3>2, <1>0, <1>1, <1>2 DEF Pos, ListShapes
  <2>2. CASE Len1 # 0
    <3> DEFINE w == [j \in 1 .. Len1 |-> j]
    <3>1. w \in Seq(List!Nodes) /\ Len(w) = Len1 /\ \A j \in 1 .. Len1 : w[j] = j
      BY <1>2
    <3>2. List!NodesFrom(1) = w
      <4>1. \A j \in 1 .. Len1 : next[w[j]] = IF j < Len1 THEN w[j + 1] ELSE List!Null
        <5>1. ASSUME NEW j \in 1 .. Len1 PROVE next[j] = IF j < Len1 THEN j + 1 ELSE List!Null
          <6>1. j \in List!Nodes
            BY <1>2
          <6> QED
            BY <6>1, <1>1, <1>2
        <5>2. \A j \in 1 .. Len1 : w[j] = j /\ (j < Len1 => w[j + 1] = j + 1)
          BY <1>2
        <5> HIDE DEF w
        <5> QED
          BY <5>1, <5>2
      <4>2. List!Null \notin List!Nodes
        BY <1>2 DEF List!Null
      <4> HIDE DEF w
      <4>3. used \in Nat /\ Len(w) \in 0 .. used + 1 /\ 1 = IF Len(w) = 0 THEN List!Null ELSE w[1]
        BY <1>1, <1>2, <2>2, <3>1
      <4> QED
        BY <3>1, <4>1, <4>2, <4>3, WalkIs
    <3>3. List!Last(List!NodesFrom(liste1)) = Len1 /\ Len1 \in List!Nodes
      <4> HIDE DEF w
      <4> QED
        BY <1>1, <1>2, <2>2, <3>1, <3>2 DEF List!Last
    <3>4. liste1' = liste1 /\ next' = [next EXCEPT ![Len1] = liste2]
      BY <3>3, <2>2, <1>1 DEF List!verkettung, List!Null
    <3>5. \A x \in List!Nodes : next'[x] = IF x = Len1 THEN liste2 ELSE next[x]
      BY <3>3, <3>4, <1>0 DEF ListShapes
    <3> QED
      BY <2>2, <3>3, <3>4, <3>5, <1>0, <1>1, <1>2 DEF Pos, ListShapes
  <2> QED
    BY <2>1, <2>2
<1>5. ListShapes'
  <2>1. \A x \in 1 .. used : next'[x] \in {List!Null} \cup 1 .. used
    <3> SUFFICES ASSUME NEW x \in 1 .. used PROVE next'[x] \in {List!Null} \cup 1 .. used
      OBVIOUS
    <3>1. x \in List!Nodes
      BY <1>1, <1>2
    <3> QED
      BY <3>1, <1>1, <1>2, <1>4
  <2> QED
    BY <1>0, <1>3, <1>4, <2>1 DEF ListShapes
<1>6. List!TypeOK'
  <2>1. liste1' \in {List!Null} \cup 1 .. used
    BY <1>1, <1>2, <1>4, PosIs
  <2> QED
    BY <2>1, <1>0 DEF List!TypeOK
<1>7. Rounds(0)'
  <2>1. DrawnElems'
    BY <1>0, <1>1, <1>3 DEF DrawnElems
  <2>2. Sums(0)'
    BY DEF Sums
  <2>3. Chain(0)'
    <3>1. Top(0)' = Both
      BY <1>2, <1>3 DEF Top
    <3>2. ASSUME NEW p \in Nat PROVE p >= 1 => NodeIn(0, p)' = Pos(p)
      BY <1>3, <3>2 DEF NodeIn, Pos
    <3> SUFFICES ASSUME NEW p \in 1 .. Both PROVE next'[Pos(p)] = IF p < Both THEN Pos(p + 1) ELSE List!Null
      BY <1>2, <3>1, <3>2 DEF Chain
    <3>3. Pos(p) \in List!Nodes
      BY <1>2, PosIs
    <3> QED
      <4>1. CASE p < Len1
        BY <4>1, <3>3, <1>2, <1>4 DEF Pos
      <4>2. CASE p = Len1
        BY <4>2, <3>3, <1>2, <1>4 DEF Pos
      <4>3. CASE p > Len1
        <5>1. Pos(p) = 2 * Len1 + Len2 + 1 - p /\ Pos(p + 1) = Pos(p) - 1
          BY <4>3, <1>2 DEF Pos
        <5>2. Pos(p) > Len1 /\ Pos(p) <= Both /\ Pos(p) \in Nat /\ (p < Both <=> Pos(p) > Len1 + 1)
          BY <5>1, <4>3, <1>2
        <5> HIDE DEF Pos
        <5> QED
          BY <5>1, <5>2, <3>3, <1>2, <1>4
      <4> QED
        BY <4>1, <4>2, <4>3, <1>2
  <2>4. (IF 3 * 0 < Both THEN Pos(3 * 0 + 1) ELSE List!Null) = IF Both = 0 THEN List!Null ELSE Pos(1)
    BY <1>2
  <2>5. Pos(1)' = Pos(1) /\ Pos(3 * 0 + 1)' = Pos(3 * 0 + 1)
    BY <1>3 DEF Pos
  <2> QED
    BY <1>0, <1>1, <1>2, <1>3, <1>4, <2>1, <2>2, <2>3, <2>4, <2>5 DEF Rounds
<1> QED
  <2>1. AddInv'
    BY <1>7 DEF AddInv
  <2> QED
    BY <1>0, <1>5, <1>6, <2>1 DEF ListInv, DrawInv, FrontInv, InsideInv, FreeInv, UndefInv

\* What the two lists give together, in the order of their nodes.
LEMMA JoinedIs ==
  ASSUME ListBounds, ListShapes
  PROVE  /\ List!Joined \in Seq(Nat) /\ Len(List!Joined) = Both
         /\ DrawnElems => \A m \in 1 .. Both : List!Joined[m] = elem[Pos(m)]
<1> DEFINE a == given[1]
           b == given[2]
           r == List!Reverse(b)
<1>0. /\ a \in Seq(Nat) /\ b \in Seq(Nat) /\ Len(a) = Len1 /\ Len(b) = Len2 /\ Len1 \in Nat /\ Len2 \in Nat
      /\ Both = Len1 + Len2
  <2>1. Seq(Elements) \subseteq Seq(Nat)
    <3> SUFFICES ASSUME NEW s \in Seq(Elements) PROVE s \in Seq(Nat)
      OBVIOUS
    <3>1. Len(s) \in Nat /\ s = [k \in 1 .. Len(s) |-> s[k]] /\ \A k \in 1 .. Len(s) : s[k] \in Nat
      BY LenProperties DEF ListBounds
    <3> QED
      BY <3>1
  <2> QED
    BY <2>1, ListNumbers DEF Len1, Len2
<1> HIDE DEF a, b
<1>1. r \in Seq(Nat) /\ Len(r) = Len2 /\ \A k \in 1 .. Len2 : r[k] = b[Len2 - k + 1]
  BY <1>0 DEF List!Reverse
<1> HIDE DEF r
<1>2. /\ a \o r \in Seq(Nat) /\ Len(a \o r) = Both
      /\ \A m \in 1 .. Both : (a \o r)[m] = IF m <= Len1 THEN a[m] ELSE r[m - Len1]
  <2>1. /\ a \o r \in Seq(Nat) /\ Len(a \o r) = Len(a) + Len(r)
        /\ \A m \in 1 .. Len(a) + Len(r) : (a \o r)[m] = IF m <= Len(a) THEN a[m] ELSE r[m - Len(a)]
    BY <1>0, <1>1, ConcatProperties
  <2> QED
    BY <2>1, <1>0, <1>1
<1>3. List!Joined = a \o r
  BY DEF List!Joined, a, b, r
<1>4. ASSUME DrawnElems, NEW m \in 1 .. Both PROVE (a \o r)[m] = elem[Pos(m)]
  <2>1. Pos(m) \in 1 .. Both
    BY <1>0, PosIs
  <2>2. elem[Pos(m)] = IF Pos(m) <= Len1 THEN a[Pos(m)] ELSE b[Pos(m) - Len1]
    BY <2>1, <1>4 DEF DrawnElems, a, b
  <2>3. CASE m <= Len1
    BY <2>2, <2>3, <1>0, <1>2 DEF Pos
  <2>4. CASE ~ (m <= Len1)
    <3>1. Pos(m) = 2 * Len1 + Len2 + 1 - m /\ ~ (Pos(m) <= Len1) /\ Pos(m) - Len1 = Len2 - (m - Len1) + 1
          /\ m - Len1 \in 1 .. Len2
      BY <2>4, <1>0 DEF Pos
    <3>2. r[m - Len1] = b[Pos(m) - Len1]
      BY <1>1, <3>1
    <3> QED
      BY <2>2, <2>4, <3>1, <3>2, <1>2
  <2> QED
    BY <2>3, <2>4
<1> QED
  BY <1>2, <1>3, <1>4

\* What addtwo makes of them: every third place is the sum of the two before.
LEMMA SummedIs ==
  ASSUME ListBounds, ListShapes
  PROVE  /\ SumPlaces = Both + (IF Both % 3 = 2 THEN 1 ELSE 0)
         /\ List!Summed \in Seq(Nat)
         /\ \A m \in 1 .. SumPlaces :
              List!Summed[m] = IF m % 3 # 0 THEN List!Joined[m] ELSE List!Joined[m - 2] + IF m > Both THEN 0 ELSE List!Joined[m - 1]
<1> DEFINE P == Both + (IF Both % 3 = 2 THEN 1 ELSE 0)
           V(m) == IF m % 3 # 0 THEN List!Joined[m] ELSE List!Joined[m - 2] + IF m % 3 = 0 /\ m > Both THEN 0 ELSE List!Joined[m - 1]
<1>1. Len(List!Joined) = Both /\ Both \in Nat /\ List!Joined \in Seq(Nat)
  BY JoinedIs, ListNumbers
<1>2. List!Summed = [m \in 1 .. P |-> V(m)] /\ P \in Nat
  BY <1>1 DEF List!Summed
<1>3. ASSUME NEW m \in 1 .. P PROVE V(m) \in Nat
  <2>0. Both % 3 = 2 => (Both + 1) % 3 = 0
    <3>1. Both % 3 = 2 => Both + 1 = 3 * ((Both \div 3) + 1) /\ (Both \div 3) + 1 \in Nat /\ Both + 1 \in Nat
      BY <1>1, Thirds
    <3> QED
      BY <3>1, Thirds
  <2>1. m % 3 # 0 => m \in 1 .. Both
    BY <1>1, <2>0
  <2>2. m % 3 = 0 => m - 2 \in 1 .. Both
    BY <1>1, Thirds
  <2>3. m % 3 = 0 /\ ~ (m > Both) => m - 1 \in 1 .. Both
    BY <1>1, Thirds
  <2>4. \A x \in 1 .. Both : List!Joined[x] \in Nat
    BY <1>1
  <2> QED
    BY <2>1, <2>2, <2>3, <2>4
<1> HIDE DEF P, V
<1>4. List!Summed \in Seq(Nat) /\ Len(List!Summed) = P /\ \A m \in 1 .. P : List!Summed[m] = V(m)
  BY <1>2, <1>3
<1> QED
  BY <1>4 DEF P, V, SumPlaces

\* addtwo puts a sum behind the next two nodes.
LEMMA ListAddTwo ==
  ASSUME ListBounds, ListInv, List!AddTwo
  PROVE  ListInv'
<1> DEFINE k == used + 1
           two == next[liste]
           three == next[two]
           after == IF three # List!Null THEN next[three] ELSE List!Null
<1>0. /\ ListShapes /\ List!TypeOK /\ AddInv /\ lipc = "addtwo" /\ lipc' = lipc /\ liste # List!Null /\ two # List!Null
      /\ UNCHANGED <<keeps, freed, liste1, liste2, lauf, given>>
      /\ used' = k /\ elem' = [elem EXCEPT ![k] = elem[liste] + IF three # List!Null THEN elem[two] ELSE 0]
      /\ next' = [next EXCEPT ![k] = after, ![two] = k] /\ liste' = next'[k]
  BY DEF ListInv, List!AddTwo
<1>1. PICK t \in Nat : Rounds(t)
  BY <1>0 DEF AddInv
<1>2. /\ Len1 \in Nat /\ Len2 \in Nat /\ Both = Len1 + Len2 /\ Both \in Nat
      /\ List!Nodes = 1 .. 3 * MaxLen + 1 /\ MaxLen \in Nat /\ Len1 <= MaxLen /\ Len2 <= MaxLen
      /\ elem \in [List!Nodes -> Nat] /\ next \in [List!Nodes -> {List!Null} \cup List!Nodes]
  BY <1>0, ListNumbers DEF ListShapes, ListBounds
<1>3. Len1' = Len1 /\ Len2' = Len2 /\ Both' = Both
  BY <1>0 DEF Len1, Len2, Both
<1>4. used = Both + t /\ 3 * t < Both /\ liste = Pos(3 * t + 1) /\ Chain(t) /\ k = Both + t + 1
  BY <1>0, <1>1 DEF Rounds
<1>5. Top(t) = Both /\ \A p \in 1 .. Both : p > 3 * t => NodeIn(t, p) = Pos(p)
  BY <1>2, <1>4 DEF Top, NodeIn
<1>6. \A p \in 1 .. Both : next[NodeIn(t, p)] = IF p < Both THEN NodeIn(t, p + 1) ELSE List!Null
  BY <1>4, <1>5 DEF Chain
<1>7. \A p \in 1 .. Both : Pos(p) \in 1 .. Both /\ Pos(p) \in List!Nodes /\ Pos(p) # List!Null
  BY <1>2, PosIs DEF List!Null
<1>8. 3 * t + 2 <= Both /\ two = Pos(3 * t + 2)
  <2>1. 3 * t + 1 \in 1 .. Both
    BY <1>2, <1>4
  <2>2. two = IF 3 * t + 1 < Both THEN NodeIn(t, 3 * t + 1 + 1) ELSE List!Null
    BY <2>1, <1>4, <1>5, <1>6
  <2>3. 3 * t + 1 < Both
    BY <2>2, <1>0
  <2>4. 3 * t + 2 \in 1 .. Both /\ 3 * t + 2 > 3 * t /\ 3 * t + 1 + 1 = 3 * t + 2
    BY <2>3, <1>2
  <2> QED
    BY <2>2, <2>3, <2>4, <1>5
<1>9. three = IF 3 * t + 3 <= Both THEN Pos(3 * t + 3) ELSE List!Null
  <2>1. 3 * t + 2 \in 1 .. Both /\ 3 * t + 2 > 3 * t
    BY <1>2, <1>8
  <2>2. three = IF 3 * t + 2 < Both THEN NodeIn(t, 3 * t + 2 + 1) ELSE List!Null
    BY <2>1, <1>5, <1>6, <1>8
  <2>3. 3 * t + 3 <= Both => 3 * t + 3 \in 1 .. Both /\ 3 * t + 3 > 3 * t
    BY <1>2
  <2>4. 3 * t + 2 + 1 = 3 * t + 3 /\ (3 * t + 2 < Both <=> 3 * t + 3 <= Both)
    BY <1>2
  <2> QED
    BY <2>2, <2>3, <2>4, <1>5
<1>10. after = IF 3 * t + 3 < Both THEN Pos(3 * t + 4) ELSE List!Null
  <2>1. CASE 3 * t + 3 <= Both
    <3>1. 3 * t + 3 \in 1 .. Both /\ 3 * t + 3 > 3 * t
      BY <1>2, <2>1
    <3>2. three # List!Null /\ next[three] = IF 3 * t + 3 < Both THEN NodeIn(t, 3 * t + 3 + 1) ELSE List!Null
      BY <3>1, <2>1, <1>5, <1>6, <1>7, <1>9
    <3>3. 3 * t + 3 < Both => 3 * t + 4 \in 1 .. Both /\ 3 * t + 4 > 3 * t
      BY <1>2
    <3>4. 3 * t + 3 + 1 = 3 * t + 4
      OBVIOUS
    <3> QED
      BY <3>2, <3>3, <3>4, <1>5
  <2>2. CASE ~ (3 * t + 3 <= Both)
    BY <2>2, <1>2, <1>9
  <2> QED
    BY <2>1, <2>2
<1>11. k \in List!Nodes /\ two \in List!Nodes /\ k # two /\ k > Both /\ liste \in 1 .. Both /\ liste \in List!Nodes
       /\ k \in Nat /\ used \in Nat /\ two \in 1 .. Both /\ after \in {List!Null} \cup 1 .. Both
  <2>1. 3 * t + 2 \in 1 .. Both /\ 3 * t + 1 \in 1 .. Both
    BY <1>2, <1>8
  <2>2. k \in List!Nodes /\ k > Both /\ k \in Nat /\ used \in Nat
    BY <1>2, <1>4, <1>8
  <2>3. 3 * t + 3 < Both => 3 * t + 4 \in 1 .. Both
    BY <1>2
  <2>4. two \in 1 .. Both /\ two \in List!Nodes /\ liste \in 1 .. Both /\ liste \in List!Nodes
    BY <2>1, <1>4, <1>7, <1>8
  <2>5. after \in {List!Null} \cup 1 .. Both
    BY <2>3, <1>7, <1>10
  <2> QED
    BY <2>2, <2>4, <2>5, <1>2
<1> HIDE DEF after, three, two, k
<1>12. /\ next' \in [List!Nodes -> {List!Null} \cup List!Nodes]
       /\ next'[k] = after /\ next'[two] = k
       /\ \A x \in List!Nodes : x # k /\ x # two => next'[x] = next[x]
  <2>1. 1 .. Both \subseteq List!Nodes
    BY <1>2, <1>4, <1>8
  <2> QED
    BY <2>1, <1>0, <1>2, <1>11
<1>13. /\ elem' \in [List!Nodes -> Nat]
       /\ elem'[k] = elem[liste] + IF three # List!Null THEN elem[two] ELSE 0
       /\ \A x \in 1 .. Both + t : x \in List!Nodes /\ elem'[x] = elem[x]
  <2>1. elem[liste] \in Nat /\ elem[two] \in Nat
    BY <1>2, <1>11
  <2>2. elem[liste] + (IF three # List!Null THEN elem[two] ELSE 0) \in Nat
    BY <2>1
  <2>3. \A x \in 1 .. Both + t : x \in List!Nodes /\ x # k
    BY <1>2, <1>4, <1>8
  <2> QED
    BY <2>2, <2>3, <1>0, <1>2, <1>11
<1>14. ListShapes'
  <2>1. ASSUME NEW x \in 1 .. used' PROVE next'[x] \in {List!Null} \cup 1 .. used'
    <3>1. x \in List!Nodes /\ (x # k => x \in 1 .. used) /\ {List!Null} \cup 1 .. used \subseteq {List!Null} \cup 1 .. used'
          /\ k \in 1 .. used'
      BY <1>0, <1>2, <1>11 DEF k
    <3>2. after \in {List!Null} \cup 1 .. used'
      BY <1>0, <1>2, <1>4, <1>11 DEF k
    <3> QED
      BY <3>1, <3>2, <1>0, <1>12 DEF ListShapes
  <2> QED
    BY <2>1, <1>0, <1>3, <1>12, <1>13 DEF ListShapes
<1>15. List!TypeOK'
  <2>1. used' \in 0 .. 3 * MaxLen + 1 /\ {List!Null} \cup 1 .. used \subseteq {List!Null} \cup 1 .. used' /\ 1 .. used \subseteq 1 .. used'
    BY <1>0, <1>2, <1>11 DEF k
  <2>2. liste' \in {List!Null} \cup 1 .. used'
    BY <1>0, <1>2, <1>4, <1>11, <1>12 DEF k
  <2>3. {liste1', liste2', lauf'} \subseteq {List!Null} \cup 1 .. used' /\ freed' \subseteq 1 .. used'
    BY <1>0, <2>1 DEF List!TypeOK
  <2>4. {liste1', liste2', liste', lauf'} \subseteq {List!Null} \cup 1 .. used'
    BY <2>2, <2>3
  <2> QED
    BY <2>1, <2>3, <2>4, <1>0 DEF List!TypeOK
<1>16. Rounds(t + 1)'
  <2> DEFINE u == t + 1
  <2>0. u \in Nat /\ 3 * u = 3 * t + 3 /\ 3 * u <= Both + 1 /\ used' = Both' + u
    BY <1>0, <1>2, <1>3, <1>4, <1>8 DEF k
  <2>1. \A p \in Nat : Pos(p)' = Pos(p) /\ NodeIn(u, p)' = NodeIn(u, p)
    BY <1>3 DEF Pos, NodeIn, NodeAt
  <2>2. Top(u)' = (IF Both <= 3 * t + 3 THEN 3 * t + 3 ELSE Both)
    BY <2>0, <1>3 DEF Top
  <2>3. /\ NodeIn(u, 3 * t + 3) = k
        /\ \A p \in 1 .. Both : p # 3 * t + 3 => NodeIn(u, p) = NodeIn(t, p)
    <3>1. (3 * t + 3) % 3 = 0 /\ (3 * t + 3) \div 3 = u
      BY <2>0, Thirds
    <3>2. NodeIn(u, 3 * t + 3) = k
      BY <3>1, <2>0, <1>2, <1>4 DEF NodeIn, NodeAt, k
    <3>3. (3 * t + 1) % 3 = 1 /\ (3 * t + 2) % 3 = 2
      BY Thirds
    <3>4. ASSUME NEW p \in 1 .. Both, p # 3 * t + 3 PROVE NodeIn(u, p) = NodeIn(t, p)
      <4>1. CASE p <= 3 * t
        BY <4>1, <2>0, <1>2 DEF NodeIn
      <4>2. CASE p = 3 * t + 1 \/ p = 3 * t + 2
        <5>1. p % 3 # 0 /\ p <= 3 * u /\ ~ (p <= 3 * t)
          BY <4>2, <3>3, <2>0
        <5> QED
          BY <5>1 DEF NodeIn, NodeAt
      <4>3. CASE p > 3 * t + 3
        BY <4>3, <2>0, <1>2 DEF NodeIn
      <4> QED
        BY <3>4, <4>1, <4>2, <4>3, <1>2
    <3> QED
      BY <3>2, <3>4
  <2> HIDE DEF u
  <2>4. Chain(u)'
    <3> SUFFICES ASSUME NEW p \in 1 .. Top(u)'
                 PROVE  next'[NodeIn(u, p)] = IF p < Top(u)' THEN NodeIn(u, p + 1) ELSE List!Null
      <4>1. \A p \in 1 .. Top(u)' : p \in Nat /\ p + 1 \in Nat
        BY <2>2, <1>2
      <4> QED
        BY <4>1, <2>1 DEF Chain
    <3>0. p \in Nat /\ p >= 1 /\ Top(u)' \in Nat
      BY <2>2, <1>2
    <3>1. CASE p = 3 * t + 3
      <4>1. next'[NodeIn(u, p)] = IF 3 * t + 3 < Both THEN Pos(3 * t + 4) ELSE List!Null
        BY <3>1, <2>3, <1>10, <1>12
      <4>2. p < Top(u)' <=> 3 * t + 3 < Both
        BY <3>1, <2>2, <1>2
      <4>3. NodeIn(u, p + 1) = Pos(3 * t + 4)
        <5>1. p + 1 = 3 * t + 4 /\ ~ (p + 1 <= 3 * u)
          BY <3>1, <2>0
        <5> QED
          BY <5>1 DEF NodeIn
      <4> QED
        BY <4>1, <4>2, <4>3
    <3>2. CASE p = 3 * t + 2
      <4>1. p \in 1 .. Both /\ p # 3 * t + 3 /\ p > 3 * t /\ p + 1 = 3 * t + 3 /\ p < Top(u)'
        BY <3>2, <2>2, <1>2, <1>8
      <4>2. NodeIn(u, p) = two
        BY <4>1, <3>2, <2>3, <1>5, <1>8
      <4> QED
        BY <4>1, <4>2, <2>3, <1>12
    <3>3. CASE p # 3 * t + 2 /\ p # 3 * t + 3
      <4>1. p \in 1 .. Both /\ p + 1 # 3 * t + 3 /\ 3 * t + 2 \in 1 .. Both
        BY <3>0, <3>3, <2>2, <1>2, <1>8
      <4>2. /\ NodeIn(u, p) = NodeIn(t, p) /\ NodeIn(t, p) \in List!Nodes /\ NodeIn(t, p) # k /\ NodeIn(t, p) # two
        <5>1. NodeIn(t, p) \in 1 .. Both + t
          BY <4>1, <1>2, <1>4, <1>5, NodeIs
        <5>2. NodeIn(t, p) \in List!Nodes /\ NodeIn(t, p) # k
          BY <5>1, <1>2, <1>4, <1>8, <1>13
        <5>3. two = NodeIn(t, 3 * t + 2)
          BY <4>1, <1>5, <1>8
        <5>4. 3 * t <= Both + 1 /\ p \in 1 .. Top(t) /\ 3 * t + 2 \in 1 .. Top(t)
          BY <4>1, <1>2, <1>4, <1>5
        <5>5. NodeIn(t, p) # NodeIn(t, 3 * t + 2)
          BY <5>4, <3>3, <1>2, NodeIs
        <5> QED
          BY <5>2, <5>3, <5>5, <4>1, <3>3, <2>3
      <4>3. next'[NodeIn(u, p)] = IF p < Both THEN NodeIn(t, p + 1) ELSE List!Null
        BY <4>1, <4>2, <1>6, <1>12
      <4>4. p < Both => NodeIn(t, p + 1) = NodeIn(u, p + 1)
        <5>1. p < Both => p + 1 \in 1 .. Both
          BY <3>0, <1>2
        <5> QED
          BY <5>1, <4>1, <2>3
      <4>5. p < Both <=> p < Top(u)'
        BY <4>1, <3>0, <3>3, <2>2, <1>2, <1>8
      <4> QED
        BY <4>3, <4>4, <4>5
    <3> QED
      BY <3>1, <3>2, <3>3
  <2>5. Sums(u)'
    <3> SUFFICES ASSUME NEW s \in 1 .. u
                 PROVE  elem'[Both + s] = elem'[Pos(3 * s - 2)] + IF 3 * s > Both THEN 0 ELSE elem'[Pos(3 * s - 1)]
      <4>1. \A s \in 1 .. u : 3 * s - 2 \in Nat /\ 3 * s - 1 \in Nat
        BY <2>0
      <4> QED
        BY <4>1, <2>1, <1>3 DEF Sums
    <3>0. s \in Nat /\ s >= 1 /\ s <= t + 1
      BY <2>0 DEF u
    <3>1. 3 * s - 2 \in 1 .. Both /\ (~ (3 * s > Both) => 3 * s - 1 \in 1 .. Both)
      BY <3>0, <1>2, <1>8
    <3>2. /\ elem'[Pos(3 * s - 2)] = elem[Pos(3 * s - 2)]
          /\ ~ (3 * s > Both) => elem'[Pos(3 * s - 1)] = elem[Pos(3 * s - 1)]
      <4>1. 1 .. Both \subseteq 1 .. Both + t
        BY <1>2
      <4> QED
        BY <3>1, <4>1, <1>7, <1>13
    <3>3. CASE s = t + 1
      <4>1. Both + s = k /\ 3 * s - 2 = 3 * t + 1 /\ 3 * s - 1 = 3 * t + 2 /\ (3 * s > Both <=> ~ (3 * t + 3 <= Both))
        BY <3>3, <1>2, <1>4
      <4>2. three # List!Null <=> 3 * t + 3 <= Both
        <5>1. 3 * t + 3 <= Both => 3 * t + 3 \in 1 .. Both
          BY <1>2
        <5> QED
          BY <5>1, <1>7, <1>9
      <4>3. elem'[k] = elem[Pos(3 * t + 1)] + IF three # List!Null THEN elem[Pos(3 * t + 2)] ELSE 0
        BY <1>4, <1>8, <1>13
      <4> QED
        BY <4>1, <4>2, <4>3, <3>2
    <3>4. CASE s # t + 1
      <4>1. s \in 1 .. t /\ Both + s \in 1 .. Both + t
        BY <3>0, <3>4, <1>2
      <4>2. elem[Both + s] = elem[Pos(3 * s - 2)] + IF 3 * s > Both THEN 0 ELSE elem[Pos(3 * s - 1)]
        BY <4>1, <1>1 DEF Rounds, Sums
      <4> QED
        BY <4>1, <4>2, <3>2, <1>13
    <3> QED
      BY <3>3, <3>4
  <2>6. DrawnElems'
    <3>1. 1 .. Both \subseteq 1 .. Both + t
      BY <1>2
    <3> QED
      BY <3>1, <1>0, <1>1, <1>3, <1>13 DEF Rounds, DrawnElems
  <2>7. liste' = IF 3 * u < Both THEN Pos(3 * u + 1) ELSE List!Null
    <3>1. 3 * u + 1 = 3 * t + 4
      BY <2>0
    <3> QED
      BY <3>1, <2>0, <1>0, <1>10, <1>12
  <2>8. liste1' = (IF Both = 0 THEN List!Null ELSE Pos(1)) /\ freed' = {}
    BY <1>0, <1>1 DEF Rounds
  <2>9. Pos(1)' = Pos(1) /\ Pos(3 * u + 1)' = Pos(3 * u + 1)
    BY <2>0, <2>1
  <2>10. Rounds(u)'
    BY <2>0, <2>4, <2>5, <2>6, <2>7, <2>8, <2>9, <1>3 DEF Rounds
  <2> QED
    BY <2>10 DEF u
<1> QED
  <2>1. AddInv'
    BY <1>16 DEF AddInv
  <2> QED
    BY <1>0, <1>14, <1>15, <2>1 DEF ListInv, DrawInv, FrontInv, InsideInv, FreeInv, UndefInv

\* addtwo comes to a last node that has none to be added to.
LEMMA ListAddToOne ==
  ASSUME ListBounds, ListInv, List!AddToOne
  PROVE  ListInv'
<1>0. /\ ListShapes /\ List!TypeOK /\ AddInv /\ lipc = "addtwo" /\ lipc' = "undefined" /\ liste # List!Null /\ next[liste] = List!Null
      /\ UNCHANGED <<keeps, elem, next, used, freed, liste1, liste2, liste, lauf, given>>
  BY DEF ListInv, List!AddToOne, List!Undefined, List!heap
<1>1. PICK t \in Nat : Rounds(t)
  BY <1>0 DEF AddInv
<1>2. Len1 \in Nat /\ Len2 \in Nat /\ Both \in Nat
  BY <1>0, ListNumbers
<1>3. 3 * t < Both /\ liste = Pos(3 * t + 1) /\ Chain(t) /\ freed = {}
  BY <1>0, <1>1 DEF Rounds
<1>4. Both = 3 * t + 1
  <2>1. SUFFICES ASSUME 3 * t + 1 < Both PROVE FALSE
    BY <1>2, <1>3
  <2>2. 3 * t + 1 \in 1 .. Both /\ 3 * t + 2 \in 1 .. Both /\ Top(t) = Both
    BY <2>1, <1>2, <1>3 DEF Top
  <2>3. NodeIn(t, 3 * t + 1) = Pos(3 * t + 1) /\ NodeIn(t, 3 * t + 1 + 1) = Pos(3 * t + 2)
    BY DEF NodeIn
  <2>4. next[liste] = Pos(3 * t + 2)
    BY <2>1, <2>2, <2>3, <1>3 DEF Chain
  <2>5. Pos(3 * t + 2) # List!Null
    BY <2>2, <1>2, PosIs DEF List!Null
  <2> QED
    BY <2>4, <2>5, <1>0
<1>5. Both % 3 = 1
  BY <1>4, <1>2, Thirds
<1>6. UndefInv'
  BY <1>0, <1>3, <1>5 DEF UndefInv, Both, Len1, Len2
<1>7. ListShapes' /\ List!TypeOK'
  BY <1>0 DEF ListShapes, List!TypeOK, Len1, Len2
<1> QED
  BY <1>0, <1>6, <1>7 DEF ListInv, DrawInv, AddInv, FrontInv, InsideInv, FreeInv

\* What is said of places does not change while the numbers do not.
LEMMA ListStays ==
  ASSUME UNCHANGED given
  PROVE  /\ Both' = Both /\ Len1' = Len1 /\ Len2' = Len2 /\ SumPlaces' = SumPlaces /\ List!Summed' = List!Summed /\ List!EvensApart' = List!EvensApart
         /\ OddPlaces' = OddPlaces
         /\ \A p : /\ NodeAt(p)' = NodeAt(p) /\ EvenAt(p)' = EvenAt(p) /\ AtOrNull(p)' = AtOrNull(p)
                   /\ EvenNodes(p)' = EvenNodes(p) /\ OddNode(p)' = OddNode(p)
<1>1. Both' = Both /\ Len1' = Len1 /\ Len2' = Len2
  BY DEF Both, Len1, Len2
<1>2. List!Summed' = List!Summed
  BY DEF List!Summed, List!Joined
<1>3. SumPlaces' = SumPlaces
  BY <1>2 DEF SumPlaces
<1>4. \A p : NodeAt(p)' = NodeAt(p)
  BY <1>1 DEF NodeAt, Pos
<1>5. \A p : EvenAt(p)' = EvenAt(p)
  BY <1>2 DEF EvenAt
<1>6. \A p : AtOrNull(p)' = AtOrNull(p)
  BY <1>3, <1>4 DEF AtOrNull
<1>7. \A p : EvenNodes(p)' = EvenNodes(p)
  BY <1>4, <1>5 DEF EvenNodes
<1>8. OddPlaces' = OddPlaces
  BY <1>2, <1>3 DEF OddPlaces
<1>9. \A p : OddNode(p)' = OddNode(p)
  BY <1>4, <1>8 DEF OddNode
<1>10. List!EvensApart' = List!EvensApart
  BY <1>2 DEF List!EvensApart
<1> QED
  BY <1>1, <1>2, <1>3, <1>4, <1>5, <1>6, <1>7, <1>8, <1>9, <1>10

\* When addtwo is done every place has a node of its own.
LEMMA BuiltIs ==
  ASSUME ListBounds, ListShapes, List!TypeOK, Built
  PROVE  /\ SumPlaces \in Nat /\ SumPlaces <= used + 1 /\ Both % 3 # 1 /\ used \in Nat /\ 1 .. used \subseteq List!Nodes
         /\ List!Summed \in Seq(Nat) /\ Len(List!Summed) = SumPlaces
         /\ \A p \in 1 .. SumPlaces : /\ NodeAt(p) \in 1 .. used /\ NodeAt(p) \in List!Nodes /\ NodeAt(p) # List!Null
                                      /\ elem[NodeAt(p)] = List!Summed[p] /\ (List!Even(NodeAt(p)) <=> EvenAt(p))
         /\ \A p, r \in 1 .. SumPlaces : NodeAt(p) = NodeAt(r) => p = r
<1>1. PICK t \in Nat : used = Both + t /\ SumPlaces = 3 * t /\ 3 * t \in {Both, Both + 1}
  BY DEF Built
<1>2. /\ Len1 \in Nat /\ Len2 \in Nat /\ Both \in Nat /\ List!Nodes = 1 .. 3 * MaxLen + 1 /\ MaxLen \in Nat
      /\ used \in 0 .. 3 * MaxLen + 1
  BY ListNumbers DEF ListBounds, List!TypeOK
<1>3. SumPlaces \in Nat /\ SumPlaces <= used + 1 /\ used \in Nat /\ 1 .. used \subseteq List!Nodes
  BY <1>1, <1>2
<1>4. Both % 3 # 1
  <2>1. CASE Both = 3 * t
    BY <2>1, <1>2, Thirds
  <2>2. CASE 3 * t = Both + 1
    <3>1. Both = 3 * (t - 1) + 2 /\ t - 1 \in Nat
      BY <2>2, <1>2
    <3> QED
      BY <3>1, <1>2, Thirds
  <2> QED
    BY <2>1, <2>2, <1>1
<1>5. Top(t) = SumPlaces /\ \A p \in 1 .. SumPlaces : NodeIn(t, p) = NodeAt(p)
  BY <1>1, <1>2 DEF Top, NodeIn
<1>6. /\ \A p \in 1 .. SumPlaces : NodeAt(p) \in 1 .. used
      /\ \A p, r \in 1 .. SumPlaces : NodeAt(p) = NodeAt(r) => p = r
  <2>1. 3 * t <= Both + 1
    BY <1>1, <1>2
  <2>2. /\ \A p \in 1 .. Top(t) : NodeIn(t, p) \in 1 .. Both + t
        /\ \A p, r \in 1 .. Top(t) : NodeIn(t, p) = NodeIn(t, r) => p = r
    BY <2>1, <1>2, NodeIs
  <2> QED
    BY <2>2, <1>1, <1>5
<1>7. \A p \in 1 .. SumPlaces : elem[NodeAt(p)] = List!Summed[p]
  BY DEF Built
<1>8. List!Summed \in Seq(Nat) /\ Len(List!Summed) = SumPlaces
  BY SummedIs DEF SumPlaces
<1>9. \A x \in 1 .. used : x # List!Null /\ x \in List!Nodes
  BY <1>3 DEF List!Null
<1> QED
  BY <1>3, <1>4, <1>6, <1>7, <1>8, <1>9 DEF List!Even, EvenAt

\* The even nodes up to the next place.
LEMMA EvenNodesGrow ==
  ASSUME NEW m \in Nat
  PROVE  /\ EvenNodes(0) = {}
         /\ EvenNodes(m + 1) = IF EvenAt(m + 1) THEN EvenNodes(m) \cup {NodeAt(m + 1)} ELSE EvenNodes(m)
<1>1. 1 .. m + 1 = (1 .. m) \cup {m + 1} /\ 1 .. 0 = {}
  OBVIOUS
<1> QED
  BY <1>1 DEF EvenNodes

\* The places of the odd numbers, in their order.
LEMMA OddPlacesAre ==
  ASSUME SumPlaces \in Nat, List!Summed \in Seq(Nat), Len(List!Summed) = SumPlaces
  PROVE  /\ OddPlaces \in Seq(1 .. SumPlaces)
         /\ \A e : (\E j \in 1 .. Len(OddPlaces) : OddPlaces[j] = e) <=> e \in 1 .. SumPlaces /\ ~ EvenAt(e)
         /\ \A x, y \in 1 .. Len(OddPlaces) : x < y => OddPlaces[x] < OddPlaces[y]
<1> DEFINE s == [m \in 1 .. SumPlaces |-> m]
           S == {m \in 1 .. SumPlaces : List!Summed[m] \in {e \in Int : e % 2 = 1}}
           K == [x \in Nat |-> x]
<1>1. s \in Seq(1 .. SumPlaces) /\ DOMAIN s = 1 .. SumPlaces /\ \A m \in 1 .. SumPlaces : s[m] = m
  OBVIOUS
<1>2. \A e : e \in S <=> e \in 1 .. SumPlaces /\ ~ EvenAt(e)
  <2>1. ASSUME NEW e \in 1 .. SumPlaces PROVE List!Summed[e] \in {x \in Int : x % 2 = 1} <=> ~ (List!Summed[e] % 2 = 0)
    <3>1. List!Summed[e] \in Nat
      OBVIOUS
    <3> QED
      BY <3>1
  <2> QED
    BY <2>1 DEF EvenAt
<1>3. OddPlaces = Chosen(s, S)
  BY DEF OddPlaces
<1> HIDE DEF s, S, K
<1>4. /\ OddPlaces \in Seq(1 .. SumPlaces)
      /\ \A e : (\E j \in DOMAIN OddPlaces : OddPlaces[j] = e) <=> e \in S /\ \E j \in DOMAIN s : s[j] = e
  <2>0. s \in Seq(1 .. SumPlaces)
    BY <1>1
  <2>1. Chosen(s, S) \in Seq(1 .. SumPlaces)
    BY <2>0, ChosenIs
  <2>2. ASSUME NEW e PROVE (\E j \in DOMAIN Chosen(s, S) : Chosen(s, S)[j] = e) <=> e \in S /\ \E j \in DOMAIN s : s[j] = e
    BY <2>0, ChosenMember
  <2> QED
    BY <2>1, <2>2, <1>3
<1>5. \A a, b \in DOMAIN s : K[s[a]] \in Int /\ (a < b => K[s[a]] < K[s[b]])
  BY <1>1 DEF K
<1>6. DOMAIN OddPlaces = 1 .. Len(OddPlaces) /\ \A x \in 1 .. Len(OddPlaces) : OddPlaces[x] \in 1 .. SumPlaces
  BY <1>4
<1>7. \A x \in 1 .. Len(OddPlaces) : K[OddPlaces[x]] = OddPlaces[x]
  BY <1>6 DEF K
<1>8. \A e : (\E j \in 1 .. Len(OddPlaces) : OddPlaces[j] = e) <=> e \in 1 .. SumPlaces /\ ~ EvenAt(e)
  BY <1>1, <1>2, <1>4, <1>6
<1>9. \A x, y \in 1 .. Len(OddPlaces) : x < y => OddPlaces[x] < OddPlaces[y]
  <2>1. \A x, y \in DOMAIN OddPlaces : x < y => K[OddPlaces[x]] < K[OddPlaces[y]]
    BY <1>1, <1>3, <1>5, ChosenGrows
  <2> QED
    BY <2>1, <1>6, <1>7
<1> QED
  BY <1>4, <1>8, <1>9

\* addtwo is done; clear begins at the front.
LEMMA ListAddEnd ==
  ASSUME ListBounds, ListInv, List!AddEnd
  PROVE  ListInv'
<1>0. /\ ListShapes /\ List!TypeOK /\ AddInv /\ lipc = "addtwo" /\ lipc' = "front" /\ liste = List!Null /\ liste' = liste1
      /\ UNCHANGED <<keeps, elem, next, used, freed, liste1, liste2, lauf, given>>
  BY DEF ListInv, List!AddEnd, List!heap
<1>1. PICK t \in Nat : Rounds(t)
  BY <1>0 DEF AddInv
<1>2. Len1 \in Nat /\ Len2 \in Nat /\ Both = Len1 + Len2 /\ Both \in Nat
  BY <1>0, ListNumbers
<1>3. ListShapes' /\ List!TypeOK'
  BY <1>0 DEF ListShapes, List!TypeOK, Len1, Len2
<1>4. 3 * t \in {Both, Both + 1} /\ Both <= 3 * t
  <2>1. 3 * t < Both => 3 * t + 1 \in 1 .. Both
    BY <1>2
  <2>2. ~ (3 * t < Both)
    BY <2>1, <1>0, <1>1, <1>2, PosIs DEF Rounds, List!Null
  <2> QED
    BY <2>2, <1>1, <1>2 DEF Rounds
<1>5. SumPlaces = 3 * t /\ Both % 3 # 1
  <2>1. CASE Both = 3 * t
    BY <2>1, <1>0, <1>2, Thirds, SummedIs
  <2>2. CASE 3 * t = Both + 1
    <3>1. Both = 3 * (t - 1) + 2 /\ t - 1 \in Nat
      BY <2>2, <1>2
    <3>2. Both % 3 = 2
      BY <3>1, <1>2, Thirds
    <3> QED
      BY <2>2, <3>2, <1>0, SummedIs
  <2> QED
    BY <2>1, <2>2, <1>4
<1>6. ASSUME NEW m \in 1 .. SumPlaces PROVE elem[NodeAt(m)] = List!Summed[m]
  <2>0. m \in Nat /\ m >= 1 /\ m <= 3 * t /\ List!Joined \in Seq(Nat) /\ \A x \in 1 .. Both : List!Joined[x] = elem[Pos(x)]
    BY <1>0, <1>1, <1>5, JoinedIs DEF Rounds
  <2>1. List!Summed[m] = IF m % 3 # 0 THEN List!Joined[m] ELSE List!Joined[m - 2] + IF m > Both THEN 0 ELSE List!Joined[m - 1]
    BY <1>0, SummedIs
  <2>2. CASE m % 3 # 0
    <3>1. m # 3 * t
      BY <2>0, <2>2, Thirds
    <3>2. m \in 1 .. Both
      BY <2>0, <3>1, <1>2, <1>4
    <3> QED
      BY <2>0, <2>1, <2>2, <3>2 DEF NodeAt
  <2>3. CASE m % 3 = 0
    <3> DEFINE s == m \div 3
    <3>1. s \in Nat /\ m = 3 * s
      BY <2>0, <2>3, Thirds
    <3>2. NodeAt(m) = Both + s
      BY <2>3 DEF NodeAt
    <3> HIDE DEF s
    <3>3. s \in 1 .. t /\ m - 2 \in 1 .. Both /\ (~ (m > Both) => m - 1 \in 1 .. Both)
      BY <2>0, <3>1, <1>2, <1>4
    <3>4. elem[Both + s] = elem[Pos(m - 2)] + IF m > Both THEN 0 ELSE elem[Pos(m - 1)]
      BY <3>1, <3>3, <1>1 DEF Rounds, Sums
    <3> QED
      BY <2>0, <2>1, <2>3, <3>2, <3>3, <3>4
  <2> QED
    BY <2>2, <2>3
<1>7. Built
  BY <1>1, <1>4, <1>5, <1>6 DEF Built, Rounds
<1>8. Top(t) = SumPlaces /\ \A p \in Nat : p <= SumPlaces => NodeIn(t, p) = NodeAt(p)
  BY <1>2, <1>4, <1>5 DEF Top, NodeIn
<1>9. ASSUME NEW p \in 1 .. SumPlaces PROVE Linked(p)
  <2>1. p \in Nat /\ p + 1 \in Nat /\ (p < SumPlaces <=> p + 1 <= SumPlaces) /\ NodeIn(t, p) = NodeAt(p)
    BY <1>5, <1>8
  <2>2. next[NodeAt(p)] = IF p < SumPlaces THEN NodeIn(t, p + 1) ELSE List!Null
    BY <2>1, <1>1, <1>8 DEF Rounds, Chain
  <2> QED
    BY <2>1, <2>2, <1>8 DEF Linked, AtOrNull
<1>10. liste1 = AtOrNull(1)
  <2>1. Both = 0 <=> SumPlaces = 0
    BY <1>2, <1>4, <1>5
  <2>2. NodeAt(1) = Pos(1)
    BY Thirds DEF NodeAt
  <2> QED
    BY <2>1, <2>2, <1>1, <1>4, <1>5 DEF Rounds, AtOrNull
<1>11. FrontInv'
  <2>1. Built' /\ \A p \in 1 .. SumPlaces' : Linked(p)'
    BY <1>0, <1>7, <1>9, ListStays DEF Built, Linked
  <2>2. FrontAt(0)'
    <3>1. EvenNodes(0)' = {} /\ freed' = {} /\ liste' = AtOrNull(1) /\ liste1' = liste'
      BY <1>0, <1>1, <1>10, EvenNodesGrow, ListStays DEF Rounds
    <3> QED
      BY <3>1, <1>0, ListStays DEF FrontAt
  <2>3. 0 \in 0 .. SumPlaces'
    BY <1>0, <1>5, ListStays
  <2> QED
    BY <2>1, <2>2, <2>3 DEF FrontInv
<1> QED
  BY <1>0, <1>3, <1>11 DEF ListInv, DrawInv, AddInv, InsideInv, FreeInv, UndefInv

\* clear frees an even node at the front.
LEMMA ListClearFront ==
  ASSUME ListBounds, ListInv, List!ClearFront
  PROVE  ListInv'
<1>0. /\ ListShapes /\ List!TypeOK /\ FrontInv /\ lipc = "front" /\ lipc' = lipc /\ liste # List!Null /\ List!Even(liste)
      /\ freed' = freed \cup {liste} /\ liste' = next[liste] /\ liste1' = liste'
      /\ UNCHANGED <<keeps, elem, next, used, liste2, lauf, given>>
  BY DEF ListInv, List!ClearFront
<1>1. /\ Built /\ \A p \in 1 .. SumPlaces : Linked(p)
  BY <1>0 DEF FrontInv
<1>2. PICK q \in 0 .. SumPlaces : FrontAt(q)
  BY <1>0 DEF FrontInv
<1>3. SumPlaces \in Nat /\ q + 1 \in 1 .. SumPlaces /\ liste = NodeAt(q + 1) /\ liste \in 1 .. used /\ EvenAt(q + 1)
  <2>1. SumPlaces \in Nat
    BY <1>0, <1>1, BuiltIs
  <2>2. q + 1 <= SumPlaces /\ liste = NodeAt(q + 1)
    BY <1>0, <1>2 DEF FrontAt, AtOrNull
  <2>3. q + 1 \in 1 .. SumPlaces
    BY <2>1, <2>2
  <2> QED
    BY <2>1, <2>2, <2>3, <1>0, <1>1, BuiltIs
<1>4. liste' \in {List!Null} \cup 1 .. used
  BY <1>0, <1>3 DEF ListShapes
<1>5. ListShapes' /\ List!TypeOK'
  <2>1. freed' \subseteq 1 .. used
    BY <1>0, <1>3 DEF List!TypeOK
  <2> QED
    BY <2>1, <1>0, <1>4 DEF ListShapes, List!TypeOK, Len1, Len2
<1>6. FrontAt(q + 1)'
  <2>1. \A p \in 1 .. q + 1 : EvenAt(p)
    <3>1. 1 .. q + 1 = (1 .. q) \cup {q + 1}
      BY <1>3
    <3> QED
      BY <3>1, <1>2, <1>3 DEF FrontAt
  <2>2. liste' = AtOrNull(q + 1 + 1)
    BY <1>0, <1>1, <1>3 DEF Linked
  <2>3. freed' = EvenNodes(q + 1)
    <3>1. q \in Nat
      BY <1>2, <1>3
    <3> QED
      BY <3>1, <1>0, <1>2, <1>3, EvenNodesGrow DEF FrontAt
  <2> QED
    BY <2>1, <2>2, <2>3, <1>0, ListStays DEF FrontAt
<1>7. FrontInv'
  <2>1. Built' /\ \A p \in 1 .. SumPlaces' : Linked(p)'
    BY <1>0, <1>1, ListStays DEF Built, Linked
  <2>2. q + 1 \in 0 .. SumPlaces'
    BY <1>0, <1>3, ListStays
  <2> QED
    BY <2>1, <2>2, <1>6 DEF FrontInv
<1> QED
  BY <1>0, <1>5, <1>7 DEF ListInv, DrawInv, AddInv, InsideInv, FreeInv, UndefInv

\* The front is odd, or there is none.
LEMMA ListFrontIsOdd ==
  ASSUME ListBounds, ListInv, List!FrontIsOdd
  PROVE  ListInv'
<1>0. /\ ListShapes /\ List!TypeOK /\ FrontInv /\ lipc = "front" /\ (liste # List!Null => ~ List!Even(liste))
      /\ UNCHANGED <<keeps, elem, next, used, freed, liste1, liste2, liste, given>>
      /\ liste = List!Null => lipc' = "free" /\ lauf' = lauf
      /\ liste # List!Null => lipc' = "inside" /\ lauf' = next[liste]
  BY DEF ListInv, List!FrontIsOdd, List!heap
<1>1. /\ Built /\ \A p \in 1 .. SumPlaces : Linked(p)
  BY <1>0 DEF FrontInv
<1>2. PICK q \in 0 .. SumPlaces : FrontAt(q)
  BY <1>0 DEF FrontInv
<1>3. /\ SumPlaces \in Nat /\ List!Summed \in Seq(Nat) /\ Len(List!Summed) = SumPlaces /\ q \in Nat
      /\ \A p \in 1 .. SumPlaces : NodeAt(p) # List!Null /\ NodeAt(p) \in 1 .. used /\ (List!Even(NodeAt(p)) <=> EvenAt(p))
  <2>1. SumPlaces \in Nat
    BY <1>0, <1>1, BuiltIs
  <2>2. q \in Nat
    BY <2>1, <1>2
  <2> QED
    BY <2>2, <1>0, <1>1, BuiltIs
<1>4. Built' /\ ListShapes'
  BY <1>0, <1>1, ListStays DEF Built, ListShapes, Len1, Len2
<1>5. CASE liste = List!Null
  <2>1. q = SumPlaces
    <3>1. q + 1 <= SumPlaces => q + 1 \in 1 .. SumPlaces
      BY <1>3
    <3> QED
      BY <3>1, <1>2, <1>3, <1>5 DEF FrontAt, AtOrNull
  <2>2. Len(OddPlaces) = 0
    <3>1. OddPlaces \in Seq(1 .. SumPlaces) /\ \A j \in 1 .. Len(OddPlaces) : FALSE
      BY <2>1, <1>2, <1>3, OddPlacesAre DEF FrontAt
    <3>2. Len(OddPlaces) \in Nat
      BY <3>1, LenProperties
    <3> QED
      BY <3>1, <3>2
  <2>3. OddsLinked /\ FreeAt(1)
    <3>1. OddNode(1) = List!Null
      BY <2>2 DEF OddNode
    <3>2. {OddNode(i0) : i0 \in 1 .. 1 - 1} = {} /\ 1 .. Len(OddPlaces) = {}
      BY <2>2
    <3> QED
      BY <3>1, <3>2, <2>1, <1>2, <1>5 DEF OddsLinked, FreeAt, FrontAt
  <2>4. FreeInv'
    <3>1. OddsLinked' /\ FreeAt(1)'
      BY <2>3, <1>0, ListStays DEF OddsLinked, FreeAt
    <3>2. 1 \in 1 .. Len(OddPlaces)' + 1
      BY <2>2, <1>0, ListStays
    <3> QED
      BY <3>1, <3>2, <1>4 DEF FreeInv
  <2>5. List!TypeOK'
    BY <1>0, <1>5 DEF List!TypeOK
  <2> QED
    BY <1>0, <1>4, <1>5, <2>4, <2>5 DEF ListInv, DrawInv, AddInv, InsideInv, FrontInv, UndefInv
<1>6. CASE liste # List!Null
  <2>1. q + 1 \in 1 .. SumPlaces /\ liste = NodeAt(q + 1) /\ liste \in 1 .. used /\ ~ EvenAt(q + 1)
    <3>1. q + 1 <= SumPlaces /\ liste = NodeAt(q + 1)
      BY <1>2, <1>6 DEF FrontAt, AtOrNull
    <3>2. q + 1 \in 1 .. SumPlaces
      BY <3>1, <1>3
    <3> QED
      BY <3>1, <3>2, <1>0, <1>3, <1>6
  <2>2. lauf' = AtOrNull(q + 1 + 1)
    BY <2>1, <1>0, <1>1, <1>6 DEF Linked
  <2>3. InsideAt(q, q + 2)'
    <3>1. /\ q + 2 - 1 = q + 1 /\ q + 1 + 1 = q + 2 /\ q + 1 .. q + 2 - 2 = {}
          /\ q + 1 .. SumPlaces \subseteq 1 .. SumPlaces
      BY <1>3
    <3>2. freed = EvenNodes(q + 1)
      BY <2>1, <1>2, <1>3, EvenNodesGrow DEF FrontAt
    <3>3. /\ (\A p \in 1 .. q : EvenAt(p)) /\ ~ EvenAt(q + 1)
          /\ liste1 = NodeAt(q + 1) /\ liste = NodeAt(q + 2 - 1) /\ lauf' = AtOrNull(q + 2)
          /\ freed = EvenNodes(q + 2 - 1)
          /\ \A p \in q + 2 - 1 .. SumPlaces : Linked(p)
          /\ \A p \in q + 1 .. q + 2 - 2 : FALSE
      BY <3>1, <3>2, <2>1, <2>2, <1>1, <1>2 DEF FrontAt
    <3> QED
      BY <3>3, <1>0, ListStays DEF InsideAt, Linked
  <2>4. InsideInv'
    <3>1. q \in 0 .. SumPlaces' - 1 /\ q + 2 \in q + 2 .. SumPlaces' + 1
      BY <2>1, <1>0, <1>3, ListStays
    <3> QED
      BY <3>1, <2>3, <1>4 DEF InsideInv
  <2>5. List!TypeOK'
    <3>1. lauf' \in {List!Null} \cup 1 .. used
      BY <2>1, <1>0, <1>6 DEF ListShapes
    <3> QED
      BY <3>1, <1>0, <1>6 DEF List!TypeOK
  <2> QED
    BY <1>0, <1>4, <1>6, <2>4, <2>5 DEF ListInv, DrawInv, AddInv, FreeInv, FrontInv, UndefInv
<1> QED
  BY <1>5, <1>6

\* clear goes on by one node inside the list.
LEMMA ListClearInside ==
  ASSUME ListBounds, ListInv, List!ClearInside
  PROVE  ListInv'
<1>0. /\ ListShapes /\ List!TypeOK /\ InsideInv /\ lipc = "inside" /\ lauf # List!Null
      /\ freed' = (IF List!Even(lauf) THEN freed \cup {lauf} ELSE freed)
      /\ next' = (IF List!Even(lauf) THEN [next EXCEPT ![liste] = next[lauf]] ELSE next)
      /\ liste' = lauf
      /\ lauf \in freed' /\ ~ keeps => lipc' = "undefined" /\ lauf' = lauf
      /\ ~ (lauf \in freed' /\ ~ keeps) => lauf' = next'[lauf] /\ lipc' = lipc
      /\ UNCHANGED <<keeps, elem, used, liste1, liste2, given>>
  BY DEF ListInv, List!ClearInside
<1>1. Built
  BY <1>0 DEF InsideInv
<1>2. PICK q \in 0 .. SumPlaces - 1 : \E m \in q + 2 .. SumPlaces + 1 : InsideAt(q, m)
  BY <1>0 DEF InsideInv
<1>3. PICK m \in q + 2 .. SumPlaces + 1 : InsideAt(q, m)
  BY <1>2
<1>4. /\ SumPlaces \in Nat /\ List!Summed \in Seq(Nat) /\ Len(List!Summed) = SumPlaces /\ used \in Nat /\ 1 .. used \subseteq List!Nodes
      /\ \A p \in 1 .. SumPlaces : NodeAt(p) # List!Null /\ NodeAt(p) \in 1 .. used /\ NodeAt(p) \in List!Nodes /\ (List!Even(NodeAt(p)) <=> EvenAt(p))
      /\ \A p, r \in 1 .. SumPlaces : NodeAt(p) = NodeAt(r) => p = r
  BY <1>0, <1>1, BuiltIs
<1>5. q \in Nat /\ m \in Nat /\ m \in q + 2 .. SumPlaces /\ m \in 1 .. SumPlaces /\ m - 1 \in 1 .. SumPlaces /\ m - 1 \in Nat
  <2>1. m <= SumPlaces
    BY <1>0, <1>3 DEF InsideAt, AtOrNull
  <2> QED
    BY <2>1, <1>2, <1>4
<1>6. lauf = NodeAt(m) /\ liste = NodeAt(m - 1) /\ lauf # liste
  <2>1. m # m - 1
    BY <1>5
  <2> QED
    BY <2>1, <1>3, <1>4, <1>5 DEF InsideAt, AtOrNull
<1>7. List!Even(lauf) <=> EvenAt(m)
  BY <1>4, <1>5, <1>6
<1>8. freed' = EvenNodes(m)
  <2>1. m - 1 + 1 = m
    BY <1>5
  <2> QED
    BY <2>1, <1>0, <1>3, <1>5, <1>6, <1>7, EvenNodesGrow DEF InsideAt
<1>9. lauf \in freed' <=> EvenAt(m)
  <2>1. lauf \in EvenNodes(m) => EvenAt(m)
    <3> SUFFICES ASSUME NEW p \in 1 .. m, EvenAt(p), NodeAt(m) = NodeAt(p) PROVE EvenAt(m)
      BY <1>6 DEF EvenNodes
    <3>1. p \in 1 .. SumPlaces
      BY <1>4, <1>5
    <3> QED
      BY <3>1, <1>4, <1>5
  <2> QED
    BY <2>1, <1>0, <1>7, <1>8
<1>10. /\ next' \in [List!Nodes -> {List!Null} \cup List!Nodes]
       /\ \A p \in 1 .. SumPlaces : next'[NodeAt(p)] = IF p = m - 1 /\ EvenAt(m) THEN next[lauf] ELSE next[NodeAt(p)]
       /\ \A x \in 1 .. used : next'[x] \in {List!Null} \cup 1 .. used
  <2>1. next \in [List!Nodes -> {List!Null} \cup List!Nodes] /\ liste \in 1 .. used /\ lauf \in 1 .. used /\ next[lauf] \in {List!Null} \cup 1 .. used
        /\ liste \in List!Nodes /\ lauf \in List!Nodes
    BY <1>0, <1>4, <1>5, <1>6 DEF ListShapes
  <2>2. CASE EvenAt(m)
    <3>1. next' = [next EXCEPT ![liste] = next[lauf]]
      BY <2>2, <1>0, <1>7
    <3>2. \A p \in 1 .. SumPlaces : NodeAt(p) = liste <=> p = m - 1
      BY <1>4, <1>5, <1>6
    <3>3. \A x \in List!Nodes : next'[x] = IF x = liste THEN next[lauf] ELSE next[x]
      BY <2>1, <3>1
    <3>4. next' \in [List!Nodes -> {List!Null} \cup List!Nodes]
      BY <2>1, <3>1
    <3>5. \A x \in 1 .. used : next[x] \in {List!Null} \cup 1 .. used
      BY <1>0 DEF ListShapes
    <3>6. \A x \in 1 .. used : next'[x] \in {List!Null} \cup 1 .. used
      BY <2>1, <3>3, <3>5, <1>4
    <3>7. \A p \in 1 .. SumPlaces : next'[NodeAt(p)] = IF p = m - 1 THEN next[lauf] ELSE next[NodeAt(p)]
      BY <3>2, <3>3, <1>4
    <3> QED
      BY <2>2, <3>4, <3>6, <3>7
  <2>3. CASE ~ EvenAt(m)
    <3>1. next' = next
      BY <2>3, <1>0, <1>7
    <3> QED
      BY <2>1, <2>3, <3>1, <1>0 DEF ListShapes
  <2> QED
    BY <2>2, <2>3
<1>11. next[lauf] = AtOrNull(m + 1) /\ next'[lauf] = AtOrNull(m + 1)
  <2>1. m \in m - 1 .. SumPlaces /\ m # m - 1
    BY <1>5
  <2>2. next[NodeAt(m)] = AtOrNull(m + 1)
    BY <2>1, <1>3 DEF InsideAt, Linked
  <2> QED
    BY <2>1, <2>2, <1>5, <1>6, <1>10
<1>12. ListShapes'
  BY <1>0, <1>10 DEF ListShapes, Len1, Len2
<1>13. List!TypeOK'
  <2>1. lauf \in 1 .. used
    BY <1>4, <1>5, <1>6
  <2>2. lauf' \in {List!Null} \cup 1 .. used
    BY <2>1, <1>0, <1>10
  <2>3. freed' \subseteq 1 .. used
    BY <2>1, <1>0 DEF List!TypeOK
  <2>4. lipc' \in {"inside", "undefined"}
    BY <1>0
  <2> QED
    BY <2>1, <2>2, <2>3, <2>4, <1>0 DEF List!TypeOK
<1>14. Built'
  BY <1>0, <1>1, ListStays DEF Built
<1>15. CASE lauf \in freed' /\ ~ keeps
  <2>1. m \in 2 .. SumPlaces /\ EvenAt(m)
    BY <1>5, <1>9, <1>15
  <2>2. UndefInv'
    BY <2>1, <1>0, <1>15, ListStays DEF UndefInv
  <2> QED
    BY <1>0, <1>12, <1>13, <1>15, <2>2 DEF ListInv, DrawInv, AddInv, FrontInv, InsideInv, FreeInv
<1>16. CASE ~ (lauf \in freed' /\ ~ keeps)
  <2>1. InsideAt(q, m + 1)'
    <3>1. m + 1 - 1 = m /\ m + 1 - 2 = m - 1 /\ m .. SumPlaces \subseteq 1 .. SumPlaces
      BY <1>5
    <3>2. \A p \in m .. SumPlaces : Linked(p)'
      <4> SUFFICES ASSUME NEW p \in m .. SumPlaces PROVE next'[NodeAt(p)] = AtOrNull(p + 1)
        BY <1>0, ListStays DEF Linked
      <4>1. p \in m - 1 .. SumPlaces /\ p \in 1 .. SumPlaces /\ p # m - 1
        BY <1>5
      <4> QED
        BY <4>1, <1>3, <1>10 DEF InsideAt, Linked
    <3>3. \A p \in q + 1 .. m - 1 : Passed(p)'
      <4> SUFFICES ASSUME NEW p \in q + 1 .. m - 1
                   PROVE  next'[NodeAt(p)] = IF EvenAt(p + 1) THEN AtOrNull(p + 2) ELSE AtOrNull(p + 1)
        BY <1>0, ListStays DEF Passed
      <4>0. p \in 1 .. SumPlaces
        BY <1>4, <1>5
      <4>1. CASE p = m - 1
        <5>1. p + 1 = m /\ p + 2 = m + 1 /\ p \in m - 1 .. SumPlaces
          BY <4>1, <1>5
        <5>2. next[NodeAt(p)] = AtOrNull(p + 1)
          BY <5>1, <1>3 DEF InsideAt, Linked
        <5> QED
          BY <4>0, <4>1, <5>1, <5>2, <1>10, <1>11
      <4>2. CASE p # m - 1
        <5>1. p \in q + 1 .. m - 2
          BY <4>2, <1>5
        <5> QED
          BY <4>0, <4>2, <5>1, <1>3, <1>10 DEF InsideAt, Passed
      <4> QED
        BY <4>1, <4>2
    <3>4. /\ (\A p \in 1 .. q : EvenAt(p)) /\ ~ EvenAt(q + 1) /\ liste1 = NodeAt(q + 1)
      BY <1>3 DEF InsideAt
    <3>5. lauf' = AtOrNull(m + 1)
      BY <1>0, <1>11, <1>16
    <3>6. /\ (\A p \in 1 .. q : EvenAt(p)') /\ ~ EvenAt(q + 1)' /\ liste1' = NodeAt(q + 1)'
          /\ liste' = NodeAt(m)' /\ lauf' = AtOrNull(m + 1)' /\ freed' = EvenNodes(m)'
          /\ \A p \in m .. SumPlaces' : Linked(p)'
      BY <3>2, <3>4, <3>5, <1>0, <1>6, <1>8, ListStays
    <3>7. InsideAt(q, m + 1)' <=>
            /\ (\A p \in 1 .. q : EvenAt(p)') /\ ~ EvenAt(q + 1)' /\ liste1' = NodeAt(q + 1)'
            /\ liste' = NodeAt(m + 1 - 1)' /\ lauf' = AtOrNull(m + 1)' /\ freed' = EvenNodes(m + 1 - 1)'
            /\ (\A p \in m + 1 - 1 .. SumPlaces' : Linked(p)')
            /\ \A p \in q + 1 .. m + 1 - 2 : Passed(p)'
      BY DEF InsideAt
    <3> QED
      BY <3>1, <3>3, <3>6, <3>7
  <2>2. InsideInv'
    <3>0. q \in 0 .. SumPlaces - 1 /\ m + 1 \in q + 2 .. SumPlaces + 1
      BY <1>2, <1>4, <1>5
    <3>1. q \in 0 .. SumPlaces' - 1 /\ m + 1 \in q + 2 .. SumPlaces' + 1
      BY <3>0, <1>0, ListStays
    <3> QED
      BY <2>1, <3>1, <1>14 DEF InsideInv
  <2> QED
    BY <1>0, <1>12, <1>13, <1>16, <2>2 DEF ListInv, DrawInv, AddInv, FrontInv, UndefInv, FreeInv
<1> QED
  BY <1>15, <1>16

\* The next odd number is the one after this, or the one after an even one.
LEMMA OddNext ==
  ASSUME ListBounds, ListShapes, List!TypeOK, Built, List!EvensApart, NEW j \in 1 .. Len(OddPlaces),
         LET p == OddPlaces[j] IN IF p < SumPlaces THEN Passed(p) ELSE Linked(p)
  PROVE  next[OddNode(j)] = OddNode(j + 1)
<1> DEFINE p == OddPlaces[j]
           l == Len(OddPlaces)
<1>1. /\ SumPlaces \in Nat /\ List!Summed \in Seq(Nat) /\ Len(List!Summed) = SumPlaces
      /\ OddPlaces \in Seq(1 .. SumPlaces) /\ l \in Nat
      /\ \A e : (\E i0 \in 1 .. l : OddPlaces[i0] = e) <=> e \in 1 .. SumPlaces /\ ~ EvenAt(e)
      /\ \A x, y \in 1 .. l : x < y => OddPlaces[x] < OddPlaces[y]
  <2>1. SumPlaces \in Nat /\ List!Summed \in Seq(Nat) /\ Len(List!Summed) = SumPlaces
    BY BuiltIs
  <2> QED
    BY <2>1, OddPlacesAre, LenProperties
<1> HIDE DEF l
<1>2. p \in 1 .. SumPlaces /\ ~ EvenAt(p) /\ p \in Nat /\ j \in 1 .. l /\ j \in Nat
  <2>1. p \in 1 .. SumPlaces /\ ~ EvenAt(p)
    BY <1>1 DEF l
  <2> QED
    BY <2>1, <1>1 DEF l
<1>3. OddNode(j) = NodeAt(p)
  BY <1>1, <1>2 DEF OddNode, l
<1>4. /\ p < SumPlaces => Passed(p)
      /\ ~ (p < SumPlaces) => Linked(p)
  OBVIOUS
<1>5. \A i0 \in 1 .. l : OddPlaces[i0] \in Nat /\ OddPlaces[i0] <= SumPlaces
  BY <1>1 DEF l
<1> HIDE DEF p
\* Whatever odd place follows directly, with none between, is the next one.
<1>6. ASSUME NEW r \in 1 .. SumPlaces, ~ EvenAt(r), p < r, \A x \in p + 1 .. r - 1 : EvenAt(x)
      PROVE  OddNode(j + 1) = NodeAt(r)
  <2>1. PICK i0 \in 1 .. l : OddPlaces[i0] = r
    BY <1>1, <1>6
  <2>2. i0 > j
    <3>1. ~ (i0 < j) /\ i0 # j
      <4>1. i0 < j => OddPlaces[i0] < OddPlaces[j]
        BY <2>1, <1>1, <1>2
      <4>2. i0 = j => OddPlaces[i0] = OddPlaces[j]
        OBVIOUS
      <4>3. OddPlaces[i0] = r /\ OddPlaces[j] = p /\ r \in Nat /\ p \in Nat /\ p < r
        BY <2>1, <1>1, <1>2, <1>6 DEF p
      <4> QED
        BY <4>1, <4>2, <4>3
    <3> QED
      BY <3>1, <1>1, <1>2
  <2>3. j + 1 \in 1 .. l /\ j + 1 \in Nat
    BY <2>2, <1>1, <1>2
  <2>4. i0 = j + 1
    <3>1. SUFFICES ASSUME i0 # j + 1 PROVE FALSE
      OBVIOUS
    <3>2. j + 1 < i0 /\ j < j + 1
      BY <2>2, <3>1, <1>1, <1>2
    <3>3. p < OddPlaces[j + 1] /\ OddPlaces[j + 1] < r
      BY <2>1, <2>3, <3>2, <1>1, <1>2 DEF p
    <3>4. OddPlaces[j + 1] \in p + 1 .. r - 1
      BY <2>3, <3>3, <1>2, <1>5
    <3>5. ~ EvenAt(OddPlaces[j + 1])
      BY <2>3, <1>1
    <3> QED
      BY <3>4, <3>5, <1>6
  <2> QED
    BY <2>1, <2>3, <2>4, <1>1 DEF OddNode, l
<1>7. ASSUME \A x \in p + 1 .. SumPlaces : EvenAt(x)
      PROVE  OddNode(j + 1) = List!Null
  <2>1. ~ (j + 1 <= l)
    <3>1. SUFFICES ASSUME j + 1 <= l PROVE FALSE
      OBVIOUS
    <3>2. j + 1 \in 1 .. l /\ j < j + 1
      BY <3>1, <1>1, <1>2
    <3>3. p < OddPlaces[j + 1] /\ ~ EvenAt(OddPlaces[j + 1]) /\ OddPlaces[j + 1] \in Nat /\ OddPlaces[j + 1] <= SumPlaces
      BY <3>2, <1>1, <1>2, <1>5 DEF p
    <3>4. OddPlaces[j + 1] \in p + 1 .. SumPlaces
      BY <3>3, <1>1, <1>2
    <3> QED
      BY <3>3, <3>4, <1>7
  <2> QED
    BY <2>1 DEF OddNode, l
<1>8. CASE p < SumPlaces /\ ~ EvenAt(p + 1)
  <2>1. p + 1 \in 1 .. SumPlaces /\ p + 1 .. p + 1 - 1 = {} /\ p < p + 1
    BY <1>1, <1>2, <1>8
  <2>2. next[NodeAt(p)] = NodeAt(p + 1)
    BY <2>1, <1>4, <1>8 DEF Passed, AtOrNull
  <2>3. OddNode(j + 1) = NodeAt(p + 1)
    BY <2>1, <1>6, <1>8
  <2> QED
    BY <2>2, <2>3, <1>3
<1>9. CASE p + 1 < SumPlaces /\ EvenAt(p + 1)
  <2>1. p + 2 \in 1 .. SumPlaces /\ (\A x \in p + 1 .. p + 2 - 1 : x = p + 1) /\ p < p + 2 /\ p < SumPlaces
        /\ p + 1 \in 2 .. Len(List!Summed) - 1 /\ p \in 1 .. p + 1 /\ p + 1 + 1 = p + 2
    BY <1>1, <1>2, <1>9
  <2>2. ~ EvenAt(p + 2)
    BY <2>1, <1>2, <1>9 DEF List!EvensApart, EvenAt
  <2>3. next[NodeAt(p)] = NodeAt(p + 2)
    BY <2>1, <1>4, <1>9 DEF Passed, AtOrNull
  <2>4. OddNode(j + 1) = NodeAt(p + 2)
    BY <2>1, <2>2, <1>6, <1>9
  <2> QED
    BY <2>3, <2>4, <1>3
<1>10. CASE p + 1 = SumPlaces /\ EvenAt(p + 1)
  <2>1. p < SumPlaces /\ ~ (p + 2 <= SumPlaces) /\ \A x \in p + 1 .. SumPlaces : x = p + 1
    BY <1>1, <1>2, <1>10
  <2>2. next[NodeAt(p)] = List!Null
    BY <2>1, <1>4, <1>10 DEF Passed, AtOrNull
  <2>3. OddNode(j + 1) = List!Null
    BY <2>1, <1>7, <1>10
  <2> QED
    BY <2>2, <2>3, <1>3
<1>11. CASE p = SumPlaces
  <2>1. ~ (p < SumPlaces) /\ ~ (p + 1 <= SumPlaces) /\ p + 1 .. SumPlaces = {}
    BY <1>1, <1>2, <1>11
  <2>2. next[NodeAt(p)] = List!Null
    BY <2>1, <1>4 DEF Linked, AtOrNull
  <2>3. OddNode(j + 1) = List!Null
    BY <2>1, <1>7
  <2> QED
    BY <2>2, <2>3, <1>3
<1>12. p = SumPlaces \/ p + 1 = SumPlaces \/ p + 1 < SumPlaces
  BY <1>1, <1>2
<1>13. (p + 1 = SumPlaces \/ p + 1 < SumPlaces) => p < SumPlaces
  BY <1>1, <1>2
<1> QED
  BY <1>8, <1>9, <1>10, <1>11, <1>12, <1>13

\* clear is done, and what is linked are the odd nodes.
LEMMA ListClearEnd ==
  ASSUME ListBounds, ListInv, List!ClearEnd
  PROVE  ListInv'
<1>0. /\ ListShapes /\ List!TypeOK /\ InsideInv /\ lipc = "inside" /\ lipc' = "free" /\ lauf = List!Null /\ liste' = liste1
      /\ UNCHANGED <<keeps, elem, next, used, freed, liste1, liste2, lauf, given>>
  BY DEF ListInv, List!ClearEnd, List!heap
<1>1. Built
  BY <1>0 DEF InsideInv
<1>2. PICK q \in 0 .. SumPlaces - 1 : \E m \in q + 2 .. SumPlaces + 1 : InsideAt(q, m)
  BY <1>0 DEF InsideInv
<1>3. PICK m \in q + 2 .. SumPlaces + 1 : InsideAt(q, m)
  BY <1>2
<1>4. /\ SumPlaces \in Nat /\ List!Summed \in Seq(Nat) /\ Len(List!Summed) = SumPlaces
      /\ \A p \in 1 .. SumPlaces : NodeAt(p) # List!Null
  BY <1>0, <1>1, BuiltIs
<1>5. q \in Nat /\ m = SumPlaces + 1 /\ q + 1 \in 1 .. SumPlaces
  <2>1. m <= SumPlaces => m \in 1 .. SumPlaces
    BY <1>2, <1>4
  <2> QED
    BY <2>1, <1>0, <1>2, <1>3, <1>4 DEF InsideAt, AtOrNull
<1>6. /\ m - 1 = SumPlaces /\ m - 2 = SumPlaces - 1
      /\ (\A p \in 1 .. q : EvenAt(p)) /\ ~ EvenAt(q + 1) /\ liste1 = NodeAt(q + 1)
      /\ freed = EvenNodes(SumPlaces) /\ (\A p \in SumPlaces .. SumPlaces : Linked(p))
      /\ \A p \in q + 1 .. SumPlaces - 1 : Passed(p)
  <2>1. m - 1 = SumPlaces /\ m - 2 = SumPlaces - 1
    BY <1>4, <1>5
  <2> QED
    BY <2>1, <1>3 DEF InsideAt
<1>7. ListShapes' /\ List!TypeOK' /\ Built'
  BY <1>0, <1>1, ListStays DEF ListShapes, List!TypeOK, Built, Len1, Len2
<1>8. /\ OddPlaces \in Seq(1 .. SumPlaces) /\ Len(OddPlaces) \in Nat
      /\ \A e : (\E j \in 1 .. Len(OddPlaces) : OddPlaces[j] = e) <=> e \in 1 .. SumPlaces /\ ~ EvenAt(e)
      /\ \A x, y \in 1 .. Len(OddPlaces) : x < y => OddPlaces[x] < OddPlaces[y]
  BY <1>4, OddPlacesAre, LenProperties
<1>9. ASSUME NEW j \in 1 .. Len(OddPlaces) PROVE OddPlaces[j] \in q + 1 .. SumPlaces
  <2>1. OddPlaces[j] \in 1 .. SumPlaces /\ ~ EvenAt(OddPlaces[j])
    BY <1>8
  <2> QED
    BY <2>1, <1>4, <1>5, <1>6
<1>10. 1 \in 1 .. Len(OddPlaces) /\ OddPlaces[1] = q + 1
  <2>1. PICK i0 \in 1 .. Len(OddPlaces) : OddPlaces[i0] = q + 1
    BY <1>5, <1>6, <1>8
  <2>2. 1 \in 1 .. Len(OddPlaces) /\ i0 \in Nat
    BY <1>8
  <2>3. OddPlaces[1] \in q + 1 .. SumPlaces
    BY <2>2, <1>9
  <2>4. i0 = 1
    <3>1. SUFFICES ASSUME 1 < i0 PROVE FALSE
      BY <2>2
    <3>2. OddPlaces[1] < q + 1
      BY <2>1, <2>2, <3>1, <1>8
    <3> QED
      BY <2>3, <3>2, <1>4, <1>5
  <2> QED
    BY <2>1, <2>2, <2>4
<1>11. OddNode(1) = NodeAt(q + 1)
  BY <1>8, <1>10 DEF OddNode
<1>12. ASSUME List!EvensApart PROVE OddsLinked
  <2>1. ASSUME NEW j \in 1 .. Len(OddPlaces) PROVE next[OddNode(j)] = OddNode(j + 1)
    <3>1. OddPlaces[j] \in q + 1 .. SumPlaces
      BY <1>9
    <3>2. OddPlaces[j] < SumPlaces => OddPlaces[j] \in q + 1 .. SumPlaces - 1
      BY <3>1, <1>4, <1>5
    <3>3. ~ (OddPlaces[j] < SumPlaces) => OddPlaces[j] \in SumPlaces .. SumPlaces
      BY <3>1, <1>4, <1>5
    <3>4. IF OddPlaces[j] < SumPlaces THEN Passed(OddPlaces[j]) ELSE Linked(OddPlaces[j])
      BY <3>2, <3>3, <1>6
    <3> QED
      BY <3>4, <1>0, <1>1, <1>12, OddNext
  <2> QED
    BY <2>1, <1>6, <1>11 DEF OddsLinked
<1>13. FreeAt(1)'
  <2>1. {OddNode(i0) : i0 \in 1 .. 1 - 1} = {}
    OBVIOUS
  <2>2. liste' = OddNode(1) /\ freed = EvenNodes(SumPlaces) \cup {OddNode(i0) : i0 \in 1 .. 1 - 1}
    BY <2>1, <1>0, <1>6, <1>11
  <2> QED
    BY <2>2, <1>0, ListStays DEF FreeAt
<1>14. FreeInv'
  <2>1. List!EvensApart' => OddsLinked'
    BY <1>0, <1>12, ListStays DEF OddsLinked
  <2>2. 1 \in 1 .. Len(OddPlaces)' + 1
    BY <1>0, <1>8, ListStays
  <2> QED
    BY <2>1, <2>2, <1>7, <1>13 DEF FreeInv
<1> QED
  BY <1>0, <1>7, <1>14 DEF ListInv, DrawInv, AddInv, FrontInv, InsideInv, UndefInv

\* freigabe frees a node of the list.
LEMMA ListFreigabe ==
  ASSUME ListBounds, ListInv, List!freigabe
  PROVE  ListInv'
<1>0. /\ ListShapes /\ List!TypeOK /\ FreeInv /\ lipc = "free" /\ lipc' = lipc /\ liste # List!Null
      /\ freed' = freed \cup {liste} /\ liste' = next[liste]
      /\ UNCHANGED <<keeps, elem, next, used, liste1, liste2, lauf, given>>
  BY DEF ListInv, List!freigabe
<1>1. Built
  BY <1>0 DEF FreeInv
<1>2. liste \in 1 .. used /\ liste' \in {List!Null} \cup 1 .. used
  BY <1>0 DEF ListShapes, List!TypeOK
<1>3. ListShapes' /\ List!TypeOK' /\ Built'
  <2>1. freed' \subseteq 1 .. used
    BY <1>0, <1>2 DEF List!TypeOK
  <2> QED
    BY <2>1, <1>0, <1>1, <1>2, ListStays DEF ListShapes, List!TypeOK, Built, Len1, Len2
<1>4. ASSUME List!EvensApart PROVE OddsLinked /\ \E j \in 1 .. Len(OddPlaces) + 1 : FreeAt(j)'
  <2>1. OddsLinked
    BY <1>0, <1>4 DEF FreeInv
  <2>2. PICK j \in 1 .. Len(OddPlaces) + 1 : FreeAt(j)
    BY <1>0, <1>4 DEF FreeInv
  <2>3. Len(OddPlaces) \in Nat
    <3>1. SumPlaces \in Nat /\ List!Summed \in Seq(Nat) /\ Len(List!Summed) = SumPlaces
      BY <1>0, <1>1, BuiltIs
    <3> QED
      BY <3>1, OddPlacesAre, LenProperties
  <2>4. j \in 1 .. Len(OddPlaces)
    BY <2>2, <2>3, <1>0 DEF FreeAt, OddNode
  <2>5. 1 .. j + 1 - 1 = (1 .. j - 1) \cup {j}
    BY <2>3, <2>4
  <2>6. liste = OddNode(j) /\ freed = EvenNodes(SumPlaces) \cup {OddNode(i0) : i0 \in 1 .. j - 1}
    BY <2>2 DEF FreeAt
  <2>7. liste' = OddNode(j + 1) /\ freed' = EvenNodes(SumPlaces) \cup {OddNode(i0) : i0 \in 1 .. j + 1 - 1}
    BY <2>1, <2>4, <2>5, <2>6, <1>0 DEF OddsLinked
  <2>8. FreeAt(j + 1)'
    BY <2>7, <1>0, ListStays DEF FreeAt
  <2>9. j + 1 \in 1 .. Len(OddPlaces) + 1
    BY <2>3, <2>4
  <2> QED
    BY <2>1, <2>8, <2>9
<1>5. FreeInv'
  <2>1. List!EvensApart' => OddsLinked' /\ \E j \in 1 .. Len(OddPlaces)' + 1 : FreeAt(j)'
    BY <1>0, <1>4, ListStays DEF OddsLinked
  <2> QED
    BY <2>1, <1>3 DEF FreeInv
<1> QED
  BY <1>0, <1>3, <1>5 DEF ListInv, DrawInv, AddInv, FrontInv, InsideInv, UndefInv

\* A node that was freed already is freed again: not if no two even numbers
\* follow each other.
LEMMA ListFreeTwice ==
  ASSUME ListBounds, ListInv, List!FreeTwice
  PROVE  ListInv'
<1>0. /\ ListShapes /\ List!TypeOK /\ FreeInv /\ lipc = "free" /\ lipc' = "undefined" /\ liste # List!Null /\ liste \in freed
      /\ UNCHANGED <<keeps, elem, next, used, freed, liste1, liste2, liste, lauf, given>>
  BY DEF ListInv, List!FreeTwice, List!Undefined, List!heap
<1>1. Built
  BY <1>0 DEF FreeInv
<1>2. /\ SumPlaces \in Nat /\ List!Summed \in Seq(Nat) /\ Len(List!Summed) = SumPlaces
      /\ \A p, r \in 1 .. SumPlaces : NodeAt(p) = NodeAt(r) => p = r
  BY <1>0, <1>1, BuiltIs
<1>3. /\ OddPlaces \in Seq(1 .. SumPlaces) /\ Len(OddPlaces) \in Nat
      /\ \A e : (\E j \in 1 .. Len(OddPlaces) : OddPlaces[j] = e) <=> e \in 1 .. SumPlaces /\ ~ EvenAt(e)
      /\ \A x, y \in 1 .. Len(OddPlaces) : x < y => OddPlaces[x] < OddPlaces[y]
  BY <1>2, OddPlacesAre, LenProperties
<1>4. ~ List!EvensApart
  <2>1. SUFFICES ASSUME List!EvensApart PROVE FALSE
    OBVIOUS
  <2>2. PICK j \in 1 .. Len(OddPlaces) + 1 : FreeAt(j)
    BY <2>1, <1>0 DEF FreeInv
  <2>3. j \in 1 .. Len(OddPlaces) /\ liste = NodeAt(OddPlaces[j])
    BY <2>2, <1>0, <1>3 DEF FreeAt, OddNode
  <2>4. OddPlaces[j] \in 1 .. SumPlaces /\ ~ EvenAt(OddPlaces[j])
    BY <2>3, <1>3
  <2>5. CASE liste \in EvenNodes(SumPlaces)
    <3>1. PICK p \in 1 .. SumPlaces : EvenAt(p) /\ liste = NodeAt(p)
      BY <2>5 DEF EvenNodes
    <3> QED
      BY <2>3, <2>4, <3>1, <1>2
  <2>6. CASE \E i0 \in 1 .. j - 1 : liste = OddNode(i0)
    <3>1. PICK i0 \in 1 .. j - 1 : liste = OddNode(i0)
      BY <2>6
    <3>2. i0 \in 1 .. Len(OddPlaces) /\ i0 < j
      BY <2>3, <3>1, <1>3
    <3>3. liste = NodeAt(OddPlaces[i0])
      BY <3>1, <3>2, <1>3 DEF OddNode
    <3>4. OddPlaces[i0] \in 1 .. SumPlaces /\ OddPlaces[i0] < OddPlaces[j]
      BY <2>3, <3>2, <1>3
    <3>5. OddPlaces[i0] = OddPlaces[j]
      BY <2>3, <2>4, <3>3, <3>4, <1>2
    <3>6. OddPlaces[j] \in Nat /\ OddPlaces[j] < OddPlaces[j]
      BY <2>4, <3>4, <3>5, <1>2
    <3> QED
      BY <3>6
  <2> QED
    BY <2>2, <2>5, <2>6, <1>0 DEF FreeAt
<1>5. PICK m \in 2 .. Len(List!Summed) - 1 : EvenAt(m)
  BY <1>4 DEF List!EvensApart, EvenAt
<1>6. m \in 2 .. SumPlaces
  BY <1>2, <1>5
<1>7. UndefInv'
  BY <1>0, <1>4, <1>5, <1>6, ListStays DEF UndefInv
<1>8. ListShapes' /\ List!TypeOK'
  BY <1>0 DEF ListShapes, List!TypeOK, Len1, Len2
<1> QED
  BY <1>0, <1>7, <1>8 DEF ListInv, DrawInv, AddInv, FrontInv, InsideInv, FreeInv

\* freigabe is done.
LEMMA ListEnd ==
  ASSUME ListBounds, ListInv, List!End
  PROVE  ListInv'
<1>0. /\ ListShapes /\ List!TypeOK /\ lipc = "free" /\ lipc' = "done"
      /\ UNCHANGED <<keeps, elem, next, used, freed, liste1, liste2, liste, lauf, given>>
  BY DEF ListInv, List!End, List!heap
<1>1. ListShapes' /\ List!TypeOK'
  BY <1>0 DEF ListShapes, List!TypeOK, Len1, Len2
<1> QED
  BY <1>0, <1>1 DEF ListInv, DrawInv, AddInv, FrontInv, InsideInv, FreeInv, UndefInv

\* Every step of listen.c keeps the invariant.
LEMMA ListNext ==
  ASSUME ListBounds, ListInv, List!Next
  PROVE  ListInv'
  BY ListDraw1, ListZero1, ListDraw2, ListVerkettung, ListAddTwo, ListAddToOne, ListAddEnd, ListClearFront,
     ListFrontIsOdd, ListClearInside, ListClearEnd, ListFreigabe, ListFreeTwice, ListEnd
     DEF List!Next, List!Draw, List!Run

\* What is said of listen.c follows.
LEMMA ListHolds ==
  ASSUME ListBounds, ListInv
  PROVE  List!TypeOK /\ List!ListIsSummed /\ List!OddsAreLeft
<1>0. ListShapes /\ List!TypeOK
  BY DEF ListInv
\* The list from x on, when it is the nodes at some places in their order.
<1>1. ASSUME Built, NEW w \in Seq(1 .. SumPlaces), Len(w) <= SumPlaces, NEW x,
             x = (IF Len(w) = 0 THEN List!Null ELSE NodeAt(w[1])),
             \A k \in 1 .. Len(w) : next[NodeAt(w[k])] = IF k < Len(w) THEN NodeAt(w[k + 1]) ELSE List!Null
      PROVE  List!Contents(x) = [k \in 1 .. Len(w) |-> List!Summed[w[k]]]
  <2> DEFINE v == [k \in 1 .. Len(w) |-> NodeAt(w[k])]
  <2>1. /\ SumPlaces \in Nat /\ SumPlaces <= used + 1 /\ used \in Nat
        /\ \A p \in 1 .. SumPlaces : NodeAt(p) \in List!Nodes /\ elem[NodeAt(p)] = List!Summed[p]
    BY <1>0, <1>1, BuiltIs
  <2>2. Len(w) \in Nat /\ \A k \in 1 .. Len(w) : w[k] \in 1 .. SumPlaces
    <3>1. w \in Seq(1 .. SumPlaces)
      BY <1>1
    <3> QED
      BY <3>1, LenProperties
  <2>3. v \in Seq(List!Nodes) /\ Len(v) = Len(w) /\ DOMAIN v = 1 .. Len(w) /\ \A k \in 1 .. Len(w) : v[k] = NodeAt(w[k])
    BY <2>1, <2>2
  <2> HIDE DEF v
  <2>4. x = IF Len(v) = 0 THEN List!Null ELSE v[1]
    BY <2>2, <2>3, <1>1
  <2>5. \A k \in 1 .. Len(v) : next[v[k]] = IF k < Len(v) THEN v[k + 1] ELSE List!Null
    <3>1. \A k \in 1 .. Len(w) : k < Len(w) => k + 1 \in 1 .. Len(w)
      BY <2>2
    <3> QED
      BY <3>1, <2>3, <1>1
  <2>6. List!Null \notin List!Nodes
    BY DEF List!Null, List!Nodes, ListBounds
  <2>7. Len(v) \in 0 .. used + 1
    BY <2>1, <2>2, <2>3, <1>1
  <2>8. List!NodesFrom(x) = v
    BY <2>1, <2>3, <2>4, <2>5, <2>6, <2>7, WalkIs
  <2>9. \A k \in 1 .. Len(w) : elem[v[k]] = List!Summed[w[k]]
    BY <2>1, <2>2, <2>3
  <2> QED
    BY <2>3, <2>8, <2>9 DEF List!Contents
<1>2. ASSUME lipc = "front", freed = {} PROVE List!Contents(liste1) = List!Summed /\ Both % 3 # 1
  <2>0. FrontInv
    BY DEF ListInv
  <2>1. Built /\ \A p \in 1 .. SumPlaces : Linked(p)
    BY <2>0, <1>2 DEF FrontInv
  <2>2. PICK q \in 0 .. SumPlaces : FrontAt(q)
    BY <2>0, <1>2 DEF FrontInv
  <2>3. SumPlaces \in Nat /\ Both % 3 # 1 /\ List!Summed \in Seq(Nat) /\ Len(List!Summed) = SumPlaces
    BY <1>0, <2>1, BuiltIs
  <2>4. q = 0
    <3>1. SUFFICES ASSUME 1 \in 1 .. q PROVE FALSE
      BY <2>2, <2>3
    <3>2. NodeAt(1) \in EvenNodes(q)
      BY <2>2, <3>1 DEF FrontAt, EvenNodes
    <3> QED
      BY <2>2, <3>2, <1>2 DEF FrontAt
  <2>5. liste1 = AtOrNull(1)
    BY <2>2, <2>4 DEF FrontAt
  <2> DEFINE w == [k \in 1 .. SumPlaces |-> k]
  <2>6. w \in Seq(1 .. SumPlaces) /\ Len(w) = SumPlaces /\ \A k \in 1 .. SumPlaces : w[k] = k
    BY <2>3
  <2> HIDE DEF w
  <2>7. liste1 = IF Len(w) = 0 THEN List!Null ELSE NodeAt(w[1])
    BY <2>3, <2>5, <2>6 DEF AtOrNull
  <2>8. ASSUME NEW k \in 1 .. Len(w) PROVE next[NodeAt(w[k])] = IF k < Len(w) THEN NodeAt(w[k + 1]) ELSE List!Null
    <3>1. k \in 1 .. SumPlaces /\ w[k] = k /\ (k < SumPlaces => w[k + 1] = k + 1) /\ (k < SumPlaces <=> k + 1 <= SumPlaces)
      BY <2>3, <2>6
    <3> QED
      BY <3>1, <2>1, <2>6 DEF Linked, AtOrNull
  <2>9. Len(w) <= SumPlaces
    BY <2>3, <2>6
  <2>10. List!Contents(liste1) = [k \in 1 .. Len(w) |-> List!Summed[w[k]]]
    BY <2>1, <2>6, <2>7, <2>8, <2>9, <1>1
  <2>11. [k \in 1 .. Len(w) |-> List!Summed[w[k]]] = List!Summed
    BY <2>3, <2>6
  <2> QED
    BY <2>3, <2>10, <2>11
<1>3. List!ListIsSummed
  <2>1. Len(List!Joined) = Both
    BY <1>0, JoinedIs
  <2>2. lipc = "undefined" => Both % 3 = 1 \/ \E m \in 2 .. Len(List!Summed) : List!Summed[m] % 2 = 0
    BY DEF ListInv, UndefInv, EvenAt, SumPlaces
  <2> QED
    BY <2>1, <2>2, <1>2 DEF List!ListIsSummed
<1>4. ASSUME lipc = "free", List!EvensApart PROVE List!Contents(liste1) = Chosen(List!Summed, {e \in Int : e % 2 = 1})
  <2> DEFINE Odd == {e \in Int : e % 2 = 1}
             w == OddPlaces
  <2>0. Built /\ OddsLinked
    BY <1>4 DEF ListInv, FreeInv
  <2>1. SumPlaces \in Nat /\ List!Summed \in Seq(Nat) /\ Len(List!Summed) = SumPlaces
    BY <1>0, <2>0, BuiltIs
  <2> HIDE DEF Odd
  <2>2. w = Chosen([m \in 1 .. Len(List!Summed) |-> m], {m \in 1 .. Len(List!Summed) : List!Summed[m] \in Odd})
    BY DEF OddPlaces, Odd, SumPlaces
  <2>3. Chosen(List!Summed, Odd) = [k \in DOMAIN w |-> List!Summed[w[k]]]
    <3>1. Len(List!Summed) \in Nat
      BY <2>1
    <3> HIDE DEF w
    <3> QED
      BY <2>2, <3>1, ChosenPlaces
  <2>4. w \in Seq(1 .. SumPlaces) /\ Len(w) \in Nat /\ DOMAIN w = 1 .. Len(w)
    BY <2>1, OddPlacesAre, LenProperties
  <2>5. Len(w) <= SumPlaces
    <3> DEFINE id == [m \in 1 .. Len(List!Summed) |-> m]
    <3>1. id \in Seq(1 .. SumPlaces) /\ Len(id) = SumPlaces
      BY <2>1
    <3> HIDE DEF w, id
    <3>2. Len(Chosen(id, {m \in 1 .. Len(List!Summed) : List!Summed[m] \in Odd})) <= Len(id)
      BY <3>1, ChosenIs
    <3> QED
      BY <2>2, <3>1, <3>2 DEF id
  <2>6. liste1 = IF Len(w) = 0 THEN List!Null ELSE NodeAt(w[1])
    BY <2>0, <2>4 DEF OddsLinked, OddNode
  <2>7. ASSUME NEW k \in 1 .. Len(w) PROVE next[NodeAt(w[k])] = IF k < Len(w) THEN NodeAt(w[k + 1]) ELSE List!Null
    <3>1. OddNode(k) = NodeAt(w[k]) /\ OddNode(k + 1) = IF k < Len(w) THEN NodeAt(w[k + 1]) ELSE List!Null
      BY <2>4 DEF OddNode
    <3> QED
      BY <3>1, <2>0 DEF OddsLinked
  <2> HIDE DEF w
  <2>8. List!Contents(liste1) = [k \in 1 .. Len(w) |-> List!Summed[w[k]]]
    BY <2>0, <2>4, <2>5, <2>6, <2>7, <1>1
  <2> QED
    BY <2>3, <2>4, <2>8 DEF Odd
<1>5. List!OddsAreLeft
  <2>1. SUFFICES ASSUME List!EvensApart, lipc \in {"free", "done"} \/ (lipc = "undefined" /\ keeps /\ freed # {})
                 PROVE  lipc # "undefined" /\ (lipc = "free" => List!Contents(liste1) = Chosen(List!Summed, {e \in Int : e % 2 = 1}))
    BY ListChosen DEF List!OddsAreLeft
  <2>2. lipc # "undefined"
    BY <2>1 DEF ListInv, UndefInv
  <2> QED
    BY <2>1, <2>2, <1>4
<1> QED
  BY <1>0, <1>3, <1>5

-----------------------------------------------------------------------------
(* The ten programs together                                               *)

\* The bounds of the instance are those that the lemmas ask for.
LEMMA AllBounds ==
  /\ PoolBounds /\ RecvBounds /\ PollBounds /\ SyncBounds /\ PrimeBounds
  /\ StreamBounds /\ PassBounds /\ SemBounds /\ RelBounds /\ ListBounds
  BY ProcessBounds DEF PoolBounds, RecvBounds, PollBounds, SyncBounds, PrimeBounds,
     StreamBounds, PassBounds, SemBounds, RelBounds, ListBounds

\* Nothing that a program knows changes when it takes no step.
LEMMA PipeStays == ASSUME PipeInv, UNCHANGED Pool!vars PROVE PipeInv'
  BY DEF PipeInv, Pool!AllIsRead, Pool!vars, Pool!senderVars

\* The same of ueb8.
LEMMA PrimeStays == ASSUME PrimeInv, UNCHANGED Prime!vars PROVE PrimeInv'
<1>1. Prime!TypeOK'
  BY DEF PrimeInv, Prime!TypeOK, Prime!Gone, Prime!Signals, Prime!Sigsets, Prime!vars
<1>2. CountedInv'
  BY DEF PrimeInv, CountedInv, PrimesTo, Prime!Gone, Prime!vars
<1>3. SigsetInv'
  BY DEF PrimeInv, SigsetInv, Prime!vars
<1> QED
  BY <1>1, <1>2, <1>3 DEF PrimeInv

\* The same of u2.
LEMMA StreamStays == ASSUME StreamInv, UNCHANGED Streams!vars PROVE StreamInv'
<1>0. UNCHANGED <<tpc, tsent, pipe, trpc, text, sender, stored, accepted, stray>>
  BY DEF Streams!vars, Streams!sendVars, Streams!recvVars
<1>1. StreamShapes'
  BY <1>0 DEF StreamInv, StreamShapes
<1>2. \A s \in TwoSenders : SenderInv(s)'
  BY <1>0 DEF StreamInv, SenderInv, From, Has, Once, Last, LinesIn, Streams!Reading
<1>3. CounterInv'
  BY <1>0 DEF StreamInv, CounterInv, LiveAccepted, LostHangups, From, Streams!Writers, Streams!Reading
<1> QED
  BY <1>1, <1>2, <1>3 DEF StreamInv

\* The same of u5.
LEMMA PassStays == ASSUME PassInv, UNCHANGED Pass!vars PROVE PassInv'
  BY DEF PassInv, PassShapes, ClientInv, ServerInv, Pass!Gone, Pass!vars, Pass!clientVars, Pass!serverVars

\* The same of binRel.c.
LEMMA RelStays == ASSUME RelInv, UNCHANGED Rel!vars PROVE RelInv'
<1>0. UNCHANGED <<rpc, n, Rmat, Smat, Rli, Sli, Rar, Sar, round>>
  BY DEF Rel!vars
<1>1. /\ Rel!Nodes' = Rel!Nodes /\ Doubled' = Doubled /\ Rel!MatZuLi(Rmat)' = Rel!MatZuLi(Rmat)
      /\ Rel!MatZuAr(Rmat)' = Rel!MatZuAr(Rmat) /\ Rel!MatZuLi(Smat)' = Rel!MatZuLi(Smat)
      /\ Rel!MatZuAr(Smat)' = Rel!MatZuAr(Smat)
  BY <1>0 DEF Rel!Nodes, Doubled, Rel!MatZuLi, Rel!MatZuAr, Rel!Fields
<1>2. RelShapes'
  BY <1>0, <1>1 DEF RelInv, RelShapes
<1>3. RoundsInv => RoundsInv'
  BY <1>0, <1>1 DEF RoundsInv, Rel!Linked
<1> QED
  BY <1>0, <1>2, <1>3 DEF RelInv

\* The same of listen.c.
LEMMA ListRests == ASSUME ListInv, UNCHANGED List!vars PROVE ListInv'
<1>0. UNCHANGED <<lipc, keeps, elem, next, used, freed, liste1, liste2, liste, lauf, given>>
  BY DEF List!vars, List!heap
<1>1. /\ Both' = Both /\ Len1' = Len1 /\ Len2' = Len2 /\ SumPlaces' = SumPlaces
      /\ OddPlaces' = OddPlaces /\ List!Summed' = List!Summed /\ List!EvensApart' = List!EvensApart
      /\ \A p : /\ NodeAt(p)' = NodeAt(p) /\ EvenAt(p)' = EvenAt(p) /\ AtOrNull(p)' = AtOrNull(p)
                /\ EvenNodes(p)' = EvenNodes(p) /\ OddNode(p)' = OddNode(p)
  BY <1>0, ListStays
<1>2. DrawnElems' = DrawnElems /\ Built' = Built /\ OddsLinked' = OddsLinked
      /\ \A p : (Linked(p)' <=> Linked(p)) /\ (Passed(p)' <=> Passed(p)) /\ (FreeAt(p)' <=> FreeAt(p))
                /\ (FrontAt(p)' <=> FrontAt(p))
  <2>1. DrawnElems' = DrawnElems /\ Built' = Built /\ OddsLinked' = OddsLinked
    BY <1>0, <1>1 DEF DrawnElems, Built, OddsLinked
  <2>2. \A p : (Linked(p)' <=> Linked(p)) /\ (Passed(p)' <=> Passed(p))
    BY <1>0, <1>1 DEF Linked, Passed
  <2>3. \A p : FreeAt(p)' <=> FreeAt(p)
    BY <1>0, <1>1 DEF FreeAt
  <2>4. \A p : FrontAt(p)' <=> FrontAt(p)
    BY <1>0, <1>1 DEF FrontAt
  <2> QED
    BY <2>1, <2>2, <2>3, <2>4
<1>3. ListShapes' /\ List!TypeOK'
  BY <1>0, <1>1 DEF ListInv, ListShapes, List!TypeOK, List!Nodes, List!Null
<1>4. DrawInv'
  BY <1>0, <1>1, <1>2 DEF ListInv, DrawInv, List!Nodes, List!Null
<1>5. AddInv'
  <2>1. ASSUME lipc = "addtwo" PROVE \E t \in Nat : Rounds(t)'
    <3>1. PICK t \in Nat : Rounds(t)
      BY <2>1 DEF ListInv, AddInv
    <3>2. (\A p : Pos(p)' = Pos(p)) /\ Top(t)' = Top(t) /\ \A p : NodeIn(t, p)' = NodeIn(t, p)
      BY <1>1 DEF Pos, Top, NodeIn
    <3>3. Rounds(t)'
      BY <1>0, <1>1, <1>2, <3>1, <3>2 DEF Rounds, Chain, Sums
    <3> QED
      BY <3>3
  <2> QED
    BY <1>0, <2>1 DEF AddInv
<1>6. FrontInv'
  BY <1>0, <1>1, <1>2 DEF ListInv, FrontInv
<1>7. InsideInv'
  <2>1. ASSUME lipc = "inside"
        PROVE  \E q \in 0 .. SumPlaces - 1 : \E m \in q + 2 .. SumPlaces + 1 : InsideAt(q, m)'
    <3>0. PICK q \in 0 .. SumPlaces - 1 : \E m \in q + 2 .. SumPlaces + 1 : InsideAt(q, m)
      BY <2>1 DEF ListInv, InsideInv
    <3>1. PICK m \in q + 2 .. SumPlaces + 1 : InsideAt(q, m)
      BY <3>0
    <3>2. InsideAt(q, m)'
      BY <1>0, <1>1, <1>2, <3>1 DEF InsideAt
    <3> QED
      BY <3>2
  <2>2. lipc = "inside" => Built'
    BY <1>2 DEF ListInv, InsideInv
  <2>3. SumPlaces' = SumPlaces /\ lipc' = lipc
    BY <1>0, <1>1
  <2> QED
    BY <2>1, <2>2, <2>3 DEF InsideInv
<1>8. FreeInv'
  BY <1>0, <1>1, <1>2 DEF ListInv, FreeInv
<1>9. UndefInv'
  BY <1>0, <1>1 DEF ListInv, UndefInv
<1> QED
  BY <1>3, <1>4, <1>5, <1>6, <1>7, <1>8, <1>9 DEF ListInv

\* The program that runs keeps its inductive invariant; the others are not started.
ProgramInv ==
  /\ program \in {"ueb12", "ueb13", "ueb11", "ueb9", "ueb8", "u2", "u5", "sema", "binRel", "listen"}
  /\ program = "ueb12"  => PoolTypesInv /\ PipeInv
  /\ program = "ueb13"  => RecvInv
  /\ program = "ueb11"  => PollInv
  /\ program = "ueb9"   => SyncInv
  /\ program = "ueb8"   => PrimeInv
  /\ program = "u2"     => StreamInv
  /\ program = "u5"     => PassInv
  /\ program = "sema"   => SemInv
  /\ program = "binRel" => RelInv
  /\ program = "listen" => ListInv

\* Nobody has a pipe of ueb12 when nobody was started.
LEMMA PipeAtInit == ASSUME PoolBounds, Pool!Init PROVE PipeInv
  BY DEF Pool!Init, PipeInv, Pool!AllIsRead

\* It holds at the beginning.
LEMMA ProgramInit == Init => ProgramInv
<1> SUFFICES ASSUME Init PROVE ProgramInv
  OBVIOUS
<1>1. program \in {"ueb12", "ueb13", "ueb11", "ueb9", "ueb8", "u2", "u5", "sema", "binRel", "listen"}
  BY ProcessBounds DEF Init
<1>2. PoolTypesInv /\ PipeInv
  BY AllBounds, PoolInit, PipeAtInit DEF Init
<1>3. RecvInv /\ PollInv /\ SyncInv /\ PrimeInv
  BY AllBounds, RecvInit, PollInit, SyncInit, PrimeInit DEF Init
<1>4. StreamInv /\ PassInv /\ SemInv
  BY AllBounds, StreamInit, PassInit, SemInit DEF Init
<1>5. RelInv /\ ListInv
  BY AllBounds, RelInit, ListInit DEF Init
<1> QED
  BY <1>1, <1>2, <1>3, <1>4, <1>5 DEF ProgramInv

\* A step of the instance is one of the program that runs, or none.
LEMMA OneProgram ==
  ASSUME [Next]_vars
  PROVE  /\ program' = program
         /\ program = "ueb12"  => Pool!Next \/ UNCHANGED Pool!vars
         /\ program = "ueb13"  => Recv!Next \/ UNCHANGED Recv!vars
         /\ program = "ueb11"  => Poll!Next \/ UNCHANGED Poll!vars
         /\ program = "ueb9"   => Sync!Next \/ UNCHANGED Sync!vars
         /\ program = "ueb8"   => Prime!Next \/ UNCHANGED Prime!vars
         /\ program = "u2"     => Streams!Next \/ UNCHANGED Streams!vars
         /\ program = "u5"     => Pass!Next \/ UNCHANGED Pass!vars
         /\ program = "sema"   => Sem!Next \/ UNCHANGED Sem!vars
         /\ program = "binRel" => Rel!Next \/ UNCHANGED Rel!vars
         /\ program = "listen" => List!Next \/ UNCHANGED List!vars
<1>1. CASE UNCHANGED vars
  <2>1. UNCHANGED <<program, bsysVars, bsys2Vars, cprogVars>>
    BY <1>1 DEF vars
  <2>2. UNCHANGED <<Pool!vars, Recv!vars, Poll!vars, Sync!vars, Prime!vars>>
    BY <2>1 DEF bsysVars, poolVars, recvVars, pollVars, syncVars, primeVars,
       Pool!vars, Pool!senderVars, Recv!vars, Recv!senderVars, Poll!vars, Poll!childVars, Sync!vars, Prime!vars
  <2>3. UNCHANGED <<Streams!vars, Pass!vars, Sem!vars>>
    BY <2>1 DEF bsys2Vars, streamVars, passVars, semVars, Streams!vars, Streams!sendVars, Streams!recvVars,
       Pass!vars, Pass!clientVars, Pass!serverVars, Sem!vars
  <2>4. UNCHANGED <<Rel!vars, List!vars>>
    BY <2>1 DEF cprogVars, relVars, listVars, Rel!vars, List!vars, List!heap
  <2> QED
    BY <2>1, <2>2, <2>3, <2>4
<1>2. CASE Next
  <2>1. program' = program /\ (Bsys \/ Bsys2 \/ CProg)
    BY <1>2 DEF Next
  <2> QED
    BY <2>1 DEF Bsys, Bsys2, CProg
<1> QED
  BY <1>1, <1>2

\* Every step keeps it.
LEMMA ProgramNext == ProgramInv /\ [Next]_vars => ProgramInv'
<1> SUFFICES ASSUME ProgramInv, [Next]_vars PROVE ProgramInv'
  OBVIOUS
<1>0. program' = program
  BY OneProgram
<1>1. program = "ueb12" => PoolTypesInv' /\ PipeInv'
  BY OneProgram, AllBounds, PoolInductive, PipeStep, PipeStays DEF ProgramInv
<1>2. program = "ueb13" => RecvInv'
  BY OneProgram, AllBounds, RecvNext DEF ProgramInv
<1>3. program = "ueb11" => PollInv'
  BY OneProgram, AllBounds, PollNext DEF ProgramInv
<1>4. program = "ueb9" => SyncInv'
  BY OneProgram, AllBounds, SyncNext DEF ProgramInv
<1>5. program = "ueb8" => PrimeInv'
  BY OneProgram, AllBounds, PrimeNext, PrimeStays DEF ProgramInv
<1>6. program = "u2" => StreamInv'
  BY OneProgram, AllBounds, StreamNext, StreamStays DEF ProgramInv
<1>7. program = "u5" => PassInv'
  BY OneProgram, AllBounds, PassNext, PassStays DEF ProgramInv
<1>8. program = "sema" => SemInv'
  BY OneProgram, AllBounds, SemNext DEF ProgramInv
<1>9. program = "binRel" => RelInv'
  BY OneProgram, AllBounds, RelNext, RelStays DEF ProgramInv
<1>10. program = "listen" => ListInv'
  BY OneProgram, AllBounds, ListNext, ListRests DEF ProgramInv
<1> QED
  BY <1>0, <1>1, <1>2, <1>3, <1>4, <1>5, <1>6, <1>7, <1>8, <1>9, <1>10 DEF ProgramInv

\* So it holds in every state.
LEMMA ProgramAlways == Spec => []ProgramInv
  BY ProgramInit, ProgramNext, PTL DEF Spec

\* The state of every program keeps its types: no slot of ueb12 holds the pid
\* of a process that was never forked, the tables of the receiver of ueb13 do
\* not outgrow the pipes, no pointer of listen.c leaves the nodes.
THEOREM ProcessTypes == Spec => []TypeOK
<1>1. ProgramInv => TypeOK
  <2> SUFFICES ASSUME ProgramInv PROVE TypeOK
    OBVIOUS
  <2>1. CASE program = "ueb12"
    BY <2>1, AllBounds, PoolHolds DEF ProgramInv, TypeOK
  <2>2. CASE program = "ueb13"
    BY <2>2, AllBounds, RecvHolds DEF ProgramInv, TypeOK
  <2>3. CASE program = "ueb11"
    BY <2>3, AllBounds, PollHolds DEF ProgramInv, TypeOK
  <2>4. CASE program = "ueb9"
    BY <2>4 DEF ProgramInv, TypeOK, SyncInv
  <2>5. CASE program = "ueb8"
    BY <2>5, AllBounds, PrimeHolds DEF ProgramInv, TypeOK
  <2>6. CASE program = "u2"
    BY <2>6, AllBounds, StreamHolds DEF ProgramInv, TypeOK
  <2>7. CASE program = "u5"
    BY <2>7, AllBounds, PassHolds DEF ProgramInv, TypeOK
  <2>8. CASE program = "sema"
    BY <2>8, AllBounds, SemHolds DEF ProgramInv, TypeOK
  <2>9. CASE program = "binRel"
    BY <2>9, AllBounds, RelHolds DEF ProgramInv, TypeOK
  <2>10. CASE program = "listen"
    BY <2>10, AllBounds, ListHolds DEF ProgramInv, TypeOK
  <2> QED
    BY <2>1, <2>2, <2>3, <2>4, <2>5, <2>6, <2>7, <2>8, <2>9, <2>10 DEF ProgramInv
<1> QED
  BY <1>1, ProgramAlways, PTL

\* A pipe of ueb12 never has two children, and the receiver does not end before
\* its children, however many pipes, senders and kills there are and though
\* waitpid clears the slots of children that were not the one it was asked for.
THEOREM OnePipeOneChild == Spec => []OneChildPerPipe
<1>1. ProgramInv => OneChildPerPipe
  BY AllBounds, PoolHolds DEF ProgramInv, OneChildPerPipe
<1> QED
  BY <1>1, ProgramAlways, PTL

\* A child of ueb12 removes its pipe only when everything that was written to it
\* has been read and nobody writes to it any more.
THEOREM PipeIsReadBeforeRemoved == Spec => []RemovedIsRead
<1>1. ProgramInv => RemovedIsRead
  BY DEF ProgramInv, RemovedIsRead, PipeInv
<1> QED
  BY <1>1, ProgramAlways, PTL

\* When the receiver of ueb13 has closed a pipe, what is left in it and who still
\* writes to it came after the read that found its end: nothing of an earlier
\* sender is lost, however many share the pipe.
THEOREM PipeIsReadBeforeClosed == Spec => []ClosedIsRead
<1>1. ProgramInv => ClosedIsRead
  BY AllBounds, RecvHolds DEF ProgramInv, ClosedIsRead
<1> QED
  BY <1>1, ProgramAlways, PTL

\* While its parent is there only the child of ueb11 that it waits for has the
\* terminal, though the questions, the answers and the end of a child cross.
THEOREM TerminalBelongsToTheAsked == Spec => []TerminalIsOwned
<1>1. ProgramInv => TerminalIsOwned
  BY AllBounds, PollHolds DEF ProgramInv, TerminalIsOwned
<1> QED
  BY <1>1, ProgramAlways, PTL

\* The parent of ueb11 leaves its loop with no answer left unread.
THEOREM AnswersReadBeforeEnd == Spec => []AnswersAreRead
<1>1. ProgramInv => AnswersAreRead
  BY AllBounds, PollHolds DEF ProgramInv, AnswersAreRead
<1> QED
  BY <1>1, ProgramAlways, PTL

\* Child 1 of ueb9 is not killed by the signal it waits for, whenever it comes,
\* and shows the complete file.
THEOREM FileShownComplete == Spec => []FileIsShown
<1>1. ProgramInv => FileIsShown
  BY DEF ProgramInv, FileIsShown, SyncInv
<1> QED
  BY <1>1, ProgramAlways, PTL

\* The count ueb8 prints is that of all primes up to the bound however often
\* SIGUSR2 made it begin again, and no signal kills a child with its handlers set.
THEOREM PrimesCounted == Spec => []PrimesAreCounted
<1>1. ProgramInv => PrimesAreCounted
  BY AllBounds, PrimeHolds DEF ProgramInv, PrimesAreCounted
<1> QED
  BY <1>1, ProgramAlways, PTL

\* While a sender of u2 that was accepted is alive the receiver has not counted
\* it as gone, however the hangups of others arrive (stray ones apart).
THEOREM SenderIsCounted == Spec => []NobodyUncounted
<1>1. ProgramInv => NobodyUncounted
  BY AllBounds, StreamHolds DEF ProgramInv, NobodyUncounted
<1> QED
  BY <1>1, ProgramAlways, PTL

\* The receiver of u2 stops when nothing that an accepted sender wrote is left in
\* the pipe (stray hangups apart).
THEOREM StreamsReadBeforeEnd == Spec => []StreamsAreRead
<1>1. ProgramInv => StreamsAreRead
  BY AllBounds, StreamHolds DEF ProgramInv, StreamsAreRead
<1> QED
  BY <1>1, ProgramAlways, PTL

\* A client of u5 prints the file it asked for, though a server opens whatever
\* name is in its buffer and other clients and kills come between.
THEOREM FileIsTheClients == Spec => []OwnFile
<1>1. ProgramInv => OwnFile
  BY AllBounds, PassHolds DEF ProgramInv, OwnFile
<1> QED
  BY <1>1, ProgramAlways, PTL

\* A semaphore of sema1 or sema2 that was not removed is held by one process.
THEOREM SemaphoreExcludes == Spec => []Exclusion
<1>1. ProgramInv => Exclusion
  BY AllBounds, SemHolds DEF ProgramInv, Exclusion
<1> QED
  BY <1>1, ProgramAlways, PTL

\* S of binRel.c links only what R links, for every n and every R, and is the
\* whole closure as long as n is at most 3.
THEOREM ClosureLinks == Spec => []ClosureIsLinked
<1>1. ProgramInv => ClosureIsLinked
  BY AllBounds, RelHolds DEF ProgramInv, ClosureIsLinked
<1> QED
  BY <1>1, ProgramAlways, PTL

\* Matrix, list and array of binRel.c hold the same pairs for every relation.
THEOREM FormsHoldTheSame == Spec => []FormsAgree
<1>1. ProgramInv => FormsAgree
  BY AllBounds, RelHolds DEF ProgramInv, FormsAgree
<1> QED
  BY <1>1, ProgramAlways, PTL

\* addtwo of listen.c turns every pair of lists into the list of sums that
\* Summed gives, until it meets its undefined step.
THEOREM ListSummed == Spec => []ListIsSummed
<1>1. ProgramInv => ListIsSummed
  BY AllBounds, ListHolds DEF ProgramInv, ListIsSummed
<1> QED
  BY <1>1, ProgramAlways, PTL

\* When no two even sums are neighbours after the first odd one, the deletion of
\* listen.c leaves the odd sums in their order.
THEOREM OddSumsStay == Spec => []OddsAreLeft
<1>1. ProgramInv => OddsAreLeft
  BY AllBounds, ListHolds DEF ProgramInv, OddsAreLeft
<1> QED
  BY <1>1, ProgramAlways, PTL

-----------------------------------------------------------------------------
(* What the configuration checks of all programs at once.                  *)

\* In none of the ten programs is anybody or anything taken for another, for
\* any number of processes, pipes, kills and signals and any size of the data.
THEOREM NobodyIsMixedUp == Spec => []NoMixUp
<1>1. /\ OneChildPerPipe /\ TerminalIsOwned
      /\ NobodyUncounted /\ OwnFile /\ Exclusion
      /\ ClosureIsLinked /\ OddsAreLeft
      => NoMixUp
  BY DEF NoMixUp
<1> QED
  BY <1>1, OnePipeOneChild, TerminalBelongsToTheAsked, SenderIsCounted, FileIsTheClients,
     SemaphoreExcludes, ClosureLinks, OddSumsStay, PTL

\* None of the ten programs ends or goes on without what it was sent or given,
\* for any number of processes, pipes, kills and signals and any size of the data.
THEOREM EverythingIsRead == Spec => []AllIsRead
<1>1. /\ RemovedIsRead /\ ClosedIsRead /\ AnswersAreRead
      /\ FileIsShown /\ PrimesAreCounted /\ StreamsAreRead
      /\ FormsAgree /\ ListIsSummed
      => AllIsRead
  BY DEF AllIsRead
<1> QED
  BY <1>1, PipeIsReadBeforeRemoved, PipeIsReadBeforeClosed, AnswersReadBeforeEnd,
     FileShownComplete, PrimesCounted, StreamsReadBeforeEnd, FormsHoldTheSame, ListSummed, PTL
=============================================================================
