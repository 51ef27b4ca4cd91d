------------------------- MODULE TextLines_proofs -------------------------
(***************************************************************************)
(* Facts about texts of any length: what the recursive definitions of      *)
(* TextLines.tla, and FlattenSeq, come to.  The library's theorems of      *)
(* induction have operators as parameters; here they are derived, for      *)
(* sets and functions, from the one that has none: that of a minimal       *)
(* element of a well-founded relation.                                     *)
(***************************************************************************)
EXTENDS TextLines, TLAPS, SequenceTheorems, WellFoundedInduction

(* A set of numbers that is not empty has a least one.                     *)
LEMMA LeastNumber ==
  ASSUME NEW T, T \subseteq Nat, T # {}
  PROVE  \E n \in T : \A m \in T : n <= m
<1> DEFINE R == {ss \in Nat \X Nat : ss[1] < ss[2]}
<1>1. IsWellFoundedOn(R, Nat)
  BY NatLessThanWellFounded DEF OpToRel
<1>2. \A m, n \in Nat : <<m, n>> \in R <=> m < n
  OBVIOUS
<1> HIDE DEF R
<1>3. PICK n \in T : \A m \in T : <<m, n>> \notin R
  BY <1>1, WFMin
<1>4. \A m \in T : m \in Nat /\ n \in Nat /\ ~(m < n)
  BY <1>2, <1>3
<1> QED
  BY <1>4

LEMMA MinIs ==
  ASSUME NEW T, T \subseteq Nat, T # {}
  PROVE  Min(T) \in T /\ \A m \in T : Min(T) <= m
<1>1. \E n \in T : \A m \in T : n <= m
  BY LeastNumber
<1> QED
  BY <1>1 DEF Min

LEMMA MaxIs ==
  ASSUME NEW n \in Nat, NEW T, T \subseteq 0 .. n, T # {}
  PROVE  Max(T) \in T /\ \A m \in T : m <= Max(T)
<1> DEFINE D == {n - m : m \in T}
<1>1. D \subseteq Nat /\ D # {}
  <2>1. PICK x : x \in T
    OBVIOUS
  <2>2. n - x \in D
    BY <2>1
  <2>3. \A m \in T : m \in 0 .. n
    OBVIOUS
  <2>4. \A m \in T : n - m \in Nat
    BY ONLY <2>3, n \in Nat
  <2> QED
    BY <2>2, <2>4
<1>2. \E d \in D : \A k \in D : d <= k
  BY ONLY <1>1, LeastNumber
<1>3. PICK m \in T : \A k \in T : n - m <= n - k
  BY <1>2
<1>4. \A k \in T : m >= k
  BY <1>3
<1>5. \E x \in T : \A y \in T : x >= y
  BY <1>4
<1>6. Max(T) \in T /\ \A y \in T : Max(T) >= y
  BY <1>5 DEF Max
<1> QED
  BY <1>6

(* A set that has 0, and with every number the next, has all of them.      *)
LEMMA SetInduction ==
  ASSUME NEW S, 0 \in S, \A n \in Nat : n \in S => n + 1 \in S
  PROVE  \A n \in Nat : n \in S
<1> DEFINE T == {n \in Nat : n \notin S}
<1>1. SUFFICES ASSUME T # {} PROVE FALSE
  OBVIOUS
<1>2. T \subseteq Nat
  OBVIOUS
<1>3. PICK n \in T : \A m \in T : n <= m
  <2> HIDE DEF T
  <2> QED
    BY <1>1, <1>2, LeastNumber
<1>4. n \in Nat /\ n \notin S /\ n # 0
  OBVIOUS
<1>5. n - 1 \in Nat /\ ~(n <= n - 1) /\ (n - 1) + 1 = n
  BY <1>4
<1>6. n - 1 \in S
  BY <1>3, <1>5
<1> QED
  BY <1>4, <1>5, <1>6

(* The first n values of a recursion: start at x, and go on by g.          *)
Recurs(f, n, x, g) ==
  /\ f[0] = x
  /\ \A k \in 0 .. n - 1 : f[k + 1] = g[k][f[k]]

(* Two of them agree as far as both go. *)
LEMMA RecursionUnique ==
  ASSUME NEW x, NEW g, NEW m \in Nat, NEW n \in Nat, m <= n,
         NEW f, NEW h, Recurs(f, m, x, g), Recurs(h, n, x, g)
  PROVE  f[m] = h[m]
<1> DEFINE S == {k \in Nat : k <= m => f[k] = h[k]}
<1>1. 0 \in S
  BY DEF Recurs
<1>2. ASSUME NEW k \in Nat, k \in S
      PROVE  k + 1 \in S
  <2> SUFFICES ASSUME k + 1 <= m PROVE f[k + 1] = h[k + 1]
    OBVIOUS
  <2>1. k \in 0 .. m - 1 /\ k \in 0 .. n - 1 /\ k <= m
    OBVIOUS
  <2>2. f[k] = h[k]
    BY <1>2, <2>1
  <2> QED
    BY <2>1, <2>2 DEF Recurs
<1> HIDE DEF S
<1>3. m \in S
  BY <1>1, <1>2, SetInduction
<1> QED
  BY <1>3 DEF S

(* What a recursion defines exists. *)
LEMMA RecursionExists ==
  ASSUME NEW X, NEW x \in X, NEW g \in [Nat -> [X -> X]]
  PROVE  \E f \in [Nat -> X] : \A n \in Nat : Recurs(f, n, x, g)
<1> DEFINE S == {n \in Nat : \E f \in [0 .. n -> X] : Recurs(f, n, x, g)}
<1>1. 0 \in S
  <2> DEFINE f == [k \in 0 .. 0 |-> x]
  <2>1. f \in [0 .. 0 -> X] /\ Recurs(f, 0, x, g)
    BY DEF Recurs
  <2> QED
    BY <2>1
<1>2. ASSUME NEW n \in Nat, n \in S
      PROVE  n + 1 \in S
  <2>1. PICK f \in [0 .. n -> X] : Recurs(f, n, x, g)
    BY <1>2
  <2> DEFINE h == [k \in 0 .. n + 1 |-> IF k = n + 1 THEN g[n][f[n]] ELSE f[k]]
  <2>2. g[n][f[n]] \in X
    OBVIOUS
  <2>3. h \in [0 .. n + 1 -> X]
    BY <2>2
  <2>4. h[0] = x
    BY <2>1 DEF Recurs
  <2>5. ASSUME NEW k \in 0 .. (n + 1) - 1
        PROVE  h[k + 1] = g[k][h[k]]
    <3>1. h[k] = f[k] /\ k \in 0 .. n
      OBVIOUS
    <3>2. CASE k = n
      BY <3>1, <3>2
    <3>3. CASE k # n
      <4>1. k \in 0 .. n - 1 /\ h[k + 1] = f[k + 1]
        BY <3>3
      <4> QED
        BY <2>1, <3>1, <4>1 DEF Recurs
    <3> QED
      BY <3>2, <3>3
  <2>6. Recurs(h, n + 1, x, g)
    BY <2>4, <2>5 DEF Recurs
  <2> QED
    BY <2>3, <2>6
<1> HIDE DEF S
<1>3. \A n \in Nat : n \in S
  BY <1>1, <1>2, SetInduction
<1>4. \A n \in Nat : \E f \in [0 .. n -> X] : Recurs(f, n, x, g)
  BY <1>3 DEF S
<1> DEFINE F(n) == CHOOSE f \in [0 .. n -> X] : Recurs(f, n, x, g)
           h == [n \in Nat |-> F(n)[n]]
<1>5. \A n \in Nat : F(n) \in [0 .. n -> X] /\ Recurs(F(n), n, x, g)
  BY <1>4
<1> HIDE DEF F
<1>6. h \in [Nat -> X]
  BY <1>5
<1>7. h[0] = x
  BY <1>5 DEF Recurs
<1>8. ASSUME NEW k \in Nat
      PROVE  h[k + 1] = g[k][h[k]]
  <2>1. h[k + 1] = F(k + 1)[k + 1] /\ h[k] = F(k)[k]
    OBVIOUS
  <2>2. F(k + 1)[k + 1] = g[k][F(k + 1)[k]]
    BY <1>5 DEF Recurs
  <2>3. F(k)[k] = F(k + 1)[k]
    BY <1>5, RecursionUnique
  <2> QED
    BY <2>1, <2>2, <2>3
<1> HIDE DEF h
<1>9. \A n \in Nat : Recurs(h, n, x, g)
  BY <1>7, <1>8 DEF Recurs
<1> QED
  BY <1>6, <1>9

-----------------------------------------------------------------------------
(* The recursion of InOrder. *)
LEMMA InOrderRecursion ==
  ASSUME NEW P
  PROVE  /\ InOrder(P, 0) = << >>
         /\ \A n \in Nat :
              /\ InOrder(P, n) \in Seq(Nat)
              /\ InOrder(P, n + 1) =
                   IF n + 1 \in P THEN Append(InOrder(P, n), n + 1) ELSE InOrder(P, n)
<1> DEFINE g == [k \in Nat |-> [x \in Seq(Nat) |-> IF k + 1 \in P THEN Append(x, k + 1) ELSE x]]
           D(f) == [k \in Nat |->
                      IF k = 0 THEN << >>
                      ELSE IF k \in P THEN Append(f[k - 1], k) ELSE f[k - 1]]
           upTo == CHOOSE f : f = [k \in Nat |->
                                     IF k = 0 THEN << >>
                                     ELSE IF k \in P THEN Append(f[k - 1], k) ELSE f[k - 1]]
<1>1. \A k \in Nat, x \in Seq(Nat) : Append(x, k + 1) \in Seq(Nat)
  OBVIOUS
<1>2. g \in [Nat -> [Seq(Nat) -> Seq(Nat)]] /\ << >> \in Seq(Nat)
  BY <1>1
<1>3. \A k \in Nat, x \in Seq(Nat) : g[k][x] = IF k + 1 \in P THEN Append(x, k + 1) ELSE x
  OBVIOUS
<1> HIDE DEF g
<1>4. PICK f \in [Nat -> Seq(Nat)] : \A n \in Nat : Recurs(f, n, << >>, g)
  BY <1>2, RecursionExists
<1>5. f[0] = << >>
  BY <1>4 DEF Recurs
<1>6. \A k \in Nat : f[k + 1] = IF k + 1 \in P THEN Append(f[k], k + 1) ELSE f[k]
  <2> SUFFICES ASSUME NEW k \in Nat
               PROVE  f[k + 1] = IF k + 1 \in P THEN Append(f[k], k + 1) ELSE f[k]
    OBVIOUS
  <2>1. Recurs(f, k + 1, << >>, g) /\ k \in 0 .. (k + 1) - 1
    BY <1>4
  <2>2. f[k + 1] = g[k][f[k]] /\ f[k] \in Seq(Nat)
    BY <2>1 DEF Recurs
  <2> QED
    BY <1>3, <2>2
<1>7. f = D(f)
  <2>1. ASSUME NEW k \in Nat
        PROVE  f[k] = D(f)[k]
    <3>1. CASE k = 0
      BY <1>5, <3>1
    <3>2. CASE k # 0
      <4>1. k - 1 \in Nat /\ (k - 1) + 1 = k
        BY <3>2
      <4>2. f[k] = IF k \in P THEN Append(f[k - 1], k) ELSE f[k - 1]
        BY <1>6, <4>1
      <4> QED
        BY <3>2, <4>2
    <3> QED
      BY <3>1, <3>2
  <2> QED
    BY <2>1
<1>8. upTo = D(upTo)
  BY <1>7
<1>9. \A n \in Nat : InOrder(P, n) = upTo[n]
  BY DEF InOrder
<1> HIDE DEF upTo
<1>10. upTo[0] = << >>
  BY <1>8
<1>11. \A n \in Nat : upTo[n + 1] = IF n + 1 \in P THEN Append(upTo[n], n + 1) ELSE upTo[n]
  <2> SUFFICES ASSUME NEW n \in Nat
               PROVE  upTo[n + 1] = IF n + 1 \in P THEN Append(upTo[n], n + 1) ELSE upTo[n]
    OBVIOUS
  <2>1. n + 1 \in Nat /\ n + 1 # 0 /\ (n + 1) - 1 = n
    OBVIOUS
  <2> QED
    BY <1>8, <2>1
<1> DEFINE S == {n \in Nat : upTo[n] \in Seq(Nat)}
<1>12. 0 \in S
  BY <1>2, <1>10
<1>13. ASSUME NEW n \in Nat, n \in S
       PROVE  n + 1 \in S
  <2>1. upTo[n] \in Seq(Nat)
    BY <1>13
  <2>2. upTo[n + 1] \in Seq(Nat)
    BY <1>1, <1>11, <2>1
  <2> QED
    BY <2>2
<1> HIDE DEF S
<1>14. \A n \in Nat : n \in S
  BY <1>12, <1>13, SetInduction
<1>15. \A n \in Nat : upTo[n] \in Seq(Nat)
  BY <1>14 DEF S
<1>16. InOrder(P, 0) = << >>
  BY <1>9, <1>10
<1>17. \A n \in Nat : InOrder(P, n) \in Seq(Nat)
  BY <1>9, <1>15
<1>18. \A n \in Nat :
         InOrder(P, n + 1) =
           IF n + 1 \in P THEN Append(InOrder(P, n), n + 1) ELSE InOrder(P, n)
  <2> SUFFICES ASSUME NEW n \in Nat
               PROVE  InOrder(P, n + 1) =
                        IF n + 1 \in P THEN Append(InOrder(P, n), n + 1) ELSE InOrder(P, n)
    OBVIOUS
  <2>1. InOrder(P, n + 1) = upTo[n + 1] /\ InOrder(P, n) = upTo[n]
    BY <1>9
  <2> QED
    BY <1>11, <2>1
<1> QED
  BY <1>16, <1>17, <1>18

(* Numbers that are not in P add nothing. *)
LEMMA InOrderSkip ==
  ASSUME NEW P, NEW m \in Nat, NEW n \in Nat, m <= n, \A p \in m + 1 .. n : p \notin P
  PROVE  InOrder(P, n) = InOrder(P, m)
<1> DEFINE S == {k \in Nat : m <= k /\ k <= n => InOrder(P, k) = InOrder(P, m)}
<1>1. 0 \in S
  OBVIOUS
<1>2. ASSUME NEW k \in Nat, k \in S
      PROVE  k + 1 \in S
  <2> SUFFICES ASSUME m <= k + 1, k + 1 <= n
               PROVE  InOrder(P, k + 1) = InOrder(P, m)
    OBVIOUS
  <2>1. CASE k + 1 = m
    BY <2>1
  <2>2. CASE k + 1 # m
    <3>1. k + 1 \in m + 1 .. n /\ m <= k /\ k <= n
      BY <2>2
    <3>2. InOrder(P, k) = InOrder(P, m)
      BY <1>2, <3>1
    <3>3. k + 1 \notin P
      BY <3>1
    <3> QED
      BY <3>2, <3>3, InOrderRecursion
  <2> QED
    BY <2>1, <2>2
<1> HIDE DEF S
<1>3. n \in S
  BY <1>1, <1>2, SetInduction
<1> QED
  BY <1>3 DEF S

(* A function on 1 .. n is a sequence. *)
LEMMA FunctionIsSeq ==
  ASSUME NEW S, NEW n \in Nat, NEW f \in [1 .. n -> S]
  PROVE  f \in Seq(S) /\ Len(f) = n
<1>1. f \in Seq(S)
  BY SeqDef
<1>2. DOMAIN f = 1 .. n /\ DOMAIN f = 1 .. Len(f) /\ Len(f) \in Nat
  BY <1>1, LenProperties
<1> QED
  BY <1>1, <1>2

LEMMA LinesEndedFirst ==
  ASSUME NEW t, NEW P
  PROVE  LinesEnded(t, P, 0) = << >> /\ LastIn(P, 0) = 0
<1>1. InOrder(P, 0) = << >> /\ DOMAIN InOrder(P, 0) = {}
  BY InOrderRecursion
<1> QED
  BY <1>1 DEF LinesEnded, LastIn

(* A terminator that ends at n, the next one after m, ends one more line.  *)
LEMMA LinesEndedNext ==
  ASSUME NEW t, NEW P, NEW m \in Nat, NEW n \in Nat, m < n,
         \A p \in m + 1 .. n - 1 : p \notin P, n \in P
  PROVE  /\ LinesEnded(t, P, n) =
              Append(LinesEnded(t, P, m),
                     SubSeq(t, LastIn(P, m) + 1, n - TerminatorLength(t, n)))
         /\ LastIn(P, n) = n
<1> DEFINE E == InOrder(P, m)
           F == InOrder(P, n)
           line == SubSeq(t, LastIn(P, m) + 1, n - TerminatorLength(t, n))
           old == LinesEnded(t, P, m)
           new == LinesEnded(t, P, n)
<1>1. E \in Seq(Nat) /\ F = Append(E, n)
  <2>1. n - 1 \in Nat /\ (n - 1) + 1 = n /\ m <= n - 1
    OBVIOUS
  <2>2. InOrder(P, n - 1) = E
    BY <2>1, InOrderSkip
  <2> QED
    BY <2>1, <2>2, InOrderRecursion
<1>2. /\ Len(E) \in Nat /\ Len(F) = Len(E) + 1 /\ F \in Seq(Nat)
      /\ DOMAIN E = 1 .. Len(E) /\ DOMAIN F = 1 .. Len(E) + 1
      /\ \A k \in 1 .. Len(E) : F[k] = E[k]
      /\ F[Len(E) + 1] = n /\ F # << >>
  BY <1>1, AppendProperties, LenProperties
<1>3. LastIn(P, n) = n
  BY <1>2 DEF LastIn, Last
<1>4. LastIn(P, m) = IF Len(E) = 0 THEN 0 ELSE E[Len(E)]
  BY <1>1, EmptySeq DEF LastIn, Last
<1> HIDE DEF E, F
<1>5. old = [k \in 1 .. Len(E) |->
              SubSeq(t, (IF k = 1 THEN 0 ELSE E[k - 1]) + 1, E[k] - TerminatorLength(t, E[k]))]
  BY <1>2 DEF LinesEnded, E
<1>6. new = [k \in 1 .. Len(E) + 1 |->
              SubSeq(t, (IF k = 1 THEN 0 ELSE F[k - 1]) + 1, F[k] - TerminatorLength(t, F[k]))]
  BY <1>2 DEF LinesEnded, F
<1> DEFINE S == {old[k] : k \in 1 .. Len(E)} \cup {line}
<1>7. old \in [1 .. Len(E) -> S] /\ line \in S
  BY <1>5
<1> HIDE DEF old, new, line, S
<1>8. old \in Seq(S) /\ Len(old) = Len(E)
  BY <1>2, <1>7, FunctionIsSeq
<1>9. \A k \in 1 .. Len(E) : new[k] = old[k]
  <2> SUFFICES ASSUME NEW k \in 1 .. Len(E)
               PROVE  new[k] = old[k]
    OBVIOUS
  <2>1. F[k] = E[k] /\ k \in 1 .. Len(E) + 1
    BY <1>2
  <2>2. k # 1 => F[k - 1] = E[k - 1]
    BY <1>2
  <2>3. (IF k = 1 THEN 0 ELSE F[k - 1]) = IF k = 1 THEN 0 ELSE E[k - 1]
    BY <2>2
  <2>4. old[k] = SubSeq(t, (IF k = 1 THEN 0 ELSE E[k - 1]) + 1, E[k] - TerminatorLength(t, E[k]))
    BY <1>5
  <2>5. new[k] = SubSeq(t, (IF k = 1 THEN 0 ELSE F[k - 1]) + 1, F[k] - TerminatorLength(t, F[k]))
    BY <1>6, <2>1
  <2> QED
    BY ONLY <2>1, <2>3, <2>4, <2>5
<1>10. new[Len(E) + 1] = line
  <2>1. (IF Len(E) + 1 = 1 THEN 0 ELSE F[Len(E) + 1 - 1]) = LastIn(P, m)
    BY <1>2, <1>4
  <2>2. F[Len(E) + 1] = n /\ Len(E) + 1 \in 1 .. Len(E) + 1
    BY <1>2
  <2>3. new[Len(E) + 1] =
          SubSeq(t, (IF Len(E) + 1 = 1 THEN 0 ELSE F[Len(E) + 1 - 1]) + 1,
                 F[Len(E) + 1] - TerminatorLength(t, F[Len(E) + 1]))
    <3>1. \A k \in 1 .. Len(E) + 1 :
            new[k] = SubSeq(t, (IF k = 1 THEN 0 ELSE F[k - 1]) + 1,
                            F[k] - TerminatorLength(t, F[k]))
      BY <1>6
    <3> QED
      BY ONLY <2>2, <3>1
  <2> QED
    BY ONLY <2>1, <2>2, <2>3 DEF line
<1>11. new \in [1 .. Len(E) + 1 -> S]
  <2>1. DOMAIN new = 1 .. Len(E) + 1 /\ new = [k \in 1 .. Len(E) + 1 |-> new[k]]
    BY <1>6
  <2>2. ASSUME NEW k \in 1 .. Len(E) + 1
        PROVE  new[k] \in S
    <3>1. k \in 1 .. Len(E) \/ k = Len(E) + 1
      BY <1>2
    <3> QED
      BY <1>7, <1>9, <1>10, <3>1
  <2> QED
    BY <2>1, <2>2
<1>12. new \in Seq(S) /\ Len(new) = Len(E) + 1
  <2>1. Len(E) + 1 \in Nat
    BY ONLY <1>2
  <2> DEFINE n1 == Len(E) + 1
  <2>2. n1 \in Nat /\ new \in [1 .. n1 -> S]
    BY <1>11, <2>1
  <2> HIDE DEF n1
  <2>3. new \in Seq(S) /\ Len(new) = n1
    BY ONLY <2>2, FunctionIsSeq
  <2> QED
    BY ONLY <2>3 DEF n1
<1>13. /\ Append(old, line) \in Seq(S) /\ Len(Append(old, line)) = Len(E) + 1
       /\ \A k \in 1 .. Len(E) : Append(old, line)[k] = old[k]
       /\ Append(old, line)[Len(E) + 1] = line
  BY <1>7, <1>8, AppendProperties
<1>14. new = Append(old, line)
  <2>1. \A k \in 1 .. Len(E) + 1 : new[k] = Append(old, line)[k]
    BY <1>2, <1>9, <1>10, <1>13
  <2> QED
    BY <1>12, <1>13, <2>1, SeqEqual
<1> QED
  BY <1>3, <1>14 DEF new, old, line

-----------------------------------------------------------------------------
(* f[k] is what the first k of seqs come to, one after the other.          *)
Flattens(f, seqs) ==
  /\ f[0] = << >>
  /\ \A k \in 0 .. Len(seqs) - 1 : f[k + 1] = f[k] \o seqs[k + 1]

LEMMA FlattenExists ==
  ASSUME NEW X, NEW seqs \in Seq(Seq(X))
  PROVE  \E f \in [Nat -> Seq(X)] : Flattens(f, seqs)
<1> DEFINE g == [k \in Nat |-> [x \in Seq(X) |-> IF k < Len(seqs) THEN x \o seqs[k + 1] ELSE x]]
<1>1. ASSUME NEW k \in Nat, NEW x \in Seq(X)
      PROVE  (IF k < Len(seqs) THEN x \o seqs[k + 1] ELSE x) \in Seq(X)
  <2>1. CASE k < Len(seqs)
    <3>1. k + 1 \in 1 .. Len(seqs)
      BY <2>1
    <3>2. seqs[k + 1] \in Seq(X)
      BY <3>1, ElementOfSeq
    <3> QED
      BY <2>1, <3>2, ConcatProperties
  <2>2. CASE ~(k < Len(seqs))
    BY <2>2
  <2> QED
    BY <2>1, <2>2
<1>2. g \in [Nat -> [Seq(X) -> Seq(X)]] /\ << >> \in Seq(X)
  BY <1>1
<1>3. \A k \in Nat, x \in Seq(X) : g[k][x] = IF k < Len(seqs) THEN x \o seqs[k + 1] ELSE x
  OBVIOUS
<1> HIDE DEF g
<1>4. PICK f \in [Nat -> Seq(X)] : \A n \in Nat : Recurs(f, n, << >>, g)
  BY <1>2, RecursionExists
<1>5. Len(seqs) \in Nat /\ Recurs(f, Len(seqs), << >>, g)
  BY <1>4
<1>6. f[0] = << >>
  BY <1>5 DEF Recurs
<1>7. ASSUME NEW k \in 0 .. Len(seqs) - 1
      PROVE  f[k + 1] = f[k] \o seqs[k + 1]
  <2>1. k \in Nat /\ k < Len(seqs)
    BY <1>5
  <2>2. f[k] \in Seq(X)
    BY <2>1
  <2>3. f[k + 1] = g[k][f[k]]
    BY <1>5 DEF Recurs
  <2>4. g[k][f[k]] = IF k < Len(seqs) THEN f[k] \o seqs[k + 1] ELSE f[k]
    BY <1>3, <2>1, <2>2
  <2> QED
    BY <2>1, <2>3, <2>4
<1> QED
  BY <1>6, <1>7 DEF Flattens

(* b goes on from a. *)
GoesOn(X, a, b) == \E rest \in Seq(X) : b = a \o rest

(* Concatenation behind a name: the provers get lost in nested ones.       *)
Associates(a, b, c) == (a \o b) \o c = a \o (b \o c)
Moved(a, b, x, y) == x \o y = a \o b

LEMMA ConcatThree ==
  ASSUME NEW X, NEW a \in Seq(X), NEW b \in Seq(X), NEW c \in Seq(X)
  PROVE  a \o b \in Seq(X) /\ b \o c \in Seq(X) /\ Associates(a, b, c)
<1>1. a \o b \in Seq(X) /\ b \o c \in Seq(X)
  BY ConcatProperties
<1>2. (a \o b) \o c = a \o (b \o c)
  BY ConcatAssociative
<1> QED
  BY <1>1, <1>2 DEF Associates

LEMMA GoesOnFurther ==
  ASSUME NEW X, NEW a \in Seq(X), NEW b, GoesOn(X, a, b), NEW c \in Seq(X)
  PROVE  GoesOn(X, a, b \o c)
<1>1. PICK rest \in Seq(X) : b = a \o rest
  BY DEF GoesOn
<1>2. (a \o rest) \o c = a \o (rest \o c)
  BY ConcatAssociative
<1>3. rest \o c \in Seq(X)
  BY ConcatProperties
<1> QED
  BY <1>1, <1>2, <1>3 DEF GoesOn

LEMMA GoesOnFromStart ==
  ASSUME NEW X, NEW a \in Seq(X)
  PROVE  GoesOn(X, a, a)
<1>1. a = a \o << >> /\ << >> \in Seq(X)
  BY ConcatEmptySeq
<1> QED
  BY <1>1 DEF GoesOn

(* From less than that it goes on as well. *)
LEMMA GoesOnEarlier ==
  ASSUME NEW X, NEW a \in Seq(X), NEW b \in Seq(X), NEW c, GoesOn(X, a \o b, c)
  PROVE  GoesOn(X, a, c)
<1>1. PICK rest \in Seq(X) : c = (a \o b) \o rest
  BY DEF GoesOn
<1>2. Associates(a, b, rest) /\ b \o rest \in Seq(X)
  BY ConcatThree
<1> QED
  BY <1>1, <1>2 DEF GoesOn, Associates

(* FlattenSeq has that value. *)
LEMMA FlattenValue ==
  ASSUME NEW X, NEW seqs \in Seq(Seq(X)), NEW f \in [Nat -> Seq(X)], Flattens(f, seqs)
  PROVE  FlattenSeq(seqs) = f[Len(seqs)]
<1>1. CASE Len(seqs) = 0
  <2>1. seqs = << >>
    BY <1>1, EmptySeq
  <2> QED
    BY <1>1, <2>1 DEF FlattenSeq, Flattens
<1>2. CASE Len(seqs) # 0
  <2> DEFINE n == Len(seqs)
             D(c) == [i \in 1 .. n |-> IF i = 1 THEN seqs[i] ELSE c[i - 1] \o seqs[i]]
             h == [i \in 1 .. n |-> f[i]]
             flatten == CHOOSE c : c = [i \in 1 .. Len(seqs) |->
                                          IF i = 1 THEN seqs[i] ELSE c[i - 1] \o seqs[i]]
  <2>1. n \in Nat /\ n # 0
    BY <1>2
  <2>2. f[0] = << >> /\ \A k \in 0 .. n - 1 : f[k + 1] = f[k] \o seqs[k + 1]
    BY DEF Flattens
  <2>3. f[1] = seqs[1]
    <3>1. 0 \in 0 .. n - 1 /\ 1 \in 1 .. n /\ 0 + 1 = 1
      BY <2>1
    <3>2. f[0 + 1] = f[0] \o seqs[0 + 1]
      BY <2>2, <3>1
    <3>3. f[1] = << >> \o seqs[1]
      BY <2>2, <3>1, <3>2
    <3>4. seqs[1] \in Seq(X)
      BY <3>1, ElementOfSeq
    <3> QED
      BY <3>3, <3>4, ConcatEmptySeq
  <2>4. h = D(h)
    <3>1. ASSUME NEW i \in 1 .. n
          PROVE  f[i] = IF i = 1 THEN seqs[i] ELSE h[i - 1] \o seqs[i]
      <4>1. CASE i = 1
        BY <2>3, <4>1
      <4>2. CASE i # 1
        <5>1. i - 1 \in 0 .. n - 1 /\ (i - 1) + 1 = i /\ i - 1 \in 1 .. n
          BY <2>1, <4>2
        <5>2. f[i] = f[i - 1] \o seqs[i]
          BY <2>2, <5>1
        <5>3. h[i - 1] = f[i - 1]
          BY <5>1
        <5> QED
          BY <4>2, <5>2, <5>3
      <4> QED
        BY <4>1, <4>2
    <3> QED
      BY <3>1
  <2>5. flatten = D(flatten)
    BY <2>4
  <2>6. FlattenSeq(seqs) = flatten[n]
    BY <2>1 DEF FlattenSeq
  <2> HIDE DEF flatten
  <2>7. \A i \in 1 .. n : flatten[i] = IF i = 1 THEN seqs[i] ELSE flatten[i - 1] \o seqs[i]
    BY <2>5
  <2> DEFINE S == {k \in Nat : k + 1 <= n => flatten[k + 1] = f[k + 1]}
  <2> HIDE DEF n
  <2>8. 0 \in S
    BY <2>1, <2>3, <2>7
  <2>9. ASSUME NEW k \in Nat, k \in S
        PROVE  k + 1 \in S
    <3> SUFFICES ASSUME (k + 1) + 1 <= n
                 PROVE  flatten[(k + 1) + 1] = f[(k + 1) + 1]
      OBVIOUS
    <3>1. /\ (k + 1) + 1 \in 1 .. n /\ (k + 1) + 1 # 1 /\ ((k + 1) + 1) - 1 = k + 1
          /\ k + 1 \in 0 .. n - 1 /\ k + 1 <= n
      BY <2>1
    <3>2. flatten[k + 1] = f[k + 1]
      BY <2>9, <3>1
    <3>3. flatten[(k + 1) + 1] = flatten[k + 1] \o seqs[(k + 1) + 1]
      BY <2>7, <3>1
    <3>4. f[(k + 1) + 1] = f[k + 1] \o seqs[(k + 1) + 1]
      BY <2>2, <3>1
    <3> QED
      BY <3>2, <3>3, <3>4
  <2> HIDE DEF S
  <2>10. n - 1 \in Nat /\ (n - 1) + 1 = n
    BY <2>1
  <2>11. n - 1 \in S
    BY <2>8, <2>9, <2>10, SetInduction
  <2>12. flatten[n] = f[n]
    BY <2>10, <2>11 DEF S
  <2> QED
    BY <2>6, <2>12 DEF n
<1> QED
  BY <1>1, <1>2

LEMMA FlattenType ==
  ASSUME NEW X, NEW seqs \in Seq(Seq(X))
  PROVE  FlattenSeq(seqs) \in Seq(X)
<1>1. PICK f \in [Nat -> Seq(X)] : Flattens(f, seqs)
  BY FlattenExists
<1>2. Len(seqs) \in Nat
  BY LenProperties
<1>3. FlattenSeq(seqs) = f[Len(seqs)]
  BY <1>1, FlattenValue
<1> QED
  BY <1>2, <1>3

LEMMA FlattenEmpty == FlattenSeq(<< >>) = << >>
  BY DEF FlattenSeq

(* One more sequence comes last. *)
LEMMA FlattenAppend ==
  ASSUME NEW X, NEW seqs \in Seq(Seq(X)), NEW last \in Seq(X)
  PROVE  FlattenSeq(Append(seqs, last)) = FlattenSeq(seqs) \o last
<1> DEFINE more == Append(seqs, last)
           n == Len(seqs)
<1>1. /\ more \in Seq(Seq(X)) /\ n \in Nat /\ Len(more) = n + 1
      /\ \A k \in 1 .. n : more[k] = seqs[k]
      /\ more[n + 1] = last
  BY AppendProperties
<1> HIDE DEF more, n
<1>2. PICK f \in [Nat -> Seq(X)] : Flattens(f, more)
  BY <1>1, FlattenExists
<1>3. FlattenSeq(more) = f[n + 1]
  BY <1>1, <1>2, FlattenValue
<1>4. f[n + 1] = f[n] \o last
  <2>1. n \in 0 .. Len(more) - 1
    BY <1>1
  <2>2. f[n + 1] = f[n] \o more[n + 1]
    BY <1>2, <2>1 DEF Flattens
  <2> QED
    BY <1>1, <2>2
<1>5. Flattens(f, seqs)
  <2>1. f[0] = << >>
    BY <1>2 DEF Flattens
  <2>2. ASSUME NEW k \in 0 .. n - 1
        PROVE  f[k + 1] = f[k] \o seqs[k + 1]
    <3>1. k \in 0 .. Len(more) - 1 /\ more[k + 1] = seqs[k + 1]
      BY <1>1
    <3>2. f[k + 1] = f[k] \o more[k + 1]
      BY <1>2, <3>1 DEF Flattens
    <3> QED
      BY <3>1, <3>2
  <2> QED
    BY <2>1, <2>2 DEF Flattens, n
<1>6. FlattenSeq(seqs) = f[n]
  BY <1>5, FlattenValue DEF n
<1> QED
  BY <1>3, <1>4, <1>6 DEF more

(* The first n of the sequences come first. *)
LEMMA FlattenPrefix ==
  ASSUME NEW X, NEW seqs \in Seq(Seq(X)), NEW n \in 0 .. Len(seqs)
  PROVE  /\ SubSeq(seqs, 1, n) \in Seq(Seq(X))
         /\ GoesOn(X, FlattenSeq(SubSeq(seqs, 1, n)), FlattenSeq(seqs))
<1> DEFINE some == SubSeq(seqs, 1, n)
<1>1. /\ some \in Seq(Seq(X)) /\ Len(some) = n /\ n \in Nat /\ Len(seqs) \in Nat
      /\ \A k \in 1 .. n : some[k] = seqs[k]
  <2>1. \A k \in 1 .. n : seqs[k] \in Seq(X)
    BY ElementOfSeq
  <2> QED
    BY <2>1, SubSeqProperties
<1> HIDE DEF some
<1>2. PICK f \in [Nat -> Seq(X)] : Flattens(f, seqs)
  BY FlattenExists
<1>3. FlattenSeq(seqs) = f[Len(seqs)]
  BY <1>2, FlattenValue
<1>4. Flattens(f, some)
  <2>1. f[0] = << >>
    BY <1>2 DEF Flattens
  <2>2. ASSUME NEW k \in 0 .. n - 1
        PROVE  f[k + 1] = f[k] \o some[k + 1]
    <3>1. k \in 0 .. Len(seqs) - 1 /\ k + 1 \in 1 .. n
      BY <1>1
    <3>2. some[k + 1] = seqs[k + 1]
      BY <1>1, <3>1
    <3>3. f[k + 1] = f[k] \o seqs[k + 1]
      BY <1>2, <3>1 DEF Flattens
    <3> QED
      BY <3>2, <3>3
  <2> QED
    BY <1>1, <2>1, <2>2 DEF Flattens
<1>5. FlattenSeq(some) = f[n]
  BY <1>1, <1>4, FlattenValue
<1> DEFINE S == {j \in Nat : n + j <= Len(seqs) => GoesOn(X, f[n], f[n + j])}
<1>6. 0 \in S
  <2>1. f[n + 0] = f[n] /\ f[n] \in Seq(X)
    BY <1>1
  <2> QED
    BY <2>1, GoesOnFromStart
<1>7. ASSUME NEW j \in Nat, j \in S
      PROVE  j + 1 \in S
  <2>1. ASSUME n + (j + 1) <= Len(seqs)
        PROVE  GoesOn(X, f[n], f[n + (j + 1)])
    <3> DEFINE next == seqs[(n + j) + 1]
               first == f[n]
               here == f[n + j]
    <3>1. /\ n + j <= Len(seqs) /\ n + j \in 0 .. Len(seqs) - 1 /\ n + (j + 1) = (n + j) + 1
          /\ (n + j) + 1 \in 1 .. Len(seqs)
      BY <1>1, <2>1
    <3>2. GoesOn(X, first, here)
      BY <1>7, <3>1
    <3>3. next \in Seq(X)
      BY <3>1, ElementOfSeq
    <3>4. first \in Seq(X)
      BY <1>1
    <3>5. f[n + (j + 1)] = here \o next
      BY <1>2, <3>1 DEF Flattens
    <3> HIDE DEF next, first, here
    <3>6. GoesOn(X, first, here \o next)
      BY <3>2, <3>3, <3>4, GoesOnFurther
    <3> QED
      BY <3>5, <3>6 DEF first
  <2>2. j + 1 \in Nat
    OBVIOUS
  <2> QED
    BY <2>1, <2>2
<1> HIDE DEF S
<1>8. Len(seqs) - n \in Nat /\ n + (Len(seqs) - n) = Len(seqs) /\ Len(seqs) <= Len(seqs)
  BY <1>1
<1>9. Len(seqs) - n \in S
  BY <1>6, <1>7, <1>8, SetInduction
<1>10. GoesOn(X, f[n], f[Len(seqs)])
  BY <1>8, <1>9 DEF S
<1> QED
  BY <1>1, <1>3, <1>5, <1>10 DEF some

(* A sequence that is cut in two and put together again. *)
LEMMA CutAt ==
  ASSUME NEW X, NEW b \in Seq(X), NEW k \in 0 .. Len(b)
  PROVE  /\ SubSeq(b, 1, k) \in Seq(X) /\ SubSeq(b, k + 1, Len(b)) \in Seq(X)
         /\ SubSeq(b, 1, k) \o SubSeq(b, k + 1, Len(b)) = b
<1>1. Len(b) \in Nat /\ k \in Nat /\ k <= Len(b)
  BY LenProperties
<1>2. SubSeq(b, 1, k) \in Seq(X) /\ SubSeq(b, k + 1, Len(b)) \in Seq(X)
  BY <1>1
<1>3. SubSeq(b, 1, Len(b)) = b
  BY SubSeqFull
<1>4. 1 \in 1 .. Len(b) + 1 /\ k \in 1 - 1 .. Len(b) /\ Len(b) \in k .. Len(b)
  BY <1>1
<1>5. SubSeq(b, 1, k) \o SubSeq(b, k + 1, Len(b)) = SubSeq(b, 1, Len(b))
  BY <1>4, ConcatAdjacentSubSeq
<1> QED
  BY <1>2, <1>3, <1>5

(* A part of b is moved to the end of a. *)
LEMMA PartMoves ==
  ASSUME NEW X, NEW a \in Seq(X), NEW b \in Seq(X), NEW k \in 0 .. Len(b)
  PROVE  /\ a \o SubSeq(b, 1, k) \in Seq(X) /\ SubSeq(b, k + 1, Len(b)) \in Seq(X)
         /\ Moved(a, b, a \o SubSeq(b, 1, k), SubSeq(b, k + 1, Len(b)))
<1> DEFINE front == SubSeq(b, 1, k)
           rest == SubSeq(b, k + 1, Len(b))
<1>1. front \o rest = b
  BY CutAt
<1>2. front \in Seq(X) /\ rest \in Seq(X)
  BY CutAt
<1> HIDE DEF front, rest
<1>3. a \o front \in Seq(X) /\ Associates(a, front, rest)
  BY <1>2, ConcatThree
<1>4. Moved(a, b, a \o front, rest)
  BY ONLY <1>1, <1>3 DEF Associates, Moved
<1> QED
  BY <1>2, <1>3, <1>4 DEF front, rest

-----------------------------------------------------------------------------
(* The lines of text that was put together of lines.                       *)

LEMMA TerminatedEmpty ==
  ASSUME NEW e
  PROVE  Terminated(<< >>, e) = << >>
<1>1. [k \in DOMAIN << >> |-> << >>[k] \o e] = << >>
  OBVIOUS
<1> QED
  BY <1>1, FlattenEmpty DEF Terminated

(* A line more, and its terminator. *)
LEMMA TerminatedAppend ==
  ASSUME NEW X, NEW ls \in Seq(Seq(X)), NEW line \in Seq(X), NEW e \in Seq(X)
  PROVE  /\ Terminated(ls, e) \in Seq(X)
         /\ Terminated(Append(ls, line), e) = Terminated(ls, e) \o (line \o e)
         /\ Rendered(Append(ls, line), e) = Terminated(ls, e) \o line
<1> DEFINE n == Len(ls)
           more == Append(ls, line)
           ended == [k \in DOMAIN ls |-> ls[k] \o e]
           moreEnded == [k \in DOMAIN more |-> more[k] \o e]
           moreBetween == [k \in DOMAIN more |-> IF k < Len(more) THEN more[k] \o e ELSE more[k]]
<1>1. n \in Nat /\ DOMAIN ls = 1 .. n
  BY LenProperties
<1>2. /\ Len(more) = n + 1 /\ DOMAIN more = 1 .. n + 1
      /\ \A k \in 1 .. n : more[k] = ls[k]
      /\ more[n + 1] = line
  BY AppendProperties, LenProperties
<1>3. \A a \in Seq(X) : a \o e \in Seq(X)
  BY ConcatProperties
<1>4. \A k \in 1 .. n : ls[k] \in Seq(X) /\ ls[k] \o e \in Seq(X)
  BY <1>3, ElementOfSeq
<1>5. line \o e \in Seq(X)
  BY <1>3
<1> HIDE DEF more, n
<1>6. ended \in Seq(Seq(X)) /\ Len(ended) = n
  <2>1. ended \in [1 .. n -> Seq(X)]
    BY <1>1, <1>4
  <2> QED
    BY <1>1, <2>1, FunctionIsSeq
<1>7. \A k \in 1 .. n : ended[k] = ls[k] \o e
  BY <1>1
<1> HIDE DEF ended
<1>8. /\ Append(ended, line \o e) \in Seq(Seq(X)) /\ Len(Append(ended, line \o e)) = n + 1
      /\ \A k \in 1 .. n : Append(ended, line \o e)[k] = ended[k]
      /\ Append(ended, line \o e)[n + 1] = line \o e
  BY ONLY <1>5, <1>6, AppendProperties
<1>9. /\ Append(ended, line) \in Seq(Seq(X)) /\ Len(Append(ended, line)) = n + 1
      /\ \A k \in 1 .. n : Append(ended, line)[k] = ended[k]
      /\ Append(ended, line)[n + 1] = line
  BY <1>6, AppendProperties
<1>10. \A k \in 1 .. n + 1 : k \in 1 .. n \/ k = n + 1
  BY <1>1
<1>11. moreEnded = Append(ended, line \o e)
  <2>1. \A k \in 1 .. n + 1 : moreEnded[k] = more[k] \o e
    BY <1>2
  <2>2. DOMAIN moreEnded = 1 .. n + 1
    BY <1>2
  <2>3. moreEnded = [k \in 1 .. n + 1 |-> moreEnded[k]]
    BY <1>2
  <2> HIDE DEF moreEnded
  <2>4. \A k \in 1 .. n + 1 : moreEnded[k] = Append(ended, line \o e)[k]
    BY <1>2, <1>7, <1>8, <1>10, <2>1
  <2>5. \A k \in 1 .. n + 1 : moreEnded[k] \in Seq(X)
    BY <1>2, <1>4, <1>5, <1>10, <2>1
  <2>6. moreEnded \in [1 .. n + 1 -> Seq(X)]
    BY <2>3, <2>5
  <2>7. moreEnded \in Seq(Seq(X)) /\ Len(moreEnded) = n + 1
    BY <1>1, <2>6, FunctionIsSeq
  <2> QED
    BY <1>8, <2>4, <2>7, SeqEqual
<1>12. moreBetween = Append(ended, line)
  <2>1. \A k \in 1 .. n + 1 : moreBetween[k] = IF k < n + 1 THEN more[k] \o e ELSE more[k]
    BY <1>2
  <2>2. moreBetween = [k \in 1 .. n + 1 |-> moreBetween[k]]
    BY <1>2
  <2> HIDE DEF moreBetween
  <2>3. ASSUME NEW k \in 1 .. n
        PROVE  moreBetween[k] = more[k] \o e
    <3>1. k \in 1 .. n + 1 /\ k < n + 1
      BY <1>1
    <3> QED
      BY <2>1, <3>1
  <2>4. moreBetween[n + 1] = more[n + 1]
    BY <1>1, <2>1
  <2>5. \A k \in 1 .. n + 1 : moreBetween[k] = Append(ended, line)[k]
    BY <1>2, <1>7, <1>9, <1>10, <2>3, <2>4
  <2>6. \A k \in 1 .. n + 1 : moreBetween[k] \in Seq(X)
    BY <1>2, <1>4, <1>10, <2>3, <2>4
  <2>7. moreBetween \in [1 .. n + 1 -> Seq(X)]
    BY <2>2, <2>6
  <2>8. moreBetween \in Seq(Seq(X)) /\ Len(moreBetween) = n + 1
    BY <1>1, <2>7, FunctionIsSeq
  <2> QED
    BY <1>9, <2>5, <2>8, SeqEqual
<1>13. FlattenSeq(ended) = Terminated(ls, e)
  BY DEF Terminated, ended
<1>14. FlattenSeq(moreEnded) = Terminated(more, e) /\ FlattenSeq(moreBetween) = Rendered(more, e)
  BY DEF Terminated, Rendered
<1> HIDE DEF moreEnded, moreBetween
<1>15. FlattenSeq(Append(ended, line \o e)) = FlattenSeq(ended) \o (line \o e)
  BY <1>5, <1>6, FlattenAppend
<1>16. FlattenSeq(Append(ended, line)) = FlattenSeq(ended) \o line
  BY <1>6, FlattenAppend
<1>17. FlattenSeq(ended) \in Seq(X)
  BY <1>6, FlattenType
<1> QED
  BY <1>11, <1>12, <1>13, <1>14, <1>15, <1>16, <1>17 DEF more

LEMMA PiecesType ==
  ASSUME NEW X, NEW ls \in Seq(Seq(X)), NEW e \in Seq(X)
  PROVE  /\ [k \in DOMAIN ls |-> ls[k] \o e] \in Seq(Seq(X))
         /\ Len([k \in DOMAIN ls |-> ls[k] \o e]) = Len(ls)
<1> DEFINE ended == [k \in DOMAIN ls |-> ls[k] \o e]
<1>1. Len(ls) \in Nat /\ DOMAIN ls = 1 .. Len(ls)
  BY LenProperties
<1>2. \A k \in 1 .. Len(ls) : ls[k] \o e \in Seq(X)
  BY ElementOfSeq, ConcatProperties
<1>3. ended \in [1 .. Len(ls) -> Seq(X)]
  BY <1>1, <1>2
<1> HIDE DEF ended
<1>4. ended \in Seq(Seq(X)) /\ Len(ended) = Len(ls)
  BY <1>1, <1>3, FunctionIsSeq
<1> QED
  BY <1>4 DEF ended

LEMMA TerminatedType ==
  ASSUME NEW X, NEW ls \in Seq(Seq(X)), NEW e \in Seq(X)
  PROVE  Terminated(ls, e) \in Seq(X)
  BY PiecesType, FlattenType DEF Terminated

(* The first n lines. *)
LEMMA FirstLines ==
  ASSUME NEW X, NEW ls \in Seq(X), NEW n \in 0 .. Len(ls)
  PROVE  /\ SubSeq(ls, 1, n) \in Seq(X) /\ Len(SubSeq(ls, 1, n)) = n
         /\ \A k \in 1 .. n : SubSeq(ls, 1, n)[k] = ls[k]
         /\ n < Len(ls) => SubSeq(ls, 1, n + 1) = Append(SubSeq(ls, 1, n), ls[n + 1])
<1>1. Len(ls) \in Nat /\ n \in Nat
  BY LenProperties
<1>2. \A k \in 1 .. Len(ls) : ls[k] \in X
  BY ElementOfSeq
<1>3. \A m \in 0 .. Len(ls) :
        /\ SubSeq(ls, 1, m) \in Seq(X) /\ Len(SubSeq(ls, 1, m)) = m
        /\ \A k \in 1 .. m : SubSeq(ls, 1, m)[k] = ls[k]
  <2> SUFFICES ASSUME NEW m \in 0 .. Len(ls)
               PROVE  /\ SubSeq(ls, 1, m) \in Seq(X) /\ Len(SubSeq(ls, 1, m)) = m
                      /\ \A k \in 1 .. m : SubSeq(ls, 1, m)[k] = ls[k]
    OBVIOUS
  <2>1. \A k \in 1 .. m : ls[k] \in X
    BY <1>1, <1>2
  <2> QED
    BY <1>1, <2>1, SubSeqProperties
<1>4. ASSUME n < Len(ls)
      PROVE  SubSeq(ls, 1, n + 1) = Append(SubSeq(ls, 1, n), ls[n + 1])
  <2> DEFINE some == SubSeq(ls, 1, n)
             more == SubSeq(ls, 1, n + 1)
             line == ls[n + 1]
  <2>1. n + 1 \in 0 .. Len(ls) /\ n + 1 \in 1 .. Len(ls)
    BY <1>1, <1>4
  <2>2. some \in Seq(X) /\ Len(some) = n /\ \A k \in 1 .. n : some[k] = ls[k]
    BY <1>3
  <2>3. more \in Seq(X) /\ Len(more) = n + 1 /\ \A k \in 1 .. n + 1 : more[k] = ls[k]
    BY <1>3, <2>1
  <2>4. line \in X
    BY <1>2, <2>1
  <2> HIDE DEF some, more
  <2>5. /\ Append(some, line) \in Seq(X) /\ Len(Append(some, line)) = n + 1
        /\ \A k \in 1 .. n : Append(some, line)[k] = some[k]
        /\ Append(some, line)[n + 1] = line
    BY <2>2, <2>4, AppendProperties
  <2>6. ASSUME NEW k \in 1 .. n + 1
        PROVE  more[k] = Append(some, line)[k]
    <3>1. k \in 1 .. n \/ k = n + 1
      BY <1>1
    <3> QED
      BY <2>2, <2>3, <2>5, <3>1
  <2>7. more = Append(some, line)
    BY <2>3, <2>5, <2>6, SeqEqual
  <2> QED
    BY <2>7 DEF some, more
<1> QED
  BY <1>3, <1>4

(* What the first n lines come to comes first. *)
LEMMA TerminatedPrefix ==
  ASSUME NEW X, NEW ls \in Seq(Seq(X)), NEW e \in Seq(X), NEW n \in 0 .. Len(ls)
  PROVE  GoesOn(X, Terminated(SubSeq(ls, 1, n), e), Terminated(ls, e))
<1> DEFINE some == SubSeq(ls, 1, n)
           ended == [k \in DOMAIN ls |-> ls[k] \o e]
           someEnded == [k \in DOMAIN some |-> some[k] \o e]
<1>1. /\ some \in Seq(Seq(X)) /\ Len(some) = n
      /\ \A k \in 1 .. n : some[k] = ls[k]
  BY FirstLines
<1>2. Len(ls) \in Nat /\ DOMAIN ls = 1 .. Len(ls) /\ DOMAIN some = 1 .. n /\ n \in Nat
  BY <1>1, LenProperties
<1> HIDE DEF some
<1>3. ended \in Seq(Seq(X)) /\ Len(ended) = Len(ls)
  BY PiecesType
<1>4. someEnded \in Seq(Seq(X)) /\ Len(someEnded) = n
  BY <1>1, PiecesType
<1>5. ASSUME NEW k \in 1 .. n
      PROVE  someEnded[k] = ended[k]
  <2>1. k \in DOMAIN ls /\ k \in DOMAIN some
    BY <1>2
  <2>2. someEnded[k] = some[k] \o e
    BY <2>1
  <2>3. ended[k] = ls[k] \o e
    BY <2>1
  <2> QED
    BY <1>1, <2>2, <2>3
<1> HIDE DEF ended, someEnded
<1>6. /\ SubSeq(ended, 1, n) \in Seq(Seq(X)) /\ Len(SubSeq(ended, 1, n)) = n
      /\ \A k \in 1 .. n : SubSeq(ended, 1, n)[k] = ended[k]
  BY <1>3, FirstLines
<1>7. SubSeq(ended, 1, n) = someEnded
  BY <1>4, <1>5, <1>6, SeqEqual
<1>8. GoesOn(X, FlattenSeq(SubSeq(ended, 1, n)), FlattenSeq(ended))
  BY <1>3, FlattenPrefix
<1> QED
  BY <1>7, <1>8 DEF Terminated, ended, someEnded, some

LEMMA TerminatedNext ==
  ASSUME NEW X, NEW ls \in Seq(Seq(X)), NEW e \in Seq(X), NEW n \in 1 .. Len(ls)
  PROVE  /\ Terminated(SubSeq(ls, 1, n - 1), e) \in Seq(X)
         /\ Terminated(SubSeq(ls, 1, n), e) =
              Terminated(SubSeq(ls, 1, n - 1), e) \o (ls[n] \o e)
<1> DEFINE some == SubSeq(ls, 1, n - 1)
           line == ls[n]
<1>1. n - 1 \in 0 .. Len(ls) /\ n - 1 < Len(ls) /\ (n - 1) + 1 = n
  BY LenProperties
<1>2. some \in Seq(Seq(X)) /\ SubSeq(ls, 1, n) = Append(some, line)
  BY <1>1, FirstLines
<1>3. line \in Seq(X)
  BY ElementOfSeq
<1> HIDE DEF some, line
<1>4. Terminated(some, e) \in Seq(X)
  BY <1>2, TerminatedType
<1>5. Terminated(Append(some, line), e) = Terminated(some, e) \o (line \o e)
  BY ONLY <1>2, <1>3, TerminatedAppend, SMTT(30)
<1> QED
  BY <1>2, <1>4, <1>5 DEF some, line

(* Where the n-th line and its terminator end. *)
EndOf(ls, e, n) == Len(Terminated(SubSeq(ls, 1, n), e))

LEMMA EndOfLine ==
  ASSUME NEW X, NEW ls \in Seq(Seq(X)), NEW e \in Seq(X)
  PROVE  /\ EndOf(ls, e, 0) = 0
         /\ EndOf(ls, e, Len(ls)) = Len(Terminated(ls, e))
         /\ \A n \in 0 .. Len(ls) : EndOf(ls, e, n) \in Nat
         /\ \A n \in 1 .. Len(ls) :
              EndOf(ls, e, n) = EndOf(ls, e, n - 1) + (Len(ls[n]) + Len(e))
<1>1. EndOf(ls, e, 0) = 0
  <2>1. SubSeq(ls, 1, 0) = << >>
    BY SubSeqEmpty
  <2>2. Terminated(SubSeq(ls, 1, 0), e) = << >>
    BY <2>1, TerminatedEmpty
  <2> QED
    BY <2>2 DEF EndOf
<1>2. EndOf(ls, e, Len(ls)) = Len(Terminated(ls, e))
  BY SubSeqFull DEF EndOf
<1>3. ASSUME NEW n \in 0 .. Len(ls)
      PROVE  EndOf(ls, e, n) \in Nat
  <2>1. SubSeq(ls, 1, n) \in Seq(Seq(X))
    BY FirstLines
  <2>2. Terminated(SubSeq(ls, 1, n), e) \in Seq(X)
    BY <2>1, TerminatedType
  <2> QED
    BY <2>2, LenProperties DEF EndOf
<1>4. ASSUME NEW n \in 1 .. Len(ls)
      PROVE  EndOf(ls, e, n) = EndOf(ls, e, n - 1) + (Len(ls[n]) + Len(e))
  <2> DEFINE line == ls[n]
             before == Terminated(SubSeq(ls, 1, n - 1), e)
  <2>1. line \in Seq(X)
    BY ElementOfSeq
  <2>2. before \in Seq(X) /\ Terminated(SubSeq(ls, 1, n), e) = before \o (line \o e)
    BY TerminatedNext
  <2> HIDE DEF line, before
  <2>3. Len(line \o e) = Len(line) + Len(e) /\ line \o e \in Seq(X)
    BY <2>1, ConcatProperties
  <2>4. Len(before \o (line \o e)) = Len(before) + (Len(line) + Len(e))
    BY <2>2, <2>3, ConcatProperties
  <2>5. EndOf(ls, e, n) = Len(before) + (Len(line) + Len(e))
    BY <2>2, <2>4 DEF EndOf
  <2>6. EndOf(ls, e, n - 1) = Len(before)
    BY DEF EndOf, before
  <2>7. EndOf(ls, e, n) = EndOf(ls, e, n - 1) + (Len(line) + Len(e))
    BY ONLY <2>5, <2>6
  <2> QED
    BY <2>7 DEF line
<1> QED
  BY <1>1, <1>2, <1>3, <1>4

(* t is made of terminated lines and a rest x. *)
MadeOf(X, t, ls, e, x) ==
  /\ ls \in Seq(Seq(X)) /\ e \in Seq(X) /\ x \in Seq(X)
  /\ t = Terminated(ls, e) \o x

(* What is where in such a text. *)
LEMMA LinePlaces ==
  ASSUME NEW X, NEW t, NEW ls, NEW e, NEW x, MadeOf(X, t, ls, e, x), NEW n \in 1 .. Len(ls)
  PROVE  /\ EndOf(ls, e, n) <= Len(Terminated(ls, e))
         /\ \A j \in 1 .. Len(ls[n]) : t[EndOf(ls, e, n - 1) + j] = ls[n][j]
         /\ \A j \in 1 .. Len(e) : t[EndOf(ls, e, n - 1) + Len(ls[n]) + j] = e[j]
<1> DEFINE line == ls[n]
           before == Terminated(SubSeq(ls, 1, n - 1), e)
           upto == Terminated(SubSeq(ls, 1, n), e)
           all == Terminated(ls, e)
           a == EndOf(ls, e, n - 1)
<1>1. ls \in Seq(Seq(X)) /\ e \in Seq(X) /\ x \in Seq(X) /\ t = all \o x
  BY DEF MadeOf
<1>2. n \in 0 .. Len(ls)
  BY <1>1, LenProperties
<1>3. line \in Seq(X)
  BY <1>1, ElementOfSeq
<1>4. before \in Seq(X)
  BY <1>1, TerminatedNext
<1>5. a = Len(before)
  BY DEF EndOf
<1>6. upto = before \o (line \o e)
  BY <1>1, TerminatedNext
<1>7. GoesOn(X, upto, all)
  BY <1>1, <1>2, TerminatedPrefix
<1>8. EndOf(ls, e, n) = Len(upto)
  BY DEF EndOf
<1> HIDE DEF line, before, upto, a
<1>9. t = all \o x
  BY <1>1
<1> HIDE DEF all
<1>10. /\ line \o e \in Seq(X) /\ Len(line \o e) = Len(line) + Len(e)
       /\ \A j \in 1 .. Len(line) + Len(e) :
            (line \o e)[j] = IF j <= Len(line) THEN line[j] ELSE e[j - Len(line)]
  BY <1>3, <1>1, ConcatProperties
<1>11. Len(line) \in Nat /\ Len(e) \in Nat /\ a \in Nat
  BY <1>3, <1>4, <1>5, <1>1, LenProperties
<1>12. /\ upto \in Seq(X) /\ Len(upto) = a + Len(line \o e)
       /\ \A j \in 1 .. a + Len(line \o e) :
            upto[j] = IF j <= a THEN before[j] ELSE (line \o e)[j - a]
  BY <1>4, <1>5, <1>6, <1>10, <1>1, ConcatProperties
<1>13. PICK rest \in Seq(X) : all = upto \o rest
  BY <1>7 DEF GoesOn
<1>14. /\ all \in Seq(X) /\ Len(all) = Len(upto) + Len(rest)
       /\ \A j \in 1 .. Len(upto) + Len(rest) :
            all[j] = IF j <= Len(upto) THEN upto[j] ELSE rest[j - Len(upto)]
  BY <1>12, <1>13, <1>1, ConcatProperties
<1>15. \A j \in 1 .. Len(all) + Len(x) : t[j] = IF j <= Len(all) THEN all[j] ELSE x[j - Len(all)]
  BY ONLY <1>9, <1>14, <1>1, ConcatProperties, SMTT(30)
<1>16. Len(rest) \in Nat /\ Len(x) \in Nat /\ Len(upto) \in Nat
  BY <1>12, <1>1, LenProperties
<1>17. Len(upto) <= Len(all)
  BY <1>14, <1>16
<1>18. ASSUME NEW j \in 1 .. Len(line) + Len(e)
       PROVE  t[a + j] = (line \o e)[j]
  <2>1. a + j \in 1 .. a + Len(line \o e) /\ ~(a + j <= a) /\ (a + j) - a = j
    BY <1>10, <1>11
  <2>2. a + j \in 1 .. Len(upto) + Len(rest) /\ a + j <= Len(upto)
    BY <1>12, <1>16, <2>1
  <2>3. a + j \in 1 .. Len(all) + Len(x) /\ a + j <= Len(all)
    BY <1>14, <1>16, <2>2
  <2>4. t[a + j] = all[a + j]
    BY <1>15, <2>3
  <2>5. all[a + j] = upto[a + j]
    BY <1>14, <2>2
  <2>6. upto[a + j] = (line \o e)[j]
    BY <1>12, <2>1
  <2> QED
    BY <2>4, <2>5, <2>6
<1>19. ASSUME NEW j \in 1 .. Len(line)
       PROVE  t[a + j] = line[j]
  <2>1. j \in 1 .. Len(line) + Len(e) /\ j <= Len(line)
    BY <1>11
  <2> QED
    BY <1>10, <1>18, <2>1
<1>20. ASSUME NEW j \in 1 .. Len(e)
       PROVE  t[a + Len(line) + j] = e[j]
  <2>1. /\ Len(line) + j \in 1 .. Len(line) + Len(e) /\ ~(Len(line) + j <= Len(line))
        /\ (Len(line) + j) - Len(line) = j /\ a + (Len(line) + j) = a + Len(line) + j
    BY <1>11
  <2>2. t[a + (Len(line) + j)] = (line \o e)[Len(line) + j]
    BY <1>18, <2>1
  <2>3. (line \o e)[Len(line) + j] = e[j]
    BY <1>10, <2>1
  <2> QED
    BY <2>1, <2>2, <2>3
<1> QED
  BY <1>8, <1>17, <1>19, <1>20 DEF a, line, all

(* A stretch of t that is like line. *)
LEMMA StretchIs ==
  ASSUME NEW X, NEW t, NEW a \in Nat, NEW line \in Seq(X),
         \A j \in 1 .. Len(line) : t[a + j] = line[j]
  PROVE  SubSeq(t, a + 1, a + Len(line)) = line
<1> DEFINE sub == SubSeq(t, a + 1, a + Len(line))
           n == Len(line)
<1>1. n \in Nat
  BY LenProperties
<1>2. ASSUME NEW i \in a + 1 .. a + n
      PROVE  t[i] \in X
  <2>1. i - a \in 1 .. n /\ a + (i - a) = i
    BY <1>1
  <2>2. t[i] = line[i - a]
    BY <2>1
  <2> QED
    BY <2>1, <2>2, ElementOfSeq
<1>3. a + 1 \in Int /\ a + n \in Int
  BY <1>1
<1>4. /\ sub \in Seq(X)
      /\ Len(sub) = IF a + 1 <= a + n THEN (a + n) - (a + 1) + 1 ELSE 0
      /\ \A i \in 1 .. (a + n) - (a + 1) + 1 : sub[i] = t[(a + 1) + i - 1]
  BY <1>2, <1>3, SubSeqProperties
<1> HIDE DEF sub
<1>5. Len(sub) = n
  BY <1>1, <1>4
<1>6. ASSUME NEW i \in 1 .. n
      PROVE  sub[i] = line[i]
  <2>1. i \in 1 .. (a + n) - (a + 1) + 1 /\ (a + 1) + i - 1 = a + i
    BY <1>1
  <2>2. sub[i] = t[a + i]
    BY <1>4, <2>1
  <2> QED
    BY <2>2
<1>7. sub = line
  BY <1>4, <1>5, <1>6, SeqEqual
<1> QED
  BY <1>7 DEF sub

(* A line from a to the terminator that ends at b. *)
LineOfText(X, t, P, a, b, line) ==
  /\ a \in Nat /\ b \in Nat /\ line \in Seq(X)
  /\ LastIn(P, a) = a /\ a < b
  /\ \A p \in a + 1 .. b - 1 : p \notin P
  /\ b \in P
  /\ b - TerminatorLength(t, b) = a + Len(line)
  /\ \A j \in 1 .. Len(line) : t[a + j] = line[j]

LEMMA LineComesBack ==
  ASSUME NEW X, NEW t, NEW P, NEW a, NEW b, NEW line, LineOfText(X, t, P, a, b, line)
  PROVE  LinesEnded(t, P, b) = Append(LinesEnded(t, P, a), line) /\ LastIn(P, b) = b
<1>1. SubSeq(t, a + 1, a + Len(line)) = line
  BY StretchIs DEF LineOfText
<1>2. a \in Nat /\ b \in Nat /\ a < b /\ b \in P /\ \A p \in a + 1 .. b - 1 : p \notin P
  BY DEF LineOfText
<1>3. /\ LinesEnded(t, P, b) =
           Append(LinesEnded(t, P, a), SubSeq(t, LastIn(P, a) + 1, b - TerminatorLength(t, b)))
      /\ LastIn(P, b) = b
  BY <1>2, LinesEndedNext
<1>4. LastIn(P, a) = a /\ b - TerminatorLength(t, b) = a + Len(line)
  BY DEF LineOfText
<1> QED
  BY <1>1, <1>3, <1>4

(* The lines are in t, one after the other, each up to the next number in  *)
(* P, where a terminator like e ends.                                      *)
MarkedLine(t, ls, e, P, n) ==
  /\ \A j \in 1 .. Len(ls[n]) : t[EndOf(ls, e, n - 1) + j] = ls[n][j]
  /\ \A p \in EndOf(ls, e, n - 1) + 1 .. EndOf(ls, e, n) - 1 : p \notin P
  /\ EndOf(ls, e, n) \in P
  /\ TerminatorLength(t, EndOf(ls, e, n)) = Len(e)
Marked(t, ls, e, P) == \A n \in 1 .. Len(ls) : MarkedLine(t, ls, e, P, n)

LEMMA MarkedLineComesBack ==
  ASSUME NEW X, NEW ls \in Seq(Seq(X)), NEW e \in Seq(X), e # << >>, NEW t, NEW P,
         NEW n \in 1 .. Len(ls), MarkedLine(t, ls, e, P, n),
         LastIn(P, EndOf(ls, e, n - 1)) = EndOf(ls, e, n - 1)
  PROVE  /\ LinesEnded(t, P, EndOf(ls, e, n)) =
              Append(LinesEnded(t, P, EndOf(ls, e, n - 1)), ls[n])
         /\ LastIn(P, EndOf(ls, e, n)) = EndOf(ls, e, n)
<1> DEFINE line == ls[n]
           a == EndOf(ls, e, n - 1)
           b == EndOf(ls, e, n)
<1>1. n - 1 \in 0 .. Len(ls) /\ n \in 0 .. Len(ls)
  BY LenProperties
<1>2. a \in Nat /\ b \in Nat
  BY <1>1, EndOfLine
<1>3. b = a + (Len(line) + Len(e))
  BY EndOfLine
<1>4. line \in Seq(X)
  BY ElementOfSeq
<1>5. Len(line) \in Nat /\ Len(e) \in Nat /\ Len(e) > 0
  BY <1>4, LenProperties, EmptySeq
<1>6. /\ \A j \in 1 .. Len(line) : t[a + j] = line[j]
      /\ \A p \in a + 1 .. b - 1 : p \notin P
      /\ b \in P
      /\ TerminatorLength(t, b) = Len(e)
  BY DEF MarkedLine
<1>7. LastIn(P, a) = a
  OBVIOUS
<1> HIDE DEF line, a, b
<1>8. a < b
  BY ONLY <1>2, <1>3, <1>5
<1>9. b - TerminatorLength(t, b) = a + Len(line)
  <2>1. b - Len(e) = a + Len(line)
    BY ONLY <1>2, <1>3, <1>5
  <2> QED
    BY <1>6, <2>1
<1>10. LinesEnded(t, P, b) = Append(LinesEnded(t, P, a), line) /\ LastIn(P, b) = b
  <2>1. LineOfText(X, t, P, a, b, line)
    BY <1>2, <1>4, <1>6, <1>7, <1>8, <1>9 DEF LineOfText
  <2> QED
    BY ONLY <2>1, LineComesBack
<1> QED
  BY <1>10 DEF a, b, line

LEMMA MarkedLinesComeBack ==
  ASSUME NEW X, NEW ls \in Seq(Seq(X)), NEW e \in Seq(X), e # << >>, NEW t, NEW P,
         Marked(t, ls, e, P)
  PROVE  /\ LinesEnded(t, P, Len(Terminated(ls, e))) = ls
         /\ LastIn(P, Len(Terminated(ls, e))) = Len(Terminated(ls, e))
<1> DEFINE end(n) == EndOf(ls, e, n)
           S == {n \in Nat : n <= Len(ls) =>
                   LinesEnded(t, P, end(n)) = SubSeq(ls, 1, n) /\ LastIn(P, end(n)) = end(n)}
<1>1. Len(ls) \in Nat
  BY LenProperties
<1>2. 0 \in S
  <2>1. end(0) = 0 /\ SubSeq(ls, 1, 0) = << >>
    BY EndOfLine, SubSeqEmpty
  <2>2. LinesEnded(t, P, 0) = << >> /\ LastIn(P, 0) = 0
    BY LinesEndedFirst
  <2> QED
    BY <2>1, <2>2
<1>3. ASSUME NEW n \in Nat, n \in S
      PROVE  n + 1 \in S
  <2>1. ASSUME n + 1 <= Len(ls)
        PROVE  /\ LinesEnded(t, P, end(n + 1)) = SubSeq(ls, 1, n + 1)
               /\ LastIn(P, end(n + 1)) = end(n + 1)
    <3>1. /\ n <= Len(ls) /\ n \in 0 .. Len(ls) /\ n + 1 \in 1 .. Len(ls)
          /\ n < Len(ls) /\ (n + 1) - 1 = n
      BY <1>1, <2>1
    <3>2. LinesEnded(t, P, end(n)) = SubSeq(ls, 1, n) /\ LastIn(P, end(n)) = end(n)
      BY <1>3, <3>1
    <3>3. MarkedLine(t, ls, e, P, n + 1)
      BY <3>1 DEF Marked
    <3>4. /\ LinesEnded(t, P, end(n + 1)) = Append(LinesEnded(t, P, end(n)), ls[n + 1])
          /\ LastIn(P, end(n + 1)) = end(n + 1)
      <4> DEFINE m == n + 1
      <4>1. m \in 1 .. Len(ls) /\ m - 1 = n
        BY <3>1
      <4>2. MarkedLine(t, ls, e, P, m) /\ LastIn(P, EndOf(ls, e, m - 1)) = EndOf(ls, e, m - 1)
        BY <3>2, <3>3, <4>1
      <4> HIDE DEF m
      <4>3. /\ LinesEnded(t, P, EndOf(ls, e, m)) =
                 Append(LinesEnded(t, P, EndOf(ls, e, m - 1)), ls[m])
            /\ LastIn(P, EndOf(ls, e, m)) = EndOf(ls, e, m)
        BY <4>1, <4>2, MarkedLineComesBack
      <4> QED
        BY <4>1, <4>3 DEF m
    <3>5. SubSeq(ls, 1, n + 1) = Append(SubSeq(ls, 1, n), ls[n + 1])
      BY <3>1, FirstLines
    <3> QED
      BY <3>2, <3>4, <3>5
  <2>2. n + 1 \in Nat
    OBVIOUS
  <2> QED
    BY <2>1, <2>2
<1> HIDE DEF S, end
<1>4. Len(ls) \in S
  BY <1>1, <1>2, <1>3, SetInduction
<1>5. end(Len(ls)) = Len(Terminated(ls, e)) /\ SubSeq(ls, 1, Len(ls)) = ls
  BY EndOfLine, SubSeqFull DEF end
<1>6. Len(ls) <= Len(ls)
  BY <1>1
<1> QED
  BY <1>4, <1>5, <1>6 DEF S

(* Lines come back if the terminators in P are what is put after them, and *)
(* what follows the last one is a line unless it is empty.                 *)
LEMMA LinesComeBack ==
  ASSUME NEW X, NEW ls \in Seq(Seq(X)), NEW e \in Seq(X), e # << >>, NEW x \in Seq(X), NEW P,
         Marked(Terminated(ls, e) \o x, ls, e, P),
         \A p \in Len(Terminated(ls, e)) + 1 .. Len(Terminated(ls, e) \o x) : p \notin P
  PROVE  LinesBetween(Terminated(ls, e) \o x, P) = IF x = << >> THEN ls ELSE Append(ls, x)
<1> DEFINE all == Terminated(ls, e)
           t == all \o x
<1>1. LinesEnded(t, P, Len(all)) = ls /\ LastIn(P, Len(all)) = Len(all)
  BY MarkedLinesComeBack
<1>2. all \in Seq(X)
  BY TerminatedType
<1>3. \A p \in Len(all) + 1 .. Len(t) : p \notin P
  OBVIOUS
<1>4. /\ Len(t) = Len(all) + Len(x)
      /\ \A i \in 1 .. Len(all) + Len(x) : t[i] = IF i <= Len(all) THEN all[i] ELSE x[i - Len(all)]
  <2> HIDE DEF all
  <2> QED
    BY <1>2, ConcatProperties
<1>5. Len(all) \in Nat /\ Len(x) \in Nat
  BY <1>2, LenProperties
<1>6. LinesBetween(Terminated(ls, e) \o x, P) = LinesBetween(t, P)
  OBVIOUS
<1> HIDE DEF all, t
<1>7. InOrder(P, Len(t)) = InOrder(P, Len(all))
  <2>1. Len(t) \in Nat /\ Len(all) <= Len(t)
    BY ONLY <1>4, <1>5
  <2> QED
    BY <1>3, <1>5, <2>1, InOrderSkip
<1>8. LinesEnded(t, P, Len(t)) = ls /\ LastIn(P, Len(t)) = Len(all)
  BY <1>1, <1>7 DEF LinesEnded, LastIn
<1>9. SubSeq(t, Len(all) + 1, Len(t)) = x
  <2>1. ASSUME NEW i \in 1 .. Len(x)
        PROVE  t[Len(all) + i] = x[i]
    <3>1. /\ Len(all) + i \in 1 .. Len(all) + Len(x) /\ ~(Len(all) + i <= Len(all))
          /\ (Len(all) + i) - Len(all) = i
      BY <1>5
    <3> QED
      BY <1>4, <3>1
  <2> DEFINE a == Len(all)
  <2>2. a \in Nat /\ \A i \in 1 .. Len(x) : t[a + i] = x[i]
    BY <1>5, <2>1
  <2> HIDE DEF a
  <2>3. SubSeq(t, a + 1, a + Len(x)) = x
    BY <2>2, StretchIs
  <2> QED
    BY <1>4, <2>3 DEF a
<1>10. LinesBetween(t, P) = ls \o (IF x = << >> THEN << >> ELSE <<x>>)
  BY <1>8, <1>9 DEF LinesBetween
<1>11. ls \o << >> = ls
  BY ConcatEmptySeq
<1>12. ls \o <<x>> = Append(ls, x)
  BY AppendIsConcat
<1> QED
  BY <1>6, <1>10, <1>11, <1>12

(* What comes before the n-th line and after its terminator. *)
LEMMA Neighbours ==
  ASSUME NEW X, NEW t, NEW ls, NEW e, NEW x, MadeOf(X, t, ls, e, x), e # << >>,
         NEW n \in 1 .. Len(ls)
  PROVE  /\ EndOf(ls, e, n - 1) = 0 \/ t[EndOf(ls, e, n - 1)] = e[Len(e)]
         /\ EndOf(ls, e, n) < Len(t) =>
              \/ t[EndOf(ls, e, n) + 1] = e[1]
              \/ \E k \in 1 .. Len(ls) : ls[k] # << >> /\ t[EndOf(ls, e, n) + 1] = ls[k][1]
              \/ x # << >> /\ t[EndOf(ls, e, n) + 1] = x[1]
<1> DEFINE all == Terminated(ls, e)
           end(k) == EndOf(ls, e, k)
<1>1. ls \in Seq(Seq(X)) /\ e \in Seq(X) /\ x \in Seq(X) /\ t = all \o x
  BY DEF MadeOf
<1>2. Len(e) \in Nat /\ Len(e) > 0 /\ Len(ls) \in Nat /\ Len(x) \in Nat
  BY <1>1, LenProperties, EmptySeq
<1>3. \A k \in 1 .. Len(ls) : \A j \in 1 .. Len(e) : t[end(k - 1) + Len(ls[k]) + j] = e[j]
  <2> SUFFICES ASSUME NEW k \in 1 .. Len(ls), NEW j \in 1 .. Len(e)
               PROVE  t[end(k - 1) + Len(ls[k]) + j] = e[j]
    OBVIOUS
  <2> QED
    BY ONLY MadeOf(X, t, ls, e, x), LinePlaces
<1>4. \A k \in 1 .. Len(ls) : \A j \in 1 .. Len(ls[k]) : t[end(k - 1) + j] = ls[k][j]
  <2> SUFFICES ASSUME NEW k \in 1 .. Len(ls)
               PROVE  \A j \in 1 .. Len(ls[k]) : t[end(k - 1) + j] = ls[k][j]
    OBVIOUS
  <2> QED
    BY ONLY MadeOf(X, t, ls, e, x), LinePlaces
<1>5. \A k \in 1 .. Len(ls) : end(k) = end(k - 1) + (Len(ls[k]) + Len(e))
  BY <1>1, EndOfLine
<1>6. \A k \in 1 .. Len(ls) : Len(ls[k]) \in Nat /\ (Len(ls[k]) = 0 <=> ls[k] = << >>)
  <2> SUFFICES ASSUME NEW k \in 1 .. Len(ls)
               PROVE  Len(ls[k]) \in Nat /\ (Len(ls[k]) = 0 <=> ls[k] = << >>)
    OBVIOUS
  <2>1. ls[k] \in Seq(X)
    BY <1>1, ElementOfSeq
  <2> QED
    BY <2>1, LenProperties, EmptySeq
<1>7. \A k \in 0 .. Len(ls) : end(k) \in Nat
  BY <1>1, EndOfLine
<1>8. end(Len(ls)) = Len(all) /\ end(0) = 0
  BY <1>1, EndOfLine
<1>9. all \in Seq(X)
  BY <1>1, TerminatedType
<1>10. t = all \o x
  BY <1>1
<1> HIDE DEF end, all
<1>11. end(n - 1) = 0 \/ t[end(n - 1)] = e[Len(e)]
  <2>1. CASE n = 1
    BY <1>8, <2>1
  <2>2. CASE n # 1
    <3> DEFINE k == n - 1
    <3>1. k \in 1 .. Len(ls) /\ k - 1 \in 0 .. Len(ls)
      BY <1>2, <2>2
    <3> HIDE DEF k
    <3>2. end(k) = end(k - 1) + Len(ls[k]) + Len(e)
      <4>1. end(k) = end(k - 1) + (Len(ls[k]) + Len(e)) /\ Len(ls[k]) \in Nat
        BY <1>5, <1>6, <3>1
      <4>2. end(k - 1) \in Nat
        BY <1>7, <3>1
      <4> QED
        BY ONLY <1>2, <4>1, <4>2
    <3>3. t[end(k - 1) + Len(ls[k]) + Len(e)] = e[Len(e)]
      <4>1. Len(e) \in 1 .. Len(e)
        BY <1>2
      <4> QED
        BY ONLY <1>3, <3>1, <4>1
    <3>4. t[end(k)] = e[Len(e)]
      BY ONLY <3>2, <3>3
    <3> QED
      BY <3>4 DEF k
  <2> QED
    BY <2>1, <2>2
<1>12. ASSUME end(n) < Len(t)
       PROVE  \/ t[end(n) + 1] = e[1]
              \/ \E k \in 1 .. Len(ls) : ls[k] # << >> /\ t[end(n) + 1] = ls[k][1]
              \/ x # << >> /\ t[end(n) + 1] = x[1]
  <2>1. CASE n = Len(ls)
    <3>1. end(n) = Len(all)
      BY <1>8, <2>1
    <3>2. /\ Len(t) = Len(all) + Len(x)
          /\ \A i \in 1 .. Len(all) + Len(x) :
               t[i] = IF i <= Len(all) THEN all[i] ELSE x[i - Len(all)]
      BY <1>1, <1>9, <1>10, ConcatProperties
    <3>3. Len(all) \in Nat
      BY <1>9, LenProperties
    <3>4. Len(x) > 0
      BY ONLY <1>2, <1>12, <3>1, <3>2, <3>3
    <3>5. x # << >>
      BY <1>1, <3>4, EmptySeq
    <3>6. /\ Len(all) + 1 \in 1 .. Len(all) + Len(x) /\ ~(Len(all) + 1 <= Len(all))
          /\ (Len(all) + 1) - Len(all) = 1
      BY ONLY <1>2, <3>3, <3>4
    <3>7. t[Len(all) + 1] = x[1]
      BY <3>2, <3>6
    <3> QED
      BY <3>1, <3>5, <3>7
  <2>2. CASE n # Len(ls)
    <3> DEFINE k == n + 1
    <3>1. k \in 1 .. Len(ls) /\ k - 1 = n
      BY <1>2, <2>2
    <3>2. n \in 0 .. Len(ls)
      BY <1>2
    <3> HIDE DEF k
    <3>3. CASE ls[k] = << >>
      <4>1. t[end(n) + Len(ls[k]) + 1] = e[1]
        <5>1. 1 \in 1 .. Len(e)
          BY <1>2
        <5> QED
          BY ONLY <1>3, <3>1, <5>1
      <4>2. end(n) + Len(ls[k]) + 1 = end(n) + 1
        BY <1>6, <1>7, <3>1, <3>2, <3>3
      <4> QED
        BY ONLY <4>1, <4>2
    <3>4. CASE ls[k] # << >>
      <4>1. 1 \in 1 .. Len(ls[k])
        BY <1>6, <3>1, <3>4
      <4>2. t[end(n) + 1] = ls[k][1]
        BY <1>4, <3>1, <4>1
      <4> QED
        BY <3>1, <3>4, <4>2
    <3> QED
      BY <3>3, <3>4
  <2> QED
    BY <2>1, <2>2
<1> QED
  BY <1>11, <1>12 DEF end

(* All that is known of the n-th line's place, of bytes. *)
LineAt(t, ls, e, x, n, a, b) ==
  /\ a \in Nat /\ b \in Nat /\ b = a + (Len(ls[n]) + Len(e)) /\ b <= Len(t)
  /\ \A j \in 1 .. Len(ls[n]) : t[a + j] = ls[n][j]
  /\ \A j \in 1 .. Len(e) : t[a + Len(ls[n]) + j] = e[j]
  /\ a = 0 \/ t[a] = e[Len(e)]
  /\ b < Len(t) => \/ t[b + 1] = e[1]
                   \/ \E k \in 1 .. Len(ls) : ls[k] # << >> /\ t[b + 1] = ls[k][1]
                   \/ x # << >> /\ t[b + 1] = x[1]

LEMMA LineIsAt ==
  ASSUME NEW X, NEW t, NEW ls, NEW e, NEW x, MadeOf(X, t, ls, e, x), e # << >>,
         NEW n \in 1 .. Len(ls)
  PROVE  LineAt(t, ls, e, x, n, EndOf(ls, e, n - 1), EndOf(ls, e, n))
<1> DEFINE a == EndOf(ls, e, n - 1)
           b == EndOf(ls, e, n)
           all == Terminated(ls, e)
<1>1. ls \in Seq(Seq(X)) /\ e \in Seq(X) /\ x \in Seq(X) /\ t = all \o x
  BY DEF MadeOf
<1>2. n - 1 \in 0 .. Len(ls) /\ n \in 0 .. Len(ls)
  BY <1>1, LenProperties
<1>3. a \in Nat /\ b \in Nat
  BY ONLY <1>1, <1>2, EndOfLine
<1>4. b = a + (Len(ls[n]) + Len(e))
  BY ONLY <1>1, EndOfLine
<1>5. /\ b <= Len(all)
      /\ \A j \in 1 .. Len(ls[n]) : t[a + j] = ls[n][j]
      /\ \A j \in 1 .. Len(e) : t[a + Len(ls[n]) + j] = e[j]
  BY ONLY MadeOf(X, t, ls, e, x), LinePlaces
<1>6. /\ a = 0 \/ t[a] = e[Len(e)]
      /\ b < Len(t) => \/ t[b + 1] = e[1]
                       \/ \E k \in 1 .. Len(ls) : ls[k] # << >> /\ t[b + 1] = ls[k][1]
                       \/ x # << >> /\ t[b + 1] = x[1]
  BY ONLY MadeOf(X, t, ls, e, x), e # << >>, Neighbours
<1>7. all \in Seq(X)
  BY <1>1, TerminatedType
<1> HIDE DEF a, b, all
<1>8. Len(t) = Len(all) + Len(x) /\ Len(all) \in Nat /\ Len(x) \in Nat
  BY <1>1, <1>7, ConcatProperties, LenProperties
<1>9. b <= Len(t)
  BY ONLY <1>3, <1>5, <1>8
<1>10. LineAt(t, ls, e, x, n, a, b)
  BY ONLY <1>3, <1>4, <1>5, <1>6, <1>9 DEF LineAt
<1> QED
  BY <1>10 DEF a, b

(* The rest x comes last. *)
LEMMA RestIsAt ==
  ASSUME NEW X, NEW t, NEW ls, NEW e, NEW x, MadeOf(X, t, ls, e, x)
  PROVE  /\ t \in Seq(X) /\ Len(Terminated(ls, e)) \in Nat
         /\ Len(t) = Len(Terminated(ls, e)) + Len(x)
         /\ \A p \in Len(Terminated(ls, e)) + 1 .. Len(t) :
              /\ p - Len(Terminated(ls, e)) \in 1 .. Len(x)
              /\ t[p] = x[p - Len(Terminated(ls, e))]
<1> DEFINE all == Terminated(ls, e)
           m == Len(all)
<1>1. ls \in Seq(Seq(X)) /\ e \in Seq(X) /\ x \in Seq(X) /\ t = all \o x
  BY DEF MadeOf
<1>2. all \in Seq(X)
  BY <1>1, TerminatedType
<1> HIDE DEF all
<1>3. m \in Nat /\ Len(x) \in Nat
  BY <1>1, <1>2, LenProperties
<1>4. /\ t \in Seq(X) /\ Len(t) = m + Len(x)
      /\ \A i \in 1 .. m + Len(x) : t[i] = IF i <= m THEN all[i] ELSE x[i - m]
  BY <1>1, <1>2, ConcatProperties
<1> HIDE DEF m
<1>5. ASSUME NEW p \in m + 1 .. Len(t)
      PROVE  p - m \in 1 .. Len(x) /\ t[p] = x[p - m]
  <2>1. p - m \in 1 .. Len(x) /\ p \in 1 .. m + Len(x) /\ ~(p <= m)
    BY <1>3, <1>4
  <2> QED
    BY <1>4, <2>1
<1> QED
  BY <1>3, <1>4, <1>5 DEF m, all

-----------------------------------------------------------------------------
LEMMA EndingType ==
  ASSUME ByteAssumption
  PROVE  \A e \in Endings : e \in Seq(Byte) /\ e # << >>
<1>1. CR \in Byte /\ LF \in Byte
  BY ByteAssumption
<1>2. <<LF>> \in Seq(Byte) /\ <<LF>> # << >>
  BY <1>1
<1>3. <<CR, LF>> \in Seq(Byte) /\ <<CR, LF>> # << >>
  BY <1>1
<1>4. <<CR>> \in Seq(Byte) /\ <<CR>> # << >>
  BY <1>1
<1> QED
  BY <1>2, <1>3, <1>4 DEF Endings

(* A text made of bare lines and an ending splits into these lines.        *)
LEMMA BareLineIsMarked ==
  ASSUME ByteAssumption, NEW t, NEW ls, NEW e \in Endings, NEW x, MadeOf(Byte, t, ls, e, x),
         \A k \in 1 .. Len(ls) : Bare(ls[k]), Bare(x), NEW n \in 1 .. Len(ls)
  PROVE  MarkedLine(t, ls, e, LineFeeds(t) \cup BareReturns(t), n)
<1> DEFINE a == EndOf(ls, e, n - 1)
           b == EndOf(ls, e, n)
           line == ls[n]
           P == LineFeeds(t) \cup BareReturns(t)
<1>1. ls \in Seq(Seq(Byte)) /\ x \in Seq(Byte) /\ t \in Seq(Byte)
  BY RestIsAt DEF MadeOf
<1>2. e # << >> /\ CR # LF
  BY ONLY e \in Endings, EndingType, ByteAssumption
<1>3. LineAt(t, ls, e, x, n, a, b)
  BY ONLY MadeOf(Byte, t, ls, e, x), <1>2, LineIsAt
<1>4. line \in Seq(Byte) /\ Len(line) \in Nat /\ DOMAIN line = 1 .. Len(line)
  BY <1>1, ElementOfSeq, LenProperties
<1>5. \A j \in 1 .. Len(line) : line[j] # CR /\ line[j] # LF
  BY <1>4 DEF Bare
<1>6. \A k \in 1 .. Len(ls) : ls[k] # << >> => ls[k][1] # LF
  <2> SUFFICES ASSUME NEW k \in 1 .. Len(ls), ls[k] # << >>
               PROVE  ls[k][1] # LF
    OBVIOUS
  <2>1. ls[k] \in Seq(Byte)
    BY <1>1, ElementOfSeq
  <2>2. 1 \in DOMAIN ls[k]
    BY <2>1, EmptySeq, LenProperties
  <2> QED
    BY <2>2 DEF Bare
<1>7. x # << >> => x[1] # LF
  <2> SUFFICES ASSUME x # << >> PROVE x[1] # LF
    OBVIOUS
  <2>1. 1 \in DOMAIN x
    BY <1>1, EmptySeq, LenProperties
  <2> QED
    BY <2>1 DEF Bare
<1>8. DOMAIN t = 1 .. Len(t) /\ Len(t) \in Nat
  BY <1>1, LenProperties
<1> HIDE DEF a, b, line
<1>9. /\ a \in Nat /\ b \in Nat /\ b = a + (Len(line) + Len(e)) /\ b <= Len(t)
      /\ \A j \in 1 .. Len(line) : t[a + j] = line[j]
      /\ \A j \in 1 .. Len(e) : t[a + Len(line) + j] = e[j]
      /\ a = 0 \/ t[a] = e[Len(e)]
      /\ b < Len(t) => \/ t[b + 1] = e[1]
                       \/ \E k \in 1 .. Len(ls) : ls[k] # << >> /\ t[b + 1] = ls[k][1]
                       \/ x # << >> /\ t[b + 1] = x[1]
  BY <1>3 DEF LineAt, line
<1>10. ASSUME NEW p \in a + 1 .. a + Len(line)
       PROVE  p \notin P /\ t[p] # CR /\ t[p] # LF
  <2>1. p - a \in 1 .. Len(line) /\ a + (p - a) = p
    BY ONLY <1>4, <1>9
  <2>2. t[a + (p - a)] = line[p - a]
    BY ONLY <1>9, <2>1
  <2>3. t[p] # CR /\ t[p] # LF
    BY ONLY <1>5, <2>1, <2>2
  <2> QED
    BY <2>3 DEF LineFeeds, BareReturns
<1>11. CASE e = <<LF>>
  <2>1. Len(e) = 1 /\ e[1] = LF /\ e[Len(e)] = LF
    BY <1>11
  <2>2. b = a + Len(line) + 1 /\ b \in 1 .. Len(t) /\ b - 1 = a + Len(line)
    BY ONLY <1>4, <1>8, <1>9, <2>1
  <2>3. t[b] = LF
    <3>1. 1 \in 1 .. Len(e)
      BY <2>1
    <3> QED
      BY ONLY <1>9, <2>1, <2>2, <3>1
  <2>4. b \in P
    BY <1>8, <2>2, <2>3 DEF LineFeeds
  <2>5. \A p \in a + 1 .. b - 1 : p \notin P
    BY <1>10, <2>2
  <2>6. b > 1 => t[b - 1] # CR
    <3>1. CASE Len(line) > 0
      <4>1. a + Len(line) \in a + 1 .. a + Len(line)
        BY ONLY <1>4, <1>9, <3>1
      <4> QED
        BY <1>10, <2>2, <4>1
    <3>2. CASE Len(line) = 0
      <4>1. b - 1 = a /\ (b > 1 => a # 0)
        BY ONLY <1>9, <2>2, <3>2
      <4> QED
        BY <1>2, <1>9, <2>1, <4>1
    <3> QED
      BY <1>4, <3>1, <3>2
  <2>7. TerminatorLength(t, b) = Len(e)
    BY <2>1, <2>3, <2>6 DEF TerminatorLength
  <2> QED
    BY <1>9, <2>4, <2>5, <2>7 DEF MarkedLine, a, b, line
<1>12. CASE e = <<CR, LF>>
  <2>1. Len(e) = 2 /\ e[1] = CR /\ e[2] = LF
    BY <1>12
  <2>2. /\ b = a + Len(line) + 2 /\ b \in 1 .. Len(t) /\ b - 1 = a + Len(line) + 1
        /\ b > 1 /\ b - 1 < Len(t) /\ (b - 1) + 1 = b
    BY ONLY <1>4, <1>8, <1>9, <2>1
  <2>3. t[b] = LF /\ t[b - 1] = CR
    <3>1. 1 \in 1 .. Len(e) /\ 2 \in 1 .. Len(e)
      BY <2>1
    <3> QED
      BY ONLY <1>9, <2>1, <2>2, <3>1
  <2>4. b \in P
    BY <1>8, <2>2, <2>3 DEF LineFeeds
  <2>5. ASSUME NEW p \in a + 1 .. b - 1
        PROVE  p \notin P
    <3>1. p \in a + 1 .. a + Len(line) \/ p = b - 1
      <4>1. a \in Nat /\ Len(line) \in Nat /\ b = a + Len(line) + 2
        BY <1>4, <1>9, <2>2
      <4>2. p \in a + 1 .. b - 1
        OBVIOUS
      <4> QED
        BY ONLY <4>1, <4>2
    <3>2. b - 1 \notin P
      BY <1>2, <2>2, <2>3 DEF LineFeeds, BareReturns
    <3> QED
      BY <1>10, <3>1, <3>2
  <2>6. TerminatorLength(t, b) = Len(e)
    BY <2>1, <2>2, <2>3 DEF TerminatorLength
  <2> QED
    BY <1>9, <2>4, <2>5, <2>6 DEF MarkedLine, a, b, line
<1>13. CASE e = <<CR>>
  <2>1. Len(e) = 1 /\ e[1] = CR /\ e[Len(e)] = CR
    BY <1>13
  <2>2. b = a + Len(line) + 1 /\ b \in 1 .. Len(t) /\ b - 1 = a + Len(line)
    BY ONLY <1>4, <1>8, <1>9, <2>1
  <2>3. t[b] = CR
    <3>1. 1 \in 1 .. Len(e)
      BY <2>1
    <3> QED
      BY ONLY <1>9, <2>1, <2>2, <3>1
  <2>4. b < Len(t) => t[b + 1] # LF
    BY <1>2, <1>6, <1>7, <1>9, <2>1
  <2>5. b \in P
    BY <1>8, <2>2, <2>3, <2>4 DEF BareReturns
  <2>6. \A p \in a + 1 .. b - 1 : p \notin P
    BY <1>10, <2>2
  <2>7. TerminatorLength(t, b) = Len(e)
    BY <1>2, <2>1, <2>3 DEF TerminatorLength
  <2> QED
    BY <1>9, <2>5, <2>6, <2>7 DEF MarkedLine, a, b, line
<1> QED
  BY <1>11, <1>12, <1>13 DEF Endings

LEMMA LinesOfTerminated ==
  ASSUME ByteAssumption, NEW ls \in Seq(Seq(Byte)), \A k \in 1 .. Len(ls) : Bare(ls[k]),
         NEW e \in Endings, NEW x \in Seq(Byte), Bare(x)
  PROVE  LinesOf(Terminated(ls, e) \o x) = IF x = << >> THEN ls ELSE Append(ls, x)
<1> DEFINE t == Terminated(ls, e) \o x
           P == LineFeeds(t) \cup BareReturns(t)
<1>1. e \in Seq(Byte) /\ e # << >>
  BY EndingType
<1>2. MadeOf(Byte, t, ls, e, x)
  BY <1>1 DEF MadeOf
<1>3. LinesOf(Terminated(ls, e) \o x) = LinesBetween(Terminated(ls, e) \o x, P)
  BY DEF LinesOf
<1> HIDE DEF t
<1>4. Marked(t, ls, e, P)
  <2> SUFFICES ASSUME NEW n \in 1 .. Len(ls)
               PROVE  MarkedLine(t, ls, e, P, n)
    BY DEF Marked
  <2> QED
    BY <1>2, BareLineIsMarked
<1>5. ASSUME NEW p \in Len(Terminated(ls, e)) + 1 .. Len(t)
      PROVE  p \notin P
  <2>1. /\ p - Len(Terminated(ls, e)) \in 1 .. Len(x)
        /\ t[p] = x[p - Len(Terminated(ls, e))]
    BY ONLY <1>2, RestIsAt
  <2>2. DOMAIN x = 1 .. Len(x)
    BY LenProperties
  <2>3. t[p] # CR /\ t[p] # LF
    BY <2>1, <2>2 DEF Bare
  <2> QED
    BY <2>3 DEF LineFeeds, BareReturns
<1> HIDE DEF P
<1>6. LinesBetween(Terminated(ls, e) \o x, P) = IF x = << >> THEN ls ELSE Append(ls, x)
  BY <1>1, <1>4, <1>5, LinesComeBack DEF t
<1> QED
  BY <1>3, <1>6

(* What write_lines writes comes back, but for a last line that is empty.  *)
LEMMA FrontOfAppend ==
  ASSUME NEW X, NEW f \in Seq(X), NEW l \in X
  PROVE  Front(Append(f, l)) = f /\ Last(Append(f, l)) = l /\ Append(f, l) # << >>
<1> DEFINE ls == Append(f, l)
<1>1. /\ ls # << >> /\ Len(ls) = Len(f) + 1
      /\ \A k \in 1 .. Len(f) : ls[k] = f[k]
      /\ ls[Len(f) + 1] = l
  BY AppendProperties
<1>2. f \in Seq(X) /\ Len(f) \in Nat
  BY LenProperties
<1> HIDE DEF ls
<1>3. Last(ls) = l
  BY <1>1 DEF Last
<1>4. Front(ls) = SubSeq(ls, 1, Len(f))
  <2>1. Len(ls) - 1 = Len(f)
    BY <1>1, <1>2
  <2> QED
    BY <2>1 DEF Front
<1>5. f = [k \in 1 .. Len(f) |-> f[k]] /\ SubSeq(ls, 1, Len(f)) = [k \in 1 .. Len(f) |-> ls[k]]
  BY <1>2
<1>6. Front(ls) = f
  BY <1>1, <1>4, <1>5
<1> QED
  BY <1>1, <1>3, <1>6 DEF ls

LEMMA RenderedEmpty ==
  ASSUME NEW e
  PROVE  Rendered(<< >>, e) = << >>
<1>1. [k \in DOMAIN << >> |->
         IF k < Len(<< >>) THEN << >>[k] \o e ELSE << >>[k]] = << >>
  OBVIOUS
<1> QED
  BY <1>1, FlattenEmpty DEF Rendered

LEMMA LinesOfRendered ==
  ASSUME ByteAssumption, NEW ls \in Seq(Seq(Byte)), \A k \in 1 .. Len(ls) : Bare(ls[k]),
         NEW e \in Endings
  PROVE  LinesOf(Rendered(ls, e)) =
           IF ls # << >> /\ Last(ls) = << >> THEN Front(ls) ELSE ls
<1>1. e \in Seq(Byte) /\ << >> \in Seq(Byte)
  BY EndingType, EmptySeq
<1>2. CASE ls = << >>
  <2>1. /\ << >> \in Seq(Seq(Byte)) /\ Bare(<< >>)
        /\ \A k \in 1 .. Len(<< >>) : Bare(<< >>[k])
    BY EmptySeq DEF Bare
  <2>2. LinesOf(Terminated(<< >>, e) \o << >>) = << >>
    BY <1>1, <2>1, LinesOfTerminated
  <2>3. Terminated(<< >>, e) \o << >> = << >>
    BY TerminatedEmpty
  <2> QED
    BY <1>2, <2>2, <2>3, RenderedEmpty
<1>3. CASE ls # << >>
  <2>1. PICK f \in Seq(Seq(Byte)), l \in Seq(Byte) : ls = Append(f, l)
    BY <1>3, SequenceEmptyOrAppend
  <2>2. Front(ls) = f /\ Last(ls) = l
    BY <2>1, FrontOfAppend
  <2>3. Rendered(ls, e) = Terminated(f, e) \o l
    BY <1>1, <2>1, TerminatedAppend
  <2>4. Bare(l) /\ \A k \in 1 .. Len(f) : Bare(f[k])
    <3>1. /\ Len(ls) = Len(f) + 1 /\ \A k \in 1 .. Len(f) : ls[k] = f[k]
          /\ ls[Len(f) + 1] = l /\ Len(f) \in Nat
      BY <2>1, AppendProperties, LenProperties
    <3>2. Len(f) + 1 \in 1 .. Len(ls) /\ \A k \in 1 .. Len(f) : k \in 1 .. Len(ls)
      BY <3>1
    <3> QED
      BY <3>1, <3>2
  <2>5. LinesOf(Terminated(f, e) \o l) = IF l = << >> THEN f ELSE Append(f, l)
    BY <2>4, LinesOfTerminated
  <2> QED
    BY <1>3, <2>1, <2>2, <2>3, <2>5
<1> QED
  BY <1>2, <1>3

-----------------------------------------------------------------------------
(* A text of lines without LF that do not end in CR comes back of          *)
(* str::lines, if they are terminated by LF or CRLF.                       *)
StrLine(line) == (\A j \in 1 .. Len(line) : line[j] # LF) /\ (line # << >> => Last(line) # CR)

StrEndings == {<<LF>>, <<CR, LF>>}

LEMMA StrLineIsMarked ==
  ASSUME ByteAssumption, NEW t, NEW ls, NEW e \in StrEndings, NEW x,
         MadeOf(Byte, t, ls, e, x), \A k \in 1 .. Len(ls) : StrLine(ls[k]),
         NEW n \in 1 .. Len(ls)
  PROVE  MarkedLine(t, ls, e, LineFeeds(t), n)
<1> DEFINE a == EndOf(ls, e, n - 1)
           b == EndOf(ls, e, n)
           line == ls[n]
           P == LineFeeds(t)
<1>1. ls \in Seq(Seq(Byte)) /\ x \in Seq(Byte) /\ t \in Seq(Byte)
  BY RestIsAt DEF MadeOf
<1>2. e # << >> /\ CR # LF
  <2>1. e = <<LF>> \/ e = <<CR, LF>>
    BY DEF StrEndings
  <2>2. e # << >>
    BY ONLY <2>1
  <2> QED
    BY ONLY <2>2, ByteAssumption
<1>3. LineAt(t, ls, e, x, n, a, b)
  BY ONLY MadeOf(Byte, t, ls, e, x), <1>2, LineIsAt
<1>4. line \in Seq(Byte) /\ Len(line) \in Nat /\ (Len(line) > 0 => line # << >>)
  BY <1>1, ElementOfSeq, LenProperties, EmptySeq
<1>5. (\A j \in 1 .. Len(line) : line[j] # LF) /\ (line # << >> => line[Len(line)] # CR)
  BY DEF StrLine, Last
<1>6. DOMAIN t = 1 .. Len(t) /\ Len(t) \in Nat
  BY <1>1, LenProperties
<1> HIDE DEF a, b, line
<1>7. /\ a \in Nat /\ b \in Nat /\ b = a + (Len(line) + Len(e)) /\ b <= Len(t)
      /\ \A j \in 1 .. Len(line) : t[a + j] = line[j]
      /\ \A j \in 1 .. Len(e) : t[a + Len(line) + j] = e[j]
      /\ a = 0 \/ t[a] = e[Len(e)]
  BY <1>3 DEF LineAt, line
<1>8. ASSUME NEW p \in a + 1 .. a + Len(line)
      PROVE  p \notin P
  <2>1. p - a \in 1 .. Len(line) /\ a + (p - a) = p
    BY ONLY <1>4, <1>7
  <2>2. t[a + (p - a)] = line[p - a]
    BY ONLY <1>7, <2>1
  <2>3. t[p] # LF
    BY ONLY <1>5, <2>1, <2>2
  <2> QED
    BY <2>3 DEF LineFeeds
<1>9. CASE e = <<LF>>
  <2>1. Len(e) = 1 /\ e[1] = LF /\ e[Len(e)] = LF
    BY <1>9
  <2>2. b = a + Len(line) + 1 /\ b \in 1 .. Len(t) /\ b - 1 = a + Len(line)
    BY ONLY <1>4, <1>6, <1>7, <2>1
  <2>3. t[b] = LF
    <3>1. 1 \in 1 .. Len(e)
      BY <2>1
    <3> QED
      BY ONLY <1>7, <2>1, <2>2, <3>1
  <2>4. b \in P
    BY <1>6, <2>2, <2>3 DEF LineFeeds
  <2>5. \A p \in a + 1 .. b - 1 : p \notin P
    BY <1>8, <2>2
  <2>6. b > 1 => t[b - 1] # CR
    <3>1. CASE Len(line) > 0
      <4>1. Len(line) \in 1 .. Len(line)
        BY ONLY <1>4, <3>1
      <4>2. t[a + Len(line)] = line[Len(line)]
        BY ONLY <1>7, <4>1
      <4> QED
        BY ONLY <1>4, <1>5, <2>2, <3>1, <4>2
    <3>2. CASE Len(line) = 0
      <4>1. b - 1 = a /\ (b > 1 => a # 0)
        BY ONLY <1>7, <2>2, <3>2
      <4> QED
        BY <1>2, <1>7, <2>1, <4>1
    <3> QED
      BY <1>4, <3>1, <3>2
  <2>7. TerminatorLength(t, b) = Len(e)
    BY <2>1, <2>3, <2>6 DEF TerminatorLength
  <2> QED
    BY <1>7, <2>4, <2>5, <2>7 DEF MarkedLine, a, b, line
<1>10. CASE e = <<CR, LF>>
  <2>1. Len(e) = 2 /\ e[1] = CR /\ e[2] = LF
    BY <1>10
  <2>2. /\ b = a + Len(line) + 2 /\ b \in 1 .. Len(t) /\ b - 1 = a + Len(line) + 1
        /\ b > 1 /\ b - 1 < Len(t) /\ (b - 1) + 1 = b
    BY ONLY <1>4, <1>6, <1>7, <2>1
  <2>3. t[b] = LF /\ t[b - 1] = CR
    <3>1. 1 \in 1 .. Len(e) /\ 2 \in 1 .. Len(e)
      BY <2>1
    <3> QED
      BY ONLY <1>7, <2>1, <2>2, <3>1
  <2>4. b \in P
    BY <1>6, <2>2, <2>3 DEF LineFeeds
  <2>5. ASSUME NEW p \in a + 1 .. b - 1
        PROVE  p \notin P
    <3>1. p \in a + 1 .. a + Len(line) \/ p = b - 1
      <4>1. a \in Nat /\ Len(line) \in Nat /\ b = a + Len(line) + 2
        BY <1>4, <1>7, <2>2
      <4>2. p \in a + 1 .. b - 1
        OBVIOUS
      <4> QED
        BY ONLY <4>1, <4>2
    <3>2. b - 1 \notin P
      BY <1>2, <2>3 DEF LineFeeds
    <3> QED
      BY <1>8, <3>1, <3>2
  <2>6. TerminatorLength(t, b) = Len(e)
    BY <2>1, <2>2, <2>3 DEF TerminatorLength
  <2> QED
    BY <1>7, <2>4, <2>5, <2>6 DEF MarkedLine, a, b, line
<1> QED
  BY <1>9, <1>10 DEF StrEndings

LEMMA StrLinesOfTerminated ==
  ASSUME ByteAssumption, NEW ls \in Seq(Seq(Byte)), \A k \in 1 .. Len(ls) : StrLine(ls[k]),
         NEW e \in StrEndings
  PROVE  StrLines(Terminated(ls, e)) = ls
<1> DEFINE x == << >>
           t == Terminated(ls, e) \o x
           P == LineFeeds(t)
<1>1. e \in Seq(Byte) /\ e # << >>
  BY EndingType DEF Endings, StrEndings
<1>2. x \in Seq(Byte) /\ Len(x) = 0
  BY EmptySeq
<1>3. Terminated(ls, e) \in Seq(Byte)
  BY <1>1, TerminatedType
<1>4. t = Terminated(ls, e)
  BY <1>3, ConcatEmptySeq
<1>5. StrLines(Terminated(ls, e)) = LinesBetween(Terminated(ls, e) \o x, P)
  BY <1>4 DEF StrLines
<1> HIDE DEF x
<1>6. MadeOf(Byte, t, ls, e, x)
  BY <1>1, <1>2 DEF MadeOf
<1> HIDE DEF t
<1>7. Marked(t, ls, e, P)
  <2> SUFFICES ASSUME NEW n \in 1 .. Len(ls)
               PROVE  MarkedLine(t, ls, e, P, n)
    BY DEF Marked
  <2> QED
    BY <1>6, StrLineIsMarked
<1>8. ASSUME NEW p \in Len(Terminated(ls, e)) + 1 .. Len(t)
      PROVE  p \notin P
  <2>1. p - Len(Terminated(ls, e)) \in 1 .. Len(x)
    BY ONLY <1>6, RestIsAt
  <2> QED
    BY <1>2, <2>1
<1> HIDE DEF P
<1>9. ls \in Seq(Seq(Byte)) /\ e \in Seq(Byte) /\ e # << >> /\ x \in Seq(Byte)
  BY <1>1, <1>2
<1>10. \A p \in Len(Terminated(ls, e)) + 1 .. Len(Terminated(ls, e) \o x) : p \notin P
  BY ONLY <1>8 DEF t
<1>11. Marked(Terminated(ls, e) \o x, ls, e, P)
  BY ONLY <1>7 DEF t
<1>12. LinesBetween(Terminated(ls, e) \o x, P) = IF x = << >> THEN ls ELSE Append(ls, x)
  BY ONLY <1>9, <1>10, <1>11, LinesComeBack
<1> QED
  BY <1>5, <1>12 DEF x

-----------------------------------------------------------------------------
(* A sequence whose elements are all in S is one of S.                     *)
LEMMA SeqWider ==
  ASSUME NEW X, NEW Y, X \subseteq Y
  PROVE  Seq(X) \subseteq Seq(Y)
<1> SUFFICES ASSUME NEW s \in Seq(X) PROVE s \in Seq(Y)
  OBVIOUS
<1>1. s \in [1 .. Len(s) -> Y] /\ Len(s) \in Nat
  OBVIOUS
<1> QED
  BY <1>1, FunctionIsSeq

(* The numbers that InOrder lists are of P and of 1 .. n, and all are      *)
(* listed where P has them all.                                            *)
LEMMA InOrderType ==
  ASSUME NEW P, NEW n \in Nat
  PROVE  InOrder(P, n) \in Seq({p \in 1 .. n : p \in P})
<1> DEFINE Q(m) == {p \in 1 .. m : p \in P}
           S == {m \in Nat : InOrder(P, m) \in Seq(Q(m))}
<1>1. 0 \in S
  BY InOrderRecursion, EmptySeq
<1>2. ASSUME NEW m \in Nat, m \in S
      PROVE  m + 1 \in S
  <2>1. InOrder(P, m) \in Seq(Q(m)) /\ Q(m) \subseteq Q(m + 1) /\ m + 1 \in 1 .. m + 1
    BY <1>2
  <2>2. m + 1 \in P => m + 1 \in Q(m + 1)
    BY <2>1
  <2> HIDE DEF Q
  <2>3. InOrder(P, m) \in Seq(Q(m + 1))
    BY <2>1, SeqWider
  <2>4. InOrder(P, m + 1) \in Seq(Q(m + 1))
    <3>1. InOrder(P, m + 1) =
            IF m + 1 \in P THEN Append(InOrder(P, m), m + 1) ELSE InOrder(P, m)
      BY InOrderRecursion
    <3>2. \A s \in Seq(Q(m + 1)), x \in Q(m + 1) : Append(s, x) \in Seq(Q(m + 1))
      BY AppendProperties
    <3> QED
      BY <2>2, <2>3, <3>1, <3>2
  <2> QED
    BY <2>4
<1> HIDE DEF S
<1>3. n \in S
  BY <1>1, <1>2, SetInduction
<1> QED
  BY <1>3 DEF S

LEMMA InOrderAll ==
  ASSUME NEW P, NEW n \in Nat, \A p \in 1 .. n : p \in P
  PROVE  InOrder(P, n) = [k \in 1 .. n |-> k]
<1> DEFINE S == {m \in Nat : m <= n => InOrder(P, m) = [k \in 1 .. m |-> k]}
<1>1. 0 \in S
  BY InOrderRecursion
<1>2. ASSUME NEW m \in Nat, m \in S
      PROVE  m + 1 \in S
  <2> SUFFICES ASSUME m + 1 <= n
               PROVE  InOrder(P, m + 1) = [k \in 1 .. m + 1 |-> k]
    OBVIOUS
  <2> DEFINE u == [k \in 1 .. m |-> k]
  <2>1. InOrder(P, m) = u /\ m + 1 \in P
    BY <1>2
  <2>2. u \in Seq(Nat) /\ Len(u) = m
    <3>1. u \in [1 .. m -> Nat]
      OBVIOUS
    <3> HIDE DEF u
    <3> QED
      BY <3>1, FunctionIsSeq
  <2>3. InOrder(P, m + 1) = Append(u, m + 1)
    BY <2>1, InOrderRecursion
  <2>4. Append(u, m + 1) = [k \in 1 .. m + 1 |-> k]
    BY <2>2
  <2> QED
    BY <2>3, <2>4
<1> HIDE DEF S
<1>3. n \in S
  BY <1>1, <1>2, SetInduction
<1> QED
  BY <1>3 DEF S

(* ItemsIn takes items, those in S only, and all if all are.               *)
LEMMA ItemsType ==
  ASSUME NEW X, NEW s \in Seq(X), NEW S
  PROVE  ItemsIn(s, S) \in Seq({x \in X : x \in S})
<1> DEFINE P == {k \in DOMAIN s : s[k] \in S}
           at == InOrder(P, Len(s))
           some == {x \in X : x \in S}
<1>1. at \in Seq({p \in 1 .. Len(s) : p \in P}) /\ Len(s) \in Nat
  BY InOrderType
<1>2. \A p \in P : s[p] \in some
  OBVIOUS
<1> HIDE DEF at, some
<1>3. Len(at) \in Nat /\ DOMAIN at = 1 .. Len(at) /\ \A k \in 1 .. Len(at) : at[k] \in P
  BY <1>1
<1>4. [k \in DOMAIN at |-> s[at[k]]] \in [1 .. Len(at) -> some]
  BY <1>2, <1>3
<1>5. [k \in DOMAIN at |-> s[at[k]]] \in Seq(some)
  BY <1>3, <1>4, FunctionIsSeq
<1> QED
  BY <1>5 DEF ItemsIn, at, some

LEMMA ItemsAll ==
  ASSUME NEW X, NEW s \in Seq(X), NEW S, \A k \in 1 .. Len(s) : s[k] \in S
  PROVE  ItemsIn(s, S) = s
<1> DEFINE P == {k \in DOMAIN s : s[k] \in S}
           at == InOrder(P, Len(s))
<1>1. Len(s) \in Nat /\ DOMAIN s = 1 .. Len(s) /\ \A p \in 1 .. Len(s) : p \in P
  OBVIOUS
<1> HIDE DEF P
<1>2. at = [k \in 1 .. Len(s) |-> k]
  BY <1>1, InOrderAll
<1> HIDE DEF at
<1>3. [k \in DOMAIN at |-> s[at[k]]] = [k \in 1 .. Len(s) |-> s[k]]
  BY <1>2
<1>4. ItemsIn(s, S) = [k \in 1 .. Len(s) |-> s[k]]
  BY <1>3 DEF ItemsIn, at, P
<1> QED
  BY <1>1, <1>4

(* A stretch of t without a position of P. *)
LEMMA StretchType ==
  ASSUME NEW X, NEW t \in Seq(X), NEW P, NEW Y,
         \A p \in 1 .. Len(t) : p \notin P => t[p] \in Y,
         NEW a \in Nat, NEW b \in Int, b <= Len(t), \A p \in a + 1 .. b : p \notin P
  PROVE  SubSeq(t, a + 1, b) \in Seq(Y)
<1>1. CASE b <= a
  <2>1. SubSeq(t, a + 1, b) = << >>
    BY <1>1
  <2> QED
    BY <2>1, EmptySeq
<1>2. CASE ~(b <= a)
  <2> DEFINE u == SubSeq(t, a + 1, b)
  <2>1. b - a \in Nat /\ \A k \in 1 .. b - a : k + a \in a + 1 .. b /\ k + a \in 1 .. Len(t)
    BY <1>2
  <2>2. u = [k \in 1 .. b - a |-> t[k + a]]
    BY <1>2
  <2>3. \A k \in 1 .. b - a : t[k + a] \in Y
    BY <2>1
  <2> HIDE DEF u
  <2>4. u \in [1 .. b - a -> Y]
    BY <2>2, <2>3
  <2> QED
    BY <2>1, <2>4, FunctionIsSeq DEF u
<1> QED
  BY <1>1, <1>2

(* What the scan for the positions of P has found up to n.                 *)
EndedWell(t, P, Y, n) ==
  /\ LinesEnded(t, P, n) \in Seq(Seq(Y))
  /\ LastIn(P, n) \in 0 .. n
  /\ \A p \in LastIn(P, n) + 1 .. n : p \notin P

LEMMA EndedWellNext ==
  ASSUME NEW X, NEW t \in Seq(X), NEW P, NEW Y,
         \A p \in 1 .. Len(t) : p \notin P => t[p] \in Y,
         NEW n \in Nat, n < Len(t), EndedWell(t, P, Y, n)
  PROVE  EndedWell(t, P, Y, n + 1)
<1> DEFINE m == LastIn(P, n)
<1>1. m \in Nat /\ m <= n /\ \A p \in m + 1 .. n : p \notin P
  BY DEF EndedWell
<1>2. LinesEnded(t, P, n) \in Seq(Seq(Y))
  BY DEF EndedWell
<1> HIDE DEF m
<1>3. CASE n + 1 \notin P
  <2>1. \A p \in n + 1 .. n + 1 : p \notin P
    BY <1>3
  <2>2. InOrder(P, n + 1) = InOrder(P, n)
    BY <2>1, InOrderSkip
  <2>3. LinesEnded(t, P, n + 1) = LinesEnded(t, P, n) /\ LastIn(P, n + 1) = m
    BY <2>2 DEF LinesEnded, LastIn, m
  <2>4. \A p \in m + 1 .. n + 1 : p \notin P
    <3> SUFFICES ASSUME NEW p \in m + 1 .. n + 1 PROVE p \notin P
      OBVIOUS
    <3>1. p \in m + 1 .. n \/ p = n + 1
      BY <1>1
    <3> QED
      BY <1>1, <1>3, <3>1
  <2>5. m \in 0 .. n + 1
    BY <1>1
  <2> QED
    BY <1>2, <2>3, <2>4, <2>5 DEF EndedWell
<1>4. CASE n + 1 \in P
  <2> DEFINE b == (n + 1) - TerminatorLength(t, n + 1)
             line == SubSeq(t, m + 1, b)
  <2>1. InOrder(P, n) = InOrder(P, m)
    BY <1>1, InOrderSkip
  <2>2. LinesEnded(t, P, m) = LinesEnded(t, P, n) /\ LastIn(P, m) = m
    BY <2>1 DEF LinesEnded, LastIn, m
  <2>3. \A p \in m + 1 .. (n + 1) - 1 : p \notin P
    BY <1>1
  <2>4. m < n + 1 /\ n + 1 \in Nat
    BY <1>1
  <2>5. /\ LinesEnded(t, P, n + 1) = Append(LinesEnded(t, P, n), line)
        /\ LastIn(P, n + 1) = n + 1
    <3> DEFINE N == n + 1
    <3>1. /\ m \in Nat /\ N \in Nat /\ m < N /\ N \in P
          /\ \A p \in m + 1 .. N - 1 : p \notin P
      BY <1>1, <1>4, <2>3, <2>4
    <3> HIDE DEF N
    <3>2. /\ LinesEnded(t, P, N) =
               Append(LinesEnded(t, P, m), SubSeq(t, LastIn(P, m) + 1,
                                                  N - TerminatorLength(t, N)))
          /\ LastIn(P, N) = N
      BY ONLY <3>1, LinesEndedNext
    <3> QED
      BY ONLY <2>2, <3>2 DEF N
  <2>6. b \in Int /\ b <= n
    BY DEF TerminatorLength
  <2> HIDE DEF b
  <2>7. b <= Len(t) /\ \A p \in m + 1 .. b : p \notin P
    BY <1>1, <2>6
  <2>8. line \in Seq(Y)
    BY <1>1, <2>6, <2>7, StretchType
  <2> HIDE DEF line
  <2>9. LinesEnded(t, P, n + 1) \in Seq(Seq(Y))
    <3>1. \A ls \in Seq(Seq(Y)), l \in Seq(Y) : Append(ls, l) \in Seq(Seq(Y))
      BY AppendProperties
    <3> QED
      BY <1>2, <2>5, <2>8, <3>1
  <2> QED
    BY <2>5, <2>9 DEF EndedWell
<1> QED
  BY <1>3, <1>4

(* The lines between the positions of P have what the text has elsewhere.  *)
LEMMA LinesBetweenType ==
  ASSUME NEW X, NEW t \in Seq(X), NEW P, NEW Y,
         \A p \in 1 .. Len(t) : p \notin P => t[p] \in Y
  PROVE  LinesBetween(t, P) \in Seq(Seq(Y))
<1> DEFINE S == {n \in Nat : n <= Len(t) => EndedWell(t, P, Y, n)}
<1>1. 0 \in S
  <2>1. LinesEnded(t, P, 0) = << >> /\ LastIn(P, 0) = 0 /\ << >> \in Seq(Seq(Y))
    BY LinesEndedFirst, EmptySeq
  <2>2. LastIn(P, 0) \in 0 .. 0
    BY ONLY <2>1
  <2>3. \A p \in LastIn(P, 0) + 1 .. 0 : p \notin P
    BY ONLY <2>1
  <2>4. EndedWell(t, P, Y, 0)
    BY ONLY <2>1, <2>2, <2>3 DEF EndedWell
  <2> QED
    BY <2>4
<1>2. ASSUME NEW n \in Nat, n \in S
      PROVE  n + 1 \in S
  <2> SUFFICES ASSUME n + 1 <= Len(t) PROVE EndedWell(t, P, Y, n + 1)
    OBVIOUS
  <2>1. n < Len(t) /\ n <= Len(t)
    OBVIOUS
  <2>2. EndedWell(t, P, Y, n)
    BY <1>2, <2>1
  <2> QED
    BY <2>1, <2>2, EndedWellNext
<1> HIDE DEF S
<1>3. Len(t) \in Nat /\ Len(t) \in S
  BY <1>1, <1>2, SetInduction
<1>4. EndedWell(t, P, Y, Len(t))
  BY <1>3 DEF S
<1> DEFINE a == LastIn(P, Len(t))
           rest == SubSeq(t, a + 1, Len(t))
<1>5. a \in Nat /\ \A p \in a + 1 .. Len(t) : p \notin P
  BY <1>3, <1>4 DEF EndedWell
<1>6. LinesEnded(t, P, Len(t)) \in Seq(Seq(Y))
  BY <1>4 DEF EndedWell
<1> HIDE DEF a
<1>7. Len(t) \in Int /\ Len(t) <= Len(t)
  BY <1>3
<1>8. rest \in Seq(Y)
  BY <1>5, <1>7, StretchType
<1> HIDE DEF rest
<1>9. << >> \in Seq(Seq(Y)) /\ <<rest>> \in Seq(Seq(Y))
  BY <1>8, EmptySeq
<1>10. LinesEnded(t, P, Len(t)) \o (IF rest = << >> THEN << >> ELSE <<rest>>)
         \in Seq(Seq(Y))
  BY <1>6, <1>9, ConcatProperties
<1> QED
  BY <1>10 DEF LinesBetween, rest, a

(* Neither splitting leaves an LF in a line. *)
LEMMA SplitType ==
  ASSUME NEW X, NEW t \in Seq(X)
  PROVE  /\ LinesOf(t) \in Seq(Seq(X \ {LF}))
         /\ StrLines(t) \in Seq(Seq(X \ {LF}))
<1>1. \A p \in 1 .. Len(t) : p \notin LineFeeds(t) => t[p] \in X \ {LF}
  BY DEF LineFeeds
<1>2. \A p \in 1 .. Len(t) :
        p \notin LineFeeds(t) \cup BareReturns(t) => t[p] \in X \ {LF}
  BY <1>1
<1>3. LinesBetween(t, LineFeeds(t)) \in Seq(Seq(X \ {LF}))
  BY <1>1, LinesBetweenType
<1>4. LinesBetween(t, LineFeeds(t) \cup BareReturns(t)) \in Seq(Seq(X \ {LF}))
  BY <1>2, LinesBetweenType
<1> QED
  BY <1>3, <1>4 DEF LinesOf, StrLines
=============================================================================
