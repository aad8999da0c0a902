-------------------------- MODULE ProcessesProofs ---------------------------
(***************************************************************************)
(* The memory map and the processes laid out in it, for every table size,  *)
(* process size and word length: what mm_find computes, by induction along *)
(* the map, and what follows for the regions of the processes.             *)
(***************************************************************************)
EXTENDS Processes, FiniteSetTheorems, SequenceTheorems, WellFoundedInduction, TLAPS

(* Induction over the natural numbers, for a set: the least number outside *)
(* it would follow one inside.                                             *)
Less == OpToRel(<, Nat)

(* A set of numbers has a least one.                                       *)
LEMMA LeastOf ==
    ASSUME NEW U, U \subseteq Nat, U # {}
    PROVE  \E x \in U : \A y \in U : x <= y
  <1>1. IsWellFoundedOn(Less, Nat)
    BY NatLessThanWellFounded DEF Less
  <1>2. PICK x \in U : \A y \in U : ~(<<y, x>> \in Less)
    BY <1>1, WFMin
  <1> SUFFICES ASSUME NEW y \in U PROVE x <= y
    BY <1>2
  <1>3. x \in Nat /\ y \in Nat
    OBVIOUS
  <1>4. y < x => <<y, x>> \in Less
    BY <1>3 DEF Less, OpToRel
  <1> QED
    BY <1>2, <1>3, <1>4

(* Induction over numbers, for a set instead of a predicate.               *)
LEMMA SetInduction ==
    ASSUME NEW T, 0 \in T, \A n \in Nat : n \in T => n + 1 \in T
    PROVE  \A n \in Nat : n \in T
  <1> SUFFICES ASSUME NEW k \in Nat, k \notin T PROVE FALSE
    OBVIOUS
  <1> DEFINE U == Nat \ T
  <1>1. U \subseteq Nat /\ U # {}
    OBVIOUS
  <1>2. PICK x \in U : \A y \in U : x <= y
    <2> HIDE DEF U
    <2> QED BY <1>1, LeastOf
  <1>3. x \in Nat /\ x # 0 /\ x - 1 \in Nat
    OBVIOUS
  <1>4. x - 1 \in U
    BY <1>3
  <1> QED
    BY <1>2, <1>3, <1>4
-----------------------------------------------------------------------------
(* Sums: the recursive function is there, and it adds up.                  *)
LEMMA SumsThere ==
    ASSUME NEW s, s \in Seq(Nat)
    PROVE  \E f : f = [n \in 0 .. Len(s) |-> IF n = 0 THEN 0 ELSE f[n - 1] + s[n]]
  <1> DEFINE T == {k \in Nat : \E f : f = [n \in 0 .. k |->
                                              IF n = 0 THEN 0 ELSE f[n - 1] + s[n]]}
  <1>1. 0 \in T
    <2> DEFINE f == [n \in 0 .. 0 |-> 0]
    <2>1. f = [n \in 0 .. 0 |-> IF n = 0 THEN 0 ELSE f[n - 1] + s[n]]
      OBVIOUS
    <2> QED BY <2>1
  <1>2. ASSUME NEW k \in Nat, k \in T PROVE k + 1 \in T
    <2>1. PICK f : f = [n \in 0 .. k |-> IF n = 0 THEN 0 ELSE f[n - 1] + s[n]]
      BY <1>2
    <2> DEFINE g == [n \in 0 .. k + 1 |-> IF n = 0 THEN 0 ELSE f[n - 1] + s[n]]
    <2>2. \A n \in 0 .. k : g[n] = f[n]
      BY <2>1
    <2>3. \A n \in 0 .. k + 1 : n = 0 \/ n - 1 \in 0 .. k
      OBVIOUS
    <2>4. \A n \in 0 .. k + 1 : g[n] = (IF n = 0 THEN 0 ELSE g[n - 1] + s[n])
      BY <2>2, <2>3
    <2>5. g = [n \in 0 .. k + 1 |-> IF n = 0 THEN 0 ELSE g[n - 1] + s[n]]
      <3> DEFINE h == [n \in 0 .. k + 1 |-> IF n = 0 THEN 0 ELSE g[n - 1] + s[n]]
      <3>1. \A n \in 0 .. k + 1 : h[n] = g[n]
        BY <2>4
      <3>2. DOMAIN h = 0 .. k + 1 /\ DOMAIN g = 0 .. k + 1
        OBVIOUS
      <3> QED BY <3>1, <3>2
    <2>6. \E h : h = [n \in 0 .. k + 1 |-> IF n = 0 THEN 0 ELSE h[n - 1] + s[n]]
      <3> HIDE DEF g
      <3> QED BY <2>5, Zenon
    <2>7. k + 1 \in Nat
      OBVIOUS
    <2> QED BY <2>6, <2>7, Zenon
  <1>3. \A k \in Nat : k \in T
    <2> HIDE DEF T
    <2> QED BY <1>1, <1>2, SetInduction
  <1>4. Len(s) \in T
    BY <1>3
  <1> QED BY <1>4

(* Sums of a sequence: by the function that defines them.                  *)
LEMMA SumsOf ==
    ASSUME NEW s, s \in Seq(Nat)
    PROVE  /\ DOMAIN Sums(s) = 0 .. Len(s)
           /\ Sums(s)[0] = 0
           /\ \A n \in 1 .. Len(s) : Sums(s)[n] = Sums(s)[n - 1] + s[n]
  <1>1. Sums(s) = [n \in 0 .. Len(s) |-> IF n = 0 THEN 0 ELSE Sums(s)[n - 1] + s[n]]
    BY SumsThere, Zenon DEF Sums
  <1>2. Len(s) \in Nat
    OBVIOUS
  <1> DEFINE f == Sums(s)
  <1>3. f = [n \in 0 .. Len(s) |-> IF n = 0 THEN 0 ELSE f[n - 1] + s[n]]
    BY <1>1
  <1> HIDE DEF f
  <1>4. DOMAIN f = 0 .. Len(s)
    BY <1>3
  <1>5. \A n \in 0 .. Len(s) : f[n] = (IF n = 0 THEN 0 ELSE f[n - 1] + s[n])
    BY <1>3
  <1>6. f[0] = 0 /\ \A n \in 1 .. Len(s) : f[n] = f[n - 1] + s[n]
    BY <1>2, <1>5
  <1> QED BY <1>4, <1>6 DEF f

(* Sums are numbers, by induction over the sequence.                       *)
LEMMA SumsType ==
    ASSUME NEW s, s \in Seq(Nat)
    PROVE  \A n \in 0 .. Len(s) : Sums(s)[n] \in Nat
  <1> DEFINE T == {n \in Nat : n <= Len(s) => Sums(s)[n] \in Nat}
  <1>1. 0 \in T
    BY SumsOf
  <1>2. ASSUME NEW n \in Nat, n \in T PROVE n + 1 \in T
    <2> SUFFICES ASSUME n + 1 <= Len(s) PROVE Sums(s)[n + 1] \in Nat
      OBVIOUS
    <2>1. n + 1 \in 1 .. Len(s) /\ n <= Len(s)
      OBVIOUS
    <2>2. Sums(s)[n + 1] = Sums(s)[n] + s[n + 1]
      BY <2>1, SumsOf
    <2>3. Sums(s)[n] \in Nat /\ s[n + 1] \in Nat
      BY <1>2, <2>1
    <2> QED BY <2>2, <2>3
  <1>3. \A n \in Nat : n \in T
    <2> HIDE DEF T
    <2> QED BY <1>1, <1>2, SetInduction
  <1> QED BY <1>3

(* Along a piece of a sequence the sum grows by what the piece adds up to. *)
PieceOf(s, m, a) ==
    /\ s \in Seq(Nat) /\ m \in Seq(Nat) /\ a \in Nat
    /\ a + Len(s) <= Len(m)
    /\ \A i \in 1 .. Len(s) : s[i] = m[a + i]

(* Sums of a longer sequence go on like those of a piece of it.            *)
LEMMA SumsShifted ==
    ASSUME NEW s, NEW m, NEW a, PieceOf(s, m, a)
    PROVE  \A n \in 0 .. Len(s) : Sums(m)[a + n] = Sums(m)[a] + Sums(s)[n]
  <1> DEFINE T == {n \in Nat : n <= Len(s) => Sums(m)[a + n] = Sums(m)[a] + Sums(s)[n]}
  <1> USE DEF PieceOf
  <1>1. a \in 0 .. Len(m) /\ a + 0 = a
    OBVIOUS
  <1>t. Sums(m)[a] \in Nat
    BY <1>1, SumsType
  <1>2. 0 \in T
    <2>1. Sums(s)[0] = 0
      BY SumsOf
    <2> QED BY <1>1, <1>t, <2>1
  <1>3. ASSUME NEW n \in Nat, n \in T PROVE n + 1 \in T
    <2> SUFFICES ASSUME n + 1 <= Len(s)
                 PROVE  Sums(m)[a + (n + 1)] = Sums(m)[a] + Sums(s)[n + 1]
      OBVIOUS
    <2>1. n + 1 \in 1 .. Len(s) /\ n \in 0 .. Len(s) /\ n <= Len(s)
      OBVIOUS
    <2>2. /\ a + (n + 1) \in 1 .. Len(m) /\ (a + (n + 1)) - 1 = a + n
          /\ a + n \in 0 .. Len(m) /\ (n + 1) - 1 = n
      OBVIOUS
    <2>3. Sums(s)[n + 1] = Sums(s)[n] + s[n + 1]
      BY <2>1, <2>2, SumsOf
    <2>4. Sums(m)[a + (n + 1)] = Sums(m)[a + n] + m[a + (n + 1)]
      BY <2>2, SumsOf
    <2>5. Sums(m)[a + n] = Sums(m)[a] + Sums(s)[n]
      BY <1>3, <2>1
    <2>6. m[a + (n + 1)] = s[n + 1] /\ s[n + 1] \in Nat
      BY <2>1
    <2>7. Sums(s)[n] \in Nat /\ Sums(m)[a + n] \in Nat
      BY <2>1, <2>2, SumsType
    <2>8. Sums(m)[a + (n + 1)] = Sums(m)[a + n] + s[n + 1]
      BY <2>4, <2>6, Zenon
    <2> DEFINE t == Sums(m)[a + (n + 1)]
               u == Sums(m)[a + n]
               v == Sums(m)[a]
               w == Sums(s)[n]
               x == s[n + 1]
               y == Sums(s)[n + 1]
    <2>9. t = u + x /\ u = v + w /\ y = w + x
      BY <2>3, <2>5, <2>8, Zenon
    <2>10. u \in Nat /\ v \in Nat /\ w \in Nat /\ x \in Nat
      BY <1>t, <2>6, <2>7, Zenon
    <2> HIDE DEF t, u, v, w, x, y
    <2>11. t = v + y
      BY <2>9, <2>10
    <2> QED BY <2>11 DEF t, v, y
  <1>4. \A n \in Nat : n \in T
    <2> HIDE DEF T
    <2> QED BY <1>2, <1>3, SetInduction
  <1> QED BY <1>4

(* What a piece adds to the sum is its own total: the words mm_find passes *)
(* over, and the one it looks into.                                        *)
LEMMA SumsPiece ==
    ASSUME NEW m, m \in Seq(Nat), NEW a \in Nat, NEW n \in Nat, a + n <= Len(m)
    PROVE  Sums(m)[a + n] = Sums(m)[a] + Total(SubSeq(m, a + 1, a + n))
  <1> DEFINE s == SubSeq(m, a + 1, a + n)
  <1>1. Len(s) = n
    BY SubSeqProperties
  <1>2. \A i \in 1 .. n : s[i] = m[a + i]
    BY SubSeqProperties
  <1>3. s \in Seq(Nat)
    BY SubSeqProperties
  <1> HIDE DEF s
  <1>4. PieceOf(s, m, a)
    BY <1>1, <1>2, <1>3 DEF PieceOf
  <1>5. \A i \in 0 .. Len(s) : Sums(m)[a + i] = Sums(m)[a] + Sums(s)[i]
    BY <1>4, SumsShifted
  <1>6. n \in 0 .. Len(s)
    BY <1>1
  <1>7. Total(s) = Sums(s)[n]
    BY <1>1 DEF Total
  <1>8. Sums(m)[a + n] = Sums(m)[a] + Total(s)
    BY <1>5, <1>6, <1>7, Zenon
  <1> QED BY <1>8 DEF s

Joined(m, s, c) == m \in Seq(Nat) /\ s \in Seq(Nat) /\ c = m \o s

(* Appended entries leave the sums before them alone.                      *)
LEMMA SumsAppend ==
    ASSUME NEW m, NEW s, NEW c, Joined(m, s, c)
    PROVE  /\ \A n \in 0 .. Len(m) : Sums(c)[n] = Sums(m)[n]
           /\ \A n \in 0 .. Len(s) : Sums(c)[Len(m) + n] = Sums(m)[Len(m)] + Sums(s)[n]
  <1>1. /\ c \in Seq(Nat) /\ Len(c) = Len(m) + Len(s)
        /\ \A i \in 1 .. Len(m) : m[i] = c[i]
        /\ \A i \in 1 .. Len(s) : s[i] = c[Len(m) + i]
        /\ Len(m) \in Nat /\ Len(s) \in Nat
        /\ m \in Seq(Nat) /\ s \in Seq(Nat)
    BY DEF Joined
  <1>2. PieceOf(m, c, 0)
    BY <1>1 DEF PieceOf
  <1>3. PieceOf(s, c, Len(m))
    BY <1>1 DEF PieceOf
  <1>4. \A n \in 0 .. Len(m) : Sums(c)[0 + n] = Sums(c)[0] + Sums(m)[n]
    BY <1>2, SumsShifted
  <1>5. \A n \in 0 .. Len(s) : Sums(c)[Len(m) + n] = Sums(c)[Len(m)] + Sums(s)[n]
    BY <1>3, SumsShifted
  <1>6. Sums(c)[0] = 0
    BY <1>1, SumsOf
  <1>7. \A n \in 0 .. Len(m) : Sums(c)[n] = Sums(m)[n]
    BY <1>1, <1>4, <1>6, SumsType
  <1>8. Sums(c)[Len(m)] = Sums(m)[Len(m)]
    BY <1>1, <1>7
  <1>9. \A n \in 0 .. Len(s) : Sums(c)[Len(m) + n] = Sums(m)[Len(m)] + Sums(s)[n]
    BY <1>5, <1>8
  <1> QED BY <1>7, <1>9

-----------------------------------------------------------------------------
(* What SMT needs to hear of products.                                     *)
LEMMA TimesUp ==
    ASSUME NEW x \in Nat, NEW y \in Nat, NEW c \in Nat, x <= y
    PROVE  x * c \in Nat /\ x * c <= y * c
  <1>1. PICK d \in Nat : y = x + d
    <2>1. y - x \in Nat /\ y = x + (y - x)
      OBVIOUS
    <2> QED BY <2>1
  <1>2. x * c \in Nat /\ d * c \in Nat
    OBVIOUS
  <1>3. y * c = x * c + d * c
    BY <1>1
  <1> QED BY <1>2, <1>3

(* A number by its quotient and remainder.                                 *)
LEMMA Divided ==
    ASSUME NEW d \in Nat \ {0}, NEW a \in Nat
    PROVE  \E q \in Nat, v \in 0 .. d - 1 : q = a \div d /\ v = a % d /\ a = d * q + v
  OBVIOUS

(* One more entry adds itself.                                             *)
LEMMA SumsStep ==
    ASSUME NEW s, s \in Seq(Nat), NEW n \in Nat, n < Len(s)
    PROVE  /\ Sums(s)[n] \in Nat /\ s[n + 1] \in Nat
           /\ Sums(s)[n + 1] = Sums(s)[n] + s[n + 1]
  <1>1. n + 1 \in 1 .. Len(s) /\ (n + 1) - 1 = n /\ n \in 0 .. Len(s)
    OBVIOUS
  <1>2. Sums(s)[n + 1] = Sums(s)[(n + 1) - 1] + s[n + 1]
    BY <1>1, SumsOf
  <1>3. Sums(s)[n] \in Nat
    BY <1>1, SumsType
  <1>4. s[n + 1] \in Nat
    BY <1>1
  <1> QED BY <1>1, <1>2, <1>3, <1>4

(* The entries counted in a word are a piece of the map.                   *)
LEMMA CountedOf ==
    ASSUME NEW m, m \in Seq(Nat), NEW k \in Nat, NEW n \in Nat, k * Word + n <= Len(m)
    PROVE  /\ Counted(m, k, n) \in Nat
           /\ Sums(m)[k * Word + n] = Sums(m)[k * Word] + Counted(m, k, n)
  <1>1. PICK a \in Nat : a = k * Word
    BY ProcessesAssumption
  <1>2. a + n <= Len(m)
    BY <1>1
  <1>3. Sums(m)[a + n] = Sums(m)[a] + Total(SubSeq(m, a + 1, a + n))
    BY <1>2, SumsPiece
  <1>4. Counted(m, k, n) = Total(SubSeq(m, a + 1, a + n))
    BY <1>1, Zenon DEF Counted
  <1> DEFINE s == SubSeq(m, a + 1, a + n)
  <1>5. s \in Seq(Nat)
    BY <1>2, SubSeqProperties
  <1>6. Total(s) \in Nat
    <2> HIDE DEF s
    <2>1. Len(s) \in 0 .. Len(s)
      BY <1>5
    <2> QED BY <1>5, <2>1, SumsType DEF Total
  <1>7. Sums(m)[a + n] = Sums(m)[a] + Counted(m, k, n) /\ Counted(m, k, n) \in Nat
    BY <1>3, <1>4, <1>6, Zenon
  <1> QED BY <1>1, <1>7, Zenon

(* Word by word, mm_find adds up all the entries before a.                 *)
LEMMA mm_findOf ==
    ASSUME NEW m, m \in Seq(Nat), NEW a \in Nat, a <= Len(m), Sums(m)[a] < Uint16
    PROVE  mm_find(m, a) = Base + Unit * Sums(m)[a]
  <1> DEFINE w == a \div Word
             r == a % Word
             full == [k \in 1 .. w |-> Counted(m, k - 1, Word)]
             At == [k \in Nat |-> k * Word]
  <1>1. Word \in Nat \ {0}
    BY ProcessesAssumption
  <1>2. Word \in Nat \ {0} /\ w \in Nat /\ r \in Nat /\ a = Word * w + r
    <2>1. PICK q \in Nat, v \in 0 .. Word - 1 : q = a \div Word /\ v = a % Word /\ a = Word * q + v
      BY <1>1, Divided
    <2> QED BY <1>1, <2>1
  <1>3. mm_find(m, a) = Base + Unit * ((Total(full) + Counted(m, w, r)) % Uint16)
    BY Zenon DEF mm_find
  <1> HIDE DEF w, r
  <1>4. \A k \in Nat : At[k] \in Nat /\ At[k] = k * Word /\ At[k + 1] = At[k] + Word
    BY <1>2
  <1>5. At[0] = 0 /\ a = At[w] + r
    BY <1>2
  <1>6. \A k \in Nat : k + 1 <= w => At[k] + Word <= Len(m)
    <2> SUFFICES ASSUME NEW k \in Nat, k + 1 <= w PROVE At[k] + Word <= Len(m)
      OBVIOUS
    <2>1. (k + 1) * Word <= w * Word
      BY <1>2, TimesUp
    <2>2. At[k + 1] = (k + 1) * Word /\ At[w] = w * Word /\ At[k + 1] = At[k] + Word
      BY <1>2, <1>4
    <2> HIDE DEF At
    <2>3. At[k] + Word <= At[w]
      BY <2>1, <2>2
    <2>4. At[k] \in Nat /\ At[w] \in Nat
      BY <1>2, <1>4
    <2> QED BY <1>2, <1>5, <2>3, <2>4
  <1> HIDE DEF At
  <1>7. \A k \in Nat : k + 1 <= w => /\ Counted(m, k, Word) \in Nat
                                     /\ Sums(m)[At[k + 1]] = Sums(m)[At[k]] + Counted(m, k, Word)
    <2> SUFFICES ASSUME NEW k \in Nat, k + 1 <= w
                 PROVE  /\ Counted(m, k, Word) \in Nat
                        /\ Sums(m)[At[k + 1]] = Sums(m)[At[k]] + Counted(m, k, Word)
      OBVIOUS
    <2>1. k * Word + Word <= Len(m)
      BY <1>4, <1>6
    <2>2. Counted(m, k, Word) \in Nat
      BY <1>2, <2>1, CountedOf
    <2>3. Sums(m)[k * Word + Word] = Sums(m)[k * Word] + Counted(m, k, Word)
      BY <1>2, <2>1, CountedOf
    <2>4. k * Word + Word = At[k + 1] /\ k * Word = At[k]
      BY <1>4
    <2> QED BY <2>2, <2>3, <2>4, Zenon
  <1>8. full \in Seq(Nat) /\ Len(full) = w
    <2>1. \A k \in 1 .. w : k - 1 \in Nat /\ (k - 1) + 1 <= w
      BY <1>2
    <2>2. \A k \in 1 .. w : Counted(m, k - 1, Word) \in Nat
      BY <1>7, <2>1
    <2> QED BY <1>2, <2>2
  <1>9. \A k \in Nat : k + 1 <= w => full[k + 1] = Counted(m, k, Word)
    <2> SUFFICES ASSUME NEW k \in Nat, k + 1 <= w PROVE full[k + 1] = Counted(m, k, Word)
      OBVIOUS
    <2>1. k + 1 \in 1 .. w /\ (k + 1) - 1 = k
      BY <1>2
    <2> QED BY <2>1
  <1> HIDE DEF full
  <1>10. ASSUME NEW k \in Nat, k + 1 <= w, Sums(full)[k] = Sums(m)[At[k]]
         PROVE  Sums(full)[k + 1] = Sums(m)[At[k + 1]]
    <2>1. k < Len(full)
      BY <1>2, <1>8, <1>10
    <2>2. Sums(full)[k + 1] = Sums(full)[k] + full[k + 1]
      BY <1>8, <2>1, SumsStep
    <2>3. full[k + 1] = Counted(m, k, Word)
      BY <1>9, <1>10, Zenon
    <2>4. Sums(m)[At[k + 1]] = Sums(m)[At[k]] + Counted(m, k, Word)
      BY <1>7, <1>10, Zenon
    <2> QED BY <1>10, <2>2, <2>3, <2>4, Zenon
  <1>11. Sums(full)[0] = Sums(m)[At[0]]
    BY <1>5, <1>8, SumsOf
  <1> DEFINE T == {k \in Nat : k <= w => Sums(full)[k] = Sums(m)[At[k]]}
  <1>12. 0 \in T
    BY <1>11
  <1>13. ASSUME NEW k \in Nat, k \in T PROVE k + 1 \in T
    <2>1. k + 1 <= w => k <= w
      BY <1>2
    <2>2. k + 1 \in Nat
      OBVIOUS
    <2> QED BY <1>10, <1>13, <2>1, <2>2, Zenon
  <1>14. w \in T
    <2> HIDE DEF T
    <2> QED BY <1>2, <1>12, <1>13, SetInduction
  <1>15. Total(full) = Sums(m)[At[w]]
    <2>1. w <= w
      BY <1>2
    <2>2. Sums(full)[w] = Sums(m)[At[w]]
      BY <1>14, <2>1
    <2> QED BY <1>8, <2>2, Zenon DEF Total
  <1> HIDE DEF T
  <1>16. Sums(m)[At[w] + r] = Sums(m)[At[w]] + Counted(m, w, r)
    <2>1. w * Word = At[w]
      BY <1>2, <1>4
    <2>2. w * Word + r <= Len(m)
      BY <1>5, <2>1
    <2>3. Sums(m)[w * Word + r] = Sums(m)[w * Word] + Counted(m, w, r)
      BY <1>2, <2>2, CountedOf
    <2> QED BY <2>1, <2>3, Zenon
  <1>17. Sums(m)[a] = Total(full) + Counted(m, w, r)
    BY <1>5, <1>15, <1>16, Zenon
  <1>18. Sums(m)[a] \in Nat
    BY SumsType
  <1>u. Uint16 \in Nat
    BY SMT DEF Uint16
  <1>19. PICK x \in Nat : x = Sums(m)[a] /\ x < Uint16
    BY <1>18
  <1>20. x % Uint16 = x
    BY <1>19, SMT DEF Uint16
  <1>21. mm_find(m, a) = Base + Unit * (x % Uint16)
    BY <1>3, <1>17, <1>19, Zenon
  <1> QED BY <1>19, <1>20, <1>21, Zenon

(* The entries of one process are its threes and the rest, and add up to   *)
(* its size.                                                               *)
LEMMA SharesOf ==
    /\ Shares \in Seq(1 .. 3) /\ Len(Shares) \in Nat \ {0}
    /\ Sums(Shares)[Len(Shares)] = ProcUnits
  <1> DEFINE q == ProcUnits \div 3
             r == ProcUnits % 3
             t == [i \in 1 .. q |-> 3]
             u == IF r = 0 THEN <<>> ELSE <<r>>
  <1>1. q \in Nat /\ r \in 0 .. 2 /\ ProcUnits = q * 3 + r /\ ProcUnits \in Nat \ {0}
    BY ProcessesAssumption
  <1>2. Shares = t \o u
    BY DEF Shares
  <1> HIDE DEF q, r
  <1>3. t \in Seq(Nat) /\ t \in Seq(1 .. 3) /\ Len(t) = q /\ \A i \in 1 .. q : t[i] = 3
    BY <1>1
  <1> HIDE DEF t
  <1>4. ASSUME NEW n \in Nat, n + 1 <= q, Sums(t)[n] = 3 * n
        PROVE  Sums(t)[n + 1] = 3 * (n + 1)
    <2>1. n < Len(t) /\ n + 1 \in 1 .. q
      BY <1>1, <1>3, <1>4
    <2>2. Sums(t)[n + 1] = Sums(t)[n] + t[n + 1] /\ t[n + 1] = 3
      BY <1>3, <2>1, SumsStep
    <2> QED BY <1>4, <2>2
  <1>5. Sums(t)[0] = 3 * 0
    BY <1>3, SumsOf
  <1>6. Sums(t)[q] = 3 * q
    <2> DEFINE T == {n \in Nat : n <= q => Sums(t)[n] = 3 * n}
    <2>1. 0 \in T
      BY <1>5
    <2>2. ASSUME NEW n \in Nat, n \in T PROVE n + 1 \in T
      <3>1. (n + 1 <= q => n <= q) /\ n + 1 \in Nat
        BY <1>1
      <3> QED BY <1>4, <2>2, <3>1, Zenon
    <2>3. q \in T
      <3> HIDE DEF T
      <3> QED BY <1>1, <2>1, <2>2, SetInduction
    <2>4. q <= q
      BY <1>1
    <2> QED BY <2>3, <2>4
  <1>7. u \in Seq(Nat) /\ u \in Seq(1 .. 3) /\ Len(u) \in Nat /\ Sums(u)[Len(u)] = r
    <2>1. CASE r = 0
      <3>1. u = <<>> /\ u \in Seq(Nat) /\ u \in Seq(1 .. 3) /\ Len(u) = 0
        BY <2>1
      <3> QED BY <2>1, <3>1, SumsOf
    <2>2. CASE r # 0
      <3>1. u = <<r>> /\ u \in Seq(Nat) /\ u \in Seq(1 .. 3) /\ Len(u) = 1 /\ u[1] = r
        BY <1>1, <2>2
      <3> HIDE DEF u
      <3>2. Sums(u)[0 + 1] = Sums(u)[0] + u[0 + 1] /\ Sums(u)[0] = 0
        <4>1. 0 \in Nat /\ 0 < Len(u)
          BY <3>1
        <4> QED BY <3>1, <4>1, SumsStep, SumsOf
      <3> QED BY <1>1, <3>1, <3>2
    <2> QED BY <2>1, <2>2
  <1>8. q # 0 \/ Len(u) # 0
    BY <1>1
  <1> HIDE DEF u
  <1>9. Shares \in Seq(1 .. 3) /\ Len(Shares) = q + Len(u)
    <2>1. t \in Seq(1 .. 3) /\ u \in Seq(1 .. 3)
      BY <1>3, <1>7
    <2>2. t \o u \in Seq(1 .. 3) /\ Len(t \o u) = Len(t) + Len(u)
      BY <2>1, ConcatProperties
    <2> QED BY <1>2, <1>3, <2>2
  <1>10. Sums(Shares)[Len(t) + Len(u)] = Sums(t)[Len(t)] + Sums(u)[Len(u)]
    <2>1. Len(u) \in 0 .. Len(u)
      BY <1>7
    <2>2. Joined(t, u, Shares)
      BY <1>2, <1>3, <1>7, Zenon DEF Joined
    <2>3. \A n \in 0 .. Len(u) : Sums(Shares)[Len(t) + n] = Sums(t)[Len(t)] + Sums(u)[n]
      BY <2>2, SumsAppend
    <2> QED BY <2>1, <2>3
  <1>11. Sums(Shares)[q + Len(u)] = 3 * q + r
    BY <1>3, <1>6, <1>7, <1>10, Zenon
  <1>12. Sums(Shares)[Len(Shares)] = ProcUnits
    <2>1. 3 * q + r = ProcUnits
      BY <1>1
    <2> QED BY <1>9, <1>11, <2>1, Zenon
  <1>13. Len(Shares) \in Nat \ {0}
    BY <1>1, <1>7, <1>8, <1>9
  <1> QED BY <1>9, <1>12, <1>13
-----------------------------------------------------------------------------
(* Where the memory of process id starts; that of the next starts where it *)
(* ends.                                                                   *)
Entries == Len(Shares)
Start(id) == Base + Size * (id - 1)

(* The assumption on sizes, as numbers.                                    *)
LEMMA Sizes == Size \in Nat \ {0} /\ Reserve < Size /\ Entries \in Nat \ {0}
  <1>1. Unit * ProcUnits \in Nat /\ Unit <= Unit * ProcUnits
    BY ProcessesAssumption
  <1> QED BY <1>1, SharesOf, ProcessesAssumption DEF Size, Entries

(* The memory of a process ends where the next one's begins.               *)
LEMMA StartOf ==
    ASSUME NEW i \in Nat \ {0}
    PROVE  /\ Start(i) \in Nat \ {0} /\ Start(i + 1) = Start(i) + Size
           /\ \A j \in Nat : i < j => Start(i + 1) <= Start(j)
  <1>1. Size \in Nat /\ Base \in Nat \ {0} /\ i - 1 \in Nat
    BY Sizes, ProcessesAssumption
  <1> HIDE DEF Size
  <1>2. Size * (i - 1) \in Nat /\ Size * i = Size * (i - 1) + Size
    BY <1>1
  <1>3. Start(i) = Base + Size * (i - 1) /\ Start(i + 1) = Base + Size * i
    <2>1. (i + 1) - 1 = i
      OBVIOUS
    <2> QED BY <2>1 DEF Start
  <1>4. ASSUME NEW j \in Nat, i < j PROVE Start(i + 1) <= Start(j)
    <2>1. j - 1 \in Nat /\ i <= j - 1
      BY <1>4
    <2>2. i * Size <= (j - 1) * Size
      BY <1>1, <2>1, TimesUp
    <2>3. i * Size = Size * i /\ (j - 1) * Size = Size * (j - 1) /\ Size * i \in Nat /\ Size * (j - 1) \in Nat
      BY <1>1, <2>1
    <2>4. Start(j) = Base + Size * (j - 1)
      BY DEF Start
    <2> QED BY <1>1, <1>3, <2>2, <2>3, <2>4
  <1> QED BY <1>1, <1>2, <1>3, <1>4

(* The memory of every process ends below the middle of the addresses.     *)
LEMMA BelowWide ==
    ASSUME NEW i \in Nat, i <= MaxPcb
    PROVE  Start(i + 1) < Wide
  <1>1. Size \in Nat /\ Base \in Nat \ {0} /\ Quantum \in Nat /\ MaxPcb \in Nat
    BY Sizes, ProcessesAssumption
  <1> HIDE DEF Size
  <1>2. i * Size \in Nat /\ i * Size <= MaxPcb * Size
    BY <1>1, TimesUp
  <1>3. Start(i + 1) = Base + i * Size /\ Size * MaxPcb = MaxPcb * Size /\ MaxPcb * Size \in Nat
    <2>1. (i + 1) - 1 = i /\ Size * i = i * Size
      BY <1>1
    <2> QED BY <1>1, <2>1 DEF Start
  <1> QED BY <1>1, <1>2, <1>3, WideAssumption

(* A process control block, and that of a process in its place.            *)
Copies == [segment : [vaddr : Nat, memsz : Nat], from : Int, to : Int]

Pcb == [mm_addr : Nat, sp : Nat, elr : Nat, loaded : SUBSET Copies,
        heap_start : Nat, heap_break : Nat, heap_limit : Nat]

InPlace(id, p) ==
    /\ p.mm_addr = Entries * (id - 1)
    /\ p.sp = Start(id + 1)
    /\ \A d \in p.loaded : Unwrapped(d.segment) => Start(id) <= d.from /\ d.to <= p.sp
    /\ p.heap_start # 0 =>
          /\ \A d \in p.loaded : Unwrapped(d.segment) => d.to <= p.heap_start
          /\ p.heap_start <= p.heap_break /\ p.heap_break <= p.heap_limit
          /\ p.heap_limit + Reserve = p.sp

(* The inductive invariant: slots are taken in order, each with as many    *)
(* entries of the map, which add up to one process more.                   *)
Laid(alloc, n, m, procs) ==
    /\ n \in 0 .. PageTables
    /\ alloc = 0 .. n - 1
    /\ m \in Seq(1 .. 3) /\ Len(m) = Entries * n /\ Len(m) <= Bottom
    /\ \A j \in 0 .. n : Sums(m)[Entries * j] = ProcUnits * j
    /\ procs \in [1 .. MaxPcb - 1 -> Pcb]
    /\ \A id \in 1 .. MaxPcb - 1 :
          IF id <= n THEN InPlace(id, procs[id]) ELSE procs[id] = EmptyPcb

IInv == Laid(is_alloc, pages, mem, pcb) /\ ret \in Nat \cup {Minus1}

(* Before there are processes nothing is taken.                            *)
LEMMA InitLaid == Init => IInv
  <1> SUFFICES ASSUME Init PROVE IInv
    OBVIOUS
  <1>1. EmptyPcb \in Pcb
    BY DEF EmptyPcb, Pcb
  <1>2. Entries * 0 = 0 /\ ProcUnits * 0 = 0
    BY Sizes, ProcessesAssumption
  <1>3. mem \in Seq(Nat) /\ mem \in Seq(1 .. 3) /\ Len(mem) = 0
    BY DEF Init
  <1>4. Sums(mem)[0] = 0
    BY <1>3, SumsOf
  <1>5. pages = 0 /\ 0 \in 0 .. PageTables /\ 0 <= Bottom
    BY ProcessesAssumption DEF Init
  <1>6. \A j \in 0 .. pages : Sums(mem)[Entries * j] = ProcUnits * j
    BY <1>2, <1>4, <1>5
  <1>7. pcb \in [1 .. MaxPcb - 1 -> Pcb] /\ \A id \in 1 .. MaxPcb - 1 : pcb[id] = EmptyPcb
    BY <1>1 DEF Init
  <1>8. is_alloc = 0 .. pages - 1
    BY <1>5 DEF Init
  <1>9. \A id \in 1 .. MaxPcb - 1 : ~(id <= pages)
    BY <1>5, ProcessesAssumption
  <1>10. Laid(is_alloc, pages, mem, pcb)
    BY <1>2, <1>3, <1>5, <1>6, <1>7, <1>8, <1>9 DEF Laid
  <1> QED BY <1>10 DEF IInv, Init, NULL

(* mm_find finds the start of the memory of each process.                  *)
LEMMA FindsStart ==
    ASSUME NEW alloc, NEW n, NEW m, NEW procs, Laid(alloc, n, m, procs),
           NEW id \in 1 .. n + 1
    PROVE  mm_find(m, Entries * (id - 1)) = Start(id)
  <1>1. n \in Nat /\ n <= PageTables /\ Entries \in Nat /\ ProcUnits \in Nat \ {0} /\ Unit \in Nat
    BY Sizes, ProcessesAssumption DEF Laid
  <1>2. PICK j \in 0 .. n : j = id - 1
    BY <1>1
  <1>3. m \in Seq(Nat) /\ Len(m) = Entries * n
    BY DEF Laid
  <1>4. Sums(m)[Entries * j] = ProcUnits * j
    BY DEF Laid
  <1>5. j \in Nat /\ j <= n /\ j <= MaxPcb /\ MaxPcb \in Nat
    BY <1>1, ProcessesAssumption
  <1>6. Entries * j \in Nat /\ Entries * j <= Entries * n
    <2>1. j * Entries \in Nat /\ j * Entries <= n * Entries
      BY <1>1, <1>5, TimesUp
    <2> QED BY <1>1, <1>5, <2>1
  <1>7. ProcUnits * j < Uint16
    <2>1. j * ProcUnits <= MaxPcb * ProcUnits /\ j * ProcUnits \in Nat
      BY <1>1, <1>5, TimesUp
    <2>2. Uint16 \in Nat
      BY SMT DEF Uint16
    <2>3. MaxPcb * ProcUnits \in Nat /\ ProcUnits * j = j * ProcUnits
      BY <1>1, <1>5
    <2> QED BY <2>1, <2>2, <2>3, UnitsAssumption
  <1>8. mm_find(m, Entries * j) = Base + Unit * Sums(m)[Entries * j]
    <2>1. PICK e \in Nat : e = Entries * j
      BY <1>6
    <2>2. e <= Len(m) /\ Sums(m)[e] < Uint16
      BY <1>3, <1>4, <1>6, <1>7, <2>1
    <2>3. mm_find(m, e) = Base + Unit * Sums(m)[e]
      BY <1>3, <2>2, mm_findOf
    <2> QED BY <2>1, <2>3
  <1>9. Unit * (ProcUnits * j) = (Unit * ProcUnits) * j
    BY <1>1, <1>5
  <1>10. mm_find(m, Entries * j) = Base + Size * j
    BY <1>4, <1>8, <1>9 DEF Size
  <1> QED BY <1>2, <1>10 DEF Start

-----------------------------------------------------------------------------
(* One more process: the map grows by its entries, and it is in its place. *)
LEMMA LaidOneMore ==
    ASSUME NEW alloc, NEW n, NEW m, NEW procs, Laid(alloc, n, m, procs),
           n < PageTables, Len(m) + Entries <= Bottom,
           NEW p \in Pcb, InPlace(n + 1, p)
    PROVE  Laid(alloc \cup {n}, n + 1, m \o Shares, [procs EXCEPT ![n + 1] = p])
  <1>1. /\ n \in Nat /\ Entries \in Nat \ {0} /\ ProcUnits \in Nat \ {0}
        /\ n + 1 \in 1 .. MaxPcb - 1 /\ n + 1 \in 0 .. PageTables
    BY Sizes, ProcessesAssumption DEF Laid
  <1>2. alloc \cup {n} = 0 .. (n + 1) - 1
    BY <1>1 DEF Laid
  <1> DEFINE c == m \o Shares
  <1>3. m \in Seq(1 .. 3) /\ Shares \in Seq(1 .. 3) /\ m \in Seq(Nat) /\ Shares \in Seq(Nat)
    BY SharesOf DEF Laid
  <1>4. c \in Seq(1 .. 3) /\ Len(c) = Len(m) + Entries
    BY <1>3, ConcatProperties DEF Entries
  <1>5. Joined(m, Shares, c)
    BY <1>3, Zenon DEF Joined
  <1> HIDE DEF c
  <1>6. Len(m) = Entries * n /\ Entries * (n + 1) = Entries * n + Entries /\ Entries * n \in Nat
    BY <1>1 DEF Laid
  <1>7. Len(c) = Entries * (n + 1) /\ Len(c) <= Bottom
    BY <1>4, <1>6
  <1>8. \A j \in 0 .. n + 1 : Sums(c)[Entries * j] = ProcUnits * j
    <2>1. ASSUME NEW j \in 0 .. n PROVE Sums(c)[Entries * j] = ProcUnits * j
      <3>1. j * Entries <= n * Entries /\ j * Entries \in Nat
        BY <1>1, TimesUp
      <3>2. Entries * j \in 0 .. Len(m)
        BY <1>1, <1>6, <3>1
      <3>3. Sums(c)[Entries * j] = Sums(m)[Entries * j]
        BY <1>5, <3>2, SumsAppend
      <3>4. Sums(m)[Entries * j] = ProcUnits * j
        BY DEF Laid
      <3> QED BY <3>3, <3>4
    <2>2. Sums(c)[Entries * (n + 1)] = ProcUnits * (n + 1)
      <3>1. \A i \in 0 .. Len(Shares) : Sums(c)[Len(m) + i] = Sums(m)[Len(m)] + Sums(Shares)[i]
        BY <1>5, SumsAppend
      <3>2. Entries \in 0 .. Len(Shares) /\ Sums(Shares)[Entries] = ProcUnits
        BY SharesOf DEF Entries
      <3>3. Sums(c)[Len(m) + Entries] = Sums(m)[Len(m)] + ProcUnits
        BY <3>1, <3>2
      <3>4. n \in 0 .. n
        BY <1>1
      <3>5. Sums(m)[Entries * n] = ProcUnits * n
        BY <3>4 DEF Laid
      <3>6. Len(m) + Entries = Entries * (n + 1) /\ ProcUnits * (n + 1) = ProcUnits * n + ProcUnits
        BY <1>1, <1>6
      <3> QED BY <1>6, <3>3, <3>5, <3>6
    <2>3. \A j \in 0 .. n + 1 : j \in 0 .. n \/ j = n + 1
      BY <1>1
    <2> QED BY <2>1, <2>2, <2>3
  <1> DEFINE q == [procs EXCEPT ![n + 1] = p]
  <1>9. procs \in [1 .. MaxPcb - 1 -> Pcb]
    BY DEF Laid
  <1>10. q \in [1 .. MaxPcb - 1 -> Pcb] /\ q[n + 1] = p
    BY <1>1, <1>9
  <1>11. \A id \in 1 .. MaxPcb - 1 : id # n + 1 => q[id] = procs[id]
    BY <1>9
  <1> HIDE DEF q
  <1>12. ASSUME NEW id \in 1 .. MaxPcb - 1
         PROVE  IF id <= n + 1 THEN InPlace(id, q[id]) ELSE q[id] = EmptyPcb
    <2>1. CASE id = n + 1
      <3>1. InPlace(id, q[id])
        BY <1>10, <2>1
      <3> QED BY <2>1, <3>1
    <2>2. CASE id # n + 1
      <3>1. id <= n + 1 <=> id <= n
        BY <1>1, <2>2
      <3>2. IF id <= n THEN InPlace(id, procs[id]) ELSE procs[id] = EmptyPcb
        BY DEF Laid
      <3>3. q[id] = procs[id]
        BY <1>11, <2>2
      <3> QED BY <3>1, <3>2, <3>3
    <2> QED BY <2>1, <2>2
  <1>13. Laid(alloc \cup {n}, n + 1, c, q)
    BY <1>1, <1>2, <1>4, <1>7, <1>8, <1>10, <1>12 DEF Laid
  <1> QED BY <1>13 DEF c, q

(* A process that stays in its place.                                      *)
LEMMA LaidInPlace ==
    ASSUME NEW alloc, NEW n, NEW m, NEW procs, Laid(alloc, n, m, procs),
           NEW i \in 1 .. n, NEW p \in Pcb, InPlace(i, p)
    PROVE  Laid(alloc, n, m, [procs EXCEPT ![i] = p])
  <1>1. n \in Nat /\ i \in 1 .. MaxPcb - 1 /\ i <= n /\ procs \in [1 .. MaxPcb - 1 -> Pcb]
    BY ProcessesAssumption DEF Laid
  <1> DEFINE q == [procs EXCEPT ![i] = p]
  <1>2. q \in [1 .. MaxPcb - 1 -> Pcb] /\ q[i] = p
    BY <1>1
  <1>3. \A id \in 1 .. MaxPcb - 1 : id # i => q[id] = procs[id]
    BY <1>1
  <1> HIDE DEF q
  <1>4. ASSUME NEW id \in 1 .. MaxPcb - 1
        PROVE  IF id <= n THEN InPlace(id, q[id]) ELSE q[id] = EmptyPcb
    <2>1. CASE id = i
      <3>1. InPlace(id, q[id])
        BY <1>2, <2>1
      <3> QED BY <1>1, <2>1, <3>1
    <2>2. CASE id # i
      <3>1. IF id <= n THEN InPlace(id, procs[id]) ELSE procs[id] = EmptyPcb
        BY DEF Laid
      <3>2. q[id] = procs[id]
        BY <1>3, <2>2
      <3> QED BY <3>1, <3>2
    <2> QED BY <2>1, <2>2
  <1>5. Laid(alloc, n, m, q)
    BY <1>2, <1>4 DEF Laid
  <1> QED BY <1>5 DEF q
-----------------------------------------------------------------------------
(* A creation, step by step, as a record.                                  *)
State(a, n, m, c, r) == [is_alloc |-> a, pages |-> n, mem |-> m, pcb |-> c, ret |-> r]

(* Take, GiveBack, heap_alloc and heap_free, part by part.                 *)
LEMMA TakeIs ==
    ASSUME NEW a, NEW n, NEW m, NEW c, NEW r, NEW slot, NEW k, k = State(a, n, m, c, r)
    PROVE  Take(k, slot) = State(a \cup {slot}, n, m, [c EXCEPT ![slot + 1] = EmptyPcb], r)
  <1>1. k.is_alloc = a
    BY DEF State
  <1>2. Take(k, slot) = [[k EXCEPT !.is_alloc = a \cup {slot}] EXCEPT !.pcb[slot + 1] = EmptyPcb]
    BY <1>1 DEF Take
  <1>3. [k EXCEPT !.is_alloc = a \cup {slot}] = State(a \cup {slot}, n, m, c, r)
    BY DEF State
  <1> QED BY <1>2, <1>3 DEF State

LEMMA GiveBackIs ==
    ASSUME NEW a, NEW n, NEW m, NEW c, NEW r, NEW slot, NEW k, k = State(a, n, m, c, r)
    PROVE  GiveBack(k, slot) = State(a \ {slot}, n, m, c, r)
  BY DEF GiveBack, State

LEMMA heap_allocIs ==
    ASSUME NEW a, NEW n, NEW m, NEW c, NEW r, NEW k, k = State(a, n, m, c, r)
    PROVE  heap_alloc(k) = State(a, n + 1, m, c, r)
  BY DEF heap_alloc, State

LEMMA heap_freeIs ==
    ASSUME NEW a, NEW n, NEW m, NEW c, NEW r, NEW k, k = State(a, n, m, c, r)
    PROVE  heap_free(k) = State(a, n - 1, m, c, r)
  BY DEF heap_free, State

(* With room in the heap and in the map: the block of the new process.     *)
FillsIn(a, n, m, c, k, id, entry, at, top, new, sized, full, p) ==
    /\ id \in DOMAIN c /\ c[id] = EmptyPcb /\ k = State(a, n, m, c, NULL)
    /\ sized = [k EXCEPT !.mem = new, !.pcb[id].mm_addr = at]
    /\ full = [sized EXCEPT !.pcb[id].sp = top, !.pcb[id].elr = entry, !.ret = id]
    /\ p = [EmptyPcb EXCEPT !.mm_addr = at, !.sp = top, !.elr = entry]

(* The last step of pm_create, part by part.                               *)
LEMMA FilledIn ==
    ASSUME NEW a, NEW n, NEW m, NEW c, NEW k, NEW id, NEW entry, NEW at, NEW top, NEW new,
           NEW sized, NEW full, NEW p,
           FillsIn(a, n, m, c, k, id, entry, at, top, new, sized, full, p)
    PROVE  sized.mem = new /\ full = State(a, n, new, [c EXCEPT ![id] = p], id)
  <1> USE DEF FillsIn
  <1> DEFINE p1 == [EmptyPcb EXCEPT !.mm_addr = at]
             p2 == [p1 EXCEPT !.sp = top]
             p3 == [p2 EXCEPT !.elr = entry]
             c1 == [c EXCEPT ![id] = p1]
             c2 == [c1 EXCEPT ![id] = p2]
             c3 == [c2 EXCEPT ![id] = p3]
             s0 == State(a, n, new, c, NULL)
             s1 == State(a, n, new, c1, NULL)
             s2 == State(a, n, new, c2, NULL)
             s3 == State(a, n, new, c3, NULL)
  <1>1. sized = s1
    <2>1. [k EXCEPT !.mem = new] = s0
      BY DEF State
    <2>2. sized = [[k EXCEPT !.mem = new] EXCEPT !.pcb[id].mm_addr = at]
      OBVIOUS
    <2>3. s0.pcb = c
      BY DEF State
    <2> HIDE DEF s0
    <2>4. [s0 EXCEPT !.pcb[id].mm_addr = at] = [s0 EXCEPT !.pcb[id] = p1]
      BY <2>3
    <2>5. [s0 EXCEPT !.pcb[id] = p1] = s1
      BY DEF State, s0
    <2> QED BY <2>1, <2>2, <2>4, <2>5
  <1>2. c1[id] = p1 /\ c2[id] = p2 /\ c3 = [c EXCEPT ![id] = p3]
    OBVIOUS
  <1>3. p3 = p
    BY DEF EmptyPcb
  <1> HIDE DEF p1, p2, p3, c1, c2, c3
  <1>4. [s1 EXCEPT !.pcb[id].sp = top] = s2
    <2>1. s1.pcb = c1
      BY DEF State
    <2> HIDE DEF s1
    <2>2. [s1 EXCEPT !.pcb[id].sp = top] = [s1 EXCEPT !.pcb[id] = p2]
      BY <1>2, <2>1 DEF p2
    <2> QED BY <2>2 DEF State, s1, c2
  <1>5. [s2 EXCEPT !.pcb[id].elr = entry] = s3
    <2>1. s2.pcb = c2
      BY DEF State
    <2> HIDE DEF s2
    <2>2. [s2 EXCEPT !.pcb[id].elr = entry] = [s2 EXCEPT !.pcb[id] = p3]
      BY <1>2, <2>1 DEF p3
    <2> QED BY <2>2 DEF State, s2, c3
  <1>6. [s3 EXCEPT !.ret = id] = State(a, n, new, c3, id)
    BY DEF State
  <1>7. sized.mem = new
    BY <1>1 DEF State
  <1> HIDE DEF s1, s2, s3
  <1>8. full = [[[s1 EXCEPT !.pcb[id].sp = top] EXCEPT !.pcb[id].elr = entry] EXCEPT !.ret = id]
    BY <1>1
  <1>9. full = State(a, n, new, [c EXCEPT ![id] = p3], id)
    BY <1>2, <1>4, <1>5, <1>6, <1>8
  <1> QED BY <1>3, <1>7, <1>9

(* What a creation leaves: all as it was, or one more process in its place.*)
NewPcb(entry) == [EmptyPcb EXCEPT !.mm_addr = Len(mem), !.sp = Start(pages + 2), !.elr = entry]

Made(entry) == State(is_alloc \cup {pages}, pages + 1, mem \o Shares,
                     [pcb EXCEPT ![pages + 1] = NewPcb(entry)], pages + 1)

(* The pcb made has the place of the next process.                         *)
LEMMA NewInPlace ==
    ASSUME IInv, NEW entry \in Nat
    PROVE  NewPcb(entry) \in Pcb /\ InPlace(pages + 1, NewPcb(entry))
  <1>1. pages \in Nat /\ Len(mem) = Entries * pages /\ Entries \in Nat
    BY Sizes, ProcessesAssumption DEF IInv, Laid
  <1>2. Entries * pages \in Nat /\ (pages + 1) - 1 = pages /\ (pages + 1) + 1 = pages + 2
    BY <1>1
  <1>3. Start(pages + 2) \in Nat
    BY <1>1, StartOf
  <1>4. NewPcb(entry) \in Pcb
    BY <1>1, <1>2, <1>3 DEF NewPcb, Pcb, EmptyPcb
  <1>5. /\ NewPcb(entry).mm_addr = Len(mem) /\ NewPcb(entry).sp = Start(pages + 2)
        /\ NewPcb(entry).loaded = {} /\ NewPcb(entry).heap_start = 0
    BY DEF NewPcb, EmptyPcb
  <1>6. InPlace(pages + 1, NewPcb(entry))
    BY <1>1, <1>2, <1>5 DEF InPlace
  <1> QED BY <1>4, <1>6

(* The first free slot is the one after those taken.                       *)
LEMMA FirstFree ==
    ASSUME IInv
    PROVE  Min(Slots \ is_alloc) = pages /\ pages \in Slots /\ pages \notin is_alloc
  <1>1. is_alloc = 0 .. pages - 1 /\ pages \in Nat /\ pages < MaxPcb /\ MaxPcb \in Nat
    BY ProcessesAssumption DEF IInv, Laid
  <1>2. pages \in Slots \ is_alloc /\ \A y \in Slots \ is_alloc : pages <= y
    BY <1>1 DEF Slots
  <1>3. \A x \in Slots \ is_alloc : (\A y \in Slots \ is_alloc : x <= y) => x = pages
    BY <1>1, <1>2 DEF Slots
  <1>4. Min(Slots \ is_alloc) = pages
    BY <1>2, <1>3 DEF Min
  <1> QED BY <1>2, <1>4

(* pm_create leaves all as it was, or makes the next process.              *)
LEMMA Creation ==
    ASSUME IInv, NEW entry \in Nat, NEW heap \in BOOLEAN, heap => pages < PageTables
    PROVE  \/ pm_create(entry, heap) = Now
           \/ /\ pm_create(entry, heap) = Made(entry)
              /\ pages < PageTables /\ Len(mem) + Entries <= Bottom
  <1> DEFINE slot == Min(Slots \ is_alloc)
             id == slot + 1
             taken == Take(Now, slot)
             paged == heap_alloc(taken)
             sized == [paged EXCEPT !.mem = mm_creat(@), !.pcb[id].mm_addr = Len(mem)]
             full == [sized EXCEPT !.pcb[id].sp = mm_find(sized.mem, Len(mem)) + Size,
                                   !.pcb[id].elr = entry, !.ret = id]
             got == IF is_alloc = Slots THEN Now
                    ELSE IF ~heap THEN GiveBack(taken, slot)
                    ELSE IF sized.mem = mem THEN GiveBack(heap_free(paged), slot)
                    ELSE full
  <1>1. pm_create(entry, heap) = got
    BY DEF pm_create
  <1>2. /\ slot = pages /\ pages \in Nat /\ is_alloc # Slots /\ (is_alloc \cup {pages}) \ {pages} = is_alloc
        /\ id = pages + 1 /\ (pages + 1) - 1 = pages
    BY FirstFree, ProcessesAssumption DEF IInv, Laid
  <1> HIDE DEF slot
  <1>3. Now = State(is_alloc, pages, mem, pcb, NULL)
    BY DEF Now, State
  <1> DEFINE c == [pcb EXCEPT ![pages + 1] = EmptyPcb]
  <1>4. c = pcb
    <2>1. pcb \in [1 .. MaxPcb - 1 -> Pcb]
      BY DEF IInv, Laid
    <2>2. pages + 1 \in 1 .. MaxPcb - 1 => pcb[pages + 1] = EmptyPcb
      BY <1>2 DEF IInv, Laid
    <2> QED BY <2>1, <2>2
  <1>5. taken = State(is_alloc \cup {pages}, pages, mem, pcb, NULL)
    BY <1>2, <1>3, <1>4, TakeIs
  <1> HIDE DEF taken
  <1>6. paged = State(is_alloc \cup {pages}, pages + 1, mem, pcb, NULL)
    BY <1>5, heap_allocIs
  <1> HIDE DEF paged
  <1>7. GiveBack(taken, slot) = Now
    <2>1. GiveBack(taken, slot) = State((is_alloc \cup {pages}) \ {slot}, pages, mem, pcb, NULL)
      BY <1>5, GiveBackIs
    <2> QED BY <1>2, <1>3, <2>1
  <1>8. GiveBack(heap_free(paged), slot) = Now
    <2> DEFINE freed == heap_free(paged)
    <2>1. freed = State(is_alloc \cup {pages}, (pages + 1) - 1, mem, pcb, NULL)
      BY <1>6, heap_freeIs
    <2> HIDE DEF freed
    <2>2. GiveBack(freed, slot)
             = State((is_alloc \cup {pages}) \ {slot}, (pages + 1) - 1, mem, pcb, NULL)
      BY <2>1, GiveBackIs
    <2>3. GiveBack(freed, slot) = Now
      BY <1>2, <1>3, <2>2
    <2> QED BY <2>3 DEF freed
  <1>9. paged.mem = mem
    BY <1>6 DEF State
  <1>10. CASE ~heap
    BY <1>1, <1>2, <1>7, <1>10
  <1>11. CASE heap /\ Len(mem) + Entries > Bottom
    <2>1. mm_creat(mem) = mem
      BY <1>11 DEF mm_creat, Entries
    <2>2. sized.mem = mem
      BY <1>6, <1>9, <2>1 DEF State
    <2> HIDE DEF sized
    <2> QED BY <1>1, <1>2, <1>8, <1>11, <2>2
  <1>12. CASE heap /\ ~(Len(mem) + Entries > Bottom)
    <2> DEFINE new == mem \o Shares
               at == Len(mem)
               top == mm_find(new, Len(mem)) + Size
               p == [EmptyPcb EXCEPT !.mm_addr = at, !.sp = top, !.elr = entry]
               s == [paged EXCEPT !.mem = new, !.pcb[id].mm_addr = at]
    <2>1. mm_creat(mem) = new
      BY <1>12 DEF mm_creat, Entries
    <2>2. sized = s
      BY <1>9, <2>1
    <2>3. pages + 1 \in DOMAIN pcb /\ pcb[pages + 1] = EmptyPcb /\ pages < PageTables
      BY <1>2, <1>12, ProcessesAssumption DEF IInv, Laid
    <2> DEFINE f == [s EXCEPT !.pcb[id].sp = top, !.pcb[id].elr = entry, !.ret = id]
    <2>4. /\ s.mem = new
          /\ f = State(is_alloc \cup {pages}, pages + 1, new, [pcb EXCEPT ![id] = p], id)
      <3>1. s = [paged EXCEPT !.mem = new, !.pcb[id].mm_addr = at]
        OBVIOUS
      <3>2. f = [s EXCEPT !.pcb[id].sp = top, !.pcb[id].elr = entry, !.ret = id]
        OBVIOUS
      <3>3. p = [EmptyPcb EXCEPT !.mm_addr = at, !.sp = top, !.elr = entry]
        OBVIOUS
      <3>4. id \in DOMAIN pcb /\ pcb[id] = EmptyPcb
        BY <1>2, <2>3
      <3> HIDE DEF new, at, top, id, s, f, p
      <3>5. FillsIn(is_alloc \cup {pages}, pages + 1, mem, pcb, paged, id, entry, at, top, new, s, f, p)
        BY <1>6, <3>1, <3>2, <3>3, <3>4, Zenon DEF FillsIn
      <3> QED BY <3>5, FilledIn, Zenon
    <2>5. new # mem
      <3>1. mem \in Seq(1 .. 3) /\ Shares \in Seq(1 .. 3) /\ Shares # <<>>
        BY SharesOf DEF IInv, Laid
      <3> QED BY <3>1, ConcatEqualIffEmpty
    <2>6. top = Start(pages + 2)
      <3>1. Len(mem) + Entries <= Bottom
        BY <1>12, Sizes, ProcessesAssumption DEF IInv, Laid
      <3>2. Laid(is_alloc \cup {pages}, pages + 1, new, [pcb EXCEPT ![pages + 1] = NewPcb(0)])
        <4>1. Laid(is_alloc, pages, mem, pcb)
          BY DEF IInv
        <4> QED BY <2>3, <3>1, <4>1, NewInPlace, LaidOneMore
      <3> HIDE DEF new
      <3>3. pages + 1 \in 1 .. (pages + 1) + 1
        BY <1>2
      <3>4. mm_find(new, Entries * ((pages + 1) - 1)) = Start(pages + 1)
        BY <3>2, <3>3, FindsStart
      <3>5. Entries * ((pages + 1) - 1) = Len(mem)
        BY <1>2 DEF IInv, Laid
      <3>6. Start((pages + 1) + 1) = Start(pages + 1) + Size /\ (pages + 1) + 1 = pages + 2
        BY <1>2, StartOf
      <3>7. top = Start(pages + 1) + Size
        BY <3>4, <3>5
      <3> QED BY <3>6, <3>7
    <2>7. full = State(is_alloc \cup {pages}, pages + 1, new, [pcb EXCEPT ![id] = p], id)
      <3>1. full = f
        <4>1. sized.mem = new
          BY <2>2, <2>4
        <4> HIDE DEF s, sized, p, new
        <4> QED BY <2>2, <2>4, <4>1
      <3> HIDE DEF f, full, p
      <3> QED BY <2>4, <3>1
    <2>8. p = NewPcb(entry)
      BY <2>6 DEF NewPcb
    <2>9. full = Made(entry)
      BY <1>2, <2>7, <2>8 DEF Made
    <2>10. sized.mem # mem
      BY <2>2, <2>4, <2>5
    <2>11. got = full
      <3> HIDE DEF full, sized
      <3> QED BY <1>2, <1>12, <2>10
    <2>12. Len(mem) + Entries <= Bottom
      BY <1>12, Sizes, ProcessesAssumption DEF IInv, Laid
    <2> QED BY <1>1, <2>3, <2>9, <2>11, <2>12
  <1> QED BY <1>10, <1>11, <1>12
-----------------------------------------------------------------------------
(* Least and greatest numbers, and rounding up.                            *)
LEMMA MinOf ==
    ASSUME NEW S, S \subseteq Nat, S # {}
    PROVE  Min(S) \in S /\ \A y \in S : Min(S) <= y
  BY LeastOf DEF Min

(* And there is a greatest of numbers that are bounded.                    *)
LEMMA MaxOf ==
    ASSUME NEW b \in Nat, NEW S, S \subseteq 0 .. b, S # {}
    PROVE  Max(S) \in S /\ \A y \in S : y <= Max(S)
  <1> DEFINE U == {n \in Nat : b - n \in S}
  <1>1. \A y \in S : y \in Int /\ b - y \in Nat /\ b - (b - y) = y
    OBVIOUS
  <1>2. U \subseteq Nat /\ U # {}
    BY <1>1
  <1>3. PICK n \in U : \A x \in U : n <= x
    <2> HIDE DEF U
    <2> QED BY <1>2, LeastOf
  <1>4. b - n \in S /\ \A y \in S : n <= b - y
    BY <1>1, <1>3
  <1>5. \A y \in S : b - n >= y
    BY <1>1, <1>3, <1>4
  <1>6. \E x \in S : \A y \in S : x >= y
    BY <1>4, <1>5
  <1>7. Max(S) \in S /\ \A y \in S : Max(S) >= y
    BY <1>6 DEF Max
  <1> QED BY <1>1, <1>7

(* Nothing wraps that is a number of 64 bits.                              *)
LEMMA WideOf ==
    ASSUME NEW x \in Int
    PROVE  x % Wide \in 0 .. Wide - 1 /\ (x \in 0 .. Wide - 1 => x % Wide = x)
  <1>1. Wide \in Nat \ {0}
    <2>1. Size \in Nat /\ Base \in Nat \ {0} /\ Quantum \in Nat /\ MaxPcb \in Nat
      BY Sizes, ProcessesAssumption
    <2>2. Size * MaxPcb \in Nat
      BY <2>1
    <2> HIDE DEF Size
    <2> QED BY <2>1, <2>2, WideAssumption
  <1> QED BY <1>1

(* Rounding up does not come out below.                                    *)
LEMMA UpOf ==
    ASSUME NEW a \in Nat, NEW n \in Nat \ {0}
    PROVE  Up(a, n) \in Nat /\ a <= Up(a, n)
  <1>1. PICK b \in Nat : b = a + n - 1
    <2>1. a + n - 1 \in Nat
      OBVIOUS
    <2> QED BY <2>1
  <1>2. PICK q \in Nat, v \in 0 .. n - 1 : q = b \div n /\ b = n * q + v
    BY Divided
  <1>3. n * q \in Nat /\ n * q = a + n - 1 - v
    BY <1>1, <1>2
  <1>4. Up(a, n) = n * q
    BY <1>1, <1>2 DEF Up
  <1> QED BY <1>3, <1>4

(* The part of an image that is loaded, from low up to high: every segment *)
(* that ends within 64 bits is in it, and then it is as long as it seems.  *)
LEMMA Extent ==
    ASSUME NEW image \in Images, NEW low, NEW high,
           low = Min({Wide - 1} \cup {image.segments[i].vaddr : i \in DOMAIN image.segments}),
           high = Max({0} \cup {End(image.segments[i]) : i \in DOMAIN image.segments})
    PROVE  /\ low \in Nat /\ (high - low) % Wide \in Nat
           /\ \A i \in DOMAIN image.segments :
                 /\ image.segments[i] \in [vaddr : Nat, memsz : Nat]
                 /\ low <= image.segments[i].vaddr
                 /\ Unwrapped(image.segments[i]) =>
                       image.segments[i].vaddr - low + image.segments[i].memsz <= (high - low) % Wide
  <1> DEFINE segments == image.segments
             Lows == {Wide - 1} \cup {segments[i].vaddr : i \in DOMAIN segments}
             Highs == {0} \cup {End(segments[i]) : i \in DOMAIN segments}
  <1>1. 0 % Wide \in 0 .. Wide - 1 /\ Wide \in Nat
    BY WideOf, WideAssumption
  <1>2. \A i \in DOMAIN segments :
           /\ segments[i].vaddr \in 0 .. Wide - 1 /\ segments[i].memsz \in 0 .. Wide - 1
           /\ segments[i] \in [vaddr : Nat, memsz : Nat]
    <2> DEFINE Segments == [vaddr : 0 .. Wide - 1, memsz : 0 .. Wide - 1]
    <2>1. segments \in Seq(Segments)
      BY ImagesAssumption
    <2>2. \A x \in Segments : /\ x.vaddr \in 0 .. Wide - 1 /\ x.memsz \in 0 .. Wide - 1
                              /\ x \in [vaddr : Nat, memsz : Nat]
      OBVIOUS
    <2> HIDE DEF segments, Segments
    <2>3. \A i \in DOMAIN segments : segments[i] \in Segments
      BY <2>1
    <2> QED BY <2>2, <2>3
  <1>h. low = Min(Lows) /\ high = Max(Highs)
    OBVIOUS
  <1> HIDE DEF segments
  <1>3. \A i \in DOMAIN segments :
           End(segments[i]) = (segments[i].vaddr + segments[i].memsz) % Wide
    BY DEF End
  <1>4. \A i \in DOMAIN segments :
           /\ End(segments[i]) \in 0 .. Wide - 1
           /\ Unwrapped(segments[i]) => End(segments[i]) = segments[i].vaddr + segments[i].memsz
    <2> SUFFICES ASSUME NEW i \in DOMAIN segments
                 PROVE  /\ End(segments[i]) \in 0 .. Wide - 1
                        /\ Unwrapped(segments[i]) =>
                              End(segments[i]) = segments[i].vaddr + segments[i].memsz
      OBVIOUS
    <2>1. PICK x \in Nat : x = segments[i].vaddr + segments[i].memsz
      BY <1>2
    <2>2. x % Wide \in 0 .. Wide - 1 /\ (x \in 0 .. Wide - 1 => x % Wide = x)
      BY WideOf
    <2>3. Unwrapped(segments[i]) => x \in 0 .. Wide - 1
      BY <1>1, <2>1 DEF Unwrapped
    <2> QED BY <1>3, <2>1, <2>2, <2>3
  <1>5. Lows \subseteq Nat /\ Lows # {}
    BY <1>1, <1>2
  <1>6. Highs \subseteq 0 .. Wide - 1 /\ Highs # {} /\ Wide - 1 \in Nat
    BY <1>1, <1>4
  <1>7. low \in Lows /\ \A y \in Lows : low <= y
    <2> HIDE DEF Lows
    <2> QED BY <1>5, <1>h, MinOf
  <1>8. high \in Highs /\ \A y \in Highs : y <= high
    <2> HIDE DEF Highs
    <2> QED BY <1>6, <1>h, MaxOf
  <1>9. low \in Nat /\ high \in 0 .. Wide - 1
    BY <1>5, <1>6, <1>7, <1>8
  <1>10. /\ (high - low) % Wide \in 0 .. Wide - 1
         /\ low <= high => (high - low) % Wide = high - low
    <2>1. high - low \in Int
      BY <1>9
    <2>2. low <= high => high - low \in 0 .. Wide - 1
      BY <1>1, <1>9
    <2> QED BY <2>1, <2>2, WideOf
  <1>11. ASSUME NEW i \in DOMAIN segments
         PROVE  /\ low <= segments[i].vaddr
                /\ Unwrapped(segments[i]) =>
                      segments[i].vaddr - low + segments[i].memsz <= (high - low) % Wide
    <2>1. segments[i].vaddr \in Lows /\ End(segments[i]) \in Highs
      BY <1>11
    <2> HIDE DEF Lows, Highs
    <2>2. low <= segments[i].vaddr /\ End(segments[i]) <= high
      BY <1>7, <1>8, <2>1
    <2>3. segments[i].vaddr \in 0 .. Wide - 1 /\ segments[i].memsz \in 0 .. Wide - 1
      BY <1>2, <1>11
    <2>4. Unwrapped(segments[i]) => End(segments[i]) = segments[i].vaddr + segments[i].memsz
      BY <1>4, <1>11
    <2>5. PICK v \in Nat, z \in Nat : v = segments[i].vaddr /\ z = segments[i].memsz
      BY <2>3
    <2>6. ASSUME Unwrapped(segments[i]) PROVE v - low + z <= (high - low) % Wide
      <3>1. v + z <= high /\ low <= v
        BY <2>2, <2>4, <2>5, <2>6
      <3>2. low <= high
        BY <1>9, <2>5, <3>1
      <3>3. (high - low) % Wide = high - low
        BY <1>10, <3>2
      <3> QED BY <1>9, <2>5, <3>1, <3>3
    <2> QED BY <2>2, <2>5, <2>6
  <1>12. (high - low) % Wide \in Nat
    BY <1>1, <1>10
  <1> HIDE DEF Lows, Highs
  <1> QED BY <1>2, <1>9, <1>11, <1>12 DEF segments
-----------------------------------------------------------------------------
(* Loading an image: one field of the control block after another.         *)
LEMMA Again ==
    ASSUME NEW c, NEW id \in DOMAIN c, NEW x, NEW y
    PROVE  /\ [[c EXCEPT ![id] = x] EXCEPT ![id] = y] = [c EXCEPT ![id] = y]
           /\ id \in DOMAIN [c EXCEPT ![id] = x] /\ [c EXCEPT ![id] = x][id] = x
  OBVIOUS

(* All that copying and entering an image writes.                          *)
EntersAt(a, n, m, c, id, p, k, e, h, l, q, full) ==
    /\ id \in DOMAIN c /\ k = State(a, n, m, [c EXCEPT ![id] = p], NULL)
    /\ q = [p EXCEPT !.elr = e, !.heap_start = h, !.heap_break = h, !.heap_limit = l]
    /\ full = [k EXCEPT !.pcb[id].elr = e, !.pcb[id].heap_start = h, !.pcb[id].heap_break = h,
                        !.pcb[id].heap_limit = l, !.ret = id]

(* A return value changes nothing else.                                    *)
LEMMA Returned ==
    ASSUME NEW a, NEW n, NEW m, NEW c, NEW r, NEW k, k = State(a, n, m, c, r), NEW x
    PROVE  [k EXCEPT !.ret = x] = State(a, n, m, c, x)
  BY DEF State

(* The end of elf_load_image, part by part.                                *)
LEMMA Entered ==
    ASSUME NEW a, NEW n, NEW m, NEW c, NEW id, NEW p, NEW k, NEW e, NEW h, NEW l, NEW q, NEW full,
           EntersAt(a, n, m, c, id, p, k, e, h, l, q, full)
    PROVE  full = State(a, n, m, [c EXCEPT ![id] = q], id)
  <1> USE DEF EntersAt
  <1> DEFINE p1 == [p EXCEPT !.elr = e]
             p2 == [p1 EXCEPT !.heap_start = h]
             p3 == [p2 EXCEPT !.heap_break = h]
             p4 == [p3 EXCEPT !.heap_limit = l]
             c0 == [c EXCEPT ![id] = p]
             c1 == [c EXCEPT ![id] = p1]
             c2 == [c EXCEPT ![id] = p2]
             c3 == [c EXCEPT ![id] = p3]
             k1 == [k EXCEPT !.pcb[id].elr = e]
             k2 == [k1 EXCEPT !.pcb[id].heap_start = h]
             k3 == [k2 EXCEPT !.pcb[id].heap_break = h]
             k4 == [k3 EXCEPT !.pcb[id].heap_limit = l]
  <1>1. full = [k4 EXCEPT !.ret = id]
    OBVIOUS
  <1>2. /\ id \in DOMAIN c0 /\ c0[id] = p /\ id \in DOMAIN c1 /\ c1[id] = p1
        /\ id \in DOMAIN c2 /\ c2[id] = p2 /\ id \in DOMAIN c3 /\ c3[id] = p3
    OBVIOUS
  <1>3. k1 = State(a, n, m, [c0 EXCEPT ![id] = p1], NULL)
    <2>1. k = State(a, n, m, c0, NULL)
      OBVIOUS
    <2>2. \A y : [k EXCEPT !.pcb[id] = y] = State(a, n, m, [c0 EXCEPT ![id] = y], NULL)
      BY <2>1 DEF State
    <2>3. k1 = [k EXCEPT !.pcb[id] = p1]
      BY <1>2, <2>1 DEF State
    <2> HIDE DEF k1, p1, c0
    <2> QED BY <2>2, <2>3, Zenon
  <1>4. k1 = State(a, n, m, c1, NULL)
    BY <1>3, Again
  <1> HIDE DEF k1, p1, c1
  <1>5. k2 = State(a, n, m, [c1 EXCEPT ![id] = p2], NULL)
    <2>1. k1.pcb = c1
      BY <1>4 DEF State
    <2>2. \A y : [k1 EXCEPT !.pcb[id] = y] = State(a, n, m, [c1 EXCEPT ![id] = y], NULL)
      BY <1>4 DEF State
    <2>3. k2 = [k1 EXCEPT !.pcb[id] = p2]
      BY <1>2, <2>1
    <2> HIDE DEF k2, p2
    <2> QED BY <2>2, <2>3, Zenon
  <1>6. k2 = State(a, n, m, c2, NULL)
    BY <1>5, Again DEF c1
  <1> HIDE DEF k2, p2, c2
  <1>7. k3 = State(a, n, m, [c2 EXCEPT ![id] = p3], NULL)
    <2>1. k2.pcb = c2
      BY <1>6 DEF State
    <2>2. \A y : [k2 EXCEPT !.pcb[id] = y] = State(a, n, m, [c2 EXCEPT ![id] = y], NULL)
      BY <1>6 DEF State
    <2>3. k3 = [k2 EXCEPT !.pcb[id] = p3]
      BY <1>2, <2>1
    <2> HIDE DEF k3, p3
    <2> QED BY <2>2, <2>3, Zenon
  <1>8. k3 = State(a, n, m, c3, NULL)
    BY <1>7, Again DEF c2
  <1> HIDE DEF k3, p3, c3
  <1>9. k4 = State(a, n, m, [c3 EXCEPT ![id] = p4], NULL)
    <2>1. k3.pcb = c3
      BY <1>8 DEF State
    <2>2. \A y : [k3 EXCEPT !.pcb[id] = y] = State(a, n, m, [c3 EXCEPT ![id] = y], NULL)
      BY <1>8 DEF State
    <2>3. k4 = [k3 EXCEPT !.pcb[id] = p4]
      BY <1>2, <2>1
    <2> HIDE DEF k4, p4
    <2> QED BY <2>2, <2>3, Zenon
  <1>10. k4 = State(a, n, m, [c EXCEPT ![id] = p4], NULL)
    BY <1>9, Again DEF c3
  <1>11. p4 = q
    BY DEF p3, p2, p1
  <1> HIDE DEF k4, p4
  <1>12. full = State(a, n, m, [c EXCEPT ![id] = p4], id)
    <2> DEFINE f == [c EXCEPT ![id] = p4]
    <2>1. k4 = State(a, n, m, f, NULL)
      BY <1>10
    <2> HIDE DEF f
    <2>2. [k4 EXCEPT !.ret = id] = State(a, n, m, f, id)
      BY <2>1, Returned
    <2>3. full = State(a, n, m, f, id)
      BY <1>1, <2>2, Zenon
    <2> QED BY <2>3 DEF f
  <1> QED BY <1>11, <1>12

(* An image that is loaded, in part or whole, leaves the pcb in its place: *)
(* its entry may change, its heap begins after the image and in the        *)
(* region.                                                                 *)
LEMMA Loaded ==
    ASSUME NEW a, NEW n, NEW m, NEW c, Laid(a, n, m, c), NEW id \in 1 .. n, c[id].heap_start = 0,
           NEW k, k = State(a, n, m, c, id), NEW image \in Images
    PROVE  \E p \in Pcb, r \in Nat :
              InPlace(id, p) /\ elf_load_image(k, image) = State(a, n, m, [c EXCEPT ![id] = p], r)
  <1> DEFINE segments == image.segments
             low == Min({Wide - 1} \cup {segments[i].vaddr : i \in DOMAIN segments})
             high == Max({0} \cup {End(segments[i]) : i \in DOMAIN segments})
             extent == (high - low) % Wide
             real == mm_find(m, c[id].mm_addr)
             load == Up(real, image.align)
             hs == Up(load + extent, Quantum)
             hl == real + Size - Reserve
             reach == [i \in DOMAIN segments |->
                         (load - real + segments[i].vaddr - low + segments[i].memsz) % Wide]
             far == {i \in DOMAIN segments : reach[i] > Size - Reserve}
             near == {i \in DOMAIN segments : \A j \in far : i < j}
             dests == {Dest(load, low, segments[i]) : i \in near}
             refused == [k EXCEPT !.ret = NULL]
             copied == [k EXCEPT !.pcb[id].loaded = dests, !.ret = NULL]
             e == (load + image.entry - low) % Wide
             full == [copied EXCEPT !.pcb[id].elr = e, !.pcb[id].heap_start = hs,
                                    !.pcb[id].heap_break = hs, !.pcb[id].heap_limit = hl, !.ret = id]
             Stops == ~image.valid \/ low = Wide - 1 \/ extent > Size \/ hs > hl
             Late == far # {} \/ image.entry < low
             p0 == c[id]
             p1 == [p0 EXCEPT !.loaded = dests]
             p2 == [p1 EXCEPT !.elr = e, !.heap_start = hs, !.heap_break = hs, !.heap_limit = hl]
  <1>1. elf_load_image(k, image) =
           IF ~image.valid \/ low = Wide - 1 THEN refused
           ELSE IF extent > Size \/ hs > hl THEN refused
           ELSE IF far # {} \/ image.entry < low THEN copied
           ELSE full
    <2>1. k.ret = id /\ k.mem = m /\ k.pcb = c
      BY DEF State
    <2> QED BY <2>1 DEF elf_load_image
  <1>2. /\ n \in Nat /\ id \in Nat \ {0} /\ id <= n /\ id \in 1 .. MaxPcb - 1
        /\ c \in [1 .. MaxPcb - 1 -> Pcb] /\ InPlace(id, p0)
    BY ProcessesAssumption DEF Laid
  <1>3. p0 \in Pcb /\ id \in DOMAIN c /\ p0.mm_addr = Entries * (id - 1) /\ p0.sp = Start(id + 1)
    BY <1>2 DEF InPlace
  <1>4. real = Start(id)
    BY <1>2, <1>3, FindsStart
  <1>5. CASE Stops
    <2>1. elf_load_image(k, image) = refused
      <3> HIDE DEF refused, copied, full, low, extent, hs, hl, far
      <3> QED BY <1>1, <1>5
    <2>2. [c EXCEPT ![id] = p0] = c
      BY <1>2
    <2>3. refused = State(a, n, m, [c EXCEPT ![id] = p0], 0)
      BY <2>2, Returned DEF NULL
    <2>4. 0 \in Nat
      OBVIOUS
    <2> HIDE DEF p0, refused
    <2> QED BY <1>2, <1>3, <2>1, <2>3, <2>4, Zenon
  <1>6. CASE ~Stops
    <2>1. /\ low \in Nat /\ extent \in Nat
          /\ \A i \in DOMAIN segments :
                /\ segments[i] \in [vaddr : Nat, memsz : Nat] /\ low <= segments[i].vaddr
                /\ Unwrapped(segments[i]) =>
                      segments[i].vaddr - low + segments[i].memsz <= extent
      BY Extent
    <2>2. image.align \in Nat \ {0} /\ image.entry \in Nat /\ Quantum \in Nat \ {0}
      BY ImagesAssumption, ProcessesAssumption
    <2>3. /\ real \in Nat \ {0} /\ Start(id + 1) = real + Size /\ Size \in Nat
          /\ Reserve \in Nat /\ Reserve < Size
      BY <1>2, <1>4, StartOf, Sizes, ProcessesAssumption
    <2>w. Start(id + 1) < Wide
      BY <1>2, BelowWide, ProcessesAssumption DEF Laid
    <2>d. dests = {Dest(load, low, segments[i]) : i \in near} /\ near \subseteq DOMAIN segments
      OBVIOUS
    <2>g. ~(hs > hl) /\ hl = real + Size - Reserve
      BY <1>6
    <2>n. /\ ~(~image.valid \/ low = Wide - 1) /\ ~(extent > Size \/ hs > hl)
      BY <1>6
    <2> HIDE DEF Stops, near, far, reach, low, extent, real, dests
    <2>4. load \in Nat /\ real <= load
      BY <2>2, <2>3, UpOf
    <2> HIDE DEF load
    <2>5. load + extent \in Nat
      BY <2>1, <2>4
    <2>6. hs \in Nat /\ load + extent <= hs
      BY <2>2, <2>5, UpOf
    <2> HIDE DEF hs, hl
    <2>7. hl \in Nat /\ hs <= hl /\ hl + Reserve = Start(id + 1) /\ hs # 0
      BY <2>1, <2>3, <2>4, <2>6, <2>g
    <2>8. \A d \in dests : d \in Copies /\ (Unwrapped(d.segment) => real <= d.from /\ d.to <= hs)
      <3> SUFFICES ASSUME NEW i \in DOMAIN segments
                   PROVE  LET d == Dest(load, low, segments[i])
                          IN  d \in Copies /\ (Unwrapped(d.segment) => real <= d.from /\ d.to <= hs)
        BY <2>d
      <3>1. PICK s \in [vaddr : Nat, memsz : Nat] :
               /\ s = segments[i] /\ low <= s.vaddr
               /\ Unwrapped(s) => s.vaddr - low + s.memsz <= extent
        BY <2>1
      <3>2. PICK x \in Nat : x = load + s.vaddr - low
        BY <2>1, <2>4, <3>1
      <3>3. Dest(load, low, s) = [segment |-> s, from |-> x % Wide, to |-> (x % Wide) + s.memsz]
        BY <3>2, Zenon DEF Dest
      <3>4. x % Wide \in 0 .. Wide - 1 /\ (x \in 0 .. Wide - 1 => x % Wide = x)
        BY WideOf
      <3>5. ASSUME Unwrapped(s) PROVE real <= x % Wide /\ (x % Wide) + s.memsz <= hs
        <4>1. real <= x /\ x + s.memsz <= hs /\ s.memsz \in Nat
          BY <2>1, <2>3, <2>4, <2>6, <3>1, <3>2, <3>5
        <4>2. x \in 0 .. Wide - 1
          BY <2>3, <2>6, <2>7, <2>w, <4>1, WideAssumption
        <4> QED BY <3>4, <4>1, <4>2
      <3>6. Dest(load, low, s) \in Copies
        BY <3>1, <3>3, <3>4 DEF Copies
      <3> QED BY <3>1, <3>3, <3>5, <3>6
    <2> HIDE DEF dests
    <2>9. p1 \in Pcb /\ InPlace(id, p1)
      <3>1. /\ p1.mm_addr = p0.mm_addr /\ p1.sp = p0.sp /\ p1.loaded = dests /\ p1.heap_start = 0
            /\ p1 \in Pcb
        BY <1>3, <2>8 DEF Pcb
      <3>2. Start(id + 1) \in Nat /\ hs <= Start(id + 1)
        BY <2>3, <2>6, <2>7
      <3>3. \A d \in dests : Unwrapped(d.segment) => Start(id) <= d.from /\ d.to <= Start(id + 1)
        <4>1. \A d \in dests : d.to \in Int
          BY <2>8 DEF Copies
        <4> QED BY <1>4, <2>6, <2>8, <3>2, <4>1
      <3> HIDE DEF p1, p0
      <3> QED BY <1>3, <3>1, <3>3 DEF InPlace
    <2>10. copied = State(a, n, m, [c EXCEPT ![id] = p1], NULL)
      <3> DEFINE k1 == [k EXCEPT !.pcb[id].loaded = dests]
      <3>1. k.pcb = c
        BY DEF State
      <3>2. \A y : [k EXCEPT !.pcb[id] = y] = State(a, n, m, [c EXCEPT ![id] = y], id)
        BY DEF State
      <3>3. k1 = [k EXCEPT !.pcb[id] = p1]
        BY <3>1
      <3>4. copied = [k1 EXCEPT !.ret = NULL]
        OBVIOUS
      <3> DEFINE f == [c EXCEPT ![id] = p1]
      <3>5. k1 = State(a, n, m, f, id)
        <4> HIDE DEF k1, p1
        <4> QED BY <3>2, <3>3, Zenon
      <3> HIDE DEF k1, f, copied
      <3>6. copied = State(a, n, m, f, NULL)
        BY <3>4, <3>5, Returned
      <3> QED BY <3>6 DEF f
    <2>11. CASE Late
      <3>1. elf_load_image(k, image) = copied
        <4> HIDE DEF copied, full
        <4> QED BY <1>1, <2>n, <2>11
      <3>2. NULL \in Nat
        BY DEF NULL
      <3> HIDE DEF copied, p1
      <3> QED BY <2>9, <2>10, <3>1, <3>2, Zenon
    <2>12. CASE ~Late
      <3>1. elf_load_image(k, image) = full
        <4> HIDE DEF copied, full
        <4> QED BY <1>1, <2>n, <2>12
      <3>2. e \in Nat
        <4>1. load + image.entry - low \in Int
          BY <2>1, <2>2, <2>4
        <4>2. e \in 0 .. Wide - 1
          BY <4>1, WideOf
        <4> QED BY <4>2
      <3> HIDE DEF e
      <3>3. EntersAt(a, n, m, c, id, p1, copied, e, hs, hl, p2, full)
        <4>1. full = [copied EXCEPT !.pcb[id].elr = e, !.pcb[id].heap_start = hs,
                                    !.pcb[id].heap_break = hs, !.pcb[id].heap_limit = hl, !.ret = id]
          OBVIOUS
        <4>2. p2 = [p1 EXCEPT !.elr = e, !.heap_start = hs, !.heap_break = hs, !.heap_limit = hl]
          OBVIOUS
        <4> HIDE DEF full, copied, p1, p2
        <4> QED BY <1>3, <2>10, <4>1, <4>2, Zenon DEF EntersAt
      <3>4. full = State(a, n, m, [c EXCEPT ![id] = p2], id)
        <4> HIDE DEF full, copied, p1, p2
        <4> QED BY <3>3, Entered
      <3> HIDE DEF full
      <3>5. /\ p2.mm_addr = p1.mm_addr /\ p2.sp = p1.sp /\ p2.loaded = p1.loaded
            /\ p2.heap_start = hs /\ p2.heap_break = hs /\ p2.heap_limit = hl /\ p2 \in Pcb
        <4> HIDE DEF p1
        <4> QED BY <2>6, <2>7, <2>9, <3>2 DEF Pcb
      <3>6. p1.sp = Start(id + 1) /\ p1.loaded = dests
        BY <1>3 DEF Pcb
      <3> HIDE DEF p2, p1
      <3>7. InPlace(id, p2)
        BY <2>6, <2>7, <2>8, <2>9, <3>5, <3>6 DEF InPlace
      <3>8. id \in Nat
        BY <1>2
      <3> QED BY <3>1, <3>4, <3>5, <3>7, <3>8, Zenon
    <2> QED BY <2>11, <2>12
  <1> QED BY <1>5, <1>6
-----------------------------------------------------------------------------
(* What mata_exec_file does to the variables: nothing, or one more process *)
(* in its place.                                                           *)
Adds(p, r) ==
    /\ pages < PageTables /\ Len(mem) + Entries <= Bottom
    /\ p \in Pcb /\ InPlace(pages + 1, p) /\ r \in Nat
    /\ is_alloc' = is_alloc \cup {pages} /\ pages' = pages + 1 /\ mem' = mem \o Shares
    /\ pcb' = [pcb EXCEPT ![pages + 1] = p] /\ ret' = r

Refuses == UNCHANGED <<is_alloc, pages, mem, pcb>> /\ ret' = NULL

(* A creation that leaves all as it was refuses.                           *)
LEMMA LeavesNow == ASSUME Leaves(Now) PROVE Refuses
  BY DEF Leaves, Now, Refuses

(* What a handler leaves, part by part.                                    *)
LEMMA LeavesState ==
    ASSUME NEW a, NEW n, NEW m, NEW c, NEW r, Leaves(State(a, n, m, c, r))
    PROVE  is_alloc' = a /\ pages' = n /\ mem' = m /\ pcb' = c /\ ret' = r
  BY DEF Leaves, State

(* exec of a function: a process more, or none.                            *)
LEMMA DirectStep ==
    ASSUME IInv, NEW heap \in BOOLEAN, heap => pages < PageTables, exec_direct(heap)
    PROVE  Refuses \/ \E p, r : Adds(p, r)
  <1>1. 1 \in Nat
    OBVIOUS
  <1>2. CASE pm_create(1, heap) = Now
    <2>1. Leaves(Now)
      BY <1>2 DEF exec_direct
    <2> QED BY <2>1, LeavesNow
  <1>3. CASE /\ pm_create(1, heap) = Made(1)
             /\ pages < PageTables /\ Len(mem) + Entries <= Bottom
    <2>1. Leaves(Made(1))
      BY <1>3 DEF exec_direct
    <2>2. /\ is_alloc' = is_alloc \cup {pages} /\ pages' = pages + 1 /\ mem' = mem \o Shares
          /\ pcb' = [pcb EXCEPT ![pages + 1] = NewPcb(1)] /\ ret' = pages + 1
      <3> DEFINE a == is_alloc \cup {pages}
                 n == pages + 1
                 m == mem \o Shares
                 c == [pcb EXCEPT ![pages + 1] = NewPcb(1)]
      <3>1. Leaves(State(a, n, m, c, n))
        BY <2>1 DEF Made
      <3> HIDE DEF a, n, m, c
      <3>2. is_alloc' = a /\ pages' = n /\ mem' = m /\ pcb' = c /\ ret' = n
        BY <3>1, LeavesState
      <3> QED BY <3>2 DEF a, n, m, c
    <2>3. NewPcb(1) \in Pcb /\ InPlace(pages + 1, NewPcb(1))
      BY <1>1, NewInPlace
    <2>4. pages + 1 \in Nat
      BY DEF IInv, Laid
    <2>5. Adds(NewPcb(1), pages + 1)
      BY <1>3, <2>2, <2>3, <2>4, Zenon DEF Adds
    <2> QED BY <2>5, Zenon
  <1> QED BY <1>1, <1>2, <1>3, Creation

(* exec of an image: a process more, or none.                              *)
LEMMA ImageStep ==
    ASSUME IInv, NEW heap \in BOOLEAN, heap => pages < PageTables,
           NEW image \in Images, exec_image(image, heap)
    PROVE  Refuses \/ \E p, r : Adds(p, r)
  <1> DEFINE k == pm_create(0, heap)
  <1>1. 0 \in Nat /\ Leaves(IF k.ret = NULL THEN k ELSE elf_load_image(k, image))
    BY DEF exec_image
  <1>2. CASE k = Now
    <2>1. k.ret = NULL
      BY <1>2 DEF Now
    <2>2. Leaves(Now)
      <3> HIDE DEF k
      <3> QED BY <1>1, <1>2, <2>1
    <2> QED BY <2>2, LeavesNow
  <1>3. CASE k = Made(0) /\ pages < PageTables /\ Len(mem) + Entries <= Bottom
    <2> HIDE DEF k
    <2> DEFINE id == pages + 1
               a == is_alloc \cup {pages}
               m == mem \o Shares
               c == [pcb EXCEPT ![id] = NewPcb(0)]
    <2>1. k = State(a, id, m, c, id)
      BY <1>3 DEF Made
    <2>2. Laid(a, id, m, c)
      <3>1. Laid(is_alloc, pages, mem, pcb)
        BY DEF IInv
      <3> QED BY <1>1, <1>3, <3>1, NewInPlace, LaidOneMore
    <2>3. pages \in Nat /\ id \in 1 .. id /\ id # NULL /\ id \in DOMAIN pcb
      BY <1>3, ProcessesAssumption DEF IInv, Laid, NULL
    <2>4. c[id] = NewPcb(0) /\ NewPcb(0).heap_start = 0
      BY <2>3 DEF NewPcb, EmptyPcb
    <2>5. k.ret # NULL
      BY <2>1, <2>3 DEF State
    <2> HIDE DEF id, a, m, c
    <2>6. \E p \in Pcb, r \in Nat :
             InPlace(id, p) /\ elf_load_image(k, image) = State(a, id, m, [c EXCEPT ![id] = p], r)
      <3>1. c[id].heap_start = 0
        BY <2>4
      <3> QED BY <2>1, <2>2, <2>3, <3>1, Loaded
    <2>7. PICK p \in Pcb, r \in Nat :
             InPlace(id, p) /\ elf_load_image(k, image) = State(a, id, m, [c EXCEPT ![id] = p], r)
      BY <2>6
    <2>8. Leaves(State(a, id, m, [c EXCEPT ![id] = p], r))
      BY <1>1, <2>5, <2>7
    <2>9. is_alloc' = a /\ pages' = id /\ mem' = m /\ pcb' = [c EXCEPT ![id] = p] /\ ret' = r
      BY <2>8, LeavesState
    <2>10. [c EXCEPT ![id] = p] = [pcb EXCEPT ![id] = p]
      BY <2>3, Again DEF c
    <2>11. Adds(p, r)
      BY <1>3, <2>7, <2>9, <2>10 DEF Adds, id, a, m
    <2> QED BY <2>11, Zenon
  <1> HIDE DEF k
  <1>4. k = Now \/ (k = Made(0) /\ pages < PageTables /\ Len(mem) + Entries <= Bottom)
    BY <1>1, Creation DEF k
  <1> QED BY <1>2, <1>3, <1>4

(* A process that asks for more heap stays in its place.                   *)
LEMMA BrkStep ==
    ASSUME IInv, NEW id \in Processes, NEW n \in Grants, brk_call(id, n)
    PROVE  /\ id \in 1 .. pages
           /\ UNCHANGED <<is_alloc, pages, mem>> /\ ret' \in Nat \cup {Minus1}
           /\ \E p \in Pcb : /\ InPlace(id, p) /\ pcb' = [pcb EXCEPT ![id] = p]
                             /\ p.heap_break >= pcb[id].heap_break
                             /\ [p EXCEPT !.heap_break = 0] = [pcb[id] EXCEPT !.heap_break = 0]
  <1> DEFINE p == pcb[id]
             granted == p.heap_start # 0 /\ (n = 0 \/ n <= p.heap_limit - p.heap_break)
             q == [p EXCEPT !.heap_break = @ + n]
  <1>1. pcb \in [1 .. MaxPcb - 1 -> Pcb] /\ id \in 1 .. MaxPcb - 1 /\ p.sp # 0 /\ n \in Nat
    BY ProcessesAssumption DEF Processes, IInv, Laid
  <1>2. id <= pages /\ pages \in Nat /\ InPlace(id, p) /\ p \in Pcb
    BY <1>1, ProcessesAssumption DEF IInv, Laid, EmptyPcb
  <1>3. UNCHANGED <<is_alloc, pages, mem>>
    BY DEF brk_call
  <1>4. ret' \in Nat \cup {Minus1}
    BY <1>2 DEF brk_call, Pcb
  <1>5. CASE granted
    <2>1. pcb' = [pcb EXCEPT ![id] = q]
      BY <1>1, <1>5 DEF brk_call
    <2>2. p.heap_break \in Nat /\ p.heap_limit \in Nat
      BY <1>2 DEF Pcb
    <2>3. /\ q.mm_addr = p.mm_addr /\ q.sp = p.sp /\ q.loaded = p.loaded /\ q.heap_start = p.heap_start
          /\ q.heap_limit = p.heap_limit /\ q.heap_break = p.heap_break + n /\ q \in Pcb
      BY <1>1, <1>2 DEF Pcb
    <2>4. [q EXCEPT !.heap_break = 0] = [p EXCEPT !.heap_break = 0]
      BY <1>2 DEF Pcb
    <2>5. granted => p.heap_break + n <= p.heap_limit \/ n = 0
      BY <1>1, <2>2
    <2>6. p.heap_start # 0
      BY <1>5
    <2> HIDE DEF q, p, granted
    <2>7. InPlace(id, q)
      BY <1>1, <1>2, <1>5, <2>2, <2>3, <2>5, <2>6 DEF InPlace, Pcb
    <2>8. q.heap_break >= p.heap_break
      BY <1>1, <2>2, <2>3
    <2>9. /\ q \in Pcb /\ InPlace(id, q) /\ pcb' = [pcb EXCEPT ![id] = q]
          /\ q.heap_break >= pcb[id].heap_break
          /\ [q EXCEPT !.heap_break = 0] = [pcb[id] EXCEPT !.heap_break = 0]
      BY <2>1, <2>3, <2>4, <2>7, <2>8 DEF p
    <2>10. \E x \in Pcb : /\ InPlace(id, x) /\ pcb' = [pcb EXCEPT ![id] = x]
                          /\ x.heap_break >= pcb[id].heap_break
                          /\ [x EXCEPT !.heap_break = 0] = [pcb[id] EXCEPT !.heap_break = 0]
      BY <2>9, Zenon
    <2>11. id \in 1 .. pages
      BY <1>1, <1>2
    <2> QED BY <1>3, <1>4, <2>10, <2>11
  <1>6. CASE ~granted
    <2>1. pcb' = pcb
      BY <1>6 DEF brk_call
    <2>2. pcb = [pcb EXCEPT ![id] = p]
      BY <1>1
    <2>3. p.heap_break >= p.heap_break
      BY <1>2 DEF Pcb
    <2> QED BY <1>1, <1>2, <1>3, <1>4, <2>1, <2>2, <2>3
  <1> QED BY <1>5, <1>6
-----------------------------------------------------------------------------
(* The steps preserve the invariant.                                       *)
LEMMA StepCases ==
    ASSUME IInv, Next
    PROVE  \/ Refuses
           \/ \E p, r : Adds(p, r)
           \/ \E id \in Processes, n \in Grants : brk_call(id, n)
  BY DirectStep, ImageStep DEF Next

(* A process more keeps the layout.                                        *)
LEMMA AddsLaid ==
    ASSUME IInv, NEW p, NEW r, Adds(p, r)
    PROVE  IInv'
  <1>1. Laid(is_alloc, pages, mem, pcb)
    BY DEF IInv
  <1>2. Laid(is_alloc \cup {pages}, pages + 1, mem \o Shares, [pcb EXCEPT ![pages + 1] = p])
    BY <1>1, LaidOneMore DEF Adds
  <1>3. Laid(is_alloc', pages', mem', pcb') /\ ret' \in Nat
    BY <1>2, Zenon DEF Adds
  <1> QED BY <1>3 DEF IInv

(* brk moves the end of one heap within its region.                        *)
LEMMA BrkLaid ==
    ASSUME IInv, NEW id \in Processes, NEW n \in Grants, brk_call(id, n)
    PROVE  IInv'
  <1>1. Laid(is_alloc, pages, mem, pcb)
    BY DEF IInv
  <1>2. /\ id \in 1 .. pages /\ UNCHANGED <<is_alloc, pages, mem>> /\ ret' \in Nat \cup {Minus1}
        /\ \E p \in Pcb : InPlace(id, p) /\ pcb' = [pcb EXCEPT ![id] = p]
    BY BrkStep
  <1>3. PICK p \in Pcb : InPlace(id, p) /\ pcb' = [pcb EXCEPT ![id] = p]
    BY <1>2
  <1>4. Laid(is_alloc, pages, mem, [pcb EXCEPT ![id] = p])
    BY <1>1, <1>2, <1>3, LaidInPlace
  <1>5. Laid(is_alloc', pages', mem', pcb')
    BY <1>2, <1>3, <1>4
  <1> QED BY <1>2, <1>5 DEF IInv

(* Every step keeps the layout.                                            *)
LEMMA NextLaid == IInv /\ [Next]_vars => IInv'
  <1> SUFFICES ASSUME IInv, [Next]_vars PROVE IInv'
    OBVIOUS
  <1>1. CASE UNCHANGED vars
    BY <1>1 DEF vars, IInv, Laid
  <1>2. CASE Refuses
    <2>1. ret' \in Nat
      BY <1>2 DEF Refuses, NULL
    <2> QED BY <1>2, <2>1 DEF Refuses, IInv, Laid
  <1>3. CASE \E p, r : Adds(p, r)
    BY <1>3, AddsLaid
  <1>4. CASE \E id \in Processes, n \in Grants : brk_call(id, n)
    BY <1>4, BrkLaid
  <1> QED BY <1>1, <1>2, <1>3, <1>4, StepCases

(* The layout is an invariant.                                             *)
LEMMA Invariance == Spec => []IInv
  BY InitLaid, NextLaid, PTL DEF Spec

(* What the layout says of the processes there are.                        *)
LEMMA ProcessesAre ==
    ASSUME IInv
    PROVE  Processes = 1 .. pages /\ pages \in Nat /\ pages < MaxPcb /\ MaxPcb \in Nat
           /\ pcb \in [1 .. MaxPcb - 1 -> Pcb] /\ is_alloc = 0 .. pages - 1
           /\ \A id \in 1 .. pages : InPlace(id, pcb[id]) /\ pcb[id] \in Pcb
  <1>1. /\ pages \in Nat /\ pages < MaxPcb /\ MaxPcb \in Nat /\ pcb \in [1 .. MaxPcb - 1 -> Pcb]
        /\ is_alloc = 0 .. pages - 1
    BY ProcessesAssumption DEF IInv, Laid
  <1>2. \A id \in 1 .. pages : InPlace(id, pcb[id]) /\ pcb[id] \in Pcb
    BY <1>1 DEF IInv, Laid
  <1>3. \A id \in 1 .. MaxPcb - 1 : id > pages => pcb[id].sp = 0
    BY <1>1 DEF IInv, Laid, EmptyPcb
  <1>4. \A id \in 1 .. pages : pcb[id].sp # 0
    <2> SUFFICES ASSUME NEW id \in 1 .. pages PROVE pcb[id].sp # 0
      OBVIOUS
    <2>1. Start(id + 1) \in Nat \ {0}
      BY StartOf
    <2> QED BY <1>2, <2>1 DEF InPlace
  <1>5. Processes = 1 .. pages
    BY <1>1, <1>3, <1>4 DEF Processes
  <1> QED BY <1>1, <1>2, <1>5
-----------------------------------------------------------------------------
(* The region of a process, and what a slot and its entries come to.       *)
LEMMA RegionIs ==
    ASSUME IInv, NEW id \in 1 .. pages
    PROVE  /\ Region(id) = Start(id) .. Start(id + 1) - 1
           /\ Start(id) \in Nat /\ Start(id + 1) = Start(id) + Size
           /\ \A j \in Nat : id < j => Start(id + 1) <= Start(j)
  <1>1. id \in Nat \ {0} /\ id \in 1 .. pages + 1 /\ InPlace(id, pcb[id])
    BY ProcessesAre
  <1>2. Laid(is_alloc, pages, mem, pcb)
    BY DEF IInv
  <1>3. mm_find(mem, Entries * (id - 1)) = Start(id)
    BY <1>1, <1>2, FindsStart
  <1>4. pcb[id].mm_addr = Entries * (id - 1) /\ pcb[id].sp = Start(id + 1)
    BY <1>1 DEF InPlace
  <1>5. Region(id) = Start(id) .. Start(id + 1) - 1
    BY <1>3, <1>4 DEF Region
  <1> QED BY <1>1, <1>5, StartOf

(* The entries before a process's own are within the map.                  *)
LEMMA EntryBelow ==
    ASSUME IInv, NEW id \in 1 .. pages
    PROVE  Entries * (id - 1) \in 0 .. Bottom
  <1>1. /\ pages \in Nat /\ Entries \in Nat /\ id - 1 \in Nat /\ id - 1 <= pages
        /\ Len(mem) = Entries * pages /\ Len(mem) <= Bottom /\ Bottom \in Nat
    BY Sizes, ProcessesAssumption DEF IInv, Laid
  <1>2. (id - 1) * Entries \in Nat /\ (id - 1) * Entries <= pages * Entries
    BY <1>1, TimesUp
  <1>3. (id - 1) * Entries = Entries * (id - 1) /\ pages * Entries = Entries * pages
    BY <1>1
  <1>4. Len(mem) \in Nat
    BY <1>1
  <1> QED BY <1>1, <1>2, <1>3, <1>4

(* Ids fit the process table, and the map its memory, in every reachable   *)
(* state: pm_create, elf_load_image and brk_call keep the types.           *)
THEOREM TypeCorrect == Spec => []TypeOK
  <1>1. ASSUME IInv PROVE TypeOK
    <2>1. is_alloc \subseteq Slots
      BY <1>1, ProcessesAre DEF Slots
    <2>2. pages \in 0 .. PageTables /\ mem \in Seq(1 .. 3) /\ ret \in Nat \cup {Minus1}
      BY <1>1 DEF IInv, Laid
    <2>3. ASSUME NEW id \in DOMAIN pcb
          PROVE  /\ pcb[id].mm_addr \in 0 .. Bottom
                 /\ {pcb[id].sp, pcb[id].elr, pcb[id].heap_start, pcb[id].heap_break,
                     pcb[id].heap_limit} \subseteq Nat
      <3>1. pcb[id] \in Pcb /\ id \in 1 .. MaxPcb - 1 /\ pages \in Nat /\ MaxPcb \in Nat
        BY <1>1, <2>3, ProcessesAre
      <3>2. CASE id <= pages
        <4>1. id \in 1 .. pages
          BY <3>1, <3>2
        <4>2. pcb[id].mm_addr = Entries * (id - 1)
          BY <1>1, <4>1, ProcessesAre DEF InPlace
        <4>3. pcb[id].mm_addr \in 0 .. Bottom
          BY <1>1, <4>1, <4>2, EntryBelow
        <4> QED BY <3>1, <4>3 DEF Pcb
      <3>3. CASE ~(id <= pages)
        <4>1. pcb[id] = EmptyPcb
          BY <1>1, <3>1, <3>3 DEF IInv, Laid
        <4>2. pcb[id].mm_addr = 0
          BY <4>1 DEF EmptyPcb
        <4> QED BY <3>1, <4>2, ProcessesAssumption DEF Pcb
      <3> QED BY <3>2, <3>3
    <2> QED BY <2>1, <2>2, <2>3 DEF TypeOK
  <1> QED BY <1>1, Invariance, PTL

(* The memory mm_find and the stack pointer give each process has the size *)
(* of a process, and no two processes' memories meet.                      *)
THEOREM Disjoint == Spec => []RegionsDisjoint
  <1>1. ASSUME IInv PROVE RegionsDisjoint
    <2>1. Size \in Nat \ {0} /\ Processes = 1 .. pages /\ pages \in Nat
      BY <1>1, Sizes, ProcessesAre
    <2> HIDE DEF Size
    <2>2. ASSUME NEW id \in 1 .. pages PROVE Cardinality(Region(id)) = Size
      <3>1. PICK a \in Nat : Region(id) = a .. (a + Size) - 1
        BY <1>1, RegionIs
      <3>2. a \in Int /\ (a + Size) - 1 \in Int
        BY <2>1
      <3>3. Cardinality(a .. (a + Size) - 1)
              = IF a > (a + Size) - 1 THEN 0 ELSE ((a + Size) - 1) - a + 1
        BY <3>2, FS_Interval
      <3> QED BY <2>1, <3>1, <3>3
    <2>3. ASSUME NEW p \in 1 .. pages, NEW q \in 1 .. pages, p < q
          PROVE  Region(p) \cap Region(q) = {}
      <3>1. Region(p) = Start(p) .. Start(p + 1) - 1 /\ Start(p) \in Nat /\ Start(p + 1) \in Nat
        BY <1>1, <2>1, RegionIs
      <3>2. Region(q) = Start(q) .. Start(q + 1) - 1 /\ Start(q) \in Nat /\ Start(q + 1) \in Nat
        BY <1>1, <2>1, RegionIs
      <3>3. Start(p + 1) <= Start(q)
        BY <1>1, <2>3, RegionIs
      <3> QED BY <3>1, <3>2, <3>3
    <2>4. ASSUME NEW p \in 1 .. pages, NEW q \in 1 .. pages, p # q
          PROVE  Region(p) \cap Region(q) = {}
      <3>1. p < q \/ q < p
        BY <2>1, <2>4
      <3> QED BY <2>3, <3>1
    <2> QED BY <2>1, <2>2, <2>4 DEF RegionsDisjoint
  <1> QED BY <1>1, Invariance, PTL

(* However pm_create fails, the slots, the page tables and the entries of  *)
(* the map go on agreeing with the processes there are.                    *)
THEOREM AllOrNothing == Spec => []NothingHalfMade
  <1>1. ASSUME IInv PROVE NothingHalfMade
    <2>1. pages \in Nat /\ is_alloc = 0 .. pages - 1 /\ Processes = 1 .. pages
      BY <1>1, ProcessesAre
    <2>2. Cardinality(is_alloc) = pages
      <3>1. Cardinality(0 .. pages - 1) = IF 0 > pages - 1 THEN 0 ELSE (pages - 1) - 0 + 1
        BY <2>1, FS_Interval
      <3> QED BY <2>1, <3>1
    <2>3. {id - 1 : id \in 1 .. pages} = 0 .. pages - 1
      <3>1. \A x \in 0 .. pages - 1 : x + 1 \in 1 .. pages /\ x = (x + 1) - 1
        BY <2>1
      <3>2. \A id \in 1 .. pages : id - 1 \in 0 .. pages - 1
        BY <2>1
      <3> QED BY <3>1, <3>2
    <2>4. Len(mem) = Len(Shares) * pages
      BY <1>1 DEF IInv, Laid, Entries
    <2> QED BY <2>1, <2>2, <2>3, <2>4 DEF NothingHalfMade
  <1> QED BY <1>1, Invariance, PTL

(* What elf_load_image copied, the heap brk_call extends and the reserve   *)
(* of the stack lie one after the other in the memory of the process.      *)
THEOREM HeapsApart == Spec => []HeapInRegion
  <1>1. ASSUME IInv PROVE HeapInRegion
    <2> SUFFICES ASSUME NEW id \in Processes
                 PROVE  LET p == pcb[id]
                            ends == {d \in p.loaded : Unwrapped(d.segment)}
                        IN  /\ \A d \in ends : d.from .. d.to - 1 \subseteq Region(id)
                            /\ p.heap_start # 0 =>
                                  /\ \A d \in ends : d.to <= p.heap_start
                                  /\ p.heap_start <= p.heap_break /\ p.heap_break <= p.heap_limit
                                  /\ p.heap_limit + Reserve = p.sp
      BY DEF HeapInRegion
    <2>1. id \in 1 .. pages
      BY <1>1, ProcessesAre
    <2>2. InPlace(id, pcb[id]) /\ pcb[id] \in Pcb
      BY <1>1, <2>1, ProcessesAre
    <2>3. /\ Region(id) = Start(id) .. Start(id + 1) - 1
          /\ Start(id) \in Nat /\ Start(id + 1) = Start(id) + Size
      BY <1>1, <2>1, RegionIs
    <2>4. Size \in Nat
      BY Sizes
    <2> HIDE DEF Size
    <2>5. ASSUME NEW d \in pcb[id].loaded, Unwrapped(d.segment)
          PROVE  d.from .. d.to - 1 \subseteq Region(id)
      <3>1. d.from \in Int /\ d.to \in Int
        BY <2>2 DEF Pcb, Copies
      <3>2. Start(id) <= d.from /\ d.to <= Start(id + 1)
        BY <2>2, <2>5 DEF InPlace
      <3> QED BY <2>3, <2>4, <3>1, <3>2
    <2> QED BY <2>2, <2>5 DEF InPlace
  <1> QED BY <1>1, Invariance, PTL

(* A creation writes one control block, of a process there was not; brk    *)
(* only moves its caller's break, and only up.                             *)
THEOREM Kept == Spec => EarlierKept
  <1> DEFINE Keeps == \A id \in Processes :
                         /\ pcb'[id].heap_break >= pcb[id].heap_break
                         /\ [pcb'[id] EXCEPT !.heap_break = 0] = [pcb[id] EXCEPT !.heap_break = 0]
  <1>1. ASSUME IInv, Next PROVE Keeps
    <2>1. /\ Processes = 1 .. pages /\ pages \in Nat /\ pcb \in [1 .. MaxPcb - 1 -> Pcb]
          /\ \A id \in 1 .. pages : id \in DOMAIN pcb /\ pcb[id].heap_break \in Nat
      <3>1. \A id \in 1 .. pages : pcb[id] \in Pcb
        BY <1>1, ProcessesAre
      <3> QED BY <1>1, <3>1, ProcessesAre DEF Pcb
    <2>2. ASSUME NEW id \in Processes, pcb'[id] = pcb[id]
          PROVE  /\ pcb'[id].heap_break >= pcb[id].heap_break
                 /\ [pcb'[id] EXCEPT !.heap_break = 0] = [pcb[id] EXCEPT !.heap_break = 0]
      BY <2>1, <2>2
    <2>3. CASE Refuses
      BY <2>2, <2>3 DEF Refuses
    <2>4. CASE \E p, r : Adds(p, r)
      <3>1. PICK p, r : Adds(p, r)
        BY <2>4
      <3>2. \A id \in Processes : pcb'[id] = pcb[id]
        BY <2>1, <3>1 DEF Adds
      <3> QED BY <2>2, <3>2
    <2>5. CASE \E id \in Processes, n \in Grants : brk_call(id, n)
      <3>1. PICK i \in Processes, n \in Grants : brk_call(i, n)
        BY <2>5
      <3>2. PICK p \in Pcb : /\ pcb' = [pcb EXCEPT ![i] = p]
                             /\ p.heap_break >= pcb[i].heap_break
                             /\ [p EXCEPT !.heap_break = 0] = [pcb[i] EXCEPT !.heap_break = 0]
        BY <1>1, <3>1, BrkStep
      <3>3. \A id \in Processes : id # i => pcb'[id] = pcb[id]
        BY <2>1, <3>2
      <3>4. pcb'[i] = p
        BY <2>1, <3>2
      <3> QED BY <2>2, <3>2, <3>3, <3>4
    <2> QED BY <1>1, <2>3, <2>4, <2>5, StepCases
  <1>2. IInv /\ [Next]_vars => [Keeps]_vars
    BY <1>1
  <1>3. Spec => [][Keeps]_vars
    BY <1>2, Invariance, PTL DEF Spec
  <1> QED BY <1>3 DEF EarlierKept
=============================================================================
