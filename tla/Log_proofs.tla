----------------------------- MODULE Log_proofs -----------------------------
(***************************************************************************)
(* tfm_log_printf prints every 32-bit number exactly and loses nothing of  *)
(* a message, for any number of threads, any messages and any size of the  *)
(* buffer.                                                                 *)
(***************************************************************************)
EXTENDS Log, WellFoundedInduction, TLAPS

-----------------------------------------------------------------------------
(* Induction up to a bound, and functions defined by recursion. *)

(***************************************************************************)
(* A set of numbers up to N that holds 0 and, with every number, the next  *)
(* one, holds them all.                                                    *)
(***************************************************************************)
LEMMA UpTo ==
    ASSUME NEW N \in Nat, NEW P, 0 \in P, \A k \in 1 .. N : k - 1 \in P => k \in P
    PROVE  \A k \in 0 .. N : k \in P
<1>. DEFINE Bad == {k \in 0 .. N : k \notin P}
            Less == {ss \in Nat \X Nat : ss[1] < ss[2]}
<1>. SUFFICES ASSUME Bad # {} PROVE FALSE
  OBVIOUS
<1>1. IsWellFoundedOn(Less, Nat)
  BY NatLessThanWellFounded DEF OpToRel
<1>2. PICK i \in Bad : \A j \in Bad : <<j, i>> \notin Less
  <2>1. Bad \subseteq Nat
    OBVIOUS
  <2>. HIDE DEF Bad, Less
  <2>. QED BY <1>1, <2>1, WFMin
<1>3. i \in 1 .. N
  OBVIOUS
<1>4. i - 1 \notin Bad
  <2>1. i - 1 \in Nat /\ i \in Nat /\ i - 1 < i
    BY <1>3
  <2>2. <<i - 1, i>> \in Less
    BY <2>1
  <2>. HIDE DEF Bad, Less
  <2>. QED BY <1>2, <2>2
<1>5. i - 1 \in P
  BY <1>3, <1>4
<1>. QED
  BY <1>3, <1>5

\* f is defined from init by the steps over 0 .. N.
IsRecursion(f, N, S, init, step) ==
    /\ f \in [0 .. N -> S] /\ f[0] = init
    /\ \A k \in 1 .. N : f[k] = step[k][f[k - 1]]

(***************************************************************************)
(* A recursion over 0 .. N whose steps stay in S defines a function.       *)
(***************************************************************************)
LEMMA RecursionExists ==
    ASSUME NEW N \in Nat, NEW S, NEW init \in S, NEW step \in [1 .. N -> [S -> S]]
    PROVE  \E f : IsRecursion(f, N, S, init, step)
<1>. DEFINE Good(m) == \E f \in [0 .. N -> S] :
                          f[0] = init /\ \A k \in 1 .. m : f[k] = step[k][f[k - 1]]
            P == {m \in 0 .. N : Good(m)}
<1>1. 0 \in P
  <2>. DEFINE f == [k \in 0 .. N |-> init]
  <2>1. f \in [0 .. N -> S] /\ f[0] = init
    OBVIOUS
  <2>2. \A k \in 1 .. 0 : FALSE
    OBVIOUS
  <2>. HIDE DEF f
  <2>3. Good(0)
    BY <2>1, <2>2
  <2>. QED BY <2>3
<1>2. ASSUME NEW m \in 1 .. N, m - 1 \in P PROVE m \in P
  <2>1. PICK f \in [0 .. N -> S] :
          f[0] = init /\ \A k \in 1 .. m - 1 : f[k] = step[k][f[k - 1]]
    BY <1>2
  <2>. DEFINE g == [f EXCEPT ![m] = step[m][f[m - 1]]]
  <2>2. m - 1 \in 0 .. N /\ m \in 0 .. N
    OBVIOUS
  <2>3. step[m][f[m - 1]] \in S
    <3>1. f[m - 1] \in S /\ step[m] \in [S -> S]
      BY <2>2
    <3>. QED BY <3>1
  <2>4. g \in [0 .. N -> S] /\ g[m] = step[m][f[m - 1]]
    BY <2>2, <2>3
  <2>5. \A k \in 0 .. N : k # m => g[k] = f[k]
    OBVIOUS
  <2>. HIDE DEF g
  <2>6. g[0] = init
    BY <2>1, <2>5
  <2>7. ASSUME NEW k \in 1 .. m PROVE g[k] = step[k][g[k - 1]]
    <3>1. g[k - 1] = f[k - 1]
      BY <2>5
    <3>2. CASE k = m
      BY <2>4, <3>1, <3>2
    <3>3. CASE k # m
      <4>1. k \in 1 .. m - 1 /\ k \in 0 .. N
        BY <3>3
      <4>. QED BY <2>1, <2>5, <3>1, <3>3, <4>1
    <3>. QED BY <3>2, <3>3
  <2>8. Good(m)
    BY <2>4, <2>6, <2>7
  <2>. HIDE DEF Good
  <2>. QED BY <2>2, <2>8
<1>3. N \in P
  <2>1. N \in 0 .. N
    OBVIOUS
  <2>. HIDE DEF P
  <2>. QED BY <1>1, <1>2, <2>1, UpTo
<1>. QED
  BY <1>3 DEF IsRecursion

(***************************************************************************)
(* Two functions that start alike and go on alike are the same.            *)
(***************************************************************************)
LEMMA Agreement ==
    ASSUME NEW N \in Nat, NEW f, NEW g, f[0] = g[0],
           \A k \in 1 .. N : f[k - 1] = g[k - 1] => f[k] = g[k]
    PROVE  \A k \in 0 .. N : f[k] = g[k]
<1>. DEFINE P == {k \in 0 .. N : f[k] = g[k]}
<1>1. 0 \in P
  OBVIOUS
<1>2. ASSUME NEW k \in 1 .. N, k - 1 \in P PROVE k \in P
  BY <1>2
<1>3. \A k \in 0 .. N : k \in P
  <2>. HIDE DEF P
  <2>. QED BY <1>1, <1>2, UpTo
<1>. QED
  BY <1>3

-----------------------------------------------------------------------------
(* Numbers of 32 bits. *)

Bases == {10, 16}

(***************************************************************************)
(* The halves of a 32-bit number are less than 2^16.                       *)
(***************************************************************************)
LEMMA HalfIs == HALF \in Nat /\ HALF = 65536
  BY SMT DEF HALF

(***************************************************************************)
(* A 32-bit number is its halves.                                          *)
(***************************************************************************)
LEMMA WordHalves ==
    /\ HALF \in Nat
    /\ \A n \in Words : /\ n.hi \in Nat /\ n.hi < HALF /\ n.lo \in Nat /\ n.lo < HALF
                        /\ n = Word(n.hi, n.lo)
    /\ \A h, l \in Nat : h < HALF /\ l < HALF => Word(h, l) \in Words
<1>1. HALF \in Nat
  BY HalfIs, SMT
<1>2. ASSUME NEW n \in Words
      PROVE  /\ n.hi \in Nat /\ n.hi < HALF /\ n.lo \in Nat /\ n.lo < HALF
             /\ n = Word(n.hi, n.lo)
  BY <1>1, SMT DEF Words, Word
<1>3. ASSUME NEW h \in Nat, NEW l \in Nat, h < HALF, l < HALF PROVE Word(h, l) \in Words
  BY <1>1, <1>3, SMT DEF Words, Word
<1>. QED
  BY <1>1, <1>2, <1>3

(***************************************************************************)
(* Division of natural numbers by the two bases.                           *)
(***************************************************************************)
LEMMA Divide ==
    ASSUME NEW x \in Nat, NEW base \in Bases
    PROVE  /\ x \div base \in Nat /\ x % base \in Nat /\ x % base < base
           /\ (x \div base) * base + (x % base) = x
<1>. DEFINE q == x \div base
            r == x % base
<1>1. q \in Nat /\ r \in Nat
  BY SMT DEF Bases
<1>. HIDE DEF q, r
<1>2. ASSUME base = 10 PROVE q * base + r = x /\ r < base
  <2>1. q = x \div 10 /\ r = x % 10
    BY <1>2 DEF q, r
  <2>2. q * 10 + r = x /\ r < 10
    BY <1>1, <2>1, SMT
  <2>. QED
    BY <1>2, <2>2
<1>3. ASSUME base = 16 PROVE q * base + r = x /\ r < base
  <2>1. q = x \div 16 /\ r = x % 16
    BY <1>3 DEF q, r
  <2>2. q * 16 + r = x /\ r < 16
    BY <1>1, <2>1, SMT
  <2>. QED
    BY <1>3, <2>2
<1>4. q * base + r = x /\ r < base
  BY <1>2, <1>3 DEF Bases
<1>. QED
  BY <1>1, <1>4 DEF q, r

(***************************************************************************)
(* Division of natural numbers by 2^16.                                    *)
(***************************************************************************)
LEMMA Split ==
    ASSUME NEW h \in Nat, NEW l \in Nat, l < HALF
    PROVE  (h * HALF + l) \div HALF = h /\ (h * HALF + l) % HALF = l
<1>1. PICK x \in Nat : x = h * 65536 + l
  BY SMT
<1>2. PICK q \in Nat, r \in Nat : q = x \div 65536 /\ r = x % 65536
  BY SMT
<1>3. q * 65536 + r = x /\ r < 65536
  BY <1>2, SMT
<1>4. q = h /\ r = l
  BY <1>1, <1>3, HalfIs, SMT
<1>. QED
  BY <1>1, <1>2, <1>4, HalfIs, SMT

(***************************************************************************)
(* A quotient is a 32-bit number again and a remainder a digit; nothing is *)
(* lost: the high half and what is carried into the low one recombine.     *)
(***************************************************************************)
LEMMA Division ==
    ASSUME NEW n \in Words, NEW base \in Bases
    PROVE  /\ Quot(n, base) \in Words
           /\ Rem(n, base) \in Nat /\ Rem(n, base) < base
           /\ \E m \in Nat : /\ m < base
                             /\ Quot(n, base).hi * base + m = n.hi
                             /\ Quot(n, base).lo * base + Rem(n, base) = m * HALF + n.lo
<1>. DEFINE q == Quot(n, base)
            r == Rem(n, base)
<1>1. n.hi \in Nat /\ n.hi < HALF /\ n.lo \in Nat /\ n.lo < HALF /\ HALF \in Nat
  BY WordHalves
<1>2. PICK m \in Nat : m = n.hi % base /\ m < base /\ (n.hi \div base) * base + m = n.hi
  BY <1>1, Divide
<1>3. PICK x \in Nat : x = m * HALF + n.lo
  BY <1>1
<1>4. PICK h \in Nat : h = n.hi \div base /\ h * base + m = n.hi
  BY <1>1, <1>2, Divide
<1>5. PICK l \in Nat, d \in Nat : l = x \div base /\ d = x % base /\ d < base /\ l * base + d = x
  BY Divide
<1>6. q = Word(h, l) /\ r = d
  BY <1>2, <1>3, <1>4, <1>5 DEF Quot, Rem
<1>7. h < HALF
  BY <1>1, <1>4 DEF Bases
<1>8. l < HALF
  <2>1. x < base * HALF
    BY <1>1, <1>2, <1>3 DEF Bases
  <2>2. CASE base = 10
    BY <1>1, <1>5, <2>1, <2>2
  <2>3. CASE base = 16
    BY <1>1, <1>5, <2>1, <2>3
  <2>. QED
    BY <2>2, <2>3 DEF Bases
<1>9. q \in Words
  BY <1>6, <1>7, <1>8, WordHalves
<1>10. q.hi = h /\ q.lo = l
  BY <1>6 DEF Word
<1>. HIDE DEF q, r
<1>11. \E k \in Nat : k < base /\ q.hi * base + k = n.hi /\ q.lo * base + r = k * HALF + n.lo
  BY <1>2, <1>3, <1>4, <1>5, <1>6, <1>10
<1>. QED
  BY <1>5, <1>6, <1>9, <1>11 DEF q, r

(***************************************************************************)
(* A number is its quotient times the base, plus its remainder.            *)
(***************************************************************************)
LEMMA DivisionExact ==
    ASSUME NEW n \in Words, NEW base \in Bases
    PROVE  Times(Quot(n, base), base, Rem(n, base)) = n
<1>. DEFINE q == Quot(n, base)
            r == Rem(n, base)
<1>1. PICK m \in Nat : /\ m < base
                       /\ q.hi * base + m = n.hi
                       /\ q.lo * base + r = m * HALF + n.lo
  BY Division
<1>2. n.lo \in Nat /\ n.lo < HALF /\ n = Word(n.hi, n.lo)
  BY WordHalves
<1>. HIDE DEF q, r
<1>3. (q.lo * base + r) \div HALF = m /\ (q.lo * base + r) % HALF = n.lo
  BY <1>1, <1>2, Split
<1>4. Times(q, base, r) = Word(n.hi, n.lo)
  BY <1>1, <1>3 DEF Times
<1>. QED
  BY <1>2, <1>4 DEF q, r

-----------------------------------------------------------------------------
(* The digits of a number. *)

\* What is left of n after each of the divisions of the do-while.
IsLeft(left, n, base) ==
    /\ left \in [0 .. MaxDivisions -> Words]
    /\ left[0] = n
    /\ \A k \in 1 .. MaxDivisions : left[k] = Quot(left[k - 1], base)

(***************************************************************************)
(* The recursion of num_buff has what it defines: 32-bit numbers, each the *)
(* quotient of the one before.                                             *)
(***************************************************************************)
LEMMA LeftDefined ==
    ASSUME NEW n \in Words, NEW base \in Bases, NEW digits
    PROVE  \E left : /\ IsLeft(left, n, base)
                     /\ num_buff(n, base, digits)
                          = [i \in 1 .. Last(left) + 1 |->
                               digits[Rem(left[Last(left) + 1 - i], base) + 1]]
<1>. DEFINE u == CHOOSE t : t = [k \in 0 .. MaxDivisions |->
                                   IF k = 0 THEN n ELSE Quot(t[k - 1], base)]
            step == [k \in 1 .. MaxDivisions |-> [v \in Words |-> Quot(v, base)]]
<1>0. MaxDivisions \in Nat
  BY DEF MaxDivisions
<1>1. PICK f : IsRecursion(f, MaxDivisions, Words, n, step)
  <2>1. step \in [1 .. MaxDivisions -> [Words -> Words]]
    BY Division
  <2>. HIDE DEF step
  <2>. QED BY <1>0, <2>1, RecursionExists, Zenon
<1>2. ASSUME NEW k \in 1 .. MaxDivisions PROVE f[k] = Quot(f[k - 1], base)
  <2>1. f[k - 1] \in Words
    BY <1>0, <1>1 DEF IsRecursion
  <2>2. step[k] = [v \in Words |-> Quot(v, base)]
    OBVIOUS
  <2>. HIDE DEF step
  <2>. QED BY <1>1, <2>1, <2>2 DEF IsRecursion
<1>3. f = [k \in 0 .. MaxDivisions |-> IF k = 0 THEN n ELSE Quot(f[k - 1], base)]
  BY <1>1, <1>2 DEF IsRecursion
<1>4. u = [k \in 0 .. MaxDivisions |-> IF k = 0 THEN n ELSE Quot(u[k - 1], base)]
  <2>1. \E t : t = [k \in 0 .. MaxDivisions |-> IF k = 0 THEN n ELSE Quot(t[k - 1], base)]
    BY <1>3
  <2>. QED BY <2>1
<1>5. num_buff(n, base, digits)
        = [i \in 1 .. Last(u) + 1 |-> digits[Rem(u[Last(u) + 1 - i], base) + 1]]
  BY Zenon DEF num_buff
<1>. HIDE DEF u
<1>6. u[0] = n /\ \A k \in 1 .. MaxDivisions : u[k] = Quot(u[k - 1], base)
  BY <1>0, <1>4
<1>7. \A k \in 0 .. MaxDivisions : u[k] = f[k]
  <2>1. \A k \in 1 .. MaxDivisions : u[k - 1] = f[k - 1] => u[k] = f[k]
    BY <1>2, <1>6
  <2>2. u[0] = f[0]
    BY <1>1, <1>6 DEF IsRecursion
  <2>. QED BY <1>0, <2>1, <2>2, Agreement, SMT
<1>8. u \in [0 .. MaxDivisions -> Words]
  BY <1>1, <1>4, <1>7 DEF IsRecursion
<1>9. IsLeft(u, n, base)
  BY <1>6, <1>8 DEF IsLeft
<1>. QED
  BY <1>5, <1>9

(***************************************************************************)
(* A division takes at least a digit off the high half and, once that is   *)
(* used up, off the low half.                                              *)
(***************************************************************************)
LEMMA DivisionShrinks ==
    ASSUME NEW n \in Words, NEW base \in Bases
    PROVE  /\ Quot(n, base).hi * 10 <= n.hi
           /\ n.hi = 0 => Quot(n, base).hi = 0 /\ Quot(n, base).lo * 10 <= n.lo
<1>. DEFINE q == Quot(n, base)
            r == Rem(n, base)
<1>1. /\ n.hi \in Nat /\ n.lo \in Nat /\ q.hi \in Nat /\ q.lo \in Nat /\ r \in Nat
      /\ HALF \in Nat
  BY Division, WordHalves
<1>2. PICK m \in Nat : q.hi * base + m = n.hi /\ q.lo * base + r = m * HALF + n.lo
  BY Division
<1>. HIDE DEF q, r
<1>3. q.hi * 10 <= n.hi
  BY <1>1, <1>2 DEF Bases
<1>4. ASSUME n.hi = 0 PROVE q.hi = 0 /\ q.lo * 10 <= n.lo
  <2>1. m = 0 /\ q.hi = 0
    <3>1. q.hi * base + m = 0
      BY <1>2, <1>4
    <3>. QED
      BY <1>1, <3>1 DEF Bases
  <2>2. q.lo * base + r = n.lo
    BY <1>1, <1>2, <2>1
  <2>3. q.lo * 10 <= n.lo
    BY <1>1, <2>2 DEF Bases
  <2>. QED
    BY <2>1, <2>3
<1>. QED
  BY <1>3, <1>4 DEF q

(***************************************************************************)
(* After ten divisions nothing is left of a 32-bit number.                 *)
(***************************************************************************)
LEMMA TenDivisions ==
    ASSUME NEW n \in Words, NEW base \in Bases, NEW left, IsLeft(left, n, base)
    PROVE  left[10] = Zero
<1>1. MaxDivisions \in Nat /\ 10 < MaxDivisions
  BY DEF MaxDivisions
<1>2. ASSUME NEW k \in 1 .. 10
      PROVE  /\ left[k - 1] \in Words /\ left[k] = Quot(left[k - 1], base)
  <2>1. k \in 1 .. MaxDivisions /\ k - 1 \in 0 .. MaxDivisions
    BY <1>1
  <2>. QED
    BY <2>1 DEF IsLeft
<1>3. ASSUME NEW k \in 1 .. 10
      PROVE  /\ left[k - 1].hi \in Nat /\ left[k].hi \in Nat
             /\ left[k - 1].lo \in Nat /\ left[k].lo \in Nat
             /\ left[k].hi * 10 <= left[k - 1].hi
             /\ left[k - 1].hi = 0 => left[k].hi = 0 /\ left[k].lo * 10 <= left[k - 1].lo
  <2>1. left[k] \in Words
    BY <1>2, Division
  <2>2. /\ left[k - 1].hi \in Nat /\ left[k].hi \in Nat
        /\ left[k - 1].lo \in Nat /\ left[k].lo \in Nat
    BY <1>2, <2>1, WordHalves
  <2>3. /\ left[k].hi * 10 <= left[k - 1].hi
        /\ left[k - 1].hi = 0 => left[k].hi = 0 /\ left[k].lo * 10 <= left[k - 1].lo
    BY <1>2, DivisionShrinks
  <2>. QED
    BY <2>2, <2>3
<1>4. left[0].hi < 65536
  <2>1. left[0] \in Words
    BY <1>2
  <2>2. left[0].hi < HALF
    BY <2>1, WordHalves
  <2>. QED
    BY <2>2, HalfIs, SMT
<1>5. left[5].hi = 0
  <2>1. left[1].hi * 10 <= left[0].hi /\ left[0].hi \in Nat /\ left[1].hi \in Nat
    BY <1>3
  <2>2. left[2].hi * 10 <= left[1].hi /\ left[2].hi \in Nat
    BY <1>3
  <2>3. left[3].hi * 10 <= left[2].hi /\ left[3].hi \in Nat
    BY <1>3
  <2>4. left[4].hi * 10 <= left[3].hi /\ left[4].hi \in Nat
    BY <1>3
  <2>5. left[5].hi * 10 <= left[4].hi /\ left[5].hi \in Nat
    BY <1>3
  <2>. QED
    BY <1>4, <2>1, <2>2, <2>3, <2>4, <2>5
<1>6. left[5].lo < 65536 /\ left[5].lo \in Nat
  <2>1. left[5] \in Words
    BY <1>1 DEF IsLeft
  <2>2. left[5].lo < HALF /\ left[5].lo \in Nat
    BY <2>1, WordHalves
  <2>. QED
    BY <2>2, HalfIs, SMT
<1>7. left[6].hi = 0 /\ left[6].lo * 10 <= left[5].lo /\ left[6].lo \in Nat
  BY <1>3, <1>5
<1>8. left[7].hi = 0 /\ left[7].lo * 10 <= left[6].lo /\ left[7].lo \in Nat
  BY <1>3, <1>7
<1>9. left[8].hi = 0 /\ left[8].lo * 10 <= left[7].lo /\ left[8].lo \in Nat
  BY <1>3, <1>8
<1>10. left[9].hi = 0 /\ left[9].lo * 10 <= left[8].lo /\ left[9].lo \in Nat
  BY <1>3, <1>9
<1>11. left[10].hi = 0 /\ left[10].lo * 10 <= left[9].lo /\ left[10].lo \in Nat
  BY <1>3, <1>10
<1>12. left[10].lo = 0
  BY <1>6, <1>7, <1>8, <1>9, <1>10, <1>11
<1>13. left[10] \in Words
  BY <1>1 DEF IsLeft
<1>. QED
  BY <1>11, <1>12, <1>13, WordHalves DEF Zero

(***************************************************************************)
(* The loop ends: it is left at the first quotient that is zero, with at   *)
(* most ten digits.                                                        *)
(***************************************************************************)
LEMMA LastFound ==
    ASSUME NEW n \in Words, NEW base \in Bases, NEW left, IsLeft(left, n, base)
    PROVE  /\ Last(left) \in 0 .. 9
           /\ left[Last(left) + 1] = Zero
           /\ \A j \in 1 .. Last(left) : left[j] # Zero
<1>. DEFINE Ends(k) == left[k + 1] = Zero /\ \A j \in 1 .. k : left[j] # Zero
            P == {k \in 0 .. 10 : \A j \in 1 .. k : left[j] # Zero}
<1>1. MaxDivisions \in Nat /\ 10 < MaxDivisions
  BY DEF MaxDivisions
<1>2. left[10] = Zero
  BY TenDivisions
<1>3. \E k \in 0 .. MaxDivisions - 1 : Ends(k)
  <2>. SUFFICES ASSUME ~(\E k \in 0 .. MaxDivisions - 1 : Ends(k)) PROVE FALSE
    OBVIOUS
  <2>1. 0 \in P
    OBVIOUS
  <2>2. ASSUME NEW k \in 1 .. 10, k - 1 \in P PROVE k \in P
    <3>1. \A j \in 1 .. k - 1 : left[j] # Zero
      BY <2>2
    <3>2. k - 1 \in 0 .. MaxDivisions - 1 /\ (k - 1) + 1 = k
      BY <1>1
    <3>3. left[k] # Zero
      BY <3>1, <3>2
    <3>. QED
      BY <3>1, <3>3
  <2>3. 10 \in P
    <3>1. 10 \in Nat /\ 10 \in 0 .. 10
      OBVIOUS
    <3>. HIDE DEF P
    <3>. QED BY <2>1, <2>2, <3>1, UpTo
  <2>. QED
    BY <1>2, <2>3
<1>4. Last(left) = CHOOSE k \in 0 .. MaxDivisions - 1 : Ends(k)
  BY DEF Last
<1>5. Last(left) \in 0 .. MaxDivisions - 1 /\ Ends(Last(left))
  <2>. HIDE DEF Ends
  <2>. QED BY <1>3, <1>4
<1>. QED
  BY <1>1, <1>2, <1>5

\* The characters that can be printed: the ones tfm_log_printf has of its own,
\* and those of formats and strings.
Digits == {"0", "1", "2", "3", "4", "5", "6", "7", "8", "9",
           "a", "b", "c", "d", "e", "f", "A", "B", "C", "D", "E", "F"}
Glyph ==
    Digits \cup {"x", "-", "%", "[", "?", "]", ""} \cup Char \cup {item.arg : item \in Item} \cup {item.tag : item \in Item}

\* The two tables of digits.
Tables == {hex_digits_lo, hex_digits_up}

(***************************************************************************)
(* The digits of a table are characters of their own, none a minus sign,   *)
(* and only the first one is "0".                                          *)
(***************************************************************************)
LEMMA TableDistinct ==
    ASSUME NEW digits \in Tables
    PROVE  /\ \A i, j \in 1 .. 16 : digits[i] = digits[j] => i = j
           /\ \A i \in 1 .. 16 : digits[i] \in Digits /\ digits[i] # "-"
           /\ digits[1] = "0"
<1>1. CASE digits = hex_digits_lo
  <2>1. /\ digits[1] = "0" /\ digits[2] = "1" /\ digits[3] = "2" /\ digits[4] = "3"
        /\ digits[5] = "4" /\ digits[6] = "5" /\ digits[7] = "6" /\ digits[8] = "7"
        /\ digits[9] = "8" /\ digits[10] = "9" /\ digits[11] = "a" /\ digits[12] = "b"
        /\ digits[13] = "c" /\ digits[14] = "d" /\ digits[15] = "e" /\ digits[16] = "f"
    BY <1>1 DEF hex_digits_lo
  <2>2. \A i \in 1 .. 16 : i \in {1, 2, 3, 4, 5, 6, 7, 8, 9, 10, 11, 12, 13, 14, 15, 16}
    OBVIOUS
  <2>3. \A i, j \in 1 .. 16 : digits[i] = digits[j] => i = j
    BY <2>1, <2>2, SMTT(60)
  <2>4. \A i \in 1 .. 16 : digits[i] # "-"
    BY <2>1, <2>2, SMTT(60)
  <2>5. \A i \in 1 .. 16 : digits[i] \in Digits
    BY <2>1, <2>2, SMTT(60) DEF Digits
  <2>. QED
    BY <2>1, <2>3, <2>4, <2>5
<1>2. CASE digits = hex_digits_up
  <2>1. /\ digits[1] = "0" /\ digits[2] = "1" /\ digits[3] = "2" /\ digits[4] = "3"
        /\ digits[5] = "4" /\ digits[6] = "5" /\ digits[7] = "6" /\ digits[8] = "7"
        /\ digits[9] = "8" /\ digits[10] = "9" /\ digits[11] = "A" /\ digits[12] = "B"
        /\ digits[13] = "C" /\ digits[14] = "D" /\ digits[15] = "E" /\ digits[16] = "F"
    BY <1>2 DEF hex_digits_up
  <2>2. \A i \in 1 .. 16 : i \in {1, 2, 3, 4, 5, 6, 7, 8, 9, 10, 11, 12, 13, 14, 15, 16}
    OBVIOUS
  <2>3. \A i, j \in 1 .. 16 : digits[i] = digits[j] => i = j
    BY <2>1, <2>2, SMTT(60)
  <2>4. \A i \in 1 .. 16 : digits[i] # "-"
    BY <2>1, <2>2, SMTT(60)
  <2>5. \A i \in 1 .. 16 : digits[i] \in Digits
    BY <2>1, <2>2, SMTT(60) DEF Digits
  <2>. QED
    BY <2>1, <2>3, <2>4, <2>5
<1>. QED
  BY <1>1, <1>2 DEF Tables

(***************************************************************************)
(* A digit that was printed for a value is read as that value.             *)
(***************************************************************************)
LEMMA DigitRead ==
    ASSUME NEW digits \in Tables, NEW base \in Bases, NEW d \in Nat, d < base
    PROVE  /\ Digit(digits[d + 1], base, digits) = d
           /\ digits[d + 1] \in Digits /\ digits[d + 1] # "-"
           /\ digits[d + 1] = "0" => d = 0
<1>1. base \in Nat /\ base <= 16
  BY DEF Bases
<1>2. d + 1 \in 1 .. base /\ 1 .. base \subseteq 1 .. 16 /\ d + 1 \in 1 .. 16
  BY <1>1
<1>. DEFINE e == CHOOSE c \in 1 .. base : digits[c] = digits[d + 1]
<1>3. e \in 1 .. base /\ digits[e] = digits[d + 1]
  BY <1>2
<1>. HIDE DEF e
<1>4. e = d + 1
  <2>1. e \in 1 .. 16
    BY <1>2, <1>3
  <2>. QED
    BY <1>2, <1>3, <2>1, TableDistinct
<1>5. Digit(digits[d + 1], base, digits) = d
  <2>1. Digit(digits[d + 1], base, digits) = e - 1
    BY Zenon DEF Digit, e
  <2>. QED
    BY <1>4, <2>1
<1>6. digits[d + 1] \in Digits /\ digits[d + 1] # "-"
  BY <1>2, TableDistinct
<1>7. ASSUME digits[d + 1] = "0" PROVE d = 0
  <2>1. digits[d + 1] = digits[1]
    BY <1>7, TableDistinct
  <2>2. 1 \in 1 .. 16
    OBVIOUS
  <2>3. d + 1 = 1
    BY <1>2, <2>1, <2>2, TableDistinct
  <2>. QED
    BY <2>3
<1>. QED
  BY <1>5, <1>6, <1>7

(***************************************************************************)
(* What is printed for a number: one to ten digits, no leading zero, that  *)
(* denote the number.                                                      *)
(***************************************************************************)
LEMMA NumBuffExact ==
    ASSUME NEW n \in Words, NEW base \in Bases, NEW digits \in Tables
    PROVE  LET chars == num_buff(n, base, digits)
           IN  /\ chars \in Seq(Digits) /\ Len(chars) \in 1 .. 10
               /\ chars[1] # "-"
               /\ chars[1] = "0" => Len(chars) = 1
               /\ Denotes(chars, base, digits) = n
<1>. DEFINE chars == num_buff(n, base, digits)
<1>1. PICK left : /\ IsLeft(left, n, base)
                  /\ chars = [i \in 1 .. Last(left) + 1 |->
                                digits[Rem(left[Last(left) + 1 - i], base) + 1]]
  BY LeftDefined
<1>2. PICK last : last = Last(left)
  OBVIOUS
<1>3. /\ last \in 0 .. 9 /\ left[last + 1] = Zero
      /\ \A j \in 1 .. last : left[j] # Zero
  BY <1>1, <1>2, LastFound
<1>4. MaxDivisions \in Nat /\ 10 < MaxDivisions
  BY DEF MaxDivisions
<1>5. /\ left[0] = n
      /\ \A k \in 0 .. last : /\ left[k] \in Words
                              /\ left[k + 1] = Quot(left[k], base)
  <2>1. \A k \in 0 .. last : k \in 0 .. MaxDivisions /\ k + 1 \in 1 .. MaxDivisions
    BY <1>3, <1>4
  <2>2. \A k \in 0 .. last : (k + 1) - 1 = k
    BY <1>3
  <2>. QED
    BY <1>1, <2>1, <2>2 DEF IsLeft
<1>6. chars = [i \in 1 .. last + 1 |-> digits[Rem(left[last + 1 - i], base) + 1]]
  BY <1>1, <1>2
<1>. HIDE DEF chars
<1>7. ASSUME NEW i \in 1 .. last + 1
      PROVE  /\ chars[i] \in Digits /\ chars[i] # "-"
             /\ Digit(chars[i], base, digits) = Rem(left[last + 1 - i], base)
             /\ chars[i] = "0" => Rem(left[last + 1 - i], base) = 0
  <2>1. last + 1 - i \in 0 .. last
    BY <1>3
  <2>2. PICK d \in Nat : d = Rem(left[last + 1 - i], base) /\ d < base
    BY <1>5, <2>1, Division
  <2>3. chars[i] = digits[d + 1]
    BY <1>6, <2>2
  <2>. QED
    BY <2>2, <2>3, DigitRead
<1>8. chars \in [1 .. last + 1 -> Digits]
  BY <1>6, <1>7
<1>9. last + 1 \in Nat /\ last + 1 \in 1 .. 10
  BY <1>3
<1>10. chars \in Seq(Digits) /\ Len(chars) = last + 1
  BY <1>8, <1>9
<1>11. chars[1] # "-"
  <2>1. 1 \in 1 .. last + 1
    BY <1>9
  <2>. QED
    BY <1>7, <2>1
<1>12. ASSUME chars[1] = "0" PROVE last = 0
  <2>1. 1 \in 1 .. last + 1 /\ last + 1 - 1 = last /\ last \in 0 .. last
    BY <1>3
  <2>2. Rem(left[last], base) = 0
    BY <1>7, <1>12, <2>1
  <2>3. Quot(left[last], base) = Zero /\ left[last] \in Words
    BY <1>3, <1>5, <2>1
  <2>4. left[last] = Times(Zero, base, 0)
    BY <2>2, <2>3, DivisionExact
  <2>5. Times(Zero, base, 0) = Zero
    BY HalfIs, SMT DEF Times, Zero, Word, Bases
  <2>6. last \notin 1 .. last
    BY <1>3, <2>4, <2>5
  <2>. QED
    BY <1>3, <2>6
<1>13. Denotes(chars, base, digits) = n
  <2>. DEFINE u == CHOOSE t : t = [k \in 0 .. Len(chars) |->
                                     IF k = 0 THEN Zero
                                     ELSE Times(t[k - 1], base, Digit(chars[k], base, digits))]
              f == [k \in 0 .. last + 1 |-> left[last + 1 - k]]
  <2>1. f[0] = Zero /\ f[last + 1] = n
    BY <1>3, <1>5
  <2>2. ASSUME NEW k \in 1 .. last + 1
        PROVE  f[k] = Times(f[k - 1], base, Digit(chars[k], base, digits))
    <3>1. /\ last + 1 - k \in 0 .. last /\ (last + 1 - k) + 1 = last + 1 - (k - 1)
          /\ k \in 0 .. last + 1 /\ k - 1 \in 0 .. last + 1
      BY <1>3
    <3>2. PICK w \in Words : w = left[last + 1 - k] /\ Quot(w, base) = left[last + 1 - (k - 1)]
      BY <1>5, <3>1
    <3>3. Times(Quot(w, base), base, Rem(w, base)) = w
      BY DivisionExact
    <3>4. f[k] = w /\ f[k - 1] = Quot(w, base)
      BY <3>1, <3>2
    <3>5. Digit(chars[k], base, digits) = Rem(w, base)
      BY <1>7, <3>2
    <3>. HIDE DEF f
    <3>. QED BY <3>3, <3>4, <3>5
  <2>3. f = [k \in 0 .. Len(chars) |->
               IF k = 0 THEN Zero ELSE Times(f[k - 1], base, Digit(chars[k], base, digits))]
    <3>1. f = [k \in 0 .. last + 1 |-> f[k]]
      OBVIOUS
    <3>2. \A k \in 0 .. last + 1 : k # 0 => k \in 1 .. last + 1
      BY <1>3
    <3>3. \A k \in 0 .. last + 1 :
             f[k] = IF k = 0 THEN Zero
                    ELSE Times(f[k - 1], base, Digit(chars[k], base, digits))
      <4>. HIDE DEF f
      <4>. QED BY <2>1, <2>2, <3>2
    <3>. HIDE DEF f
    <3>. QED BY <1>10, <3>1, <3>3
  <2>. HIDE DEF f
  <2>4. u = [k \in 0 .. Len(chars) |->
               IF k = 0 THEN Zero ELSE Times(u[k - 1], base, Digit(chars[k], base, digits))]
    BY <2>3
  <2>5. Denotes(chars, base, digits) = u[Len(chars)]
    BY Zenon DEF Denotes
  <2>. HIDE DEF u
  <2>6. \A k \in 1 .. last + 1 : u[k - 1] = f[k - 1] => u[k] = f[k]
    BY <1>10, <2>2, <2>4
  <2>7. u[0] = f[0]
    BY <1>9, <1>10, <2>1, <2>4
  <2>8. \A k \in 0 .. last + 1 : u[k] = f[k]
    BY <1>9, <2>6, <2>7, Agreement
  <2>9. u[last + 1] = f[last + 1]
    BY <1>9, <2>8
  <2>. QED
    BY <1>10, <2>1, <2>5, <2>9
<1>. QED
  BY <1>9, <1>10, <1>11, <1>12, <1>13 DEF chars

-----------------------------------------------------------------------------
(* What an item is expanded to. *)

\* The items of formats, and the characters that unsupported tags become.
AnyItem == Item \cup {[tag |-> "", arg |-> g] : g \in Glyph}

(***************************************************************************)
(* -num is a 32-bit number.                                                *)
(***************************************************************************)
LEMMA NegatedType == ASSUME NEW n \in Words PROVE Negated(n) \in Words
<1>1. PICK h \in Nat, l \in Nat : h = n.hi /\ l = n.lo /\ h < HALF /\ l < HALF
  BY WordHalves
<1>2. CASE l = 0
  <2>1. (HALF - h) % HALF \in Nat /\ (HALF - h) % HALF < HALF /\ 0 < HALF
    <3>1. PICK x \in Nat : x = HALF - h
      BY <1>1, WordHalves
    <3>2. PICK r : r = x % 65536
      OBVIOUS
    <3>3. r \in Nat /\ r < 65536
      BY <3>2, SMT
    <3>. QED
      BY <3>1, <3>2, <3>3, HalfIs, SMT
  <2>2. Negated(n) = Word((HALF - h) % HALF, 0)
    BY <1>1, <1>2 DEF Negated
  <2>. QED
    BY <2>1, <2>2, WordHalves
<1>3. CASE l # 0
  <2>1. /\ HALF - 1 - h \in Nat /\ HALF - 1 - h < HALF
        /\ HALF - l \in Nat /\ HALF - l < HALF
    BY <1>1, <1>3, WordHalves
  <2>2. Negated(n) = Word(HALF - 1 - h, HALF - l)
    BY <1>1, <1>3 DEF Negated
  <2>. QED
    BY <2>1, <2>2, WordHalves
<1>. QED
  BY <1>2, <1>3

(***************************************************************************)
(* The switch of _tfm_log_vprintf, case by case.                           *)
(***************************************************************************)
LEMMA ExpandCases ==
    ASSUME NEW item
    PROVE  /\ item.tag = "" => Expand(item) = <<item.arg>>
           /\ item.tag \in {"d", "i"} => Expand(item) = dec_num_output(item.arg, "d")
           /\ item.tag = "u" => Expand(item) = dec_num_output(item.arg, "u")
           /\ item.tag = "x" => Expand(item) = hex_num_output(item.arg, hex_digits_lo)
           /\ item.tag = "X" => Expand(item) = hex_num_output(item.arg, hex_digits_up)
           /\ item.tag = "p" =>
                Expand(item) = <<"0", "x">> \o hex_num_output(item.arg, hex_digits_lo)
           /\ item.tag = "s" => Expand(item) = item.arg
           /\ item.tag = "c" => Expand(item) = <<item.arg>>
           /\ item.tag = "%" => Expand(item) = <<"%">>
           /\ item.tag \notin NumberTag \cup {"", "s", "c", "%"} =>
                Expand(item) = UnsupportedTag
<1>1. item.tag = "" => Expand(item) = <<item.arg>>
  BY DEF Expand
<1>2. item.tag \in {"d", "i"} => Expand(item) = dec_num_output(item.arg, "d")
  BY DEF Expand
<1>3. item.tag = "u" => Expand(item) = dec_num_output(item.arg, "u")
  BY DEF Expand
<1>4. item.tag = "x" => Expand(item) = hex_num_output(item.arg, hex_digits_lo)
  BY DEF Expand
<1>5. item.tag = "X" => Expand(item) = hex_num_output(item.arg, hex_digits_up)
  BY DEF Expand
<1>6. item.tag = "p" =>
        Expand(item) = <<"0", "x">> \o hex_num_output(item.arg, hex_digits_lo)
  BY DEF Expand
<1>7. item.tag = "s" => Expand(item) = item.arg
  BY DEF Expand
<1>8. item.tag = "c" => Expand(item) = <<item.arg>>
  BY DEF Expand
<1>9. item.tag = "%" => Expand(item) = <<"%">>
  BY DEF Expand
<1>10. item.tag \notin NumberTag \cup {"", "s", "c", "%"} => Expand(item) = UnsupportedTag
  BY DEF Expand, NumberTag
<1>. QED
  BY <1>1, <1>2, <1>3, <1>4, <1>5, <1>6, <1>7, <1>8, <1>9, <1>10

(***************************************************************************)
(* The arguments of tags.                                                  *)
(***************************************************************************)
LEMMA Arguments ==
    ASSUME NEW item \in AnyItem
    PROVE  /\ item.tag \in NumberTag => item.arg \in Words
           /\ item.tag = "s" => item.arg \in Seq(Char)
           /\ item.arg \in Glyph /\ item.tag \in Glyph
<1>1. CASE item \in Item
  BY <1>1, MessageAssumption DEF Glyph
<1>2. ASSUME NEW g \in Glyph, item = [tag |-> "", arg |-> g]
      PROVE  item.tag = "" /\ item.arg \in Glyph
  BY <1>2
<1>3. "" \in Glyph /\ "" \notin NumberTag /\ "" # "s"
  BY DEF Glyph, NumberTag
<1>. QED
  BY <1>1, <1>2, <1>3 DEF AnyItem

(***************************************************************************)
(* Decimal numbers: a minus sign for the negative ones of a signed tag,    *)
(* and the digits of the absolute value.                                   *)
(***************************************************************************)
LEMMA DecimalText ==
    ASSUME NEW n \in Words, NEW sign \in {"d", "u"}
    PROVE  \E chars \in Seq(Digits) :
             /\ dec_num_output(n, sign)
                  = IF sign = "d" /\ IsNegative(n) THEN <<"-">> \o chars ELSE chars
             /\ Len(chars) \in 1 .. 10 /\ chars[1] # "-"
             /\ chars[1] = "0" => Len(chars) = 1
             /\ Denotes(chars, 10, hex_digits_lo)
                  = IF sign = "d" /\ IsNegative(n) THEN Negated(n) ELSE n
<1>1. 10 \in Bases /\ hex_digits_lo \in Tables
  BY DEF Bases, Tables
<1>2. CASE sign = "d" /\ IsNegative(n)
  <2>1. Negated(n) \in Words
    BY NegatedType
  <2>. QED
    BY <1>1, <1>2, <2>1, NumBuffExact DEF dec_num_output
<1>3. CASE ~(sign = "d" /\ IsNegative(n))
  BY <1>1, <1>3, NumBuffExact DEF dec_num_output
<1>. QED
  BY <1>2, <1>3

(***************************************************************************)
(* Hexadecimal numbers.                                                    *)
(***************************************************************************)
LEMMA HexText ==
    ASSUME NEW n \in Words, NEW digits \in Tables
    PROVE  \E chars \in Seq(Digits) :
             /\ hex_num_output(n, digits) = chars
             /\ Len(chars) \in 1 .. 10 /\ chars[1] # "-"
             /\ chars[1] = "0" => Len(chars) = 1
             /\ Denotes(chars, 16, digits) = n
<1>1. 16 \in Bases
  BY DEF Bases
<1>. QED
  BY <1>1, NumBuffExact DEF hex_num_output

(***************************************************************************)
(* Every number is printed exactly.                                        *)
(***************************************************************************)
LEMMA ItemExact == ASSUME NEW item \in AnyItem PROVE PrintedExactly(item)
<1>. DEFINE text == Expand(item)
            minus == text # <<>> /\ text[1] = "-"
            digits == IF minus THEN Tail(text)
                      ELSE IF item.tag = "p" THEN Tail(Tail(text)) ELSE text
<1>0. NUM_BUFF_SIZE \in Nat /\ 10 <= NUM_BUFF_SIZE
  BY BufferAssumption
<1>1. ASSUME item.tag \in {"d", "i", "u"}
      PROVE  /\ minus <=> (item.tag # "u" /\ IsNegative(item.arg))
             /\ Denotes(digits, 10, hex_digits_lo)
                  = IF minus THEN Negated(item.arg) ELSE item.arg
             /\ Len(digits) <= NUM_BUFF_SIZE /\ (digits[1] = "0" => Len(digits) = 1)
  <2>1. PICK sign \in {"d", "u"} : /\ text = dec_num_output(item.arg, sign)
                                   /\ sign = "d" <=> item.tag # "u"
    BY <1>1, ExpandCases
  <2>2. item.arg \in Words
    BY <1>1, Arguments DEF NumberTag
  <2>3. PICK chars \in Seq(Digits) :
          /\ text = IF sign = "d" /\ IsNegative(item.arg) THEN <<"-">> \o chars ELSE chars
          /\ Len(chars) \in 1 .. 10 /\ chars[1] # "-"
          /\ chars[1] = "0" => Len(chars) = 1
          /\ Denotes(chars, 10, hex_digits_lo)
               = IF sign = "d" /\ IsNegative(item.arg) THEN Negated(item.arg) ELSE item.arg
    <3>1. \E chars \in Seq(Digits) :
            /\ dec_num_output(item.arg, sign)
                 = IF sign = "d" /\ IsNegative(item.arg) THEN <<"-">> \o chars ELSE chars
            /\ Len(chars) \in 1 .. 10 /\ chars[1] # "-"
            /\ chars[1] = "0" => Len(chars) = 1
            /\ Denotes(chars, 10, hex_digits_lo)
                 = IF sign = "d" /\ IsNegative(item.arg) THEN Negated(item.arg) ELSE item.arg
      BY <2>2, DecimalText
    <3>. HIDE DEF text
    <3>. QED
      BY <2>1, <3>1
  <2>. HIDE DEF text
  <2>4. CASE sign = "d" /\ IsNegative(item.arg)
    <3>1. text = <<"-">> \o chars
      BY <2>3, <2>4
    <3>2. text # <<>> /\ text[1] = "-" /\ Tail(text) = chars
      BY <3>1
    <3>3. minus /\ digits = chars
      BY <3>2
    <3>. HIDE DEF minus, digits
    <3>4. Len(chars) <= NUM_BUFF_SIZE
      <4>1. PICK k \in 1 .. 10 : k = Len(chars)
        BY <2>3
      <4>2. k <= NUM_BUFF_SIZE
        BY <1>0
      <4>. QED
        BY <4>1, <4>2
    <3>5. Len(digits) <= NUM_BUFF_SIZE /\ (digits[1] = "0" => Len(digits) = 1)
      BY <2>3, <3>3, <3>4
    <3>6. Denotes(digits, 10, hex_digits_lo) = Negated(item.arg)
      BY <2>3, <2>4, <3>3
    <3>. QED
      BY <2>1, <2>4, <3>3, <3>5, <3>6
  <2>5. CASE ~(sign = "d" /\ IsNegative(item.arg))
    <3>1. text = chars
      BY <2>3, <2>5
    <3>2. ~minus /\ digits = chars
      BY <1>1, <2>3, <3>1
    <3>. HIDE DEF minus, digits
    <3>3. Len(chars) <= NUM_BUFF_SIZE
      <4>1. PICK k \in 1 .. 10 : k = Len(chars)
        BY <2>3
      <4>2. k <= NUM_BUFF_SIZE
        BY <1>0
      <4>. QED
        BY <4>1, <4>2
    <3>4. Len(digits) <= NUM_BUFF_SIZE /\ (digits[1] = "0" => Len(digits) = 1)
      BY <2>3, <3>2, <3>3
    <3>5. Denotes(digits, 10, hex_digits_lo) = item.arg
      BY <2>3, <2>5, <3>2
    <3>. QED
      BY <2>1, <2>5, <3>2, <3>4, <3>5
  <2>. QED
    BY <2>4, <2>5
<1>2. ASSUME NEW table \in Tables, text = hex_num_output(item.arg, table), item.arg \in Words,
             item.tag # "p"
      PROVE  /\ Denotes(digits, 16, table) = item.arg
             /\ Len(digits) <= NUM_BUFF_SIZE /\ (digits[1] = "0" => Len(digits) = 1)
  <2>1. PICK chars \in Seq(Digits) :
          /\ text = chars
          /\ Len(chars) \in 1 .. 10 /\ chars[1] # "-"
          /\ chars[1] = "0" => Len(chars) = 1
          /\ Denotes(chars, 16, table) = item.arg
    BY <1>2, HexText
  <2>. HIDE DEF text
  <2>2. ~minus /\ digits = chars
    BY <1>2, <2>1
  <2>. HIDE DEF minus, digits
  <2>3. Len(chars) <= NUM_BUFF_SIZE
    <3>1. PICK k \in 1 .. 10 : k = Len(chars)
      BY <2>1
    <3>2. k <= NUM_BUFF_SIZE
      BY <1>0
    <3>. QED
      BY <3>1, <3>2
  <2>. QED
    BY <2>1, <2>2, <2>3
<1>3. hex_digits_lo \in Tables /\ hex_digits_up \in Tables
  BY DEF Tables
<1>4. ASSUME item.tag = "x"
      PROVE  /\ Denotes(digits, 16, hex_digits_lo) = item.arg
             /\ Len(digits) <= NUM_BUFF_SIZE /\ (digits[1] = "0" => Len(digits) = 1)
  <2>1. /\ item.arg \in Words /\ text = hex_num_output(item.arg, hex_digits_lo)
        /\ item.tag # "p"
    BY <1>4, Arguments, ExpandCases DEF NumberTag
  <2>. HIDE DEF text, minus, digits
  <2>. QED
    BY <1>2, <1>3, <2>1
<1>5. ASSUME item.tag = "X"
      PROVE  /\ Denotes(digits, 16, hex_digits_up) = item.arg
             /\ Len(digits) <= NUM_BUFF_SIZE /\ (digits[1] = "0" => Len(digits) = 1)
  <2>1. /\ item.arg \in Words /\ text = hex_num_output(item.arg, hex_digits_up)
        /\ item.tag # "p"
    BY <1>5, Arguments, ExpandCases DEF NumberTag
  <2>. HIDE DEF text, minus, digits
  <2>. QED
    BY <1>2, <1>3, <2>1
<1>7. ASSUME item.tag = "p"
      PROVE  /\ text[1] = "0" /\ text[2] = "x"
             /\ Denotes(digits, 16, hex_digits_lo) = item.arg
             /\ Len(digits) <= NUM_BUFF_SIZE /\ (digits[1] = "0" => Len(digits) = 1)
  <2>1. item.arg \in Words /\ text = <<"0", "x">> \o hex_num_output(item.arg, hex_digits_lo)
    BY <1>7, Arguments, ExpandCases DEF NumberTag
  <2>2. PICK chars \in Seq(Digits) :
          /\ hex_num_output(item.arg, hex_digits_lo) = chars
          /\ Len(chars) \in 1 .. 10 /\ chars[1] # "-"
          /\ chars[1] = "0" => Len(chars) = 1
          /\ Denotes(chars, 16, hex_digits_lo) = item.arg
    BY <1>3, <2>1, HexText
  <2>3. text = <<"0", "x">> \o chars
    BY <2>1, <2>2
  <2>. HIDE DEF text
  <2>4. text[1] = "0" /\ text[2] = "x" /\ Tail(Tail(text)) = chars
    BY <2>3
  <2>5. ~minus
    BY <2>4
  <2>6. digits = chars
    BY <1>7, <2>4, <2>5
  <2>. HIDE DEF minus, digits
  <2>7. Len(chars) <= NUM_BUFF_SIZE
    <3>1. PICK k \in 1 .. 10 : k = Len(chars)
      BY <2>2
    <3>2. k <= NUM_BUFF_SIZE
      BY <1>0
    <3>. QED
      BY <3>1, <3>2
  <2>. QED
    BY <2>2, <2>4, <2>6, <2>7
<1>6. item.tag \in {"d", "i", "u", "x", "X", "p"} =>
        Len(digits) <= NUM_BUFF_SIZE /\ (digits[1] = "0" => Len(digits) = 1)
  <2>. HIDE DEF text, minus, digits
  <2>. QED
    BY <1>1, <1>4, <1>5, <1>7
<1>. HIDE DEF text, minus, digits
<1>. QED
  BY <1>1, <1>4, <1>5, <1>6, <1>7, Zenon DEF PrintedExactly, text, minus, digits

(***************************************************************************)
(* What is expanded is a sequence of characters.                           *)
(***************************************************************************)
LEMMA ExpandText == ASSUME NEW item \in AnyItem PROVE Expand(item) \in Seq(Glyph)
<1>1. Digits \subseteq Glyph /\ Char \subseteq Glyph
  BY Zenon DEF Glyph
<1>2. /\ "-" \in Glyph /\ "%" \in Glyph /\ "[" \in Glyph /\ "?" \in Glyph /\ "]" \in Glyph
      /\ "x" \in Glyph
  BY Zenon DEF Glyph
<1>3. "0" \in Digits
  BY DEF Digits
<1>4. hex_digits_lo \in Tables /\ hex_digits_up \in Tables
  BY DEF Tables
<1>5. Seq(Digits) \subseteq Seq(Glyph) /\ Seq(Char) \subseteq Seq(Glyph)
  BY <1>1
<1>6. ASSUME item.tag \in {"d", "i", "u"} PROVE Expand(item) \in Seq(Glyph)
  <2>1. item.arg \in Words
    BY <1>6, Arguments DEF NumberTag
  <2>2. PICK sign \in {"d", "u"} : Expand(item) = dec_num_output(item.arg, sign)
    BY <1>6, ExpandCases
  <2>3. PICK chars \in Seq(Digits) :
          Expand(item) = IF sign = "d" /\ IsNegative(item.arg) THEN <<"-">> \o chars ELSE chars
    BY <2>1, <2>2, DecimalText
  <2>4. chars \in Seq(Glyph)
    BY <1>5
  <2>5. <<"-">> \o chars \in Seq(Glyph)
    BY <1>2, <2>4
  <2>. QED
    BY <2>3, <2>4, <2>5
<1>7. ASSUME item.tag \in {"x", "X", "p"} PROVE Expand(item) \in Seq(Glyph)
  <2>1. item.arg \in Words
    BY <1>7, Arguments DEF NumberTag
  <2>2. PICK table \in Tables :
          \/ Expand(item) = hex_num_output(item.arg, table)
          \/ Expand(item) = <<"0", "x">> \o hex_num_output(item.arg, table)
    BY <1>4, <1>7, ExpandCases
  <2>3. hex_num_output(item.arg, table) \in Seq(Glyph)
    BY <1>5, <2>1, HexText
  <2>4. <<"0", "x">> \in Seq(Glyph)
    BY <1>1, <1>2, <1>3
  <2>. QED
    BY <2>2, <2>3, <2>4
<1>8. ASSUME item.tag = "s" PROVE Expand(item) \in Seq(Glyph)
  BY <1>5, <1>8, Arguments, ExpandCases
<1>9. ASSUME item.tag \in {"", "c"} PROVE Expand(item) \in Seq(Glyph)
  <2>1. Expand(item) = <<item.arg>>
    BY <1>9, ExpandCases
  <2>. QED
    BY <2>1, Arguments
<1>10. ASSUME item.tag \notin NumberTag \cup {"", "s", "c"} PROVE Expand(item) \in Seq(Glyph)
  <2>1. Expand(item) = <<"%">> \/ Expand(item) = UnsupportedTag
    BY <1>10, ExpandCases
  <2>2. \A a, b, c \in Glyph : <<a>> \in Seq(Glyph) /\ <<a, b, c>> \in Seq(Glyph)
    OBVIOUS
  <2>. QED
    BY <1>2, <2>1, <2>2, Zenon DEF UnsupportedTag
<1>. QED
  BY <1>6, <1>7, <1>8, <1>9, <1>10 DEF NumberTag

-----------------------------------------------------------------------------
(* A thread's share of the output. *)

Text == Seq(Glyph)
Output == Seq([by : Thread, char : Glyph])

\* f[n] is what thread t has of the first n characters of the output o.
IsShare(f, o, t) ==
    /\ f \in [0 .. Len(o) -> Text]
    /\ f[0] = <<>>
    /\ \A n \in 1 .. Len(o) :
          f[n] = IF o[n].by = t THEN Append(f[n - 1], o[n].char) ELSE f[n - 1]

(***************************************************************************)
(* Sequences are the functions from an initial segment of the numbers.     *)
(***************************************************************************)
LEMMA SequenceIsFunction ==
    ASSUME NEW S
    PROVE  /\ \A s \in Seq(S) : \A n \in 1 .. Len(s) : s[n] \in S
           /\ \A k \in Nat : \A s \in [1 .. k -> S] : s \in Seq(S) /\ Len(s) = k
  OBVIOUS

(***************************************************************************)
(* The recursion of Share has what it defines.                             *)
(***************************************************************************)
LEMMA ShareDefined ==
    ASSUME NEW o \in Output, NEW t
    PROVE  \E f : IsShare(f, o, t) /\ Share(o, t) = f[Len(o)]
<1>. DEFINE step == [n \in 1 .. Len(o) |->
                       [s \in Text |-> IF o[n].by = t THEN Append(s, o[n].char) ELSE s]]
            u == CHOOSE f : f = [n \in 0 .. Len(o) |->
                                   IF n = 0 THEN <<>>
                                   ELSE IF o[n].by = t THEN Append(f[n - 1], o[n].char)
                                                       ELSE f[n - 1]]
<1>0. Len(o) \in Nat /\ <<>> \in Text
  BY DEF Output, Text
<1>1. PICK f : IsRecursion(f, Len(o), Text, <<>>, step)
  <2>1. ASSUME NEW n \in 1 .. Len(o), NEW s \in Text
        PROVE  (IF o[n].by = t THEN Append(s, o[n].char) ELSE s) \in Text
    <3>1. o[n] \in [by : Thread, char : Glyph]
      BY SequenceIsFunction, Zenon DEF Output
    <3>2. o[n].char \in Glyph
      BY <3>1
    <3>. QED
      BY <3>2 DEF Text
  <2>2. step \in [1 .. Len(o) -> [Text -> Text]]
    BY <2>1
  <2>. HIDE DEF step
  <2>. QED BY <1>0, <2>2, RecursionExists, Zenon
<1>2. ASSUME NEW n \in 1 .. Len(o)
      PROVE  f[n] = IF o[n].by = t THEN Append(f[n - 1], o[n].char) ELSE f[n - 1]
  <2>0. n - 1 \in 0 .. Len(o)
    BY <1>0
  <2>1. f[n - 1] \in Text /\ f[n] = step[n][f[n - 1]]
    <3>. HIDE DEF step
    <3>1. f \in [0 .. Len(o) -> Text] /\ \A k \in 1 .. Len(o) : f[k] = step[k][f[k - 1]]
      BY <1>1 DEF IsRecursion
    <3>. QED BY <2>0, <3>1
  <2>2. step[n] = [s \in Text |-> IF o[n].by = t THEN Append(s, o[n].char) ELSE s]
    OBVIOUS
  <2>. HIDE DEF step
  <2>. QED BY <2>1, <2>2
<1>3. IsShare(f, o, t)
  BY <1>1, <1>2 DEF IsShare, IsRecursion
<1>4. f = [n \in 0 .. Len(o) |->
             IF n = 0 THEN <<>>
             ELSE IF o[n].by = t THEN Append(f[n - 1], o[n].char) ELSE f[n - 1]]
  <2>1. \A n \in 0 .. Len(o) : n # 0 => n \in 1 .. Len(o)
    BY <1>0
  <2>. QED
    BY <1>3, <2>1 DEF IsShare
<1>5. u = [n \in 0 .. Len(o) |->
             IF n = 0 THEN <<>>
             ELSE IF o[n].by = t THEN Append(u[n - 1], o[n].char) ELSE u[n - 1]]
  <2>1. \E h : h = [n \in 0 .. Len(o) |->
                      IF n = 0 THEN <<>>
                      ELSE IF o[n].by = t THEN Append(h[n - 1], o[n].char) ELSE h[n - 1]]
    BY <1>4
  <2>. QED BY <2>1
<1>6. Share(o, t) = u[Len(o)]
  BY Zenon DEF Share
<1>. HIDE DEF u, step
<1>7. \A n \in 0 .. Len(o) : u[n] = f[n]
  <2>1. u[0] = f[0]
    BY <1>0, <1>1, <1>5 DEF IsRecursion
  <2>2. ASSUME NEW n \in 1 .. Len(o), u[n - 1] = f[n - 1] PROVE u[n] = f[n]
    <3>1. n \in 0 .. Len(o) /\ n # 0
      BY <1>0
    <3>2. u[n] = IF o[n].by = t THEN Append(u[n - 1], o[n].char) ELSE u[n - 1]
      BY <1>5, <3>1
    <3>. QED BY <1>2, <2>2, <3>2
  <2>. QED
    BY <1>0, <2>1, <2>2, Agreement
<1>8. Share(o, t) = f[Len(o)]
  BY <1>0, <1>6, <1>7
<1>. QED
  BY <1>3, <1>8

(***************************************************************************)
(* When a thread sends its characters, they are added to its own share of  *)
(* the output and to no other.                                             *)
(***************************************************************************)
LEMMA ShareOfOutput ==
    ASSUME NEW o \in Output, NEW chars \in Text, NEW by \in Thread, NEW t \in Thread
    PROVE  LET sent == o \o [i \in DOMAIN chars |-> [by |-> by, char |-> chars[i]]]
           IN  /\ sent \in Output
               /\ Share(o, t) \in Text
               /\ Share(sent, t) = IF by = t THEN Share(o, t) \o chars ELSE Share(o, t)
<1>. DEFINE w == [i \in DOMAIN chars |-> [by |-> by, char |-> chars[i]]]
            sent == o \o w
<1>0. PICK L \in Nat, M \in Nat : L = Len(o) /\ M = Len(chars)
  BY DEF Output, Text
<1>1. L \in Nat /\ M \in Nat /\ DOMAIN chars = 1 .. M
  BY <1>0 DEF Text
<1>2. w \in Output /\ Len(w) = M
  <2>1. \A i \in 1 .. M : chars[i] \in Glyph
    BY <1>0, <1>1 DEF Text
  <2>2. w \in [1 .. M -> [by : Thread, char : Glyph]]
    BY <1>1, <2>1
  <2>. HIDE DEF w
  <2>. QED
    BY <1>1, <2>2, SequenceIsFunction, Zenon DEF Output
<1>3. \A i \in 1 .. M : w[i].by = by /\ w[i].char = chars[i]
  BY <1>1
<1>. HIDE DEF w
<1>4. /\ sent \in Output /\ Len(sent) = L + M
      /\ \A n \in 1 .. L : sent[n] = o[n]
      /\ \A i \in 1 .. M : sent[L + i] = w[i]
  BY <1>0, <1>1, <1>2 DEF Output
<1>. HIDE DEF sent
<1>5. PICK f : IsShare(f, o, t) /\ Share(o, t) = f[L]
  BY <1>0, ShareDefined
<1>6. PICK g : IsShare(g, sent, t) /\ Share(sent, t) = g[L + M]
  BY <1>4, ShareDefined
<1>7. \A n \in 0 .. L : g[n] = f[n]
  <2>1. g[0] = f[0]
    BY <1>5, <1>6 DEF IsShare
  <2>2. ASSUME NEW n \in 1 .. L, g[n - 1] = f[n - 1] PROVE g[n] = f[n]
    <3>1. n \in 1 .. Len(sent)
      BY <1>1, <1>4
    <3>2. f[n] = IF o[n].by = t THEN Append(f[n - 1], o[n].char) ELSE f[n - 1]
      BY <1>0, <1>5 DEF IsShare
    <3>3. g[n] = IF sent[n].by = t THEN Append(g[n - 1], sent[n].char) ELSE g[n - 1]
      BY <1>6, <3>1 DEF IsShare
    <3>. QED
      BY <1>4, <2>2, <3>2, <3>3
  <2>3. \A n \in 1 .. L : g[n - 1] = f[n - 1] => g[n] = f[n]
    BY <2>2
  <2>. DEFINE P == {n \in 0 .. L : g[n] = f[n]}
  <2>4. 0 \in P
    BY <1>1, <2>1
  <2>5. \A n \in 1 .. L : n - 1 \in P => n \in P
    BY <1>1, <2>3
  <2>6. \A n \in 0 .. L : n \in P
    <3>. HIDE DEF P
    <3>. QED BY <1>1, <2>4, <2>5, UpTo
  <2>. QED
    BY <2>6
<1>8. PICK s \in Text : s = f[L] /\ s = g[L] /\ s = Share(o, t)
  <2>1. L \in 0 .. L
    BY <1>1
  <2>2. f[L] \in Text
    BY <1>0, <1>5, <2>1 DEF IsShare
  <2>. QED BY <1>5, <1>7, <2>1, <2>2
<1>9. ASSUME NEW i \in 1 .. M
      PROVE  g[L + i] = IF by = t THEN Append(g[L + (i - 1)], chars[i]) ELSE g[L + (i - 1)]
  <2>1. L + i \in 1 .. Len(sent) /\ (L + i) - 1 = L + (i - 1)
    BY <1>1, <1>4
  <2>2. sent[L + i].by = by /\ sent[L + i].char = chars[i]
    BY <1>3, <1>4
  <2>. QED
    BY <1>6, <2>1, <2>2 DEF IsShare
<1>10. CASE by # t
  <2>. DEFINE P == {i \in 0 .. M : g[L + i] = s}
  <2>1. 0 \in P
    <3>1. L + 0 = L /\ 0 \in 0 .. M
      BY <1>1
    <3>2. g[L + 0] = s
      BY <1>8, <3>1
    <3>. QED BY <3>1, <3>2
  <2>2. ASSUME NEW i \in 1 .. M, i - 1 \in P PROVE i \in P
    BY <1>1, <1>9, <1>10, <2>2
  <2>3. M \in P
    <3>1. M \in 0 .. M
      BY <1>1
    <3>. HIDE DEF P
    <3>. QED BY <1>1, <2>1, <2>2, <3>1, UpTo
  <2>. QED
    BY <1>4, <1>6, <1>8, <1>10, <2>3 DEF sent, w
<1>11. CASE by = t
  <2>. DEFINE P == {i \in 0 .. M : g[L + i] = s \o SubSeq(chars, 1, i)}
  <2>1. 0 \in P
    <3>1. SubSeq(chars, 1, 0) = <<>> /\ s \o <<>> = s /\ L + 0 = L
      BY <1>1 DEF Text
    <3>2. 0 \in 0 .. M
      BY <1>1
    <3>3. g[L + 0] = s \o SubSeq(chars, 1, 0)
      BY <1>8, <3>1
    <3>. QED BY <3>2, <3>3
  <2>2. ASSUME NEW i \in 1 .. M, i - 1 \in P PROVE i \in P
    <3>1. g[L + (i - 1)] = s \o SubSeq(chars, 1, i - 1)
      BY <2>2
    <3>2. Append(s \o SubSeq(chars, 1, i - 1), chars[i]) = s \o SubSeq(chars, 1, i)
      BY <1>1 DEF Text
    <3>3. g[L + i] = s \o SubSeq(chars, 1, i)
      BY <1>9, <1>11, <3>1, <3>2
    <3>. QED
      BY <1>1, <3>3
  <2>3. M \in P
    <3>1. M \in 0 .. M
      BY <1>1
    <3>. HIDE DEF P
    <3>. QED BY <1>1, <2>1, <2>2, <3>1, UpTo
  <2>4. SubSeq(chars, 1, M) = chars
    BY <1>1 DEF Text
  <2>. QED
    BY <1>4, <1>6, <1>8, <1>11, <2>3, <2>4 DEF sent, w
<1>. QED
  BY <1>10, <1>11

-----------------------------------------------------------------------------
(* The inductive invariant. *)

ThreadState ==
    [pc : {"idle", "print", "done"}, fmt : Seq(AnyItem), item : AnyItem, text : Text,
     said : Text, buf : Text, count : Nat]

IInv ==
    /\ th \in [Thread -> ThreadState]
    /\ out \in Output
    /\ MessageKept

(***************************************************************************)
(* A % tag that is not supported is a character of the text, like a        *)
(* character of the format; what follows an item is a format again.        *)
(***************************************************************************)
LEMMA FollowingType ==
    ASSUME NEW fmt \in Seq(AnyItem), fmt # <<>>
    PROVE  Head(fmt) \in AnyItem /\ Following(fmt) \in Seq(AnyItem)
<1>1. Head(fmt) \in AnyItem /\ Tail(fmt) \in Seq(AnyItem)
  OBVIOUS
<1>2. Head(fmt).tag \in Glyph
  <2>1. CASE Head(fmt) \in Item
    BY <2>1 DEF Glyph
  <2>2. CASE Head(fmt) \notin Item
    <3>1. PICK i, g : i = Head(fmt) /\ i = [tag |-> "", arg |-> g]
      BY <1>1, <2>2, Zenon DEF AnyItem
    <3>2. i.tag = ""
      <4>1. \A x : [tag |-> "", arg |-> x].tag = ""
        OBVIOUS
      <4>. QED BY <3>1, <4>1, Zenon
    <3>3. Head(fmt).tag = ""
      BY <3>1, <3>2, Zenon
    <3>. QED BY <3>3, Zenon DEF Glyph
  <2>. QED BY <2>1, <2>2
<1>3. [tag |-> "", arg |-> Head(fmt).tag] \in AnyItem
  BY <1>2, Zenon DEF AnyItem
<1>4. <<[tag |-> "", arg |-> Head(fmt).tag]>> \o Tail(fmt) \in Seq(AnyItem)
  <2>1. \A i \in AnyItem, s \in Seq(AnyItem) : <<i>> \o s \in Seq(AnyItem)
    OBVIOUS
  <2>. QED BY <1>1, <1>3, <2>1, Zenon
<1>. QED
  BY <1>1, <1>4, Zenon DEF Following

(***************************************************************************)
(* Joining texts is associative, and a character that moves from the front *)
(* of one text to the end of the text before it changes nothing.           *)
(***************************************************************************)
LEMMA Joining ==
    ASSUME NEW a \in Text, NEW b \in Text, NEW c \in Text
    PROVE  /\ a \o b \in Text
           /\ (a \o b) \o c = a \o (b \o c)
           /\ a \o <<>> = a /\ <<>> \o a = a
           /\ b # <<>> => /\ Append(a, Head(b)) \in Text /\ Tail(b) \in Text
                          /\ Append(a, Head(b)) \o Tail(b) = a \o b
<1>1. a \o b \in Text /\ (a \o b) \o c = a \o (b \o c)
  BY DEF Text
<1>2. a \o <<>> = a /\ <<>> \o a = a
  BY DEF Text
<1>3. ASSUME b # <<>>
      PROVE  /\ Append(a, Head(b)) \in Text /\ Tail(b) \in Text
             /\ Append(a, Head(b)) \o Tail(b) = a \o b
  <2>1. PICK h \in Glyph, r \in Seq(Glyph) : h = Head(b) /\ r = Tail(b)
    <3>1. Head(b) \in Glyph /\ Tail(b) \in Seq(Glyph)
      BY <1>3 DEF Text
    <3>. QED BY <3>1, Zenon
  <2>2. b = <<h>> \o r
    <3>1. Len(b) = Len(<<h>> \o r) /\ \A i \in 1 .. Len(b) : b[i] = (<<h>> \o r)[i]
      BY <1>3, <2>1 DEF Text
    <3>2. <<h>> \o r \in Seq(Glyph)
      OBVIOUS
    <3>3. \A p, q \in Seq(Glyph) : Len(p) = Len(q) /\ (\A i \in 1 .. Len(p) : p[i] = q[i]) => p = q
      OBVIOUS
    <3>. QED BY <3>1, <3>2, <3>3, Zenon DEF Text
  <2>3. Append(a, h) \in Text /\ Append(a, h) \o r = a \o (<<h>> \o r)
    BY DEF Text
  <2>. QED BY <2>1, <2>2, <2>3, Zenon DEF Text
<1>. QED
  BY <1>1, <1>2, <1>3

(***************************************************************************)
(* A step of a thread that sends some characters, takes in some others,    *)
(* and moves the rest along between its text and its buffer preserves the  *)
(* invariant.                                                              *)
(***************************************************************************)
LEMMA Moves ==
    ASSUME IInv, NEW t \in Thread, NEW sent \in Text, NEW new \in Text,
           th' \in [Thread -> ThreadState],
           \A u \in Thread \ {t} : th'[u] = th[u],
           out' \in Output,
           \A u \in Thread : Share(out', u) = IF t = u THEN Share(out, u) \o sent ELSE Share(out, u),
           Share(out, t) \in Text,
           sent \o (th'[t].buf \o th'[t].text) = (th[t].buf \o th[t].text) \o new,
           th'[t].said = th[t].said \o new,
           th'[t].pc = "done" => th'[t].buf = <<>> /\ th'[t].text = <<>>,
           Len(th'[t].buf) < PRINT_BUFF_SIZE
    PROVE  IInv'
<1>1. PICK p \in Text, b \in Text, x \in Text, b2 \in Text, x2 \in Text :
        /\ p = Share(out, t)
        /\ b = th[t].buf /\ x = th[t].text
        /\ b2 = th'[t].buf /\ x2 = th'[t].text
  BY DEF IInv, ThreadState
<1>2. Share(out', t) \o th'[t].buf \o th'[t].text = th'[t].said
  <2>1. (p \o b) \o x = th[t].said
    BY <1>1 DEF IInv, MessageKept, Printed
  <2>2. sent \o (b2 \o x2) = (b \o x) \o new
    BY <1>1
  <2>3. Share(out', t) = p \o sent
    BY <1>1
  <2>4. ((p \o sent) \o b2) \o x2 = p \o (sent \o (b2 \o x2))
    <3>1. ((p \o sent) \o b2) \o x2 = (p \o sent) \o (b2 \o x2)
      BY Joining
    <3>2. b2 \o x2 \in Text
      BY Joining
    <3>. HIDE DEF Text
    <3>. QED BY <3>1, <3>2, Joining
  <2>5. p \o ((b \o x) \o new) = ((p \o b) \o x) \o new
    <3>1. (p \o b) \o x = p \o (b \o x)
      BY Joining
    <3>2. b \o x \in Text
      BY Joining
    <3>3. (p \o (b \o x)) \o new = p \o ((b \o x) \o new)
      BY <3>2, Joining
    <3>. QED BY <3>1, <3>3
  <2>. QED
    BY <1>1, <2>1, <2>2, <2>3, <2>4, <2>5
<1>3. ASSUME NEW u \in Thread
      PROVE  /\ Share(out', u) \o th'[u].buf \o th'[u].text = th'[u].said
             /\ th'[u].pc = "done" => th'[u].buf = <<>> /\ th'[u].text = <<>>
             /\ Len(th'[u].buf) < PRINT_BUFF_SIZE
  <2>1. CASE u = t
    BY <1>2, <2>1
  <2>2. CASE u # t
    <3>1. th'[u] = th[u] /\ Share(out', u) = Share(out, u)
      BY <2>2
    <3>2. /\ Share(out, u) \o th[u].buf \o th[u].text = th[u].said
          /\ th[u].pc = "done" => th[u].buf = <<>> /\ th[u].text = <<>>
          /\ Len(th[u].buf) < PRINT_BUFF_SIZE
      BY DEF IInv, MessageKept, Printed
    <3>. QED BY <3>1, <3>2
  <2>. QED BY <2>1, <2>2
<1>4. MessageKept'
  BY <1>3, Zenon DEF MessageKept, Printed
<1>. QED
  BY <1>4 DEF IInv

(***************************************************************************)
(* What a thread that sends nothing, or sends chars, does to the shares of *)
(* the output.                                                             *)
(***************************************************************************)
LEMMA Sends ==
    ASSUME IInv, NEW t \in Thread, NEW chars \in Text,
           stdio_output_string(t, chars) \/ (UNCHANGED out /\ chars = <<>>)
    PROVE  /\ out' \in Output
           /\ Share(out, t) \in Text
           /\ \A u \in Thread :
                 Share(out', u) = IF t = u THEN Share(out, u) \o chars ELSE Share(out, u)
<1>0. out \in Output
  BY DEF IInv
<1>1. \A u \in Thread : Share(out, u) \in Text
  BY <1>0, ShareOfOutput
<1>2. CASE stdio_output_string(t, chars)
  <2>1. out' = out \o [i \in DOMAIN chars |-> [by |-> t, char |-> chars[i]]]
    BY <1>2, Zenon DEF stdio_output_string
  <2>2. ASSUME NEW u \in Thread
        PROVE  /\ out' \in Output
               /\ Share(out', u) = IF t = u THEN Share(out, u) \o chars ELSE Share(out, u)
    <3>. DEFINE more == out \o [i \in DOMAIN chars |-> [by |-> t, char |-> chars[i]]]
    <3>1. /\ more \in Output
          /\ Share(more, u) = IF t = u THEN Share(out, u) \o chars ELSE Share(out, u)
      BY <1>0, ShareOfOutput
    <3>2. out' = more
      BY <2>1
    <3>. HIDE DEF more
    <3>. QED BY <3>1, <3>2
  <2>. QED BY <1>1, <2>2
<1>3. CASE UNCHANGED out /\ chars = <<>>
  <2>1. \A u \in Thread : Share(out, u) \o chars = Share(out, u)
    BY <1>1, <1>3, Joining
  <2>. QED BY <1>0, <1>1, <1>3, <2>1
<1>. QED
  BY <1>2, <1>3

-----------------------------------------------------------------------------
(* Every action preserves the invariant. *)

(***************************************************************************)
(* The empty text.                                                         *)
(***************************************************************************)
LEMMA EmptyText == <<>> \in Text
  BY DEF Text

(***************************************************************************)
(* The invariant holds initially.                                          *)
(***************************************************************************)
LEMMA InitInv == Init => IInv
<1>. SUFFICES ASSUME Init PROVE IInv
  OBVIOUS
<1>1. NoItem \in AnyItem
  <2>1. "" \in Glyph
    BY Zenon DEF Glyph
  <2>. QED BY <2>1, Zenon DEF AnyItem, NoItem
<1>2. <<>> \in Seq(AnyItem) /\ <<>> \in Text /\ 0 \in Nat
  BY DEF Text
<1>3. th = [t \in Thread |-> [pc |-> "idle", fmt |-> <<>>, item |-> NoItem, text |-> <<>>,
                              said |-> <<>>, buf |-> <<>>, count |-> 0]]
  BY DEF Init
<1>4. [pc |-> "idle", fmt |-> <<>>, item |-> NoItem, text |-> <<>>,
       said |-> <<>>, buf |-> <<>>, count |-> 0] \in ThreadState
  BY <1>1, <1>2 DEF ThreadState
<1>5. th \in [Thread -> ThreadState]
  BY <1>3, <1>4, Zenon
<1>6. out = <<>> /\ out \in Output
  BY DEF Init, Output
<1>7. ASSUME NEW t \in Thread
      PROVE  /\ Printed(t) \o th[t].buf \o th[t].text = th[t].said
             /\ th[t].pc = "done" => th[t].buf = <<>> /\ th[t].text = <<>>
             /\ Len(th[t].buf) < PRINT_BUFF_SIZE
  <2>1. th[t].buf = <<>> /\ th[t].text = <<>> /\ th[t].said = <<>> /\ th[t].pc = "idle"
    BY <1>3
  <2>2. Printed(t) = <<>>
    <3>1. PICK f : IsShare(f, out, t) /\ Share(out, t) = f[Len(out)]
      BY <1>6, ShareDefined
    <3>2. Len(out) = 0 /\ f[0] = <<>>
      BY <1>6, <3>1 DEF IsShare
    <3>. QED BY <3>1, <3>2 DEF Printed
  <2>3. <<>> \o <<>> = <<>> /\ Len(<<>>) = 0
    BY EmptyText, Joining
  <2>4. 0 < PRINT_BUFF_SIZE
    BY BufferAssumption
  <2>. QED
    BY <2>1, <2>2, <2>3, <2>4
<1>. QED
  BY <1>5, <1>6, <1>7 DEF IInv, MessageKept

(***************************************************************************)
(* A call of tfm_log_printf starts with nothing printed.                   *)
(***************************************************************************)
LEMMA PrintfInv == ASSUME IInv, NEW t \in Thread, tfm_log_printf(t) PROVE IInv'
<1>1. PICK m \in Messages : th' = [th EXCEPT ![t].pc = "print", ![t].fmt = m]
  BY DEF tfm_log_printf
<1>2. m \in Seq(AnyItem)
  <2>1. m \in Seq(Item) /\ Item \subseteq AnyItem
    BY MessageAssumption DEF AnyItem
  <2>. QED BY <2>1
<1>3. /\ th' \in [Thread -> ThreadState]
      /\ \A u \in Thread \ {t} : th'[u] = th[u]
      /\ th'[t].buf = th[t].buf /\ th'[t].text = th[t].text /\ th'[t].said = th[t].said
      /\ th'[t].pc = "print"
  BY <1>1, <1>2 DEF IInv, ThreadState
<1>4. /\ out' \in Output /\ Share(out, t) \in Text
      /\ \A u \in Thread : Share(out', u) = IF t = u THEN Share(out, u) \o <<>> ELSE Share(out, u)
  BY EmptyText, Sends DEF tfm_log_printf
<1>5. PICK b \in Text, x \in Text, s \in Text : b = th[t].buf /\ x = th[t].text /\ s = th[t].said
  BY DEF IInv, ThreadState
<1>6. <<>> \o (b \o x) = (b \o x) \o <<>> /\ s = s \o <<>>
  BY Joining
<1>7. Len(th[t].buf) < PRINT_BUFF_SIZE
  BY DEF IInv, MessageKept
<1>. HIDE DEF IInv
<1>8. /\ <<>> \o (th'[t].buf \o th'[t].text) = (th[t].buf \o th[t].text) \o <<>>
      /\ th'[t].said = th[t].said \o <<>>
      /\ th'[t].pc = "done" => th'[t].buf = <<>> /\ th'[t].text = <<>>
      /\ Len(th'[t].buf) < PRINT_BUFF_SIZE
  BY <1>3, <1>5, <1>6, <1>7
<1>. QED
  BY <1>3, <1>4, <1>8, EmptyText, Moves

(***************************************************************************)
(* An item adds its expansion to what is said and to what is to be         *)
(* printed.                                                                *)
(***************************************************************************)
LEMMA ItemInv == ASSUME IInv, NEW t \in Thread, vprintf_item(t) PROVE IInv'
<1>0. th[t] \in ThreadState
  BY DEF IInv
<1>1. PICK i, e, fmt : i = Head(th[t].fmt) /\ e = Expand(i) /\ fmt = Following(th[t].fmt)
  OBVIOUS
<1>2. i \in AnyItem /\ e \in Text /\ fmt \in Seq(AnyItem)
  <2>1. th[t].fmt \in Seq(AnyItem) /\ th[t].fmt # <<>>
    BY <1>0 DEF ThreadState, vprintf_item
  <2>2. i \in AnyItem /\ fmt \in Seq(AnyItem)
    BY <1>1, <2>1, FollowingType
  <2>. QED BY <1>1, <2>2, ExpandText DEF Text
<1>4. PICK b \in Text, s \in Text : b = th[t].buf /\ s = th[t].said
  BY <1>0 DEF ThreadState
<1>3. PICK q : q = [th[t] EXCEPT !.item = i, !.text = e, !.fmt = fmt, !.said = s \o e,
                                 !.count = th[t].count + Len(e)]
  OBVIOUS
<1>5. s \o e \in Text /\ <<>> \o (b \o e) = (b \o <<>>) \o e
  <2>1. b \o e \in Text
    BY <1>2, Joining
  <2>. QED BY <1>2, <2>1, Joining
<1>6. Len(e) \in Nat
  BY <1>2 DEF Text
<1>7. th[t].text = <<>> /\ th[t].pc = "print"
  BY DEF vprintf_item
<1>8. /\ th' \in [Thread -> ThreadState]
      /\ \A u \in Thread \ {t} : th'[u] = th[u]
      /\ th'[t].buf = b /\ th'[t].text = e /\ th'[t].said = s \o e
      /\ th'[t].pc = "print"
  <2>1. th \in [Thread -> ThreadState]
    BY DEF IInv
  <2>2. PICK old : old = th[t] /\ old \in ThreadState
    BY <1>0
  <2>3. q = [old EXCEPT !.item = i, !.text = e, !.fmt = fmt, !.said = s \o e,
                        !.count = old.count + Len(e)]
    BY <1>3, <2>2, Zenon
  <2>4. /\ q \in ThreadState /\ q.text = e /\ q.said = s \o e
        /\ q.buf = old.buf /\ q.pc = old.pc
    <3>0. old.count + Len(e) \in Nat
      <4>1. old.count \in Nat
        BY <2>2 DEF ThreadState
      <4>. QED BY <1>6, <4>1
    <3>1. PICK n \in Nat, v \in Text : n = old.count + Len(e) /\ v = s \o e
      BY <1>5, <3>0, Zenon
    <3>2. q = [old EXCEPT !.item = i, !.text = e, !.fmt = fmt, !.said = v, !.count = n]
      BY <2>3, <3>1, Zenon
    <3>3. old \in ThreadState
      BY <2>2
    <3>4. q \in ThreadState /\ q.text = e /\ q.said = v /\ q.buf = old.buf /\ q.pc = old.pc
      BY <1>2, <3>2, <3>3 DEF ThreadState
    <3>. QED BY <3>1, <3>4, Zenon
  <2>5. th' = [th EXCEPT ![t] = q]
    <3>1. th' = [th EXCEPT ![t].item = i, ![t].text = e, ![t].fmt = fmt, ![t].said = s \o e,
                           ![t].count = old.count + Len(e)]
      BY <1>1, <1>4, <2>2, Zenon DEF vprintf_item
    <3>. HIDE DEF IInv
    <3>. QED BY <2>1, <2>2, <2>3, <3>1
  <2>. QED BY <1>4, <1>7, <2>1, <2>2, <2>4, <2>5
<1>9. /\ out' \in Output /\ Share(out, t) \in Text
      /\ \A u \in Thread : Share(out', u) = IF t = u THEN Share(out, u) \o <<>> ELSE Share(out, u)
  BY EmptyText, Sends DEF vprintf_item
<1>10. Len(th[t].buf) < PRINT_BUFF_SIZE
  BY DEF IInv, MessageKept
<1>11. /\ <<>> \o (th'[t].buf \o th'[t].text) = (th[t].buf \o th[t].text) \o e
       /\ th'[t].said = th[t].said \o e
       /\ th'[t].pc = "done" => th'[t].buf = <<>> /\ th'[t].text = <<>>
       /\ Len(th'[t].buf) < PRINT_BUFF_SIZE
  BY <1>4, <1>5, <1>7, <1>8, <1>10
<1>. QED
  BY <1>2, <1>8, <1>9, <1>11, EmptyText, Moves

(***************************************************************************)
(* A character moves from the text to the buffer, and the buffer to the    *)
(* output when it is full.                                                 *)
(***************************************************************************)
LEMMA FlushInv == ASSUME IInv, NEW t \in Thread, flush_formatted_buffer(t) PROVE IInv'
<1>0. th \in [Thread -> ThreadState] /\ th[t] \in ThreadState
  BY DEF IInv
<1>1. PICK b \in Text, x \in Text, s \in Text : b = th[t].buf /\ x = th[t].text /\ s = th[t].said
  BY <1>0 DEF ThreadState
<1>2. PICK full, rest : full = Append(b, Head(x)) /\ rest = Tail(x)
  OBVIOUS
<1>3. x # <<>> /\ th[t].pc = "print"
  BY <1>1, Zenon DEF flush_formatted_buffer
<1>4. full \in Text /\ rest \in Text /\ full \o rest = b \o x
  <2>1. /\ Append(b, Head(x)) \in Text /\ Tail(x) \in Text
        /\ Append(b, Head(x)) \o Tail(x) = b \o x
    BY <1>3, Joining
  <2>. QED BY <1>2, <2>1, Zenon
<1>5. (b \o x) \o <<>> = b \o x /\ s \o <<>> = s /\ <<>> \o rest = rest /\ <<>> \o (full \o rest) = full \o rest
  <2>1. b \o x \in Text /\ full \o rest \in Text
    BY <1>4, Joining
  <2>. QED BY <1>4, <2>1, Joining
<1>6. CASE Len(full) >= PRINT_BUFF_SIZE
  <2>1. stdio_output_string(t, full) /\ th' = [th EXCEPT ![t].text = Tail(@), ![t].buf = <<>>]
    BY <1>1, <1>2, <1>6 DEF flush_formatted_buffer
  <2>2. /\ th' \in [Thread -> ThreadState]
        /\ \A u \in Thread \ {t} : th'[u] = th[u]
        /\ th'[t].buf = <<>> /\ th'[t].text = rest /\ th'[t].said = s
        /\ th'[t].pc = "print"
    BY <1>0, <1>1, <1>2, <1>3, <1>4, <2>1, EmptyText DEF ThreadState
  <2>3. /\ out' \in Output /\ Share(out, t) \in Text
        /\ \A u \in Thread : Share(out', u) = IF t = u THEN Share(out, u) \o full ELSE Share(out, u)
    BY <1>4, <2>1, Sends
  <2>4. /\ full \o (th'[t].buf \o th'[t].text) = (th[t].buf \o th[t].text) \o <<>>
        /\ th'[t].said = th[t].said \o <<>>
        /\ th'[t].pc = "done" => th'[t].buf = <<>> /\ th'[t].text = <<>>
    BY <1>1, <1>4, <1>5, <2>2
  <2>5. Len(th'[t].buf) < PRINT_BUFF_SIZE
    BY <2>2, BufferAssumption
  <2>. QED
    BY <1>4, <2>2, <2>3, <2>4, <2>5, EmptyText, Moves
<1>7. CASE ~(Len(full) >= PRINT_BUFF_SIZE)
  <2>1. UNCHANGED out /\ th' = [th EXCEPT ![t].text = Tail(@), ![t].buf = full]
    BY <1>1, <1>2, <1>7 DEF flush_formatted_buffer
  <2>2. /\ th' \in [Thread -> ThreadState]
        /\ \A u \in Thread \ {t} : th'[u] = th[u]
        /\ th'[t].buf = full /\ th'[t].text = rest /\ th'[t].said = s
        /\ th'[t].pc = "print"
    BY <1>0, <1>1, <1>2, <1>3, <1>4, <2>1 DEF ThreadState
  <2>3. /\ out' \in Output /\ Share(out, t) \in Text
        /\ \A u \in Thread : Share(out', u) = IF t = u THEN Share(out, u) \o <<>> ELSE Share(out, u)
    BY EmptyText, <2>1, Sends
  <2>4. /\ <<>> \o (th'[t].buf \o th'[t].text) = (th[t].buf \o th[t].text) \o <<>>
        /\ th'[t].said = th[t].said \o <<>>
        /\ th'[t].pc = "done" => th'[t].buf = <<>> /\ th'[t].text = <<>>
    BY <1>1, <1>4, <1>5, <2>2
  <2>5. Len(th'[t].buf) < PRINT_BUFF_SIZE
    <3>1. Len(full) \in Nat /\ PRINT_BUFF_SIZE \in Nat
      BY <1>4, BufferAssumption DEF Text
    <3>2. Len(full) < PRINT_BUFF_SIZE
      BY <1>7, <3>1
    <3>. QED BY <2>2, <3>2
  <2>. QED
    BY <2>2, <2>3, <2>4, <2>5, EmptyText, Moves
<1>. QED
  BY <1>6, <1>7

(***************************************************************************)
(* At the end what is left in the buffer is sent.                          *)
(***************************************************************************)
LEMMA EndInv == ASSUME IInv, NEW t \in Thread, vprintf_end(t) PROVE IInv'
<1>0. th \in [Thread -> ThreadState] /\ th[t] \in ThreadState
  BY DEF IInv
<1>1. PICK b \in Text, s \in Text : b = th[t].buf /\ s = th[t].said
  BY <1>0 DEF ThreadState
<1>2. th[t].text = <<>> /\ stdio_output_string(t, b)
  BY <1>1 DEF vprintf_end
<1>3. th' = [th EXCEPT ![t].pc = "done", ![t].count = @ + Len(b), ![t].buf = <<>>]
  BY <1>1 DEF vprintf_end
<1>4. Len(b) \in Nat
  BY DEF Text
<1>5. /\ th' \in [Thread -> ThreadState]
      /\ \A u \in Thread \ {t} : th'[u] = th[u]
      /\ th'[t].buf = <<>> /\ th'[t].text = <<>> /\ th'[t].said = s
  <2>1. PICK old : old = th[t] /\ old \in ThreadState
    BY <1>0
  <2>2. PICK q : q = [old EXCEPT !.pc = "done", !.count = old.count + Len(b), !.buf = <<>>]
    OBVIOUS
  <2>3. q \in ThreadState /\ q.buf = <<>> /\ q.text = old.text /\ q.said = old.said
    <3>1. PICK n \in Nat : n = old.count + Len(b)
      BY <1>4, <2>1 DEF ThreadState
    <3>2. q = [old EXCEPT !.pc = "done", !.count = n, !.buf = <<>>]
      BY <2>2, <3>1, Zenon
    <3>3. old \in ThreadState
      BY <2>1
    <3>. QED BY <3>2, <3>3, EmptyText DEF ThreadState
  <2>4. th' = [th EXCEPT ![t] = q]
    BY <1>0, <1>3, <2>1, <2>2
  <2>. QED BY <1>0, <1>1, <1>2, <2>1, <2>3, <2>4
<1>6. /\ out' \in Output /\ Share(out, t) \in Text
      /\ \A u \in Thread : Share(out', u) = IF t = u THEN Share(out, u) \o b ELSE Share(out, u)
  BY <1>2, Sends
<1>7. b \o (<<>> \o <<>>) = (b \o <<>>) \o <<>> /\ s = s \o <<>>
  BY EmptyText, Joining
<1>8. /\ b \o (th'[t].buf \o th'[t].text) = (th[t].buf \o th[t].text) \o <<>>
      /\ th'[t].said = th[t].said \o <<>>
      /\ th'[t].pc = "done" => th'[t].buf = <<>> /\ th'[t].text = <<>>
  BY <1>1, <1>2, <1>5, <1>7
<1>9. Len(th'[t].buf) < PRINT_BUFF_SIZE
  BY <1>5, BufferAssumption
<1>. QED
  BY <1>5, <1>6, <1>8, <1>9, EmptyText, Moves

(***************************************************************************)
(* Every step preserves the invariant.                                     *)
(***************************************************************************)
LEMMA NextInv == IInv /\ [Next]_vars => IInv'
<1>. SUFFICES ASSUME IInv, [Next]_vars PROVE IInv'
  OBVIOUS
<1>1. CASE UNCHANGED vars
  BY <1>1 DEF IInv, MessageKept, Printed, vars
<1>2. CASE \E t \in Thread :
             tfm_log_printf(t) \/ vprintf_item(t) \/ flush_formatted_buffer(t) \/ vprintf_end(t)
  BY <1>2, PrintfInv, ItemInv, FlushInv, EndInv
<1>. QED
  BY <1>1, <1>2 DEF Next, Done

(***************************************************************************)
(* The inductive invariant holds in every state.                           *)
(***************************************************************************)
THEOREM Invariance == Spec => []IInv
  BY InitInv, NextInv, PTL DEF Spec

(***************************************************************************)
(* Whatever number a thread prints, with any tag, _tfm_dec_num_output and  *)
(* _tfm_hex_num_output print it exactly: the digits fit num_buff, have no  *)
(* leading zero and denote the argument, INT32_MIN included.               *)
(***************************************************************************)
THEOREM NumbersExactHolds == Spec => []NumbersExact
<1>1. IInv => NumbersExact
  <2>. SUFFICES ASSUME IInv, NEW t \in Thread PROVE PrintedExactly(th[t].item)
    BY DEF NumbersExact
  <2>1. th[t].item \in AnyItem
    BY DEF IInv, ThreadState
  <2>. QED BY <2>1, ItemExact
<1>. QED
  BY <1>1, Invariance, PTL

(***************************************************************************)
(* However many threads print, whatever the messages and the size of the   *)
(* buffer, nothing of a message is lost, repeated or reordered by          *)
(* _tfm_flush_formatted_buffer, and all of it is out when the call ends.   *)
(***************************************************************************)
THEOREM MessageKeptHolds == Spec => []MessageKept
<1>1. IInv => MessageKept
  BY DEF IInv
<1>. QED
  BY <1>1, Invariance, PTL
=============================================================================
