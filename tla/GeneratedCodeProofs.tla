-------------------------- MODULE GeneratedCodeProofs --------------------------
(***************************************************************************)
(* How long the code is that the compilers of CompiledCode generate, and   *)
(* what it leaves as it found it.                                          *)
(*                                                                         *)
(* The code of an instruction is put together from pieces whose lengths    *)
(* depend on the registers, the immediate and the literals placed before;  *)
(* Bytes adds them up with a fold.  The first part proves what is needed   *)
(* of that fold (its sum exists, it is a number, and the sum of two pieces *)
(* of code is that of both, lemma Joins), from the least element of a set  *)
(* of numbers.  Then each compiler's handlers are bounded, one lemma per   *)
(* piece they share; then the bound is an invariant of the generation.     *)
(*                                                                         *)
(* The second part, from "A run of the machine" on, executes the code: a   *)
(* run is one Step after the other, a step changes no register but those   *)
(* its instruction writes, and a branch forward stays within the piece of  *)
(* code it is in.  Then, once more one lemma per handler, the pieces write *)
(* the registers the code around the program leaves free and no other;     *)
(* last, so it is in every state of a run.                                 *)
(***************************************************************************)
EXTENDS CompiledCode, TLAPS, WellFoundedInduction, SequenceTheorems

\* The order of the numbers is well-founded: every set of them has a least one.
Less == {p \in Nat \X Nat : p[1] < p[2]}

LEMMA Least ==
    ASSUME NEW S \in SUBSET Nat, S # {}
    PROVE  \E n \in S : \A k \in S : n <= k
<1>1. OpToRel(<, Nat) = Less
  BY DEF OpToRel, Less
<1>2. PICK n \in S : \A k \in S : <<k, n>> \notin Less
  BY <1>1, NatLessThanWellFounded, WFMin
<1>3. ASSUME NEW k \in S PROVE n <= k
  <2>1. ~(k < n)
    BY <1>2 DEF Less
  <2>2. QED
    BY <2>1
<1>4. QED
  BY <1>2, <1>3

\* A set of numbers that has zero and with each number the next one has them all.
LEMMA Inductive ==
    ASSUME NEW S, 0 \in S, \A n \in Nat : n \in S => n + 1 \in S
    PROVE  Nat \subseteq S
<1>1. SUFFICES ASSUME Nat \ S # {} PROVE FALSE
  OBVIOUS
<1>2. PICK n \in Nat \ S : \A k \in Nat \ S : n <= k
  BY <1>1, Least
<1>3. n # 0 /\ n - 1 \in Nat /\ (n - 1) + 1 = n
  BY <1>2
<1>4. n - 1 \notin S
  BY <1>3
<1>5. n - 1 \in Nat \ S /\ ~(n <= n - 1)
  BY <1>3, <1>4
<1> QED
  BY <1>2, <1>5

-----------------------------------------------------------------------------
(* The length of code.                                                     *)

\* Code: a sequence of machine instructions whose lengths are numbers.
IsCode(ops) == (\E S : ops \in Seq(S)) /\ \A k \in 1 .. Len(ops) : ops[k][5] \in Nat

\* What the fold that Bytes is defined by computes, for all parts of the code at once.
IsSum(f, ops, n) ==
    f = [s \in SUBSET (1 .. n) |-> IF s = {} THEN 0 ELSE f[s \ {Largest(s)}] + ops[Largest(s)][5]]

\* The highest of the numbers up to n + 1 is n + 1 or one of those up to n.
LEMMA Highest ==
    ASSUME NEW n \in Nat, NEW s \in SUBSET (1 .. n + 1), n + 1 \in s
    PROVE  Largest(s) = n + 1
<1>1. \A y \in s : n + 1 >= y
  OBVIOUS
<1>2. \A x \in s : (\A y \in s : x >= y) => x = n + 1
  <2> SUFFICES ASSUME NEW x \in s, \A y \in s : x >= y PROVE x = n + 1
    OBVIOUS
  <2>1. x >= n + 1 /\ x \in 1 .. n + 1
    OBVIOUS
  <2> QED
    BY <2>1
<1>3. Largest(s) \in s /\ \A y \in s : Largest(s) >= y
  BY <1>1 DEF Largest
<1> QED
  BY <1>2, <1>3

\* The numbers up to k without k, of those up to n.
LEMMA Initials ==
    ASSUME NEW n \in Nat, NEW k \in 1 .. n
    PROVE  1 .. k \in SUBSET (1 .. n) /\ 1 .. k # {} /\ (1 .. k) \ {k} = 1 .. k - 1
<1>1. 1 .. k \in SUBSET (1 .. n) /\ 1 .. k # {}
  OBVIOUS
<1>2. \A x \in 1 .. k : x # k => x \in 1 .. k - 1
  OBVIOUS
<1>3. \A x \in 1 .. k - 1 : x \in 1 .. k /\ x # k
  OBVIOUS
<1>4. (1 .. k) \ {k} \subseteq 1 .. k - 1
  BY <1>2
<1>5. 1 .. k - 1 \subseteq (1 .. k) \ {k}
  BY <1>3
<1> QED
  BY <1>1, <1>4, <1>5

LEMMA SumsExist == \A ops : \A n \in Nat : \E f : IsSum(f, ops, n)
<1> SUFFICES ASSUME NEW ops PROVE \A n \in Nat : \E f : IsSum(f, ops, n)
  OBVIOUS
<1> DEFINE S == {n \in Nat : \E f : IsSum(f, ops, n)}
<1>1. 0 \in S
  <2>1. PICK f : f = [s \in SUBSET (1 .. 0) |-> 0]
    OBVIOUS
  <2>2. f = [s \in SUBSET (1 .. 0) |->
                IF s = {} THEN 0 ELSE f[s \ {Largest(s)}] + ops[Largest(s)][5]]
    BY <2>1
  <2>3. IsSum(f, ops, 0)
    BY <2>2 DEF IsSum
  <2> QED
    BY <2>3
<1>2. ASSUME NEW n \in Nat, n \in S PROVE n + 1 \in S
  <2>1. PICK f : IsSum(f, ops, n)
    BY <1>2
  <2>2. PICK g : g = [s \in SUBSET (1 .. n + 1) |->
                         IF n + 1 \in s THEN f[s \ {n + 1}] + ops[n + 1][5] ELSE f[s]]
    OBVIOUS
  <2>3. ASSUME NEW s \in SUBSET (1 .. n + 1)
        PROVE  g[s] = IF s = {} THEN 0 ELSE g[s \ {Largest(s)}] + ops[Largest(s)][5]
    <3>1. CASE n + 1 \in s
      <4>1. Largest(s) = n + 1
        BY <3>1, Highest
      <4>2. s \ {n + 1} \in SUBSET (1 .. n + 1) /\ n + 1 \notin s \ {n + 1}
        OBVIOUS
      <4>3. g[s \ {n + 1}] = f[s \ {n + 1}]
        BY <2>2, <4>2
      <4> QED
        BY <2>2, <3>1, <4>1, <4>3
    <3>2. CASE n + 1 \notin s /\ s # {}
      <4>1. s \in SUBSET (1 .. n)
        BY <3>2
      <4>2. s \ {Largest(s)} \in SUBSET (1 .. n + 1) /\ n + 1 \notin s \ {Largest(s)}
        BY <3>2
      <4>3. g[s \ {Largest(s)}] = f[s \ {Largest(s)}]
        BY <2>2, <4>2
      <4>4. f[s] = f[s \ {Largest(s)}] + ops[Largest(s)][5]
        BY <2>1, <3>2, <4>1 DEF IsSum
      <4> QED
        BY <2>2, <3>2, <4>3, <4>4
    <3>3. CASE s = {}
      <4>1. f[{}] = 0
        BY <2>1 DEF IsSum
      <4> QED
        BY <2>2, <3>3, <4>1
    <3> QED
      BY <3>1, <3>2, <3>3
  <2>4. g = [s \in SUBSET (1 .. n + 1) |->
                IF s = {} THEN 0 ELSE g[s \ {Largest(s)}] + ops[Largest(s)][5]]
    <3>1. g = [s \in SUBSET (1 .. n + 1) |-> g[s]]
      BY <2>2
    <3> QED
      BY <2>3, <3>1
  <2>5. IsSum(g, ops, n + 1)
    BY <2>4 DEF IsSum
  <2> QED
    BY <2>5
<1>3. Nat \subseteq S
  <2> HIDE DEF S
  <2> QED
    BY <1>1, <1>2, Inductive
<1> QED
  BY <1>3

\* Bytes adds the lengths up, one instruction after the other.
LEMMA BytesAreSums ==
    ASSUME NEW ops, IsCode(ops)
    PROVE  \E f : /\ f[0] = 0
                  /\ \A k \in 1 .. Len(ops) : f[k] = f[k - 1] + ops[k][5]
                  /\ Bytes(ops) = f[Len(ops)]
<1> DEFINE S == DOMAIN ops
           g == CHOOSE f : f = [s \in SUBSET S |->
                                   IF s = {} THEN 0 ELSE f[s \ {Largest(s)}] + ops[Largest(s)][5]]
<1>1. Bytes(ops) = g[S]
  BY DEF Bytes, FoldLeft, MapThenFoldSet
<1>2. Len(ops) \in Nat /\ S = 1 .. Len(ops)
  BY DEF IsCode
<1>3. \E f : f = [s \in SUBSET S |-> IF s = {} THEN 0 ELSE f[s \ {Largest(s)}] + ops[Largest(s)][5]]
  <2>1. PICK f : IsSum(f, ops, Len(ops))
    BY <1>2, SumsExist
  <2>2. f = [s \in SUBSET S |-> IF s = {} THEN 0 ELSE f[s \ {Largest(s)}] + ops[Largest(s)][5]]
    BY <1>2, <2>1 DEF IsSum
  <2> QED
    BY <2>2
<1>4. g = [s \in SUBSET S |-> IF s = {} THEN 0 ELSE g[s \ {Largest(s)}] + ops[Largest(s)][5]]
  BY <1>3
<1> HIDE DEF g
<1>5. PICK f : f = [k \in 0 .. Len(ops) |-> g[1 .. k]]
  OBVIOUS
<1>6. f[0] = 0
  <2>1. 0 \in 0 .. Len(ops) /\ 1 .. 0 = {} /\ {} \in SUBSET S
    BY <1>2
  <2>2. g[{}] = 0
    BY <1>4, <2>1
  <2> QED
    BY <1>5, <2>1, <2>2
<1>7. ASSUME NEW k \in 1 .. Len(ops) PROVE f[k] = f[k - 1] + ops[k][5]
  <2>1. k - 1 \in Nat /\ k - 1 \in 0 .. Len(ops) /\ k \in 0 .. Len(ops) /\ (k - 1) + 1 = k
    BY <1>2
  <2>2. 1 .. k \in SUBSET S /\ 1 .. k # {} /\ (1 .. k) \ {k} = 1 .. k - 1
    BY <1>2, <2>1, Initials
  <2>3. Largest(1 .. k) = k
    BY <2>1, <2>2, Highest
  <2>4. g[1 .. k] = g[1 .. k - 1] + ops[k][5]
    BY <1>4, <2>2, <2>3
  <2> QED
    BY <1>5, <2>1, <2>4
<1>8. Bytes(ops) = f[Len(ops)]
  BY <1>1, <1>2, <1>5
<1> QED
  BY <1>6, <1>7, <1>8

LEMMA Empty == IsCode(<<>>) /\ Bytes(<<>>) = 0
<1>1. IsCode(<<>>)
  <2>1. <<>> \in Seq({}) /\ Len(<<>>) = 0
    OBVIOUS
  <2> QED
    BY <2>1 DEF IsCode
<1>2. PICK f : f[0] = 0 /\ Bytes(<<>>) = f[Len(<<>>)]
  BY <1>1, BytesAreSums
<1> QED
  BY <1>1, <1>2

\* Lengths are numbers, of all parts that start where the code does.
LEMMA SumsAreNumbers ==
    ASSUME NEW ops, NEW n \in Nat, NEW f, f[0] = 0,
           \A k \in 1 .. n : ops[k][5] \in Nat /\ f[k] = f[k - 1] + ops[k][5]
    PROVE  \A k \in 0 .. n : f[k] \in Nat
<1> DEFINE S == {k \in Nat : k <= n => f[k] \in Nat}
<1>1. 0 \in S
  OBVIOUS
<1>2. ASSUME NEW k \in Nat, k \in S PROVE k + 1 \in S
  <2> SUFFICES ASSUME k + 1 <= n PROVE f[k + 1] \in Nat
    OBVIOUS
  <2>1. k + 1 \in 1 .. n /\ (k + 1) - 1 = k /\ f[k] \in Nat
    BY <1>2
  <2>2. f[k + 1] = f[k] + ops[k + 1][5] /\ ops[k + 1][5] \in Nat
    BY <2>1
  <2> QED
    BY <2>1, <2>2
<1>3. Nat \subseteq S
  <2> HIDE DEF S
  <2> QED
    BY <1>1, <1>2, Inductive
<1> QED
  BY <1>3

LEMMA Numbers == ASSUME NEW ops, IsCode(ops) PROVE Bytes(ops) \in Nat
<1>1. PICK f : /\ f[0] = 0
               /\ \A k \in 1 .. Len(ops) : f[k] = f[k - 1] + ops[k][5]
               /\ Bytes(ops) = f[Len(ops)]
  BY BytesAreSums
<1>2. Len(ops) \in Nat /\ \A k \in 1 .. Len(ops) : ops[k][5] \in Nat
  BY DEF IsCode
<1>3. \A k \in 0 .. Len(ops) : f[k] \in Nat
  BY <1>1, <1>2, SumsAreNumbers
<1> QED
  BY <1>1, <1>2, <1>3

\* Two pieces of code one after the other are as long as both together.
LEMMA Joins ==
    ASSUME NEW s, NEW t, IsCode(s), IsCode(t)
    PROVE  IsCode(s \o t) /\ Bytes(s \o t) = Bytes(s) + Bytes(t)
<1>1. PICK A, B : s \in Seq(A) /\ t \in Seq(B)
  BY DEF IsCode
<1>2. PICK C : C = A \cup B
  OBVIOUS
<1>3. s \in Seq(C) /\ t \in Seq(C)
  BY <1>1, <1>2
<1>4. PICK a, b : a = Len(s) /\ b = Len(t)
  OBVIOUS
<1>5. a \in Nat /\ b \in Nat
  BY <1>3, <1>4
<1>6. PICK u : u = s \o t
  OBVIOUS
<1>7. /\ u \in Seq(C) /\ Len(u) = a + b
      /\ \A k \in 1 .. a : u[k] = s[k]
      /\ \A k \in 1 .. b : u[a + k] = t[k]
  <2>1. u \in Seq(C) /\ Len(u) = a + b
    BY <1>3, <1>4, <1>6
  <2>2. \A k \in 1 .. a + b : u[k] = IF k <= a THEN s[k] ELSE t[k - a]
    BY <1>3, <1>4, <1>6
  <2>3. ASSUME NEW k \in 1 .. a PROVE u[k] = s[k]
    BY <1>5, <2>2
  <2>4. ASSUME NEW k \in 1 .. b PROVE u[a + k] = t[k]
    <3>1. a + k \in 1 .. a + b /\ ~(a + k <= a) /\ (a + k) - a = k
      BY <1>5
    <3> QED
      BY <2>2, <3>1
  <2> QED
    BY <2>1, <2>3, <2>4
<1>8. ASSUME NEW k \in 1 .. a + b PROVE u[k][5] \in Nat
  <2>1. CASE k <= a
    BY <1>4, <1>5, <1>7, <2>1 DEF IsCode
  <2>2. CASE ~(k <= a)
    <3>1. k - a \in 1 .. b /\ a + (k - a) = k
      BY <1>5, <2>2
    <3>2. u[k] = t[k - a]
      BY <1>7, <3>1
    <3> QED
      BY <1>4, <3>1, <3>2 DEF IsCode
  <2> QED
    BY <2>1, <2>2
<1>9. IsCode(u)
  BY <1>7, <1>8 DEF IsCode
<1>10. PICK f : f[0] = 0 /\ (\A k \in 1 .. a : f[k] = f[k - 1] + s[k][5]) /\ Bytes(s) = f[a]
  BY <1>4, BytesAreSums
<1>11. PICK g : g[0] = 0 /\ (\A k \in 1 .. b : g[k] = g[k - 1] + t[k][5]) /\ Bytes(t) = g[b]
  BY <1>4, BytesAreSums
<1>12. PICK h : h[0] = 0 /\ (\A k \in 1 .. a + b : h[k] = h[k - 1] + u[k][5]) /\ Bytes(u) = h[a + b]
  BY <1>7, <1>9, BytesAreSums
<1>13. \A k \in Nat : k <= a => h[k] = f[k]
  <2> DEFINE S == {k \in Nat : k <= a => h[k] = f[k]}
  <2>1. 0 \in S
    BY <1>10, <1>12
  <2>2. ASSUME NEW k \in Nat, k \in S PROVE k + 1 \in S
    <3> SUFFICES ASSUME k + 1 <= a PROVE h[k + 1] = f[k + 1]
      OBVIOUS
    <3>1. k + 1 \in 1 .. a /\ k + 1 \in 1 .. a + b /\ (k + 1) - 1 = k /\ h[k] = f[k]
      BY <1>5, <2>2
    <3> QED
      BY <1>7, <1>10, <1>12, <3>1
  <2>3. Nat \subseteq S
    <3> HIDE DEF S
    <3> QED
      BY <2>1, <2>2, Inductive
  <2> QED
    BY <2>3
<1>14. \A k \in 0 .. b : g[k] \in Nat
  <2>1. \A k \in 1 .. b : t[k][5] \in Nat
    BY <1>4 DEF IsCode
  <2> QED
    BY <1>5, <1>11, <2>1, SumsAreNumbers
<1>15. Bytes(s) \in Nat /\ f[a] \in Nat
  BY <1>10, Numbers
<1>16. \A k \in Nat : k <= b => h[a + k] = f[a] + g[k]
  <2> DEFINE S == {k \in Nat : k <= b => h[a + k] = f[a] + g[k]}
  <2>1. 0 \in S
    BY <1>5, <1>11, <1>13, <1>15
  <2>2. ASSUME NEW k \in Nat, k \in S PROVE k + 1 \in S
    <3> SUFFICES ASSUME k + 1 <= b PROVE h[a + (k + 1)] = f[a] + g[k + 1]
      OBVIOUS
    <3>1. PICK l : l = a + k
      OBVIOUS
    <3>2. /\ k + 1 \in 1 .. b /\ l + 1 \in 1 .. a + b /\ (k + 1) - 1 = k /\ (l + 1) - 1 = l
          /\ a + (k + 1) = l + 1 /\ k \in 0 .. b
      BY <1>5, <3>1
    <3>3. h[l] = f[a] + g[k]
      BY <2>2, <3>1, <3>2
    <3>4. h[l + 1] = h[l] + u[l + 1][5] /\ g[k + 1] = g[k] + t[k + 1][5]
      BY <1>11, <1>12, <3>2
    <3>5. u[l + 1] = t[k + 1]
      BY <1>7, <3>2
    <3>6. g[k] \in Nat /\ t[k + 1][5] \in Nat
      BY <1>4, <1>14, <3>2 DEF IsCode
    <3> QED
      BY <1>15, <3>2, <3>3, <3>4, <3>5, <3>6
  <2>3. Nat \subseteq S
    <3> HIDE DEF S
    <3> QED
      BY <2>1, <2>2, Inductive
  <2> QED
    BY <2>3
<1> QED
  BY <1>5, <1>6, <1>9, <1>10, <1>11, <1>12, <1>16

\* Code given instruction by instruction is as long as they are together.
LEMMA One ==
    ASSUME NEW u1,
           u1[5] \in Nat
    PROVE  IsCode(<<u1>>) /\ Bytes(<<u1>>) = u1[5]
<1>1. PICK s : s = <<u1>>
  OBVIOUS
<1>2. /\ s \in Seq({u1}) /\ Len(s) = 1
      /\ s[1] = u1
  BY <1>1
<1>3. IsCode(s)
  BY <1>2 DEF IsCode
<1>4. PICK f : /\ f[0] = 0 /\ (\A k \in 1 .. Len(s) : f[k] = f[k - 1] + s[k][5])
               /\ Bytes(s) = f[Len(s)]
  BY <1>3, BytesAreSums
<1>5. f[1] = f[0] + u1[5]
  BY <1>2, <1>4
<1> QED
  BY <1>1, <1>2, <1>3, <1>4, <1>5

LEMMA Two ==
    ASSUME NEW u1, NEW u2,
           u1[5] \in Nat, u2[5] \in Nat
    PROVE  IsCode(<<u1, u2>>) /\ Bytes(<<u1, u2>>) = u1[5] + u2[5]
<1>1. PICK s : s = <<u1, u2>>
  OBVIOUS
<1>2. /\ s \in Seq({u1, u2}) /\ Len(s) = 2
      /\ s[1] = u1 /\ s[2] = u2
  BY <1>1
<1>3. IsCode(s)
  BY <1>2 DEF IsCode
<1>4. PICK f : /\ f[0] = 0 /\ (\A k \in 1 .. Len(s) : f[k] = f[k - 1] + s[k][5])
               /\ Bytes(s) = f[Len(s)]
  BY <1>3, BytesAreSums
<1>5. f[1] = f[0] + u1[5] /\ f[2] = f[1] + u2[5]
  BY <1>2, <1>4
<1> QED
  BY <1>1, <1>2, <1>3, <1>4, <1>5

LEMMA Three ==
    ASSUME NEW u1, NEW u2, NEW u3,
           u1[5] \in Nat, u2[5] \in Nat, u3[5] \in Nat
    PROVE  IsCode(<<u1, u2, u3>>) /\ Bytes(<<u1, u2, u3>>) = u1[5] + u2[5] + u3[5]
<1>1. PICK s : s = <<u1, u2, u3>>
  OBVIOUS
<1>2. /\ s \in Seq({u1, u2, u3}) /\ Len(s) = 3
      /\ s[1] = u1 /\ s[2] = u2 /\ s[3] = u3
  BY <1>1
<1>3. IsCode(s)
  BY <1>2 DEF IsCode
<1>4. PICK f : /\ f[0] = 0 /\ (\A k \in 1 .. Len(s) : f[k] = f[k - 1] + s[k][5])
               /\ Bytes(s) = f[Len(s)]
  BY <1>3, BytesAreSums
<1>5. f[1] = f[0] + u1[5] /\ f[2] = f[1] + u2[5] /\ f[3] = f[2] + u3[5]
  BY <1>2, <1>4
<1> QED
  BY <1>1, <1>2, <1>3, <1>4, <1>5

LEMMA Four ==
    ASSUME NEW u1, NEW u2, NEW u3, NEW u4,
           u1[5] \in Nat, u2[5] \in Nat, u3[5] \in Nat, u4[5] \in Nat
    PROVE  IsCode(<<u1, u2, u3, u4>>) /\ Bytes(<<u1, u2, u3, u4>>) = u1[5] + u2[5] + u3[5] + u4[5]
<1>1. PICK s : s = <<u1, u2, u3, u4>>
  OBVIOUS
<1>2. /\ s \in Seq({u1, u2, u3, u4}) /\ Len(s) = 4
      /\ s[1] = u1 /\ s[2] = u2 /\ s[3] = u3 /\ s[4] = u4
  BY <1>1
<1>3. IsCode(s)
  BY <1>2 DEF IsCode
<1>4. PICK f : /\ f[0] = 0 /\ (\A k \in 1 .. Len(s) : f[k] = f[k - 1] + s[k][5])
               /\ Bytes(s) = f[Len(s)]
  BY <1>3, BytesAreSums
<1>5. f[1] = f[0] + u1[5] /\ f[2] = f[1] + u2[5] /\ f[3] = f[2] + u3[5] /\
      f[4] = f[3] + u4[5]
  BY <1>2, <1>4
<1> QED
  BY <1>1, <1>2, <1>3, <1>4, <1>5

LEMMA Five ==
    ASSUME NEW u1, NEW u2, NEW u3, NEW u4, NEW u5,
           u1[5] \in Nat, u2[5] \in Nat, u3[5] \in Nat, u4[5] \in Nat, u5[5] \in Nat
    PROVE  /\ IsCode(<<u1, u2, u3, u4, u5>>)
           /\ Bytes(<<u1, u2, u3, u4, u5>>) = u1[5] + u2[5] + u3[5] + u4[5] + u5[5]
<1>1. PICK s : s = <<u1, u2, u3, u4, u5>>
  OBVIOUS
<1>2. /\ s \in Seq({u1, u2, u3, u4, u5}) /\ Len(s) = 5
      /\ s[1] = u1 /\ s[2] = u2 /\ s[3] = u3 /\ s[4] = u4 /\ s[5] = u5
  BY <1>1
<1>3. IsCode(s)
  BY <1>2 DEF IsCode
<1>4. PICK f : /\ f[0] = 0 /\ (\A k \in 1 .. Len(s) : f[k] = f[k - 1] + s[k][5])
               /\ Bytes(s) = f[Len(s)]
  BY <1>3, BytesAreSums
<1>5. f[1] = f[0] + u1[5] /\ f[2] = f[1] + u2[5] /\ f[3] = f[2] + u3[5] /\
      f[4] = f[3] + u4[5] /\ f[5] = f[4] + u5[5]
  BY <1>2, <1>4
<1> QED
  BY <1>1, <1>2, <1>3, <1>4, <1>5

LEMMA Six ==
    ASSUME NEW u1, NEW u2, NEW u3, NEW u4, NEW u5, NEW u6,
           u1[5] \in Nat, u2[5] \in Nat, u3[5] \in Nat, u4[5] \in Nat, u5[5] \in Nat,
           u6[5] \in Nat
    PROVE  /\ IsCode(<<u1, u2, u3, u4, u5, u6>>)
           /\ Bytes(<<u1, u2, u3, u4, u5, u6>>) =
                u1[5] + u2[5] + u3[5] + u4[5] + u5[5] + u6[5]
<1>1. PICK s : s = <<u1, u2, u3, u4, u5, u6>>
  OBVIOUS
<1>2. /\ s \in Seq({u1, u2, u3, u4, u5, u6}) /\ Len(s) = 6
      /\ s[1] = u1 /\ s[2] = u2 /\ s[3] = u3 /\ s[4] = u4 /\ s[5] = u5 /\ s[6] = u6
  BY <1>1
<1>3. IsCode(s)
  <2>1. PICK U : U = {u1, u2, u3, u4, u5, u6}
    OBVIOUS
  <2>2. s \in Seq(U) /\ \A u \in U : u[5] \in Nat
    BY <1>2, <2>1
  <2>3. \A k \in 1 .. Len(s) : s[k] \in U
    BY <2>2
  <2> QED
    BY <2>2, <2>3 DEF IsCode
<1>4. PICK f : /\ f[0] = 0 /\ (\A k \in 1 .. Len(s) : f[k] = f[k - 1] + s[k][5])
               /\ Bytes(s) = f[Len(s)]
  BY <1>3, BytesAreSums
<1>5. f[1] = f[0] + u1[5] /\ f[2] = f[1] + u2[5] /\ f[3] = f[2] + u3[5] /\
      f[4] = f[3] + u4[5] /\ f[5] = f[4] + u5[5] /\ f[6] = f[5] + u6[5]
  BY <1>2, <1>4
<1> QED
  BY <1>1, <1>2, <1>3, <1>4, <1>5

LEMMA Seven ==
    ASSUME NEW u1, NEW u2, NEW u3, NEW u4, NEW u5, NEW u6, NEW u7,
           u1[5] \in Nat, u2[5] \in Nat, u3[5] \in Nat, u4[5] \in Nat, u5[5] \in Nat,
           u6[5] \in Nat, u7[5] \in Nat
    PROVE  /\ IsCode(<<u1, u2, u3, u4, u5, u6, u7>>)
           /\ Bytes(<<u1, u2, u3, u4, u5, u6, u7>>) =
                u1[5] + u2[5] + u3[5] + u4[5] + u5[5] + u6[5] + u7[5]
<1>1. PICK s : s = <<u1, u2, u3, u4, u5, u6, u7>>
  OBVIOUS
<1>2. /\ s \in Seq({u1, u2, u3, u4, u5, u6, u7}) /\ Len(s) = 7
      /\ s[1] = u1 /\ s[2] = u2 /\ s[3] = u3 /\ s[4] = u4 /\ s[5] = u5 /\ s[6] = u6 /\
         s[7] = u7
  BY <1>1
<1>3. IsCode(s)
  <2>1. PICK U : U = {u1, u2, u3, u4, u5, u6, u7}
    OBVIOUS
  <2>2. s \in Seq(U) /\ \A u \in U : u[5] \in Nat
    BY <1>2, <2>1
  <2>3. \A k \in 1 .. Len(s) : s[k] \in U
    BY <2>2
  <2> QED
    BY <2>2, <2>3 DEF IsCode
<1>4. PICK f : /\ f[0] = 0 /\ (\A k \in 1 .. Len(s) : f[k] = f[k - 1] + s[k][5])
               /\ Bytes(s) = f[Len(s)]
  BY <1>3, BytesAreSums
<1>5. f[1] = f[0] + u1[5] /\ f[2] = f[1] + u2[5] /\ f[3] = f[2] + u3[5] /\
      f[4] = f[3] + u4[5] /\ f[5] = f[4] + u5[5] /\ f[6] = f[5] + u6[5] /\
      f[7] = f[6] + u7[5]
  BY <1>2, <1>4
<1> QED
  BY <1>1, <1>2, <1>3, <1>4, <1>5

LEMMA Eight ==
    ASSUME NEW u1, NEW u2, NEW u3, NEW u4, NEW u5, NEW u6, NEW u7, NEW u8,
           u1[5] \in Nat, u2[5] \in Nat, u3[5] \in Nat, u4[5] \in Nat, u5[5] \in Nat,
           u6[5] \in Nat, u7[5] \in Nat, u8[5] \in Nat
    PROVE  /\ IsCode(<<u1, u2, u3, u4, u5, u6, u7, u8>>)
           /\ Bytes(<<u1, u2, u3, u4, u5, u6, u7, u8>>) =
                u1[5] + u2[5] + u3[5] + u4[5] + u5[5] + u6[5] + u7[5] + u8[5]
<1>1. PICK s : s = <<u1, u2, u3, u4, u5, u6, u7, u8>>
  OBVIOUS
<1>2. /\ s \in Seq({u1, u2, u3, u4, u5, u6, u7, u8}) /\ Len(s) = 8
      /\ s[1] = u1 /\ s[2] = u2 /\ s[3] = u3 /\ s[4] = u4 /\ s[5] = u5 /\ s[6] = u6 /\
         s[7] = u7 /\ s[8] = u8
  BY <1>1
<1>3. IsCode(s)
  <2>1. PICK U : U = {u1, u2, u3, u4, u5, u6, u7, u8}
    OBVIOUS
  <2>2. s \in Seq(U) /\ \A u \in U : u[5] \in Nat
    BY <1>2, <2>1
  <2>3. \A k \in 1 .. Len(s) : s[k] \in U
    BY <2>2
  <2> QED
    BY <2>2, <2>3 DEF IsCode
<1>4. PICK f : /\ f[0] = 0 /\ (\A k \in 1 .. Len(s) : f[k] = f[k - 1] + s[k][5])
               /\ Bytes(s) = f[Len(s)]
  BY <1>3, BytesAreSums
<1>5. f[1] = f[0] + u1[5] /\ f[2] = f[1] + u2[5] /\ f[3] = f[2] + u3[5] /\
      f[4] = f[3] + u4[5] /\ f[5] = f[4] + u5[5] /\ f[6] = f[5] + u6[5] /\
      f[7] = f[6] + u7[5] /\ f[8] = f[7] + u8[5]
  BY <1>2, <1>4
<1> QED
  BY <1>1, <1>2, <1>3, <1>4, <1>5

-----------------------------------------------------------------------------
(* The compilers' states.                                                  *)

Fits(ops, n) == IsCode(ops) /\ Bytes(ops) <= n
\* A state that holds code, and one that has at most n bytes more than before.
Holding(s) == "ops" \in DOMAIN s /\ IsCode(s.ops)
Grown(s, t, n) == Holding(t) /\ Bytes(t.ops) <= Bytes(s.ops) + n

\* Emit appends code.
LEMMA EmitAdds ==
    ASSUME NEW s, NEW ops, Holding(s), IsCode(ops)
    PROVE  /\ Holding(Emit(s, ops))
           /\ Bytes(Emit(s, ops).ops) = Bytes(s.ops) + Bytes(ops)
  BY Joins DEF Emit, Holding

-----------------------------------------------------------------------------
(* The compiler for ARM64 and its assembly template.                       *)

\* A literal from a vector register is one instruction of four bytes.
LEMMA A64Lane ==
    ASSUME NEW s, NEW dst, NEW imm, Holding(s)
    PROVE  /\ Holding(A64!LiteralLane(s, dst, imm))
           /\ Bytes(A64!LiteralLane(s, dst, imm).ops) = Bytes(s.ops) + 4
<1>1. PICK ops : ops = A64!A(IF A64!Negative(imm, ImmBits) THEN "sext" ELSE "zext", dst,
                               A64!NextLane(s), 0)
  OBVIOUS
<1>2. IsCode(ops) /\ Bytes(ops) = 4
  BY <1>1, One DEF A64!A, A64!I
<1>3. PICK t : t = Emit(s, ops)
  OBVIOUS
<1>4. Holding(t) /\ Bytes(t.ops) = Bytes(s.ops) + 4
  BY <1>2, <1>3, EmitAdds
<1>5. A64!LiteralLane(s, dst, imm) =
        [t EXCEPT !.literals = [k \in {A64!NextLane(s)} \cup DOMAIN @ |->
                                  IF k = A64!NextLane(s) THEN imm ELSE @[k]],
                  !.num32bitLiterals = @ + 1]
  BY <1>1, <1>3 DEF A64!LiteralLane, A64!Emit, Emit
<1> QED
  BY <1>4, <1>5 DEF Holding

\* emitMovImmediate: two instructions, or a literal.
LEMMA A64Mov ==
    ASSUME NEW s, NEW dst, NEW imm, Holding(s)
    PROVE  /\ Holding(A64!emitMovImmediate(s, dst, imm))
           /\ Bytes(A64!emitMovImmediate(s, dst, imm).ops) <= Bytes(s.ops) + 8
  BY One, Joins, EmitAdds, A64Lane, Numbers
     DEF A64!emitMovImmediate, A64!A, A64!I, A64!Emit, Emit, Holding

\* emitAddImmediate: two additions, or the value in a register and an addition.
LEMMA A64Add ==
    ASSUME NEW s, NEW dst, NEW src, NEW imm, Holding(s)
    PROVE  /\ Holding(A64!emitAddImmediate(s, dst, src, imm))
           /\ Bytes(A64!emitAddImmediate(s, dst, src, imm).ops) <= Bytes(s.ops) + 12
  BY One, Joins, EmitAdds, A64Mov, Numbers
     DEF A64!emitAddImmediate, A64!A, A64!I, A64!Emit, Emit, Holding

\* emitMemLoad and emitMemLoadFP.
LEMMA A64Load ==
    ASSUME NEW s, NEW isn, Holding(s)
    PROVE  Grown(s, A64!emitMemLoad(s, isn), 20)
  BY One, Joins, EmitAdds, A64Add, A64Mov, Numbers
     DEF Grown, A64!emitMemLoad, A64!A, A64!I, A64!Emit, Emit, Holding

LEMMA A64LoadFP ==
    ASSUME NEW s, NEW isn, Holding(s)
    PROVE  Grown(s, A64!emitMemLoadFP(s, isn), 36)
  BY One, Two, Joins, EmitAdds, A64Add, Numbers
     DEF Grown, A64!emitMemLoadFP, A64!A, A64!I, A64!Both, A64!Emit, Emit, Holding

\* Every handler of JitCompilerA64 emits 48 bytes at most.
LEMMA A64Handlers ==
    ASSUME NEW s, NEW isn, NEW v, Holding(s), isn.op \in InstructionType
    PROVE  Grown(s, A64!generateCode(s, isn, v), 48)
<1>1. Grown(s, A64!h_IADD_RS(s, isn), 48)
  <2>1. PICK op : op = <<"add", "add2", "add4", "add8">>[isn.modShift + 1]
    OBVIOUS
  <2>2. PICK t : t = A64!Emit(s, A64!Op3(op, isn, A64!IntRegMap(isn.src)))
    OBVIOUS
  <2>3. Holding(t) /\ Bytes(t.ops) = Bytes(s.ops) + 4
    <3>1. PICK ops : ops = A64!Op3(op, isn, A64!IntRegMap(isn.src))
      OBVIOUS
    <3>2. IsCode(ops) /\ Bytes(ops) = 4
      BY <3>1, One DEF A64!Op3, A64!A, A64!I
    <3> QED
      BY <2>2, <3>1, <3>2, EmitAdds DEF Emit, A64!Emit
  <2>4. A64!h_IADD_RS(s, isn) =
          IF isn.dst = 5
          THEN A64!emitAddImmediate(t, A64!IntRegMap(5), A64!IntRegMap(5), isn.imm) ELSE t
    BY <2>1, <2>2 DEF A64!h_IADD_RS
  <2> QED
    BY <2>3, <2>4, A64Add, Numbers DEF Grown, Holding
<1>2. Grown(s, A64!h_IADD_M(s, isn), 48)
  BY One, Two, Empty, Joins, EmitAdds, Numbers, A64Load
     DEF Grown, Holding, Emit, A64!h_IADD_M, A64!Op3, A64!A, A64!I, A64!Emit
<1>3. Grown(s, A64!h_ISUB_R(s, isn), 48)
  BY One, Two, Empty, Joins, EmitAdds, Numbers, A64Add
     DEF Grown, Holding, Emit, A64!h_ISUB_R, A64!Op3, A64!A, A64!I, A64!Emit
<1>4. Grown(s, A64!h_ISUB_M(s, isn), 48)
  BY One, Two, Empty, Joins, EmitAdds, Numbers, A64Load
     DEF Grown, Holding, Emit, A64!h_ISUB_M, A64!Op3, A64!A, A64!I, A64!Emit
<1>5. Grown(s, A64!h_IMUL_R(s, isn), 48)
  BY One, Two, Empty, Joins, EmitAdds, Numbers, A64Mov
     DEF Grown, Holding, Emit, A64!h_IMUL_R, A64!Op3, A64!A, A64!I, A64!Emit
<1>6. Grown(s, A64!h_IMUL_M(s, isn), 48)
  BY One, Two, Empty, Joins, EmitAdds, Numbers, A64Load
     DEF Grown, Holding, Emit, A64!h_IMUL_M, A64!Op3, A64!A, A64!I, A64!Emit
<1>7. Grown(s, A64!h_IMULH_R(s, isn), 48)
  BY One, Two, Empty, Joins, EmitAdds, Numbers
     DEF Grown, Holding, Emit, A64!h_IMULH_R, A64!Op3, A64!A, A64!I, A64!Emit
<1>8. Grown(s, A64!h_IMULH_M(s, isn), 48)
  BY One, Two, Empty, Joins, EmitAdds, Numbers, A64Load
     DEF Grown, Holding, Emit, A64!h_IMULH_M, A64!Op3, A64!A, A64!I, A64!Emit
<1>9. Grown(s, A64!h_ISMULH_R(s, isn), 48)
  BY One, Two, Empty, Joins, EmitAdds, Numbers
     DEF Grown, Holding, Emit, A64!h_ISMULH_R, A64!Op3, A64!A, A64!I, A64!Emit
<1>10. Grown(s, A64!h_ISMULH_M(s, isn), 48)
  BY One, Two, Empty, Joins, EmitAdds, Numbers, A64Load
     DEF Grown, Holding, Emit, A64!h_ISMULH_M, A64!Op3, A64!A, A64!I, A64!Emit
<1>11. Grown(s, A64!h_IMUL_RCP(s, isn), 48)
  BY One, Two, Empty, Joins, EmitAdds, Numbers
     DEF Grown, Holding, Emit, A64!h_IMUL_RCP, A64!Op3, A64!A, A64!I, A64!Emit, A64!WithLiteral
<1>12. Grown(s, A64!h_INEG_R(s, isn), 48)
  BY One, Two, Empty, Joins, EmitAdds, Numbers
     DEF Grown, Holding, Emit, A64!h_INEG_R, A64!A, A64!I, A64!Emit
<1>13. Grown(s, A64!h_IXOR_R(s, isn), 48)
  BY One, Two, Empty, Joins, EmitAdds, Numbers, A64Mov
     DEF Grown, Holding, Emit, A64!h_IXOR_R, A64!Op3, A64!A, A64!I, A64!Emit
<1>14. Grown(s, A64!h_IXOR_M(s, isn), 48)
  BY One, Two, Empty, Joins, EmitAdds, Numbers, A64Load
     DEF Grown, Holding, Emit, A64!h_IXOR_M, A64!Op3, A64!A, A64!I, A64!Emit
<1>15. Grown(s, A64!h_IROR_R(s, isn), 48)
  BY One, Two, Empty, Joins, EmitAdds, Numbers
     DEF Grown, Holding, Emit, A64!h_IROR_R, A64!Op3, A64!A, A64!I, A64!Emit
<1>16. Grown(s, A64!h_IROL_R(s, isn), 48)
  BY One, Two, Empty, Joins, EmitAdds, Numbers
     DEF Grown, Holding, Emit, A64!h_IROL_R, A64!A, A64!Op3, A64!I, A64!Emit
<1>17. Grown(s, A64!h_ISWAP_R(s, isn), 48)
  BY One, Two, Empty, Joins, EmitAdds, Numbers
     DEF Grown, Holding, Emit, A64!h_ISWAP_R, A64!A, A64!I, A64!Emit
<1>18. Grown(s, A64!h_FSWAP_R(s, isn), 48)
  BY One, Two, Empty, Joins, EmitAdds, Numbers
     DEF Grown, Holding, Emit, A64!h_FSWAP_R, A64!A, A64!I, A64!Emit
<1>19. Grown(s, A64!h_FADD_R(s, isn), 48)
  BY One, Two, Empty, Joins, EmitAdds, Numbers
     DEF Grown, Holding, Emit, A64!h_FADD_R, A64!Packed, A64!Both, A64!I, A64!Emit
<1>20. Grown(s, A64!h_FADD_M(s, isn), 48)
  BY One, Two, Empty, Joins, EmitAdds, Numbers, A64LoadFP
     DEF Grown, Holding, Emit, A64!h_FADD_M, A64!Packed, A64!Both, A64!I, A64!Emit
<1>21. Grown(s, A64!h_FSUB_R(s, isn), 48)
  BY One, Two, Empty, Joins, EmitAdds, Numbers
     DEF Grown, Holding, Emit, A64!h_FSUB_R, A64!Packed, A64!Both, A64!I, A64!Emit
<1>22. Grown(s, A64!h_FSUB_M(s, isn), 48)
  BY One, Two, Empty, Joins, EmitAdds, Numbers, A64LoadFP
     DEF Grown, Holding, Emit, A64!h_FSUB_M, A64!Packed, A64!Both, A64!I, A64!Emit
<1>23. Grown(s, A64!h_FSCAL_R(s, isn), 48)
  BY One, Two, Empty, Joins, EmitAdds, Numbers
     DEF Grown, Holding, Emit, A64!h_FSCAL_R, A64!Packed, A64!Both, A64!I, A64!Emit
<1>24. Grown(s, A64!h_FMUL_R(s, isn), 48)
  BY One, Two, Empty, Joins, EmitAdds, Numbers
     DEF Grown, Holding, Emit, A64!h_FMUL_R, A64!Packed, A64!Both, A64!I, A64!Emit
<1>25. Grown(s, A64!h_FDIV_M(s, isn), 48)
  BY One, Two, Empty, Joins, EmitAdds, Numbers, A64LoadFP
     DEF Grown, Holding, Emit, A64!h_FDIV_M, A64!I, A64!Packed, A64!Both, A64!Emit
<1>26. Grown(s, A64!h_FSQRT_R(s, isn), 48)
  BY One, Two, Empty, Joins, EmitAdds, Numbers
     DEF Grown, Holding, Emit, A64!h_FSQRT_R, A64!Packed, A64!Both, A64!I, A64!Emit
<1>27. Grown(s, A64!h_CBRANCH(s, isn), 48)
  BY One, Two, Empty, Joins, EmitAdds, Numbers, A64Add
     DEF Grown, Holding, Emit, A64!h_CBRANCH, A64!I, A64!Emit
<1>28. Grown(s, A64!h_CFROUND(s, isn, v), 48)
  <2>1. CASE v
    BY <2>1, One, Two, Joins, EmitAdds, Numbers
       DEF Grown, Holding, Emit, A64!h_CFROUND, A64!A, A64!I, A64!Emit
  <2>2. CASE ~v
    BY <2>2, One, Empty, Joins, EmitAdds, Numbers
       DEF Grown, Holding, Emit, A64!h_CFROUND, A64!A, A64!I, A64!Emit
  <2> QED
    BY <2>1, <2>2
<1>29. Grown(s, A64!h_ISTORE(s, isn), 48)
  BY One, Two, Empty, Joins, EmitAdds, Numbers, A64Add
     DEF Grown, Holding, Emit, A64!h_ISTORE, A64!A, A64!I, A64!Emit
<1>30. Grown(s, A64!h_NOP(s), 48)
  BY One, Two, Empty, Joins, EmitAdds, Numbers DEF Grown, Holding, Emit, A64!h_NOP, A64!Emit
<1> QED
  BY <1>1, <1>2, <1>3, <1>4, <1>5, <1>6, <1>7, <1>8, <1>9, <1>10, <1>11, <1>12, <1>13, <1>14, <1>15,
     <1>16, <1>17, <1>18, <1>19, <1>20, <1>21, <1>22, <1>23, <1>24, <1>25, <1>26, <1>27, <1>28,
     <1>29, <1>30
     DEF A64!generateCode, InstructionType

-----------------------------------------------------------------------------
(* The compiler for RISC-V, without and with the extensions Zba and Zbb.   *)

\* emitImm32, without them: lui, addiw and add.
LEMMA Rv64Imm32 ==
    ASSUME NEW imm, NEW dst, NEW src, NEW tmp
    PROVE  Fits(Rv64!emitImm32(imm, dst, src, tmp), 10)
  BY Empty, One, Joins DEF Fits, Rv64!emitImm32, Rv64!I

\* The addresses of operands.  genAddressReg takes 14 bytes at most, not the 12 its
\* comment in the source reckons with.
LEMMA Rv64Address ==
    ASSUME NEW isn
    PROVE  /\ Fits(Rv64!genAddressReg(isn), 14)
           /\ Fits(Rv64!genAddressRegDst(isn), 16)
           /\ Fits(Rv64!loadFromScratchpad(isn), 16)
           /\ IsCode(Rv64!LoadFloat(isn))
           /\ Bytes(Rv64!LoadFloat(isn)) = Bytes(Rv64!genAddressReg(isn)) + 12
<1>1. Fits(Rv64!genAddressReg(isn), 14)
  BY Rv64Imm32, Two, Joins, Numbers DEF Fits, Rv64!genAddressReg, Rv64!I
<1>2. Fits(Rv64!genAddressRegDst(isn), 16)
  BY Rv64Imm32, Two, Joins, Numbers DEF Fits, Rv64!genAddressRegDst, Rv64!I
<1>3. Fits(Rv64!loadFromScratchpad(isn), 16)
  BY <1>1, Rv64Imm32, One, Joins, Numbers
     DEF Fits, Rv64!loadFromScratchpad, Rv64!genAddressRegImm, Rv64!I
<1>4. /\ IsCode(Rv64!LoadFloat(isn))
      /\ Bytes(Rv64!LoadFloat(isn)) = Bytes(Rv64!genAddressReg(isn)) + 12
  BY <1>1, Four, Joins, Numbers DEF Fits, Rv64!LoadFloat, Rv64!I
<1> QED
  BY <1>1, <1>2, <1>3, <1>4

\* The handlers but those of FDIV_M and IMUL_RCP emit 56 bytes at most.
LEMMA Rv64Handlers ==
    ASSUME NEW isn, NEW v, isn.op \in InstructionType \ {"IMUL_RCP", "FDIV_M"}
    PROVE  Fits(Rv64!Handler(isn, v), 56)
<1>1. Fits(Rv64!h_IADD_RS(isn), 56)
  BY Empty, One, Joins, Rv64Imm32, Numbers DEF Fits, Rv64!h_IADD_RS, Rv64!Op3, Rv64!I
<1>2. /\ Fits(Rv64!h_ISUB_R(isn), 56)
      /\ Fits(Rv64!h_IMUL_R(isn), 56)
      /\ Fits(Rv64!h_IXOR_R(isn), 56)
      /\ Fits(Rv64!h_INEG_R(isn), 56)
  BY One, Joins, Rv64Imm32, Numbers
     DEF Fits, Rv64!h_ISUB_R, Rv64!Op3, Rv64!I, Rv64!h_IMUL_R, Rv64!h_IXOR_R, Rv64!h_INEG_R
<1>3. /\ Fits(Rv64!h_IADD_M(isn), 56)
      /\ Fits(Rv64!h_ISUB_M(isn), 56)
      /\ Fits(Rv64!h_IMUL_M(isn), 56)
      /\ Fits(Rv64!h_IXOR_M(isn), 56)
  BY One, Joins, Rv64Address, Numbers
     DEF Fits, Rv64!h_IADD_M, Rv64!Op3, Rv64!I, Rv64!h_ISUB_M, Rv64!h_IMUL_M, Rv64!h_IXOR_M
<1>4. /\ Fits(Rv64!h_IMULH_R(isn), 56)
      /\ Fits(Rv64!h_ISMULH_R(isn), 56)
  BY One, Joins DEF Fits, Rv64!h_IMULH_R, Rv64!Op3, Rv64!I, Rv64!h_ISMULH_R
<1>5. /\ Fits(Rv64!h_IMULH_M(isn), 56)
      /\ Fits(Rv64!h_ISMULH_M(isn), 56)
  BY One, Joins, Rv64Address, Numbers
     DEF Fits, Rv64!h_IMULH_M, Rv64!Op3, Rv64!I, Rv64!h_ISMULH_M
<1>6. /\ Fits(Rv64!h_IROR_R(isn), 56)
      /\ Fits(Rv64!h_IROL_R(isn), 56)
  BY One, Three, Four, Joins DEF Fits, Rv64!h_IROR_R, Rv64!Op3, Rv64!I, Rv64!h_IROL_R
<1>7. /\ Fits(Rv64!h_ISWAP_R(isn), 56)
      /\ Fits(Rv64!h_FSWAP_R(isn), 56)
      /\ Fits(Rv64!h_NOP, 56)
  BY Empty, Three, Joins DEF Fits, Rv64!h_ISWAP_R, Rv64!I, Rv64!h_FSWAP_R, Rv64!h_NOP
<1>8. /\ Fits(Rv64!h_FADD_R(isn), 56)
      /\ Fits(Rv64!h_FSUB_R(isn), 56)
      /\ Fits(Rv64!h_FSCAL_R(isn), 56)
      /\ Fits(Rv64!h_FMUL_R(isn), 56)
      /\ Fits(Rv64!h_FSQRT_R(isn), 56)
  BY Two, Six, Joins
     DEF Fits, Rv64!h_FADD_R, Rv64!FloatPair, Rv64!I, Rv64!h_FSUB_R, Rv64!h_FSCAL_R,
         Rv64!h_FMUL_R, Rv64!h_FSQRT_R
<1>9. /\ Fits(Rv64!h_FADD_M(isn), 56)
      /\ Fits(Rv64!h_FSUB_M(isn), 56)
  BY Two, Joins, Rv64Address, Numbers
     DEF Fits, Rv64!h_FADD_M, Rv64!FloatPair, Rv64!I, Rv64!h_FSUB_M
<1>10. Fits(Rv64!h_CBRANCH(isn), 56)
  BY Two, Joins, Rv64Imm32, Numbers DEF Fits, Rv64!h_CBRANCH, Rv64!I
<1>11. Fits(Rv64!h_CFROUND(isn, v), 56)
  BY Empty, One, Two, Three, Four, Joins DEF Fits, Rv64!h_CFROUND, Rv64!I
<1>12. Fits(Rv64!h_ISTORE(isn), 56)
  BY One, Joins, Rv64Address, Numbers DEF Fits, Rv64!h_ISTORE, Rv64!I
<1> QED
  BY <1>1, <1>2, <1>3, <1>4, <1>5, <1>6, <1>7, <1>8, <1>9, <1>10, <1>11, <1>12
     DEF Rv64!Handler, InstructionType

\* FDIV_M: 44 bytes behind the address of its operand.
LEMMA Rv64Division ==
    ASSUME NEW isn
    PROVE  /\ IsCode(Rv64!h_FDIV_M(isn))
           /\ Bytes(Rv64!h_FDIV_M(isn)) = Bytes(Rv64!genAddressReg(isn)) + 44
  BY Rv64Address, Two, Eight, Joins, Numbers DEF Fits, Rv64!h_FDIV_M, Rv64!FloatPair, Rv64!I

\* IMUL_RCP: the reciprocal is in a register or is loaded, and is written to the pool.
LEMMA Rv64Reciprocal ==
    ASSUME NEW s, NEW isn, Holding(s)
    PROVE  Grown(s, Rv64!h_IMUL_RCP(s, isn), 8)
<1> DEFINE mul == Rv64!Op3("mul", isn.dst, Rv64!regRcp(s.rcpCount), 4)
           load == <<IF s.rcpCount < 10
                     THEN Rv64!I("mov", Rv64!Tmp1Reg, Rv64!regRcpF(s.rcpCount), 0, 4)
                     ELSE Rv64!I("lit", Rv64!Tmp1Reg, Rv64!LiteralPoolReg,
                      Rv64!Imm(Rv64!SignedBits(Rv64!RcpLiteralsOffset + s.rcpCount * 8, 12)), 4)>>
           loaded == load \o Rv64!Op3("mul", isn.dst, Rv64!Tmp1Reg, 4)
<1>1. IsCode(mul) /\ Bytes(mul) = 4
  BY One DEF Rv64!Op3, Rv64!I
<1>2. IsCode(loaded) /\ Bytes(loaded) = 8
  BY One, Joins DEF Rv64!Op3, Rv64!I
<1>3. PICK ops : ops = IF s.rcpCount < 4 THEN mul ELSE loaded
  OBVIOUS
<1>4. IsCode(ops) /\ Bytes(ops) <= 8
  BY <1>1, <1>2, <1>3
<1>5. PICK t : t = Emit(s, ops)
  OBVIOUS
<1>6. Holding(t) /\ Bytes(t.ops) <= Bytes(s.ops) + 8
  BY <1>4, <1>5, EmitAdds, Numbers DEF Holding
<1>7. Rv64!h_IMUL_RCP(s, isn) = IF Rv64!isZeroOrPowerOf2(isn.imm) THEN s
                                ELSE Rv64!emitRcpLiteral1(t, Rv64!randomx_reciprocal(isn.imm))
  BY <1>3, <1>5 DEF Rv64!h_IMUL_RCP, Rv64!Emit, Emit
<1> QED
  BY <1>6, <1>7, Numbers DEF Grown, Holding, Rv64!emitRcpLiteral1, Rv64!WithLiteral

\* emitInstruction.
LEMMA Rv64Code ==
    ASSUME NEW s, NEW isn, NEW v, Holding(s), isn.op \in InstructionType
    PROVE  /\ isn.op # "FDIV_M" => Grown(s, Rv64!emitInstruction(s, isn, v), 56)
           /\ isn.op = "FDIV_M" =>
                Grown(s, Rv64!emitInstruction(s, isn, v),
                      Bytes(Rv64!genAddressReg(isn)) + 44)
           /\ Bytes(Rv64!genAddressReg(isn)) <= 14
<1>1. CASE isn.op = "IMUL_RCP"
  BY <1>1, Rv64Reciprocal, Rv64Address, Numbers DEF Rv64!emitInstruction, Grown, Holding, Fits
<1>2. CASE isn.op \notin {"IMUL_RCP", "FDIV_M"}
  BY <1>2, Rv64Handlers, Rv64Address, EmitAdds, Numbers
     DEF Rv64!emitInstruction, Rv64!Emit, Emit, Grown, Fits, Holding
<1>3. CASE isn.op = "FDIV_M"
  BY <1>3, Rv64Division, Rv64Address, EmitAdds, Numbers
     DEF Rv64!emitInstruction, Rv64!Handler, Rv64!Emit, Emit, Grown, Fits, Holding
<1> QED
  BY <1>1, <1>2, <1>3

\* emitImm32, with the extensions: lui, addiw and add.
LEMMA Rv64ZImm32 ==
    ASSUME NEW imm, NEW dst, NEW src, NEW tmp
    PROVE  Fits(Rv64Z!emitImm32(imm, dst, src, tmp), 10)
  BY Empty, One, Joins DEF Fits, Rv64Z!emitImm32, Rv64Z!I

\* The addresses of operands.  genAddressReg takes 14 bytes at most, not the 12 its
\* comment in the source reckons with.
LEMMA Rv64ZAddress ==
    ASSUME NEW isn
    PROVE  /\ Fits(Rv64Z!genAddressReg(isn), 14)
           /\ Fits(Rv64Z!genAddressRegDst(isn), 16)
           /\ Fits(Rv64Z!loadFromScratchpad(isn), 16)
           /\ IsCode(Rv64Z!LoadFloat(isn))
           /\ Bytes(Rv64Z!LoadFloat(isn)) = Bytes(Rv64Z!genAddressReg(isn)) + 12
<1>1. Fits(Rv64Z!genAddressReg(isn), 14)
  BY Rv64ZImm32, Two, Joins, Numbers DEF Fits, Rv64Z!genAddressReg, Rv64Z!I
<1>2. Fits(Rv64Z!genAddressRegDst(isn), 16)
  BY Rv64ZImm32, Two, Joins, Numbers DEF Fits, Rv64Z!genAddressRegDst, Rv64Z!I
<1>3. Fits(Rv64Z!loadFromScratchpad(isn), 16)
  BY <1>1, Rv64ZImm32, One, Joins, Numbers
     DEF Fits, Rv64Z!loadFromScratchpad, Rv64Z!genAddressRegImm, Rv64Z!I
<1>4. /\ IsCode(Rv64Z!LoadFloat(isn))
      /\ Bytes(Rv64Z!LoadFloat(isn)) = Bytes(Rv64Z!genAddressReg(isn)) + 12
  BY <1>1, Four, Joins, Numbers DEF Fits, Rv64Z!LoadFloat, Rv64Z!I
<1> QED
  BY <1>1, <1>2, <1>3, <1>4

\* The handlers but those of FDIV_M and IMUL_RCP emit 56 bytes at most.
LEMMA Rv64ZHandlers ==
    ASSUME NEW isn, NEW v, isn.op \in InstructionType \ {"IMUL_RCP", "FDIV_M"}
    PROVE  Fits(Rv64Z!Handler(isn, v), 56)
<1>1. Fits(Rv64Z!h_IADD_RS(isn), 56)
  BY Empty, One, Joins, Rv64ZImm32, Numbers DEF Fits, Rv64Z!h_IADD_RS, Rv64Z!Op3, Rv64Z!I
<1>2. /\ Fits(Rv64Z!h_ISUB_R(isn), 56)
      /\ Fits(Rv64Z!h_IMUL_R(isn), 56)
      /\ Fits(Rv64Z!h_IXOR_R(isn), 56)
      /\ Fits(Rv64Z!h_INEG_R(isn), 56)
  BY One, Joins, Rv64ZImm32, Numbers
     DEF Fits, Rv64Z!h_ISUB_R, Rv64Z!Op3, Rv64Z!I, Rv64Z!h_IMUL_R, Rv64Z!h_IXOR_R,
         Rv64Z!h_INEG_R
<1>3. /\ Fits(Rv64Z!h_IADD_M(isn), 56)
      /\ Fits(Rv64Z!h_ISUB_M(isn), 56)
      /\ Fits(Rv64Z!h_IMUL_M(isn), 56)
      /\ Fits(Rv64Z!h_IXOR_M(isn), 56)
  BY One, Joins, Rv64ZAddress, Numbers
     DEF Fits, Rv64Z!h_IADD_M, Rv64Z!Op3, Rv64Z!I, Rv64Z!h_ISUB_M, Rv64Z!h_IMUL_M,
         Rv64Z!h_IXOR_M
<1>4. /\ Fits(Rv64Z!h_IMULH_R(isn), 56)
      /\ Fits(Rv64Z!h_ISMULH_R(isn), 56)
  BY One, Joins DEF Fits, Rv64Z!h_IMULH_R, Rv64Z!Op3, Rv64Z!I, Rv64Z!h_ISMULH_R
<1>5. /\ Fits(Rv64Z!h_IMULH_M(isn), 56)
      /\ Fits(Rv64Z!h_ISMULH_M(isn), 56)
  BY One, Joins, Rv64ZAddress, Numbers
     DEF Fits, Rv64Z!h_IMULH_M, Rv64Z!Op3, Rv64Z!I, Rv64Z!h_ISMULH_M
<1>6. /\ Fits(Rv64Z!h_IROR_R(isn), 56)
      /\ Fits(Rv64Z!h_IROL_R(isn), 56)
  BY One, Three, Four, Joins DEF Fits, Rv64Z!h_IROR_R, Rv64Z!Op3, Rv64Z!I, Rv64Z!h_IROL_R
<1>7. /\ Fits(Rv64Z!h_ISWAP_R(isn), 56)
      /\ Fits(Rv64Z!h_FSWAP_R(isn), 56)
      /\ Fits(Rv64Z!h_NOP, 56)
  BY Empty, Three, Joins DEF Fits, Rv64Z!h_ISWAP_R, Rv64Z!I, Rv64Z!h_FSWAP_R, Rv64Z!h_NOP
<1>8. /\ Fits(Rv64Z!h_FADD_R(isn), 56)
      /\ Fits(Rv64Z!h_FSUB_R(isn), 56)
      /\ Fits(Rv64Z!h_FSCAL_R(isn), 56)
      /\ Fits(Rv64Z!h_FMUL_R(isn), 56)
      /\ Fits(Rv64Z!h_FSQRT_R(isn), 56)
  BY Two, Six, Joins
     DEF Fits, Rv64Z!h_FADD_R, Rv64Z!FloatPair, Rv64Z!I, Rv64Z!h_FSUB_R, Rv64Z!h_FSCAL_R,
         Rv64Z!h_FMUL_R, Rv64Z!h_FSQRT_R
<1>9. /\ Fits(Rv64Z!h_FADD_M(isn), 56)
      /\ Fits(Rv64Z!h_FSUB_M(isn), 56)
  BY Two, Joins, Rv64ZAddress, Numbers
     DEF Fits, Rv64Z!h_FADD_M, Rv64Z!FloatPair, Rv64Z!I, Rv64Z!h_FSUB_M
<1>10. Fits(Rv64Z!h_CBRANCH(isn), 56)
  BY Two, Joins, Rv64ZImm32, Numbers DEF Fits, Rv64Z!h_CBRANCH, Rv64Z!I
<1>11. Fits(Rv64Z!h_CFROUND(isn, v), 56)
  BY Empty, One, Two, Three, Four, Joins DEF Fits, Rv64Z!h_CFROUND, Rv64Z!I
<1>12. Fits(Rv64Z!h_ISTORE(isn), 56)
  BY One, Joins, Rv64ZAddress, Numbers DEF Fits, Rv64Z!h_ISTORE, Rv64Z!I
<1> QED
  BY <1>1, <1>2, <1>3, <1>4, <1>5, <1>6, <1>7, <1>8, <1>9, <1>10, <1>11, <1>12
     DEF Rv64Z!Handler, InstructionType

\* FDIV_M: 44 bytes behind the address of its operand.
LEMMA Rv64ZDivision ==
    ASSUME NEW isn
    PROVE  /\ IsCode(Rv64Z!h_FDIV_M(isn))
           /\ Bytes(Rv64Z!h_FDIV_M(isn)) = Bytes(Rv64Z!genAddressReg(isn)) + 44
  BY Rv64ZAddress, Two, Eight, Joins, Numbers DEF Fits, Rv64Z!h_FDIV_M, Rv64Z!FloatPair, Rv64Z!I

\* IMUL_RCP: the reciprocal is in a register or is loaded, and is written to the pool.
LEMMA Rv64ZReciprocal ==
    ASSUME NEW s, NEW isn, Holding(s)
    PROVE  Grown(s, Rv64Z!h_IMUL_RCP(s, isn), 8)
<1> DEFINE mul == Rv64Z!Op3("mul", isn.dst, Rv64Z!regRcp(s.rcpCount), 4)
           load == <<IF s.rcpCount < 10
                     THEN Rv64Z!I("mov", Rv64Z!Tmp1Reg, Rv64Z!regRcpF(s.rcpCount), 0, 4)
                     ELSE Rv64Z!I("lit", Rv64Z!Tmp1Reg, Rv64Z!LiteralPoolReg,
                   Rv64Z!Imm(Rv64Z!SignedBits(Rv64Z!RcpLiteralsOffset + s.rcpCount * 8, 12)), 4)>>
           loaded == load \o Rv64Z!Op3("mul", isn.dst, Rv64Z!Tmp1Reg, 4)
<1>1. IsCode(mul) /\ Bytes(mul) = 4
  BY One DEF Rv64Z!Op3, Rv64Z!I
<1>2. IsCode(loaded) /\ Bytes(loaded) = 8
  BY One, Joins DEF Rv64Z!Op3, Rv64Z!I
<1>3. PICK ops : ops = IF s.rcpCount < 4 THEN mul ELSE loaded
  OBVIOUS
<1>4. IsCode(ops) /\ Bytes(ops) <= 8
  BY <1>1, <1>2, <1>3
<1>5. PICK t : t = Emit(s, ops)
  OBVIOUS
<1>6. Holding(t) /\ Bytes(t.ops) <= Bytes(s.ops) + 8
  BY <1>4, <1>5, EmitAdds, Numbers DEF Holding
<1>7. Rv64Z!h_IMUL_RCP(s, isn) = IF Rv64Z!isZeroOrPowerOf2(isn.imm) THEN s
                                ELSE Rv64Z!emitRcpLiteral1(t, Rv64Z!randomx_reciprocal(isn.imm))
  BY <1>3, <1>5 DEF Rv64Z!h_IMUL_RCP, Rv64Z!Emit, Emit
<1> QED
  BY <1>6, <1>7, Numbers DEF Grown, Holding, Rv64Z!emitRcpLiteral1, Rv64Z!WithLiteral

\* emitInstruction.
LEMMA Rv64ZCode ==
    ASSUME NEW s, NEW isn, NEW v, Holding(s), isn.op \in InstructionType
    PROVE  /\ isn.op # "FDIV_M" => Grown(s, Rv64Z!emitInstruction(s, isn, v), 56)
           /\ isn.op = "FDIV_M" =>
                Grown(s, Rv64Z!emitInstruction(s, isn, v),
                      Bytes(Rv64Z!genAddressReg(isn)) + 44)
           /\ Bytes(Rv64Z!genAddressReg(isn)) <= 14
<1>1. CASE isn.op = "IMUL_RCP"
  BY <1>1, Rv64ZReciprocal, Rv64ZAddress, Numbers DEF Rv64Z!emitInstruction, Grown, Holding, Fits
<1>2. CASE isn.op \notin {"IMUL_RCP", "FDIV_M"}
  BY <1>2, Rv64ZHandlers, Rv64ZAddress, EmitAdds, Numbers
     DEF Rv64Z!emitInstruction, Rv64Z!Emit, Emit, Grown, Fits, Holding
<1>3. CASE isn.op = "FDIV_M"
  BY <1>3, Rv64ZDivision, Rv64ZAddress, EmitAdds, Numbers
     DEF Rv64Z!emitInstruction, Rv64Z!Handler, Rv64Z!Emit, Emit, Grown, Fits, Holding
<1> QED
  BY <1>1, <1>2, <1>3

-----------------------------------------------------------------------------
(* The compiler for RISC-V vectors, without and with its extensions.       *)

\* imm_to_x5, without them.
LEMMA RvvImm ==
    ASSUME NEW imm
    PROVE  Fits(Rvv!imm_to_x5(imm), 8)
  BY One, Two DEF Fits, Rvv!imm_to_x5, Rvv!I

\* The address of an operand and its load.
LEMMA RvvLoad ==
    ASSUME NEW src, NEW dst, NEW isn
    PROVE  Fits(Rvv!loadFromScratchpad(src, dst, isn), 20)
  BY One, Two, Three, Joins, RvvImm, Numbers DEF Fits, Rvv!loadFromScratchpad, Rvv!I

\* The cases of generateProgramVectorRV64 but that of IMUL_RCP emit 52 bytes at most.
LEMMA RvvCases ==
    ASSUME NEW isn, NEW v, isn.op \in InstructionType \ {"IMUL_RCP"}
    PROVE  Fits(Rvv!Case(isn, v), 52)
<1>1. Fits(Rvv!IADD_RS(isn), 52)
  BY Empty, One, Joins, RvvImm, Numbers DEF Fits, Rvv!IADD_RS, Rvv!OnDst, Rvv!I
<1>2. /\ Fits(Rvv!ISUB_R(isn), 52)
      /\ Fits(Rvv!IMUL_R(isn), 52)
      /\ Fits(Rvv!IXOR_R(isn), 52)
      /\ Fits(Rvv!INEG_R(isn), 52)
  BY One, Joins, RvvImm, Numbers
     DEF Fits, Rvv!ISUB_R, Rvv!OnDst, Rvv!I, Rvv!IMUL_R, Rvv!IXOR_R, Rvv!INEG_R
<1>3. /\ Fits(Rvv!IADD_M(isn), 52)
      /\ Fits(Rvv!ISUB_M(isn), 52)
      /\ Fits(Rvv!IMUL_M(isn), 52)
      /\ Fits(Rvv!IXOR_M(isn), 52)
  BY One, Joins, RvvLoad, Numbers
     DEF Fits, Rvv!IADD_M, Rvv!Memory, Rvv!OnDst, Rvv!I, Rvv!ISUB_M, Rvv!IMUL_M, Rvv!IXOR_M
<1>4. /\ Fits(Rvv!IMULH_R(isn), 52)
      /\ Fits(Rvv!ISMULH_R(isn), 52)
  BY One, Joins DEF Fits, Rvv!IMULH_R, Rvv!OnDst, Rvv!I, Rvv!ISMULH_R
<1>5. /\ Fits(Rvv!IMULH_M(isn), 52)
      /\ Fits(Rvv!ISMULH_M(isn), 52)
  BY One, Joins, RvvLoad, Numbers
     DEF Fits, Rvv!IMULH_M, Rvv!Memory, Rvv!OnDst, Rvv!I, Rvv!ISMULH_M
<1>6. /\ Fits(Rvv!IROR_R(isn), 52)
      /\ Fits(Rvv!IROL_R(isn), 52)
  BY One, Two, Three, Joins DEF Fits, Rvv!IROR_R, Rvv!OnDst, Rvv!Rotate, Rvv!I, Rvv!IROL_R
<1>7. /\ Fits(Rvv!ISWAP_R(isn), 52)
      /\ Fits(Rvv!FSWAP_R(isn), 52)
  BY Empty, Three, Joins DEF Fits, Rvv!ISWAP_R, Rvv!I, Rvv!FSWAP_R
<1>8. /\ Fits(Rvv!FADD_R(isn), 52)
      /\ Fits(Rvv!FSUB_R(isn), 52)
      /\ Fits(Rvv!FSCAL_R(isn), 52)
      /\ Fits(Rvv!FMUL_R(isn), 52)
      /\ Fits(Rvv!FSQRT_R(isn), 52)
  BY Two, Joins
     DEF Fits, Rvv!FADD_R, Rvv!Packed, Rvv!Both, Rvv!I, Rvv!FSUB_R, Rvv!FSCAL_R, Rvv!FMUL_R,
         Rvv!FSQRT_R
<1>9. /\ Fits(Rvv!FADD_M(isn), 52)
      /\ Fits(Rvv!FSUB_M(isn), 52)
  BY Two, Three, Joins, RvvLoad, Numbers
     DEF Fits, Rvv!FADD_M, Rvv!LoadFloat, Rvv!Packed, Rvv!I, Rvv!Both, Rvv!FSUB_M
<1>10. Fits(Rvv!FDIV_M(isn), 52)
  BY Two, Three, Joins, RvvLoad, Numbers
     DEF Fits, Rvv!FDIV_M, Rvv!LoadFloat, Rvv!Packed, Rvv!I, Rvv!Both
<1>11. Fits(Rvv!CBRANCH(isn), 52)
  BY One, Two, Joins, RvvImm, Numbers DEF Fits, Rvv!CBRANCH, Rvv!I, Rvv!OnDst
<1>12. Fits(Rvv!CFROUND(isn, v), 52)
  BY Empty, One, Two, Three, Five, Joins DEF Fits, Rvv!CFROUND, Rvv!I
<1>13. Fits(Rvv!ISTORE(isn), 52)
  BY Four, Joins, RvvImm, Numbers DEF Fits, Rvv!ISTORE, Rvv!I
<1>14. Fits(<<>>, 52)
  BY Empty DEF Fits
<1> QED
  BY <1>1, <1>2, <1>3, <1>4, <1>5, <1>6, <1>7, <1>8, <1>9, <1>10, <1>11, <1>12, <1>13, <1>14
     DEF Rvv!Case, InstructionType

\* IMUL_RCP: the reciprocal is in a register or is loaded, and is written to the pool.
LEMMA RvvReciprocal ==
    ASSUME NEW s, NEW isn, Holding(s)
    PROVE  Grown(s, Rvv!IMUL_RCP(s, isn), 8)
<1>1. PICK factor : factor = IF s.rcpCount * 8 < 26 * 8
                             THEN Rvv!I("mov", Rvv!x5, Rvv!rcp_regs[s.rcpCount + 1], 0, 4)
                             ELSE Rvv!I("lit", Rvv!x5, Rvv!LiteralsPointer,
                                    Rvv!Imm(Rvv!SignedBits(s.rcpCount * 8, 12)), 4)
  OBVIOUS
<1>2. PICK ops : ops = IF s.rcpCount * 8 < 6 * 8
                       THEN Rvv!OnDst("mul", isn, Rvv!rcp_regs[s.rcpCount + 1], 4)
                       ELSE <<factor>> \o Rvv!OnDst("mul", isn, Rvv!x5, 4)
  OBVIOUS
<1>3. IsCode(ops) /\ Bytes(ops) <= 8
  BY <1>1, <1>2, One, Joins DEF Rvv!OnDst, Rvv!I
<1>4. PICK t : t = [Rvv!WithLiteral(s, PoolBase + s.rcpCount * 8, Rvv!randomx_reciprocal(isn.imm))
                       EXCEPT !.rcpCount = @ + 1]
  OBVIOUS
<1>5. Holding(t) /\ t.ops = s.ops
  BY <1>4 DEF Holding, Rvv!WithLiteral
<1>6. Rvv!IMUL_RCP(s, isn) = IF Rvv!isZeroOrPowerOf2(isn.imm) THEN s ELSE Emit(t, ops)
  BY <1>1, <1>2, <1>4 DEF Rvv!IMUL_RCP, Rvv!Emit, Emit
<1> QED
  BY <1>3, <1>5, <1>6, EmitAdds, Numbers DEF Grown, Holding

\* The code of one turn of the loop over the instructions.
LEMMA RvvCode ==
    ASSUME NEW s, NEW isn, NEW v, Holding(s), isn.op \in InstructionType
    PROVE  Grown(s, Rvv!generateCode(s, isn, v), 52)
<1>1. CASE isn.op = "IMUL_RCP"
  BY <1>1, RvvReciprocal, Numbers DEF Rvv!generateCode, Grown, Holding
<1>2. CASE isn.op # "IMUL_RCP"
  BY <1>2, RvvCases, EmitAdds, Numbers
     DEF Rvv!generateCode, Rvv!Emit, Emit, Grown, Fits, Holding
<1> QED
  BY <1>1, <1>2

\* imm_to_x5, with the extensions.
LEMMA RvvZImm ==
    ASSUME NEW imm
    PROVE  Fits(RvvZ!imm_to_x5(imm), 8)
  BY One, Two DEF Fits, RvvZ!imm_to_x5, RvvZ!I

\* The address of an operand and its load.
LEMMA RvvZLoad ==
    ASSUME NEW src, NEW dst, NEW isn
    PROVE  Fits(RvvZ!loadFromScratchpad(src, dst, isn), 20)
  BY One, Two, Three, Joins, RvvZImm, Numbers DEF Fits, RvvZ!loadFromScratchpad, RvvZ!I

\* The cases of generateProgramVectorRV64 but that of IMUL_RCP emit 52 bytes at most.
LEMMA RvvZCases ==
    ASSUME NEW isn, NEW v, isn.op \in InstructionType \ {"IMUL_RCP"}
    PROVE  Fits(RvvZ!Case(isn, v), 52)
<1>1. Fits(RvvZ!IADD_RS(isn), 52)
  BY Empty, One, Joins, RvvZImm, Numbers DEF Fits, RvvZ!IADD_RS, RvvZ!OnDst, RvvZ!I
<1>2. /\ Fits(RvvZ!ISUB_R(isn), 52)
      /\ Fits(RvvZ!IMUL_R(isn), 52)
      /\ Fits(RvvZ!IXOR_R(isn), 52)
      /\ Fits(RvvZ!INEG_R(isn), 52)
  BY One, Joins, RvvZImm, Numbers
     DEF Fits, RvvZ!ISUB_R, RvvZ!OnDst, RvvZ!I, RvvZ!IMUL_R, RvvZ!IXOR_R, RvvZ!INEG_R
<1>3. /\ Fits(RvvZ!IADD_M(isn), 52)
      /\ Fits(RvvZ!ISUB_M(isn), 52)
      /\ Fits(RvvZ!IMUL_M(isn), 52)
      /\ Fits(RvvZ!IXOR_M(isn), 52)
  BY One, Joins, RvvZLoad, Numbers
     DEF Fits, RvvZ!IADD_M, RvvZ!Memory, RvvZ!OnDst, RvvZ!I, RvvZ!ISUB_M, RvvZ!IMUL_M,
         RvvZ!IXOR_M
<1>4. /\ Fits(RvvZ!IMULH_R(isn), 52)
      /\ Fits(RvvZ!ISMULH_R(isn), 52)
  BY One, Joins DEF Fits, RvvZ!IMULH_R, RvvZ!OnDst, RvvZ!I, RvvZ!ISMULH_R
<1>5. /\ Fits(RvvZ!IMULH_M(isn), 52)
      /\ Fits(RvvZ!ISMULH_M(isn), 52)
  BY One, Joins, RvvZLoad, Numbers
     DEF Fits, RvvZ!IMULH_M, RvvZ!Memory, RvvZ!OnDst, RvvZ!I, RvvZ!ISMULH_M
<1>6. /\ Fits(RvvZ!IROR_R(isn), 52)
      /\ Fits(RvvZ!IROL_R(isn), 52)
  BY One, Two, Three, Joins DEF Fits, RvvZ!IROR_R, RvvZ!OnDst, RvvZ!Rotate, RvvZ!I, RvvZ!IROL_R
<1>7. /\ Fits(RvvZ!ISWAP_R(isn), 52)
      /\ Fits(RvvZ!FSWAP_R(isn), 52)
  BY Empty, Three, Joins DEF Fits, RvvZ!ISWAP_R, RvvZ!I, RvvZ!FSWAP_R
<1>8. /\ Fits(RvvZ!FADD_R(isn), 52)
      /\ Fits(RvvZ!FSUB_R(isn), 52)
      /\ Fits(RvvZ!FSCAL_R(isn), 52)
      /\ Fits(RvvZ!FMUL_R(isn), 52)
      /\ Fits(RvvZ!FSQRT_R(isn), 52)
  BY Two, Joins
     DEF Fits, RvvZ!FADD_R, RvvZ!Packed, RvvZ!Both, RvvZ!I, RvvZ!FSUB_R, RvvZ!FSCAL_R,
         RvvZ!FMUL_R, RvvZ!FSQRT_R
<1>9. /\ Fits(RvvZ!FADD_M(isn), 52)
      /\ Fits(RvvZ!FSUB_M(isn), 52)
  BY Two, Three, Joins, RvvZLoad, Numbers
     DEF Fits, RvvZ!FADD_M, RvvZ!LoadFloat, RvvZ!Packed, RvvZ!I, RvvZ!Both, RvvZ!FSUB_M
<1>10. Fits(RvvZ!FDIV_M(isn), 52)
  BY Two, Three, Joins, RvvZLoad, Numbers
     DEF Fits, RvvZ!FDIV_M, RvvZ!LoadFloat, RvvZ!Packed, RvvZ!I, RvvZ!Both
<1>11. Fits(RvvZ!CBRANCH(isn), 52)
  BY One, Two, Joins, RvvZImm, Numbers DEF Fits, RvvZ!CBRANCH, RvvZ!I, RvvZ!OnDst
<1>12. Fits(RvvZ!CFROUND(isn, v), 52)
  BY Empty, One, Two, Three, Five, Joins DEF Fits, RvvZ!CFROUND, RvvZ!I
<1>13. Fits(RvvZ!ISTORE(isn), 52)
  BY Four, Joins, RvvZImm, Numbers DEF Fits, RvvZ!ISTORE, RvvZ!I
<1>14. Fits(<<>>, 52)
  BY Empty DEF Fits
<1> QED
  BY <1>1, <1>2, <1>3, <1>4, <1>5, <1>6, <1>7, <1>8, <1>9, <1>10, <1>11, <1>12, <1>13, <1>14
     DEF RvvZ!Case, InstructionType

\* IMUL_RCP: the reciprocal is in a register or is loaded, and is written to the pool.
LEMMA RvvZReciprocal ==
    ASSUME NEW s, NEW isn, Holding(s)
    PROVE  Grown(s, RvvZ!IMUL_RCP(s, isn), 8)
<1>1. PICK factor : factor = IF s.rcpCount * 8 < 26 * 8
                             THEN RvvZ!I("mov", RvvZ!x5, RvvZ!rcp_regs[s.rcpCount + 1], 0, 4)
                             ELSE RvvZ!I("lit", RvvZ!x5, RvvZ!LiteralsPointer,
                                    RvvZ!Imm(RvvZ!SignedBits(s.rcpCount * 8, 12)), 4)
  OBVIOUS
<1>2. PICK ops : ops = IF s.rcpCount * 8 < 6 * 8
                       THEN RvvZ!OnDst("mul", isn, RvvZ!rcp_regs[s.rcpCount + 1], 4)
                       ELSE <<factor>> \o RvvZ!OnDst("mul", isn, RvvZ!x5, 4)
  OBVIOUS
<1>3. IsCode(ops) /\ Bytes(ops) <= 8
  BY <1>1, <1>2, One, Joins DEF RvvZ!OnDst, RvvZ!I
<1>4. PICK t : t = [RvvZ!WithLiteral(s, PoolBase + s.rcpCount * 8, RvvZ!randomx_reciprocal(isn.imm))
                       EXCEPT !.rcpCount = @ + 1]
  OBVIOUS
<1>5. Holding(t) /\ t.ops = s.ops
  BY <1>4 DEF Holding, RvvZ!WithLiteral
<1>6. RvvZ!IMUL_RCP(s, isn) = IF RvvZ!isZeroOrPowerOf2(isn.imm) THEN s ELSE Emit(t, ops)
  BY <1>1, <1>2, <1>4 DEF RvvZ!IMUL_RCP, RvvZ!Emit, Emit
<1> QED
  BY <1>3, <1>5, <1>6, EmitAdds, Numbers DEF Grown, Holding

\* The code of one turn of the loop over the instructions.
LEMMA RvvZCode ==
    ASSUME NEW s, NEW isn, NEW v, Holding(s), isn.op \in InstructionType
    PROVE  Grown(s, RvvZ!generateCode(s, isn, v), 52)
<1>1. CASE isn.op = "IMUL_RCP"
  BY <1>1, RvvZReciprocal, Numbers DEF RvvZ!generateCode, Grown, Holding
<1>2. CASE isn.op # "IMUL_RCP"
  BY <1>2, RvvZCases, EmitAdds, Numbers
     DEF RvvZ!generateCode, RvvZ!Emit, Emit, Grown, Fits, Holding
<1> QED
  BY <1>1, <1>2

-----------------------------------------------------------------------------
(* The compiler for x86 and the assembly generator.                        *)

\* Every handler of JitCompilerX86 emits 32 bytes at most.
LEMMA X86Handlers ==
    ASSUME NEW isn, NEW v, isn.op \in InstructionType
    PROVE  Fits(X86!Handler(isn, v), 32)
<1>1. Fits(X86!h_IADD_RS(isn), 32)
  BY One, Joins DEF Fits, X86!h_IADD_RS, X86!Op2, X86!I
<1>2. /\ Fits(X86!h_ISUB_R(isn), 32)
      /\ Fits(X86!h_IMUL_R(isn), 32)
      /\ Fits(X86!h_IXOR_R(isn), 32)
      /\ Fits(X86!h_INEG_R(isn), 32)
  BY One, Joins DEF Fits, X86!h_ISUB_R, X86!Op2, X86!I, X86!h_IMUL_R, X86!h_IXOR_R, X86!h_INEG_R
<1>3. /\ Fits(X86!h_IADD_M(isn), 32)
      /\ Fits(X86!h_ISUB_M(isn), 32)
      /\ Fits(X86!h_IMUL_M(isn), 32)
      /\ Fits(X86!h_IXOR_M(isn), 32)
  BY One, Two, Joins
     DEF Fits, X86!h_IADD_M, X86!OpM, X86!genAddressReg, X86!I, X86!Op2, X86!LeaAnd,
         X86!h_ISUB_M, X86!h_IMUL_M, X86!h_IXOR_M, X86!RegisterNeedsSib, X86!rax
<1>4. /\ Fits(X86!h_IMULH_R(isn), 32)
      /\ Fits(X86!h_ISMULH_R(isn), 32)
  BY One, Two, Joins DEF Fits, X86!h_IMULH_R, X86!MulR, X86!I, X86!Product, X86!h_ISMULH_R
<1>5. /\ Fits(X86!h_IMULH_M(isn), 32)
      /\ Fits(X86!h_ISMULH_M(isn), 32)
  BY One, Two, Joins
     DEF Fits, X86!h_IMULH_M, X86!MulM, X86!genAddressReg, X86!I, X86!Product, X86!LeaAnd,
         X86!h_ISMULH_M, X86!RegisterNeedsSib, X86!rax
<1>6. Fits(X86!h_IMUL_RCP(isn), 32)
  BY Empty, One, Joins DEF Fits, X86!h_IMUL_RCP, X86!I, X86!Op2
<1>7. /\ Fits(X86!h_IROR_R(isn), 32)
      /\ Fits(X86!h_IROL_R(isn), 32)
  BY One, Joins DEF Fits, X86!h_IROR_R, X86!Rotate, X86!I, X86!Op2, X86!h_IROL_R
<1>8. /\ Fits(X86!h_ISWAP_R(isn), 32)
      /\ Fits(X86!h_FSWAP_R(isn), 32)
      /\ Fits(X86!h_NOP, 32)
  BY Empty, One, Joins DEF Fits, X86!h_ISWAP_R, X86!I, X86!h_FSWAP_R, X86!h_NOP
<1>9. /\ Fits(X86!h_FADD_R(isn), 32)
      /\ Fits(X86!h_FSUB_R(isn), 32)
      /\ Fits(X86!h_FSCAL_R(isn), 32)
      /\ Fits(X86!h_FMUL_R(isn), 32)
      /\ Fits(X86!h_FSQRT_R(isn), 32)
  BY Two, Joins
     DEF Fits, X86!h_FADD_R, X86!Packed, X86!Both, X86!I, X86!h_FSUB_R, X86!h_FSCAL_R,
         X86!h_FMUL_R, X86!h_FSQRT_R
<1>10. /\ Fits(X86!h_FADD_M(isn), 32)
       /\ Fits(X86!h_FSUB_M(isn), 32)
  BY Two, Three, Joins
     DEF Fits, X86!h_FADD_M, X86!LoadFloat, X86!Packed, X86!genAddressReg, X86!I, X86!Both,
         X86!LeaAnd, X86!h_FSUB_M, X86!RegisterNeedsSib, X86!rax
<1>11. Fits(X86!h_FDIV_M(isn), 32)
  BY Two, Three, Joins
     DEF Fits, X86!h_FDIV_M, X86!LoadFloat, X86!Packed, X86!genAddressReg, X86!I, X86!Both,
         X86!LeaAnd, X86!RegisterNeedsSib, X86!rax
<1>12. Fits(X86!h_CBRANCH(isn), 32)
  BY One, Joins DEF Fits, X86!h_CBRANCH, X86!Op2, X86!I
<1>13. Fits(X86!h_CFROUND(isn, v), 32)
  BY Empty, One, Two, Four, Joins
     DEF Fits, X86!h_CFROUND, X86!ToMxcsr, X86!I, X86!AndOrMovLdmxcsr
<1>14. Fits(X86!h_ISTORE(isn), 32)
  BY One, Two, Joins
     DEF Fits, X86!h_ISTORE, X86!genAddressRegDst, X86!I, X86!LeaAnd, X86!RegisterNeedsSib,
         X86!rax
<1> QED
  BY <1>1, <1>2, <1>3, <1>4, <1>5, <1>6, <1>7, <1>8, <1>9, <1>10, <1>11, <1>12, <1>13, <1>14
     DEF X86!Handler, InstructionType

\* generateCode.
LEMMA X86Code ==
    ASSUME NEW s, NEW isn, NEW v, Holding(s), isn.op \in InstructionType
    PROVE  Grown(s, X86!generateCode(s, isn, v), 32)
  BY X86Handlers, EmitAdds, Numbers DEF X86!generateCode, X86!Emit, Emit, Grown, Fits, Holding

\* The lines of assembly text have no length.
LEMMA AsmHandlers ==
    ASSUME NEW isn, isn.op \in InstructionType
    PROVE  Fits(Asm!Handler(isn), 0)
<1>1. Fits(Asm!h_IADD_RS(isn), 0)
  BY Empty, One, Joins DEF Fits, Asm!h_IADD_RS, Asm!T, Asm!I
<1>2. /\ Fits(Asm!h_ISUB_R(isn), 0)
      /\ Fits(Asm!h_IMUL_R(isn), 0)
      /\ Fits(Asm!h_IXOR_R(isn), 0)
      /\ Fits(Asm!h_INEG_R(isn), 0)
  BY One, Joins
     DEF Fits, Asm!h_ISUB_R, Asm!RegisterForm, Asm!T, Asm!I, Asm!h_IMUL_R, Asm!h_IXOR_R,
         Asm!h_INEG_R
<1>3. /\ Fits(Asm!h_IADD_M(isn), 0)
      /\ Fits(Asm!h_ISUB_M(isn), 0)
      /\ Fits(Asm!h_IMUL_M(isn), 0)
      /\ Fits(Asm!h_IXOR_M(isn), 0)
  BY One, Joins
     DEF Fits, Asm!h_IADD_M, Asm!MemoryForm, Asm!genAddressReg, Asm!T, Asm!I, Asm!h_ISUB_M,
         Asm!h_IMUL_M, Asm!h_IXOR_M
<1>4. /\ Fits(Asm!h_IMULH_R(isn), 0)
      /\ Fits(Asm!h_ISMULH_R(isn), 0)
  BY One, Joins DEF Fits, Asm!h_IMULH_R, Asm!HighForm, Asm!T, Asm!I, Asm!h_ISMULH_R
<1>5. /\ Fits(Asm!h_IMULH_M(isn), 0)
      /\ Fits(Asm!h_ISMULH_M(isn), 0)
  BY One, Joins
     DEF Fits, Asm!h_IMULH_M, Asm!HighMemory, Asm!genAddressReg, Asm!T, Asm!HighForm, Asm!I,
         Asm!h_ISMULH_M
<1>6. Fits(Asm!h_IMUL_RCP(isn), 0)
  BY Empty, One, Joins DEF Fits, Asm!h_IMUL_RCP, Asm!T, Asm!I
<1>7. /\ Fits(Asm!h_IROR_R(isn), 0)
      /\ Fits(Asm!h_IROL_R(isn), 0)
  BY One, Joins DEF Fits, Asm!h_IROR_R, Asm!RotateForm, Asm!T, Asm!I, Asm!h_IROL_R
<1>8. /\ Fits(Asm!h_ISWAP_R(isn), 0)
      /\ Fits(Asm!h_FSWAP_R(isn), 0)
      /\ Fits(Asm!h_NOP, 0)
  BY Empty, One, Joins DEF Fits, Asm!h_ISWAP_R, Asm!T, Asm!I, Asm!h_FSWAP_R, Asm!h_NOP
<1>9. /\ Fits(Asm!h_FADD_R(isn), 0)
      /\ Fits(Asm!h_FSUB_R(isn), 0)
      /\ Fits(Asm!h_FSCAL_R(isn), 0)
      /\ Fits(Asm!h_FMUL_R(isn), 0)
      /\ Fits(Asm!h_FSQRT_R(isn), 0)
  BY Two, Joins
     DEF Fits, Asm!h_FADD_R, Asm!Packed, Asm!Both, Asm!I, Asm!h_FSUB_R, Asm!h_FSCAL_R,
         Asm!h_FMUL_R, Asm!h_FSQRT_R
<1>10. /\ Fits(Asm!h_FADD_M(isn), 0)
       /\ Fits(Asm!h_FSUB_M(isn), 0)
  BY Two, One, Joins
     DEF Fits, Asm!h_FADD_M, Asm!LoadFloat, Asm!Packed, Asm!genAddressReg, Asm!T, Asm!Both,
         Asm!I, Asm!h_FSUB_M
<1>11. Fits(Asm!h_FDIV_M(isn), 0)
  BY Two, One, Joins
     DEF Fits, Asm!h_FDIV_M, Asm!LoadFloat, Asm!Packed, Asm!genAddressReg, Asm!T, Asm!Both,
         Asm!I
<1>12. Fits(Asm!h_CBRANCH(isn), 0)
  BY One, Joins DEF Fits, Asm!h_CBRANCH, Asm!T, Asm!I
<1>13. Fits(Asm!h_CFROUND(isn), 0)
  BY One, Joins DEF Fits, Asm!h_CFROUND, Asm!T, Asm!I
<1>14. Fits(Asm!h_ISTORE(isn), 0)
  BY One, Joins DEF Fits, Asm!h_ISTORE, Asm!genAddressRegDst, Asm!T, Asm!I
<1> QED
  BY <1>1, <1>2, <1>3, <1>4, <1>5, <1>6, <1>7, <1>8, <1>9, <1>10, <1>11, <1>12, <1>13, <1>14
     DEF Asm!Handler, InstructionType

\* generateCode.
LEMMA AsmCode ==
    ASSUME NEW s, NEW isn, Holding(s), isn.op \in InstructionType
    PROVE  Grown(s, Asm!generateCode(s, isn), 0)
  BY AsmHandlers, EmitAdds, Numbers DEF Asm!generateCode, Asm!Emit, Emit, Grown, Fits, Holding

-----------------------------------------------------------------------------
(* The generation of a program.                                            *)

\* What the code of a program's instruction may have: two bytes more than the
\* compiler reckons with, where the address of a division's operand is a long one.
Allowance(isn) == MaxInstrCodeSize + IF LongDivision(backend, isn) THEN 2 ELSE 0

\* The program and its compiler are among those there are; the compiler's state holds
\* code; the code generated so far is that of the first instructions, each as long as
\* it may be.
CodeInv ==
    /\ backend \in Backends \cup V2Backends
    /\ prog \in Programs
    /\ "ops" \in DOMAIN state
    /\ \E S : code \in Seq(S)
    /\ Len(code) <= Len(prog)
    /\ \A i \in 1 .. Len(code) : Fits(code[i], Allowance(prog[i]))

\* One turn of generateProgram emits what its instruction may have.
LEMMA GeneratedFits ==
    ASSUME NEW isn \in Instructions, backend \in AllBackends, "ops" \in DOMAIN state
    PROVE  /\ Holding(Generated(isn))
           /\ Bytes(Generated(isn).ops) <= Allowance(isn)
<1>1. PICK s : s = [state EXCEPT !.ops = <<>>]
  OBVIOUS
<1>2. Holding(s) /\ Bytes(s.ops) = 0
  BY <1>1, Empty DEF Holding
<1>3. isn.op \in InstructionType
  BY DEF Instructions
<1>4. CASE backend = "x86"
  <2>1. Grown(s, X86!generateCode(s, isn, v2), 32)
    BY <1>2, <1>3, X86Code
  <2>2. Generated(isn) = X86!generateCode(s, isn, v2) /\ Allowance(isn) = 32
    BY <1>1, <1>4 DEF Generated, Allowance, MaxInstrCodeSize, X86!MaxInstrCodeSize, LongDivision
  <2> QED
    BY <1>2, <2>1, <2>2 DEF Grown
<1>5. CASE backend = "assembly"
  <2>1. Grown(s, Asm!generateCode(s, isn), 0)
    BY <1>2, <1>3, AsmCode
  <2>2. Generated(isn) = Asm!generateCode(s, isn) /\ Allowance(isn) = 32
    BY <1>1, <1>5 DEF Generated, Allowance, MaxInstrCodeSize, X86!MaxInstrCodeSize, LongDivision
  <2> QED
    BY <1>2, <2>1, <2>2, Numbers DEF Grown, Holding
<1>6. CASE backend = "a64"
  <2>1. Grown(s, A64!generateCode(s, isn, v2), 48)
    BY <1>2, <1>3, A64Handlers
  <2>2. Generated(isn) = A64!generateCode(s, isn, v2) /\ Allowance(isn) = 48
    BY <1>1, <1>6 DEF Generated, Allowance, MaxInstrCodeSize, A64!MaxInstrCodeSize, LongDivision
  <2> QED
    BY <1>2, <2>1, <2>2 DEF Grown
<1>7. CASE backend = "rv64"
  <2>1. /\ isn.op # "FDIV_M" => Grown(s, Rv64!emitInstruction(s, isn, v2), 56)
        /\ isn.op = "FDIV_M" =>
             Grown(s, Rv64!emitInstruction(s, isn, v2), Bytes(Rv64!genAddressReg(isn)) + 44)
        /\ Bytes(Rv64!genAddressReg(isn)) \in 0 .. 14
    <3>1. IsCode(Rv64!genAddressReg(isn))
      BY Rv64Address DEF Fits
    <3> QED
      BY <1>2, <1>3, <3>1, Rv64Code, Numbers
  <2>2. /\ Generated(isn) = Rv64!emitInstruction(s, isn, v2)
        /\ Allowance(isn) =
             56 + IF isn.op = "FDIV_M" /\ Bytes(Rv64!genAddressReg(isn)) > 12 THEN 2 ELSE 0
    BY <1>1, <1>7 DEF Generated, Allowance, MaxInstrCodeSize, Rv64!MaxInstrCodeSize, LongDivision
  <2> QED
    BY <1>2, <2>1, <2>2, Numbers DEF Grown, Holding
<1>8. CASE backend = "rv64z"
  <2>1. /\ isn.op # "FDIV_M" => Grown(s, Rv64Z!emitInstruction(s, isn, v2), 56)
        /\ isn.op = "FDIV_M" =>
             Grown(s, Rv64Z!emitInstruction(s, isn, v2), Bytes(Rv64Z!genAddressReg(isn)) + 44)
        /\ Bytes(Rv64Z!genAddressReg(isn)) \in 0 .. 14
    <3>1. IsCode(Rv64Z!genAddressReg(isn))
      BY Rv64ZAddress DEF Fits
    <3> QED
      BY <1>2, <1>3, <3>1, Rv64ZCode, Numbers
  <2>2. /\ Generated(isn) = Rv64Z!emitInstruction(s, isn, v2)
        /\ Allowance(isn) =
             56 + IF isn.op = "FDIV_M" /\ Bytes(Rv64Z!genAddressReg(isn)) > 12 THEN 2 ELSE 0
    BY <1>1, <1>8 DEF Generated, Allowance, MaxInstrCodeSize, Rv64!MaxInstrCodeSize, LongDivision
  <2> QED
    BY <1>2, <2>1, <2>2, Numbers DEF Grown, Holding
<1>9. CASE backend = "rvv"
  <2>1. Grown(s, Rvv!generateCode(s, isn, v2), 52)
    BY <1>2, <1>3, RvvCode
  <2>2. Generated(isn) = Rvv!generateCode(s, isn, v2) /\ Allowance(isn) = 52
    BY <1>1, <1>9 DEF Generated, Allowance, MaxInstrCodeSize, Rvv!MaxInstrCodeSize, LongDivision
  <2> QED
    BY <1>2, <2>1, <2>2 DEF Grown
<1>10. CASE backend = "rvvz"
  <2>1. Grown(s, RvvZ!generateCode(s, isn, v2), 52)
    BY <1>2, <1>3, RvvZCode
  <2>2. Generated(isn) = RvvZ!generateCode(s, isn, v2) /\ Allowance(isn) = 52
    BY <1>1, <1>10 DEF Generated, Allowance, MaxInstrCodeSize, Rvv!MaxInstrCodeSize, LongDivision
  <2> QED
    BY <1>2, <2>1, <2>2 DEF Grown
<1> QED
  BY <1>4, <1>5, <1>6, <1>7, <1>8, <1>9, <1>10 DEF AllBackends

LEMMA CodeInvInit == Init => CodeInv
<1> SUFFICES ASSUME Init PROVE CodeInv
  OBVIOUS
<1>1. prog \in Programs /\ code = <<>> /\ state = CompilerState /\ backend \in Backends
  BY DEF Init
<1>2. code \in Seq({}) /\ Len(code) = 0
  BY <1>1
<1>3. Len(prog) \in Nat
  BY <1>1, ProgramsAssumption
<1> QED
  BY <1>1, <1>2, <1>3 DEF CodeInv, CompilerState

LEMMA CodeInvNext == CodeInv /\ [Next]_vars => CodeInv'
<1> SUFFICES ASSUME CodeInv, [Next]_vars PROVE CodeInv'
  OBVIOUS
<1>1. prog \in Seq(Instructions)
  BY ProgramsAssumption DEF CodeInv
<1>2. CASE Compile
  <2>1. PICK isn : isn = prog[Len(code) + 1]
    OBVIOUS
  <2>2. PICK t : t = Generated(isn)
    OBVIOUS
  <2>3. Len(code) \in Nat /\ Len(code) < Len(prog)
    BY <1>2 DEF CodeInv, Compile
  <2>4. isn \in Instructions
    BY <1>1, <2>1, <2>3
  <2>5. Holding(t) /\ Bytes(t.ops) <= Allowance(isn)
    BY <2>2, <2>4, GeneratedFits, BackendsAssumption DEF CodeInv
  <2>6. state' = t /\ code' = Append(code, t.ops) /\ UNCHANGED <<prog, backend>>
    BY <1>2, <2>1, <2>2 DEF Compile
  <2>7. PICK S : code \in Seq(S)
    BY DEF CodeInv
  <2>8. PICK R : R = S \cup {t.ops}
    OBVIOUS
  <2>9. code \in Seq(R) /\ t.ops \in R
    BY <2>7, <2>8
  <2>10. code' \in Seq(R) /\ Len(code') = Len(code) + 1
    BY <2>6, <2>9
  <2>11. ASSUME NEW i \in 1 .. Len(code') PROVE Fits(code'[i], Allowance(prog[i])')
    <3>1. Allowance(prog[i])' = Allowance(prog[i])
      BY <2>6 DEF Allowance, MaxInstrCodeSize, LongDivision
    <3>2. CASE i \in 1 .. Len(code)
      <4>1. code'[i] = code[i]
        BY <2>6, <2>9, <3>2
      <4> QED
        BY <3>1, <3>2, <4>1 DEF CodeInv
    <3>3. CASE i = Len(code) + 1
      <4>1. code'[i] = t.ops
        BY <2>6, <2>9, <3>3
      <4> QED
        BY <2>1, <2>5, <3>1, <3>3, <4>1 DEF Fits, Holding
    <3> QED
      BY <2>3, <2>10, <3>2, <3>3
  <2>12. /\ backend' \in Backends \cup V2Backends
         /\ prog' \in Programs
         /\ "ops" \in DOMAIN state'
         /\ \E Q : code' \in Seq(Q)
    BY <2>5, <2>6, <2>10 DEF CodeInv, Holding
  <2>13. Len(code') <= Len(prog')
    BY <1>1, <2>3, <2>6, <2>10
  <2> QED
    BY <2>11, <2>12, <2>13 DEF CodeInv
<1>3. CASE Enter \/ Run \/ UNCHANGED vars
  <2>1. UNCHANGED <<backend, prog, state, code>>
    BY <1>3 DEF Enter, Run, vars
  <2>2. \A i : Allowance(prog[i])' = Allowance(prog[i])
    BY <2>1 DEF Allowance, MaxInstrCodeSize, LongDivision
  <2> QED
    BY <2>1, <2>2 DEF CodeInv
<1> QED
  BY <1>2, <1>3 DEF Next

\* At any time the code generated so far holds what the compilers have emitted, instruction
\* by instruction, each within its allowance.
THEOREM CodeInvariant == Spec => []CodeInv
  BY CodeInvInit, CodeInvNext, PTL DEF Spec

\* For every program, immediate and state of the literals: no instruction's code is longer
\* than the compiler reckons with but that of FDIV_M on RISC-V without vectors, which may
\* exceed it by two bytes where genAddressReg takes more than the 12 its comment says.
THEOREM CodeBounded == Spec => []CodeBound
<1>1. CodeInv => CodeBound
  BY DEF CodeInv, CodeBound, Fits, Allowance
<1> QED
  BY <1>1, CodeInvariant, PTL

-----------------------------------------------------------------------------
(* A run of the machine is one instruction after the other.                *)

IsList(ops) == \E S : ops \in Seq(S)

\* What the fold that RunCode is defined by computes.
IsRun(f, m0, ops, n) ==
    f = [s \in SUBSET (1 .. n) |->
            IF s = {} THEN m0 ELSE Step(f[s \ {Largest(s)}], ops[Largest(s)])]

\* There is such a function for every number of instructions.
LEMMA RunsExist == \A m0, ops : \A n \in Nat : \E f : IsRun(f, m0, ops, n)
<1> SUFFICES ASSUME NEW m0, NEW ops PROVE \A n \in Nat : \E f : IsRun(f, m0, ops, n)
  OBVIOUS
<1> DEFINE S == {n \in Nat : \E f : IsRun(f, m0, ops, n)}
<1>1. 0 \in S
  <2>1. PICK f : f = [s \in SUBSET (1 .. 0) |-> m0]
    OBVIOUS
  <2>2. f = [s \in SUBSET (1 .. 0) |->
                IF s = {} THEN m0 ELSE Step(f[s \ {Largest(s)}], ops[Largest(s)])]
    BY <2>1
  <2>3. IsRun(f, m0, ops, 0)
    BY <2>2 DEF IsRun
  <2> QED
    BY <2>3
<1>2. ASSUME NEW n \in Nat, n \in S PROVE n + 1 \in S
  <2>1. PICK f : IsRun(f, m0, ops, n)
    BY <1>2
  <2>2. PICK g : g = [s \in SUBSET (1 .. n + 1) |->
                         IF n + 1 \in s THEN Step(f[s \ {n + 1}], ops[n + 1]) ELSE f[s]]
    OBVIOUS
  <2>3. ASSUME NEW s \in SUBSET (1 .. n + 1)
        PROVE  g[s] = IF s = {} THEN m0 ELSE Step(g[s \ {Largest(s)}], ops[Largest(s)])
    <3>1. CASE n + 1 \in s
      <4>1. Largest(s) = n + 1
        BY <3>1, Highest
      <4>2. s \ {n + 1} \in SUBSET (1 .. n + 1) /\ n + 1 \notin s \ {n + 1}
        OBVIOUS
      <4>3. g[s \ {n + 1}] = f[s \ {n + 1}]
        BY <2>2, <4>2
      <4> QED
        BY <2>2, <3>1, <4>1, <4>3
    <3>2. CASE n + 1 \notin s /\ s # {}
      <4>1. s \in SUBSET (1 .. n)
        BY <3>2
      <4>2. s \ {Largest(s)} \in SUBSET (1 .. n + 1) /\ n + 1 \notin s \ {Largest(s)}
        BY <3>2
      <4>3. g[s \ {Largest(s)}] = f[s \ {Largest(s)}]
        BY <2>2, <4>2
      <4>4. f[s] = Step(f[s \ {Largest(s)}], ops[Largest(s)])
        BY <2>1, <3>2, <4>1 DEF IsRun
      <4> QED
        BY <2>2, <3>2, <4>3, <4>4
    <3>3. CASE s = {}
      <4>1. f[{}] = m0
        BY <2>1 DEF IsRun
      <4> QED
        BY <2>2, <3>3, <4>1
    <3> QED
      BY <3>1, <3>2, <3>3
  <2>4. g = [s \in SUBSET (1 .. n + 1) |->
               IF s = {} THEN m0 ELSE Step(g[s \ {Largest(s)}], ops[Largest(s)])]
    <3>1. g = [s \in SUBSET (1 .. n + 1) |-> g[s]]
      BY <2>2
    <3> QED
      BY <2>3, <3>1
  <2>5. IsRun(g, m0, ops, n + 1)
    BY <2>4 DEF IsRun
  <2> QED
    BY <2>5
<1>3. Nat \subseteq S
  <2> HIDE DEF S
  <2> QED
    BY <1>1, <1>2, Inductive
<1> QED
  BY <1>3

\* RunCode executes one instruction after the other.
LEMMA RunCodeSteps ==
    ASSUME NEW m0, NEW ops, IsList(ops)
    PROVE  \E f : /\ f[0] = m0
                  /\ \A k \in 1 .. Len(ops) : f[k] = Step(f[k - 1], ops[k])
                  /\ RunCode(m0, ops) = f[Len(ops)]
<1> DEFINE S == DOMAIN ops
           g == CHOOSE f : f = [s \in SUBSET S |->
                             IF s = {} THEN m0 ELSE Step(f[s \ {Largest(s)}], ops[Largest(s)])]
<1>1. RunCode(m0, ops) = g[S]
  BY DEF RunCode, FoldLeft, MapThenFoldSet
<1>2. Len(ops) \in Nat /\ S = 1 .. Len(ops)
  BY DEF IsList
<1>3. \E f : f = [s \in SUBSET S |->
                             IF s = {} THEN m0 ELSE Step(f[s \ {Largest(s)}], ops[Largest(s)])]
  <2>1. PICK f : IsRun(f, m0, ops, Len(ops))
    BY <1>2, RunsExist
  <2>2. f = [s \in SUBSET S |->
                             IF s = {} THEN m0 ELSE Step(f[s \ {Largest(s)}], ops[Largest(s)])]
    BY <1>2, <2>1 DEF IsRun
  <2> QED
    BY <2>2
<1>4. g = [s \in SUBSET S |-> IF s = {} THEN m0 ELSE Step(g[s \ {Largest(s)}], ops[Largest(s)])]
  BY <1>3
<1> HIDE DEF g
<1>5. PICK f : f = [k \in 0 .. Len(ops) |-> g[1 .. k]]
  OBVIOUS
<1>6. f[0] = m0
  <2>1. 0 \in 0 .. Len(ops) /\ 1 .. 0 = {} /\ {} \in SUBSET S
    BY <1>2
  <2>2. g[{}] = m0
    BY <1>4, <2>1
  <2> QED
    BY <1>5, <2>1, <2>2
<1>7. ASSUME NEW k \in 1 .. Len(ops) PROVE f[k] = Step(f[k - 1], ops[k])
  <2>1. k - 1 \in Nat /\ k - 1 \in 0 .. Len(ops) /\ k \in 0 .. Len(ops) /\ (k - 1) + 1 = k
    BY <1>2
  <2>2. 1 .. k \in SUBSET S /\ 1 .. k # {} /\ (1 .. k) \ {k} = 1 .. k - 1
    BY <1>2, <2>1, Initials
  <2>3. Largest(1 .. k) = k
    BY <2>1, <2>2, Highest
  <2>4. g[1 .. k] = Step(g[1 .. k - 1], ops[k])
    BY <1>4, <2>2, <2>3
  <2> QED
    BY <1>5, <2>1, <2>4
<1>8. RunCode(m0, ops) = f[Len(ops)]
  BY <1>1, <1>2, <1>5
<1> QED
  BY <1>6, <1>7, <1>8

-----------------------------------------------------------------------------
(* Code that keeps registers.                                              *)

\* Instructions of the machine that write no register, and those that write two.
Sinks == {"nop", "sd", "sw", "loop", "ldmxcsr", "msr", "fsrm", "branch"}
Pairs == {"aesenc", "aesdec", "aese", "aesd", "aesmc", "aesimc", "vaesdm"}
\* An instruction that is no branch of the machine and writes to registers of R only.
Writes(u, R) ==
    /\ u[1] \notin Pairs \cup {"bnez"}
    /\ u[1] \notin Sinks => u[2] \in R
    /\ u[1] = "xchg" => u[3] \in R

IsMachine(n) == "x" \in DOMAIN n /\ "skip" \in DOMAIN n
\* The registers outside of R are the same.
Same(n, o, R) ==
    /\ IsMachine(o)
    /\ DOMAIN o.x = DOMAIN n.x
    /\ \A k \in DOMAIN n.x \ R : o.x[k] = n.x[k]

\* What one instruction of the machine leaves as it is.
LEMMA ApplyWrites ==
    ASSUME NEW n, NEW u, NEW R, IsMachine(n), Writes(u, R)
    PROVE  Same(n, Apply(n, u), R) /\ Apply(n, u).skip = n.skip
<1>1. PICK d, a, b : d = u[2] /\ a = Val(n, u[3]) /\ b = Val(n, u[4])
  OBVIOUS
<1>2. CASE u[1] = "nop"
  BY <1>2 DEF Apply, Same, IsMachine
<1>3. CASE u[1] \in {"sd", "sw"}
  <2>1. \E w : Apply(n, u) = [n EXCEPT !.written = w]
    BY <1>3 DEF Apply, Store
  <2> QED
    BY <2>1 DEF Same, IsMachine
<1>4. CASE u[1] \in {"loop", "branch"}
  <2>1. \E w : Apply(n, u) = [n EXCEPT !.jump = w]
    BY <1>4 DEF Apply
  <2> QED
    BY <2>1 DEF Same, IsMachine
<1>5. CASE u[1] \in {"ldmxcsr", "msr", "fsrm"}
  <2>1. \E w : Apply(n, u) = [n EXCEPT !.mode = w]
    BY <1>5 DEF Apply
  <2> QED
    BY <2>1 DEF Same, IsMachine
<1>6. CASE u[1] = "xchg"
  <2>1. \E w : Apply(n, u) = [n EXCEPT !.x[u[2]] = a, !.x[u[3]] = w]
    BY <1>1, <1>6 DEF Apply
  <2>2. u[2] \in R /\ u[3] \in R
    BY <1>6 DEF Writes, Sinks
  <2> QED
    BY <2>1, <2>2 DEF Same, IsMachine
<1>7. CASE u[1] \in {"ld", "lw", "lit", "lwu", "item", "bfi", "bif"}
  <2>1. \E w : Apply(n, u) = [n EXCEPT !.x[u[2]] = w]
    BY <1>7 DEF Apply
  <2>2. u[2] \in R
    BY <1>7 DEF Writes, Sinks
  <2> QED
    BY <2>1, <2>2 DEF Same, IsMachine
<1>8. CASE u[1] \notin {"nop", "sd", "sw", "loop", "branch", "ldmxcsr", "msr", "fsrm", "xchg",
                        "ld", "lw", "lit", "lwu", "item", "bfi", "bif"}
  <2>1. Apply(n, u) = [n EXCEPT !.x[u[2]] = Alu(u[1], a, b, n.mode)]
    BY <1>1, <1>8 DEF Apply, Writes, Pairs
  <2>2. u[2] \in R
    BY <1>8 DEF Writes, Sinks
  <2> QED
    BY <2>1, <2>2 DEF Same, IsMachine
<1> QED
  BY <1>2, <1>3, <1>4, <1>5, <1>6, <1>7, <1>8

\* Code without branches of the machine that writes to registers of R only.
Spares(ops, R) == IsCode(ops) /\ \A k \in 1 .. Len(ops) : Writes(ops[k], R)
\* Code that keeps the registers outside of R and ends where it ends.
Keeps(ops, R) ==
    \A n : IsMachine(n) /\ n.skip = 0
             => Same(n, RunCode(n, ops), R) /\ RunCode(n, ops).skip = 0

\* Code put together from code that writes to registers of R only is such code.
LEMMA SparesNothing == ASSUME NEW R PROVE Spares(<<>>, R)
<1>1. Len(<<>>) = 0
  OBVIOUS
<1> QED
  BY <1>1, Empty DEF Spares

LEMMA SparesJoin ==
    ASSUME NEW s, NEW t, NEW R, Spares(s, R), Spares(t, R)
    PROVE  Spares(s \o t, R)
<1>1. PICK A, B : s \in Seq(A) /\ t \in Seq(B)
  BY DEF Spares, IsCode
<1>2. PICK C : C = A \cup B
  OBVIOUS
<1>3. s \in Seq(C) /\ t \in Seq(C)
  BY <1>1, <1>2
<1>4. PICK u : u = s \o t
  OBVIOUS
<1>5. Len(u) = Len(s) + Len(t) /\ Len(s) \in Nat /\ Len(t) \in Nat
  BY <1>3, <1>4
<1>6. ASSUME NEW k \in 1 .. Len(s) + Len(t) PROVE Writes(u[k], R)
  <2>1. u[k] = IF k <= Len(s) THEN s[k] ELSE t[k - Len(s)]
    BY <1>3, <1>4
  <2>2. CASE k <= Len(s)
    BY <1>5, <2>1, <2>2 DEF Spares
  <2>3. CASE ~(k <= Len(s))
    <3>1. k - Len(s) \in 1 .. Len(t)
      BY <1>5, <2>3
    <3> QED
      BY <2>1, <2>3, <3>1 DEF Spares
  <2> QED
    BY <2>2, <2>3
<1> QED
  BY <1>4, <1>5, <1>6, Joins DEF Spares

\* Its run keeps the others.
LEMMA SparesRun ==
    ASSUME NEW ops, NEW R, Spares(ops, R), NEW n, IsMachine(n), n.skip = 0
    PROVE  Same(n, RunCode(n, ops), R) /\ RunCode(n, ops).skip = 0
<1>1. IsList(ops) /\ Len(ops) \in Nat
  BY DEF Spares, IsCode, IsList
<1>2. PICK f : /\ f[0] = n
               /\ \A k \in 1 .. Len(ops) : f[k] = Step(f[k - 1], ops[k])
               /\ RunCode(n, ops) = f[Len(ops)]
  BY <1>1, RunCodeSteps
<1> DEFINE S == {k \in Nat : k <= Len(ops) => Same(n, f[k], R) /\ f[k].skip = 0}
<1>3. 0 \in S
  BY <1>2 DEF Same
<1>4. ASSUME NEW k \in Nat, k \in S PROVE k + 1 \in S
  <2> SUFFICES ASSUME k + 1 <= Len(ops)
               PROVE  Same(n, f[k + 1], R) /\ f[k + 1].skip = 0
    OBVIOUS
  <2>1. k + 1 \in 1 .. Len(ops) /\ (k + 1) - 1 = k
    BY <1>1
  <2>2. Same(n, f[k], R) /\ f[k].skip = 0
    BY <1>1, <1>4
  <2>3. f[k + 1] = Apply(f[k], ops[k + 1])
    BY <1>2, <2>1, <2>2 DEF Step
  <2>4. Same(f[k], f[k + 1], R) /\ f[k + 1].skip = f[k].skip
    BY <2>1, <2>2, <2>3, ApplyWrites DEF Same, Spares
  <2> QED
    BY <2>2, <2>4 DEF Same
<1>5. Nat \subseteq S
  <2> HIDE DEF S
  <2> QED
    BY <1>3, <1>4, Inductive
<1> QED
  BY <1>1, <1>2, <1>5

LEMMA SparesKeeps == ASSUME NEW ops, NEW R, Spares(ops, R) PROVE Keeps(ops, R)
  BY SparesRun DEF Keeps

\* A branch of the machine over all of the code: it is passed over to its end.
LEMMA SkippedRun ==
    ASSUME NEW ops, NEW R, Spares(ops, R), \A k \in 1 .. Len(ops) : ops[k][5] > 0,
           NEW n, IsMachine(n), n.skip = Bytes(ops)
    PROVE  Same(n, RunCode(n, ops), R) /\ RunCode(n, ops).skip = 0
<1>1. IsList(ops) /\ IsCode(ops) /\ Len(ops) \in Nat /\ \A k \in 1 .. Len(ops) : ops[k][5] \in Nat
  BY DEF Spares, IsCode, IsList
<1>2. PICK f : /\ f[0] = n
               /\ \A k \in 1 .. Len(ops) : f[k] = Step(f[k - 1], ops[k])
               /\ RunCode(n, ops) = f[Len(ops)]
  BY <1>1, RunCodeSteps
<1>3. PICK g : /\ g[0] = 0
               /\ \A k \in 1 .. Len(ops) : g[k] = g[k - 1] + ops[k][5]
               /\ Bytes(ops) = g[Len(ops)]
  BY <1>1, BytesAreSums
<1>4. \A k \in 0 .. Len(ops) : g[k] \in Nat
  BY <1>1, <1>3, SumsAreNumbers
<1>5. \A k \in Nat : k <= Len(ops) => g[k] <= Bytes(ops) /\ (k < Len(ops) => g[k] < Bytes(ops))
  <2> DEFINE S == {k \in Nat : k <= Len(ops) =>
                     /\ g[Len(ops) - k] <= Bytes(ops)
                     /\ k > 0 => g[Len(ops) - k] < Bytes(ops)}
  <2>1. 0 \in S
    <3>1. Len(ops) - 0 = Len(ops) /\ g[Len(ops)] \in Nat
      BY <1>1, <1>4
    <3> QED
      BY <1>3, <3>1
  <2>2. ASSUME NEW k \in Nat, k \in S PROVE k + 1 \in S
    <3> SUFFICES ASSUME k + 1 <= Len(ops) PROVE g[Len(ops) - (k + 1)] < Bytes(ops)
      <4>1. ASSUME k + 1 <= Len(ops), g[Len(ops) - (k + 1)] < Bytes(ops)
            PROVE  g[Len(ops) - (k + 1)] <= Bytes(ops)
        <5>1. Len(ops) - (k + 1) \in 0 .. Len(ops)
          BY <1>1, <4>1
        <5>2. g[Len(ops) - (k + 1)] \in Nat /\ Bytes(ops) \in Nat
          BY <1>1, <1>4, <5>1, Numbers
        <5> QED
          BY <4>1, <5>2
      <4> QED
        BY <4>1
    <3>1. PICK l : l = Len(ops) - k
      OBVIOUS
    <3>2. l \in 1 .. Len(ops) /\ l - 1 = Len(ops) - (k + 1) /\ l - 1 \in 0 .. Len(ops)
      BY <1>1, <3>1
    <3>3. g[l] <= Bytes(ops)
      BY <1>1, <2>2, <3>1
    <3>4. /\ g[l] = g[l - 1] + ops[l][5]
          /\ ops[l][5] > 0 /\ ops[l][5] \in Nat /\ g[l - 1] \in Nat /\ g[l] \in Nat
      BY <1>1, <1>3, <1>4, <3>2
    <3>5. Bytes(ops) \in Nat
      BY <1>1, Numbers
    <3> QED
      BY <3>2, <3>3, <3>4, <3>5
  <2>3. Nat \subseteq S
    <3> HIDE DEF S
    <3> QED
      BY <2>1, <2>2, Inductive
  <2>4. ASSUME NEW k \in Nat, k <= Len(ops)
        PROVE  g[k] <= Bytes(ops) /\ (k < Len(ops) => g[k] < Bytes(ops))
    <3>1. PICK l : l = Len(ops) - k
      OBVIOUS
    <3>2. l \in Nat /\ l <= Len(ops) /\ Len(ops) - l = k /\ (k < Len(ops) => l > 0)
      BY <1>1, <2>4, <3>1
    <3>3. l \in S
      BY <2>3, <3>2
    <3> QED
      BY <3>2, <3>3
  <2> QED
    BY <2>4
<1> DEFINE S == {k \in Nat : k <= Len(ops) => Same(n, f[k], R) /\ f[k].skip = Bytes(ops) - g[k]}
<1>6. 0 \in S
  <2>1. Bytes(ops) \in Nat
    BY <1>1, Numbers
  <2> QED
    BY <1>2, <1>3, <2>1 DEF Same
<1>7. ASSUME NEW k \in Nat, k \in S PROVE k + 1 \in S
  <2> SUFFICES ASSUME k + 1 <= Len(ops)
               PROVE  Same(n, f[k + 1], R) /\ f[k + 1].skip = Bytes(ops) - g[k + 1]
    OBVIOUS
  <2>1. /\ k + 1 \in 1 .. Len(ops) /\ (k + 1) - 1 = k
        /\ k < Len(ops) /\ k <= Len(ops) /\ k \in 0 .. Len(ops)
    BY <1>1
  <2>2. Same(n, f[k], R) /\ f[k].skip = Bytes(ops) - g[k]
    BY <1>7, <2>1
  <2>3. /\ Bytes(ops) \in Nat /\ g[k] \in Nat /\ g[k] < Bytes(ops)
        /\ g[k + 1] = g[k] + ops[k + 1][5] /\ ops[k + 1][5] \in Nat
    BY <1>1, <1>3, <1>4, <1>5, <2>1, Numbers
  <2>4. f[k].skip # 0
    BY <2>2, <2>3
  <2>5. f[k + 1] = [f[k] EXCEPT !.skip = @ - ops[k + 1][5]]
    BY <1>2, <2>1, <2>4 DEF Step
  <2>6. f[k + 1].skip = f[k].skip - ops[k + 1][5] /\ Same(n, f[k + 1], R)
    BY <2>2, <2>5 DEF Same, IsMachine
  <2> QED
    BY <2>2, <2>3, <2>6
<1>8. Nat \subseteq S
  <2> HIDE DEF S
  <2> QED
    BY <1>6, <1>7, Inductive
<1>9. Same(n, f[Len(ops)], R) /\ f[Len(ops)].skip = Bytes(ops) - g[Len(ops)]
  BY <1>1, <1>8
<1>10. Bytes(ops) \in Nat
  BY <1>1, Numbers
<1> QED
  BY <1>2, <1>3, <1>9, <1>10

\* Two pieces of code are executed one after the other.
LEMMA RunsJoin ==
    ASSUME NEW s, NEW t, IsList(s), IsList(t), NEW n
    PROVE  RunCode(n, s \o t) = RunCode(RunCode(n, s), t)
<1>1. PICK A, B : s \in Seq(A) /\ t \in Seq(B)
  BY DEF IsList
<1>2. PICK C : C = A \cup B
  OBVIOUS
<1>3. s \in Seq(C) /\ t \in Seq(C)
  BY <1>1, <1>2
<1>4. PICK a, b, u : a = Len(s) /\ b = Len(t) /\ u = s \o t
  OBVIOUS
<1>5. a \in Nat /\ b \in Nat /\ u \in Seq(C) /\ Len(u) = a + b
  BY <1>3, <1>4
<1>6. \A k \in 1 .. a + b : u[k] = IF k <= a THEN s[k] ELSE t[k - a]
  BY <1>3, <1>4
<1> PICK m1 : m1 = RunCode(n, s)
  OBVIOUS
<1> PICK m2 : m2 = RunCode(n, u)
  OBVIOUS
<1>9. IsList(u)
  BY <1>5 DEF IsList
<1>7. PICK f : f[0] = n /\ (\A k \in 1 .. a : f[k] = Step(f[k - 1], s[k])) /\ m1 = f[a]
  <2>1. PICK f : /\ f[0] = n /\ (\A k \in 1 .. Len(s) : f[k] = Step(f[k - 1], s[k]))
                 /\ RunCode(n, s) = f[Len(s)]
    BY RunCodeSteps
  <2> QED
    BY <1>4, <2>1
<1>8. PICK g : /\ g[0] = m1 /\ (\A k \in 1 .. b : g[k] = Step(g[k - 1], t[k]))
               /\ RunCode(m1, t) = g[b]
  <2>1. PICK g : /\ g[0] = m1 /\ (\A k \in 1 .. Len(t) : g[k] = Step(g[k - 1], t[k]))
                 /\ RunCode(m1, t) = g[Len(t)]
    BY RunCodeSteps
  <2> QED
    BY <1>4, <2>1
<1>10. PICK h : h[0] = n /\ (\A k \in 1 .. a + b : h[k] = Step(h[k - 1], u[k])) /\ m2 = h[a + b]
  <2>1. PICK h : /\ h[0] = n /\ (\A k \in 1 .. Len(u) : h[k] = Step(h[k - 1], u[k]))
                 /\ RunCode(n, u) = h[Len(u)]
    BY <1>9, RunCodeSteps
  <2> QED
    BY <1>5, <2>1
<1>11. \A k \in Nat : k <= a => h[k] = f[k]
  <2> DEFINE S == {k \in Nat : k <= a => h[k] = f[k]}
  <2>1. 0 \in S
    BY <1>7, <1>10
  <2>2. ASSUME NEW k \in Nat, k \in S PROVE k + 1 \in S
    <3> SUFFICES ASSUME k + 1 <= a PROVE h[k + 1] = f[k + 1]
      OBVIOUS
    <3>1. k + 1 \in 1 .. a /\ k + 1 \in 1 .. a + b /\ (k + 1) - 1 = k /\ h[k] = f[k]
      BY <1>5, <2>2
    <3>2. h[k + 1] = Step(h[k], u[k + 1]) /\ u[k + 1] = s[k + 1]
      BY <1>6, <1>10, <3>1
    <3>3. f[k + 1] = Step(f[k], s[k + 1])
      BY <1>7, <3>1
    <3> QED
      BY <3>1, <3>2, <3>3
  <2>3. Nat \subseteq S
    <3> HIDE DEF S
    <3> QED
      BY <2>1, <2>2, Inductive
  <2> QED
    BY <2>3
<1>12. \A k \in Nat : k <= b => h[a + k] = g[k]
  <2> DEFINE S == {k \in Nat : k <= b => h[a + k] = g[k]}
  <2>1. 0 \in S
    BY <1>5, <1>7, <1>8, <1>11
  <2>2. ASSUME NEW k \in Nat, k \in S PROVE k + 1 \in S
    <3> SUFFICES ASSUME k + 1 <= b PROVE h[a + (k + 1)] = g[k + 1]
      OBVIOUS
    <3>1. PICK l : l = a + k
      OBVIOUS
    <3>2. /\ k + 1 \in 1 .. b /\ l + 1 \in 1 .. a + b /\ (k + 1) - 1 = k /\ (l + 1) - 1 = l
          /\ a + (k + 1) = l + 1 /\ ~(l + 1 <= a) /\ (l + 1) - a = k + 1
      BY <1>5, <3>1
    <3>3. h[l] = g[k]
      BY <1>5, <2>2, <3>1, <3>2
    <3>4. h[l + 1] = Step(h[l], u[l + 1]) /\ u[l + 1] = t[k + 1]
      BY <1>6, <1>10, <3>2
    <3>5. g[k + 1] = Step(g[k], t[k + 1])
      BY <1>8, <3>2
    <3> QED
      BY <3>2, <3>3, <3>4, <3>5
  <2>3. Nat \subseteq S
    <3> HIDE DEF S
    <3> QED
      BY <2>1, <2>2, Inductive
  <2> QED
    BY <2>3
<1> QED
  BY <1>4, <1>5, <1>8, <1>10, <1>12

\* A branch forward to the end of the code.
LEMMA BranchKeeps ==
    ASSUME NEW R, NEW s, NEW v, NEW u, NEW t, Spares(s, R), Spares(t, R), Writes(v, R),
           \A k \in 1 .. Len(t) : t[k][5] > 0,
           u[1] = "bnez", u[2] - u[5] = Bytes(t)
    PROVE  Keeps((s \o <<v, u>>) \o t, R)
<1> SUFFICES ASSUME NEW n, IsMachine(n), n.skip = 0
             PROVE  /\ Same(n, RunCode(n, (s \o <<v, u>>) \o t), R)
                    /\ RunCode(n, (s \o <<v, u>>) \o t).skip = 0
  BY DEF Keeps
<1>1. PICK p : p = <<v, u>>
  OBVIOUS
<1>2. p \in Seq({v, u}) /\ Len(p) = 2 /\ p[1] = v /\ p[2] = u
  BY <1>1
<1>3. IsList(p) /\ IsList(s) /\ IsList(t)
  BY <1>2 DEF IsList, Spares, IsCode
<1>4. IsList(s \o p)
  <2>1. PICK A : s \in Seq(A)
    BY <1>3 DEF IsList
  <2>2. PICK B : B = A \cup {v, u}
    OBVIOUS
  <2>3. s \in Seq(B) /\ p \in Seq(B)
    BY <1>2, <2>1, <2>2
  <2>4. s \o p \in Seq(B)
    BY <2>3
  <2> QED
    BY <2>4 DEF IsList
<1>5. PICK a : a = RunCode(n, s)
  OBVIOUS
<1>6. Same(n, a, R) /\ a.skip = 0
  BY <1>5, SparesRun
<1> PICK c : c = RunCode(a, p)
  OBVIOUS
<1>7. PICK f : f[0] = a /\ (\A k \in 1 .. 2 : f[k] = Step(f[k - 1], p[k])) /\ c = f[2]
  <2>1. PICK f : /\ f[0] = a /\ (\A k \in 1 .. Len(p) : f[k] = Step(f[k - 1], p[k]))
                 /\ RunCode(a, p) = f[Len(p)]
    BY <1>3, RunCodeSteps
  <2> QED
    BY <1>2, <2>1
<1>8. PICK b : b = f[1]
  OBVIOUS
<1>9. Same(a, b, R) /\ b.skip = 0
  <2>1. b = Apply(a, v)
    BY <1>2, <1>6, <1>7, <1>8 DEF Step
  <2> QED
    BY <1>6, <2>1, ApplyWrites DEF Same
<1>10. c = Apply(b, u)
  BY <1>2, <1>7, <1>8, <1>9 DEF Step
<1>12. Same(n, c, R) /\ (c.skip = 0 \/ c.skip = Bytes(t))
  <2>1. c = b \/ c = [b EXCEPT !.skip = u[2] - u[5]]
    BY <1>10 DEF Apply
  <2> QED
    BY <1>6, <1>9, <2>1 DEF Same, IsMachine
<1>13. RunCode(n, (s \o p) \o t) = RunCode(c, t)
  BY <1>3, <1>4, <1>5, RunsJoin
<1>14. Same(c, RunCode(c, t), R) /\ RunCode(c, t).skip = 0
  BY <1>12, SparesRun, SkippedRun DEF Same
<1> QED
  BY <1>1, <1>12, <1>13, <1>14 DEF Same

\* Code given instruction by instruction.
LEMMA SparesOne ==
    ASSUME NEW R, NEW u1,
           Writes(u1, R),
           u1[5] \in Nat
    PROVE  Spares(<<u1>>, R)
<1>1. PICK s : s = <<u1>>
  OBVIOUS
<1>2. PICK U : U = {u1}
  OBVIOUS
<1>3. s \in Seq(U) /\ \A u \in U : u[5] \in Nat /\ Writes(u, R)
  BY <1>1, <1>2
<1>4. \A k \in 1 .. Len(s) : s[k] \in U
  BY <1>3
<1>5. IsCode(s)
  BY <1>3, <1>4 DEF IsCode
<1> QED
  BY <1>1, <1>3, <1>4, <1>5 DEF Spares

LEMMA SparesTwo ==
    ASSUME NEW R, NEW u1, NEW u2,
           Writes(u1, R), Writes(u2, R),
           u1[5] \in Nat, u2[5] \in Nat
    PROVE  Spares(<<u1, u2>>, R)
<1>1. PICK s : s = <<u1, u2>>
  OBVIOUS
<1>2. PICK U : U = {u1, u2}
  OBVIOUS
<1>3. s \in Seq(U) /\ \A u \in U : u[5] \in Nat /\ Writes(u, R)
  BY <1>1, <1>2
<1>4. \A k \in 1 .. Len(s) : s[k] \in U
  BY <1>3
<1>5. IsCode(s)
  BY <1>3, <1>4 DEF IsCode
<1> QED
  BY <1>1, <1>3, <1>4, <1>5 DEF Spares

LEMMA SparesThree ==
    ASSUME NEW R, NEW u1, NEW u2, NEW u3,
           Writes(u1, R), Writes(u2, R), Writes(u3, R),
           u1[5] \in Nat, u2[5] \in Nat, u3[5] \in Nat
    PROVE  Spares(<<u1, u2, u3>>, R)
<1>1. PICK s : s = <<u1, u2, u3>>
  OBVIOUS
<1>2. PICK U : U = {u1, u2, u3}
  OBVIOUS
<1>3. s \in Seq(U) /\ \A u \in U : u[5] \in Nat /\ Writes(u, R)
  BY <1>1, <1>2
<1>4. \A k \in 1 .. Len(s) : s[k] \in U
  BY <1>3
<1>5. IsCode(s)
  BY <1>3, <1>4 DEF IsCode
<1> QED
  BY <1>1, <1>3, <1>4, <1>5 DEF Spares

LEMMA SparesFour ==
    ASSUME NEW R, NEW u1, NEW u2, NEW u3, NEW u4,
           Writes(u1, R), Writes(u2, R), Writes(u3, R), Writes(u4, R),
           u1[5] \in Nat, u2[5] \in Nat, u3[5] \in Nat, u4[5] \in Nat
    PROVE  Spares(<<u1, u2, u3, u4>>, R)
<1>1. PICK s : s = <<u1, u2, u3, u4>>
  OBVIOUS
<1>2. PICK U : U = {u1, u2, u3, u4}
  OBVIOUS
<1>3. s \in Seq(U) /\ \A u \in U : u[5] \in Nat /\ Writes(u, R)
  BY <1>1, <1>2
<1>4. \A k \in 1 .. Len(s) : s[k] \in U
  BY <1>3
<1>5. IsCode(s)
  BY <1>3, <1>4 DEF IsCode
<1> QED
  BY <1>1, <1>3, <1>4, <1>5 DEF Spares

LEMMA SparesFive ==
    ASSUME NEW R, NEW u1, NEW u2, NEW u3, NEW u4, NEW u5,
           Writes(u1, R), Writes(u2, R), Writes(u3, R), Writes(u4, R), Writes(u5, R),
           u1[5] \in Nat, u2[5] \in Nat, u3[5] \in Nat, u4[5] \in Nat, u5[5] \in Nat
    PROVE  Spares(<<u1, u2, u3, u4, u5>>, R)
<1>1. PICK s : s = <<u1, u2, u3, u4, u5>>
  OBVIOUS
<1>2. PICK U : U = {u1, u2, u3, u4, u5}
  OBVIOUS
<1>3. s \in Seq(U) /\ \A u \in U : u[5] \in Nat /\ Writes(u, R)
  BY <1>1, <1>2
<1>4. \A k \in 1 .. Len(s) : s[k] \in U
  BY <1>3
<1>5. IsCode(s)
  BY <1>3, <1>4 DEF IsCode
<1> QED
  BY <1>1, <1>3, <1>4, <1>5 DEF Spares

LEMMA SparesSix ==
    ASSUME NEW R, NEW u1, NEW u2, NEW u3, NEW u4, NEW u5, NEW u6,
           Writes(u1, R), Writes(u2, R), Writes(u3, R), Writes(u4, R), Writes(u5, R), Writes(u6, R),
           u1[5] \in Nat, u2[5] \in Nat, u3[5] \in Nat, u4[5] \in Nat, u5[5] \in Nat, u6[5] \in Nat
    PROVE  Spares(<<u1, u2, u3, u4, u5, u6>>, R)
<1>1. PICK s : s = <<u1, u2, u3, u4, u5, u6>>
  OBVIOUS
<1>2. PICK U : U = {u1, u2, u3, u4, u5, u6}
  OBVIOUS
<1>3. s \in Seq(U) /\ \A u \in U : u[5] \in Nat /\ Writes(u, R)
  BY <1>1, <1>2
<1>4. \A k \in 1 .. Len(s) : s[k] \in U
  BY <1>3
<1>5. IsCode(s)
  BY <1>3, <1>4 DEF IsCode
<1> QED
  BY <1>1, <1>3, <1>4, <1>5 DEF Spares

LEMMA SparesEight ==
    ASSUME NEW R, NEW u1, NEW u2, NEW u3, NEW u4, NEW u5, NEW u6, NEW u7, NEW u8,
           Writes(u1, R), Writes(u2, R), Writes(u3, R), Writes(u4, R), Writes(u5, R), Writes(u6,
           R), Writes(u7, R), Writes(u8, R),
           u1[5] \in Nat, u2[5] \in Nat, u3[5] \in Nat, u4[5] \in Nat, u5[5] \in Nat,
           u6[5] \in Nat, u7[5] \in Nat, u8[5] \in Nat
    PROVE  Spares(<<u1, u2, u3, u4, u5, u6, u7, u8>>, R)
<1>1. PICK s : s = <<u1, u2, u3, u4, u5, u6, u7, u8>>
  OBVIOUS
<1>2. PICK U : U = {u1, u2, u3, u4, u5, u6, u7, u8}
  OBVIOUS
<1>3. s \in Seq(U) /\ \A u \in U : u[5] \in Nat /\ Writes(u, R)
  BY <1>1, <1>2
<1>4. \A k \in 1 .. Len(s) : s[k] \in U
  BY <1>3
<1>5. IsCode(s)
  BY <1>3, <1>4 DEF IsCode
<1> QED
  BY <1>1, <1>3, <1>4, <1>5 DEF Spares

\* The registers and the shift of an instruction.
LEMMA Operands ==
    ASSUME NEW isn \in Instructions
    PROVE  /\ isn.op \in InstructionType
           /\ isn.dst \in 0 .. 7 /\ isn.src \in 0 .. 7
           /\ isn.dst % 4 \in 0 .. 3 /\ isn.src % 4 \in 0 .. 3
           /\ isn.modShift \in 0 .. 3
           /\ <<"add", "add2", "add4", "add8">>[isn.modShift + 1]
                \in {"add", "add2", "add4", "add8"}
           /\ isn.modShift # 0
                => <<"add2", "add4", "add8">>[isn.modShift] \in {"add2", "add4", "add8"}
<1>1. /\ isn.op \in InstructionType
      /\ isn.dst \in 0 .. 7
      /\ isn.src \in 0 .. 7
      /\ isn.modShift \in 0 .. 3
  BY DEF Instructions
<1>2. isn.dst % 4 \in 0 .. 3 /\ isn.src % 4 \in 0 .. 3
  BY <1>1
<1>3. isn.modShift \in {0, 1, 2, 3}
  BY <1>1
<1> QED
  BY <1>1, <1>2, <1>3

\* Nothing in front of code is nothing.
LEMMA EmptyJoins ==
    ASSUME NEW s, NEW R, IsCode(s)
    PROVE  <<>> \o s = s
<1>1. PICK S : s \in Seq(S)
  BY DEF IsCode
<1> QED
  BY <1>1

-----------------------------------------------------------------------------
(* What the code for x86 and the assembly text keeps.                      *)

X86Free == Regs \ (X86!Reserved \cup X86!LoopRegisters)

\* rsi and the masks.
LEMMA X86ReservedAre == X86!Reserved = {6} \cup 58 .. 63
<1>1. X86!Reserved = {6} \cup UNION {{32 + 2 * k, 33 + 2 * k} : k \in {13, 14, 15}}
  BY DEF X86!Reserved, X86!rsi, X86!Lo, X86!Hi, X86!mantissaMaskReg, X86!exponentMaskReg,
         X86!scaleMaskReg
<1>2. \A x : x \in UNION {{32 + 2 * k, 33 + 2 * k} : k \in {13, 14, 15}} <=> x \in 58 .. 63
  <2>1. \A k \in {13, 14, 15} : 32 + 2 * k \in 58 .. 63 /\ 33 + 2 * k \in 58 .. 63
    OBVIOUS
  <2>2. \A x \in 58 .. 63 : \E k \in {13, 14, 15} : x = 32 + 2 * k \/ x = 33 + 2 * k
    OBVIOUS
  <2> QED
    BY <2>1, <2>2
<1> QED
  BY <1>1, <1>2

\* What the loop has in use is something else.
LEMMA X86Apart == X86!Reserved \subseteq Regs /\ X86!LoopRegisters \subseteq Regs \ X86!Reserved
  BY X86ReservedAre DEF X86!LoopRegisters, Regs

\* The registers the handlers write to are the program's own.
LEMMA X86Registers ==
    /\ X86!rax \in X86Free /\ X86!rcx \in X86Free /\ X86!rdx \in X86Free /\ X86!Temp \in X86Free
    /\ X86!Lo(X86!tempReg) \in X86Free /\ X86!Hi(X86!tempReg) \in X86Free
    /\ \A i \in 0 .. 7 : /\ X86!regR(i) \in X86Free
                        /\ X86!Lo(X86!regF(i)) \in X86Free /\ X86!Hi(X86!regF(i)) \in X86Free
    /\ \A i \in 0 .. 3 : X86!Lo(X86!regE(i)) \in X86Free /\ X86!Hi(X86!regE(i)) \in X86Free
  BY X86ReservedAre
     DEF X86Free, X86!LoopRegisters, Regs, X86!regR, X86!regF, X86!regE, X86!Lo, X86!Hi,
         X86!tempReg,
         X86!rax, X86!rcx, X86!rdx, X86!Temp

\* genAddressReg and genAddressRegDst.
LEMMA X86AddressSpares ==
    ASSUME NEW isn \in Instructions, NEW r \in X86Free
    PROVE  /\ Spares(X86!genAddressReg(isn, r), X86Free)
           /\ Spares(X86!genAddressRegDst(isn), X86Free)
  BY X86Registers, SparesTwo
     DEF X86!genAddressReg, X86!genAddressRegDst, X86!LeaAnd, X86!I, Writes, Pairs, Sinks

\* The load of a pair of floats.
LEMMA X86FloatSpares ==
    ASSUME NEW isn \in Instructions
    PROVE  Spares(X86!LoadFloat(isn), X86Free)
  BY X86AddressSpares, X86Registers, SparesTwo, SparesThree, SparesJoin
     DEF X86!LoadFloat, X86!Both, X86!I, Writes, Pairs, Sinks

\* Every handler, but for the branch in CFROUND.
LEMMA X86Spares ==
    ASSUME NEW isn \in Instructions, NEW v, isn.op # "CFROUND" \/ v = FALSE
    PROVE  Spares(X86!Handler(isn, v), X86Free)
<1>1. /\ isn.op \in InstructionType
      /\ isn.dst \in 0 .. 7 /\ isn.src \in 0 .. 7 /\ isn.dst % 4 \in 0 .. 3
      /\ <<"add", "add2", "add4", "add8">>[isn.modShift + 1] \in {"add", "add2", "add4", "add8"}
  BY Operands
<1>2. Spares(X86!h_IADD_RS(isn), X86Free)
  BY <1>1, SparesOne, SparesJoin, X86Registers
     DEF X86!h_IADD_RS, X86!Op2, X86!I, Writes, Pairs, Sinks
<1>3. /\ Spares(X86!h_ISUB_R(isn), X86Free)
      /\ Spares(X86!h_IMUL_R(isn), X86Free)
      /\ Spares(X86!h_IXOR_R(isn), X86Free)
      /\ Spares(X86!h_INEG_R(isn), X86Free)
  BY <1>1, SparesOne, X86Registers
     DEF X86!h_ISUB_R, X86!Op2, X86!I, X86!h_IMUL_R, X86!h_IXOR_R, X86!h_INEG_R, Writes, Pairs,
         Sinks
<1>4. /\ Spares(X86!h_IADD_M(isn), X86Free)
      /\ Spares(X86!h_ISUB_M(isn), X86Free)
      /\ Spares(X86!h_IMUL_M(isn), X86Free)
      /\ Spares(X86!h_IXOR_M(isn), X86Free)
  BY <1>1, SparesOne, SparesJoin, X86AddressSpares, X86Registers
     DEF X86!h_IADD_M, X86!OpM, X86!I, X86!Op2, X86!h_ISUB_M, X86!h_IMUL_M, X86!h_IXOR_M,
         Writes, Pairs, Sinks
<1>5. /\ Spares(X86!h_IMULH_R(isn), X86Free)
      /\ Spares(X86!h_ISMULH_R(isn), X86Free)
  BY <1>1, SparesOne, SparesTwo, SparesJoin, X86Registers
     DEF X86!h_IMULH_R, X86!MulR, X86!I, X86!Product, X86!h_ISMULH_R, Writes, Pairs, Sinks
<1>6. /\ Spares(X86!h_IMULH_M(isn), X86Free)
      /\ Spares(X86!h_ISMULH_M(isn), X86Free)
  BY <1>1, SparesOne, SparesTwo, SparesJoin, X86AddressSpares, X86Registers
     DEF X86!h_IMULH_M, X86!MulM, X86!I, X86!Product, X86!h_ISMULH_M, Writes, Pairs, Sinks
<1>7. Spares(X86!h_IMUL_RCP(isn), X86Free)
  BY <1>1, SparesNothing, SparesOne, SparesJoin, X86Registers
     DEF X86!h_IMUL_RCP, X86!I, X86!Op2, Writes, Pairs, Sinks
<1>8. /\ Spares(X86!h_IROR_R(isn), X86Free)
      /\ Spares(X86!h_IROL_R(isn), X86Free)
  BY <1>1, SparesOne, SparesJoin, X86Registers
     DEF X86!h_IROR_R, X86!Rotate, X86!I, X86!Op2, X86!h_IROL_R, Writes, Pairs, Sinks
<1>9. /\ Spares(X86!h_ISWAP_R(isn), X86Free)
      /\ Spares(X86!h_FSWAP_R(isn), X86Free)
      /\ Spares(X86!h_NOP, X86Free)
  BY <1>1, SparesNothing, SparesOne, X86Registers
     DEF X86!h_ISWAP_R, X86!I, X86!h_FSWAP_R, X86!h_NOP, Writes, Pairs, Sinks
<1>10. /\ Spares(X86!h_FADD_R(isn), X86Free)
       /\ Spares(X86!h_FSUB_R(isn), X86Free)
       /\ Spares(X86!h_FSCAL_R(isn), X86Free)
       /\ Spares(X86!h_FMUL_R(isn), X86Free)
       /\ Spares(X86!h_FSQRT_R(isn), X86Free)
  BY <1>1, SparesTwo, X86Registers
     DEF X86!h_FADD_R, X86!Packed, X86!Both, X86!I, X86!h_FSUB_R, X86!h_FSCAL_R, X86!h_FMUL_R,
         X86!h_FSQRT_R, X86!FloatDst, X86!FloatSrc, Writes, Pairs, Sinks
<1>11. /\ Spares(X86!h_FADD_M(isn), X86Free)
       /\ Spares(X86!h_FSUB_M(isn), X86Free)
  BY <1>1, SparesTwo, SparesJoin, X86FloatSpares, X86Registers
     DEF X86!h_FADD_M, X86!Packed, X86!Both, X86!I, X86!h_FSUB_M, X86!FloatDst, Writes, Pairs,
         Sinks
<1>12. Spares(X86!h_FDIV_M(isn), X86Free)
  BY <1>1, SparesTwo, SparesJoin, X86FloatSpares, X86Registers
     DEF X86!h_FDIV_M, X86!Packed, X86!Both, X86!I, X86!FloatDst, Writes, Pairs, Sinks
<1>13. Spares(X86!h_CBRANCH(isn), X86Free)
  BY <1>1, SparesOne, SparesJoin, X86Registers
     DEF X86!h_CBRANCH, X86!Op2, X86!I, Writes, Pairs, Sinks
<1>14. Spares(X86!h_CFROUND(isn, FALSE), X86Free)
  BY <1>1, SparesNothing, SparesOne, SparesTwo, SparesFour, SparesJoin, X86Registers
     DEF X86!h_CFROUND, X86!ToMxcsr, X86!I, X86!AndOrMovLdmxcsr, X86!ModePosition, Writes,
         Pairs, Sinks
<1>15. Spares(X86!h_ISTORE(isn), X86Free)
  BY <1>1, SparesOne, SparesJoin, X86AddressSpares, X86Registers
     DEF X86!h_ISTORE, X86!I, Writes, Pairs, Sinks
<1> QED
  BY <1>1, <1>2, <1>3, <1>4, <1>5, <1>6, <1>7, <1>8, <1>9, <1>10, <1>11, <1>12, <1>13, <1>14,
     <1>15
     DEF X86!Handler, InstructionType

\* The branch of RandomX v2's CFROUND.
LEMMA X86RoundKeeps ==
    ASSUME NEW isn \in Instructions
    PROVE  IsCode(X86!h_CFROUND(isn, TRUE)) /\ Keeps(X86!h_CFROUND(isn, TRUE), X86Free)
<1>1. PICK s : s = X86!ToMxcsr(isn)
  OBVIOUS
<1>2. PICK p, u : /\ p = X86!I("and32", X86!Temp, X86!rax, X86!Imm(60 * 2^X86!ModePosition), 5)
                  /\ u = X86!I("bnez", 19, X86!Temp, X86!Imm(X86!Size - 1), 2)
  OBVIOUS
<1>3. PICK t1, t2, t3, t4 :
        /\ t1 = X86!I("and32", X86!rax, X86!rax, X86!Imm(3 * 2^X86!ModePosition), 5)
        /\ t2 = X86!I("or", X86!rax, X86!rax, X86!Imm(X86!MxcsrBits), 5)
        /\ t3 = X86!I("nop", 0, 0, 0, 3)
        /\ t4 = X86!I("ldmxcsr", 0, X86!rax, 0, 4)
  OBVIOUS
<1>4. PICK t : t = <<t1, t2, t3, t4>>
  OBVIOUS
<1>5. X86!h_CFROUND(isn, TRUE) = (s \o <<p, u>>) \o t
  BY <1>1, <1>2, <1>3, <1>4 DEF X86!h_CFROUND, X86!AndOrMovLdmxcsr
<1>6. Spares(s, X86Free)
  BY <1>1, SparesNothing, SparesOne, SparesJoin, X86Registers
     DEF X86!ToMxcsr, X86!I, Writes, Pairs, Sinks
<1>7. t1[5] = 5 /\ t2[5] = 5 /\ t3[5] = 3 /\ t4[5] = 4
  BY <1>3 DEF X86!I
<1>8. Spares(t, X86Free) /\ Bytes(t) = 17 /\ \A k \in 1 .. Len(t) : t[k][5] > 0
  <2>1. Spares(t, X86Free)
    BY <1>3, <1>4, SparesFour, X86Registers DEF X86!I, Writes, Pairs, Sinks
  <2>2. Bytes(t) = t1[5] + t2[5] + t3[5] + t4[5]
    BY <1>4, <1>7, Four
  <2> QED
    BY <1>4, <1>7, <2>1, <2>2
<1>9. Writes(p, X86Free) /\ u[1] = "bnez" /\ u[2] - u[5] = 17
  BY <1>2, X86Registers DEF X86!I, Writes, Pairs, Sinks
<1>10. IsCode(<<p, u>>)
  BY <1>2, Two DEF X86!I
<1> QED
  BY <1>5, <1>6, <1>8, <1>9, <1>10, BranchKeeps, Joins DEF Spares

\* generateCode.
LEMMA X86Keeps ==
    ASSUME NEW s, NEW isn \in Instructions, NEW v \in BOOLEAN, "ops" \in DOMAIN s, s.ops = <<>>
    PROVE  Keeps(X86!generateCode(s, isn, v).ops, X86Free)
<1>1. CASE isn.op # "CFROUND" \/ v = FALSE
  <2>1. Spares(X86!Handler(isn, v), X86Free)
    BY <1>1, X86Spares
  <2>2. X86!generateCode(s, isn, v).ops = X86!Handler(isn, v)
    BY <2>1, EmptyJoins DEF X86!generateCode, X86!Emit, Spares
  <2> QED
    BY <2>1, <2>2, SparesKeeps
<1>2. CASE isn.op = "CFROUND" /\ v = TRUE
  <2>1. X86!generateCode(s, isn, v).ops = X86!h_CFROUND(isn, TRUE)
    BY <1>2, X86RoundKeeps, EmptyJoins DEF X86!generateCode, X86!Handler, X86!Emit
  <2> QED
    BY <2>1, X86RoundKeeps
<1> QED
  BY <1>1, <1>2

AsmFree == Regs \ (Asm!Reserved \cup X86!LoopRegisters)

\* The assembly generator has the registers of the compiler for x86.
LEMMA AsmReservedAre == Asm!Reserved = X86!Reserved
  BY DEF X86!Reserved, X86!rsi, X86!Lo, X86!Hi, X86!mantissaMaskReg, X86!exponentMaskReg,
         X86!scaleMaskReg, Asm!Reserved, Asm!regScratchpadAddr, Asm!Lo, Asm!Hi,
         Asm!mantissaMaskReg, Asm!exponentMaskReg, Asm!scaleMaskReg

\* The registers its lines write to are the program's own.
LEMMA AsmRegisters ==
    /\ Asm!rax \in AsmFree /\ Asm!rcx \in AsmFree /\ Asm!rdx \in AsmFree /\ Asm!operand \in AsmFree
    /\ Asm!Lo(Asm!tempRegx) \in AsmFree /\ Asm!Hi(Asm!tempRegx) \in AsmFree
    /\ \A i \in 0 .. 7 : /\ Asm!regR(i) \in AsmFree
                        /\ Asm!Lo(Asm!regF(i)) \in AsmFree /\ Asm!Hi(Asm!regF(i)) \in AsmFree
    /\ \A i \in 0 .. 3 : Asm!Lo(Asm!regE(i)) \in AsmFree /\ Asm!Hi(Asm!regE(i)) \in AsmFree
<1>1. AsmFree = X86Free
  BY AsmReservedAre DEF AsmFree, X86Free
<1> QED
  BY <1>1, X86Registers
     DEF X86!regR, X86!regF, X86!regE, X86!Lo, X86!Hi, X86!tempReg, X86!rax, X86!rcx, X86!rdx,
         X86!Temp,
         Asm!regR, Asm!regF, Asm!regE, Asm!Lo, Asm!Hi, Asm!tempRegx, Asm!rax, Asm!rcx, Asm!rdx,
         Asm!operand

\* genAddressReg and genAddressRegDst.
LEMMA AsmAddressSpares ==
    ASSUME NEW isn \in Instructions, NEW r \in AsmFree
    PROVE  /\ Spares(Asm!genAddressReg(isn, r), AsmFree)
           /\ Spares(Asm!genAddressRegDst(isn), AsmFree)
  BY AsmRegisters, SparesOne, SparesJoin
     DEF Asm!genAddressReg, Asm!genAddressRegDst, Asm!T, Asm!I, Writes, Pairs, Sinks

\* The load of a pair of floats.
LEMMA AsmFloatSpares ==
    ASSUME NEW isn \in Instructions
    PROVE  Spares(Asm!LoadFloat(isn), AsmFree)
  BY AsmAddressSpares, AsmRegisters, SparesOne, SparesTwo, SparesJoin
     DEF Asm!LoadFloat, Asm!T, Asm!Both, Asm!I, Writes, Pairs, Sinks

\* Every handler.
LEMMA AsmSpares ==
    ASSUME NEW isn \in Instructions
    PROVE  Spares(Asm!Handler(isn), AsmFree)
<1>1. /\ isn.op \in InstructionType
      /\ isn.dst \in 0 .. 7 /\ isn.src \in 0 .. 7 /\ isn.dst % 4 \in 0 .. 3
      /\ <<"add", "add2", "add4", "add8">>[isn.modShift + 1] \in {"add", "add2", "add4", "add8"}
  BY Operands
<1>2. Spares(Asm!h_IADD_RS(isn), AsmFree)
  BY <1>1, SparesNothing, SparesOne, SparesJoin, AsmRegisters
     DEF Asm!h_IADD_RS, Asm!T, Asm!I, Writes, Pairs, Sinks
<1>3. /\ Spares(Asm!h_ISUB_R(isn), AsmFree)
      /\ Spares(Asm!h_IMUL_R(isn), AsmFree)
      /\ Spares(Asm!h_IXOR_R(isn), AsmFree)
      /\ Spares(Asm!h_INEG_R(isn), AsmFree)
  BY <1>1, SparesOne, AsmRegisters
     DEF Asm!h_ISUB_R, Asm!RegisterForm, Asm!T, Asm!I, Asm!h_IMUL_R, Asm!h_IXOR_R, Asm!h_INEG_R,
         Writes, Pairs, Sinks
<1>4. /\ Spares(Asm!h_IADD_M(isn), AsmFree)
      /\ Spares(Asm!h_ISUB_M(isn), AsmFree)
      /\ Spares(Asm!h_IMUL_M(isn), AsmFree)
      /\ Spares(Asm!h_IXOR_M(isn), AsmFree)
  BY <1>1, SparesOne, SparesJoin, AsmAddressSpares, AsmRegisters
     DEF Asm!h_IADD_M, Asm!MemoryForm, Asm!T, Asm!I, Asm!h_ISUB_M, Asm!h_IMUL_M, Asm!h_IXOR_M,
         Writes, Pairs, Sinks
<1>5. /\ Spares(Asm!h_IMULH_R(isn), AsmFree)
      /\ Spares(Asm!h_ISMULH_R(isn), AsmFree)
  BY <1>1, SparesOne, SparesJoin, AsmRegisters
     DEF Asm!h_IMULH_R, Asm!HighForm, Asm!T, Asm!I, Asm!h_ISMULH_R, Writes, Pairs, Sinks
<1>6. /\ Spares(Asm!h_IMULH_M(isn), AsmFree)
      /\ Spares(Asm!h_ISMULH_M(isn), AsmFree)
  BY <1>1, SparesOne, SparesJoin, AsmAddressSpares, AsmRegisters
     DEF Asm!h_IMULH_M, Asm!HighMemory, Asm!T, Asm!HighForm, Asm!I, Asm!h_ISMULH_M, Writes,
         Pairs, Sinks
<1>7. Spares(Asm!h_IMUL_RCP(isn), AsmFree)
  BY <1>1, SparesNothing, SparesOne, SparesJoin, AsmRegisters
     DEF Asm!h_IMUL_RCP, Asm!T, Asm!I, Writes, Pairs, Sinks
<1>8. /\ Spares(Asm!h_IROR_R(isn), AsmFree)
      /\ Spares(Asm!h_IROL_R(isn), AsmFree)
  BY <1>1, SparesOne, SparesJoin, AsmRegisters
     DEF Asm!h_IROR_R, Asm!RotateForm, Asm!T, Asm!I, Asm!h_IROL_R, Writes, Pairs, Sinks
<1>9. /\ Spares(Asm!h_ISWAP_R(isn), AsmFree)
      /\ Spares(Asm!h_FSWAP_R(isn), AsmFree)
      /\ Spares(Asm!h_NOP, AsmFree)
  BY <1>1, SparesNothing, SparesOne, AsmRegisters
     DEF Asm!h_ISWAP_R, Asm!T, Asm!I, Asm!h_FSWAP_R, Asm!h_NOP, Writes, Pairs, Sinks
<1>10. /\ Spares(Asm!h_FADD_R(isn), AsmFree)
       /\ Spares(Asm!h_FSUB_R(isn), AsmFree)
       /\ Spares(Asm!h_FSCAL_R(isn), AsmFree)
       /\ Spares(Asm!h_FMUL_R(isn), AsmFree)
       /\ Spares(Asm!h_FSQRT_R(isn), AsmFree)
  BY <1>1, SparesTwo, AsmRegisters
     DEF Asm!h_FADD_R, Asm!Packed, Asm!Both, Asm!I, Asm!h_FSUB_R, Asm!h_FSCAL_R, Asm!h_FMUL_R,
         Asm!h_FSQRT_R, Writes, Pairs, Sinks
<1>11. /\ Spares(Asm!h_FADD_M(isn), AsmFree)
       /\ Spares(Asm!h_FSUB_M(isn), AsmFree)
  BY <1>1, SparesTwo, SparesJoin, AsmFloatSpares, AsmRegisters
     DEF Asm!h_FADD_M, Asm!Packed, Asm!Both, Asm!I, Asm!h_FSUB_M, Writes, Pairs, Sinks
<1>12. Spares(Asm!h_FDIV_M(isn), AsmFree)
  BY <1>1, SparesTwo, SparesJoin, AsmFloatSpares, AsmRegisters
     DEF Asm!h_FDIV_M, Asm!Packed, Asm!Both, Asm!I, Writes, Pairs, Sinks
<1>13. Spares(Asm!h_CBRANCH(isn), AsmFree)
  BY <1>1, SparesOne, SparesJoin, AsmRegisters
     DEF Asm!h_CBRANCH, Asm!T, Asm!I, Writes, Pairs, Sinks
<1>14. Spares(Asm!h_CFROUND(isn), AsmFree)
  BY <1>1, SparesOne, SparesJoin, AsmRegisters
     DEF Asm!h_CFROUND, Asm!T, Asm!I, Writes, Pairs, Sinks
<1>15. Spares(Asm!h_ISTORE(isn), AsmFree)
  BY <1>1, SparesOne, SparesJoin, AsmAddressSpares, AsmRegisters
     DEF Asm!h_ISTORE, Asm!T, Asm!I, Writes, Pairs, Sinks
<1> QED
  BY <1>1, <1>2, <1>3, <1>4, <1>5, <1>6, <1>7, <1>8, <1>9, <1>10, <1>11, <1>12, <1>13, <1>14,
     <1>15
     DEF Asm!Handler, InstructionType

\* generateCode.
LEMMA AsmKeeps ==
    ASSUME NEW s, NEW isn \in Instructions, "ops" \in DOMAIN s, s.ops = <<>>
    PROVE  Keeps(Asm!generateCode(s, isn).ops, AsmFree)
<1>1. Spares(Asm!Handler(isn), AsmFree)
  BY AsmSpares
<1>2. Asm!generateCode(s, isn).ops = Asm!Handler(isn)
  BY <1>1, EmptyJoins DEF Asm!generateCode, Asm!Emit, Spares
<1> QED
  BY <1>1, <1>2, SparesKeeps

-----------------------------------------------------------------------------
(* What the code for ARM64 keeps.                                          *)

A64Free == Regs \ (A64!Reserved \cup A64!LoopRegisters)
\* A state whose code keeps the other registers.
Clean(s) == "ops" \in DOMAIN s /\ Spares(s.ops, A64Free)

\* xzr, the scratchpad, the literals in registers and the masks.
LEMMA A64ReservedAre ==
    A64!Reserved \subseteq {0, 2, 11, 31} \cup 21 .. 30 \cup 90 .. 95 \cup 128 .. 191
<1>1. A64!Lanes \subseteq 128 .. 191
  BY DEF A64!Lanes, A64!Lane
<1>2. {A64!literal_regs[i] : i \in 1 .. 12} \subseteq {0, 11} \cup 21 .. 30
  <2>1. \A i \in 1 .. 12 : i \in {1, 2, 3, 4, 5, 6, 7, 8, 9, 10, 11, 12}
    OBVIOUS
  <2> QED
    BY <2>1 DEF A64!literal_regs
<1>3. UNION {{A64!Lo(k), A64!Hi(k)} : k \in {A64!and_mask_reg, A64!or_mask_reg, A64!scale_mask_reg}}
        \subseteq 90 .. 95
  <2>1. \A k \in {29, 30, 31} : 32 + 2 * k \in 90 .. 95 /\ 33 + 2 * k \in 90 .. 95
    OBVIOUS
  <2> QED
    BY <2>1 DEF A64!and_mask_reg, A64!or_mask_reg, A64!scale_mask_reg, A64!Lo, A64!Hi
<1>4. PICK L, N : /\ L = {A64!literal_regs[i] : i \in 1 .. 12}
                  /\ N = UNION {{A64!Lo(k), A64!Hi(k)} :
                                  k \in {A64!and_mask_reg, A64!or_mask_reg, A64!scale_mask_reg}}
  OBVIOUS
<1>5. A64!Reserved = {31, 2} \cup A64!Lanes \cup L \cup N
  BY <1>4 DEF A64!Reserved, A64!xzr, A64!scratchpad
<1>6. L \subseteq {0, 11} \cup 21 .. 30 /\ N \subseteq 90 .. 95
  BY <1>2, <1>3, <1>4
<1> QED
  BY <1>1, <1>5, <1>6

\* What the loop has in use is something else.
LEMMA A64Apart == A64!Reserved \subseteq Regs /\ A64!LoopRegisters \subseteq Regs \ A64!Reserved
  BY A64ReservedAre DEF A64!LoopRegisters, Regs

\* The registers the handlers write to are the program's own.
LEMMA A64Registers ==
    /\ \A i \in 0 .. 7 : A64!IntRegMap(i) \in A64Free
    /\ A64!tmp_reg \in A64Free /\ 19 \in A64Free /\ 20 \in A64Free /\ A64!fpcr_tmp_reg \in A64Free
    /\ A64!Lo(A64!tmp_reg_fp) \in A64Free /\ A64!Hi(A64!tmp_reg_fp) \in A64Free
    /\ \A i \in 0 .. 7 : A64!Lo(A64!regF(i)) \in A64Free /\ A64!Hi(A64!regF(i)) \in A64Free
    /\ \A i \in 0 .. 3 : A64!Lo(A64!regE(i)) \in A64Free /\ A64!Hi(A64!regE(i)) \in A64Free
<1>1. \A i \in 0 .. 7 : A64!IntRegMap(i) \in {4, 5, 6, 7, 12, 13, 14, 15}
  <2>1. \A i \in 0 .. 7 : i \in {0, 1, 2, 3, 4, 5, 6, 7}
    OBVIOUS
  <2> QED
    BY <2>1 DEF A64!IntRegMap
<1>2. \A k \in {4, 5, 6, 7, 8, 12, 13, 14, 15, 19, 20} \cup 64 .. 89 : k \in A64Free
  BY A64ReservedAre DEF A64Free, A64!LoopRegisters, Regs
<1> QED
  BY <1>1, <1>2
     DEF A64!tmp_reg, A64!fpcr_tmp_reg, A64!tmp_reg_fp, A64!Lo, A64!Hi, A64!regF, A64!regE

\* Emit appends code.
LEMMA EmitCleans ==
    ASSUME NEW s, NEW ops, Clean(s), Spares(ops, A64Free)
    PROVE  Clean(A64!Emit(s, ops))
  BY SparesJoin DEF A64!Emit, Clean

\* emitMovImmediate, with a literal or without.
LEMMA A64MovCleans ==
    ASSUME NEW s, NEW dst \in A64Free, NEW imm, Clean(s)
    PROVE  Clean(A64!emitMovImmediate(s, dst, imm))
<1>1. ASSUME NEW op \in {"sext", "zext"}
      PROVE  Clean(A64!Emit(s, A64!A(op, dst, A64!NextLane(s), 0)))
  BY SparesOne, EmitCleans DEF A64!A, A64!I, Writes, Pairs, Sinks
<1>2. Clean(A64!LiteralLane(s, dst, imm))
  <2>1. PICK op : op = IF A64!Negative(imm, ImmBits) THEN "sext" ELSE "zext"
    OBVIOUS
  <2>2. PICK t : t = A64!Emit(s, A64!A(op, dst, A64!NextLane(s), 0))
    OBVIOUS
  <2>3. Clean(t)
    BY <1>1, <2>1, <2>2
  <2>4. \E l, n : A64!LiteralLane(s, dst, imm) = [t EXCEPT !.literals = l, !.num32bitLiterals = n]
    BY <2>1, <2>2 DEF A64!LiteralLane
  <2> QED
    BY <2>3, <2>4 DEF Clean
<1> QED
  BY <1>2, SparesOne, SparesJoin, EmitCleans
     DEF A64!emitMovImmediate, A64!A, A64!I, Writes, Pairs, Sinks

\* emitAddImmediate.
LEMMA A64AddCleans ==
    ASSUME NEW s, NEW dst \in A64Free, NEW src, NEW imm, Clean(s)
    PROVE  Clean(A64!emitAddImmediate(s, dst, src, imm))
  BY A64MovCleans, A64Registers, SparesOne, SparesJoin, EmitCleans
     DEF A64!emitAddImmediate, A64!A, A64!I, Writes, Pairs, Sinks

\* emitMemLoad and emitMemLoadFP.
LEMMA A64LoadCleans ==
    ASSUME NEW s, NEW isn, Clean(s)
    PROVE  Clean(A64!emitMemLoad(s, isn)) /\ Clean(A64!emitMemLoadFP(s, isn))
  BY A64AddCleans, A64MovCleans, A64Registers, SparesOne, SparesTwo, SparesJoin, EmitCleans
     DEF A64!emitMemLoad, A64!emitMemLoadFP, A64!Both, A64!A, A64!I, Writes, Pairs, Sinks

\* Every handler, but for the branch in CFROUND.
LEMMA A64Cleans ==
    ASSUME NEW s, NEW isn \in Instructions, NEW v, Clean(s), isn.op # "CFROUND" \/ v = FALSE
    PROVE  Clean(A64!generateCode(s, isn, v))
<1>1. /\ isn.op \in InstructionType
      /\ isn.dst \in 0 .. 7 /\ isn.src \in 0 .. 7 /\ isn.dst % 4 \in 0 .. 3
      /\ <<"add", "add2", "add4", "add8">>[isn.modShift + 1] \in {"add", "add2", "add4", "add8"}
  BY Operands
<1>2. Clean(A64!h_IADD_RS(s, isn))
  <2>1. PICK op : op = <<"add", "add2", "add4", "add8">>[isn.modShift + 1]
    OBVIOUS
  <2>2. PICK t : t = A64!Emit(s, A64!Op3(op, isn, A64!IntRegMap(isn.src)))
    OBVIOUS
  <2>3. op \in {"add", "add2", "add4", "add8"}
    BY <1>1, <2>1
  <2>4. Clean(t)
    BY <1>1, <2>2, <2>3, A64Registers, SparesOne, EmitCleans
       DEF A64!Op3, A64!A, A64!I, Writes, Pairs, Sinks
  <2>5. A64!h_IADD_RS(s, isn) =
          IF isn.dst = 5
          THEN A64!emitAddImmediate(t, A64!IntRegMap(5), A64!IntRegMap(5), isn.imm) ELSE t
    BY <2>1, <2>2 DEF A64!h_IADD_RS
  <2> QED
    BY <2>4, <2>5, A64Registers, A64AddCleans
<1>3. /\ Clean(A64!h_ISUB_R(s, isn))
      /\ Clean(A64!h_IMUL_R(s, isn))
      /\ Clean(A64!h_IXOR_R(s, isn))
      /\ Clean(A64!h_INEG_R(s, isn))
  BY <1>1, A64MovCleans, A64AddCleans, SparesOne, EmitCleans, A64Registers
     DEF A64!h_ISUB_R, A64!Op3, A64!A, A64!I, A64!h_IMUL_R, A64!h_IXOR_R, A64!h_INEG_R, Writes,
         Pairs, Sinks
<1>4. /\ Clean(A64!h_IADD_M(s, isn))
      /\ Clean(A64!h_ISUB_M(s, isn))
      /\ Clean(A64!h_IMUL_M(s, isn))
      /\ Clean(A64!h_IXOR_M(s, isn))
  BY <1>1, A64LoadCleans, SparesOne, EmitCleans, A64Registers
     DEF A64!h_IADD_M, A64!Op3, A64!A, A64!I, A64!h_ISUB_M, A64!h_IMUL_M, A64!h_IXOR_M, Writes,
         Pairs, Sinks
<1>5. /\ Clean(A64!h_IMULH_R(s, isn))
      /\ Clean(A64!h_ISMULH_R(s, isn))
  BY <1>1, SparesOne, EmitCleans, A64Registers
     DEF A64!h_IMULH_R, A64!Op3, A64!A, A64!I, A64!h_ISMULH_R, Writes, Pairs, Sinks
<1>6. /\ Clean(A64!h_IMULH_M(s, isn))
      /\ Clean(A64!h_ISMULH_M(s, isn))
  BY <1>1, A64LoadCleans, SparesOne, EmitCleans, A64Registers
     DEF A64!h_IMULH_M, A64!Op3, A64!A, A64!I, A64!h_ISMULH_M, Writes, Pairs, Sinks
<1>7. Clean(A64!h_IMUL_RCP(s, isn))
  <2>1. PICK pos : pos = A64!LiteralPos(s.rcpCount)
    OBVIOUS
  <2>2. PICK t : t = [A64!WithLiteral(s, pos, A64!randomx_reciprocal(isn.imm))
                        EXCEPT !.rcpCount = @ + 1]
    OBVIOUS
  <2>3. Clean(t)
    BY <2>2 DEF A64!WithLiteral, Clean
  <2>4. PICK ops : ops = IF s.rcpCount < 12
                         THEN A64!Op3("mul", isn, A64!literal_regs[s.rcpCount + 1])
                         ELSE A64!A("lit", A64!tmp_reg, A64!Imm(pos), A64!Imm(0))
                              \o A64!Op3("mul", isn, A64!tmp_reg)
    OBVIOUS
  <2>5. Spares(ops, A64Free)
    BY <1>1, <2>4, A64Registers, SparesOne, SparesJoin
       DEF A64!Op3, A64!A, A64!I, Writes, Pairs, Sinks
  <2>6. A64!h_IMUL_RCP(s, isn) = IF A64!isZeroOrPowerOf2(isn.imm) THEN s ELSE A64!Emit(t, ops)
    BY <2>1, <2>2, <2>4 DEF A64!h_IMUL_RCP
  <2> QED
    BY <2>3, <2>5, <2>6, EmitCleans
<1>8. /\ Clean(A64!h_IROR_R(s, isn))
      /\ Clean(A64!h_IROL_R(s, isn))
  BY <1>1, SparesOne, SparesJoin, EmitCleans, A64Registers
     DEF A64!h_IROR_R, A64!Op3, A64!A, A64!I, A64!h_IROL_R, Writes, Pairs, Sinks
<1>9. /\ Clean(A64!h_ISWAP_R(s, isn))
      /\ Clean(A64!h_FSWAP_R(s, isn))
      /\ Clean(A64!h_NOP(s))
  BY <1>1, SparesOne, SparesJoin, EmitCleans, A64Registers
     DEF A64!h_ISWAP_R, A64!A, A64!I, A64!h_FSWAP_R, A64!h_NOP, Writes, Pairs, Sinks
<1>10. /\ Clean(A64!h_FADD_R(s, isn))
       /\ Clean(A64!h_FSUB_R(s, isn))
       /\ Clean(A64!h_FSCAL_R(s, isn))
       /\ Clean(A64!h_FMUL_R(s, isn))
       /\ Clean(A64!h_FSQRT_R(s, isn))
  BY <1>1, SparesTwo, EmitCleans, A64Registers
     DEF A64!h_FADD_R, A64!Packed, A64!Both, A64!I, A64!h_FSUB_R, A64!h_FSCAL_R, A64!h_FMUL_R,
         A64!h_FSQRT_R, A64!F4, A64!E4, A64!A4, Writes, Pairs, Sinks
<1>11. /\ Clean(A64!h_FADD_M(s, isn))
       /\ Clean(A64!h_FSUB_M(s, isn))
  BY <1>1, A64LoadCleans, SparesTwo, EmitCleans, A64Registers
     DEF A64!h_FADD_M, A64!Packed, A64!Both, A64!I, A64!h_FSUB_M, A64!F4, Writes, Pairs, Sinks
<1>12. Clean(A64!h_FDIV_M(s, isn))
  BY <1>1, A64LoadCleans, SparesTwo, SparesJoin, EmitCleans, A64Registers
     DEF A64!h_FDIV_M, A64!I, A64!Packed, A64!Both, A64!E4, Writes, Pairs, Sinks
<1>13. Clean(A64!h_CBRANCH(s, isn))
  BY <1>1, A64AddCleans, SparesOne, EmitCleans, A64Registers
     DEF A64!h_CBRANCH, A64!I, Writes, Pairs, Sinks
<1>14. Clean(A64!h_CFROUND(s, isn, FALSE))
  BY <1>1, SparesNothing, SparesOne, SparesTwo, SparesJoin, EmitCleans, A64Registers
     DEF A64!h_CFROUND, A64!A, A64!I, Writes, Pairs, Sinks
<1>15. Clean(A64!h_ISTORE(s, isn))
  BY <1>1, A64AddCleans, SparesOne, SparesJoin, EmitCleans, A64Registers
     DEF A64!h_ISTORE, A64!A, A64!I, Writes, Pairs, Sinks
<1> QED
  BY <1>1, <1>2, <1>3, <1>4, <1>5, <1>6, <1>7, <1>8, <1>9, <1>10, <1>11, <1>12, <1>13, <1>14,
     <1>15
     DEF A64!generateCode, InstructionType

\* Instructions appended one by one are appended together.
LEMMA Appended ==
    ASSUME NEW U, NEW f \in Seq(U), NEW a \in U, NEW b \in U, NEW c \in U
    PROVE  ((f \o <<a>>) \o <<b>>) \o <<c>> = f \o <<a, b, c>>
<1>1. PICK g, ga, gb, gc : g = <<a, b, c>> /\ ga = <<a>> /\ gb = <<b>> /\ gc = <<c>>
  OBVIOUS
<1>2. ga \in Seq(U) /\ gb \in Seq(U) /\ gc \in Seq(U) /\ gb \o gc \in Seq(U)
  BY <1>1
<1>3. ((f \o ga) \o gb) \o gc = f \o (ga \o (gb \o gc))
  <2>1. f \o ga \in Seq(U)
    BY <1>2
  <2>2. ((f \o ga) \o gb) \o gc = (f \o ga) \o (gb \o gc)
    BY <1>2, <2>1, ConcatAssociative
  <2>3. PICK w : w = gb \o gc
    OBVIOUS
  <2>4. (f \o ga) \o w = f \o (ga \o w)
    BY <1>2, <2>3, ConcatAssociative
  <2> QED
    BY <2>2, <2>3, <2>4
<1>4. ga \o (gb \o gc) = g
  <2>1. PICK w : w = <<b, c>>
    OBVIOUS
  <2>2. PICK h, k : h = gb \o gc /\ k = ga \o w
    OBVIOUS
  <2>3. w \in Seq(U) /\ Len(w) = 2 /\ w[1] = b /\ w[2] = c
    BY <2>1
  <2>4. h \in Seq(U) /\ Len(h) = 2 /\ h[1] = b /\ h[2] = c
    BY <1>1, <2>2
  <2>5. \A i \in 1 .. 2 : h[i] = w[i]
    BY <2>3, <2>4
  <2>6. h = w
    BY <2>3, <2>4, <2>5, SeqEqual
  <2>7. k \in Seq(U) /\ Len(k) = 3 /\ k[1] = a /\ k[2] = b /\ k[3] = c
    <3>1. ga \in Seq(U) /\ Len(ga) = 1 /\ ga[1] = a
      BY <1>1
    <3>2. /\ ga \o w \in Seq(U)
          /\ Len(ga \o w) = 1 + 2
          /\ \A i \in 1 .. 1 + 2 : (ga \o w)[i] = IF i <= 1 THEN ga[i] ELSE w[i - 1]
      <4>1. /\ ga \o w \in Seq(U)
            /\ Len(ga \o w) = Len(ga) + Len(w)
            /\ \A i \in 1 .. Len(ga) + Len(w) :
                 (ga \o w)[i] = IF i <= Len(ga) THEN ga[i] ELSE w[i - Len(ga)]
        BY <2>3, <3>1, ConcatProperties, Zenon
      <4> QED
        BY <2>3, <3>1, <4>1, Zenon
    <3>3. k \in Seq(U) /\ Len(k) = 3 /\ \A i \in 1 .. 3 : k[i] = IF i <= 1 THEN ga[i] ELSE w[i - 1]
      <4>1. 1 + 2 = 3
        OBVIOUS
      <4> QED
        BY <2>2, <3>2, <4>1
    <3>4. k[1] = ga[1] /\ k[2] = w[1] /\ k[3] = w[2]
      BY <3>3
    <3> QED
      BY <2>3, <3>1, <3>3, <3>4
  <2>8. g \in Seq(U) /\ Len(g) = 3 /\ g[1] = a /\ g[2] = b /\ g[3] = c
    BY <1>1
  <2>9. \A i \in 1 .. 3 : k[i] = g[i]
    BY <2>7, <2>8
  <2>10. k = g
    BY <2>7, <2>8, <2>9, SeqEqual
  <2> QED
    BY <2>2, <2>6, <2>10
<1> QED
  BY <1>1, <1>3, <1>4

\* The branch of RandomX v2's CFROUND.
LEMMA A64RoundKeeps ==
    ASSUME NEW s, NEW isn \in Instructions, "ops" \in DOMAIN s, s.ops = <<>>
    PROVE  Keeps(A64!h_CFROUND(s, isn, TRUE).ops, A64Free)
<1>1. PICK a, p, u :
        /\ a = A64!I("ror", A64!tmp_reg, A64!IntRegMap(isn.src), A64!Imm(isn.imm % 16), 4)
        /\ p = A64!I("nop", 0, 0, 0, 4)
        /\ u = A64!I("bnez", 16, A64!tmp_reg, A64!Imm(60), 4)
  OBVIOUS
<1>2. PICK t1, t2, t3 :
        /\ t1 = A64!I("bfi", A64!fpcr_tmp_reg, A64!tmp_reg, A64!Imm(10), 4)
        /\ t2 = A64!I("rbit", A64!tmp_reg, A64!fpcr_tmp_reg, 0, 4)
        /\ t3 = A64!I("msr", 0, A64!tmp_reg, 0, 4)
  OBVIOUS
<1>3. A64!h_CFROUND(s, isn, TRUE).ops =
        <<>> \o ((((<<a>> \o <<p, u>>) \o <<t1>>) \o <<t2>>) \o <<t3>>)
  BY <1>1, <1>2 DEF A64!h_CFROUND, A64!A, A64!Emit
<1>4. PICK q, t : q = <<a>> /\ t = <<t1, t2, t3>>
  OBVIOUS
<1>5. <<>> \o ((((<<a>> \o <<p, u>>) \o <<t1>>) \o <<t2>>) \o <<t3>>) = (q \o <<p, u>>) \o t
  <2>1. PICK U : U = {a, p, u, t1, t2, t3}
    OBVIOUS
  <2>2. PICK f : f = <<a>> \o <<p, u>>
    OBVIOUS
  <2>3. f \in Seq(U) /\ t1 \in U /\ t2 \in U /\ t3 \in U
    BY <2>1, <2>2
  <2>4. ((f \o <<t1>>) \o <<t2>>) \o <<t3>> = f \o <<t1, t2, t3>>
    BY <2>3, Appended
  <2>5. <<>> \o (f \o <<t1, t2, t3>>) = f \o <<t1, t2, t3>>
    BY <2>3
  <2> QED
    BY <1>4, <2>2, <2>4, <2>5
<1>6. Spares(q, A64Free) /\ Writes(p, A64Free)
  BY <1>1, <1>4, SparesOne, A64Registers, Operands DEF A64!I, Writes, Pairs, Sinks
<1>7. t1[5] = 4 /\ t2[5] = 4 /\ t3[5] = 4
  BY <1>2 DEF A64!I
<1>8. Spares(t, A64Free) /\ Bytes(t) = 12 /\ \A k \in 1 .. Len(t) : t[k][5] > 0
  <2>1. Spares(t, A64Free)
    BY <1>2, <1>4, SparesThree, A64Registers DEF A64!I, Writes, Pairs, Sinks
  <2>2. Bytes(t) = t1[5] + t2[5] + t3[5]
    BY <1>4, <1>7, Three
  <2> QED
    BY <1>4, <1>7, <2>1, <2>2
<1>9. u[1] = "bnez" /\ u[2] - u[5] = 12
  BY <1>1 DEF A64!I
<1> QED
  BY <1>3, <1>5, <1>6, <1>8, <1>9, BranchKeeps

\* generateCode.
LEMMA A64Keeps ==
    ASSUME NEW s, NEW isn \in Instructions, NEW v \in BOOLEAN, "ops" \in DOMAIN s, s.ops = <<>>
    PROVE  Keeps(A64!generateCode(s, isn, v).ops, A64Free)
<1>1. CASE isn.op # "CFROUND" \/ v = FALSE
  BY <1>1, A64Cleans, SparesNothing, SparesKeeps DEF Clean
<1>2. CASE isn.op = "CFROUND" /\ v = TRUE
  BY <1>2, A64RoundKeeps DEF A64!generateCode
<1> QED
  BY <1>1, <1>2

-----------------------------------------------------------------------------
(* What the code for RISC-V keeps, without and with the extensions.        *)

Rv64Free == Regs \ (Rv64!Reserved \cup Rv64!LoopRegisters)

\* x0, the pointers, the masks and the registers of reciprocals.
LEMMA Rv64ReservedAre ==
    Rv64!Reserved = {0, 1, 3, 5} \cup 10 .. 15 \cup 28 .. 31 \cup 122 .. 127
<1>1. Rv64!RcpRegisters = 28 .. 31 \cup 122 .. 127
  <2>1. \A x : x \in 28 .. 31 <=> \E i \in 0 .. 3 : x = 28 + i
    <3>1. \A x \in 28 .. 31 : x - 28 \in 0 .. 3 /\ x = 28 + (x - 28)
      OBVIOUS
    <3> QED
      BY <3>1
  <2>2. \A x : x \in 122 .. 127 <=> \E i \in 4 .. 9 : x = 96 + (22 + i)
    <3>1. \A x \in 122 .. 127 : x - 118 \in 4 .. 9 /\ x = 96 + (22 + (x - 118))
      OBVIOUS
    <3> QED
      BY <3>1
  <2> QED
    BY <2>1, <2>2 DEF Rv64!RcpRegisters, Rv64!regRcp, Rv64!regRcpF, Rv64!F
<1> QED
  BY <1>1
     DEF Rv64!Reserved, Rv64!LiteralPoolReg, Rv64!SpadReg, Rv64!MaskL1Reg, Rv64!MaskL2Reg,
         Rv64!MaskL3Reg, Rv64!MaskFscalReg, Rv64!MaskEclear, Rv64!MaskEsetLo, Rv64!MaskEsetHi

\* What the loop has in use is something else.
LEMMA Rv64Apart == Rv64!Reserved \subseteq Regs /\ Rv64!LoopRegisters \subseteq Regs \ Rv64!Reserved
  BY Rv64ReservedAre DEF Rv64!LoopRegisters, Regs

\* The registers the handlers write to are the program's own.
LEMMA Rv64Registers ==
    /\ Rv64!Tmp1Reg \in Rv64Free /\ Rv64!Tmp2Reg \in Rv64Free /\ Rv64!Tmp1Reg # 0
    /\ Rv64!Tmp1RegF \in Rv64Free /\ Rv64!Tmp2RegF \in Rv64Free
    /\ \A i \in 0 .. 7 : /\ Rv64!regR(i) \in Rv64Free
                        /\ Rv64!regLoF(i) \in Rv64Free /\ Rv64!regHiF(i) \in Rv64Free
    /\ \A i \in 0 .. 3 : Rv64!regLoE(i) \in Rv64Free /\ Rv64!regHiE(i) \in Rv64Free
  BY Rv64ReservedAre
     DEF Rv64!LoopRegisters, Rv64Free, Regs, Rv64!Tmp1Reg, Rv64!Tmp2Reg, Rv64!Tmp1RegF,
         Rv64!Tmp2RegF, Rv64!regR,
         Rv64!regLoF, Rv64!regHiF, Rv64!regLoE, Rv64!regHiE, Rv64!F

\* emitImm32: the constant's upper part goes to the destination or to tmp.
LEMMA Rv64Imm32Spares ==
    ASSUME NEW imm, NEW dst, NEW src, NEW tmp, dst \in Rv64Free, src # dst \/ tmp \in Rv64Free
    PROVE  Spares(Rv64!emitImm32(imm, dst, src, tmp), Rv64Free)
  BY SparesNothing, SparesOne, SparesJoin DEF Rv64!emitImm32, Rv64!I, Writes, Pairs, Sinks

\* The addresses of operands and their loads.
LEMMA Rv64AddressSpares ==
    ASSUME NEW isn \in Instructions
    PROVE  /\ Spares(Rv64!genAddressReg(isn), Rv64Free)
           /\ Spares(Rv64!genAddressRegDst(isn), Rv64Free)
           /\ Spares(Rv64!loadFromScratchpad(isn), Rv64Free)
           /\ Spares(Rv64!LoadFloat(isn), Rv64Free)
<1>1. Spares(Rv64!genAddressReg(isn), Rv64Free)
  BY Rv64Imm32Spares, Rv64Registers, SparesTwo, SparesJoin
     DEF Rv64!genAddressReg, Rv64!I, Writes, Pairs, Sinks
<1>2. Spares(Rv64!genAddressRegDst(isn), Rv64Free)
  BY Rv64Imm32Spares, Rv64Registers, SparesTwo, SparesJoin
     DEF Rv64!genAddressRegDst, Rv64!I, Writes, Pairs, Sinks
<1>3. Spares(Rv64!loadFromScratchpad(isn), Rv64Free)
  BY <1>1, Rv64Imm32Spares, Rv64Registers, SparesOne, SparesJoin
     DEF Rv64!loadFromScratchpad, Rv64!genAddressRegImm, Rv64!I, Writes, Pairs, Sinks
<1>4. Spares(Rv64!LoadFloat(isn), Rv64Free)
  BY <1>1, Rv64Registers, SparesFour, SparesJoin DEF Rv64!LoadFloat, Rv64!I, Writes, Pairs, Sinks
<1> QED
  BY <1>1, <1>2, <1>3, <1>4

\* Every handler but that of IMUL_RCP, and but for the branch in CFROUND.
LEMMA Rv64Spares ==
    ASSUME NEW isn \in Instructions, NEW v, isn.op # "IMUL_RCP", isn.op # "CFROUND" \/ v = FALSE
    PROVE  Spares(Rv64!Handler(isn, v), Rv64Free)
<1>1. /\ isn.op \in InstructionType
      /\ isn.dst \in 0 .. 7 /\ isn.src \in 0 .. 7
      /\ isn.dst % 4 \in 0 .. 3 /\ isn.modShift \in 0 .. 3
      /\ isn.modShift # 0 => <<"add2", "add4", "add8">>[isn.modShift] \in {"add2", "add4", "add8"}
  BY Operands
<1>2. Spares(Rv64!h_IADD_RS(isn), Rv64Free)
  BY <1>1, SparesNothing, SparesOne, SparesJoin, Rv64Imm32Spares, Rv64Registers
     DEF Rv64!h_IADD_RS, Rv64!Op3, Rv64!I, Writes, Pairs, Sinks
<1>3. /\ Spares(Rv64!h_ISUB_R(isn), Rv64Free)
      /\ Spares(Rv64!h_IMUL_R(isn), Rv64Free)
      /\ Spares(Rv64!h_IXOR_R(isn), Rv64Free)
      /\ Spares(Rv64!h_INEG_R(isn), Rv64Free)
  BY <1>1, SparesOne, SparesJoin, Rv64Imm32Spares, Rv64Registers
     DEF Rv64!h_ISUB_R, Rv64!Op3, Rv64!I, Rv64!h_IMUL_R, Rv64!h_IXOR_R, Rv64!h_INEG_R, Writes,
         Pairs, Sinks
<1>4. /\ Spares(Rv64!h_IADD_M(isn), Rv64Free)
      /\ Spares(Rv64!h_ISUB_M(isn), Rv64Free)
      /\ Spares(Rv64!h_IMUL_M(isn), Rv64Free)
      /\ Spares(Rv64!h_IXOR_M(isn), Rv64Free)
  BY <1>1, SparesOne, SparesJoin, Rv64AddressSpares, Rv64Registers
     DEF Rv64!h_IADD_M, Rv64!Op3, Rv64!I, Rv64!h_ISUB_M, Rv64!h_IMUL_M, Rv64!h_IXOR_M, Writes,
         Pairs, Sinks
<1>5. /\ Spares(Rv64!h_IMULH_R(isn), Rv64Free)
      /\ Spares(Rv64!h_ISMULH_R(isn), Rv64Free)
  BY <1>1, SparesOne, Rv64Registers
     DEF Rv64!h_IMULH_R, Rv64!Op3, Rv64!I, Rv64!h_ISMULH_R, Writes, Pairs, Sinks
<1>6. /\ Spares(Rv64!h_IMULH_M(isn), Rv64Free)
      /\ Spares(Rv64!h_ISMULH_M(isn), Rv64Free)
  BY <1>1, SparesOne, SparesJoin, Rv64AddressSpares, Rv64Registers
     DEF Rv64!h_IMULH_M, Rv64!Op3, Rv64!I, Rv64!h_ISMULH_M, Writes, Pairs, Sinks
<1>7. /\ Spares(Rv64!h_IROR_R(isn), Rv64Free)
      /\ Spares(Rv64!h_IROL_R(isn), Rv64Free)
  BY <1>1, SparesOne, SparesThree, SparesFour, Rv64Registers
     DEF Rv64!h_IROR_R, Rv64!Op3, Rv64!I, Rv64!h_IROL_R, Writes, Pairs, Sinks
<1>8. /\ Spares(Rv64!h_ISWAP_R(isn), Rv64Free)
      /\ Spares(Rv64!h_FSWAP_R(isn), Rv64Free)
      /\ Spares(Rv64!h_NOP, Rv64Free)
  BY <1>1, SparesNothing, SparesThree, Rv64Registers
     DEF Rv64!h_ISWAP_R, Rv64!I, Rv64!h_FSWAP_R, Rv64!h_NOP, Writes, Pairs, Sinks
<1>9. /\ Spares(Rv64!h_FADD_R(isn), Rv64Free)
      /\ Spares(Rv64!h_FSUB_R(isn), Rv64Free)
      /\ Spares(Rv64!h_FSCAL_R(isn), Rv64Free)
      /\ Spares(Rv64!h_FMUL_R(isn), Rv64Free)
      /\ Spares(Rv64!h_FSQRT_R(isn), Rv64Free)
  BY <1>1, SparesTwo, SparesSix, Rv64Registers
     DEF Rv64!h_FADD_R, Rv64!FloatPair, Rv64!I, Rv64!h_FSUB_R, Rv64!h_FSCAL_R, Rv64!h_FMUL_R,
         Rv64!h_FSQRT_R, Rv64!FloatDst, Rv64!FloatSrc, Writes, Pairs, Sinks
<1>10. /\ Spares(Rv64!h_FADD_M(isn), Rv64Free)
       /\ Spares(Rv64!h_FSUB_M(isn), Rv64Free)
  BY <1>1, SparesTwo, SparesJoin, Rv64AddressSpares, Rv64Registers
     DEF Rv64!h_FADD_M, Rv64!FloatPair, Rv64!I, Rv64!h_FSUB_M, Rv64!FloatDst, Writes, Pairs,
         Sinks
<1>11. Spares(Rv64!h_FDIV_M(isn), Rv64Free)
  BY <1>1, SparesTwo, SparesEight, SparesJoin, Rv64AddressSpares, Rv64Registers
     DEF Rv64!h_FDIV_M, Rv64!I, Rv64!FloatPair, Rv64!FloatDst, Writes, Pairs, Sinks
<1>12. Spares(Rv64!h_CBRANCH(isn), Rv64Free)
  BY <1>1, SparesTwo, SparesJoin, Rv64Imm32Spares, Rv64Registers
     DEF Rv64!h_CBRANCH, Rv64!I, Writes, Pairs, Sinks
<1>13. Spares(Rv64!h_CFROUND(isn, FALSE), Rv64Free)
  BY <1>1, SparesNothing, SparesOne, SparesTwo, SparesThree, SparesFour, SparesJoin,
     Rv64Registers
     DEF Rv64!h_CFROUND, Rv64!I, Writes, Pairs, Sinks
<1>14. Spares(Rv64!h_ISTORE(isn), Rv64Free)
  BY <1>1, SparesOne, SparesJoin, Rv64AddressSpares, Rv64Registers
     DEF Rv64!h_ISTORE, Rv64!I, Writes, Pairs, Sinks
<1> QED
  BY <1>1, <1>2, <1>3, <1>4, <1>5, <1>6, <1>7, <1>8, <1>9, <1>10, <1>11, <1>12, <1>13, <1>14
     DEF Rv64!Handler, InstructionType

\* The branch of RandomX v2's CFROUND.
LEMMA Rv64RoundKeeps ==
    ASSUME NEW isn \in Instructions
    PROVE  IsCode(Rv64!h_CFROUND(isn, TRUE)) /\ Keeps(Rv64!h_CFROUND(isn, TRUE), Rv64Free)
<1> DEFINE imm == (isn.imm - 2) % 16
           rotated == IF imm = 0 THEN Rv64!regR(isn.src) ELSE Rv64!Tmp1Reg
<1>1. PICK s : s = IF imm = 0 THEN <<>>
                   ELSE IF FALSE
                   THEN <<Rv64!I("ror", Rv64!Tmp1Reg, Rv64!regR(isn.src), Rv64!Imm(imm), 4)>>
                   ELSE <<Rv64!I("srl", Rv64!Tmp1Reg, Rv64!regR(isn.src), Rv64!Imm(imm), 4),
                          Rv64!I("sll", Rv64!Tmp2Reg, Rv64!regR(isn.src), Rv64!Imm((-imm) % 16), 4),
                          Rv64!I("or", Rv64!Tmp1Reg, Rv64!Tmp1Reg, Rv64!Tmp2Reg, 2)>>
  OBVIOUS
<1>2. PICK p, u : /\ p = Rv64!I("and", Rv64!Tmp2Reg, rotated, Rv64!Imm(240), 4)
                  /\ u = Rv64!I("bnez", IF imm = 0 THEN 14 ELSE 12, Rv64!Tmp2Reg,
                                    Rv64!Imm(Rv64!Size - 1), 2)
  OBVIOUS
<1>3. PICK t1, t2, t3, t4 :
        /\ t1 = Rv64!I("and", Rv64!Tmp1Reg, rotated, Rv64!Imm(12), IF imm = 0 THEN 4 ELSE 2)
        /\ t2 = Rv64!I("add", Rv64!Tmp1Reg, Rv64!Tmp1Reg, Rv64!LiteralPoolReg, 2)
        /\ t3 = Rv64!I("lit", Rv64!Tmp1Reg, Rv64!Tmp1Reg, Rv64!Imm(64), 2)
        /\ t4 = Rv64!I("fsrm", 0, Rv64!Tmp1Reg, 0, 4)
  OBVIOUS
<1>4. PICK t : t = <<t1, t2, t3, t4>>
  OBVIOUS
<1>5. Rv64!h_CFROUND(isn, TRUE) = (s \o <<p, u>>) \o t
  BY <1>1, <1>2, <1>3, <1>4 DEF Rv64!h_CFROUND
<1>6. Spares(s, Rv64Free)
  BY <1>1, SparesNothing, SparesOne, SparesThree, Rv64Registers DEF Rv64!I, Writes, Pairs, Sinks
<1>7. t1[5] = (IF imm = 0 THEN 4 ELSE 2) /\ t2[5] = 2 /\ t3[5] = 2 /\ t4[5] = 4
  BY <1>3 DEF Rv64!I
<1>8. /\ Spares(t, Rv64Free) /\ Bytes(t) = IF imm = 0 THEN 12 ELSE 10
      /\ \A k \in 1 .. Len(t) : t[k][5] > 0
  <2>1. Spares(t, Rv64Free)
    BY <1>3, <1>4, SparesFour, Rv64Registers DEF Rv64!I, Writes, Pairs, Sinks
  <2>2. Bytes(t) = t1[5] + t2[5] + t3[5] + t4[5]
    BY <1>4, <1>7, Four
  <2> QED
    BY <1>4, <1>7, <2>1, <2>2
<1>9. /\ Writes(p, Rv64Free)
      /\ u[1] = "bnez" /\ u[2] - u[5] = IF imm = 0 THEN 12 ELSE 10
  BY <1>2, Rv64Registers DEF Rv64!I, Writes, Pairs, Sinks
<1>10. IsCode(<<p, u>>)
  BY <1>2, Two DEF Rv64!I
<1> QED
  BY <1>5, <1>6, <1>8, <1>9, <1>10, BranchKeeps, Joins DEF Spares

\* emitInstruction.
LEMMA Rv64Keeps ==
    ASSUME NEW s, NEW isn \in Instructions, NEW v \in BOOLEAN, "ops" \in DOMAIN s, s.ops = <<>>
    PROVE  Keeps(Rv64!emitInstruction(s, isn, v).ops, Rv64Free)
<1>1. CASE isn.op = "IMUL_RCP"
  <2>1. isn.dst \in 0 .. 7
    BY Operands
  <2>2. PICK ops :
          ops = IF s.rcpCount < 4 THEN Rv64!Op3("mul", isn.dst, Rv64!regRcp(s.rcpCount), 4)
                ELSE <<IF s.rcpCount < 10
                       THEN Rv64!I("mov", Rv64!Tmp1Reg, Rv64!regRcpF(s.rcpCount), 0, 4)
                       ELSE Rv64!I("lit", Rv64!Tmp1Reg, Rv64!LiteralPoolReg,
                      Rv64!Imm(Rv64!SignedBits(Rv64!RcpLiteralsOffset + s.rcpCount * 8, 12)), 4)>>
                     \o Rv64!Op3("mul", isn.dst, Rv64!Tmp1Reg, 4)
    OBVIOUS
  <2>3. Spares(ops, Rv64Free)
    BY <2>1, <2>2, SparesOne, SparesJoin, Rv64Registers DEF Rv64!Op3, Rv64!I, Writes, Pairs, Sinks
  <2>4. PICK t : t = Emit(s, ops)
    OBVIOUS
  <2>5. t.ops = ops /\ "ops" \in DOMAIN t
    BY <2>3, <2>4, EmptyJoins DEF Emit, Spares
  <2>6. Rv64!emitInstruction(s, isn, v) = IF Rv64!isZeroOrPowerOf2(isn.imm) THEN s
                                ELSE Rv64!emitRcpLiteral1(t, Rv64!randomx_reciprocal(isn.imm))
    BY <1>1, <2>2, <2>4 DEF Rv64!emitInstruction, Rv64!h_IMUL_RCP, Rv64!Emit, Emit
  <2>7. Rv64!emitInstruction(s, isn, v).ops \in {<<>>, ops}
    BY <2>5, <2>6 DEF Rv64!emitRcpLiteral1, Rv64!WithLiteral
  <2> QED
    BY <2>3, <2>7, SparesNothing, SparesKeeps
<1>2. CASE isn.op # "IMUL_RCP" /\ (isn.op # "CFROUND" \/ v = FALSE)
  <2>1. Spares(Rv64!Handler(isn, v), Rv64Free)
    BY <1>2, Rv64Spares
  <2>2. Rv64!emitInstruction(s, isn, v).ops = Rv64!Handler(isn, v)
    BY <1>2, <2>1, EmptyJoins DEF Rv64!emitInstruction, Rv64!Emit, Spares
  <2> QED
    BY <2>1, <2>2, SparesKeeps
<1>3. CASE isn.op = "CFROUND" /\ v = TRUE
  <2>1. Rv64!emitInstruction(s, isn, v).ops = Rv64!h_CFROUND(isn, TRUE)
    BY <1>3, Rv64RoundKeeps, EmptyJoins DEF Rv64!emitInstruction, Rv64!Handler, Rv64!Emit
  <2> QED
    BY <2>1, Rv64RoundKeeps
<1> QED
  BY <1>1, <1>2, <1>3

Rv64ZFree == Regs \ (Rv64!Reserved \cup Rv64!LoopRegisters)

\* The registers the handlers write to are the program's own.
LEMMA Rv64ZRegisters ==
    /\ Rv64Z!Tmp1Reg \in Rv64ZFree /\ Rv64Z!Tmp2Reg \in Rv64ZFree /\ Rv64Z!Tmp1Reg # 0
    /\ Rv64Z!Tmp1RegF \in Rv64ZFree /\ Rv64Z!Tmp2RegF \in Rv64ZFree
    /\ \A i \in 0 .. 7 : /\ Rv64Z!regR(i) \in Rv64ZFree
                        /\ Rv64Z!regLoF(i) \in Rv64ZFree /\ Rv64Z!regHiF(i) \in Rv64ZFree
    /\ \A i \in 0 .. 3 : Rv64Z!regLoE(i) \in Rv64ZFree /\ Rv64Z!regHiE(i) \in Rv64ZFree
  BY Rv64ReservedAre
     DEF Rv64!LoopRegisters, Rv64ZFree, Regs, Rv64Z!Tmp1Reg, Rv64Z!Tmp2Reg, Rv64Z!Tmp1RegF,
         Rv64Z!Tmp2RegF, Rv64Z!regR,
         Rv64Z!regLoF, Rv64Z!regHiF, Rv64Z!regLoE, Rv64Z!regHiE, Rv64Z!F

\* emitImm32, with the extensions: the constant's upper part goes to the destination or to tmp.
LEMMA Rv64ZImm32Spares ==
    ASSUME NEW imm, NEW dst, NEW src, NEW tmp, dst \in Rv64ZFree, src # dst \/ tmp \in Rv64ZFree
    PROVE  Spares(Rv64Z!emitImm32(imm, dst, src, tmp), Rv64ZFree)
  BY SparesNothing, SparesOne, SparesJoin DEF Rv64Z!emitImm32, Rv64Z!I, Writes, Pairs, Sinks

\* The addresses of operands and their loads.
LEMMA Rv64ZAddressSpares ==
    ASSUME NEW isn \in Instructions
    PROVE  /\ Spares(Rv64Z!genAddressReg(isn), Rv64ZFree)
           /\ Spares(Rv64Z!genAddressRegDst(isn), Rv64ZFree)
           /\ Spares(Rv64Z!loadFromScratchpad(isn), Rv64ZFree)
           /\ Spares(Rv64Z!LoadFloat(isn), Rv64ZFree)
<1>1. Spares(Rv64Z!genAddressReg(isn), Rv64ZFree)
  BY Rv64ZImm32Spares, Rv64ZRegisters, SparesTwo, SparesJoin
     DEF Rv64Z!genAddressReg, Rv64Z!I, Writes, Pairs, Sinks
<1>2. Spares(Rv64Z!genAddressRegDst(isn), Rv64ZFree)
  BY Rv64ZImm32Spares, Rv64ZRegisters, SparesTwo, SparesJoin
     DEF Rv64Z!genAddressRegDst, Rv64Z!I, Writes, Pairs, Sinks
<1>3. Spares(Rv64Z!loadFromScratchpad(isn), Rv64ZFree)
  BY <1>1, Rv64ZImm32Spares, Rv64ZRegisters, SparesOne, SparesJoin
     DEF Rv64Z!loadFromScratchpad, Rv64Z!genAddressRegImm, Rv64Z!I, Writes, Pairs, Sinks
<1>4. Spares(Rv64Z!LoadFloat(isn), Rv64ZFree)
  BY <1>1, Rv64ZRegisters, SparesFour, SparesJoin DEF Rv64Z!LoadFloat, Rv64Z!I, Writes, Pairs, Sinks
<1> QED
  BY <1>1, <1>2, <1>3, <1>4

\* Every handler but that of IMUL_RCP, and but for the branch in CFROUND.
LEMMA Rv64ZSpares ==
    ASSUME NEW isn \in Instructions, NEW v, isn.op # "IMUL_RCP", isn.op # "CFROUND" \/ v = FALSE
    PROVE  Spares(Rv64Z!Handler(isn, v), Rv64ZFree)
<1>1. /\ isn.op \in InstructionType
      /\ isn.dst \in 0 .. 7 /\ isn.src \in 0 .. 7
      /\ isn.dst % 4 \in 0 .. 3 /\ isn.modShift \in 0 .. 3
      /\ isn.modShift # 0 => <<"add2", "add4", "add8">>[isn.modShift] \in {"add2", "add4", "add8"}
  BY Operands
<1>2. Spares(Rv64Z!h_IADD_RS(isn), Rv64ZFree)
  BY <1>1, SparesNothing, SparesOne, SparesJoin, Rv64ZImm32Spares, Rv64ZRegisters
     DEF Rv64Z!h_IADD_RS, Rv64Z!Op3, Rv64Z!I, Writes, Pairs, Sinks
<1>3. /\ Spares(Rv64Z!h_ISUB_R(isn), Rv64ZFree)
      /\ Spares(Rv64Z!h_IMUL_R(isn), Rv64ZFree)
      /\ Spares(Rv64Z!h_IXOR_R(isn), Rv64ZFree)
      /\ Spares(Rv64Z!h_INEG_R(isn), Rv64ZFree)
  BY <1>1, SparesOne, SparesJoin, Rv64ZImm32Spares, Rv64ZRegisters
     DEF Rv64Z!h_ISUB_R, Rv64Z!Op3, Rv64Z!I, Rv64Z!h_IMUL_R, Rv64Z!h_IXOR_R, Rv64Z!h_INEG_R,
         Writes, Pairs, Sinks
<1>4. /\ Spares(Rv64Z!h_IADD_M(isn), Rv64ZFree)
      /\ Spares(Rv64Z!h_ISUB_M(isn), Rv64ZFree)
      /\ Spares(Rv64Z!h_IMUL_M(isn), Rv64ZFree)
      /\ Spares(Rv64Z!h_IXOR_M(isn), Rv64ZFree)
  BY <1>1, SparesOne, SparesJoin, Rv64ZAddressSpares, Rv64ZRegisters
     DEF Rv64Z!h_IADD_M, Rv64Z!Op3, Rv64Z!I, Rv64Z!h_ISUB_M, Rv64Z!h_IMUL_M, Rv64Z!h_IXOR_M,
         Writes, Pairs, Sinks
<1>5. /\ Spares(Rv64Z!h_IMULH_R(isn), Rv64ZFree)
      /\ Spares(Rv64Z!h_ISMULH_R(isn), Rv64ZFree)
  BY <1>1, SparesOne, Rv64ZRegisters
     DEF Rv64Z!h_IMULH_R, Rv64Z!Op3, Rv64Z!I, Rv64Z!h_ISMULH_R, Writes, Pairs, Sinks
<1>6. /\ Spares(Rv64Z!h_IMULH_M(isn), Rv64ZFree)
      /\ Spares(Rv64Z!h_ISMULH_M(isn), Rv64ZFree)
  BY <1>1, SparesOne, SparesJoin, Rv64ZAddressSpares, Rv64ZRegisters
     DEF Rv64Z!h_IMULH_M, Rv64Z!Op3, Rv64Z!I, Rv64Z!h_ISMULH_M, Writes, Pairs, Sinks
<1>7. /\ Spares(Rv64Z!h_IROR_R(isn), Rv64ZFree)
      /\ Spares(Rv64Z!h_IROL_R(isn), Rv64ZFree)
  BY <1>1, SparesOne, SparesThree, SparesFour, Rv64ZRegisters
     DEF Rv64Z!h_IROR_R, Rv64Z!Op3, Rv64Z!I, Rv64Z!h_IROL_R, Writes, Pairs, Sinks
<1>8. /\ Spares(Rv64Z!h_ISWAP_R(isn), Rv64ZFree)
      /\ Spares(Rv64Z!h_FSWAP_R(isn), Rv64ZFree)
      /\ Spares(Rv64Z!h_NOP, Rv64ZFree)
  BY <1>1, SparesNothing, SparesThree, Rv64ZRegisters
     DEF Rv64Z!h_ISWAP_R, Rv64Z!I, Rv64Z!h_FSWAP_R, Rv64Z!h_NOP, Writes, Pairs, Sinks
<1>9. /\ Spares(Rv64Z!h_FADD_R(isn), Rv64ZFree)
      /\ Spares(Rv64Z!h_FSUB_R(isn), Rv64ZFree)
      /\ Spares(Rv64Z!h_FSCAL_R(isn), Rv64ZFree)
      /\ Spares(Rv64Z!h_FMUL_R(isn), Rv64ZFree)
      /\ Spares(Rv64Z!h_FSQRT_R(isn), Rv64ZFree)
  BY <1>1, SparesTwo, SparesSix, Rv64ZRegisters
     DEF Rv64Z!h_FADD_R, Rv64Z!FloatPair, Rv64Z!I, Rv64Z!h_FSUB_R, Rv64Z!h_FSCAL_R,
         Rv64Z!h_FMUL_R, Rv64Z!h_FSQRT_R, Rv64Z!FloatDst, Rv64Z!FloatSrc, Writes, Pairs, Sinks
<1>10. /\ Spares(Rv64Z!h_FADD_M(isn), Rv64ZFree)
       /\ Spares(Rv64Z!h_FSUB_M(isn), Rv64ZFree)
  BY <1>1, SparesTwo, SparesJoin, Rv64ZAddressSpares, Rv64ZRegisters
     DEF Rv64Z!h_FADD_M, Rv64Z!FloatPair, Rv64Z!I, Rv64Z!h_FSUB_M, Rv64Z!FloatDst, Writes,
         Pairs, Sinks
<1>11. Spares(Rv64Z!h_FDIV_M(isn), Rv64ZFree)
  BY <1>1, SparesTwo, SparesEight, SparesJoin, Rv64ZAddressSpares, Rv64ZRegisters
     DEF Rv64Z!h_FDIV_M, Rv64Z!I, Rv64Z!FloatPair, Rv64Z!FloatDst, Writes, Pairs, Sinks
<1>12. Spares(Rv64Z!h_CBRANCH(isn), Rv64ZFree)
  BY <1>1, SparesTwo, SparesJoin, Rv64ZImm32Spares, Rv64ZRegisters
     DEF Rv64Z!h_CBRANCH, Rv64Z!I, Writes, Pairs, Sinks
<1>13. Spares(Rv64Z!h_CFROUND(isn, FALSE), Rv64ZFree)
  BY <1>1, SparesNothing, SparesOne, SparesTwo, SparesThree, SparesFour, SparesJoin,
     Rv64ZRegisters
     DEF Rv64Z!h_CFROUND, Rv64Z!I, Writes, Pairs, Sinks
<1>14. Spares(Rv64Z!h_ISTORE(isn), Rv64ZFree)
  BY <1>1, SparesOne, SparesJoin, Rv64ZAddressSpares, Rv64ZRegisters
     DEF Rv64Z!h_ISTORE, Rv64Z!I, Writes, Pairs, Sinks
<1> QED
  BY <1>1, <1>2, <1>3, <1>4, <1>5, <1>6, <1>7, <1>8, <1>9, <1>10, <1>11, <1>12, <1>13, <1>14
     DEF Rv64Z!Handler, InstructionType

\* The branch of RandomX v2's CFROUND.
LEMMA Rv64ZRoundKeeps ==
    ASSUME NEW isn \in Instructions
    PROVE  IsCode(Rv64Z!h_CFROUND(isn, TRUE)) /\ Keeps(Rv64Z!h_CFROUND(isn, TRUE), Rv64ZFree)
<1> DEFINE imm == (isn.imm - 2) % 16
           rotated == IF imm = 0 THEN Rv64Z!regR(isn.src) ELSE Rv64Z!Tmp1Reg
<1>1. PICK s : s = IF imm = 0 THEN <<>>
                   ELSE IF TRUE
                   THEN <<Rv64Z!I("ror", Rv64Z!Tmp1Reg, Rv64Z!regR(isn.src), Rv64Z!Imm(imm), 4)>>
                   ELSE <<Rv64Z!I("srl", Rv64Z!Tmp1Reg, Rv64Z!regR(isn.src), Rv64Z!Imm(imm), 4),
                          Rv64Z!I("sll", Rv64Z!Tmp2Reg, Rv64Z!regR(isn.src),
                                  Rv64Z!Imm((-imm) % 16), 4),
                          Rv64Z!I("or", Rv64Z!Tmp1Reg, Rv64Z!Tmp1Reg, Rv64Z!Tmp2Reg, 2)>>
  OBVIOUS
<1>2. PICK p, u : /\ p = Rv64Z!I("and", Rv64Z!Tmp2Reg, rotated, Rv64Z!Imm(240), 4)
                  /\ u = Rv64Z!I("bnez", IF imm = 0 THEN 14 ELSE 12, Rv64Z!Tmp2Reg,
                                    Rv64Z!Imm(Rv64Z!Size - 1), 2)
  OBVIOUS
<1>3. PICK t1, t2, t3, t4 :
        /\ t1 = Rv64Z!I("and", Rv64Z!Tmp1Reg, rotated, Rv64Z!Imm(12), IF imm = 0 THEN 4 ELSE 2)
        /\ t2 = Rv64Z!I("add", Rv64Z!Tmp1Reg, Rv64Z!Tmp1Reg, Rv64Z!LiteralPoolReg, 2)
        /\ t3 = Rv64Z!I("lit", Rv64Z!Tmp1Reg, Rv64Z!Tmp1Reg, Rv64Z!Imm(64), 2)
        /\ t4 = Rv64Z!I("fsrm", 0, Rv64Z!Tmp1Reg, 0, 4)
  OBVIOUS
<1>4. PICK t : t = <<t1, t2, t3, t4>>
  OBVIOUS
<1>5. Rv64Z!h_CFROUND(isn, TRUE) = (s \o <<p, u>>) \o t
  BY <1>1, <1>2, <1>3, <1>4 DEF Rv64Z!h_CFROUND
<1>6. Spares(s, Rv64ZFree)
  BY <1>1, SparesNothing, SparesOne, SparesThree, Rv64ZRegisters DEF Rv64Z!I, Writes, Pairs, Sinks
<1>7. t1[5] = (IF imm = 0 THEN 4 ELSE 2) /\ t2[5] = 2 /\ t3[5] = 2 /\ t4[5] = 4
  BY <1>3 DEF Rv64Z!I
<1>8. /\ Spares(t, Rv64ZFree) /\ Bytes(t) = IF imm = 0 THEN 12 ELSE 10
      /\ \A k \in 1 .. Len(t) : t[k][5] > 0
  <2>1. Spares(t, Rv64ZFree)
    BY <1>3, <1>4, SparesFour, Rv64ZRegisters DEF Rv64Z!I, Writes, Pairs, Sinks
  <2>2. Bytes(t) = t1[5] + t2[5] + t3[5] + t4[5]
    BY <1>4, <1>7, Four
  <2> QED
    BY <1>4, <1>7, <2>1, <2>2
<1>9. /\ Writes(p, Rv64ZFree)
      /\ u[1] = "bnez" /\ u[2] - u[5] = IF imm = 0 THEN 12 ELSE 10
  BY <1>2, Rv64ZRegisters DEF Rv64Z!I, Writes, Pairs, Sinks
<1>10. IsCode(<<p, u>>)
  BY <1>2, Two DEF Rv64Z!I
<1> QED
  BY <1>5, <1>6, <1>8, <1>9, <1>10, BranchKeeps, Joins DEF Spares

\* emitInstruction.
LEMMA Rv64ZKeeps ==
    ASSUME NEW s, NEW isn \in Instructions, NEW v \in BOOLEAN, "ops" \in DOMAIN s, s.ops = <<>>
    PROVE  Keeps(Rv64Z!emitInstruction(s, isn, v).ops, Rv64ZFree)
<1>1. CASE isn.op = "IMUL_RCP"
  <2>1. isn.dst \in 0 .. 7
    BY Operands
  <2>2. PICK ops :
          ops = IF s.rcpCount < 4 THEN Rv64Z!Op3("mul", isn.dst, Rv64Z!regRcp(s.rcpCount), 4)
                ELSE <<IF s.rcpCount < 10
                       THEN Rv64Z!I("mov", Rv64Z!Tmp1Reg, Rv64Z!regRcpF(s.rcpCount), 0, 4)
                       ELSE Rv64Z!I("lit", Rv64Z!Tmp1Reg, Rv64Z!LiteralPoolReg,
                   Rv64Z!Imm(Rv64Z!SignedBits(Rv64Z!RcpLiteralsOffset + s.rcpCount * 8, 12)), 4)>>
                     \o Rv64Z!Op3("mul", isn.dst, Rv64Z!Tmp1Reg, 4)
    OBVIOUS
  <2>3. Spares(ops, Rv64ZFree)
    BY <2>1, <2>2, SparesOne, SparesJoin, Rv64ZRegisters
       DEF Rv64Z!Op3, Rv64Z!I, Writes, Pairs, Sinks
  <2>4. PICK t : t = Emit(s, ops)
    OBVIOUS
  <2>5. t.ops = ops /\ "ops" \in DOMAIN t
    BY <2>3, <2>4, EmptyJoins DEF Emit, Spares
  <2>6. Rv64Z!emitInstruction(s, isn, v) = IF Rv64Z!isZeroOrPowerOf2(isn.imm) THEN s
                                ELSE Rv64Z!emitRcpLiteral1(t, Rv64Z!randomx_reciprocal(isn.imm))
    BY <1>1, <2>2, <2>4 DEF Rv64Z!emitInstruction, Rv64Z!h_IMUL_RCP, Rv64Z!Emit, Emit
  <2>7. Rv64Z!emitInstruction(s, isn, v).ops \in {<<>>, ops}
    BY <2>5, <2>6 DEF Rv64Z!emitRcpLiteral1, Rv64Z!WithLiteral
  <2> QED
    BY <2>3, <2>7, SparesNothing, SparesKeeps
<1>2. CASE isn.op # "IMUL_RCP" /\ (isn.op # "CFROUND" \/ v = FALSE)
  <2>1. Spares(Rv64Z!Handler(isn, v), Rv64ZFree)
    BY <1>2, Rv64ZSpares
  <2>2. Rv64Z!emitInstruction(s, isn, v).ops = Rv64Z!Handler(isn, v)
    BY <1>2, <2>1, EmptyJoins DEF Rv64Z!emitInstruction, Rv64Z!Emit, Spares
  <2> QED
    BY <2>1, <2>2, SparesKeeps
<1>3. CASE isn.op = "CFROUND" /\ v = TRUE
  <2>1. Rv64Z!emitInstruction(s, isn, v).ops = Rv64Z!h_CFROUND(isn, TRUE)
    BY <1>3, Rv64ZRoundKeeps, EmptyJoins DEF Rv64Z!emitInstruction, Rv64Z!Handler, Rv64Z!Emit
  <2> QED
    BY <2>1, Rv64ZRoundKeeps
<1> QED
  BY <1>1, <1>2, <1>3

-----------------------------------------------------------------------------
(* What the code for RISC-V vectors keeps, without and with the extensions.*)

RvvFree == Regs \ (Rvv!Reserved \cup Rvv!LoopRegisters)

\* x0, the pointers, the masks and the registers of reciprocals; what the loop has in use.
LEMMA RvvReservedAre ==
    /\ Rvv!Reserved \subseteq {0, 1, 7, 8, 10, 12, 16, 17, 18} \cup 28 .. 31 \cup 56 .. 61
                                \cup 96 .. 103 \cup 106 .. 113 \cup 124 .. 127
    /\ Rvv!LoopRegisters \subseteq {2, 3, 4, 9, 11, 13, 14, 15, 19, 62, 63} \cup 72 .. 87
                                     \cup {104, 105} \cup 114 .. 123
<1> DEFINE Rcp == {8, 10} \cup 28 .. 31 \cup 96 .. 103 \cup 106 .. 113 \cup 124 .. 127
           Masks == 56 .. 61
           Vectors == {62, 63} \cup 72 .. 87
<1>1. Rvv!RcpRegisters \subseteq Rcp
  <2>1. PICK s1, s2, s3, s4 : /\ s1 = <<8, 10, 28, 29, 30, 31>>
                              /\ s2 = [i \in 1 .. 8 |-> Rvv!F(i - 1)]
                              /\ s3 = [i \in 1 .. 8 |-> Rvv!F(i + 9)]
                              /\ s4 = [i \in 1 .. 4 |-> Rvv!F(i + 27)]
    OBVIOUS
  <2>2. s1 \in Seq(Rcp)
    BY <2>1
  <2>3. s2 \in Seq(Rcp) /\ s3 \in Seq(Rcp) /\ s4 \in Seq(Rcp)
    <3>1. \A i \in 1 .. 8 : Rvv!F(i - 1) \in Rcp /\ Rvv!F(i + 9) \in Rcp
      BY DEF Rvv!F
    <3>2. \A i \in 1 .. 4 : Rvv!F(i + 27) \in Rcp
      BY DEF Rvv!F
    <3> HIDE DEF Rcp
    <3> QED
      BY <2>1, <3>1, <3>2
  <2> HIDE DEF Rcp
  <2>4. PICK s : s = ((s1 \o s2) \o s3) \o s4
    OBVIOUS
  <2>5. s \in Seq(Rcp)
    BY <2>2, <2>3, <2>4
  <2>6. \A i \in DOMAIN s : s[i] \in Rcp
    BY <2>5
  <2>7. Rvv!rcp_regs = s
    BY <2>1, <2>4 DEF Rvv!rcp_regs
  <2> QED
    BY <2>6, <2>7 DEF Rvv!RcpRegisters
<1>2. UNION {{Rvv!Lo(k), Rvv!Hi(k)} : k \in {Rvv!EAndMask, Rvv!EOrMask, Rvv!ScaleMask}}
        \subseteq Masks
  <2>1. \A k \in {12, 13, 14} : 32 + 2 * k \in Masks /\ 33 + 2 * k \in Masks
    OBVIOUS
  <2> QED
    BY <2>1 DEF Rvv!EAndMask, Rvv!EOrMask, Rvv!ScaleMask, Rvv!Lo, Rvv!Hi
<1>3. UNION {{Rvv!Lo(k), Rvv!Hi(k)} : k \in {15} \cup 20 .. 27} \subseteq Vectors
  <2>1. \A k \in {15} \cup 20 .. 27 : 32 + 2 * k \in Vectors /\ 33 + 2 * k \in Vectors
    OBVIOUS
  <2> QED
    BY <2>1 DEF Rvv!Lo, Rvv!Hi
<1>4. Rvv!Reserved \subseteq {0, 1, 7, 12, 16, 17, 18} \cup Rcp \cup Masks
  <2> HIDE DEF Rcp, Masks, Vectors
  <2> QED
    BY <1>1, <1>2
       DEF Rvv!Reserved, Rvv!BranchMask, Rvv!Scratchpad, Rvv!MaskL1, Rvv!MaskL2, Rvv!MaskL3,
           Rvv!LiteralsPointer
<1>5. Rvv!LoopRegisters
        \subseteq {2, 3, 4, 9, 11, 13, 14, 15, 19, 104, 105} \cup 114 .. 123 \cup Vectors
  <2>1. Rvv!F(8) = 104 /\ Rvv!F(9) = 105 /\ Rvv!F(18) = 114 /\ Rvv!F(27) = 123
    BY DEF Rvv!F
  <2> HIDE DEF Rcp, Masks, Vectors
  <2> QED
    BY <1>3, <2>1 DEF Rvv!LoopRegisters
<1> QED
  BY <1>4, <1>5

\* The two are apart.
LEMMA RvvApart == Rvv!Reserved \subseteq Regs /\ Rvv!LoopRegisters \subseteq Regs \ Rvv!Reserved
<1>1. Rvv!Reserved \subseteq Regs /\ Rvv!LoopRegisters \subseteq Regs
  BY RvvReservedAre DEF Regs
<1>2. \A k \in Rvv!LoopRegisters : k \notin Rvv!Reserved
  BY RvvReservedAre
<1> QED
  BY <1>1, <1>2

\* The registers the cases write to are the program's own.
LEMMA RvvRegisters ==
    /\ Rvv!x5 \in RvvFree /\ Rvv!x6 \in RvvFree
    /\ \A i \in 0 .. 7 : /\ Rvv!r(i) \in RvvFree
                        /\ Rvv!Lo(Rvv!f(i)) \in RvvFree /\ Rvv!Hi(Rvv!f(i)) \in RvvFree
    /\ \A i \in 0 .. 3 : Rvv!Lo(Rvv!e(i)) \in RvvFree /\ Rvv!Hi(Rvv!e(i)) \in RvvFree
    /\ Rvv!Lo(Rvv!Temp16) \in RvvFree /\ Rvv!Hi(Rvv!Temp16) \in RvvFree
    /\ Rvv!Lo(Rvv!Temp18) \in RvvFree /\ Rvv!Hi(Rvv!Temp18) \in RvvFree
  BY RvvReservedAre
     DEF RvvFree, Regs, Rvv!x5, Rvv!x6, Rvv!r, Rvv!f, Rvv!e, Rvv!Lo, Rvv!Hi, Rvv!Temp16, Rvv!Temp18

\* imm_to_x5.
LEMMA RvvImmSpares ==
    ASSUME NEW imm
    PROVE  Spares(Rvv!imm_to_x5(imm), RvvFree)
<1>1. PICK upper : upper = Rvv!I("mov", Rvv!x5, Rvv!Imm(Rvv!SignExtend(
                     (((imm + IF Rvv!Negative(imm, LowBits) THEN 2^LowBits ELSE 0)
                        % Rvv!Half) \div 2^LowBits)
                       * 2^LowBits)), 0, 4)
  OBVIOUS
<1>2. /\ Writes(upper, RvvFree) /\ upper[5] = 4
      /\ Writes([upper EXCEPT ![5] = 2], RvvFree) /\ [upper EXCEPT ![5] = 2][5] = 2
  BY <1>1, RvvRegisters DEF Rvv!I, Writes, Pairs, Sinks
<1> QED
  BY <1>1, <1>2, RvvRegisters, SparesOne, SparesTwo DEF Rvv!imm_to_x5, Rvv!I, Writes, Pairs, Sinks

\* The address of an operand and its load.
LEMMA RvvLoadSpares ==
    ASSUME NEW src, NEW dst, NEW isn
    PROVE  Spares(Rvv!loadFromScratchpad(src, dst, isn), RvvFree)
  BY RvvImmSpares, RvvRegisters, SparesOne, SparesTwo, SparesThree, SparesJoin
     DEF Rvv!loadFromScratchpad, Rvv!I, Writes, Pairs, Sinks

\* The load of a pair of floats and its conversion.
LEMMA RvvFloatSpares ==
    ASSUME NEW isn
    PROVE  Spares(Rvv!LoadFloat(isn), RvvFree)
  BY RvvLoadSpares, RvvRegisters, SparesTwo, SparesThree, SparesJoin
     DEF Rvv!LoadFloat, Rvv!Both, Rvv!I, Writes, Pairs, Sinks

\* Every case but that of IMUL_RCP, and but for the branch in CFROUND.
LEMMA RvvSpares ==
    ASSUME NEW isn \in Instructions, NEW v, isn.op # "IMUL_RCP", isn.op # "CFROUND" \/ v = FALSE
    PROVE  Spares(Rvv!Case(isn, v), RvvFree)
<1>1. /\ isn.op \in InstructionType
      /\ isn.dst \in 0 .. 7 /\ isn.src \in 0 .. 7
      /\ isn.dst % 4 \in 0 .. 3 /\ isn.modShift \in 0 .. 3
      /\ isn.modShift # 0 => <<"add2", "add4", "add8">>[isn.modShift] \in {"add2", "add4", "add8"}
  BY Operands
<1>2. Spares(Rvv!IADD_RS(isn), RvvFree)
  BY <1>1, SparesNothing, SparesOne, SparesJoin, RvvImmSpares, RvvRegisters
     DEF Rvv!IADD_RS, Rvv!OnDst, Rvv!I, Writes, Pairs, Sinks
<1>3. /\ Spares(Rvv!ISUB_R(isn), RvvFree)
      /\ Spares(Rvv!IMUL_R(isn), RvvFree)
      /\ Spares(Rvv!IXOR_R(isn), RvvFree)
      /\ Spares(Rvv!INEG_R(isn), RvvFree)
  BY <1>1, SparesOne, SparesJoin, RvvImmSpares, RvvRegisters
     DEF Rvv!ISUB_R, Rvv!OnDst, Rvv!I, Rvv!IMUL_R, Rvv!IXOR_R, Rvv!INEG_R, Writes, Pairs, Sinks
<1>4. /\ Spares(Rvv!IADD_M(isn), RvvFree)
      /\ Spares(Rvv!ISUB_M(isn), RvvFree)
      /\ Spares(Rvv!IMUL_M(isn), RvvFree)
      /\ Spares(Rvv!IXOR_M(isn), RvvFree)
  BY <1>1, SparesOne, SparesJoin, RvvLoadSpares, RvvRegisters
     DEF Rvv!IADD_M, Rvv!Memory, Rvv!OnDst, Rvv!I, Rvv!ISUB_M, Rvv!IMUL_M, Rvv!IXOR_M, Writes,
         Pairs, Sinks
<1>5. /\ Spares(Rvv!IMULH_R(isn), RvvFree)
      /\ Spares(Rvv!ISMULH_R(isn), RvvFree)
  BY <1>1, SparesOne, RvvRegisters
     DEF Rvv!IMULH_R, Rvv!OnDst, Rvv!I, Rvv!ISMULH_R, Writes, Pairs, Sinks
<1>6. /\ Spares(Rvv!IMULH_M(isn), RvvFree)
      /\ Spares(Rvv!ISMULH_M(isn), RvvFree)
  BY <1>1, SparesOne, SparesJoin, RvvLoadSpares, RvvRegisters
     DEF Rvv!IMULH_M, Rvv!Memory, Rvv!OnDst, Rvv!I, Rvv!ISMULH_M, Writes, Pairs, Sinks
<1>7. /\ Spares(Rvv!IROR_R(isn), RvvFree)
      /\ Spares(Rvv!IROL_R(isn), RvvFree)
  BY <1>1, SparesOne, SparesTwo, SparesThree, SparesJoin, RvvRegisters
     DEF Rvv!IROR_R, Rvv!OnDst, Rvv!Rotate, Rvv!I, Rvv!IROL_R, Writes, Pairs, Sinks
<1>8. /\ Spares(Rvv!ISWAP_R(isn), RvvFree)
      /\ Spares(Rvv!FSWAP_R(isn), RvvFree)
  BY <1>1, SparesNothing, SparesThree, RvvRegisters
     DEF Rvv!ISWAP_R, Rvv!I, Rvv!FSWAP_R, Writes, Pairs, Sinks
<1>9. /\ Spares(Rvv!FADD_R(isn), RvvFree)
      /\ Spares(Rvv!FSUB_R(isn), RvvFree)
      /\ Spares(Rvv!FSCAL_R(isn), RvvFree)
      /\ Spares(Rvv!FMUL_R(isn), RvvFree)
      /\ Spares(Rvv!FSQRT_R(isn), RvvFree)
  BY <1>1, SparesTwo, RvvRegisters
     DEF Rvv!FADD_R, Rvv!Packed, Rvv!Both, Rvv!I, Rvv!FSUB_R, Rvv!FSCAL_R, Rvv!FMUL_R,
         Rvv!FSQRT_R, Rvv!FloatDst, Rvv!FloatSrc, Writes, Pairs, Sinks
<1>10. /\ Spares(Rvv!FADD_M(isn), RvvFree)
       /\ Spares(Rvv!FSUB_M(isn), RvvFree)
  BY <1>1, SparesTwo, SparesJoin, RvvFloatSpares, RvvRegisters
     DEF Rvv!FADD_M, Rvv!Packed, Rvv!Both, Rvv!I, Rvv!FSUB_M, Rvv!FloatDst, Writes, Pairs, Sinks
<1>11. Spares(Rvv!FDIV_M(isn), RvvFree)
  BY <1>1, SparesTwo, SparesJoin, RvvFloatSpares, RvvRegisters
     DEF Rvv!FDIV_M, Rvv!Packed, Rvv!Both, Rvv!I, Rvv!FloatDst, Writes, Pairs, Sinks
<1>12. Spares(Rvv!CBRANCH(isn), RvvFree)
  BY <1>1, SparesOne, SparesTwo, SparesJoin, RvvImmSpares, RvvRegisters
     DEF Rvv!CBRANCH, Rvv!I, Rvv!OnDst, Writes, Pairs, Sinks
<1>13. Spares(Rvv!CFROUND(isn, FALSE), RvvFree)
  <2> DEFINE imm == (isn.imm - 1) % 16
             rotated == IF imm = 0 THEN Rvv!r(isn.src) ELSE Rvv!x5
  <2>1. PICK s : s = IF imm = 0 THEN <<>>
                     ELSE IF FALSE
                     THEN <<Rvv!I("ror", Rvv!x5, Rvv!r(isn.src), Rvv!Imm(imm), 4)>>
                     ELSE <<Rvv!I("srl", Rvv!x5, Rvv!r(isn.src), Rvv!Imm(imm), 4),
                            Rvv!I("sll", Rvv!x6, Rvv!r(isn.src), Rvv!Imm((-imm) % 16), 4),
                            Rvv!I("or", Rvv!x5, Rvv!x5, Rvv!x6, 4)>>
    OBVIOUS
  <2>2. PICK t : t = <<Rvv!I("and", Rvv!x5, rotated, Rvv!Imm(6), 4),
                       Rvv!I("mov", Rvv!x6, Rvv!Imm(120), 0, 4),
                       Rvv!I("srl", Rvv!x5, Rvv!x6, Rvv!x5, 4),
                       Rvv!I("and", Rvv!x5, Rvv!x5, Rvv!Imm(3), 4),
                       Rvv!I("fsrm", 0, Rvv!x5, 0, 4)>>
    OBVIOUS
  <2>3. Rvv!CFROUND(isn, FALSE) = (s \o <<>>) \o t
    BY <2>1, <2>2 DEF Rvv!CFROUND
  <2>4. Spares(s, RvvFree)
    BY <2>1, SparesNothing, SparesOne, SparesThree, RvvRegisters DEF Rvv!I, Writes, Pairs, Sinks
  <2>5. Spares(t, RvvFree)
    BY <2>2, SparesFive, RvvRegisters DEF Rvv!I, Writes, Pairs, Sinks
  <2>6. PICK e : e = <<>>
    OBVIOUS
  <2>7. Spares(e, RvvFree)
    BY <2>6, SparesNothing
  <2>8. Spares(s \o e, RvvFree)
    BY <2>4, <2>7, SparesJoin
  <2> QED
    BY <2>3, <2>5, <2>6, <2>8, SparesJoin
<1>14. Spares(Rvv!ISTORE(isn), RvvFree)
  BY <1>1, SparesFour, SparesJoin, RvvImmSpares, RvvRegisters
     DEF Rvv!ISTORE, Rvv!I, Writes, Pairs, Sinks
<1>15. Spares(<<>>, RvvFree)
  BY SparesNothing
<1> QED
  BY <1>1, <1>2, <1>3, <1>4, <1>5, <1>6, <1>7, <1>8, <1>9, <1>10, <1>11, <1>12, <1>13, <1>14,
     <1>15
     DEF Rvv!Case, InstructionType

\* The branch of RandomX v2's CFROUND.
LEMMA RvvRoundKeeps ==
    ASSUME NEW isn \in Instructions
    PROVE  IsCode(Rvv!CFROUND(isn, TRUE)) /\ Keeps(Rvv!CFROUND(isn, TRUE), RvvFree)
<1> DEFINE imm == (isn.imm - 1) % 16
           rotated == IF imm = 0 THEN Rvv!r(isn.src) ELSE Rvv!x5
<1>1. PICK s : s = IF imm = 0 THEN <<>>
                   ELSE IF FALSE
                   THEN <<Rvv!I("ror", Rvv!x5, Rvv!r(isn.src), Rvv!Imm(imm), 4)>>
                   ELSE <<Rvv!I("srl", Rvv!x5, Rvv!r(isn.src), Rvv!Imm(imm), 4),
                          Rvv!I("sll", Rvv!x6, Rvv!r(isn.src), Rvv!Imm((-imm) % 16), 4),
                          Rvv!I("or", Rvv!x5, Rvv!x5, Rvv!x6, 4)>>
  OBVIOUS
<1>2. PICK p, u : /\ p = Rvv!I("and", Rvv!x6, rotated, Rvv!Imm(120), 4)
                  /\ u = Rvv!I("bnez", 24, Rvv!x6, Rvv!Imm(Rvv!Size - 1), 4)
  OBVIOUS
<1>3. PICK t1, t2, t3, t4, t5 :
        /\ t1 = Rvv!I("and", Rvv!x5, rotated, Rvv!Imm(6), 4)
        /\ t2 = Rvv!I("mov", Rvv!x6, Rvv!Imm(120), 0, 4)
        /\ t3 = Rvv!I("srl", Rvv!x5, Rvv!x6, Rvv!x5, 4)
        /\ t4 = Rvv!I("and", Rvv!x5, Rvv!x5, Rvv!Imm(3), 4)
        /\ t5 = Rvv!I("fsrm", 0, Rvv!x5, 0, 4)
  OBVIOUS
<1>4. PICK t : t = <<t1, t2, t3, t4, t5>>
  OBVIOUS
<1>5. Rvv!CFROUND(isn, TRUE) = (s \o <<p, u>>) \o t
  BY <1>1, <1>2, <1>3, <1>4 DEF Rvv!CFROUND
<1>6. Spares(s, RvvFree)
  BY <1>1, SparesNothing, SparesOne, SparesThree, RvvRegisters DEF Rvv!I, Writes, Pairs, Sinks
<1>7. t1[5] = 4 /\ t2[5] = 4 /\ t3[5] = 4 /\ t4[5] = 4 /\ t5[5] = 4
  BY <1>3 DEF Rvv!I
<1>8. Spares(t, RvvFree) /\ Bytes(t) = 20 /\ \A k \in 1 .. Len(t) : t[k][5] > 0
  <2>1. Spares(t, RvvFree)
    BY <1>3, <1>4, SparesFive, RvvRegisters DEF Rvv!I, Writes, Pairs, Sinks
  <2>2. Bytes(t) = t1[5] + t2[5] + t3[5] + t4[5] + t5[5]
    BY <1>4, <1>7, Five
  <2> QED
    BY <1>4, <1>7, <2>1, <2>2
<1>9. Writes(p, RvvFree) /\ u[1] = "bnez" /\ u[2] - u[5] = 20
  BY <1>2, RvvRegisters DEF Rvv!I, Writes, Pairs, Sinks
<1>10. IsCode(<<p, u>>)
  BY <1>2, Two DEF Rvv!I
<1> QED
  BY <1>5, <1>6, <1>8, <1>9, <1>10, BranchKeeps, Joins DEF Spares

\* The code of one turn of the loop over the instructions.
LEMMA RvvKeeps ==
    ASSUME NEW s, NEW isn \in Instructions, NEW v \in BOOLEAN, "ops" \in DOMAIN s, s.ops = <<>>
    PROVE  Keeps(Rvv!generateCode(s, isn, v).ops, RvvFree)
<1>1. CASE isn.op = "IMUL_RCP"
  <2>1. isn.dst \in 0 .. 7
    BY Operands
  <2>2. PICK factor : factor = IF s.rcpCount * 8 < 26 * 8
                               THEN Rvv!I("mov", Rvv!x5, Rvv!rcp_regs[s.rcpCount + 1], 0, 4)
                               ELSE Rvv!I("lit", Rvv!x5, Rvv!LiteralsPointer,
                                      Rvv!Imm(Rvv!SignedBits(s.rcpCount * 8, 12)), 4)
    OBVIOUS
  <2>3. PICK ops : ops = IF s.rcpCount * 8 < 6 * 8
                         THEN Rvv!OnDst("mul", isn, Rvv!rcp_regs[s.rcpCount + 1], 4)
                         ELSE <<factor>> \o Rvv!OnDst("mul", isn, Rvv!x5, 4)
    OBVIOUS
  <2>4. Spares(ops, RvvFree)
    BY <2>1, <2>2, <2>3, SparesOne, SparesJoin, RvvRegisters
       DEF Rvv!OnDst, Rvv!I, Writes, Pairs, Sinks
  <2>5. PICK t : t = [Rvv!WithLiteral(s, PoolBase + s.rcpCount * 8, Rvv!randomx_reciprocal(isn.imm))
                        EXCEPT !.rcpCount = @ + 1]
    OBVIOUS
  <2>6. t.ops = <<>> /\ "ops" \in DOMAIN t
    BY <2>5 DEF Rvv!WithLiteral
  <2>7. Rvv!generateCode(s, isn, v) = IF Rvv!isZeroOrPowerOf2(isn.imm) THEN s ELSE Emit(t, ops)
    BY <1>1, <2>2, <2>3, <2>5 DEF Rvv!generateCode, Rvv!IMUL_RCP, Rvv!Emit, Emit
  <2>8. Emit(t, ops).ops = ops
    BY <2>4, <2>6, EmptyJoins DEF Emit, Spares
  <2>9. Rvv!generateCode(s, isn, v).ops \in {<<>>, ops}
    BY <2>7, <2>8
  <2> QED
    BY <2>4, <2>9, SparesNothing, SparesKeeps
<1>2. CASE isn.op # "IMUL_RCP" /\ (isn.op # "CFROUND" \/ v = FALSE)
  <2>1. Spares(Rvv!Case(isn, v), RvvFree)
    BY <1>2, RvvSpares
  <2>2. Rvv!generateCode(s, isn, v).ops = Rvv!Case(isn, v)
    BY <1>2, <2>1, EmptyJoins DEF Rvv!generateCode, Rvv!Emit, Spares
  <2> QED
    BY <2>1, <2>2, SparesKeeps
<1>3. CASE isn.op = "CFROUND" /\ v = TRUE
  <2>1. Rvv!generateCode(s, isn, v).ops = Rvv!CFROUND(isn, TRUE)
    BY <1>3, RvvRoundKeeps, EmptyJoins DEF Rvv!generateCode, Rvv!Case, Rvv!Emit
  <2> QED
    BY <2>1, RvvRoundKeeps
<1> QED
  BY <1>1, <1>2, <1>3

RvvZFree == Regs \ (Rvv!Reserved \cup Rvv!LoopRegisters)

\* The registers the cases write to are the program's own.
LEMMA RvvZRegisters ==
    /\ RvvZ!x5 \in RvvZFree /\ RvvZ!x6 \in RvvZFree
    /\ \A i \in 0 .. 7 : /\ RvvZ!r(i) \in RvvZFree
                        /\ RvvZ!Lo(RvvZ!f(i)) \in RvvZFree /\ RvvZ!Hi(RvvZ!f(i)) \in RvvZFree
    /\ \A i \in 0 .. 3 : RvvZ!Lo(RvvZ!e(i)) \in RvvZFree /\ RvvZ!Hi(RvvZ!e(i)) \in RvvZFree
    /\ RvvZ!Lo(RvvZ!Temp16) \in RvvZFree /\ RvvZ!Hi(RvvZ!Temp16) \in RvvZFree
    /\ RvvZ!Lo(RvvZ!Temp18) \in RvvZFree /\ RvvZ!Hi(RvvZ!Temp18) \in RvvZFree
  BY RvvRegisters
     DEF RvvFree, RvvZFree, Rvv!x5, Rvv!x6, Rvv!r, Rvv!f, Rvv!e, Rvv!Lo, Rvv!Hi, Rvv!Temp16,
         Rvv!Temp18,
         RvvZ!x5, RvvZ!x6, RvvZ!r, RvvZ!f, RvvZ!e, RvvZ!Lo, RvvZ!Hi, RvvZ!Temp16, RvvZ!Temp18

\* imm_to_x5, with the extensions.
LEMMA RvvZImmSpares ==
    ASSUME NEW imm
    PROVE  Spares(RvvZ!imm_to_x5(imm), RvvZFree)
<1>1. PICK upper : upper = RvvZ!I("mov", RvvZ!x5, RvvZ!Imm(RvvZ!SignExtend(
                     (((imm + IF RvvZ!Negative(imm, LowBits) THEN 2^LowBits ELSE 0)
                        % RvvZ!Half) \div 2^LowBits)
                       * 2^LowBits)), 0, 4)
  OBVIOUS
<1>2. /\ Writes(upper, RvvZFree) /\ upper[5] = 4
      /\ Writes([upper EXCEPT ![5] = 2], RvvZFree) /\ [upper EXCEPT ![5] = 2][5] = 2
  BY <1>1, RvvZRegisters DEF RvvZ!I, Writes, Pairs, Sinks
<1> QED
  BY <1>1, <1>2, RvvZRegisters, SparesOne, SparesTwo
     DEF RvvZ!imm_to_x5, RvvZ!I, Writes, Pairs, Sinks

\* The address of an operand and its load.
LEMMA RvvZLoadSpares ==
    ASSUME NEW src, NEW dst, NEW isn
    PROVE  Spares(RvvZ!loadFromScratchpad(src, dst, isn), RvvZFree)
  BY RvvZImmSpares, RvvZRegisters, SparesOne, SparesTwo, SparesThree, SparesJoin
     DEF RvvZ!loadFromScratchpad, RvvZ!I, Writes, Pairs, Sinks

\* The load of a pair of floats and its conversion.
LEMMA RvvZFloatSpares ==
    ASSUME NEW isn
    PROVE  Spares(RvvZ!LoadFloat(isn), RvvZFree)
  BY RvvZLoadSpares, RvvZRegisters, SparesTwo, SparesThree, SparesJoin
     DEF RvvZ!LoadFloat, RvvZ!Both, RvvZ!I, Writes, Pairs, Sinks

\* Every case but that of IMUL_RCP, and but for the branch in CFROUND.
LEMMA RvvZSpares ==
    ASSUME NEW isn \in Instructions, NEW v, isn.op # "IMUL_RCP", isn.op # "CFROUND" \/ v = FALSE
    PROVE  Spares(RvvZ!Case(isn, v), RvvZFree)
<1>1. /\ isn.op \in InstructionType
      /\ isn.dst \in 0 .. 7 /\ isn.src \in 0 .. 7
      /\ isn.dst % 4 \in 0 .. 3 /\ isn.modShift \in 0 .. 3
      /\ isn.modShift # 0 => <<"add2", "add4", "add8">>[isn.modShift] \in {"add2", "add4", "add8"}
  BY Operands
<1>2. Spares(RvvZ!IADD_RS(isn), RvvZFree)
  BY <1>1, SparesNothing, SparesOne, SparesJoin, RvvZImmSpares, RvvZRegisters
     DEF RvvZ!IADD_RS, RvvZ!OnDst, RvvZ!I, Writes, Pairs, Sinks
<1>3. /\ Spares(RvvZ!ISUB_R(isn), RvvZFree)
      /\ Spares(RvvZ!IMUL_R(isn), RvvZFree)
      /\ Spares(RvvZ!IXOR_R(isn), RvvZFree)
      /\ Spares(RvvZ!INEG_R(isn), RvvZFree)
  BY <1>1, SparesOne, SparesJoin, RvvZImmSpares, RvvZRegisters
     DEF RvvZ!ISUB_R, RvvZ!OnDst, RvvZ!I, RvvZ!IMUL_R, RvvZ!IXOR_R, RvvZ!INEG_R, Writes, Pairs,
         Sinks
<1>4. /\ Spares(RvvZ!IADD_M(isn), RvvZFree)
      /\ Spares(RvvZ!ISUB_M(isn), RvvZFree)
      /\ Spares(RvvZ!IMUL_M(isn), RvvZFree)
      /\ Spares(RvvZ!IXOR_M(isn), RvvZFree)
  BY <1>1, SparesOne, SparesJoin, RvvZLoadSpares, RvvZRegisters
     DEF RvvZ!IADD_M, RvvZ!Memory, RvvZ!OnDst, RvvZ!I, RvvZ!ISUB_M, RvvZ!IMUL_M, RvvZ!IXOR_M,
         Writes, Pairs, Sinks
<1>5. /\ Spares(RvvZ!IMULH_R(isn), RvvZFree)
      /\ Spares(RvvZ!ISMULH_R(isn), RvvZFree)
  BY <1>1, SparesOne, RvvZRegisters
     DEF RvvZ!IMULH_R, RvvZ!OnDst, RvvZ!I, RvvZ!ISMULH_R, Writes, Pairs, Sinks
<1>6. /\ Spares(RvvZ!IMULH_M(isn), RvvZFree)
      /\ Spares(RvvZ!ISMULH_M(isn), RvvZFree)
  BY <1>1, SparesOne, SparesJoin, RvvZLoadSpares, RvvZRegisters
     DEF RvvZ!IMULH_M, RvvZ!Memory, RvvZ!OnDst, RvvZ!I, RvvZ!ISMULH_M, Writes, Pairs, Sinks
<1>7. /\ Spares(RvvZ!IROR_R(isn), RvvZFree)
      /\ Spares(RvvZ!IROL_R(isn), RvvZFree)
  BY <1>1, SparesOne, SparesTwo, SparesThree, SparesJoin, RvvZRegisters
     DEF RvvZ!IROR_R, RvvZ!OnDst, RvvZ!Rotate, RvvZ!I, RvvZ!IROL_R, Writes, Pairs, Sinks
<1>8. /\ Spares(RvvZ!ISWAP_R(isn), RvvZFree)
      /\ Spares(RvvZ!FSWAP_R(isn), RvvZFree)
  BY <1>1, SparesNothing, SparesThree, RvvZRegisters
     DEF RvvZ!ISWAP_R, RvvZ!I, RvvZ!FSWAP_R, Writes, Pairs, Sinks
<1>9. /\ Spares(RvvZ!FADD_R(isn), RvvZFree)
      /\ Spares(RvvZ!FSUB_R(isn), RvvZFree)
      /\ Spares(RvvZ!FSCAL_R(isn), RvvZFree)
      /\ Spares(RvvZ!FMUL_R(isn), RvvZFree)
      /\ Spares(RvvZ!FSQRT_R(isn), RvvZFree)
  BY <1>1, SparesTwo, RvvZRegisters
     DEF RvvZ!FADD_R, RvvZ!Packed, RvvZ!Both, RvvZ!I, RvvZ!FSUB_R, RvvZ!FSCAL_R, RvvZ!FMUL_R,
         RvvZ!FSQRT_R, RvvZ!FloatDst, RvvZ!FloatSrc, Writes, Pairs, Sinks
<1>10. /\ Spares(RvvZ!FADD_M(isn), RvvZFree)
       /\ Spares(RvvZ!FSUB_M(isn), RvvZFree)
  BY <1>1, SparesTwo, SparesJoin, RvvZFloatSpares, RvvZRegisters
     DEF RvvZ!FADD_M, RvvZ!Packed, RvvZ!Both, RvvZ!I, RvvZ!FSUB_M, RvvZ!FloatDst, Writes, Pairs,
         Sinks
<1>11. Spares(RvvZ!FDIV_M(isn), RvvZFree)
  BY <1>1, SparesTwo, SparesJoin, RvvZFloatSpares, RvvZRegisters
     DEF RvvZ!FDIV_M, RvvZ!Packed, RvvZ!Both, RvvZ!I, RvvZ!FloatDst, Writes, Pairs, Sinks
<1>12. Spares(RvvZ!CBRANCH(isn), RvvZFree)
  BY <1>1, SparesOne, SparesTwo, SparesJoin, RvvZImmSpares, RvvZRegisters
     DEF RvvZ!CBRANCH, RvvZ!I, RvvZ!OnDst, Writes, Pairs, Sinks
<1>13. Spares(RvvZ!CFROUND(isn, FALSE), RvvZFree)
  <2> DEFINE imm == (isn.imm - 1) % 16
             rotated == IF imm = 0 THEN RvvZ!r(isn.src) ELSE RvvZ!x5
  <2>1. PICK s : s = IF imm = 0 THEN <<>>
                     ELSE IF TRUE
                     THEN <<RvvZ!I("ror", RvvZ!x5, RvvZ!r(isn.src), RvvZ!Imm(imm), 4)>>
                     ELSE <<RvvZ!I("srl", RvvZ!x5, RvvZ!r(isn.src), RvvZ!Imm(imm), 4),
                            RvvZ!I("sll", RvvZ!x6, RvvZ!r(isn.src), RvvZ!Imm((-imm) % 16), 4),
                            RvvZ!I("or", RvvZ!x5, RvvZ!x5, RvvZ!x6, 4)>>
    OBVIOUS
  <2>2. PICK t : t = <<RvvZ!I("and", RvvZ!x5, rotated, RvvZ!Imm(6), 4),
                       RvvZ!I("mov", RvvZ!x6, RvvZ!Imm(120), 0, 4),
                       RvvZ!I("srl", RvvZ!x5, RvvZ!x6, RvvZ!x5, 4),
                       RvvZ!I("and", RvvZ!x5, RvvZ!x5, RvvZ!Imm(3), 4),
                       RvvZ!I("fsrm", 0, RvvZ!x5, 0, 4)>>
    OBVIOUS
  <2>3. RvvZ!CFROUND(isn, FALSE) = (s \o <<>>) \o t
    BY <2>1, <2>2 DEF RvvZ!CFROUND
  <2>4. Spares(s, RvvZFree)
    BY <2>1, SparesNothing, SparesOne, SparesThree, RvvZRegisters DEF RvvZ!I, Writes, Pairs, Sinks
  <2>5. Spares(t, RvvZFree)
    BY <2>2, SparesFive, RvvZRegisters DEF RvvZ!I, Writes, Pairs, Sinks
  <2>6. PICK e : e = <<>>
    OBVIOUS
  <2>7. Spares(e, RvvZFree)
    BY <2>6, SparesNothing
  <2>8. Spares(s \o e, RvvZFree)
    BY <2>4, <2>7, SparesJoin
  <2> QED
    BY <2>3, <2>5, <2>6, <2>8, SparesJoin
<1>14. Spares(RvvZ!ISTORE(isn), RvvZFree)
  BY <1>1, SparesFour, SparesJoin, RvvZImmSpares, RvvZRegisters
     DEF RvvZ!ISTORE, RvvZ!I, Writes, Pairs, Sinks
<1>15. Spares(<<>>, RvvZFree)
  BY SparesNothing
<1> QED
  BY <1>1, <1>2, <1>3, <1>4, <1>5, <1>6, <1>7, <1>8, <1>9, <1>10, <1>11, <1>12, <1>13, <1>14,
     <1>15
     DEF RvvZ!Case, InstructionType

\* The branch of RandomX v2's CFROUND.
LEMMA RvvZRoundKeeps ==
    ASSUME NEW isn \in Instructions
    PROVE  IsCode(RvvZ!CFROUND(isn, TRUE)) /\ Keeps(RvvZ!CFROUND(isn, TRUE), RvvZFree)
<1> DEFINE imm == (isn.imm - 1) % 16
           rotated == IF imm = 0 THEN RvvZ!r(isn.src) ELSE RvvZ!x5
<1>1. PICK s : s = IF imm = 0 THEN <<>>
                   ELSE IF TRUE
                   THEN <<RvvZ!I("ror", RvvZ!x5, RvvZ!r(isn.src), RvvZ!Imm(imm), 4)>>
                   ELSE <<RvvZ!I("srl", RvvZ!x5, RvvZ!r(isn.src), RvvZ!Imm(imm), 4),
                          RvvZ!I("sll", RvvZ!x6, RvvZ!r(isn.src), RvvZ!Imm((-imm) % 16), 4),
                          RvvZ!I("or", RvvZ!x5, RvvZ!x5, RvvZ!x6, 4)>>
  OBVIOUS
<1>2. PICK p, u : /\ p = RvvZ!I("and", RvvZ!x6, rotated, RvvZ!Imm(120), 4)
                  /\ u = RvvZ!I("bnez", 24, RvvZ!x6, RvvZ!Imm(RvvZ!Size - 1), 4)
  OBVIOUS
<1>3. PICK t1, t2, t3, t4, t5 :
        /\ t1 = RvvZ!I("and", RvvZ!x5, rotated, RvvZ!Imm(6), 4)
        /\ t2 = RvvZ!I("mov", RvvZ!x6, RvvZ!Imm(120), 0, 4)
        /\ t3 = RvvZ!I("srl", RvvZ!x5, RvvZ!x6, RvvZ!x5, 4)
        /\ t4 = RvvZ!I("and", RvvZ!x5, RvvZ!x5, RvvZ!Imm(3), 4)
        /\ t5 = RvvZ!I("fsrm", 0, RvvZ!x5, 0, 4)
  OBVIOUS
<1>4. PICK t : t = <<t1, t2, t3, t4, t5>>
  OBVIOUS
<1>5. RvvZ!CFROUND(isn, TRUE) = (s \o <<p, u>>) \o t
  BY <1>1, <1>2, <1>3, <1>4 DEF RvvZ!CFROUND
<1>6. Spares(s, RvvZFree)
  BY <1>1, SparesNothing, SparesOne, SparesThree, RvvZRegisters DEF RvvZ!I, Writes, Pairs, Sinks
<1>7. t1[5] = 4 /\ t2[5] = 4 /\ t3[5] = 4 /\ t4[5] = 4 /\ t5[5] = 4
  BY <1>3 DEF RvvZ!I
<1>8. Spares(t, RvvZFree) /\ Bytes(t) = 20 /\ \A k \in 1 .. Len(t) : t[k][5] > 0
  <2>1. Spares(t, RvvZFree)
    BY <1>3, <1>4, SparesFive, RvvZRegisters DEF RvvZ!I, Writes, Pairs, Sinks
  <2>2. Bytes(t) = t1[5] + t2[5] + t3[5] + t4[5] + t5[5]
    BY <1>4, <1>7, Five
  <2> QED
    BY <1>4, <1>7, <2>1, <2>2
<1>9. Writes(p, RvvZFree) /\ u[1] = "bnez" /\ u[2] - u[5] = 20
  BY <1>2, RvvZRegisters DEF RvvZ!I, Writes, Pairs, Sinks
<1>10. IsCode(<<p, u>>)
  BY <1>2, Two DEF RvvZ!I
<1> QED
  BY <1>5, <1>6, <1>8, <1>9, <1>10, BranchKeeps, Joins DEF Spares

\* The code of one turn of the loop over the instructions.
LEMMA RvvZKeeps ==
    ASSUME NEW s, NEW isn \in Instructions, NEW v \in BOOLEAN, "ops" \in DOMAIN s, s.ops = <<>>
    PROVE  Keeps(RvvZ!generateCode(s, isn, v).ops, RvvZFree)
<1>1. CASE isn.op = "IMUL_RCP"
  <2>1. isn.dst \in 0 .. 7
    BY Operands
  <2>2. PICK factor : factor = IF s.rcpCount * 8 < 26 * 8
                               THEN RvvZ!I("mov", RvvZ!x5, RvvZ!rcp_regs[s.rcpCount + 1], 0, 4)
                               ELSE RvvZ!I("lit", RvvZ!x5, RvvZ!LiteralsPointer,
                                      RvvZ!Imm(RvvZ!SignedBits(s.rcpCount * 8, 12)), 4)
    OBVIOUS
  <2>3. PICK ops : ops = IF s.rcpCount * 8 < 6 * 8
                         THEN RvvZ!OnDst("mul", isn, RvvZ!rcp_regs[s.rcpCount + 1], 4)
                         ELSE <<factor>> \o RvvZ!OnDst("mul", isn, RvvZ!x5, 4)
    OBVIOUS
  <2>4. Spares(ops, RvvZFree)
    BY <2>1, <2>2, <2>3, SparesOne, SparesJoin, RvvZRegisters
       DEF RvvZ!OnDst, RvvZ!I, Writes, Pairs, Sinks
  <2>5. PICK t : t =
                 [RvvZ!WithLiteral(s, PoolBase + s.rcpCount * 8, RvvZ!randomx_reciprocal(isn.imm))
                        EXCEPT !.rcpCount = @ + 1]
    OBVIOUS
  <2>6. t.ops = <<>> /\ "ops" \in DOMAIN t
    BY <2>5 DEF RvvZ!WithLiteral
  <2>7. RvvZ!generateCode(s, isn, v) = IF RvvZ!isZeroOrPowerOf2(isn.imm) THEN s ELSE Emit(t, ops)
    BY <1>1, <2>2, <2>3, <2>5 DEF RvvZ!generateCode, RvvZ!IMUL_RCP, RvvZ!Emit, Emit
  <2>8. Emit(t, ops).ops = ops
    BY <2>4, <2>6, EmptyJoins DEF Emit, Spares
  <2>9. RvvZ!generateCode(s, isn, v).ops \in {<<>>, ops}
    BY <2>7, <2>8
  <2> QED
    BY <2>4, <2>9, SparesNothing, SparesKeeps
<1>2. CASE isn.op # "IMUL_RCP" /\ (isn.op # "CFROUND" \/ v = FALSE)
  <2>1. Spares(RvvZ!Case(isn, v), RvvZFree)
    BY <1>2, RvvZSpares
  <2>2. RvvZ!generateCode(s, isn, v).ops = RvvZ!Case(isn, v)
    BY <1>2, <2>1, EmptyJoins DEF RvvZ!generateCode, RvvZ!Emit, Spares
  <2> QED
    BY <2>1, <2>2, SparesKeeps
<1>3. CASE isn.op = "CFROUND" /\ v = TRUE
  <2>1. RvvZ!generateCode(s, isn, v).ops = RvvZ!CFROUND(isn, TRUE)
    BY <1>3, RvvZRoundKeeps, EmptyJoins DEF RvvZ!generateCode, RvvZ!Case, RvvZ!Emit
  <2> QED
    BY <2>1, RvvZRoundKeeps
<1> QED
  BY <1>1, <1>2, <1>3

-----------------------------------------------------------------------------
(* What the generated code keeps.                                          *)

\* The registers that are the program's own.
Free == Regs \ (Reserved \cup LoopRegisters)

\* The code around the program has registers of its own, apart from those the program
\* relies on.
LEMMA Apart ==
    ASSUME backend \in AllBackends
    PROVE  Reserved \subseteq Regs /\ LoopRegisters \subseteq Regs \ Reserved
<1>1. CASE backend = "x86"
  BY <1>1, X86Apart DEF Reserved, LoopRegisters
<1>2. CASE backend = "assembly"
  BY <1>2, X86Apart, AsmReservedAre DEF Reserved, LoopRegisters
<1>3. CASE backend = "a64"
  BY <1>3, A64Apart DEF Reserved, LoopRegisters
<1>4. CASE backend \in {"rv64", "rv64z"}
  BY <1>4, Rv64Apart DEF Reserved, LoopRegisters
<1>5. CASE backend \in {"rvv", "rvvz"}
  BY <1>5, RvvApart DEF Reserved, LoopRegisters
<1> QED
  BY <1>1, <1>2, <1>3, <1>4, <1>5 DEF AllBackends

\* The code that one turn of generateProgram emits writes to the program's registers only,
\* and its branches end where it ends.
LEMMA GeneratedKeeps ==
    ASSUME NEW isn \in Instructions, backend \in AllBackends, v2 \in BOOLEAN,
           "ops" \in DOMAIN state
    PROVE  Keeps(Generated(isn).ops, Free)
<1>1. PICK s : s = [state EXCEPT !.ops = <<>>]
  OBVIOUS
<1>2. "ops" \in DOMAIN s /\ s.ops = <<>>
  BY <1>1
<1>3. CASE backend = "x86"
  <2>1. Keeps(X86!generateCode(s, isn, v2).ops, X86Free)
    BY <1>2, X86Keeps
  <2>2. Generated(isn) = X86!generateCode(s, isn, v2) /\ Free = X86Free
    BY <1>1, <1>3 DEF Generated, Free, X86Free, Reserved, LoopRegisters
  <2> QED
    BY <2>1, <2>2
<1>4. CASE backend = "assembly"
  <2>1. Keeps(Asm!generateCode(s, isn).ops, AsmFree)
    BY <1>2, AsmKeeps
  <2>2. Generated(isn) = Asm!generateCode(s, isn) /\ Free = AsmFree
    BY <1>1, <1>4 DEF Generated, Free, AsmFree, Reserved, LoopRegisters
  <2> QED
    BY <2>1, <2>2
<1>5. CASE backend = "a64"
  <2>1. Keeps(A64!generateCode(s, isn, v2).ops, A64Free)
    BY <1>2, A64Keeps
  <2>2. Generated(isn) = A64!generateCode(s, isn, v2) /\ Free = A64Free
    BY <1>1, <1>5 DEF Generated, Free, A64Free, Reserved, LoopRegisters
  <2> QED
    BY <2>1, <2>2
<1>6. CASE backend = "rv64"
  <2>1. Keeps(Rv64!emitInstruction(s, isn, v2).ops, Rv64Free)
    BY <1>2, Rv64Keeps
  <2>2. Generated(isn) = Rv64!emitInstruction(s, isn, v2) /\ Free = Rv64Free
    BY <1>1, <1>6 DEF Generated, Free, Rv64Free, Reserved, LoopRegisters
  <2> QED
    BY <2>1, <2>2
<1>7. CASE backend = "rv64z"
  <2>1. Keeps(Rv64Z!emitInstruction(s, isn, v2).ops, Rv64ZFree)
    BY <1>2, Rv64ZKeeps
  <2>2. Generated(isn) = Rv64Z!emitInstruction(s, isn, v2) /\ Free = Rv64ZFree
    BY <1>1, <1>7 DEF Generated, Free, Rv64ZFree, Reserved, LoopRegisters
  <2> QED
    BY <2>1, <2>2
<1>8. CASE backend = "rvv"
  <2>1. Keeps(Rvv!generateCode(s, isn, v2).ops, RvvFree)
    BY <1>2, RvvKeeps
  <2>2. Generated(isn) = Rvv!generateCode(s, isn, v2) /\ Free = RvvFree
    BY <1>1, <1>8 DEF Generated, Free, RvvFree, Reserved, LoopRegisters
  <2> QED
    BY <2>1, <2>2
<1>9. CASE backend = "rvvz"
  <2>1. Keeps(RvvZ!generateCode(s, isn, v2).ops, RvvZFree)
    BY <1>2, RvvZKeeps
  <2>2. Generated(isn) = RvvZ!generateCode(s, isn, v2) /\ Free = RvvZFree
    BY <1>1, <1>9 DEF Generated, Free, RvvZFree, Reserved, LoopRegisters
  <2> QED
    BY <2>1, <2>2
<1> QED
  BY <1>3, <1>4, <1>5, <1>6, <1>7, <1>8, <1>9 DEF AllBackends

\* What has been generated keeps the registers that are not the program's; once the
\* program is entered, all of it has been generated, and they hold what they were given.
KeptInv ==
    /\ CodeInv
    /\ v2 \in BOOLEAN
    /\ pc \in Nat
    /\ \A i \in 1 .. Len(code) : Keeps(code[i], Free)
    /\ entered => /\ Len(code) = Len(prog)
                  /\ IsMachine(m)
                  /\ DOMAIN m.x = Regs
                  /\ EnvironmentKept

\* What the code before the program leaves in the registers.
LEMMA LoadedValues ==
    ASSUME Reserved \subseteq Regs, LoopRegisters \subseteq Regs \ Reserved
    PROVE  /\ DOMAIN Loaded = Regs
           /\ \A k \in Reserved : Loaded[k] = Environment(k)
           /\ \A k \in LoopRegisters : Loaded[k] = OfLoop(k)
<1>1. PICK H : Loaded = [k \in Regs |-> IF k \in Reserved THEN Environment(k)
                                        ELSE IF k \in LoopRegisters THEN OfLoop(k)
                                        ELSE IF k \in DOMAIN H THEN H[k] ELSE 0]
  BY Zenon DEF Loaded
<1> QED
  BY <1>1

LEMMA KeptInvInit == Init => KeptInv
<1> SUFFICES ASSUME Init PROVE KeptInv
  OBVIOUS
<1>1. code = <<>> /\ entered = FALSE /\ v2 \in BOOLEAN /\ pc = 0
  BY DEF Init
<1>2. Len(code) = 0
  BY <1>1
<1> QED
  BY <1>1, <1>2, CodeInvInit DEF KeptInv

LEMMA KeptInvNext == KeptInv /\ [Next]_vars => KeptInv'
<1> SUFFICES ASSUME KeptInv, [Next]_vars PROVE KeptInv'
  OBVIOUS
<1>1. CodeInv /\ CodeInv'
  BY CodeInvNext DEF KeptInv
<1>2. backend \in AllBackends /\ "ops" \in DOMAIN state
  BY <1>1, BackendsAssumption DEF CodeInv
<1>3. Reserved \subseteq Regs /\ LoopRegisters \subseteq Regs \ Reserved
  BY <1>2, Apart
<1>4. CASE Compile
  <2>1. PICK isn : isn = prog[Len(code) + 1]
    OBVIOUS
  <2>2. PICK t : t = Generated(isn)
    OBVIOUS
  <2>3. Len(code) \in Nat /\ Len(code) < Len(prog)
    BY <1>1, <1>4 DEF CodeInv, Compile
  <2>4. isn \in Instructions
    BY <1>1, <2>1, <2>3, ProgramsAssumption DEF CodeInv
  <2>5. Keeps(t.ops, Free)
    BY <1>2, <2>2, <2>4, GeneratedKeeps DEF KeptInv
  <2>6. /\ code' = Append(code, t.ops)
        /\ UNCHANGED <<backend, prog, v2, pc, entered, m>>
    BY <1>4, <2>1, <2>2 DEF Compile
  <2>7. Free' = Free
    BY <2>6 DEF Free, Reserved, LoopRegisters
  <2>8. PICK S : code \in Seq(S)
    BY <1>1 DEF CodeInv
  <2>9. PICK R : R = S \cup {t.ops}
    OBVIOUS
  <2>10. code \in Seq(R) /\ t.ops \in R
    BY <2>8, <2>9
  <2>11. ASSUME NEW i \in 1 .. Len(code') PROVE Keeps(code'[i], Free)
    <3>1. Len(code') = Len(code) + 1
      BY <2>6, <2>10
    <3>2. CASE i \in 1 .. Len(code)
      <4>1. code'[i] = code[i]
        BY <2>6, <2>10, <3>2
      <4> QED
        BY <3>2, <4>1 DEF KeptInv
    <3>3. CASE i = Len(code) + 1
      <4>1. code'[i] = t.ops
        BY <2>6, <2>10, <3>3
      <4> QED
        BY <2>5, <4>1
    <3> QED
      BY <2>3, <3>1, <3>2, <3>3
  <2>12. ~entered'
    BY <2>3, <2>6 DEF KeptInv
  <2> QED
    BY <1>1, <2>6, <2>7, <2>11, <2>12 DEF KeptInv
<1>5. CASE Enter
  <2>1. Len(code) = Len(prog) /\ UNCHANGED <<backend, prog, v2, state, code, pc>>
    BY <1>5 DEF Enter
  <2>2. m'.x = Loaded /\ m'.skip = 0 /\ IsMachine(m')
    BY <1>5 DEF Enter, Machine, IsMachine
  <2>3. /\ Free' = Free /\ Reserved' = Reserved /\ LoopRegisters' = LoopRegisters
    BY <2>1 DEF Free, Reserved, LoopRegisters
  <2>4. \A k : Environment(k)' = Environment(k)
    BY <2>1 DEF Environment, Pool
  <2>5. EnvironmentKept'
    BY <1>3, <2>2, <2>3, <2>4, LoadedValues DEF EnvironmentKept, OfLoop
  <2>6. DOMAIN m'.x = Regs
    BY <1>3, <2>2, LoadedValues
  <2> QED
    BY <1>1, <2>1, <2>2, <2>3, <2>5, <2>6 DEF KeptInv
<1>6. CASE Run
  <2>1. /\ entered /\ pc < Len(prog) /\ pc' = pc + 1
        /\ UNCHANGED <<backend, prog, v2, state, code, entered>>
    BY <1>6 DEF Run
  <2>2. PICK ops : ops = code[pc + 1]
    OBVIOUS
  <2>3. m' = RunCode(m, ops)
    BY <1>6, <2>2 DEF Run
  <2>4. Len(code) \in Nat /\ Len(code) = Len(prog)
    BY <1>1, <2>1 DEF KeptInv, CodeInv
  <2>5. Keeps(ops, Free)
    <3>1. pc + 1 \in 1 .. Len(code)
      BY <2>1, <2>4 DEF KeptInv
    <3> QED
      BY <2>2, <3>1 DEF KeptInv
  <2>6. IsMachine(m) /\ DOMAIN m.x = Regs /\ EnvironmentKept /\ m.skip = 0
    BY <2>1 DEF KeptInv, EnvironmentKept
  <2>7. Same(m, m', Free) /\ m'.skip = 0
    BY <2>3, <2>5, <2>6 DEF Keeps
  <2>8. /\ Free' = Free /\ Reserved' = Reserved /\ LoopRegisters' = LoopRegisters
    BY <2>1 DEF Free, Reserved, LoopRegisters
  <2>9. \A k : Environment(k)' = Environment(k)
    BY <2>1 DEF Environment, Pool
  <2>10. IsMachine(m') /\ DOMAIN m'.x = Regs /\ \A k \in Regs \ Free : m'.x[k] = m.x[k]
    BY <2>6, <2>7 DEF Same
  <2>11. \A k \in Reserved \cup LoopRegisters : m'.x[k] = m.x[k]
    BY <1>3, <2>10 DEF Free
  <2>12. EnvironmentKept'
    BY <2>1, <2>6, <2>7, <2>8, <2>9, <2>11 DEF EnvironmentKept, OfLoop
  <2>13. pc' \in Nat
    BY <2>1 DEF KeptInv
  <2> QED
    BY <1>1, <2>1, <2>4, <2>8, <2>10, <2>12, <2>13 DEF KeptInv
<1>7. CASE UNCHANGED vars
  <2>1. UNCHANGED <<backend, prog, v2, state, code, pc, entered, m>>
    BY <1>7 DEF vars
  <2>2. /\ Free' = Free /\ Reserved' = Reserved /\ LoopRegisters' = LoopRegisters
    BY <2>1 DEF Free, Reserved, LoopRegisters
  <2>3. \A k : Environment(k)' = Environment(k)
    BY <2>1 DEF Environment, Pool
  <2>4. EnvironmentKept' <=> EnvironmentKept
    BY <2>1, <2>2, <2>3 DEF EnvironmentKept, OfLoop
  <2> QED
    BY <1>1, <2>1, <2>2, <2>4 DEF KeptInv
<1> QED
  BY <1>4, <1>5, <1>6, <1>7 DEF Next

\* For every program, immediate and state of the literals, and whatever the program's own
\* registers hold: no instruction's code changes a register that the code before the
\* program has loaded for it - the scratchpad pointer, the masks, the literals kept in
\* registers - or that the loop around the program has in use, and no branch within an
\* instruction's code leads out of it.
THEOREM EnvironmentAlwaysKept == Spec => []EnvironmentKept
<1>1. KeptInv => EnvironmentKept
  BY DEF KeptInv, EnvironmentKept
<1> QED
  BY <1>1, KeptInvInit, KeptInvNext, PTL DEF Spec

=============================================================================
