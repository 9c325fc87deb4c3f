------------------------------ MODULE TLSProofs ------------------------------
(***************************************************************************)
(* The safety of thread-local storage, for any finite number of threads    *)
(* and a tree of any shape, any set of keys held from the start.           *)
(***************************************************************************)
EXTENDS TLS, FiniteSetTheorems, WellFoundedInduction, TLAPS

\* The laws of powers, which the provers do not have for a variable exponent.
PowerLaw ==
    /\ Children ^ 0 = 1
    /\ \A d \in Nat : Children ^ (d + 1) = Children * Children ^ d

\* The threads that have a key in their hands.
Has(th) == pc[th] = "mark" \/ Deletes(th)
Handled == {th \in Threads : Has(th)}

\* s is a list of keys without repetition, linked by nx and closed by NULL.
IsLinked(s, nx) ==
    /\ s \in Seq(Keys)
    /\ \A i, j \in 1 .. Len(s) : s[i] = s[j] => i = j
    /\ \A i \in 1 .. Len(s) : nx[s[i]] = IF i < Len(s) THEN s[i + 1] ELSE NULL
HeadOf(s) == IF s = <<>> THEN NULL ELSE s[1]
Elems(s) == {s[i] : i \in 1 .. Len(s)}

PCs == {"user", "create", "next", "cas", "mark", "check", "delete", "push", "over", "dead"}

\* The variables have their types, whatever happens to the free list.
AllocTypes ==
    /\ free \in Keys \cup {NULL, USED}
    /\ next \in [Keys -> Keys \cup {NULL, USED}]
    /\ destructor \in [Keys -> BOOLEAN]
    /\ pc \in [Threads -> PCs]
    /\ ke \in [Threads -> Keys \cup {NULL, USED}]
    /\ seen \in [Threads -> Keys \cup {NULL, USED}]
    /\ held \subseteq Keys
    /\ \A th \in Threads :
        pc[th] \in {"cas", "mark", "check", "delete", "push"} => ke[th] \in Keys
    /\ returned \subseteq {th \in Threads : pc[th] = "cas"}

\* What a thread knows of the key it has in its hands.
CallsOK ==
    \A th \in Threads :
        /\ Has(th) => ke[th] \in Keys \ held
        /\ pc[th] = "push" => next[ke[th]] = seen[th]
        /\ \A o \in Threads : Has(th) /\ Has(o) /\ ke[th] = ke[o] => th = o

\* The free list is s; a key that is neither there nor held is in the hands
\* of a thread; and who creates a key that is still in the list, and has not
\* come back to it, has seen what follows it there.
FreeList(s) ==
    /\ IsLinked(s, next) /\ HeadOf(s) = free
    /\ Elems(s) \cap held = {}
    /\ \A th \in Threads : Has(th) => ke[th] \notin Elems(s)
    /\ \A k \in Keys : k \in held \cup Elems(s) \/ \E th \in Threads : Has(th) /\ ke[th] = k
    /\ \A th \in Threads :
        pc[th] = "cas" /\ th \notin returned /\ ke[th] \in Elems(s) => seen[th] = next[ke[th]]

ListInv == CallsOK /\ \E s \in Seq(Keys) : FreeList(s)
KInv == AllocTypes /\ (faults = {} => ListInv)

-----------------------------------------------------------------------------
(* Numbers and powers                                                      *)

LEMMA LeastElement ==
    ASSUME NEW T, T \subseteq Nat, T # {}
    PROVE  \E x \in T : \A y \in T : x <= y
<1> DEFINE R == OpToRel(<, Nat)
<1>1. IsWellFoundedOn(R, Nat)
  BY NatLessThanWellFounded
<1> HIDE DEF R
<1>2. PICK x \in T : \A y \in T : ~(<<y, x>> \in R)
  BY <1>1, WFMin
<1>3. \A y \in T : ~(y < x)
  BY <1>2 DEF R, OpToRel
<1> QED BY <1>3

LEMMA MinIsLeast ==
    ASSUME NEW S \in SUBSET Nat, NEW x \in S, \A y \in S : x <= y
    PROVE  Min(S) = x
<1> DEFINE P(z) == z \in S /\ \A y \in S : z <= y
<1>1. P(x)
  OBVIOUS
<1>2. P(CHOOSE z : P(z))
  BY <1>1
<1>3. \A z : P(z) => z = x
  OBVIOUS
<1>4. Min(S) = CHOOSE z : P(z)
  BY ZenonT(30) DEF Min
<1> HIDE DEF P
<1> QED BY <1>2, <1>3, <1>4

LEMMA DivMod ==
    ASSUME NEW k \in Nat, NEW d \in Nat \ {0}
    PROVE  /\ k \div d \in Nat /\ k % d \in 0 .. (d - 1)
           /\ k = d * (k \div d) + (k % d)
OBVIOUS

LEMMA DivUnique ==
    ASSUME NEW d \in Nat \ {0}, NEW q \in Nat, NEW r \in 0 .. (d - 1)
    PROVE  (d * q + r) \div d = q
OBVIOUS

LEMMA Times ==
    ASSUME NEW d \in Nat, NEW a \in Nat, NEW b \in Nat, a <= b
    PROVE  d * a <= d * b /\ d * a \in Nat
OBVIOUS

\* Dividing by w and then by c is dividing by their product.
LEMMA DivDiv ==
    ASSUME NEW k \in Nat, NEW w \in Nat \ {0}, NEW c \in Nat \ {0}
    PROVE  (k \div w) \div c = k \div (c * w)
<1> DEFINE q == k \div w
           r == k % w
           u == q \div c
           v == q % c
           rest == w * v + r
<1>1. q \in Nat /\ r \in 0 .. (w - 1) /\ k = w * q + r
  BY DivMod
<1>2. u \in Nat /\ v \in 0 .. (c - 1) /\ q = c * u + v
  BY <1>1, DivMod
<1> HIDE DEF q, r, u, v
<1>3. k = (c * w) * u + rest
  BY <1>1, <1>2
<1>4. rest \in 0 .. (c * w - 1)
  <2>1. w * v <= w * (c - 1) /\ w * v \in Nat
    BY <1>2, Times
  <2>2. w * (c - 1) = c * w - w
    OBVIOUS
  <2> QED BY <1>1, <2>1, <2>2
<1>5. c * w \in Nat \ {0}
  OBVIOUS
<1> HIDE DEF rest
<1>6. k \div (c * w) = u
  BY <1>2, <1>3, <1>4, <1>5, DivUnique
<1> QED BY <1>6 DEF u, q

LEMMA PowersPositive ==
    ASSUME PowerLaw PROVE \A d \in Nat : Children ^ d \in Nat \ {0}
<1> USE TLSAssumption
<1> DEFINE T == {d \in Nat : Children ^ d \notin Nat \ {0}}
<1>1. SUFFICES ASSUME T # {} PROVE FALSE
  OBVIOUS
<1>2. PICK x \in T : \A y \in T : x <= y
  BY <1>1, LeastElement
<1>3. CASE x = 0
  BY <1>2, <1>3 DEF PowerLaw
<1>4. CASE x # 0
  <2>1. PICK d \in Nat : x = d + 1 /\ d \notin T
    <3>1. x - 1 \in Nat /\ x = (x - 1) + 1 /\ x - 1 \notin T
      BY <1>2, <1>4
    <3> QED BY <3>1
  <2> DEFINE p == Children ^ d
             q == Children ^ x
  <2>2. p \in Nat \ {0} /\ q = Children * p
    BY <2>1 DEF PowerLaw
  <2> HIDE DEF p, q
  <2>3. q \in Nat \ {0}
    BY <2>2
  <2> QED BY <1>2, <2>3 DEF q
<1> QED BY <1>3, <1>4

\* The keys under a node that is d levels above the leaves.
Width(d) == Entries * Children ^ d

LEMMA Widths ==
    ASSUME PowerLaw
    PROVE  /\ Width(0) = Entries /\ NKeys = Width(Depth)
           /\ \A d \in Nat : /\ Width(d) \in Nat \ {0} /\ Entries <= Width(d)
                             /\ Width(d + 1) = Children * Width(d)
<1> USE TLSAssumption
<1>1. \A d \in Nat : Children ^ d \in Nat \ {0}
  BY PowersPositive
<1>2. ASSUME NEW d \in Nat
      PROVE  /\ Width(d) \in Nat \ {0} /\ Entries <= Width(d)
             /\ Width(d + 1) = Children * Width(d)
  <2> DEFINE p == Children ^ d
             q == Children ^ (d + 1)
  <2>1. p \in Nat \ {0} /\ q = Children * p
    BY <1>1 DEF PowerLaw
  <2>2. Width(d) = Entries * p /\ Width(d + 1) = Entries * q
    BY DEF Width
  <2> HIDE DEF p, q
  <2>3. Entries * p \in Nat \ {0} /\ Entries <= Entries * p
    BY <2>1
  <2>4. Entries * (Children * p) = Children * (Entries * p)
    BY <2>1
  <2> QED BY <2>1, <2>2, <2>3, <2>4
<1>3. Width(0) = Entries
  BY DEF Width, PowerLaw
<1> QED BY <1>2, <1>3 DEF NKeys, Width

LEMMA KeysFinite ==
    ASSUME PowerLaw
    PROVE  /\ NKeys \in Nat \ {0} /\ Keys \subseteq Nat
           /\ IsFiniteSet(Keys) /\ Cardinality(Keys) = NKeys
<1>1. NKeys \in Nat \ {0}
  BY Widths, TLSAssumption
<1> QED BY <1>1, FS_Interval DEF Keys

-----------------------------------------------------------------------------
(* Linked lists                                                            *)

LEMMA LinkedDrop ==
    ASSUME NEW nx, NEW s, IsLinked(s, nx), s # <<>>
    PROVE  /\ IsLinked(Tail(s), nx) /\ HeadOf(Tail(s)) = nx[s[1]]
           /\ s[1] \in Keys /\ Elems(Tail(s)) = Elems(s) \ {s[1]}
<1> DEFINE n == Len(s)
           t == Tail(s)
<1>1. s \in Seq(Keys) /\ n \in Nat \ {0} /\ s[1] \in Keys
  BY DEF IsLinked
<1>2. t \in Seq(Keys) /\ Len(t) = n - 1 /\ \A i \in 1 .. (n - 1) : t[i] = s[i + 1]
  BY <1>1
<1> HIDE DEF n, t
<1>3. IsLinked(t, nx)
  <2>1. \A i \in 1 .. (n - 1) : i + 1 \in 1 .. n
    BY <1>1
  <2>2. ASSUME NEW i \in 1 .. (n - 1), NEW j \in 1 .. (n - 1), t[i] = t[j] PROVE i = j
    <3>1. s[i + 1] = s[j + 1]
      BY <1>2, <2>2
    <3>2. i + 1 = j + 1
      BY <2>1, <3>1 DEF IsLinked, n
    <3> QED BY <1>1, <3>2
  <2>3. ASSUME NEW i \in 1 .. (n - 1)
        PROVE  nx[t[i]] = IF i < n - 1 THEN t[i + 1] ELSE NULL
    <3>1. nx[s[i + 1]] = IF i + 1 < n THEN s[i + 2] ELSE NULL
      BY <1>1, <2>1 DEF IsLinked, n
    <3>2. i < n - 1 => t[i + 1] = s[i + 2]
      BY <1>1, <1>2
    <3> QED BY <1>1, <1>2, <3>1, <3>2
  <2> QED BY <1>2, <2>2, <2>3 DEF IsLinked
<1>4. HeadOf(t) = nx[s[1]]
  <2>1. t = <<>> <=> n = 1
    BY <1>1, <1>2
  <2> QED BY <1>1, <1>2, <2>1 DEF HeadOf, IsLinked, n
<1>5. Elems(t) = Elems(s) \ {s[1]}
  <2>1. ASSUME NEW x \in Elems(t) PROVE x \in Elems(s) \ {s[1]}
    BY <1>1, <1>2, <2>1 DEF Elems, IsLinked, n
  <2>2. ASSUME NEW x \in Elems(s) \ {s[1]} PROVE x \in Elems(t)
    <3>1. PICK i \in 1 .. n : x = s[i]
      BY <2>2 DEF Elems, n
    <3>2. i - 1 \in 1 .. (n - 1) /\ t[i - 1] = x
      BY <1>1, <1>2, <2>2, <3>1
    <3> QED BY <1>2, <3>2 DEF Elems
  <2> QED BY <2>1, <2>2
<1> QED BY <1>1, <1>3, <1>4, <1>5 DEF t

LEMMA LinkedPush ==
    ASSUME NEW nx, NEW s, IsLinked(s, nx), NEW k \in Keys \ Elems(s), nx[k] = HeadOf(s)
    PROVE  \E t : IsLinked(t, nx) /\ HeadOf(t) = k /\ Elems(t) = Elems(s) \cup {k}
<1> DEFINE n == Len(s)
           t == [i \in 1 .. (n + 1) |-> IF i = 1 THEN k ELSE s[i - 1]]
<1>1. s \in Seq(Keys) /\ n \in Nat /\ \A i \in 1 .. n : s[i] \in Keys /\ s[i] # k
  BY DEF IsLinked, Elems
<1>2. t \in Seq(Keys) /\ Len(t) = n + 1 /\ t # <<>> /\ t[1] = k
      /\ \A i \in 1 .. n : t[i + 1] = s[i]
  BY <1>1
<1> HIDE DEF n, t
<1>3. \A i, j \in 1 .. (n + 1) : t[i] = t[j] => i = j
  <2> SUFFICES ASSUME NEW i \in 1 .. (n + 1), NEW j \in 1 .. (n + 1), t[i] = t[j]
               PROVE  i = j
    OBVIOUS
  <2>1. i # 1 => i - 1 \in 1 .. n /\ t[i] = s[i - 1]
    BY <1>1, <1>2
  <2>2. j # 1 => j - 1 \in 1 .. n /\ t[j] = s[j - 1]
    BY <1>1, <1>2
  <2>3. i # 1 /\ j # 1 => i - 1 = j - 1
    BY <2>1, <2>2 DEF IsLinked, n
  <2> QED BY <1>1, <1>2, <2>1, <2>2, <2>3
<1>4. \A i \in 1 .. (n + 1) : nx[t[i]] = IF i < n + 1 THEN t[i + 1] ELSE NULL
  <2> TAKE i \in 1 .. (n + 1)
  <2>1. CASE i = 1
    <3>1. s = <<>> <=> n = 0
      BY <1>1 DEF n
    <3> QED BY <1>1, <1>2, <2>1, <3>1 DEF HeadOf
  <2>2. CASE i # 1
    <3>1. PICK j \in 1 .. n : i = j + 1
      <4>1. i - 1 \in 1 .. n /\ i = (i - 1) + 1
        BY <1>1, <2>2
      <4> QED BY <4>1
    <3>2. nx[s[j]] = IF j < n THEN s[j + 1] ELSE NULL
      BY DEF IsLinked, n
    <3>3. j < n => j + 1 \in 1 .. n
      BY <1>1
    <3> QED BY <1>1, <1>2, <3>1, <3>2, <3>3
  <2> QED BY <2>1, <2>2
<1>5. IsLinked(t, nx) /\ HeadOf(t) = k
  BY <1>2, <1>3, <1>4 DEF IsLinked, HeadOf
<1>6. Elems(t) = Elems(s) \cup {k}
  <2>1. \A i \in 1 .. (n + 1) : i = 1 \/ (i - 1 \in 1 .. n /\ t[i] = s[i - 1])
    BY <1>1, <1>2
  <2>2. Elems(t) \subseteq Elems(s) \cup {k}
    BY <1>2, <2>1 DEF Elems, n
  <2>3. ASSUME NEW x \in Elems(s) PROVE x \in Elems(t)
    <3>1. PICK i \in 1 .. n : x = s[i]
      BY DEF Elems, n
    <3>2. i + 1 \in 1 .. (n + 1) /\ t[i + 1] = x
      BY <1>1, <1>2, <3>1
    <3> QED BY <1>2, <3>2 DEF Elems
  <2>4. k \in Elems(t)
    BY <1>1, <1>2 DEF Elems
  <2> QED BY <2>2, <2>3, <2>4
<1> QED BY <1>5, <1>6

LEMMA LinkedFrame ==
    ASSUME NEW nx, NEW ny, NEW s, IsLinked(s, nx), \A k \in Elems(s) : ny[k] = nx[k]
    PROVE  IsLinked(s, ny)
BY DEF IsLinked, Elems
\* The keys that are free at first, from n on, and the least of them.
FreeFrom(n) == {k \in Keys \ Reserved : k >= n}
FirstFrom(n) == IF FreeFrom(n) = {} THEN NULL ELSE Min(FreeFrom(n))

LEMMA FirstFromIs ==
    ASSUME PowerLaw, NEW n \in Nat, NEW k \in FreeFrom(n), \A j \in FreeFrom(n) : k <= j
    PROVE  FirstFrom(n) = k
BY KeysFinite, MinIsLeast DEF FirstFrom, FreeFrom

\* myth_tls_key_allocator_init links the keys in their order.
LEMMA InitLinked ==
    ASSUME PowerLaw, NEW nx, \A k \in Keys \ Reserved : nx[k] = FirstFrom(k + 1)
    PROVE  \A n \in 0 .. NKeys :
               \E s : IsLinked(s, nx) /\ HeadOf(s) = FirstFrom(n) /\ Elems(s) = FreeFrom(n)
<1> DEFINE Good(n) ==
        \E s : IsLinked(s, nx) /\ HeadOf(s) = FirstFrom(n) /\ Elems(s) = FreeFrom(n)
           T == {c \in 0 .. NKeys : ~Good(NKeys - c)}
<1>0. NKeys \in Nat \ {0} /\ Keys \subseteq Nat
  BY KeysFinite
<1>1. Good(NKeys)
  <2>1. FreeFrom(NKeys) = {}
    BY <1>0 DEF FreeFrom, Keys
  <2>2. IsLinked(<<>>, nx) /\ HeadOf(<<>>) = NULL /\ Elems(<<>>) = {}
    BY DEF IsLinked, HeadOf, Elems
  <2> QED BY <2>1, <2>2 DEF FirstFrom
<1>2. ASSUME NEW n \in 0 .. (NKeys - 1), Good(n + 1) PROVE Good(n)
  <2>0. n \in Keys /\ n \in Nat
    BY <1>0 DEF Keys
  <2>0a. \A k \in Keys : k >= n <=> (k >= n + 1 \/ k = n)
    BY <1>0, <2>0
  <2>1. PICK s : IsLinked(s, nx) /\ HeadOf(s) = FirstFrom(n + 1) /\ Elems(s) = FreeFrom(n + 1)
    BY <1>2
  <2>2. CASE n \in Reserved
    <3>1. FreeFrom(n) = FreeFrom(n + 1)
      BY <2>0a, <2>2 DEF FreeFrom
    <3>2. FirstFrom(n) = FirstFrom(n + 1)
      BY <3>1 DEF FirstFrom
    <3> QED BY <2>1, <3>1, <3>2
  <2>3. CASE n \notin Reserved
    <3>1. FreeFrom(n) = FreeFrom(n + 1) \cup {n} /\ n \notin FreeFrom(n + 1)
      <4>1. ~(n >= n + 1) /\ n >= n
        BY <2>0
      <4> QED BY <2>0, <2>0a, <2>3, <4>1 DEF FreeFrom
    <3>2. FirstFrom(n) = n
      BY <1>0, <2>0, <3>1, FirstFromIs DEF FreeFrom
    <3>3. nx[n] = HeadOf(s)
      BY <2>0, <2>1, <2>3
    <3>4. PICK t : IsLinked(t, nx) /\ HeadOf(t) = n /\ Elems(t) = Elems(s) \cup {n}
      BY <2>0, <2>1, <3>1, <3>3, LinkedPush
    <3> QED BY <2>1, <3>1, <3>2, <3>4
  <2> QED BY <2>2, <2>3
<1> HIDE DEF Good
<1>3. T = {}
  <2>1. SUFFICES ASSUME T # {} PROVE FALSE
    OBVIOUS
  <2>2. PICK c \in T : \A y \in T : c <= y
    <3>1. T \subseteq Nat
      BY <1>0
    <3> QED BY <2>1, <3>1, LeastElement
  <2>3. c # 0
    BY <1>0, <1>1, <2>2
  <2>4. PICK n \in 0 .. (NKeys - 1) : n = NKeys - c /\ n + 1 = NKeys - (c - 1)
    <3>1. NKeys - c \in 0 .. (NKeys - 1) /\ (NKeys - c) + 1 = NKeys - (c - 1)
      BY <1>0, <2>2, <2>3
    <3> QED BY <3>1
  <2>5. c - 1 \in 0 .. NKeys /\ c - 1 \notin T
    BY <1>0, <2>2, <2>3
  <2> QED BY <1>2, <2>2, <2>4, <2>5
<1>4. ASSUME NEW n \in 0 .. NKeys PROVE Good(n)
  <2>1. NKeys - n \in 0 .. NKeys /\ NKeys - (NKeys - n) = n
    BY <1>0
  <2> QED BY <1>3, <2>1
<1> QED BY <1>4 DEF Good

LEMMA InitKeys == ASSUME PowerLaw PROVE Init => KInv
<1> SUFFICES ASSUME Init PROVE KInv
  OBVIOUS
<1> USE TLSAssumption
<1>0. NKeys \in Nat \ {0} /\ Keys \subseteq Nat
  BY KeysFinite
<1>1. ASSUME NEW n \in Nat, FreeFrom(n) # {} PROVE FirstFrom(n) \in FreeFrom(n)
  <2>1. PICK k \in FreeFrom(n) : \A j \in FreeFrom(n) : k <= j
    BY <1>0, <1>1, LeastElement DEF FreeFrom
  <2> QED BY <2>1, FirstFromIs
<1>2. ASSUME NEW k \in Keys \ Reserved PROVE next[k] = FirstFrom(k + 1)
  <2>1. FreeFrom(k + 1) = {n \in Keys \ Reserved : n > k}
    <3>1. \A n \in Keys : n > k <=> n >= k + 1
      BY <1>0
    <3> QED BY <3>1 DEF FreeFrom
  <2>2. (\E n \in Keys \ Reserved : n > k) <=> FreeFrom(k + 1) # {}
    BY <2>1
  <2> QED BY <2>1, <2>2 DEF Init, FirstFrom
<1>3. FreeFrom(0) = Keys \ Reserved /\ free = FirstFrom(0)
  <2>1. FreeFrom(0) = Keys \ Reserved
    <3>1. \A n \in Keys : n >= 0
      BY <1>0
    <3> QED BY <3>1 DEF FreeFrom
  <2> QED BY <2>1 DEF Init, FirstFrom
<1>4. AllocTypes
  <2>1. ASSUME NEW k \in Keys PROVE next[k] \in Keys \cup {NULL, USED}
    <3>1. CASE k \in Reserved
      BY <3>1 DEF Init
    <3>2. CASE k \notin Reserved
      <4>1. k + 1 \in Nat /\ FirstFrom(k + 1) \in FreeFrom(k + 1) \cup {NULL}
        BY <1>0, <1>1 DEF FirstFrom
      <4> QED BY <1>2, <3>2, <4>1 DEF FreeFrom
    <3> QED BY <3>1, <3>2
  <2>2. free \in Keys \cup {NULL}
    <3>1. FreeFrom(0) # {} => FirstFrom(0) \in FreeFrom(0)
      BY <1>1
    <3> QED BY <1>3, <3>1 DEF FirstFrom, FreeFrom
  <2> QED BY <2>1, <2>2 DEF AllocTypes, Init, PCs
<1>5. CallsOK
  BY DEF CallsOK, Init, Has, Deletes
<1>6. PICK s : IsLinked(s, next) /\ HeadOf(s) = FirstFrom(0) /\ Elems(s) = FreeFrom(0)
  BY <1>0, <1>2, InitLinked
<1>7. FreeList(s)
  BY <1>3, <1>6 DEF FreeList, Init, Has, Deletes
<1> QED BY <1>4, <1>5, <1>6, <1>7 DEF KInv, ListInv, IsLinked

-----------------------------------------------------------------------------
(* The steps of the key allocator                                          *)

\* Every step keeps the types.
LEMMA TypesStep == ASSUME AllocTypes, [Next]_vars PROVE AllocTypes'
<1> USE TLSAssumption
<1>1. ASSUME NEW th \in Threads, CreateBegin(th) \/ CreateRead(th) \/ CreateNone(th)
      PROVE  AllocTypes'
  BY <1>1 DEF CreateBegin, CreateRead, CreateNone, Goto, AllocTypes, PCs, keyVars, history
<1>2. ASSUME NEW th \in Threads, CreateNext(th) \/ CreateFault(th)
      PROVE  AllocTypes'
  BY <1>2 DEF CreateNext, CreateFault, Goto, AllocTypes, PCs, keyVars, history
<1>3. ASSUME NEW th \in Threads, CreatePop(th) \/ CreateRetry(th)
      PROVE  AllocTypes'
  BY <1>3 DEF CreatePop, CreateRetry, Goto, Forget, AllocTypes, PCs, keyVars
<1>4. ASSUME NEW th \in Threads, CreateMark(th)
      PROVE  AllocTypes'
  BY <1>4 DEF CreateMark, Goto, Forget, AllocTypes, PCs, history
<1>5. ASSUME NEW th \in Threads, NEW k \in Keys, DeleteBegin(th, k)
      PROVE  AllocTypes'
  BY <1>5 DEF DeleteBegin, Goto, AllocTypes, PCs, keyVars, history
<1>6. ASSUME NEW th \in Threads, DeleteUnused(th) \/ DeleteCheck(th)
      PROVE  AllocTypes'
  BY <1>6 DEF DeleteUnused, DeleteCheck, Goto, AllocTypes, PCs, keyVars, history
<1>7. ASSUME NEW th \in Threads, DeleteRead(th) \/ DeleteRetry(th)
      PROVE  AllocTypes'
  BY <1>7 DEF DeleteRead, DeleteRetry, Goto, AllocTypes, PCs, keyVars, history
<1>8. ASSUME NEW th \in Threads, DeletePush(th)
      PROVE  AllocTypes'
  BY <1>8 DEF DeletePush, GiveBack, Goto, Forget, AllocTypes, PCs
<1>9. ASSUME NEW th \in Threads, Exit(th) \/ Start(th)
      PROVE  AllocTypes'
  BY <1>9 DEF Exit, Start, Goto, AllocTypes, PCs, keyVars, history
<1>10. ASSUME UNCHANGED <<keyVars, allocVars, history>> PROVE AllocTypes'
  BY <1>10 DEF AllocTypes, keyVars, allocVars, history
<1>11. ASSUME NEW th \in Threads, NEW k \in Keys, Set(th, k, Data) PROVE AllocTypes'
  BY <1>10, <1>11 DEF Set
<1>12. UNCHANGED vars => AllocTypes'
  BY <1>10 DEF vars
<1> QED BY <1>1, <1>2, <1>3, <1>4, <1>5, <1>6, <1>7, <1>8, <1>9, <1>11, <1>12
     DEF Next, AllocStep

\* A step that neither the free list nor the keys in hand take part in.
LEMMA QuietList ==
    ASSUME ListInv, UNCHANGED <<free, next, held>>,
           \A th \in Threads : (Has(th)' <=> Has(th)) /\ (Has(th) => ke'[th] = ke[th]),
           \A th \in Threads : pc'[th] = "cas" /\ th \notin returned' =>
               \/ /\ pc[th] = "cas" /\ th \notin returned
                  /\ ke'[th] = ke[th] /\ seen'[th] = seen[th]
               \/ seen'[th] = next[ke'[th]]
    PROVE  (\E s \in Seq(Keys) : FreeList(s))'
<1>1. PICK s \in Seq(Keys) : FreeList(s)
  BY DEF ListInv
<1>2. FreeList(s)'
  BY <1>1 DEF FreeList
<1> QED BY <1>2

\* Calls begin and end, and reads and failed CASes come to nothing.
LEMMA QuietKeys ==
    ASSUME AllocTypes, ListInv, NEW th \in Threads,
           \/ CreateBegin(th) \/ CreateRead(th) \/ CreateNone(th) \/ CreateNext(th)
           \/ CreateFault(th) \/ CreateRetry(th) \/ DeleteUnused(th) \/ DeleteRetry(th)
           \/ Exit(th) \/ Start(th) \/ \E k \in Keys : DeleteBegin(th, k)
    PROVE  ListInv'
<1>1. UNCHANGED <<free, next, destructor, held>> /\ returned' \in {returned, returned \ {th}}
  BY DEF CreateBegin, CreateRead, CreateNone, CreateNext, CreateFault, CreateRetry,
     DeleteUnused, DeleteRetry, Exit, Start, DeleteBegin, keyVars, history
<1>2. \A o \in Threads \ {th} : pc'[o] = pc[o] /\ ke'[o] = ke[o] /\ seen'[o] = seen[o]
  BY DEF CreateBegin, CreateRead, CreateNone, CreateNext, CreateFault, CreateRetry,
     DeleteUnused, DeleteRetry, Exit, Start, DeleteBegin, Goto, Forget, AllocTypes
<1>3. /\ Has(th)' <=> Has(th)
      /\ Has(th) => ke'[th] = ke[th]
      /\ pc'[th] = "cas" => seen'[th] = next[ke'[th]]
      /\ pc'[th] # "push"
  BY TLSAssumption DEF CreateBegin, CreateRead, CreateNone, CreateNext, CreateFault,
     CreateRetry, DeleteUnused, DeleteRetry, Exit, Start, DeleteBegin, Goto, Forget,
     AllocTypes, Has, Deletes
<1>4. \A o \in Threads : (Has(o)' <=> Has(o)) /\ (Has(o) => ke'[o] = ke[o])
  BY <1>2, <1>3 DEF Has, Deletes
<1>5. CallsOK'
  <2>1. \A o \in Threads : pc'[o] = "push" => next'[ke'[o]] = seen'[o]
    BY <1>1, <1>2, <1>3 DEF ListInv, CallsOK
  <2>2. /\ \A o \in Threads : Has(o)' => ke'[o] \in Keys \ held'
        /\ \A o, d \in Threads : Has(o)' /\ Has(d)' /\ ke'[o] = ke'[d] => o = d
    BY <1>1, <1>4 DEF ListInv, CallsOK
  <2> QED BY <2>1, <2>2 DEF CallsOK
<1>6. (\E s \in Seq(Keys) : FreeList(s))'
  BY <1>1, <1>2, <1>3, <1>4, QuietList
<1> QED BY <1>5, <1>6 DEF ListInv

\* The head of the list goes into the hands of the creator, unless it had
\* come back.
LEMMA PopKeys ==
    ASSUME AllocTypes, ListInv, NEW th \in Threads, CreatePop(th), faults' = {}
    PROVE  ListInv'
<1>1. /\ UNCHANGED <<next, destructor, held, ke>>
      /\ free = ke[th] /\ free' = seen[th]
      /\ pc[th] = "cas" /\ pc' = [pc EXCEPT ![th] = "mark"]
      /\ seen' = [seen EXCEPT ![th] = NULL]
      /\ th \notin returned /\ returned' = returned \ {th}
  BY DEF CreatePop, Goto
<1>2. PICK s \in Seq(Keys) : FreeList(s)
  BY DEF ListInv
<1>3. /\ s # <<>> /\ s[1] = ke[th] /\ ke[th] \in Keys /\ ke[th] \in Elems(s)
      /\ seen[th] = next[ke[th]]
  <2>1. ke[th] \in Keys
    BY <1>1 DEF AllocTypes
  <2>2. s # <<>> /\ s[1] = ke[th]
    BY <1>1, <1>2, <2>1, TLSAssumption DEF FreeList, HeadOf
  <2>3. ke[th] \in Elems(s)
    BY <2>2 DEF Elems
  <2> QED BY <1>1, <1>2, <2>1, <2>2, <2>3 DEF FreeList
<1> DEFINE t == Tail(s)
<1>4. /\ IsLinked(t, next) /\ HeadOf(t) = seen[th] /\ t \in Seq(Keys)
      /\ Elems(t) = Elems(s) \ {ke[th]}
  <2>1. IsLinked(s, next)
    BY <1>2 DEF FreeList
  <2>2. /\ IsLinked(t, next) /\ HeadOf(t) = next[s[1]]
        /\ Elems(t) = Elems(s) \ {s[1]}
    BY <1>3, <2>1, LinkedDrop
  <2>3. t \in Seq(Keys)
    BY <1>3
  <2> QED BY <1>3, <2>2, <2>3
<1> HIDE DEF t
<1>5. /\ \A o \in Threads : Has(o)' <=> (Has(o) \/ o = th)
      /\ \A o \in Threads \ {th} : pc'[o] = pc[o] /\ seen'[o] = seen[o]
      /\ pc'[th] = "mark"
      /\ \A o \in Threads : Has(o) => ke[o] # ke[th]
      /\ ke[th] \notin held
  BY <1>1, <1>2, <1>3 DEF AllocTypes, Has, Deletes, FreeList
<1>6. CallsOK'
  <2>1. \A o \in Threads :
            /\ pc'[o] = "push" => next'[ke'[o]] = seen'[o]
            /\ Has(o)' => ke'[o] \in Keys \ held'
    BY <1>1, <1>3, <1>5 DEF ListInv, CallsOK
  <2>2. \A o, d \in Threads : Has(o)' /\ Has(d)' /\ ke'[o] = ke'[d] => o = d
    BY <1>1, <1>5 DEF ListInv, CallsOK
  <2> QED BY <2>1, <2>2 DEF CallsOK
<1>7. FreeList(t)'
  <2>1. IsLinked(t, next)' /\ (HeadOf(t) = free)' /\ (Elems(t) \cap held = {})'
    BY <1>1, <1>2, <1>4 DEF FreeList
  <2>2. \A o \in Threads : Has(o)' => ke'[o] \notin Elems(t)
    BY <1>1, <1>2, <1>4, <1>5 DEF FreeList
  <2>3. \A k \in Keys : k \in held' \cup Elems(t) \/ \E o \in Threads : Has(o)' /\ ke'[o] = k
    BY <1>1, <1>2, <1>4, <1>5 DEF FreeList
  <2>4. \A o \in Threads :
            pc'[o] = "cas" /\ o \notin returned' /\ ke'[o] \in Elems(t)
                => seen'[o] = next'[ke'[o]]
    BY <1>1, <1>2, <1>4, <1>5 DEF FreeList
  <2> QED BY <2>1, <2>2, <2>3, <2>4 DEF FreeList
<1> QED BY <1>4, <1>6, <1>7 DEF ListInv

\* The next of a key in hand may change: nobody comes by it in the list.
LEMMA HandKeys ==
    ASSUME AllocTypes, ListInv, NEW th \in Threads, CreateMark(th) \/ DeleteRead(th)
    PROVE  ListInv'
<1> DEFINE k == ke[th]
<1>1. /\ Has(th) /\ free' = free /\ k \in Keys \ held /\ returned' = returned
      /\ \A j \in Keys \ {k} : next'[j] = next[j]
      /\ \A o \in Threads \ {th} : pc'[o] = pc[o] /\ ke'[o] = ke[o] /\ seen'[o] = seen[o]
      /\ \/ held' = held \cup {k} /\ pc'[th] = "user"
         \/ held' = held /\ pc'[th] = "push" /\ ke' = ke /\ seen'[th] = next'[k]
  BY DEF CreateMark, DeleteRead, Goto, Forget, AllocTypes, ListInv, CallsOK, Has, Deletes,
     history
<1>2. PICK s \in Seq(Keys) : FreeList(s)
  BY DEF ListInv
<1>3. k \notin Elems(s) /\ Elems(s) \subseteq Keys
  BY <1>1, <1>2 DEF FreeList, IsLinked, Elems
<1>4. IsLinked(s, next')
  BY <1>1, <1>2, <1>3, LinkedFrame DEF FreeList
<1>5. /\ \A o \in Threads \ {th} : (Has(o)' <=> Has(o)) /\ (Has(o) => ke[o] # k)
      /\ Has(th)' => ke'[th] = k /\ held' = held
      /\ ~Has(th)' => held' = held \cup {k}
      /\ pc'[th] # "cas"
  BY <1>1 DEF Has, Deletes, ListInv, CallsOK
<1>6. CallsOK'
  <2>1. \A o \in Threads : Has(o)' => ke'[o] \in Keys \ held'
    BY <1>1, <1>5 DEF ListInv, CallsOK
  <2>2. \A o \in Threads : pc'[o] = "push" => next'[ke'[o]] = seen'[o]
    <3> SUFFICES ASSUME NEW o \in Threads, pc'[o] = "push" PROVE next'[ke'[o]] = seen'[o]
      OBVIOUS
    <3>1. CASE o = th
      BY <1>1, <3>1
    <3>2. CASE o # th
      <4>1. pc[o] = "push" /\ Has(o)
        BY <1>1, <3>2 DEF Has, Deletes
      <4>2. next[ke[o]] = seen[o] /\ ke[o] \in Keys \ {k}
        BY <1>5, <3>2, <4>1 DEF ListInv, CallsOK
      <4> QED BY <1>1, <3>2, <4>2
    <3> QED BY <3>1, <3>2
  <2>3. \A o, d \in Threads : Has(o)' /\ Has(d)' /\ ke'[o] = ke'[d] => o = d
    BY <1>1, <1>5 DEF ListInv, CallsOK
  <2> QED BY <2>1, <2>2, <2>3 DEF CallsOK
<1>7. FreeList(s)'
  <2>1. (HeadOf(s) = free)' /\ (Elems(s) \cap held = {})'
    BY <1>1, <1>2, <1>3 DEF FreeList
  <2>2. \A o \in Threads : Has(o)' => ke'[o] \notin Elems(s)
    BY <1>1, <1>2, <1>3, <1>5 DEF FreeList
  <2>3. \A j \in Keys : j \in held' \cup Elems(s) \/ \E o \in Threads : Has(o)' /\ ke'[o] = j
    <3> SUFFICES ASSUME NEW j \in Keys, j \notin held' \cup Elems(s)
                 PROVE  \E o \in Threads : Has(o)' /\ ke'[o] = j
      OBVIOUS
    <3>1. PICK o \in Threads : Has(o) /\ ke[o] = j
      BY <1>1, <1>2 DEF FreeList
    <3> QED BY <1>1, <1>5, <3>1
  <2>4. ASSUME NEW o \in Threads, pc'[o] = "cas", o \notin returned', ke'[o] \in Elems(s)
        PROVE  seen'[o] = next'[ke'[o]]
    <3>1. o # th
      BY <1>5, <2>4
    <3>2. pc[o] = "cas" /\ o \notin returned /\ ke'[o] = ke[o] /\ seen'[o] = seen[o]
      BY <1>1, <2>4, <3>1
    <3>3. ke[o] \in Keys \ {k}
      BY <1>3, <2>4, <3>2
    <3> QED BY <1>1, <1>2, <2>4, <3>2, <3>3 DEF FreeList
  <2> QED BY <1>4, <2>1, <2>2, <2>3, <2>4 DEF FreeList
<1> QED BY <1>6, <1>7 DEF ListInv

\* A key that is held goes into the hands of its deleter, unless another has
\* it in his.
LEMMA CheckKeys ==
    ASSUME AllocTypes, ListInv, NEW th \in Threads, DeleteCheck(th), faults' = {}
    PROVE  ListInv'
<1> DEFINE k == ke[th]
<1>1. /\ UNCHANGED <<free, next, destructor, ke, seen, returned>>
      /\ k \in held /\ held' = held \ {k}
      /\ pc[th] = "check" /\ pc' = [pc EXCEPT ![th] = "delete"]
  BY DEF DeleteCheck, Goto
<1>2. /\ \A o \in Threads \ {th} : pc'[o] = pc[o] /\ (Has(o)' <=> Has(o))
      /\ pc'[th] = "delete" /\ Has(th)' /\ ~Has(th) /\ k \in Keys
      /\ \A o \in Threads : Has(o) => ke[o] # k
  BY <1>1 DEF AllocTypes, ListInv, CallsOK, Has, Deletes
<1> HIDE DEF k
<1>3. CallsOK'
  <2>1. \A o \in Threads : /\ Has(o)' => ke'[o] \in Keys \ held'
                           /\ pc'[o] = "push" => next'[ke'[o]] = seen'[o]
    BY <1>1, <1>2 DEF ListInv, CallsOK, k
  <2>2. \A o, d \in Threads : Has(o)' /\ Has(d)' /\ ke'[o] = ke'[d] => o = d
    BY <1>1, <1>2 DEF ListInv, CallsOK, k
  <2> QED BY <2>1, <2>2 DEF CallsOK
<1>4. PICK s \in Seq(Keys) : FreeList(s)
  BY DEF ListInv
<1>5. FreeList(s)'
  <2>1. IsLinked(s, next)' /\ (HeadOf(s) = free)' /\ (Elems(s) \cap held = {})'
    BY <1>1, <1>4 DEF FreeList
  <2>2. \A o \in Threads : Has(o)' => ke'[o] \notin Elems(s)
    BY <1>1, <1>2, <1>4 DEF FreeList, k
  <2>3. \A j \in Keys : j \in held' \cup Elems(s) \/ \E o \in Threads : Has(o)' /\ ke'[o] = j
    <3> SUFFICES ASSUME NEW j \in Keys, j \notin held' \cup Elems(s)
                 PROVE  \E o \in Threads : Has(o)' /\ ke'[o] = j
      OBVIOUS
    <3>1. CASE j = k
      BY <1>1, <1>2, <3>1 DEF k
    <3>2. CASE j # k
      <4>1. PICK o \in Threads : Has(o) /\ ke[o] = j
        BY <1>1, <1>4, <3>2 DEF FreeList
      <4> QED BY <1>1, <1>2, <4>1
    <3> QED BY <3>1, <3>2
  <2>4. \A o \in Threads :
            pc'[o] = "cas" /\ o \notin returned' /\ ke'[o] \in Elems(s)
                => seen'[o] = next'[ke'[o]]
    BY <1>1, <1>2, <1>4 DEF FreeList
  <2> QED BY <2>1, <2>2, <2>3, <2>4 DEF FreeList
<1> QED BY <1>3, <1>5 DEF ListInv

\* The key in hand becomes the head of the list; those who have read its next
\* before are marked.
LEMMA PushKeys ==
    ASSUME AllocTypes, ListInv, NEW th \in Threads, DeletePush(th)
    PROVE  ListInv'
<1> DEFINE k == ke[th]
<1>1. /\ UNCHANGED <<next, destructor, held>>
      /\ free = seen[th] /\ free' = k /\ Has(th)
      /\ pc[th] = "push" /\ pc' = [pc EXCEPT ![th] = "user"]
      /\ ke' = [ke EXCEPT ![th] = NULL] /\ seen' = [seen EXCEPT ![th] = NULL]
      /\ returned' = returned \cup {o \in Threads : pc[o] = "cas" /\ ke[o] = k}
  BY DEF DeletePush, GiveBack, Goto, Forget, Has, Deletes
<1>2. k \in Keys \ held /\ next[k] = free
  BY <1>1 DEF ListInv, CallsOK
<1>3. /\ \A o \in Threads \ {th} : /\ pc'[o] = pc[o] /\ ke'[o] = ke[o] /\ seen'[o] = seen[o]
                                   /\ Has(o)' <=> Has(o)
                                   /\ Has(o) => ke[o] # k
      /\ pc'[th] = "user" /\ ~Has(th)'
  BY <1>1, <1>2 DEF AllocTypes, ListInv, CallsOK, Has, Deletes
<1>4. CallsOK'
  <2>1. \A o \in Threads : /\ Has(o)' => ke'[o] \in Keys \ held'
                           /\ pc'[o] = "push" => next'[ke'[o]] = seen'[o]
    BY <1>1, <1>3 DEF ListInv, CallsOK
  <2>2. \A o, d \in Threads : Has(o)' /\ Has(d)' /\ ke'[o] = ke'[d] => o = d
    BY <1>1, <1>3 DEF ListInv, CallsOK
  <2> QED BY <2>1, <2>2 DEF CallsOK
<1>5. PICK s \in Seq(Keys) : FreeList(s)
  BY DEF ListInv
<1>6. k \in Keys \ Elems(s) /\ IsLinked(s, next) /\ next[k] = HeadOf(s)
  BY <1>1, <1>2, <1>5 DEF FreeList
<1> HIDE DEF k
<1>7. PICK t : IsLinked(t, next) /\ HeadOf(t) = k /\ Elems(t) = Elems(s) \cup {k}
  BY <1>6, LinkedPush
<1>8. FreeList(t)'
  <2>1. IsLinked(t, next)' /\ (HeadOf(t) = free)' /\ (Elems(t) \cap held = {})'
    BY <1>1, <1>2, <1>5, <1>7 DEF FreeList
  <2>2. \A o \in Threads : Has(o)' => ke'[o] \notin Elems(t)
    BY <1>3, <1>5, <1>7 DEF FreeList
  <2>3. \A j \in Keys : j \in held' \cup Elems(t) \/ \E o \in Threads : Has(o)' /\ ke'[o] = j
    <3> SUFFICES ASSUME NEW j \in Keys, j \notin held' \cup Elems(t)
                 PROVE  \E o \in Threads : Has(o)' /\ ke'[o] = j
      OBVIOUS
    <3>1. PICK o \in Threads : Has(o) /\ ke[o] = j
      BY <1>1, <1>5, <1>7 DEF FreeList
    <3>2. j # k
      BY <1>7
    <3> QED BY <1>3, <3>1, <3>2 DEF k
  <2>4. ASSUME NEW o \in Threads, pc'[o] = "cas", o \notin returned', ke'[o] \in Elems(t)
        PROVE  seen'[o] = next'[ke'[o]]
    <3>1. o # th
      BY <1>3, <2>4
    <3>2. /\ pc[o] = "cas" /\ o \notin returned /\ ke[o] # k
          /\ ke'[o] = ke[o] /\ seen'[o] = seen[o]
      BY <1>1, <1>3, <2>4, <3>1
    <3>3. ke[o] \in Elems(s)
      BY <1>7, <2>4, <3>2
    <3> QED BY <1>1, <1>5, <3>2, <3>3 DEF FreeList
  <2> QED BY <2>1, <2>2, <2>3, <2>4 DEF FreeList
<1> QED BY <1>4, <1>7, <1>8 DEF ListInv, IsLinked

LEMMA KeysStep == ASSUME KInv, [Next]_vars PROVE KInv'
<1>1. AllocTypes /\ AllocTypes'
  BY TypesStep DEF KInv
<1>2. faults' = {} => faults = {}
  BY DEF Next, AllocStep, CreateBegin, CreateRead, CreateNone, CreateNext, CreateFault,
     CreatePop, CreateRetry, CreateMark, DeleteBegin, DeleteUnused, DeleteCheck, DeleteRead,
     DeletePush, DeleteRetry, Set, Exit, Start, vars, history
<1>3. SUFFICES ASSUME ListInv, faults' = {} PROVE ListInv'
  BY <1>1, <1>2 DEF KInv
<1>4. ASSUME UNCHANGED <<keyVars, allocVars, history>> PROVE ListInv'
  <2>1. UNCHANGED <<free, next, destructor, held, pc, ke, seen, returned>>
    BY <1>4 DEF keyVars, allocVars, history
  <2>2. CallsOK'
    BY <1>3, <2>1 DEF ListInv, CallsOK, Has, Deletes
  <2>3. (\E s \in Seq(Keys) : FreeList(s))'
    BY <1>3, <2>1, QuietList DEF Has, Deletes
  <2> QED BY <2>2, <2>3 DEF ListInv
<1>5. ASSUME NEW th \in Threads, NEW k \in Keys, Set(th, k, Data) PROVE ListInv'
  BY <1>4, <1>5 DEF Set
<1>6. UNCHANGED vars => ListInv'
  BY <1>4 DEF vars
<1>7. ASSUME NEW th \in Threads, CreateBegin(th) \/ AllocStep(th) \/ Exit(th) \/ Start(th)
      PROVE  ListInv'
  BY <1>1, <1>3, <1>7, QuietKeys, PopKeys, HandKeys, CheckKeys, PushKeys DEF AllocStep
<1>8. ASSUME NEW th \in Threads, NEW k \in Keys, DeleteBegin(th, k) PROVE ListInv'
  BY <1>1, <1>3, <1>8, QuietKeys
<1> QED BY <1>5, <1>6, <1>7, <1>8, TLSAssumption DEF Next

-----------------------------------------------------------------------------
(* What is listed                                                          *)

\* The walk along next finds the keys of the list, and NULL from its end on.
LEMMA ListIs ==
    ASSUME NEW s, FreeList(s)
    PROVE  \A i \in Nat : List[i] = IF i < Len(s) THEN s[i + 1] ELSE NULL
<1> DEFINE n == Len(s)
           After(before) == IF before \in Keys THEN next[before] ELSE NULL
           Walk(f) == f = [i \in Nat |-> IF i = 0 THEN free ELSE After(f[i - 1])]
           g == [i \in Nat |-> IF i < n THEN s[i + 1] ELSE NULL]
<1>1. /\ s \in Seq(Keys) /\ n \in Nat /\ \A i \in 1 .. n : s[i] \in Keys
      /\ \A i \in 1 .. n : next[s[i]] = IF i < n THEN s[i + 1] ELSE NULL
      /\ free = (IF n = 0 THEN NULL ELSE s[1])
  BY DEF FreeList, IsLinked, HeadOf
<1> HIDE DEF n
<1>2. Walk(g)
  <2>1. ASSUME NEW i \in Nat PROVE g[i] = IF i = 0 THEN free ELSE After(g[i - 1])
    <3>1. CASE i = 0
      BY <1>1, <3>1
    <3>2. CASE i # 0
      <4>1. i - 1 \in Nat /\ (i - 1) + 1 = i /\ (i - 1 < n <=> i \in 1 .. n)
        BY <1>1, <3>2
      <4>2. g[i - 1] = IF i \in 1 .. n THEN s[i] ELSE NULL
        BY <4>1
      <4>3. After(g[i - 1]) = IF i \in 1 .. n THEN next[s[i]] ELSE NULL
        BY <1>1, <4>2, TLSAssumption
      <4>4. i \in 1 .. n => next[s[i]] = IF i < n THEN s[i + 1] ELSE NULL
        BY <1>1
      <4> QED BY <1>1, <3>2, <4>3, <4>4
    <3> QED BY <3>1, <3>2
  <2> QED BY <2>1
<1>3. Walk(List)
  <2>1. List = CHOOSE f : Walk(f)
    BY DEF List
  <2> HIDE DEF Walk
  <2> QED BY <1>2, <2>1
<1>4. List[0] = g[0] /\ \A i \in Nat : List[i] = g[i] => List[i + 1] = g[i + 1]
  <2>1. List[0] = free /\ g[0] = free
    BY <1>2, <1>3
  <2>2. ASSUME NEW i \in Nat PROVE List[i + 1] = After(List[i]) /\ g[i + 1] = After(g[i])
    <3>1. i + 1 \in Nat /\ i + 1 # 0 /\ (i + 1) - 1 = i
      OBVIOUS
    <3> HIDE DEF After, g
    <3> QED BY <1>2, <1>3, <3>1
  <2> HIDE DEF After, g
  <2> QED BY <2>1, <2>2
<1> HIDE DEF Walk
<1>5. \A i \in Nat : List[i] = g[i]
  <2> HIDE DEF g
  <2> DEFINE T == {i \in Nat : List[i] # g[i]}
  <2>1. SUFFICES ASSUME T # {} PROVE FALSE
    OBVIOUS
  <2>2. PICK x \in T : \A y \in T : x <= y
    BY <2>1, LeastElement
  <2>3. x # 0
    BY <1>4, <2>2
  <2>4. x - 1 \in Nat /\ x - 1 \notin T /\ (x - 1) + 1 = x
    BY <2>2, <2>3
  <2> QED BY <1>4, <2>2, <2>4
<1> QED BY <1>5 DEF n

LEMMA ListedIs ==
    ASSUME PowerLaw, NEW s, FreeList(s)
    PROVE  Listed = Elems(s) /\ List[NKeys] = NULL
<1> DEFINE n == Len(s)
<1>1. /\ s \in Seq(Keys) /\ n \in Nat /\ \A i \in 1 .. n : s[i] \in Keys
      /\ \A i, j \in 1 .. n : s[i] = s[j] => i = j
      /\ NKeys \in Nat /\ NULL \notin Keys
  BY KeysFinite, TLSAssumption DEF FreeList, IsLinked
<1>2. n <= NKeys
  <2>1. s \in Injection(1 .. n, Keys)
    BY <1>1 DEF Injection, IsInjective
  <2>2. IsFiniteSet(Keys) /\ Cardinality(Keys) = NKeys
    BY KeysFinite
  <2> HIDE DEF n
  <2>3. Cardinality(1 .. n) = n
    <3>1. n \in Int /\ (1 > n => n = 0) /\ n - 1 + 1 = n
      BY <1>1
    <3> QED BY <3>1, FS_Interval
  <2> QED BY <2>1, <2>2, <2>3, FS_Injection
<1>3. \A i \in Nat : List[i] = IF i < n THEN s[i + 1] ELSE NULL
  BY ListIs
<1> HIDE DEF n
<1>4. Listed \subseteq Elems(s)
  <2> SUFFICES ASSUME NEW i \in 0 .. NKeys, List[i] # NULL PROVE List[i] \in Elems(s)
    BY DEF Listed
  <2>1. i < n /\ List[i] = s[i + 1] /\ i + 1 \in 1 .. n
    BY <1>1, <1>3
  <2> QED BY <2>1 DEF Elems, n
<1>5. Elems(s) \subseteq Listed
  <2> SUFFICES ASSUME NEW i \in 1 .. n PROVE s[i] \in Listed
    BY DEF Elems, n
  <2>1. i - 1 \in 0 .. NKeys /\ i - 1 < n /\ (i - 1) + 1 = i
    BY <1>1, <1>2
  <2>2. List[i - 1] = s[i] /\ s[i] # NULL
    BY <1>1, <1>3, <2>1
  <2> QED BY <2>1, <2>2 DEF Listed
<1>6. List[NKeys] = NULL
  BY <1>1, <1>2, <1>3
<1> QED BY <1>4, <1>5, <1>6

LEMMA KInvCounts == ASSUME PowerLaw, KInv PROVE KeysAccountedFor
<1>0. SUFFICES ASSUME faults = {}, ListInv
               PROVE  /\ \A k \in Keys :
                          LET hands == {th \in Handled : ke[th] = k}
                          IN  IF k \in held \cup Listed
                              THEN hands = {} /\ ~(k \in held /\ k \in Listed)
                              ELSE Cardinality(hands) = 1
                      /\ List[NKeys] = NULL
  BY DEF KInv, KeysAccountedFor, Handled, Has
<1>1. PICK s \in Seq(Keys) : FreeList(s)
  BY <1>0 DEF ListInv
<1>2. Listed = Elems(s) /\ List[NKeys] = NULL
  BY <1>1, ListedIs
<1>3. ASSUME NEW k \in Keys
      PROVE  LET hands == {th \in Handled : ke[th] = k}
             IN  IF k \in held \cup Listed
                 THEN hands = {} /\ ~(k \in held /\ k \in Listed)
                 ELSE Cardinality(hands) = 1
  <2> DEFINE hands == {th \in Handled : ke[th] = k}
  <2>1. CASE k \in held \cup Listed
    BY <1>0, <1>1, <1>2, <2>1 DEF ListInv, CallsOK, FreeList, Handled
  <2>2. CASE k \notin held \cup Listed
    <3>1. PICK th \in Threads : Has(th) /\ ke[th] = k
      BY <1>1, <1>2, <2>2 DEF FreeList
    <3>2. hands = {th}
      BY <1>0, <3>1 DEF ListInv, CallsOK, Handled
    <3> QED BY <2>2, <3>2, FS_Singleton
  <2> QED BY <2>1, <2>2
<1> QED BY <1>2, <1>3

-----------------------------------------------------------------------------
(***************************************************************************)
(* No key of thread-local storage is handed out twice, and none is lost:   *)
(* each is held by the program, in the hands of one thread that creates or *)
(* deletes it, or in the free list.  So it is in every state before which  *)
(* no create took a key that had come back since its next was read, and no *)
(* second delete found a key still marked: whatever goes wrong begins with *)
(* one of these two races.  For any number of threads and keys.            *)
(***************************************************************************)
THEOREM KeysAccounted == ASSUME PowerLaw PROVE Spec => []KeysAccountedFor
<1>1. Init => KInv
  BY InitKeys
<1>2. KInv /\ [Next]_vars => KInv'
  BY KeysStep
<1>3. KInv => KeysAccountedFor
  BY KInvCounts
<1> QED BY <1>1, <1>2, <1>3, PTL DEF Spec

-----------------------------------------------------------------------------
(* The digits of a key                                                     *)

LEMMA LeafIn ==
    ASSUME PowerLaw, NEW k \in Keys
    PROVE  LeafOf(k) \in Leaves /\ EntryOf(k) \in 0 .. (Entries - 1)
<1>1. k \in Nat
  BY KeysFinite
<1>2. ASSUME NEW i \in 1 .. Depth
      PROVE  (k \div (Entries * Children ^ (Depth - i))) % Children \in Digits
  <2>1. Depth - i \in Nat
    BY TLSAssumption
  <2> DEFINE w == Width(Depth - i)
             q == k \div w
  <2>2. w \in Nat \ {0}
    BY <2>1, Widths
  <2> HIDE DEF w
  <2>3. q \in Nat
    BY <1>1, <2>2, DivMod
  <2> HIDE DEF q
  <2>4. q % Children \in Digits
    BY <2>3, TLSAssumption, DivMod DEF Digits
  <2> QED BY <2>4 DEF q, w, Width
<1>3. LeafOf(k) \in Leaves
  BY <1>2 DEF LeafOf, Leaves
<1> QED BY <1>1, <1>3, TLSAssumption, DivMod DEF EntryOf

(***************************************************************************)
(* No two keys lead to the same entry of the same leaf.                    *)
(***************************************************************************)
THEOREM KeysHaveTheirEntries ==
    ASSUME PowerLaw, NEW k \in Keys, NEW j \in Keys,
           LeafOf(k) = LeafOf(j), EntryOf(k) = EntryOf(j)
    PROVE  k = j
<1> DEFINE Quot(x, d) == x \div Width(d)
           T == {i \in Nat : i <= Depth /\ Quot(k, Depth - i) # Quot(j, Depth - i)}
<1>0. k \in Nat /\ j \in Nat /\ k < NKeys /\ j < NKeys /\ Depth \in Nat
  BY KeysFinite, TLSAssumption DEF Keys
<1>1. Quot(k, Depth) = 0 /\ Quot(j, Depth) = 0
  <2> DEFINE w == Width(Depth)
  <2>1. w \in Nat \ {0} /\ k < w /\ j < w
    BY <1>0, Widths
  <2> HIDE DEF w
  <2>2. \A x \in Nat : x < w => x \div w = 0
    <3> SUFFICES ASSUME NEW x \in Nat, x < w PROVE x \div w = 0
      OBVIOUS
    <3>1. x = w * 0 + x /\ x \in 0 .. (w - 1)
      BY <2>1
    <3>2. (w * 0 + x) \div w = 0
      BY <2>1, <3>1, DivUnique
    <3> QED BY <3>1, <3>2
  <2> QED BY <1>0, <2>1, <2>2 DEF w
<1>2. ASSUME NEW i \in 1 .. Depth, Quot(k, Depth - (i - 1)) = Quot(j, Depth - (i - 1))
      PROVE  Quot(k, Depth - i) = Quot(j, Depth - i)
  <2> DEFINE d == Depth - i
             w == Width(d)
             q == k \div w
             r == j \div w
  <2>1. d \in Nat /\ Depth - (i - 1) = d + 1
    BY <1>0
  <2> HIDE DEF d
  <2>2. w \in Nat \ {0} /\ Width(d + 1) = Children * w /\ Children \in Nat \ {0}
    BY <2>1, Widths, TLSAssumption
  <2>3. q % Children = r % Children
    <3>1. LeafOf(k)[i] = q % Children /\ LeafOf(j)[i] = r % Children
      BY DEF LeafOf, Width, d
    <3> QED BY <3>1
  <2>4. k \div (Children * w) = j \div (Children * w)
    BY <1>2, <2>1, <2>2
  <2> HIDE DEF w
  <2>5. q \div Children = r \div Children
    BY <1>0, <2>2, <2>4, DivDiv
  <2>6. q \in Nat /\ r \in Nat
    BY <1>0, <2>2, DivMod
  <2> HIDE DEF q, r
  <2>7. /\ q = Children * (q \div Children) + (q % Children)
        /\ r = Children * (r \div Children) + (r % Children)
    BY <2>2, <2>6, DivMod
  <2>8. q = r
    BY <2>3, <2>5, <2>7
  <2> QED BY <2>8 DEF q, r, w, d
<1> HIDE DEF Quot
<1>3. T = {}
  <2>1. SUFFICES ASSUME T # {} PROVE FALSE
    OBVIOUS
  <2>2. PICK x \in T : \A y \in T : x <= y
    <3>1. T \subseteq Nat
      OBVIOUS
    <3> QED BY <2>1, <3>1, LeastElement
  <2>3. x # 0
    BY <1>0, <1>1, <2>2
  <2>4. x \in 1 .. Depth /\ x - 1 \in Nat /\ x - 1 <= Depth /\ x - 1 \notin T
    BY <1>0, <2>2, <2>3
  <2> QED BY <1>2, <2>2, <2>4
<1>4. Quot(k, 0) = Quot(j, 0)
  <2>1. Depth \notin T /\ Depth - Depth = 0 /\ Depth <= Depth
    BY <1>0, <1>3
  <2> QED BY <1>0, <2>1
<1>5. k \div Entries = j \div Entries
  BY <1>4, Widths DEF Quot
<1>6. /\ k = Entries * (k \div Entries) + (k % Entries)
      /\ j = Entries * (j \div Entries) + (j % Entries)
  BY <1>0, DivMod, TLSAssumption
<1> QED BY <1>5, <1>6 DEF EntryOf

LEMMA PathIs ==
    ASSUME NEW leaf \in Leaves
    PROVE  /\ leaf \in Path(leaf) /\ Path(leaf) \subseteq Nodes
           /\ \A other \in Leaves : other \in Path(leaf) => other = leaf
<1>1. leaf \in Seq(Digits) /\ Len(leaf) = Depth /\ Depth \in Nat
  BY TLSAssumption DEF Leaves
<1>2. ASSUME NEW i \in 0 .. Depth
      PROVE  /\ SubSeq(leaf, 1, i) \in [1 .. i -> Digits]
             /\ i = Depth => SubSeq(leaf, 1, i) = leaf
  <2>1. SubSeq(leaf, 1, i) = [j \in 1 .. i |-> leaf[j]]
    BY <1>1
  <2>2. \A j \in 1 .. i : leaf[j] \in Digits
    BY <1>1
  <2>3. SubSeq(leaf, 1, i) \in [1 .. i -> Digits]
    BY <2>1, <2>2
  <2>4. ASSUME i = Depth PROVE SubSeq(leaf, 1, i) = leaf
    BY <1>1, <2>1, <2>4 DEF Leaves
  <2> QED BY <2>3, <2>4
<1>3. leaf \in Path(leaf)
  <2>1. Depth \in 0 .. Depth
    BY <1>1
  <2> QED BY <1>2, <2>1 DEF Path
<1>4. Path(leaf) \subseteq Nodes
  BY <1>2 DEF Path, Nodes
<1>5. ASSUME NEW other \in Leaves, other \in Path(leaf) PROVE other = leaf
  <2>1. PICK i \in 0 .. Depth : other = SubSeq(leaf, 1, i)
    BY <1>5 DEF Path
  <2>2. DOMAIN other = 1 .. i /\ DOMAIN other = 1 .. Depth
    BY <1>2, <2>1 DEF Leaves
  <2>3. i = Depth
    BY <1>1, <2>2
  <2> QED BY <1>2, <2>1, <2>3
<1> QED BY <1>3, <1>4, <1>5

-----------------------------------------------------------------------------
(* The values                                                              *)

LeafValues == [0 .. (Entries - 1) -> {NULL, Data}]

TreeTypes ==
    /\ pc \in [Threads -> PCs]
    /\ nodes \in [Threads -> SUBSET Nodes]
    /\ entry \in [Threads -> [Leaves -> LeafValues]]
    /\ stored \in [Threads -> [Keys -> {NULL, Data}]]
    /\ DOMAIN ran = Threads

\* The path to a leaf that is there is there; a leaf that is there has what
\* has been set, and nothing has been set in one that is not.
TreeOK(th) ==
    IF pc[th] = "over" THEN stored[th] = Nothing
    ELSE
        /\ \A leaf \in Leaves \cap nodes[th] : Path(leaf) \subseteq nodes[th]
        /\ \A k \in Keys :
            stored[th][k] =
                IF LeafOf(k) \in nodes[th] THEN entry[th][LeafOf(k)][EntryOf(k)] ELSE NULL

TreeInv == TreeTypes /\ \A th \in Threads : TreeOK(th)

LEMMA InitTree == ASSUME PowerLaw PROVE Init => TreeInv
BY DEF Init, TreeInv, TreeTypes, TreeOK, LeafValues, Empty, Nothing, PCs

\* A thread whose tree and values nobody touches.
LEMMA TreeFrame ==
    ASSUME NEW th \in Threads, TreeOK(th), pc'[th] = "over" <=> pc[th] = "over",
           nodes'[th] = nodes[th], entry'[th] = entry[th], stored'[th] = stored[th]
    PROVE  TreeOK(th)'
BY DEF TreeOK

LEMMA SetTree ==
    ASSUME PowerLaw, TreeInv, NEW th \in Threads, NEW k \in Keys, Set(th, k, Data)
    PROVE  TreeInv'
<1> DEFINE leaf == LeafOf(k)
           old == IF leaf \in nodes[th] THEN entry[th][leaf] ELSE Empty[leaf]
           new == [old EXCEPT ![EntryOf(k)] = Data]
<1>0. TreeTypes /\ leaf \in Leaves /\ EntryOf(k) \in 0 .. (Entries - 1)
      /\ Path(leaf) \subseteq Nodes /\ leaf \in Path(leaf)
  BY LeafIn, PathIs DEF TreeInv
<1>1. /\ pc' = pc /\ pc[th] # "over" /\ ran' = ran
      /\ nodes' = [nodes EXCEPT ![th] = @ \cup Path(leaf)]
      /\ entry' = [entry EXCEPT ![th][leaf] = new]
      /\ stored' = [stored EXCEPT ![th][k] = Data]
  BY DEF Set, allocVars
<1>2. old \in LeafValues
  BY <1>0 DEF TreeTypes, Empty, LeafValues
<1>3. /\ new \in LeafValues /\ new[EntryOf(k)] = Data
      /\ \A j \in 0 .. (Entries - 1) : j # EntryOf(k) => new[j] = old[j]
  BY <1>0, <1>2 DEF LeafValues
<1>4. old = IF leaf \in nodes[th] THEN entry[th][leaf] ELSE Empty[leaf]
  OBVIOUS
<1> HIDE DEF old, new, leaf
<1>5. TreeTypes'
  BY <1>0, <1>1, <1>3 DEF TreeTypes
<1>6. ASSUME NEW o \in Threads, o # th PROVE TreeOK(o)'
  <2>1. nodes'[o] = nodes[o] /\ entry'[o] = entry[o] /\ stored'[o] = stored[o] /\ TreeOK(o)
    BY <1>0, <1>1, <1>6 DEF TreeTypes, TreeInv
  <2> QED BY <1>1, <2>1, TreeFrame
<1>7. TreeOK(th)'
  <2>1. /\ TreeOK(th) /\ pc[th] # "over" /\ pc'[th] # "over"
        /\ nodes'[th] = nodes[th] \cup Path(leaf)
        /\ entry'[th] = [entry[th] EXCEPT ![leaf] = new]
        /\ stored'[th] = [stored[th] EXCEPT ![k] = Data]
    BY <1>0, <1>1 DEF TreeTypes, TreeInv
  <2>2. ASSUME NEW other \in Leaves
        PROVE  other \in nodes'[th] <=> (other \in nodes[th] \/ other = leaf)
    BY <1>0, <2>1, PathIs
  <2>3. \A other \in Leaves \cap nodes'[th] : Path(other) \subseteq nodes'[th]
    BY <2>1, <2>2 DEF TreeOK
  <2>4. ASSUME NEW j \in Keys
        PROVE  stored'[th][j] =
                   IF LeafOf(j) \in nodes'[th] THEN entry'[th][LeafOf(j)][EntryOf(j)] ELSE NULL
    <3>0. LeafOf(j) \in Leaves /\ EntryOf(j) \in 0 .. (Entries - 1)
      BY LeafIn
    <3>1. stored[th][j] =
              IF LeafOf(j) \in nodes[th] THEN entry[th][LeafOf(j)][EntryOf(j)] ELSE NULL
      BY <2>1 DEF TreeOK
    <3>2. /\ entry[th] \in [Leaves -> LeafValues] /\ stored[th] \in [Keys -> {NULL, Data}]
      BY <1>0 DEF TreeTypes
    <3>3. CASE LeafOf(j) # leaf
      <4>1. j # k
        BY <3>3 DEF leaf
      <4> QED BY <2>1, <2>2, <3>0, <3>1, <3>2, <3>3, <4>1
    <3>4. CASE LeafOf(j) = leaf
      <4>1. LeafOf(j) \in nodes'[th] /\ entry'[th][LeafOf(j)] = new
        BY <2>1, <2>2, <3>0, <3>2, <3>4
      <4>2. CASE j = k
        BY <1>3, <2>1, <3>2, <4>1, <4>2
      <4>3. CASE j # k
        <5>1. EntryOf(j) # EntryOf(k)
          BY <3>4, <4>3, KeysHaveTheirEntries DEF leaf
        <5>2. new[EntryOf(j)] = old[EntryOf(j)]
          BY <1>3, <3>0, <5>1
        <5>3. Empty[leaf][EntryOf(j)] = NULL
          BY <1>0, <3>0 DEF Empty
        <5>4. old[EntryOf(j)] = stored[th][j]
          BY <1>4, <3>1, <3>4, <5>3
        <5>5. stored'[th][j] = stored[th][j]
          BY <2>1, <3>2, <4>3
        <5> QED BY <4>1, <5>2, <5>4, <5>5
      <4> QED BY <4>2, <4>3
    <3> QED BY <3>3, <3>4
  <2> QED BY <2>1, <2>3, <2>4 DEF TreeOK
<1> QED BY <1>5, <1>6, <1>7 DEF TreeInv

LEMMA ExitTree ==
    ASSUME TreeInv, NEW th \in Threads, Exit(th)
    PROVE  TreeInv'
<1>0. TreeTypes
  BY DEF TreeInv
<1>1. /\ pc[th] = "user" /\ pc' = [pc EXCEPT ![th] = "over"]
      /\ nodes' = [nodes EXCEPT ![th] = {n \in @ : ~Reached(th, n)}]
      /\ entry' = [entry EXCEPT ![th] =
                    [l \in Leaves |-> IF Reached(th, l) THEN Empty[l] ELSE @[l]]]
      /\ stored' = [stored EXCEPT ![th] = Nothing]
      /\ \E X : ran' = [ran EXCEPT ![th] = X]
  BY DEF Exit, Goto
<1>2. nodes' \in [Threads -> SUBSET Nodes] /\ pc' \in [Threads -> PCs]
  BY <1>0, <1>1 DEF TreeTypes, PCs
<1>3. entry' \in [Threads -> [Leaves -> LeafValues]]
  <2>1. \A l \in Leaves : Empty[l] \in LeafValues /\ entry[th][l] \in LeafValues
    BY <1>0 DEF TreeTypes, Empty, LeafValues
  <2>2. [l \in Leaves |-> IF Reached(th, l) THEN Empty[l] ELSE entry[th][l]]
            \in [Leaves -> LeafValues]
    BY <2>1
  <2> QED BY <1>0, <1>1, <2>2 DEF TreeTypes
<1>4. stored' \in [Threads -> [Keys -> {NULL, Data}]]
  <2>1. Nothing \in [Keys -> {NULL, Data}]
    BY DEF Nothing
  <2> QED BY <1>0, <1>1, <2>1 DEF TreeTypes
<1>5. ASSUME NEW o \in Threads, o # th PROVE TreeOK(o)'
  <2>1. pc'[o] = pc[o] /\ nodes'[o] = nodes[o] /\ entry'[o] = entry[o]
        /\ stored'[o] = stored[o] /\ TreeOK(o)
    BY <1>0, <1>1, <1>5 DEF TreeTypes, TreeInv
  <2> QED BY <2>1, TreeFrame
<1>6. TreeOK(th)'
  <2>1. pc'[th] = "over" /\ stored'[th] = Nothing
    BY <1>0, <1>1 DEF TreeTypes
  <2> QED BY <2>1 DEF TreeOK, Nothing
<1>7. DOMAIN ran' = Threads
  BY <1>0, <1>1 DEF TreeTypes
<1> QED BY <1>2, <1>3, <1>4, <1>5, <1>6, <1>7 DEF TreeInv, TreeTypes

LEMMA StartTree ==
    ASSUME PowerLaw, TreeInv, NEW th \in Threads, Start(th)
    PROVE  TreeInv'
<1>0. TreeTypes /\ \A o \in Threads : TreeOK(o)
  BY DEF TreeInv
<1>1. /\ pc[th] = "over" /\ pc' = [pc EXCEPT ![th] = "user"]
      /\ nodes' = [nodes EXCEPT ![th] = {}]
      /\ entry' = [entry EXCEPT ![th] = Empty]
      /\ stored' = stored /\ ran' = [ran EXCEPT ![th] = {}]
  BY DEF Start, Goto
<1>2. Empty \in [Leaves -> LeafValues]
  BY DEF Empty, LeafValues
<1>3. TreeTypes'
  BY <1>0, <1>1, <1>2 DEF TreeTypes, PCs
<1>4. ASSUME NEW o \in Threads, o # th PROVE TreeOK(o)'
  <2>1. pc'[o] = pc[o] /\ nodes'[o] = nodes[o] /\ entry'[o] = entry[o]
        /\ stored'[o] = stored[o] /\ TreeOK(o)
    BY <1>0, <1>1, <1>4 DEF TreeTypes
  <2> QED BY <2>1, TreeFrame
<1>5. TreeOK(th)'
  <2>1. pc'[th] # "over" /\ nodes'[th] = {} /\ stored'[th] = Nothing
    BY <1>0, <1>1 DEF TreeTypes, TreeOK
  <2> QED BY <2>1 DEF TreeOK, Nothing
<1> QED BY <1>3, <1>4, <1>5 DEF TreeInv

LEMMA TreeStep == ASSUME PowerLaw, TreeInv, [Next]_vars PROVE TreeInv'
<1>0. TreeTypes /\ \A o \in Threads : TreeOK(o)
  BY DEF TreeInv
<1>1. ASSUME NEW th \in Threads, CreateBegin(th) \/ AllocStep(th) PROVE TreeInv'
  <2>1. /\ UNCHANGED <<nodes, entry, stored, ran>>
        /\ \E from, to \in PCs \ {"over"} : pc[th] = from /\ pc' = [pc EXCEPT ![th] = to]
    BY <1>1 DEF CreateBegin, AllocStep, CreateRead, CreateNone, CreateNext, CreateFault,
       CreatePop, CreateRetry, CreateMark, DeleteUnused, DeleteCheck, DeleteRead,
       DeletePush, DeleteRetry, Goto, treeVars, PCs
  <2>2. TreeTypes' /\ \A o \in Threads : pc'[o] = "over" <=> pc[o] = "over"
    BY <1>0, <2>1 DEF TreeTypes
  <2> QED BY <1>0, <2>1, <2>2, TreeFrame DEF TreeInv
<1>2. ASSUME NEW th \in Threads, NEW k \in Keys, DeleteBegin(th, k) PROVE TreeInv'
  <2>1. /\ UNCHANGED <<nodes, entry, stored, ran>>
        /\ pc[th] = "user" /\ pc' = [pc EXCEPT ![th] = "check"]
    BY <1>2 DEF DeleteBegin, Goto, treeVars
  <2>2. TreeTypes' /\ \A o \in Threads : pc'[o] = "over" <=> pc[o] = "over"
    BY <1>0, <2>1 DEF TreeTypes, PCs
  <2> QED BY <1>0, <2>1, <2>2, TreeFrame DEF TreeInv
<1>3. UNCHANGED vars => TreeInv'
  BY <1>0 DEF vars, allocVars, treeVars, TreeInv, TreeTypes, TreeOK, Nothing
<1> QED BY <1>1, <1>2, <1>3, SetTree, ExitTree, StartTree, TLSAssumption DEF Next

\* A tree that is as it should be gives what was set.
LEMMA TreeGets == ASSUME PowerLaw, TreeInv PROVE GetsWhatItSet
<1> SUFFICES ASSUME NEW th \in Threads, pc[th] # "over", NEW k \in Keys
             PROVE  Get(th, k) = stored[th][k]
  BY DEF GetsWhatItSet
<1>1. LeafOf(k) \in Leaves
  BY LeafIn
<1>2. Path(LeafOf(k)) \subseteq nodes[th] <=> LeafOf(k) \in nodes[th]
  BY <1>1, PathIs DEF TreeInv, TreeOK
<1> QED BY <1>1, <1>2 DEF TreeInv, TreeOK, Get

(***************************************************************************)
(* The tree of a thread has the values it has set: a leaf that is there    *)
(* can be reached from the root and holds just these, and nothing is set   *)
(* in a leaf that is missing.  Holds for every step of the program and of  *)
(* the allocator of keys.                                                  *)
(***************************************************************************)
THEOREM TreeInvariance == ASSUME PowerLaw PROVE Spec => []TreeInv
<1>1. Init => TreeInv
  BY InitTree
<1>2. TreeInv /\ [Next]_vars => TreeInv'
  BY TreeStep
<1> QED BY <1>1, <1>2, PTL DEF Spec

(***************************************************************************)
(* What a thread gets for a key is what it has set for it, for any number  *)
(* of threads, any depth of the trees and any width of their nodes: no two *)
(* keys share an entry, new leaves are cleared, and nothing is left of who *)
(* used the descriptor before.                                             *)
(***************************************************************************)
THEOREM ValuesStay == ASSUME PowerLaw PROVE Spec => []GetsWhatItSet
<1>1. TreeInv => GetsWhatItSet
  BY TreeGets
<1> QED BY <1>1, TreeInvariance, PTL

-----------------------------------------------------------------------------
(* The first leaf                                                          *)

ZeroLeaf == [i \in 1 .. Depth |-> 0]

\* The first leaf has the keys below Entries, in their order.
LEMMA FirstKeys ==
    ASSUME PowerLaw
    PROVE  /\ ZeroLeaf \in Leaves
           /\ \A j \in 0 .. (Entries - 1) :
                  j \in Keys /\ LeafOf(j) = ZeroLeaf /\ EntryOf(j) = j
           /\ \A k \in Keys : LeafOf(k) = ZeroLeaf => EntryOf(k) = k
<1>1. ZeroLeaf \in Leaves
  BY TLSAssumption DEF ZeroLeaf, Leaves, Digits
<1>2. ASSUME NEW j \in 0 .. (Entries - 1)
      PROVE  j \in Keys /\ LeafOf(j) = ZeroLeaf /\ EntryOf(j) = j
  <2>1. j \in Nat /\ j < Entries /\ Entries \in Nat \ {0}
    BY TLSAssumption
  <2>2. \A w \in Nat \ {0} : j < w => j \div w = 0 /\ j % w = j
    <3> SUFFICES ASSUME NEW w \in Nat \ {0}, j < w PROVE j \div w = 0 /\ j % w = j
      OBVIOUS
    <3>1. j = w * 0 + j /\ j \in 0 .. (w - 1)
      BY <2>1
    <3>2. (w * 0 + j) \div w = 0
      BY <3>1, DivUnique
    <3>3. j = w * (j \div w) + (j % w) /\ j % w \in Nat
      BY <2>1, DivMod
    <3> QED BY <3>1, <3>2, <3>3
  <2>3. j \in Keys
    <3>1. Entries <= NKeys /\ NKeys \in Nat
      BY Widths, TLSAssumption
    <3> QED BY <2>1, <3>1 DEF Keys
  <2>4. ASSUME NEW i \in 1 .. Depth
        PROVE  (j \div (Entries * Children ^ (Depth - i))) % Children = 0
    <3>1. Depth - i \in Nat
      BY TLSAssumption
    <3> DEFINE w == Width(Depth - i)
    <3>2. w \in Nat \ {0} /\ Entries <= w
      BY <3>1, Widths
    <3> HIDE DEF w
    <3>3. j \div w = 0
      BY <2>1, <2>2, <3>2
    <3>4. 0 % Children = 0
      BY TLSAssumption
    <3> QED BY <3>3, <3>4 DEF w, Width
  <2>5. LeafOf(j) = ZeroLeaf
    BY <2>4 DEF LeafOf, ZeroLeaf
  <2>6. EntryOf(j) = j
    BY <2>1, <2>2 DEF EntryOf
  <2> QED BY <2>3, <2>5, <2>6
<1>3. ASSUME NEW k \in Keys, LeafOf(k) = ZeroLeaf PROVE EntryOf(k) = k
  <2>1. EntryOf(k) \in 0 .. (Entries - 1)
    BY LeafIn
  <2>2. /\ EntryOf(k) \in Keys /\ LeafOf(EntryOf(k)) = ZeroLeaf
        /\ EntryOf(EntryOf(k)) = EntryOf(k)
    BY <1>2, <2>1
  <2> QED BY <1>3, <2>2, KeysHaveTheirEntries
<1> QED BY <1>1, <1>2, <1>3

\* The recursion finds base 0 for the first leaf.
LEMMA FirstBase == ASSUME PowerLaw PROVE BaseOf(ZeroLeaf) = 0
<1> DEFINE Stride(i) == NKeys \div Children ^ (i - 1)
           F(f) == f = [i \in 0 .. Depth |->
                            IF i = 0 THEN 0 ELSE f[i - 1] + ZeroLeaf[i] * Stride(i)]
           Base == CHOOSE f : F(f)
           g == [i \in 0 .. Depth |-> 0]
<1>1. ASSUME NEW i \in 1 .. Depth PROVE ZeroLeaf[i] * Stride(i) = 0
  <2>1. ZeroLeaf[i] = 0 /\ i - 1 \in Nat /\ Depth \in Nat
    BY TLSAssumption DEF ZeroLeaf
  <2>2. Children ^ (i - 1) \in Nat \ {0}
    BY <2>1, PowersPositive
  <2>3. Stride(i) \in Nat
    <3> DEFINE c == Children ^ (i - 1)
    <3>1. c \in Nat \ {0} /\ NKeys \in Nat
      BY <2>2, KeysFinite
    <3> HIDE DEF c
    <3>2. NKeys \div c \in Nat
      BY <3>1, DivMod
    <3> QED BY <3>2 DEF c
  <2> HIDE DEF Stride
  <2> QED BY <2>1, <2>3
<1> HIDE DEF Stride
<1>2. F(g)
  <2>1. ASSUME NEW i \in 0 .. Depth
        PROVE  g[i] = IF i = 0 THEN 0 ELSE g[i - 1] + ZeroLeaf[i] * Stride(i)
    <3>1. i # 0 => i \in 1 .. Depth /\ i - 1 \in 0 .. Depth
      BY TLSAssumption
    <3> QED BY <1>1, <3>1
  <2> QED BY <2>1
<1>3. F(Base)
  <2> HIDE DEF F
  <2> QED BY <1>2
<1> HIDE DEF Base
<1>4. Depth \in Nat
  BY TLSAssumption
<1>5. \A i \in 0 .. Depth : Base[i] = 0
  <2> DEFINE T == {i \in 0 .. Depth : Base[i] # 0}
  <2>1. SUFFICES ASSUME T # {} PROVE FALSE
    OBVIOUS
  <2>2. PICK x \in T : \A y \in T : x <= y
    <3>1. T \subseteq Nat
      OBVIOUS
    <3> QED BY <2>1, <3>1, LeastElement
  <2>3. x # 0
    BY <1>3, <1>4, <2>2
  <2>4. x \in 1 .. Depth /\ x - 1 \in 0 .. Depth /\ x - 1 \notin T
    BY <1>4, <2>2, <2>3
  <2>5. Base[x] = Base[x - 1] + ZeroLeaf[x] * Stride(x)
    BY <1>3, <2>2, <2>3
  <2> QED BY <1>1, <2>2, <2>4, <2>5
<1>6. BaseOf(ZeroLeaf) = Base[Depth]
  BY DEF BaseOf, Base, Stride
<1> QED BY <1>4, <1>5, <1>6

\* What an exiting thread runs and destroys if it has at most the first leaf.
LEMMA FirstLeafExit ==
    ASSUME PowerLaw, AllocTypes, TreeInv, NEW th \in Threads, Exit(th),
           nodes[th] \subseteq Path(ZeroLeaf)
    PROVE  /\ Due(th) \subseteq ran'[th] /\ nodes'[th] = {}
           /\ \A run \in ran'[th] : run[2] = stored[th][run[1]]
<1> DEFINE known == {run \in Ran(th) : Known(run) /\ destructor[run[1]]}
<1>0. TreeTypes /\ TreeOK(th) /\ held \subseteq Keys /\ pc[th] = "user" /\ ZeroLeaf \in Leaves
  BY FirstKeys DEF TreeInv, AllocTypes, Exit, Goto
<1>1. PICK wild \in SUBSET {run \in Ran(th) : ~Known(run)} : ran'[th] = known \cup wild
  BY <1>0 DEF Exit, TreeTypes
<1>2. ASSUME NEW n \in nodes[th] PROVE Reached(th, n)
  <2>1. PICK j \in 0 .. Depth : n = SubSeq(ZeroLeaf, 1, j)
    BY <1>2 DEF Path
  <2>2. ZeroLeaf \in Seq(Nat) /\ Len(ZeroLeaf) = Depth /\ Depth \in Nat
    BY TLSAssumption DEF ZeroLeaf
  <2>3. Len(n) = j /\ \A i \in 1 .. j : n[i] = ZeroLeaf[i]
    BY <2>1, <2>2
  <2>4. \A i \in 1 .. Len(n) : n[i] = 0
    BY <2>2, <2>3 DEF ZeroLeaf
  <2>5. \A d \in Digits : ~(d < 0)
    BY TLSAssumption DEF Digits
  <2> QED BY <2>4, <2>5 DEF Reached
<1>3. nodes'[th] = {}
  <2>1. nodes'[th] = {n \in nodes[th] : ~Reached(th, n)}
    BY <1>0 DEF Exit, TreeTypes
  <2> QED BY <1>2, <2>1
<1>4. \A leaf \in Leaves : leaf \in nodes[th] => leaf = ZeroLeaf
  BY <1>0, PathIs
<1>5. ASSUME ZeroLeaf \in nodes[th], NEW j \in 0 .. (Entries - 1)
      PROVE  j \in Keys /\ stored[th][j] = entry[th][ZeroLeaf][j]
  <2>1. j \in Keys /\ LeafOf(j) = ZeroLeaf /\ EntryOf(j) = j
    BY FirstKeys
  <2> QED BY <1>0, <1>5, <2>1 DEF TreeOK
<1>6. ASSUME NEW run \in Ran(th)
      PROVE  Known(run) /\ run[2] = stored[th][run[1]]
  <2>1. PICK leaf \in Leaves, j \in 0 .. (Entries - 1) :
            Reached(th, leaf) /\ run = <<BaseOf(leaf) + j, entry[th][leaf][j]>>
    BY <1>6 DEF Ran
  <2>2. leaf = ZeroLeaf /\ ZeroLeaf \in nodes[th]
    BY <1>4, <2>1 DEF Reached
  <2>3. run = <<j, entry[th][ZeroLeaf][j]>>
    <3>1. BaseOf(ZeroLeaf) + j = j
      BY FirstBase
    <3> QED BY <2>1, <2>2, <3>1
  <2> QED BY <1>5, <2>2, <2>3 DEF Known
<1>7. ASSUME NEW due \in Due(th) PROVE due \in known
  <2>1. PICK k \in held : due = <<k, stored[th][k]>> /\ destructor[k] /\ stored[th][k] # NULL
    BY <1>7 DEF Due
  <2>2. k \in Keys /\ LeafOf(k) \in Leaves /\ EntryOf(k) \in 0 .. (Entries - 1)
    BY <1>0, LeafIn
  <2>3. LeafOf(k) \in nodes[th]
    BY <1>0, <2>1, <2>2 DEF TreeOK
  <2>4. LeafOf(k) = ZeroLeaf /\ ZeroLeaf \in nodes[th] /\ k \in 0 .. (Entries - 1)
    BY <1>4, <2>2, <2>3, FirstKeys
  <2>5. stored[th][k] = entry[th][ZeroLeaf][k]
    BY <1>5, <2>4
  <2>6. BaseOf(ZeroLeaf) + k = k
    BY <2>4, FirstBase
  <2>7. <<BaseOf(ZeroLeaf) + k, entry[th][ZeroLeaf][k]>> \in Ran(th)
    BY <1>0, <1>2, <2>4 DEF Ran
  <2>8. due \in Ran(th) /\ due[1] = k
    BY <2>1, <2>5, <2>6, <2>7
  <2> QED BY <2>1, <2>2, <2>8 DEF Known
<1> QED BY <1>1, <1>3, <1>6, <1>7

\* Nothing but its exit ends a thread.
LEMMA OnlyExitEnds ==
    ASSUME TreeTypes, [Next]_vars, NEW th \in Threads, pc[th] = "user", pc'[th] = "over"
    PROVE  Exit(th)
<1>1. pc' # pc
  OBVIOUS
<1>2. ASSUME NEW o \in Threads, CreateBegin(o) \/ AllocStep(o) \/ Start(o) PROVE FALSE
  <2>1. \E to \in PCs \ {"over"} : pc' = [pc EXCEPT ![o] = to]
    BY <1>2 DEF CreateBegin, AllocStep, CreateRead, CreateNone, CreateNext, CreateFault,
       CreatePop, CreateRetry, CreateMark, DeleteUnused, DeleteCheck, DeleteRead,
       DeletePush, DeleteRetry, Start, Goto, PCs
  <2> QED BY <2>1 DEF TreeTypes
<1>3. ASSUME NEW o \in Threads, NEW k \in Keys, DeleteBegin(o, k) \/ Set(o, k, Data) PROVE FALSE
  <2>1. pc' = pc \/ pc' = [pc EXCEPT ![o] = "check"]
    BY <1>3 DEF DeleteBegin, Set, Goto, allocVars
  <2> QED BY <2>1 DEF TreeTypes
<1>4. ASSUME NEW o \in Threads, Exit(o) PROVE o = th
  BY <1>4 DEF Exit, Goto, TreeTypes
<1>5. UNCHANGED vars => pc' = pc
  BY DEF vars, allocVars
<1> QED BY <1>1, <1>2, <1>3, <1>4, <1>5, TLSAssumption DEF Next

(***************************************************************************)
(* A thread that uses no keys but those of the first leaf runs, when it    *)
(* exits, the destructors of all its values, gives them no other data, and *)
(* destroys its whole tree: for these keys the loops over the children and *)
(* the bases of myth_tls_tree_fini are right, whatever the tree's shape.   *)
(***************************************************************************)
THEOREM FirstLeafServed ==
    ASSUME PowerLaw PROVE Spec => FirstLeafDestructorsRun
<1> DEFINE Served ==
        \A th \in Threads :
            /\ pc[th] = "user" /\ pc'[th] = "over"
            /\ nodes[th] \subseteq Path([i \in 1 .. Depth |-> 0])
            =>  /\ Due(th) \subseteq ran'[th] /\ nodes'[th] = {}
                /\ \A run \in ran'[th] : run[2] = stored[th][run[1]]
<1>1. Init => AllocTypes /\ TreeInv
  BY InitKeys, InitTree DEF KInv
<1>2. AllocTypes /\ TreeInv /\ [Next]_vars => AllocTypes' /\ TreeInv'
  BY TypesStep, TreeStep
<1>3. AllocTypes /\ TreeInv /\ [Next]_vars => [Served]_vars
  <2> SUFFICES ASSUME AllocTypes, TreeInv, [Next]_vars, NEW th \in Threads,
                      pc[th] = "user", pc'[th] = "over", nodes[th] \subseteq Path(ZeroLeaf)
               PROVE  /\ Due(th) \subseteq ran'[th] /\ nodes'[th] = {}
                      /\ \A run \in ran'[th] : run[2] = stored[th][run[1]]
    BY DEF ZeroLeaf
  <2>1. Exit(th)
    BY OnlyExitEnds DEF TreeInv
  <2> QED BY <2>1, FirstLeafExit
<1>4. Spec => [][Served]_vars
  <2> HIDE DEF Served
  <2> QED BY <1>1, <1>2, <1>3, PTL DEF Spec
<1>5. [][Served]_vars => FirstLeafDestructorsRun
  BY DEF FirstLeafDestructorsRun
<1> QED BY <1>4, <1>5
=============================================================================
