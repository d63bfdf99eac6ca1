-------------------------- MODULE SymbolResolverProofs --------------------------
(***************************************************************************)
(* Proofs about SymbolResolver, for any memory maps, symbol tables and     *)
(* addresses.                                                              *)
(*                                                                         *)
(* The theorems on induction take an operator as a parameter and cannot be *)
(* cited here; WFMin takes sets, and induction on the naturals follows     *)
(* from it.                                                                *)
(***************************************************************************)
EXTENDS SymbolResolver, FiniteSetTheorems, WellFoundedInduction, TLAPS

-----------------------------------------------------------------------------
(* Induction.                                                              *)

(* The order of the naturals, as a relation, is well founded. *)
LEMMA LessWellFounded ==
  \E R : IsWellFoundedOn(R, Nat) /\ \A x, y \in Nat : <<y, x>> \in R <=> y < x
<1>1. IsWellFoundedOn(OpToRel(<, Nat), Nat)
  BY NatLessThanWellFounded
<1>2. \A x, y \in Nat : <<y, x>> \in OpToRel(<, Nat) <=> y < x
  BY DEF OpToRel
<1>. QED  BY <1>1, <1>2, Zenon

(* A set of naturals has a least element. *)
LEMMA LeastNatural ==
  ASSUME NEW T \in SUBSET Nat, T # {}
  PROVE  \E x \in T : \A y \in T : x <= y
<1>1. PICK R : IsWellFoundedOn(R, Nat) /\ \A x, y \in Nat : <<y, x>> \in R <=> y < x
  BY LessWellFounded
<1>2. PICK x \in T : \A y \in T : ~ (<<y, x>> \in R)
  BY <1>1, WFMin
<1>3. ASSUME NEW y \in T PROVE x <= y
  <2>1. x \in Nat /\ y \in Nat
    OBVIOUS
  <2>2. ~ (y < x)
    BY <1>1, <1>2, <2>1, Zenon
  <2>. QED  BY <2>1, <2>2
<1>. QED  BY <1>3

(* A set that has 0, and with a natural the next one, has them all. *)
LEMMA AllNaturals ==
  ASSUME NEW T \in SUBSET Nat, 0 \in T, \A n \in T : n + 1 \in T
  PROVE  T = Nat
<1>. SUFFICES ASSUME Nat \ T # {} PROVE FALSE
  OBVIOUS
<1>1. PICK x \in Nat \ T : \A y \in Nat \ T : x <= y
  BY LeastNatural
<1>2. x - 1 \in Nat /\ x - 1 \in T
  BY <1>1
<1>. QED  BY <1>1, <1>2

(* Subsets of a finite set: if {} is in T, and with a subset the one that has an  *)
(* element more, T has them all.                                                 *)
LEMMA AllSubsets ==
  ASSUME NEW S, IsFiniteSet(S), NEW T \in SUBSET (SUBSET S), {} \in T,
         \A Q \in T : \A x \in S \ Q : Q \cup {x} \in T
  PROVE  T = SUBSET S
<1>. SUFFICES ASSUME (SUBSET S) \ T # {} PROVE FALSE
  OBVIOUS
<1>1. IsWellFoundedOn(StrictSubsetOrdering(S), SUBSET S)
  BY FS_StrictSubsetOrderingWellFounded, FS_FiniteSubsetsOfFinite
<1>2. PICK Q \in (SUBSET S) \ T : \A P \in (SUBSET S) \ T : ~ (<<P, Q>> \in StrictSubsetOrdering(S))
  BY <1>1, WFMin
<1>3. PICK x \in Q : TRUE
  BY <1>2
<1>4. Q \ {x} \in T
  <2>1. Q \ {x} \in SUBSET S /\ Q \ {x} \subseteq Q /\ Q \ {x} # Q
    BY <1>2, <1>3
  <2>2. <<Q \ {x}, Q>> \in StrictSubsetOrdering(S)
    BY <2>1 DEF StrictSubsetOrdering
  <2>. QED  BY <1>2, <2>1, <2>2
<1>5. x \in S \ (Q \ {x}) /\ Q = (Q \ {x}) \cup {x}
  BY <1>3
<1>. QED  BY <1>2, <1>4, <1>5

-----------------------------------------------------------------------------
(* The size of a symbol.                                                   *)

Hex(g, n) == IF n < 10 THEN n ELSE 16 * g[n \div 10] + (n % 10)
HexUpTo(m, g) == g \in [0..m -> Nat] /\ \A i \in 0..m : g[i] = Hex(g, i)

(* Without its last digit a number of more digits is smaller. *)
LEMMA Digits ==
  ASSUME NEW n \in Nat
  PROVE  /\ n \div 10 \in Nat /\ n % 10 \in Nat /\ n = 10 * (n \div 10) + (n % 10)
         /\ n >= 10 => n \div 10 < n
  OBVIOUS

(* The value at n needs the values below n only. *)
LEMMA HexLocal ==
  ASSUME NEW m \in Nat, NEW n \in 0..m, NEW g, NEW h,
         \A i \in 0..(n - 1) : g[i] = h[i]
  PROVE  Hex(g, n) = Hex(h, n)
<1>1. n >= 10 => n \div 10 \in 0..(n - 1)
  BY Digits
<1>. QED  BY <1>1 DEF Hex

(* Up to any number there is one such function. *)
LEMMA HexExists == \A m \in Nat : \E g : HexUpTo(m, g)
<1>. DEFINE T == {m \in Nat : \E g : HexUpTo(m, g)}
<1>1. 0 \in T
  <2>1. HexUpTo(0, [i \in 0..0 |-> 0])
    BY DEF HexUpTo, Hex
  <2>. QED  BY <2>1
<1>2. ASSUME NEW m \in T PROVE m + 1 \in T
  <2>1. PICK g : HexUpTo(m, g)
    OBVIOUS
  <2>. DEFINE h == [i \in 0..(m + 1) |-> IF i = m + 1 THEN Hex(g, m + 1) ELSE g[i]]
  <2>2. \A i \in 0..m : h[i] = g[i]
    OBVIOUS
  <2>3. Hex(g, m + 1) \in Nat
    <3>1. m + 1 >= 10 => (m + 1) \div 10 \in 0..m
      BY Digits
    <3>. QED  BY <2>1, <3>1, Digits DEF HexUpTo, Hex
  <2>4. h \in [0..(m + 1) -> Nat]
    BY <2>1, <2>3 DEF HexUpTo
  <2>5. h[m + 1] = Hex(g, m + 1)
    OBVIOUS
  <2>. HIDE DEF h
  <2>6. ASSUME NEW i \in 0..(m + 1) PROVE h[i] = Hex(h, i)
    <3>1. Hex(h, i) = Hex(g, i)
      BY <2>2, HexLocal
    <3>2. h[i] = Hex(g, i)
      BY <2>1, <2>2, <2>5 DEF HexUpTo
    <3>. QED  BY <3>1, <3>2
  <2>. QED  BY <2>4, <2>6 DEF HexUpTo
<1>3. T = Nat
  BY <1>1, <1>2, AllNaturals
<1>. QED  BY <1>3

(* Two such functions agree where both are defined. *)
LEMMA HexUnique ==
  ASSUME NEW m \in Nat, NEW k \in Nat, NEW g, NEW h, HexUpTo(m, g), HexUpTo(k, h),
         NEW i \in Nat, i <= m, i <= k
  PROVE  g[i] = h[i]
<1>. DEFINE T == {j \in 0..i : g[j] # h[j]}
<1>. SUFFICES ASSUME T # {} PROVE FALSE
  OBVIOUS
<1>0. T \in SUBSET Nat
  OBVIOUS
<1>1. PICK j \in T : \A l \in T : j <= l
  BY <1>0, LeastNatural
<1>2. \A l \in 0..(j - 1) : g[l] = h[l]
  BY <1>1
<1>3. Hex(g, j) = Hex(h, j)
  BY <1>2, HexLocal
<1>. QED  BY <1>1, <1>3 DEF HexUpTo

(* AsHex is what its definition says: a number without its last digit, times  *)
(* sixteen, and that digit.                                                   *)
LEMMA AsHexIs ==
  /\ AsHex \in [Nat -> Nat]
  /\ \A n \in Nat : AsHex[n] = IF n < 10 THEN n ELSE 16 * AsHex[n \div 10] + (n % 10)
<1>. DEFINE G(n) == CHOOSE g : HexUpTo(n, g)
            f == [n \in Nat |-> G(n)[n]]
<1>1. \A n \in Nat : HexUpTo(n, G(n))
  BY HexExists
<1>. HIDE DEF G
<1>2. ASSUME NEW n \in Nat PROVE f[n] \in Nat /\ f[n] = Hex(f, n)
  <2>1. HexUpTo(n, G(n)) /\ f[n] = G(n)[n]
    BY <1>1
  <2>2. \A i \in 0..(n - 1) : G(n)[i] = f[i]
    BY <1>1, HexUnique
  <2>. HIDE DEF f
  <2>3. Hex(G(n), n) = Hex(f, n)
    BY <2>2, HexLocal
  <2>. QED  BY <2>1, <2>3 DEF HexUpTo
<1>3. f \in [Nat -> Nat]
  BY <1>2
<1>. HIDE DEF f
<1>4. f = [n \in Nat |-> IF n < 10 THEN n ELSE 16 * f[n \div 10] + (n % 10)]
  BY <1>2, <1>3 DEF Hex
<1>5. AsHex = [n \in Nat |-> IF n < 10 THEN n ELSE 16 * AsHex[n \div 10] + (n % 10)]
  BY <1>4 DEF AsHex
<1>6. AsHex \in [Nat -> Nat]
  <2>. DEFINE T == {n \in Nat : AsHex[n] \notin Nat}
  <2>. SUFFICES ASSUME T # {} PROVE FALSE
    BY <1>5
  <2>0. T \in SUBSET Nat
    OBVIOUS
  <2>1. PICK n \in T : \A k \in T : n <= k
    BY <2>0, LeastNatural
  <2>2. n >= 10 => AsHex[n \div 10] \in Nat
    BY <2>1, Digits
  <2>. QED  BY <1>5, <2>1, <2>2, Digits
<1>. QED  BY <1>5, <1>6

(* Read in hexadecimal a size is not smaller, and the same if it has one digit. *)
LEMMA HexAtLeast == \A n \in Nat : /\ AsHex[n] \in Nat /\ n <= AsHex[n]
                                   /\ n < 10 => AsHex[n] = n
<1>. DEFINE T == {n \in Nat : ~ (n <= AsHex[n])}
<1>1. T = {}
  <2>. SUFFICES ASSUME T # {} PROVE FALSE
    OBVIOUS
  <2>0. T \in SUBSET Nat
    OBVIOUS
  <2>1. PICK n \in T : \A k \in T : n <= k
    BY <2>0, LeastNatural
  <2>2. n >= 10
    BY <2>1, AsHexIs
  <2>3. n \div 10 <= AsHex[n \div 10]
    BY <2>1, <2>2, Digits
  <2>4. AsHex[n] = 16 * AsHex[n \div 10] + (n % 10) /\ AsHex[n \div 10] \in Nat
    BY <2>1, <2>2, Digits, AsHexIs
  <2>. QED  BY <2>1, <2>3, <2>4, Digits
<1>. QED  BY <1>1, AsHexIs

-----------------------------------------------------------------------------
(* Sorting.                                                                *)

Ranges(R) == IsFiniteSet(R) /\ \A r \in R : r.lo \in Nat /\ r.hi \in Nat

(* In order: nothing is in front of a smaller range. *)
Ordered(s) == \A i, j \in DOMAIN s : i < j => Before(s[i], s[j])

(* Some range is behind all others. *)
LEMMA LastRange ==
  ASSUME NEW R, Ranges(R)
  PROVE  \A Q \in SUBSET R : Q # {} => \E x \in Q : \A y \in Q : Before(y, x)
<1>. DEFINE T == {Q \in SUBSET R : Q # {} => \E x \in Q : \A y \in Q : Before(y, x)}
<1>1. T \in SUBSET (SUBSET R) /\ {} \in T /\ IsFiniteSet(R)
  BY DEF Ranges
<1>2. ASSUME NEW Q \in T, NEW x \in R \ Q PROVE Q \cup {x} \in T
  <2>1. \A r \in R : r.lo \in Nat /\ r.hi \in Nat
    BY DEF Ranges
  <2>2. CASE Q = {}
    BY <2>1, <2>2 DEF Before
  <2>3. CASE Q # {}
    <3>1. PICK z \in Q : \A y \in Q : Before(y, z)
      BY <2>3
    <3>2. Before(x, x) /\ (Before(x, z) \/ \A y \in Q : Before(y, x))
      BY <2>1, <3>1 DEF Before
    <3>. QED  BY <3>1, <3>2
  <2>. QED  BY <2>2, <2>3
<1>3. T = SUBSET R
  <2>. HIDE DEF T
  <2>. QED  BY <1>1, <1>2, AllSubsets
<1>. QED  BY <1>3

(* Any set of ranges can be put in order: the last one goes behind the others.  *)
LEMMA SortExists ==
  ASSUME NEW R, Ranges(R)
  PROVE  \E s \in SetToSeqs(R) : Ordered(s)
<1>. DEFINE T == {n \in Nat : \A Q \in SUBSET R : Cardinality(Q) = n =>
                                \E s \in SetToSeqs(Q) : Ordered(s)}
<1>1. \A Q \in SUBSET R : IsFiniteSet(Q) /\ Cardinality(Q) \in Nat
  BY FS_Subset, FS_CardinalityType DEF Ranges
<1>2. 0 \in T
  <2>. SUFFICES ASSUME NEW Q \in SUBSET R, Cardinality(Q) = 0
                PROVE  \E s \in SetToSeqs(Q) : Ordered(s)
    OBVIOUS
  <2>. DEFINE s == [i \in 1..0 |-> 0]
  <2>1. s \in SetToSeqs(Q) /\ Ordered(s)
    BY DEF SetToSeqs, Ordered
  <2>. QED  BY <2>1
<1>3. ASSUME NEW n \in T PROVE n + 1 \in T
  <2>. SUFFICES ASSUME NEW Q \in SUBSET R, Cardinality(Q) = n + 1
                PROVE  \E s \in SetToSeqs(Q) : Ordered(s)
    OBVIOUS
  <2>1. Q # {}
    BY FS_EmptySet
  <2>2. PICK x \in Q : \A y \in Q : Before(y, x)
    BY <2>1, LastRange
  <2>3. Cardinality(Q \ {x}) = n
    <3>1. IsFiniteSet(Q) /\ n \in Nat
      BY <1>1
    <3>2. Cardinality(Q \ {x}) = Cardinality(Q) - 1
      BY <3>1, FS_RemoveElement
    <3>. QED  BY <3>1, <3>2
  <2>4. PICK s \in SetToSeqs(Q \ {x}) : Ordered(s)
    BY <2>3
  <2>5. s \in [1..n -> Q \ {x}] /\ \A i, j \in 1..n : i # j => s[i] # s[j]
    BY <2>3, <2>4 DEF SetToSeqs
  <2>. DEFINE t == [i \in 1..(n + 1) |-> IF i = n + 1 THEN x ELSE s[i]]
  <2>6. t \in [1..(n + 1) -> Q] /\ t[n + 1] = x /\ \A i \in 1..n : t[i] = s[i]
    BY <2>5
  <2>. HIDE DEF t
  <2>7. \A i, j \in 1..(n + 1) : i # j => t[i] # t[j]
    <3>1. \A i \in 1..(n + 1) : i \in 1..n \/ i = n + 1
      OBVIOUS
    <3>2. \A i \in 1..n : t[i] # x
      BY <2>5, <2>6
    <3>. QED  BY <2>5, <2>6, <3>1, <3>2
  <2>8. Ordered(t)
    <3>1. DOMAIN t = 1..(n + 1) /\ DOMAIN s = 1..n
      BY <2>5, <2>6
    <3>. SUFFICES ASSUME NEW i \in 1..(n + 1), NEW j \in 1..(n + 1), i < j
                  PROVE  Before(t[i], t[j])
      BY <3>1 DEF Ordered
    <3>2. CASE j = n + 1
      BY <2>2, <2>6, <3>2
    <3>3. CASE j # n + 1
      <4>1. i \in 1..n /\ j \in 1..n
        BY <3>3
      <4>. QED  BY <2>4, <2>6, <3>1, <4>1 DEF Ordered
    <3>. QED  BY <3>2, <3>3
  <2>9. t \in SetToSeqs(Q)
    BY <2>6, <2>7 DEF SetToSeqs
  <2>. QED  BY <2>4, <2>8, <2>9
<1>4. T = Nat
  BY <1>2, <1>3, AllNaturals
<1>. QED  BY <1>1, <1>4

(* What Sorted gives: each of the ranges, in order. *)
LEMMA SortedIs ==
  ASSUME NEW R, Ranges(R)
  PROVE  /\ \E n \in Nat : DOMAIN Sorted(R) = 1..n
         /\ Ordered(Sorted(R))
         /\ \A i \in DOMAIN Sorted(R) : Sorted(R)[i] \in R
         /\ \A r \in R : \E i \in DOMAIN Sorted(R) : Sorted(R)[i] = r
<1>. DEFINE n == Cardinality(R)
            s == Sorted(R)
<1>1. s \in SetToSeqs(R) /\ Ordered(s)
  BY SortExists DEF Sorted, Ordered
<1>2. n \in Nat /\ IsFiniteSet(R)
  BY FS_CardinalityType DEF Ranges
<1>. HIDE DEF s
<1>3. s \in [1..n -> R] /\ \A i, j \in 1..n : i # j => s[i] # s[j]
  BY <1>1 DEF SetToSeqs
<1>. HIDE DEF n
<1>4. s \in Injection(1..n, R)
  BY <1>3 DEF Injection, IsInjective
<1>5. Cardinality(1..n) = n
  BY <1>2, FS_Interval
<1>6. s \in Surjection(1..n, R)
  BY <1>2, <1>4, <1>5, FS_Injection DEF n
<1>7. \A r \in R : \E i \in 1..n : s[i] = r
  BY <1>6 DEF Surjection
<1>. QED  BY <1>1, <1>2, <1>3, <1>7 DEF s

-----------------------------------------------------------------------------
(* Searching.                                                              *)

(* The search may stop early in a sequence that is in order: it finds a range  *)
(* that has the address whenever there is one, the one that begins first.      *)
LEMMA FindIs ==
  ASSUME NEW s, NEW n \in Nat, DOMAIN s = 1..n, Ordered(s), NEW a \in Nat,
         \A i \in 1..n : s[i].lo \in Nat
  PROVE  /\ Find(s, a) \in 0..n
         /\ Find(s, a) = 0 <=> \A i \in 1..n : ~Has(s[i], a)
         /\ Find(s, a) # 0 => /\ Has(s[Find(s, a)], a)
                              /\ \A i \in 1..n : Has(s[i], a) => s[Find(s, a)].lo <= s[i].lo
<1>. DEFINE stops == {i \in 1..n : Has(s[i], a) \/ a < s[i].lo}
            first == CHOOSE i \in stops : \A j \in stops : i <= j
<1>1. Find(s, a) = IF stops = {} \/ a < s[first].lo THEN 0 ELSE first
  BY DEF Find
<1>2. CASE stops = {}
  BY <1>1, <1>2
<1>3. CASE stops # {}
  <2>1. stops \in SUBSET Nat
    OBVIOUS
  <2>2. first \in stops /\ \A j \in stops : first <= j
    BY <1>3, <2>1, LeastNatural
  <2>. HIDE DEF first
  <2>3. first \in 1..n /\ (Has(s[first], a) \/ a < s[first].lo)
    BY <2>2
  <2>4. ASSUME NEW i \in 1..n, Has(s[i], a) PROVE s[first].lo <= s[i].lo
    <3>1. first <= i
      BY <2>2, <2>4
    <3>2. CASE first = i
      BY <2>3, <3>2
    <3>3. CASE first < i
      BY <2>3, <3>3 DEF Ordered, Before
    <3>. QED  BY <2>3, <3>1, <3>2, <3>3
  <2>5. a < s[first].lo => \A i \in 1..n : ~Has(s[i], a)
    <3>. SUFFICES ASSUME a < s[first].lo, NEW i \in 1..n, Has(s[i], a) PROVE FALSE
      OBVIOUS
    <3>1. s[i].lo <= a /\ s[first].lo <= s[i].lo /\ s[first].lo \in Nat /\ s[i].lo \in Nat
      BY <2>3, <2>4 DEF Has
    <3>. QED  BY <3>1
  <2>6. CASE a < s[first].lo
    BY <1>1, <2>5, <2>6
  <2>7. CASE ~(a < s[first].lo)
    <3>1. Find(s, a) = first /\ first # 0 /\ first \in 0..n /\ Has(s[first], a)
      BY <1>1, <1>3, <2>3, <2>7
    <3>. QED  BY <2>3, <2>4, <3>1
  <2>. QED  BY <2>6, <2>7
<1>. QED  BY <1>2, <1>3

(* The same for a set of ranges. *)
LEMMA FindSorted ==
  ASSUME NEW R, Ranges(R), NEW a \in Nat, NEW i, i = Find(Sorted(R), a)
  PROVE  /\ i = 0 <=> {r \in R : Has(r, a)} = {}
         /\ i # 0 => /\ i \in DOMAIN Sorted(R) /\ Sorted(R)[i] \in R /\ Has(Sorted(R)[i], a)
                     /\ \A r \in R : Has(r, a) => Sorted(R)[i].lo <= r.lo
<1>. DEFINE s == Sorted(R)
<1>1. PICK n \in Nat : DOMAIN s = 1..n
  BY SortedIs
<1>2. /\ Ordered(s) /\ \A k \in 1..n : s[k] \in R
      /\ \A r \in R : \E k \in 1..n : s[k] = r
  BY <1>1, SortedIs
<1>. HIDE DEF s
<1>3. \A k \in 1..n : s[k].lo \in Nat
  BY <1>2 DEF Ranges
<1>4. /\ i \in 0..n
      /\ i = 0 <=> \A k \in 1..n : ~Has(s[k], a)
      /\ i # 0 => /\ Has(s[i], a)
                  /\ \A k \in 1..n : Has(s[k], a) => s[i].lo <= s[k].lo
  BY <1>1, <1>2, <1>3, FindIs DEF s
<1>5. i = 0 <=> {r \in R : Has(r, a)} = {}
  BY <1>2, <1>4
<1>6. i # 0 => i \in 1..n /\ \A r \in R : Has(r, a) => s[i].lo <= r.lo
  BY <1>2, <1>4
<1>. QED  BY <1>1, <1>2, <1>4, <1>5, <1>6 DEF s

-----------------------------------------------------------------------------
(* The invariant: what was loaded is what was read, and a name that was given *)
(* out is the one that the search gives.                                      *)

Exec == {lines[i] : i \in {j \in DOMAIN lines : lines[j].exec}}
Outside == {a \in Asked : Mapped(a) = {}}

Inputs == /\ phase \in {"start", "mapped", "loaded", "done", "failed"}
          /\ lines \in MapFiles
          /\ tables \in [{lines[i].file : i \in DOMAIN lines} -> SymbolTables]

Loaded == /\ phase \in {"mapped", "loaded", "done"} => maps = Sorted(Exec)
          /\ phase \in {"loaded", "done"} =>
               symbols = [i \in DOMAIN maps |-> load_symbol_table(maps[i].file)]

NameOf(a) ==
  LET map == Sorted(Exec)[Find(Sorted(Exec), a)]
      table == load_symbol_table(map.file)
      s == Find(table, a - map.lo)
  IN  IF Find(Sorted(Exec), a) = 0 THEN <<"(unknown)", "(unknown)">>
      ELSE <<map.file, IF s = 0 THEN "(unknown)" ELSE table[s].name>>

Remembered == /\ cache = [a \in Addrs |-> cache[a]]
              /\ \A a \in Asked : phase \in {"loaded", "done"} /\ cache[a] = NameOf(a)

Reported == /\ unresolved \in Seq(Addrs) /\ IsFiniteSet(Listed)
            /\ Len(unresolved) = Cardinality(Listed) /\ Len(unresolved) <= MaxUnresolved
            /\ Listed \subseteq Outside
            /\ Len(unresolved) < MaxUnresolved => Listed = Outside

IInv == Inputs /\ Loaded /\ Remembered /\ Reported

(* The executable maps are finitely many ranges; they are what Mapped looks at. *)
LEMMA ExecIs ==
  ASSUME Inputs
  PROVE  /\ Ranges(Exec) /\ \A l \in Exec : l \in MapLine /\ l.file \in DOMAIN tables
         /\ \A a : Mapped(a) = {l \in Exec : Has(l, a)}
<1>1. lines \in Seq(MapLine) /\ DOMAIN lines = 1..Len(lines) /\ Len(lines) \in Nat
  BY InputOK DEF Inputs
<1>2. \A i \in DOMAIN lines : lines[i] \in MapLine
  BY <1>1
<1>3. IsFiniteSet(Exec)
  <2>. DEFINE D == {j \in DOMAIN lines : lines[j].exec}
              f == [j \in D |-> lines[j]]
  <2>1. IsFiniteSet(D)
    <3>1. IsFiniteSet(1..Len(lines)) /\ D \in SUBSET (1..Len(lines))
      BY <1>1, FS_Interval
    <3>. QED  BY <3>1, FS_Subset
  <2>2. f \in Surjection(D, Exec)
    BY DEF Surjection, Exec
  <2>. QED  BY <2>1, <2>2, FS_Surjection
<1>4. \A l \in Exec : l \in MapLine /\ l.file \in DOMAIN tables
  BY <1>2 DEF Exec, Inputs
<1>5. \A a : Mapped(a) = {l \in Exec : Has(l, a)}
  BY DEF Mapped, Exec
<1>. QED  BY <1>3, <1>4, <1>5 DEF Ranges, MapLine

(* The symbols of a file are finitely many ranges. *)
LEMMA TableIs ==
  ASSUME Inputs, NEW file \in DOMAIN tables
  PROVE  /\ Ranges({Range_(e) : e \in tables[file]}) /\ tables[file] \in SymbolTables
         /\ IsFiniteSet(tables[file]) /\ \A e \in tables[file] : e \in Entry
<1>1. tables[file] \in SymbolTables
  BY DEF Inputs
<1>2. IsFiniteSet(tables[file]) /\ \A e \in tables[file] : e \in Entry
  BY <1>1, InputOK
<1>. DEFINE R == {Range_(e) : e \in tables[file]}
            f == [e \in tables[file] |-> Range_(e)]
<1>3. f \in Surjection(tables[file], R)
  BY DEF Surjection
<1>4. IsFiniteSet(R)
  BY <1>2, <1>3, FS_Surjection
<1>5. \A r \in R : r.lo \in Nat /\ r.hi \in Nat
  BY <1>2, HexAtLeast DEF Entry, Range_
<1>. QED  BY <1>1, <1>2, <1>4, <1>5 DEF Ranges

-----------------------------------------------------------------------------
(* The steps.                                                              *)

(* Nothing is asked before everything is loaded. *)
LEMMA Initially == Init => IInv
<1>. SUFFICES ASSUME Init PROVE IInv
  OBVIOUS
<1>1. Asked = {} /\ Listed = {} /\ unresolved = <<>>
  BY DEF Init, Asked, Listed
<1>2. Inputs /\ Loaded /\ Remembered
  BY <1>1 DEF Init, Inputs, Loaded, Remembered
<1>3. Reported
  <2>1. unresolved \in Seq(Addrs) /\ Len(unresolved) = 0
    BY <1>1
  <2>. QED  BY <1>1, <2>1, FS_EmptySet, InputOK DEF Reported, Outside
<1>. QED  BY <1>2, <1>3 DEF IInv

(* Loading asks nothing. *)
LEMMA LoadStep ==
  ASSUME IInv, load_mapfile \/ load_symbol_table_all \/ print_unresolved \/ UNCHANGED vars
  PROVE  IInv'
<1>1. UNCHANGED <<lines, tables, cache, unresolved>>
  BY DEF load_mapfile, load_symbol_table_all, print_unresolved, vars
<1>2. Inputs'
  BY <1>1 DEF IInv, Inputs, load_mapfile, load_symbol_table_all, print_unresolved, vars
<1>3. Loaded'
  <2>1. Exec' = Exec
    BY <1>1 DEF Exec
  <2>2. CASE load_mapfile
    BY <1>1, <2>1, <2>2 DEF IInv, Loaded, load_mapfile, Exec
  <2>3. CASE load_symbol_table_all
    BY <2>1, <2>3 DEF IInv, Loaded, load_symbol_table_all, load_symbol_table
  <2>4. CASE print_unresolved \/ UNCHANGED vars
    BY <1>1, <2>1, <2>4 DEF IInv, Loaded, print_unresolved, vars, load_symbol_table
  <2>. QED  BY <2>2, <2>3, <2>4
<1>4. Asked' = Asked /\ Listed' = Listed /\ Outside' = Outside
  BY <1>1 DEF Asked, Listed, Outside, Mapped
<1>5. \A a : NameOf(a)' = NameOf(a)
  BY <1>1 DEF NameOf, Exec, load_symbol_table
<1>6. Asked # {} => phase' \in {"loaded", "done"}
  BY DEF IInv, Remembered, load_mapfile, load_symbol_table_all, print_unresolved, vars
<1>7. Remembered'
  BY <1>1, <1>4, <1>5, <1>6 DEF IInv, Remembered
<1>8. Reported'
  BY <1>1, <1>4 DEF IInv, Reported
<1>. QED  BY <1>2, <1>3, <1>7, <1>8 DEF IInv

(* An address is asked for the first time. *)
LEMMA ResolveStep == ASSUME IInv, NEW a \in Addrs, Resolve(a) PROVE IInv'
<1>. DEFINE i == Find(Sorted(Exec), a)
<1>1. /\ phase = "loaded" /\ cache[a] = None
      /\ UNCHANGED <<lines, tables, phase, maps, symbols>>
  BY DEF Resolve
<1>2. /\ maps = Sorted(Exec) /\ symbols = [k \in DOMAIN maps |-> load_symbol_table(maps[k].file)]
      /\ Ranges(Exec) /\ a \in Nat /\ Mapped(a) = {l \in Exec : Has(l, a)}
  BY <1>1, ExecIs, InputOK DEF IInv, Inputs, Loaded
<1>3. /\ i = 0 <=> Mapped(a) = {}
      /\ i # 0 => i \in DOMAIN maps
  BY <1>2, FindSorted
<1>4. /\ cache' = [cache EXCEPT ![a] = NameOf(a)]
      /\ IF i = 0
         THEN unresolved' = IF Len(unresolved) < MaxUnresolved
                            THEN Append(unresolved, a) ELSE unresolved
         ELSE unresolved' = unresolved
  BY <1>2, <1>3 DEF Resolve, NameOf
<1>5. Inputs' /\ Loaded' /\ Exec' = Exec
  BY <1>1 DEF IInv, Inputs, Loaded, Exec, load_symbol_table
<1>6. \A b : NameOf(b)' = NameOf(b) /\ Mapped(b)' = Mapped(b)
  BY <1>1 DEF NameOf, Exec, load_symbol_table, Mapped
<1>7. NameOf(a) # None
  BY DEF NameOf, None
<1>8. Asked' = Asked \cup {a} /\ a \notin Asked
  BY <1>1, <1>4, <1>7 DEF Asked, IInv, Remembered
<1>9. Remembered'
  BY <1>1, <1>4, <1>6, <1>8 DEF IInv, Remembered, Asked
<1>10. /\ i = 0 => Outside' = Outside \cup {a}
       /\ i # 0 => Outside' = Outside
       /\ a \notin Outside
  BY <1>3, <1>6, <1>8 DEF Outside
<1>11. Reported'
  <2>1. CASE i = 0 /\ Len(unresolved) < MaxUnresolved
    <3>1. unresolved' = Append(unresolved, a)
      BY <1>4, <2>1
    <3>2. unresolved \in Seq(Addrs) /\ Len(unresolved) \in Nat
      BY DEF IInv, Reported
    <3>3. /\ unresolved' \in Seq(Addrs) /\ Len(unresolved') = Len(unresolved) + 1
          /\ DOMAIN unresolved' = 1..(Len(unresolved) + 1) /\ DOMAIN unresolved = 1..Len(unresolved)
          /\ unresolved'[Len(unresolved) + 1] = a
          /\ \A k \in 1..Len(unresolved) : unresolved'[k] = unresolved[k]
      BY <3>1, <3>2
    <3>4. Listed' = Listed \cup {a}
      BY <3>2, <3>3 DEF Listed
    <3>5. Listed = Outside /\ a \notin Listed /\ IsFiniteSet(Listed)
      BY <1>10, <2>1 DEF IInv, Reported
    <3>6. IsFiniteSet(Listed') /\ Cardinality(Listed') = Cardinality(Listed) + 1
      BY <3>4, <3>5, FS_AddElement
    <3>7. Len(unresolved') <= MaxUnresolved
      BY <2>1, <3>2, <3>3, InputOK
    <3>. QED  BY <1>10, <2>1, <3>3, <3>4, <3>5, <3>6, <3>7 DEF IInv, Reported
  <2>2. CASE ~(i = 0 /\ Len(unresolved) < MaxUnresolved)
    <3>1. unresolved' = unresolved /\ Listed' = Listed
      BY <1>4, <2>2 DEF Listed
    <3>2. Outside \subseteq Outside' /\ (Len(unresolved) < MaxUnresolved => Outside' = Outside)
      BY <1>10, <2>2
    <3>. QED  BY <3>1, <3>2 DEF IInv, Reported
  <2>. QED  BY <2>1, <2>2
<1>. QED  BY <1>5, <1>9, <1>11 DEF IInv

(* The invariant holds always. *)
LEMMA Invariant == Spec => []IInv
<1>1. IInv /\ [Next]_vars => IInv'
  BY LoadStep, ResolveStep DEF Next
<1>. QED  BY <1>1, Initially, PTL DEF Spec

-----------------------------------------------------------------------------
(* Every variable has its type; the list at the end has distinct addresses of   *)
(* no map, and all of them unless it is full                                    *)
(* (parse_malloc_trace_log.py:84-116, 159-165).                                 *)
THEOREM TypeCorrect == Spec => []TypeOK
<1>1. IInv => TypeOK
  BY DEF IInv, Inputs, Loaded, Reported, Outside, TypeOK
<1>. QED  BY <1>1, Invariant, PTL

(* An address is in one map at most. *)
LEMMA OneMap ==
  ASSUME Inputs, NEW a \in Nat, NEW k \in Mapped(a), NEW l \in Mapped(a)
  PROVE  k = l
<1>1. PICK i \in DOMAIN lines : k = lines[i] /\ Has(k, a)
  BY DEF Mapped
<1>2. PICK j \in DOMAIN lines : l = lines[j] /\ Has(l, a)
  BY DEF Mapped
<1>3. /\ k.lo \in Nat /\ k.hi \in Nat /\ l.lo \in Nat /\ l.hi \in Nat
  <2>1. k \in Exec /\ l \in Exec
    BY ExecIs
  <2>. QED  BY <2>1, ExecIs DEF MapLine
<1>4. i # j => k.hi <= l.lo \/ l.hi <= k.lo
  BY <1>1, <1>2, MapsDisjoint DEF Inputs
<1>5. k.lo <= a /\ a < k.hi /\ l.lo <= a /\ a < l.hi
  BY <1>1, <1>2 DEF Has
<1>. QED  BY <1>1, <1>2, <1>3, <1>4, <1>5

(* What the name of an address says, by the search in sorted ranges. *)
LEMMA NameIs ==
  ASSUME IInv, NEW a \in Asked, Mapped(a) # {}
  PROVE  \E l \in Mapped(a) :
           LET near == {e \in tables[l.file] : Has(Range_(e), a - l.lo)}
           IN  /\ cache[a][1] = l.file
               /\ IF near = {} THEN cache[a][2] = "(unknown)"
                  ELSE \E e \in near : /\ cache[a][2] = e.name
                                       /\ \A f \in near : e.value <= f.value
<1>. DEFINE i == Find(Sorted(Exec), a)
            l == Sorted(Exec)[i]
            R == {Range_(e) : e \in tables[l.file]}
            near == {e \in tables[l.file] : Has(Range_(e), a - l.lo)}
            s == Find(Sorted(R), a - l.lo)
<1>1. /\ a \in Nat /\ Ranges(Exec) /\ Mapped(a) = {k \in Exec : Has(k, a)}
      /\ Inputs /\ cache[a] = NameOf(a)
  BY ExecIs, InputOK DEF IInv, Asked, Remembered
<1>2. i # 0 /\ l \in Exec /\ Has(l, a)
  BY <1>1, FindSorted
<1>3. l.file \in DOMAIN tables /\ l.lo \in Nat /\ a - l.lo \in Nat
  BY <1>1, <1>2, ExecIs DEF MapLine, Has
<1>4. NameOf(a) = <<l.file, IF s = 0 THEN "(unknown)" ELSE Sorted(R)[s].name>>
  BY <1>2 DEF NameOf, load_symbol_table
<1>. HIDE DEF l, i
<1>5. Ranges(R) /\ \A e \in tables[l.file] : e \in Entry
  BY <1>1, <1>3, TableIs
<1>. HIDE DEF s, R
<1>6. /\ s = 0 <=> {r \in R : Has(r, a - l.lo)} = {}
      /\ s # 0 => /\ Sorted(R)[s] \in R /\ Has(Sorted(R)[s], a - l.lo)
                  /\ \A r \in R : Has(r, a - l.lo) => Sorted(R)[s].lo <= r.lo
  BY <1>3, <1>5, FindSorted DEF s
<1>7. s = 0 <=> near = {}
  BY <1>6 DEF R
<1>8. cache[a][1] = l.file /\ cache[a][2] = IF s = 0 THEN "(unknown)" ELSE Sorted(R)[s].name
  BY <1>1, <1>4
<1>9. near # {} => \E e \in near : /\ cache[a][2] = e.name
                                   /\ \A f \in near : e.value <= f.value
  <2>. SUFFICES ASSUME near # {}
                PROVE  \E e \in near : /\ cache[a][2] = e.name
                                       /\ \A f \in near : e.value <= f.value
    OBVIOUS
  <2>1. PICK e \in tables[l.file] : Sorted(R)[s] = Range_(e)
    BY <1>6, <1>7 DEF R
  <2>2. e \in near /\ \A f \in near : Range_(e).lo <= Range_(f).lo
    BY <1>6, <1>7, <2>1 DEF R
  <2>3. \A f \in near : e.value <= f.value
    BY <2>2 DEF Range_
  <2>4. cache[a][2] = e.name
    <3>1. cache[a][2] = Sorted(R)[s].name
      BY <1>7, <1>8
    <3>2. Range_(e).name = e.name
      BY DEF Range_
    <3>. QED  BY <2>1, <3>1, <3>2
  <2>. QED  BY <2>2, <2>3, <2>4
<1>. QED  BY <1>1, <1>2, <1>7, <1>8, <1>9

(* Stopping early loses nothing: an address has the name of its file and of the *)
(* first of the symbols whose ranges, as they were read, have it                *)
(* (parse_malloc_trace_log.py:78, 87-109, 148).                                 *)
THEOREM NamedInRangeHolds == Spec => []NamedInRange
<1>1. IInv => NamedInRange
  <2>. SUFFICES ASSUME IInv, NEW a \in Asked, Mapped(a) = {}
                PROVE  cache[a] = <<"(unknown)", "(unknown)">>
    BY NameIs DEF NamedInRange
  <2>1. /\ a \in Nat /\ Ranges(Exec) /\ Mapped(a) = {k \in Exec : Has(k, a)}
        /\ cache[a] = NameOf(a)
    BY ExecIs, InputOK DEF IInv, Asked, Remembered
  <2>2. Find(Sorted(Exec), a) = 0
    BY <2>1, FindSorted
  <2>. QED  BY <2>1, <2>2 DEF NameOf
<1>. QED  BY <1>1, Invariant, PTL

(* The size of a symbol is read in the wrong base.  That makes no range shorter, *)
(* so that an address in a symbol is never unknown; and it makes no range of a   *)
(* size below ten longer, so that the name is the owner's unless a symbol of ten *)
(* bytes or more begins before it, or another one has the address as well        *)
(* (parse_malloc_trace_log.py:96-106, 134-146).                                  *)
THEOREM NamedByOwnerHolds == Spec => []NamedByOwner
<1>1. IInv => NamedByOwner
  <2>. SUFFICES ASSUME IInv, NEW a \in Asked, NEW l \in Mapped(a), NEW e \in Owners(l, a)
                PROVE  /\ cache[a][2] # "(unknown)"
                       /\ \/ cache[a][2] = e.name
                          \/ \E f \in tables[l.file] \ {e} : f.value <= e.value /\ f.size >= 10
                          \/ Cardinality(Owners(l, a)) > 1
    BY DEF NamedByOwner
  <2>. DEFINE near == {f \in tables[l.file] : Has(Range_(f), a - l.lo)}
  <2>1. PICK k \in Mapped(a) :
          LET nearK == {f \in tables[k.file] : Has(Range_(f), a - k.lo)}
          IN  IF nearK = {} THEN cache[a][2] = "(unknown)"
              ELSE \E f \in nearK : /\ cache[a][2] = f.name
                                    /\ \A g \in nearK : f.value <= g.value
    BY NameIs
  <2>2. k = l
    BY OneMap, InputOK DEF IInv, Asked
  <2>3. /\ l.file \in DOMAIN tables /\ l.lo \in Nat /\ a \in Nat /\ l.lo <= a
        /\ tables[l.file] \in SymbolTables /\ IsFiniteSet(tables[l.file])
        /\ \A f \in tables[l.file] : f \in Entry
    <3>1. Inputs /\ a \in Nat /\ l \in Exec /\ Has(l, a)
      BY ExecIs, InputOK DEF IInv, Asked
    <3>2. l \in MapLine /\ l.file \in DOMAIN tables
      BY <3>1, ExecIs
    <3>. QED  BY <3>1, <3>2, TableIs DEF MapLine, Has
  <2>4. ASSUME NEW f \in tables[l.file]
        PROVE  /\ f.value \in Nat /\ f.size \in Nat /\ AsHex[f.size] \in Nat
               /\ f.size <= AsHex[f.size] /\ (f.size < 10 => AsHex[f.size] = f.size)
               /\ Has(Range_(f), a - l.lo) <=>
                    f.value <= a - l.lo /\ a - l.lo < f.value + AsHex[f.size]
    BY <2>3, HexAtLeast DEF Entry, Has, Range_
  <2>5. e \in near
    BY <2>3, <2>4 DEF Owners
  <2>6. PICK f \in near : cache[a][2] = f.name /\ f.value <= e.value
    BY <2>1, <2>2, <2>5
  <2>7. cache[a][2] # "(unknown)"
    BY <2>3, <2>6, SymbolsNamed
  <2>8. CASE f = e \/ f.size >= 10
    BY <2>6, <2>7, <2>8
  <2>9. CASE f # e /\ f.size < 10
    <3>1. f \in Owners(l, a)
      BY <2>3, <2>4, <2>9 DEF Owners
    <3>2. IsFiniteSet(Owners(l, a))
      <4>1. Owners(l, a) \in SUBSET tables[l.file]
        BY DEF Owners
      <4>. QED  BY <2>3, <4>1, FS_Subset
    <3>3. Cardinality({e, f}) = 2 /\ {e, f} \in SUBSET Owners(l, a)
      <4>1. IsFiniteSet({e}) /\ Cardinality({e}) = 1 /\ {e, f} = {e} \cup {f} /\ f \notin {e}
        BY <2>9, FS_Singleton
      <4>2. Cardinality({e} \cup {f}) = Cardinality({e}) + 1
        BY <4>1, FS_AddElement
      <4>. QED  BY <3>1, <4>1, <4>2
    <3>4. Cardinality({e, f}) <= Cardinality(Owners(l, a)) /\ Cardinality(Owners(l, a)) \in Nat
      BY <3>2, <3>3, FS_Subset, FS_CardinalityType
    <3>5. Cardinality(Owners(l, a)) > 1
      BY <3>3, <3>4
    <3>. QED  BY <2>7, <3>5
  <2>. QED  BY <2>4, <2>8, <2>9
<1>. QED  BY <1>1, Invariant, PTL
===============================================================================
