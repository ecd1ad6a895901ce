--------------------------- MODULE DetectionProofs ---------------------------
(***************************************************************************)
(* Proofs about detection, for every set of objects a backend may insert   *)
(* and every order of the insertions.                                      *)
(***************************************************************************)
EXTENDS Detection, WellFoundedInduction, TLAPS

-----------------------------------------------------------------------------
(* Comparing types and objects.                                            *)

(* A set of naturals that is not empty has a least element.                *)
LEMMA LeastNat ==
    ASSUME NEW S, S \subseteq Nat, S # {}
    PROVE  Min(S) \in S /\ \A y \in S : Min(S) <= y
<1>1. \E x \in S : \A y \in S : ~(<<y, x>> \in OpToRel(<, Nat))
    BY NatLessThanWellFounded, WFMin, Zenon
<1>2. \A x, y \in Nat : ~(<<y, x>> \in OpToRel(<, Nat)) => x =< y
    BY DEF OpToRel
<1>3. \E x \in S : \A y \in S : x =< y
    BY <1>1, <1>2, Zenon
<1> QED BY <1>3, Zenon DEF Min

(* What a backend inserts by cpuset.                                       *)
Plain(o) ==
    /\ o.type \in Types \ {"MISC"} /\ ~type_is_io(o.type)
    /\ o.level \in Nat
    /\ o.cpuset \in Cpusets
    /\ o.nodeset \in Nodesets \cup {NULL}

(* The order of the types is a numbering.                                  *)
LEMMA TypeOrder ==
    ASSUME NEW t \in Types
    PROVE  obj_type_order(t) \in 1..12 /\ obj_order_type[obj_type_order(t)] = t
<1>1. DOMAIN obj_order_type = 1..12
    BY DEF obj_order_type
<1>2. \E i \in 1..12 : obj_order_type[i] = t
    BY <1>1, Zenon DEF Types, ToSet
<1> QED BY <1>1, <1>2, Zenon DEF obj_type_order

(* Types and depth attributes order the objects that are not I/O objects.  *)
LEMMA TypeCmpOrders ==
    ASSUME NEW a, NEW b, NEW c, Plain(a), Plain(b), Plain(c)
    PROVE  /\ type_cmp(a, b) \in {"DEEPER", "HIGHER", "EQUAL"}
           /\ type_cmp(a, b) = "DEEPER" <=> type_cmp(b, a) = "HIGHER"
           /\ type_cmp(a, b) = "EQUAL" <=> type_cmp(b, a) = "EQUAL"
           /\ type_cmp(a, b) = "DEEPER" /\ type_cmp(b, c) = "DEEPER"
                 => type_cmp(a, c) = "DEEPER"
<1> DEFINE n(o) == obj_type_order(o.type)
<1>1. n(a) \in Int /\ n(b) \in Int /\ n(c) \in Int
    BY TypeOrder DEF Plain
<1>2. /\ n(a) = n(b) => a.type = b.type
      /\ n(b) = n(c) => b.type = c.type
      /\ n(a) = n(c) => a.type = c.type
    BY TypeOrder, Zenon DEF Plain
<1>3. /\ compare_types(a.type, b.type) = n(a) - n(b)
      /\ compare_types(b.type, a.type) = n(b) - n(a)
      /\ compare_types(b.type, c.type) = n(b) - n(c)
      /\ compare_types(a.type, c.type) = n(a) - n(c)
    BY ZenonT(40) DEF compare_types, Plain
<1>4. a.level \in Nat /\ b.level \in Nat /\ c.level \in Nat
    BY DEF Plain
<1> HIDE DEF n
<1> QED BY <1>1, <1>2, <1>3, <1>4 DEF type_cmp

(* Comparison of sets that are not empty.                                  *)
LEMMA CmpSets ==
    ASSUME NEW a, NEW b, Plain(a), Plain(b), NEW s, NEW t
    PROVE  /\ cmp_sets(a, b, s, t) = "EQUAL" <=> s = t /\ type_cmp(a, b) = "EQUAL"
           /\ cmp_sets(a, b, s, t) = "INCLUDED" <=>
                 \/ s = t /\ type_cmp(a, b) = "DEEPER"
                 \/ s # t /\ s \subseteq t
           /\ cmp_sets(a, b, s, t) = "CONTAINS" <=>
                 \/ s = t /\ type_cmp(a, b) = "HIGHER"
                 \/ s # t /\ t \subseteq s
           /\ cmp_sets(a, b, s, t) = "INTERSECTS" <=>
                 ~(s \subseteq t) /\ ~(t \subseteq s) /\ s \cap t # {}
           /\ cmp_sets(a, b, s, t) = "DIFFERENT" <=>
                 ~(s \subseteq t) /\ ~(t \subseteq s) /\ s \cap t = {}
<1>1. type_cmp(a, b) \in {"DEEPER", "HIGHER", "EQUAL"}
    BY TypeCmpOrders
<1>2. a.type # "MISC"
    BY DEF Plain
<1> QED BY <1>1, <1>2 DEF cmp_sets

(* The sets by which two objects compare.                                  *)
Shared(a, b) == NotEmpty(a.cpuset) /\ NotEmpty(b.cpuset)
SharedNodes(a, b) == NotEmpty(a.nodeset) /\ NotEmpty(b.nodeset)

(* Objects compare by cpusets if both have some, else by nodesets.         *)
LEMMA CmpBy ==
    ASSUME NEW a, NEW b
    PROVE  /\ Shared(a, b) => obj_cmp(a, b) = cmp_sets(a, b, a.cpuset, b.cpuset)
           /\ ~Shared(a, b) /\ SharedNodes(a, b)
                 => obj_cmp(a, b) = cmp_sets(a, b, a.nodeset, b.nodeset)
           /\ ~Shared(a, b) /\ ~SharedNodes(a, b) => obj_cmp(a, b) = "DIFFERENT"
BY DEF obj_cmp, Shared, SharedNodes

(* Comparing the other way round.                                          *)
LEMMA CmpFlips ==
    ASSUME NEW a, NEW b, Plain(a), Plain(b)
    PROVE  /\ obj_cmp(a, b) = "INCLUDED" <=> obj_cmp(b, a) = "CONTAINS"
           /\ obj_cmp(a, b) = "DIFFERENT" <=> obj_cmp(b, a) = "DIFFERENT"
           /\ obj_cmp(a, b) \in {"EQUAL", "INCLUDED", "CONTAINS", "INTERSECTS", "DIFFERENT"}
<1> DEFINE T == /\ type_cmp(a, b) = "DEEPER" <=> type_cmp(b, a) = "HIGHER"
                /\ type_cmp(a, b) = "EQUAL" <=> type_cmp(b, a) = "EQUAL"
                /\ type_cmp(b, a) = "DEEPER" <=> type_cmp(a, b) = "HIGHER"
                /\ type_cmp(a, b) \in {"DEEPER", "HIGHER", "EQUAL"}
<1>1. T
    BY TypeCmpOrders
<1>2. Shared(a, b) <=> Shared(b, a)
    BY DEF Shared
<1>3. SharedNodes(a, b) <=> SharedNodes(b, a)
    BY DEF SharedNodes
<1>4. CASE Shared(a, b)
    BY <1>1, <1>2, <1>4, CmpBy, CmpSets
<1>5. CASE ~Shared(a, b) /\ SharedNodes(a, b)
    BY <1>1, <1>2, <1>3, <1>5, CmpBy, CmpSets
<1>6. CASE ~Shared(a, b) /\ ~SharedNodes(a, b)
    BY <1>2, <1>3, <1>6, CmpBy
<1> QED BY <1>4, <1>5, <1>6

-----------------------------------------------------------------------------
(* Lists of children.                                                      *)

(* The filter of a sequence satisfies its recursive definition.            *)
LEMMA AmongExists ==
    ASSUME NEW s \in Seq(Id), NEW S
    PROVE  \E f : /\ Among(s, S) = f[Len(s)]
                  /\ f = [n \in 0..Len(s) |->
                             IF n = 0 THEN <<>>
                             ELSE IF s[n] \in S THEN Append(f[n - 1], s[n]) ELSE f[n - 1]]
<1> DEFINE F(g, n) == IF n = 0 THEN <<>>
                      ELSE IF s[n] \in S THEN Append(g[n - 1], s[n]) ELSE g[n - 1]
           Good(m) == \E g : g = [n \in 0..m |-> F(g, n)]
           Bad == {m \in Nat : ~Good(m)}
           k == Min(Bad)
<1>1. Good(Len(s))
    <2>1. Len(s) \in Nat
        OBVIOUS
    <2>2. SUFFICES ASSUME Bad # {} PROVE FALSE
        BY <2>1
    <2>3. k \in Bad /\ \A m \in Bad : k <= m
        BY <2>2, LeastNat
    <2> HIDE DEF k
    <2>4. k \in Nat /\ ~Good(k)
        BY <2>3
    <2>5. CASE k = 0
        <3> DEFINE g == [n \in 0..0 |-> <<>>]
        <3>1. g = [n \in 0..0 |-> F(g, n)]
            OBVIOUS
        <3> HIDE DEF g, F
        <3> QED BY <2>4, <2>5, <3>1
    <2>6. CASE k # 0
        <3>1. k - 1 \in Nat /\ ~(k <= k - 1)
            BY <2>4, <2>6
        <3>2. PICK g : g = [n \in 0..(k - 1) |-> F(g, n)]
            BY <2>3, <3>1
        <3> DEFINE h == [n \in 0..k |-> IF n = k THEN F(g, k) ELSE g[n]]
        <3>3. \A n \in 0..k : n # 0 => h[n - 1] = g[n - 1]
            BY <2>4
        <3>4. \A n \in 0..k : F(h, n) = F(g, n)
            BY <3>3
        <3>5. \A n \in 0..k : n # k => g[n] = F(g, n)
            <4> HIDE DEF F
            <4> QED BY <2>4, <3>2
        <3> HIDE DEF F
        <3>6. \A n \in 0..k : h[n] = F(h, n)
            BY <3>4, <3>5
        <3>7. h = [n \in 0..k |-> F(h, n)]
            BY <3>6
        <3> HIDE DEF h
        <3> QED BY <2>4, <3>7
    <2> QED BY <2>5, <2>6
<1> DEFINE f == CHOOSE g : g = [n \in 0..Len(s) |-> F(g, n)]
<1>2. Among(s, S) = f[Len(s)]
    BY Zenon DEF Among
<1> HIDE DEF F
<1>3. f = [n \in 0..Len(s) |-> F(f, n)]
    BY <1>1, Zenon
<1> HIDE DEF f
<1> QED BY <1>2, <1>3, Zenon DEF F

(* The filter keeps what is in the set, in order.                          *)
LEMMA AmongIs ==
    ASSUME NEW s \in Seq(Id), NEW S
    PROVE  /\ Among(s, S) \in Seq(Id)
           /\ ToSet(Among(s, S)) = ToSet(s) \cap S
           /\ \A i, j \in DOMAIN Among(s, S) : i < j =>
                 \E a, b \in DOMAIN s :
                     a < b /\ Among(s, S)[i] = s[a] /\ Among(s, S)[j] = s[b]
<1>1. PICK f : /\ Among(s, S) = f[Len(s)]
               /\ f = [n \in 0..Len(s) |->
                          IF n = 0 THEN <<>>
                          ELSE IF s[n] \in S THEN Append(f[n - 1], s[n]) ELSE f[n - 1]]
    BY AmongExists
<1>0. Len(s) \in Nat /\ DOMAIN s = 1..Len(s)
    OBVIOUS
<1> DEFINE Kept(n) == {s[a] : a \in 1..n} \cap S
           InOrder(n) == \A i, j \in DOMAIN f[n] : i < j =>
                             \E a, b \in 1..n : a < b /\ f[n][i] = s[a] /\ f[n][j] = s[b]
           Is(n) == f[n] \in Seq(Id) /\ ToSet(f[n]) = Kept(n) /\ InOrder(n)
           Bad == {m \in 0..Len(s) : ~Is(m)}
           k == Min(Bad)
<1>2. Is(Len(s))
    <2> HIDE DEF Is
    <2>1. SUFFICES ASSUME Bad # {} PROVE FALSE
        BY <1>0
    <2>a. Bad \subseteq Nat
        BY <1>0
    <2>2. k \in Bad /\ \A m \in Bad : k <= m
        BY <2>a, <2>1, LeastNat, Zenon
    <2> HIDE DEF k
    <2> USE DEF Is
    <2>3. k \in 0..Len(s) /\ ~Is(k)
        BY <2>2
    <2>4. CASE k = 0
        <3>1. f[0] = <<>>
            BY <1>0, <1>1
        <3>2. 1..0 = {} /\ DOMAIN <<>> = {}
            OBVIOUS
        <3> QED BY <2>3, <2>4, <3>1, <3>2 DEF ToSet
    <2>5. CASE k # 0
        <3>1. k - 1 \in 0..Len(s) /\ ~(k <= k - 1) /\ k \in DOMAIN s
            BY <1>0, <2>3, <2>5
        <3>2. Is(k - 1)
            BY <2>2, <3>1
        <3>3. f[k - 1] \in Seq(Id) /\ ToSet(f[k - 1]) = Kept(k - 1) /\ InOrder(k - 1)
            BY <3>2
        <3>4. s[k] \in Id
            BY <3>1
        <3>5. {s[a] : a \in 1..k} = {s[a] : a \in 1..(k - 1)} \cup {s[k]}
            BY <1>0, <2>3, <2>5
        <3>6. CASE s[k] \notin S
            <4>1. f[k] = f[k - 1]
                BY <1>1, <2>3, <2>5, <3>6
            <4>2. Kept(k) = Kept(k - 1)
                BY <3>5, <3>6
            <4>3. InOrder(k)
                BY <1>0, <2>3, <2>5, <3>3, <4>1
            <4> QED BY <2>3, <3>3, <4>1, <4>2, <4>3
        <3>7. CASE s[k] \in S
            <4>1. f[k] = Append(f[k - 1], s[k])
                BY <1>1, <2>3, <2>5, <3>7
            <4>2. f[k] \in Seq(Id)
                BY <3>3, <3>4, <4>1
            <4>a. /\ DOMAIN f[k] = DOMAIN f[k - 1] \cup {Len(f[k - 1]) + 1}
                  /\ f[k][Len(f[k - 1]) + 1] = s[k]
                  /\ \A i \in DOMAIN f[k - 1] : f[k][i] = f[k - 1][i]
                  /\ \A i \in DOMAIN f[k - 1] : i \in Nat /\ i <= Len(f[k - 1])
                  /\ Len(f[k - 1]) \in Nat
                BY <3>3, <3>4, <4>1
            <4>3. ToSet(f[k]) = ToSet(f[k - 1]) \cup {s[k]}
                BY <4>a, Zenon DEF ToSet
            <4>4. ToSet(f[k]) = Kept(k)
                BY <3>3, <3>5, <3>7, <4>3
            <4>5. ASSUME NEW i \in DOMAIN f[k], NEW j \in DOMAIN f[k], i < j
                  PROVE  \E a, b \in 1..k : a < b /\ f[k][i] = s[a] /\ f[k][j] = s[b]
                <5>1. i \in DOMAIN f[k - 1]
                    BY <4>5, <4>a
                <5>2. CASE j \in DOMAIN f[k - 1]
                    <6>1. PICK a, b \in 1..(k - 1) :
                              a < b /\ f[k - 1][i] = s[a] /\ f[k - 1][j] = s[b]
                        BY <3>3, <4>5, <5>1, <5>2
                    <6>2. a \in 1..k /\ b \in 1..k
                        BY <1>0, <2>3
                    <6> QED BY <4>a, <5>1, <5>2, <6>1, <6>2
                <5>3. CASE j = Len(f[k - 1]) + 1
                    <6>1. f[k - 1][i] \in Kept(k - 1)
                        BY <3>3, <5>1, Zenon DEF ToSet
                    <6>2. PICK a \in 1..(k - 1) : f[k - 1][i] = s[a]
                        BY <6>1
                    <6>3. a \in 1..k /\ k \in 1..k /\ a < k
                        BY <1>0, <2>3, <2>5
                    <6> QED BY <4>a, <5>1, <5>3, <6>2, <6>3
                <5> QED BY <4>a, <5>2, <5>3
            <4> QED BY <2>3, <4>2, <4>4, <4>5
        <3> QED BY <3>6, <3>7
    <2> QED BY <2>4, <2>5
<1>3. Kept(Len(s)) = ToSet(s) \cap S
    BY <1>0 DEF ToSet
<1>4. Among(s, S) = f[Len(s)]
    BY <1>1
<1>5. InOrder(Len(s)) /\ f[Len(s)] \in Seq(Id) /\ ToSet(f[Len(s)]) = Kept(Len(s))
    BY <1>2
<1>6. InOrder(Len(s)) => \A i, j \in DOMAIN f[Len(s)] : i < j =>
          \E a, b \in DOMAIN s : a < b /\ f[Len(s)][i] = s[a] /\ f[Len(s)][j] = s[b]
    BY <1>0
<1> HIDE DEF Kept, InOrder
<1> QED BY <1>3, <1>4, <1>5, <1>6

(* What InsertAt does to a sequence.                                       *)
LEMMA InsertAtIs ==
    ASSUME NEW s \in Seq(Id), NEW p \in 1..(Len(s) + 1), NEW e \in Id
    PROVE  /\ InsertAt(s, p, e) \in Seq(Id)
           /\ DOMAIN InsertAt(s, p, e) = 1..(Len(s) + 1)
           /\ \A i \in 1..(Len(s) + 1) :
                 InsertAt(s, p, e)[i] = IF i < p THEN s[i] ELSE IF i = p THEN e ELSE s[i - 1]
           /\ ToSet(InsertAt(s, p, e)) = ToSet(s) \cup {e}
<1> DEFINE a == SubSeq(s, 1, p - 1)
           b == SubSeq(s, p, Len(s))
           q == InsertAt(s, p, e)
<1>0. Len(s) \in Nat /\ p \in Nat /\ DOMAIN s = 1..Len(s)
    OBVIOUS
<1>1. /\ a \in Seq(Id) /\ Len(a) = p - 1
      /\ \A i \in 1..(p - 1) : a[i] = s[i]
    OBVIOUS
<1>2. /\ b \in Seq(Id) /\ Len(b) = Len(s) + 1 - p
      /\ \A i \in 1..(Len(s) + 1 - p) : b[i] = s[p + i - 1]
    OBVIOUS
<1>3. q = a \o <<e>> \o b
    BY DEF InsertAt
<1> HIDE DEF a, b
<1>a. a \o <<e>> \in Seq(Id) /\ Len(a \o <<e>>) = p
    BY <1>0, <1>1
<1>b. q \in Seq(Id) /\ Len(q) = p + Len(b)
    BY <1>0, <1>2, <1>3, <1>a
<1>4. q \in Seq(Id) /\ Len(q) = Len(s) + 1 /\ DOMAIN q = 1..(Len(s) + 1)
    BY <1>0, <1>2, <1>b
<1>5. \A i \in 1..(Len(s) + 1) :
          q[i] = IF i < p THEN s[i] ELSE IF i = p THEN e ELSE s[i - 1]
    BY <1>0, <1>1, <1>2, <1>3, SMTT(30)
<1> HIDE DEF q
<1>6. \A i \in 1..Len(s) : i + 1 \in 1..(Len(s) + 1) /\ (i + 1) - 1 = i
    BY <1>0
<1>7. \A i \in 1..Len(s) : i < p => q[i] = s[i] /\ i \in DOMAIN q
    BY <1>0, <1>4, <1>5
<1>8. \A i \in 1..Len(s) : ~(i < p) => q[i + 1] = s[i] /\ i + 1 \in DOMAIN q
    BY <1>0, <1>4, <1>5, <1>6
<1>9. q[p] = e /\ p \in DOMAIN q
    BY <1>0, <1>4, <1>5
<1>10. \A i \in DOMAIN q : q[i] = e \/ \E j \in DOMAIN s : q[i] = s[j]
    <2> TAKE i \in DOMAIN q
    <2>1. CASE i < p
        BY <1>0, <1>4, <1>5, <2>1
    <2>2. CASE i = p
        BY <1>9, <2>2
    <2>3. CASE p < i
        <3>1. i - 1 \in DOMAIN s
            BY <1>0, <1>4, <2>3
        <3>2. q[i] = s[i - 1]
            BY <1>0, <1>4, <1>5, <2>3
        <3> QED BY <3>1, <3>2
    <2> QED BY <1>0, <1>4, <2>1, <2>2, <2>3
<1>11. \A j \in DOMAIN s : \E i \in DOMAIN q : q[i] = s[j]
    BY <1>0, <1>7, <1>8
<1>12. ToSet(q) = ToSet(s) \cup {e}
    BY <1>9, <1>10, <1>11 DEF ToSet
<1> QED BY <1>4, <1>5, <1>12 DEF q

(* Sets without a least element are last, and the order is a weak one.     *)
LEMMA FirstBeforeOrders ==
    ASSUME NEW a \in SUBSET Nat, NEW b \in SUBSET Nat, NEW c \in SUBSET Nat,
           FirstBefore(a, b), ~FirstBefore(c, b)
    PROVE  ~FirstBefore(c, a)
<1>1. /\ a # {} => Min(a) \in Nat
      /\ b # {} => Min(b) \in Nat
      /\ c # {} => Min(c) \in Nat
    BY LeastNat
<1> DEFINE ma == Min(a)
           mb == Min(b)
           mc == Min(c)
<1>2. a # {} /\ (b = {} \/ ma < mb)
    BY DEF FirstBefore
<1>3. c = {} \/ (b # {} /\ ~(mc < mb))
    BY DEF FirstBefore
<1>4. FirstBefore(c, a) => c # {} /\ (a = {} \/ mc < ma)
    BY DEF FirstBefore
<1>5. (a # {} => ma \in Nat) /\ (b # {} => mb \in Nat) /\ (c # {} => mc \in Nat)
    BY <1>1
<1> HIDE DEF ma, mb, mc
<1>6. SUFFICES ASSUME FirstBefore(c, a) PROVE FALSE
    OBVIOUS
<1>7. c # {} /\ a # {} /\ b # {}
    BY <1>2, <1>3, <1>4, <1>6, Zenon
<1>8. ma < mb /\ ~(mc < mb) /\ mc < ma
    BY <1>2, <1>3, <1>4, <1>6, <1>7, Zenon
<1>9. ma \in Nat /\ mb \in Nat /\ mc \in Nat
    BY <1>5, <1>7, Zenon
<1> QED BY <1>8, <1>9

Distinct(q) == \A i, j \in DOMAIN q : i < j => q[i] # q[j]
Sorted(q, cs) == \A i, j \in DOMAIN q : i < j => ~FirstBefore(cs[q[j]], cs[q[i]])

(* A filter keeps a list sorted and without duplicates.                    *)
LEMMA AmongKeeps ==
    ASSUME NEW s \in Seq(Id), NEW S, NEW cs, Distinct(s), Sorted(s, cs)
    PROVE  Distinct(Among(s, S)) /\ Sorted(Among(s, S), cs)
BY AmongIs DEF Distinct, Sorted

(* An object goes before the first one that begins after it.               *)
LEMMA FirstAfter ==
    ASSUME NEW s \in Seq(Id), NEW cs \in [Id -> SUBSET Nat], NEW x \in Id,
           Sorted(s, cs), NEW after,
           after = {i \in DOMAIN s : FirstBefore(cs[x], cs[s[i]])}, NEW p,
           p = IF after = {} THEN Len(s) + 1 ELSE Min(after)
    PROVE  /\ p \in 1..(Len(s) + 1)
           /\ \A i \in DOMAIN s : i < p <=> ~FirstBefore(cs[x], cs[s[i]])
<1>0. Len(s) \in Nat /\ DOMAIN s = 1..Len(s) /\ \A i \in DOMAIN s : s[i] \in Id
    OBVIOUS
<1>1. p \in 1..(Len(s) + 1) /\ \A i \in DOMAIN s : i < p => i \notin after
    <2>1. CASE after = {}
        BY <1>0, <2>1
    <2>2. CASE after # {}
        <3>1. after \subseteq Nat
            BY <1>0
        <3>2. p \in after /\ \A i \in after : p <= i
            BY <2>2, <3>1, LeastNat
        <3>3. p \in DOMAIN s
            BY <3>2
        <3>4. p \in 1..(Len(s) + 1)
            BY <1>0, <3>3
        <3>5. \A i \in DOMAIN s : i < p => ~(p <= i)
            BY <1>0, <3>4
        <3> QED BY <3>2, <3>4, <3>5
    <2> QED BY <2>1, <2>2
<1>2. \A i \in DOMAIN s : ~(i < p) => FirstBefore(cs[x], cs[s[i]])
    <2> SUFFICES ASSUME NEW i \in DOMAIN s, ~(i < p)
                 PROVE  FirstBefore(cs[x], cs[s[i]])
        OBVIOUS
    <2>1. after # {}
        BY <1>0
    <2>2. p \in after
        <3>1. after \subseteq Nat
            BY <1>0
        <3> QED BY <2>1, <3>1, LeastNat
    <2>3. p \in DOMAIN s /\ FirstBefore(cs[x], cs[s[p]])
        BY <2>2
    <2>4. CASE i = p
        BY <2>3, <2>4
    <2>5. CASE p < i
        <3>1. ~FirstBefore(cs[s[i]], cs[s[p]])
            BY <2>3, <2>5 DEF Sorted
        <3>2. cs[x] \in SUBSET Nat /\ cs[s[i]] \in SUBSET Nat /\ cs[s[p]] \in SUBSET Nat
            BY <1>0, <2>3
        <3>3. ~FirstBefore(cs[s[i]], cs[x])
            BY <2>3, <3>1, <3>2, FirstBeforeOrders
        <3>4. cs[x] # {} /\ (cs[s[p]] = {} \/ Min(cs[x]) < Min(cs[s[p]]))
            BY <2>3 DEF FirstBefore
        <3>5. cs[s[i]] = {} \/ (cs[s[p]] # {} /\ ~(Min(cs[s[i]]) < Min(cs[s[p]])))
            BY <3>1 DEF FirstBefore
        <3>6. /\ Min(cs[x]) \in Nat
              /\ cs[s[i]] # {} => Min(cs[s[i]]) \in Nat
              /\ cs[s[p]] # {} => Min(cs[s[p]]) \in Nat
            BY <3>2, <3>4, LeastNat
        <3> DEFINE mx == Min(cs[x])
                   mi == Min(cs[s[i]])
                   mp == Min(cs[s[p]])
        <3>7. mx \in Nat /\ (cs[s[i]] # {} => mi \in Nat) /\ (cs[s[p]] # {} => mp \in Nat)
            BY <3>6
        <3>8. cs[s[i]] = {} \/ (cs[s[p]] # {} /\ ~(mi < mp))
            BY <3>5
        <3>9. cs[s[p]] = {} \/ mx < mp
            BY <3>4
        <3> HIDE DEF mx, mi, mp
        <3>10. cs[s[i]] = {} \/ mx < mi
            <4>1. SUFFICES ASSUME cs[s[i]] # {} PROVE mx < mi
                OBVIOUS
            <4>2. mx \in Nat /\ mi \in Nat /\ mp \in Nat /\ ~(mi < mp) /\ mx < mp
                BY <3>7, <3>8, <3>9, <4>1, Zenon
            <4> QED BY <4>2
        <3> QED BY <3>4, <3>10 DEF FirstBefore, mx, mi
    <2> QED BY <1>0, <1>1, <2>4, <2>5
<1> QED BY <1>1, <1>2

(* There it keeps the list sorted.                                         *)
LEMMA InsertSorted ==
    ASSUME NEW s \in Seq(Id), NEW cs \in [Id -> SUBSET Nat], NEW x \in Id \ ToSet(s),
           Distinct(s), Sorted(s, cs), NEW p \in 1..(Len(s) + 1),
           \A i \in DOMAIN s : i < p <=> ~FirstBefore(cs[x], cs[s[i]])
    PROVE  Distinct(InsertAt(s, p, x)) /\ Sorted(InsertAt(s, p, x), cs)
<1> DEFINE q == InsertAt(s, p, x)
<1>0. Len(s) \in Nat /\ DOMAIN s = 1..Len(s) /\ \A i \in DOMAIN s : s[i] \in Id
    OBVIOUS
<1>1. p \in 1..(Len(s) + 1) /\ \A i \in DOMAIN s : i < p => ~FirstBefore(cs[x], cs[s[i]])
    OBVIOUS
<1>2. \A i \in DOMAIN s : ~(i < p) => FirstBefore(cs[x], cs[s[i]])
    OBVIOUS
<1>3. /\ DOMAIN q = 1..(Len(s) + 1)
      /\ \A i \in 1..(Len(s) + 1) :
            q[i] = IF i < p THEN s[i] ELSE IF i = p THEN x ELSE s[i - 1]
    BY InsertAtIs, ZenonT(40)
<1> HIDE DEF q
<1>4. \A i \in DOMAIN s : s[i] # x
    BY Zenon DEF ToSet
<1>5. ASSUME NEW i \in DOMAIN q, NEW j \in DOMAIN q, i < j
      PROVE  q[i] # q[j] /\ ~FirstBefore(cs[q[j]], cs[q[i]])
    <2>0. /\ i \in 1..(Len(s) + 1) /\ j \in 1..(Len(s) + 1) /\ p \in 1..(Len(s) + 1)
          /\ i \in Nat /\ j \in Nat /\ p \in Nat
        BY <1>0, <1>1, <1>3
    <2>1. CASE j < p
        <3>1. i \in DOMAIN s /\ j \in DOMAIN s /\ q[i] = s[i] /\ q[j] = s[j]
            BY <1>0, <1>1, <1>3, <1>5, <2>0, <2>1
        <3> QED BY <1>5, <3>1 DEF Distinct, Sorted
    <2>2. CASE j = p
        <3>1. i \in DOMAIN s /\ q[i] = s[i] /\ q[j] = x /\ i < p
            BY <1>0, <1>1, <1>3, <1>5, <2>0, <2>2
        <3>2. ~FirstBefore(cs[x], cs[s[i]])
            BY <1>1, <3>1
        <3> QED BY <1>4, <3>1, <3>2
    <2>3. CASE i < p /\ p < j
        <3>1. i \in DOMAIN s /\ j - 1 \in DOMAIN s /\ q[i] = s[i] /\ q[j] = s[j - 1] /\ i < j - 1
            BY <1>0, <1>1, <1>3, <1>5, <2>0, <2>3
        <3> QED BY <3>1 DEF Distinct, Sorted
    <2>4. CASE i = p
        <3>1. j - 1 \in DOMAIN s /\ q[i] = x /\ q[j] = s[j - 1] /\ ~(j - 1 < p)
            <4>1. j - 1 \in 1..Len(s) /\ ~(j < p) /\ j # p /\ ~(i < p) /\ ~(j - 1 < p)
                BY <1>0, <1>3, <1>5, <2>0, <2>4
            <4> QED BY <1>0, <1>3, <2>4, <4>1, Zenon
        <3>2. FirstBefore(cs[x], cs[s[j - 1]])
            BY <1>2, <3>1
        <3>3. cs[x] \in SUBSET Nat /\ cs[s[j - 1]] \in SUBSET Nat
            BY <1>0, <3>1
        <3>4. /\ cs[x] # {} => Min(cs[x]) \in Nat
              /\ cs[s[j - 1]] # {} => Min(cs[s[j - 1]]) \in Nat
            BY <3>3, LeastNat
        <3>5. ~FirstBefore(cs[s[j - 1]], cs[x])
            BY <3>2, <3>4 DEF FirstBefore
        <3> QED BY <1>4, <3>1, <3>5
    <2>5. CASE p < i
        <3>1. /\ i - 1 \in DOMAIN s /\ j - 1 \in DOMAIN s /\ i - 1 < j - 1
              /\ q[i] = s[i - 1] /\ q[j] = s[j - 1]
            <4>1. /\ i - 1 \in 1..Len(s) /\ j - 1 \in 1..Len(s) /\ i - 1 < j - 1
                  /\ ~(j < p) /\ j # p /\ ~(i < p) /\ i # p
                BY <1>0, <1>5, <2>0, <2>5
            <4> QED BY <1>0, <1>3, <4>1, Zenon
        <3> QED BY <3>1 DEF Distinct, Sorted
    <2> QED BY <1>5, <2>0, <2>1, <2>2, <2>3, <2>4, <2>5
<1> QED BY <1>1, <1>5 DEF Distinct, Sorted, q

-----------------------------------------------------------------------------
(* Comparing what the backend gives.                                       *)

Cmp(x, y) == obj_cmp(BackendObject(x), BackendObject(y))
Cpus(x) == Input[x].cpuset

(* The fields that decide how an object compares are those it came with.   *)
Same(o, x) ==
    /\ o.type = Input[x].type /\ o.level = Input[x].level
    /\ o.cpuset = Input[x].cpuset /\ o.nodeset = Input[x].nodeset

(* An object as the backend creates it.                                    *)
LEMMA BackendSame ==
    ASSUME NEW x
    PROVE  Same(BackendObject(x), x)
BY DEF Same, BackendObject, setup_object

(* Such objects are what insertion by cpuset is for.                       *)
LEMMA SamePlain ==
    ASSUME NEW x \in DOMAIN Input, NEW o, Same(o, x)
    PROVE  Plain(o)
<1>1. 0..(NbCpus - 1) \subseteq AllCpus /\ 0..(NbNodes - 1) \subseteq AllNodes
    BY IndexAssumption DEF AllCpus, AllNodes
<1> QED BY <1>1, InputAssumption DEF Same, Plain, Cpusets, Nodesets

(* Their cpusets are sets of processors.                                   *)
LEMMA CpusAre ==
    ASSUME NEW x \in DOMAIN Input
    PROVE  /\ Cpus(x) \in SUBSET Nat /\ Cpus(x) \in Cpusets
           /\ Has(Cpus(x)) /\ Cpus(x) \subseteq AllCpus
<1>1. Cpus(x) \in SUBSET (0..(NbCpus - 1))
    BY InputAssumption, Zenon DEF Cpus
<1>2. 0..(NbCpus - 1) \subseteq AllCpus /\ 0..(NbCpus - 1) \subseteq Nat
    BY IndexAssumption DEF AllCpus
<1>3. Cpus(x) \in Cpusets
    BY <1>1, <1>2 DEF Cpusets
<1> QED BY <1>1, <1>2, <1>3, NullAssumption DEF Has

(* They compare as when they were created, whatever else was merged.       *)
LEMMA SameCmp ==
    ASSUME NEW x \in DOMAIN Input, NEW y \in DOMAIN Input, NEW o, NEW u,
           Same(o, x), Same(u, y)
    PROVE  obj_cmp(o, u) = Cmp(x, y)
<1> DEFINE a == BackendObject(x)
           b == BackendObject(y)
<1>1. Same(a, x) /\ Same(b, y)
    BY BackendSame
<1>2. Plain(o) /\ Plain(u) /\ Plain(a) /\ Plain(b)
    BY <1>1, SamePlain
<1> HIDE DEF a, b
<1>3. /\ o.type = a.type /\ o.level = a.level /\ o.cpuset = a.cpuset /\ o.nodeset = a.nodeset
      /\ u.type = b.type /\ u.level = b.level /\ u.cpuset = b.cpuset /\ u.nodeset = b.nodeset
    BY <1>1 DEF Same
<1>4. type_cmp(o, u) = type_cmp(a, b)
    BY <1>3, Zenon DEF type_cmp
<1>5. (Shared(o, u) <=> Shared(a, b)) /\ (SharedNodes(o, u) <=> SharedNodes(a, b))
    BY <1>3, Zenon DEF Shared, SharedNodes
<1>6. \A s, t : cmp_sets(o, u, s, t) = cmp_sets(a, b, s, t)
    BY <1>2, <1>3, <1>4, Zenon DEF cmp_sets, Plain
<1>7. obj_cmp(o, u) = obj_cmp(a, b)
    BY <1>3, <1>5, <1>6, CmpBy
<1> QED BY <1>7 DEF Cmp, a, b

(* The outcomes of a comparison, and of the opposite one.                  *)
LEMMA CmpValues ==
    ASSUME NEW x \in DOMAIN Input, NEW y \in DOMAIN Input
    PROVE  /\ Cmp(x, y) = "INCLUDED" <=> Cmp(y, x) = "CONTAINS"
           /\ Cmp(x, y) = "DIFFERENT" <=> Cmp(y, x) = "DIFFERENT"
           /\ Cmp(x, y) \in {"EQUAL", "INCLUDED", "CONTAINS", "INTERSECTS", "DIFFERENT"}
BY BackendSame, SamePlain, CmpFlips DEF Cmp

(* By which sets objects of the backend compare.                           *)
LEMMA CmpOfInput ==
    ASSUME NEW x \in DOMAIN Input, NEW y \in DOMAIN Input
    PROVE  LET a == BackendObject(x)
               b == BackendObject(y)
           IN
           /\ Cpus(x) # {} /\ Cpus(y) # {} =>
                 /\ Cmp(x, y) = "INCLUDED" <=>
                       \/ Cpus(x) = Cpus(y) /\ type_cmp(a, b) = "DEEPER"
                       \/ Cpus(x) # Cpus(y) /\ Cpus(x) \subseteq Cpus(y)
                 /\ Cmp(x, y) = "DIFFERENT" => Cpus(x) \cap Cpus(y) = {}
                 /\ Cpus(x) \cap Cpus(y) = {} => Cmp(x, y) = "DIFFERENT"
           /\ (Cpus(x) = {} \/ Cpus(y) = {}) /\ Cmp(x, y) = "INCLUDED" =>
                 /\ NotEmpty(Input[x].nodeset) /\ NotEmpty(Input[y].nodeset)
                 /\ Input[x].nodeset \subseteq Input[y].nodeset
<1> DEFINE a == BackendObject(x)
           b == BackendObject(y)
<1>1. Same(a, x) /\ Same(b, y)
    BY BackendSame
<1>2. Plain(a) /\ Plain(b)
    BY <1>1, SamePlain
<1>3. Has(Cpus(x)) /\ Has(Cpus(y))
    BY CpusAre
<1>4. Cmp(x, y) = obj_cmp(a, b)
    BY DEF Cmp
<1> HIDE DEF a, b
<1>5. a.cpuset = Cpus(x) /\ b.cpuset = Cpus(y) /\ a.nodeset = Input[x].nodeset
      /\ b.nodeset = Input[y].nodeset
    BY <1>1 DEF Same, Cpus
<1>6. Shared(a, b) <=> Cpus(x) # {} /\ Cpus(y) # {}
    BY <1>3, <1>5 DEF Shared, NotEmpty
<1>7. Cpus(x) # {} /\ Cpus(y) # {} =>
          /\ Cmp(x, y) = "INCLUDED" <=>
                \/ Cpus(x) = Cpus(y) /\ type_cmp(a, b) = "DEEPER"
                \/ Cpus(x) # Cpus(y) /\ Cpus(x) \subseteq Cpus(y)
          /\ Cmp(x, y) = "DIFFERENT" => Cpus(x) \cap Cpus(y) = {}
          /\ Cpus(x) \cap Cpus(y) = {} => Cmp(x, y) = "DIFFERENT"
    BY <1>2, <1>4, <1>5, <1>6, CmpBy, CmpSets
<1>8. (Cpus(x) = {} \/ Cpus(y) = {}) /\ Cmp(x, y) = "INCLUDED" =>
          /\ NotEmpty(Input[x].nodeset) /\ NotEmpty(Input[y].nodeset)
          /\ Input[x].nodeset \subseteq Input[y].nodeset
    <2> SUFFICES ASSUME Cpus(x) = {} \/ Cpus(y) = {}, Cmp(x, y) = "INCLUDED"
                 PROVE  SharedNodes(a, b) /\ a.nodeset \subseteq b.nodeset
        BY <1>5 DEF SharedNodes
    <2>1. ~Shared(a, b)
        BY <1>6
    <2>2. SharedNodes(a, b)
        BY <1>4, <2>1, CmpBy
    <2>3. cmp_sets(a, b, a.nodeset, b.nodeset) = "INCLUDED"
        BY <1>4, <2>1, <2>2, CmpBy
    <2> QED BY <1>2, <2>2, <2>3, CmpSets
<1> QED BY <1>7, <1>8 DEF a, b

(* What is contained in an object has no processors outside of it.         *)
LEMMA IncludedCpus ==
    ASSUME NEW x \in DOMAIN Input, NEW y \in DOMAIN Input, Cmp(x, y) = "INCLUDED"
    PROVE  Cpus(x) \subseteq Cpus(y)
<1>1. CASE Cpus(x) # {} /\ Cpus(y) # {}
    BY <1>1, CmpOfInput
<1>2. CASE ~(Cpus(x) # {} /\ Cpus(y) # {})
    <2>1. /\ NotEmpty(Input[x].nodeset) /\ NotEmpty(Input[y].nodeset)
          /\ Input[x].nodeset \subseteq Input[y].nodeset
        BY <1>2, CmpOfInput
    <2> QED BY <2>1, InputAssumption, Zenon DEF Cpus, NotEmpty
<1> QED BY <1>1, <1>2

(* Among objects with processors, containment is transitive, and what is   *)
(* in two objects that have nothing in common has nothing in common.       *)
LEMMA IncludedTrans ==
    ASSUME NEW x \in DOMAIN Input, NEW y \in DOMAIN Input, NEW z \in DOMAIN Input,
           Cpus(x) # {}, Cmp(x, y) = "INCLUDED", Cmp(y, z) = "INCLUDED"
    PROVE  Cmp(x, z) = "INCLUDED"
<1> DEFINE a == BackendObject(x)
           b == BackendObject(y)
           c == BackendObject(z)
<1>1. Cpus(x) \subseteq Cpus(y) /\ Cpus(y) \subseteq Cpus(z)
    BY IncludedCpus
<1>2. Cpus(y) # {} /\ Cpus(z) # {}
    BY <1>1
<1>3. Plain(a) /\ Plain(b) /\ Plain(c)
    BY BackendSame, SamePlain
<1>4. type_cmp(a, b) = "DEEPER" /\ type_cmp(b, c) = "DEEPER" => type_cmp(a, c) = "DEEPER"
    BY <1>3, TypeCmpOrders
<1>5. /\ Cpus(x) = Cpus(y) => type_cmp(a, b) = "DEEPER"
      /\ Cpus(y) = Cpus(z) => type_cmp(b, c) = "DEEPER"
    BY <1>2, CmpOfInput
<1>6. Cpus(x) = Cpus(z) => type_cmp(a, c) = "DEEPER"
    BY <1>1, <1>4, <1>5
<1> HIDE DEF a, b, c
<1> QED BY <1>1, <1>2, <1>6, CmpOfInput DEF a, c

(* Objects with processors in two objects that are apart are apart.        *)
LEMMA ApartBelow ==
    ASSUME NEW x \in DOMAIN Input, NEW y \in DOMAIN Input,
           NEW a \in DOMAIN Input, NEW b \in DOMAIN Input,
           Cpus(x) # {}, Cpus(y) # {}, Cmp(a, b) = "DIFFERENT",
           x = a \/ Cmp(x, a) = "INCLUDED", y = b \/ Cmp(y, b) = "INCLUDED"
    PROVE  Cmp(x, y) = "DIFFERENT"
<1>1. Cpus(x) \subseteq Cpus(a) /\ Cpus(y) \subseteq Cpus(b)
    BY IncludedCpus
<1>2. Cpus(a) \cap Cpus(b) = {}
    BY <1>1, CmpOfInput
<1>3. Cpus(x) \cap Cpus(y) = {}
    BY <1>1, <1>2
<1> QED BY <1>3, CmpOfInput

-----------------------------------------------------------------------------
(* The inductive invariant.  T are the objects in the tree, K their lists  *)
(* of children, U the objects that are still to come.                      *)

CpusOf == [x \in Id |-> IF x \in DOMAIN Input THEN Cpus(x) ELSE {}]

Linked(T, K) ==
    /\ Root \in T /\ T \subseteq Id /\ T \ {Root} \subseteq DOMAIN Input
    /\ K \in [Id -> Seq(Id)]
    /\ \A p \in Id : ToSet(K[p]) \subseteq T \ {Root} /\ Distinct(K[p])
    /\ \A p \in Id \ T : ToSet(K[p]) = {}
    /\ \A x \in T \ {Root} : \E p \in T : x \in ToSet(K[p])
Contained(T, K) == \A p \in T \ {Root} : \A c \in ToSet(K[p]) : Cmp(c, p) = "INCLUDED"
Apart(T, K) == \A p \in T : \A c, d \in ToSet(K[p]) : c # d => Cmp(c, d) = "DIFFERENT"
Ordered(T, K) == \A p \in Id : Sorted(K[p], CpusOf)

(* No object is below itself.                                              *)
IsRank(rank, K) ==
    /\ rank \in [Id -> Nat]
    /\ \A p \in Id : rank[p] <= rank[Root] /\ \A c \in ToSet(K[p]) : rank[c] < rank[p]
Ranked(K) == \E rank : IsRank(rank, K)

Cause(x, T) ==
    \/ \E y \in T \ {Root} : Cmp(x, y) \in {"EQUAL", "INTERSECTS"}
    \/ \E y, z \in T \ {Root} :
          Cmp(x, y) = "INCLUDED" /\ Cmp(x, z) = "INCLUDED" /\ Cmp(y, z) = "DIFFERENT"
Refused(T, U) == \A x \in DOMAIN Input \ (U \cup T) : Cause(x, T)

Shape(T, K, U) ==
    /\ Linked(T, K) /\ Contained(T, K) /\ Apart(T, K) /\ Ordered(T, K) /\ Ranked(K)
    /\ Refused(T, U)

(* The cpusets by which lists of children are sorted.                      *)
LEMMA CpusOfType == CpusOf \in [Id -> SUBSET Nat]
BY CpusAre DEF CpusOf

(* An object that is refused has a cause.                                  *)
LEMMA RefusedShape ==
    ASSUME NEW T, NEW K, NEW U, NEW x, Shape(T, K, U), Cause(x, T)
    PROVE  Shape(T, K, U \ {x})
BY DEF Shape, Refused

(* An object that is placed.                                               *)
LEMMA PlacedShape ==
    ASSUME NEW T, NEW K, NEW U, Shape(T, K, U), NEW x \in DOMAIN Input, x \notin T,
           NEW cur \in T, cur = Root \/ Cmp(x, cur) = "INCLUDED",
           \A c \in ToSet(K[cur]) : Cmp(x, c) \in {"CONTAINS", "DIFFERENT"},
           NEW inside, inside = {c \in ToSet(K[cur]) : Cmp(x, c) = "CONTAINS"},
           NEW outside, outside = Among(K[cur], ToSet(K[cur]) \ inside),
           NEW pos \in 1..(Len(outside) + 1),
           \A i \in DOMAIN outside : i < pos <=> ~FirstBefore(CpusOf[x], CpusOf[outside[i]])
    PROVE  Shape(T \cup {x}, [K EXCEPT ![x] = Among(K[cur], inside),
                                       ![cur] = InsertAt(outside, pos, x)], U \ {x})
<1> DEFINE inn == Among(K[cur], inside)
           out == InsertAt(outside, pos, x)
           L == [K EXCEPT ![x] = inn, ![cur] = out]
           S == T \cup {x}
           V == U \ {x}
<1>0. /\ Root \in T /\ T \subseteq Id /\ T \ {Root} \subseteq DOMAIN Input
      /\ K \in [Id -> Seq(Id)]
      /\ \A p \in Id : ToSet(K[p]) \subseteq T \ {Root} /\ Distinct(K[p])
      /\ \A p \in Id \ T : ToSet(K[p]) = {}
      /\ \A y \in T \ {Root} : \E p \in T : y \in ToSet(K[p])
    BY DEF Shape, Linked
<1>1. x \in Id /\ x # Root /\ cur \in Id /\ x # cur
    BY <1>0, InputAssumption
<1>2. K[cur] \in Seq(Id) /\ Distinct(K[cur]) /\ Sorted(K[cur], CpusOf)
    BY <1>0, <1>1 DEF Shape, Ordered
<1>3. /\ inn \in Seq(Id) /\ ToSet(inn) = inside
      /\ Distinct(inn) /\ Sorted(inn, CpusOf)
    <2>1. inn \in Seq(Id) /\ ToSet(inn) = ToSet(K[cur]) \cap inside
        BY <1>2, AmongIs
    <2>2. Distinct(inn) /\ Sorted(inn, CpusOf)
        BY <1>2, AmongKeeps
    <2> QED BY <2>1, <2>2
<1>4. /\ outside \in Seq(Id) /\ ToSet(outside) = ToSet(K[cur]) \ inside
      /\ Distinct(outside) /\ Sorted(outside, CpusOf)
    <2>1. outside \in Seq(Id) /\ ToSet(outside) = ToSet(K[cur]) \cap (ToSet(K[cur]) \ inside)
        BY <1>2, AmongIs
    <2>2. Distinct(outside) /\ Sorted(outside, CpusOf)
        BY <1>2, AmongKeeps
    <2> QED BY <2>1, <2>2
<1>5. x \notin ToSet(outside)
    BY <1>0, <1>1, <1>4
<1>6. /\ out \in Seq(Id) /\ ToSet(out) = (ToSet(K[cur]) \ inside) \cup {x}
      /\ Distinct(out) /\ Sorted(out, CpusOf)
    <2>1. out \in Seq(Id) /\ ToSet(out) = ToSet(outside) \cup {x}
        <3>1. \A s \in Seq(Id) : \A p \in 1..(Len(s) + 1) :
                  InsertAt(s, p, x) \in Seq(Id) /\ ToSet(InsertAt(s, p, x)) = ToSet(s) \cup {x}
            BY <1>1, InsertAtIs
        <3> QED BY <1>4, <3>1, Zenon
    <2>2. Distinct(out) /\ Sorted(out, CpusOf)
        BY <1>1, <1>4, <1>5, CpusOfType, InsertSorted
    <2> QED BY <1>4, <2>1, <2>2
<1> HIDE DEF inn, out
<1>7. /\ L \in [Id -> Seq(Id)] /\ L[x] = inn /\ L[cur] = out
      /\ \A p \in Id : p # x /\ p # cur => L[p] = K[p]
    BY <1>0, <1>1, <1>3, <1>6
<1> HIDE DEF L
<1>8. inside \subseteq ToSet(K[cur]) /\ ToSet(K[cur]) \subseteq T \ {Root}
    BY <1>0, <1>1
<1>9. Linked(S, L)
    <2>1. Root \in S /\ S \subseteq Id /\ S \ {Root} \subseteq DOMAIN Input
        BY <1>0, <1>1
    <2>2. ASSUME NEW p \in Id
          PROVE  ToSet(L[p]) \subseteq S \ {Root} /\ Distinct(L[p])
        <3>1. CASE p = x
            BY <1>3, <1>7, <1>8, <3>1
        <3>2. CASE p = cur
            BY <1>1, <1>6, <1>7, <1>8, <3>2
        <3>3. CASE p # x /\ p # cur
            BY <1>0, <1>7, <3>3
        <3> QED BY <3>1, <3>2, <3>3
    <2>3. ASSUME NEW p \in Id \ S
          PROVE  ToSet(L[p]) = {}
        BY <1>0, <1>7
    <2>4. ASSUME NEW y \in S \ {Root}
          PROVE  \E p \in S : y \in ToSet(L[p])
        <3>1. CASE y = x
            BY <1>6, <1>7, <3>1
        <3>2. CASE y # x
            <4>1. PICK p \in T : y \in ToSet(K[p])
                BY <1>0, <3>2
            <4>2. CASE p # cur
                BY <1>0, <1>7, <4>1, <4>2
            <4>3. CASE p = cur /\ y \in inside
                BY <1>3, <1>7, <4>3
            <4>4. CASE p = cur /\ y \notin inside
                BY <1>6, <1>7, <4>1, <4>4
            <4> QED BY <4>2, <4>3, <4>4
        <3> QED BY <3>1, <3>2
    <2> QED BY <1>7, <2>1, <2>2, <2>3, <2>4 DEF Linked
<1>10. Contained(S, L)
    <2> SUFFICES ASSUME NEW p \in S \ {Root}, NEW c \in ToSet(L[p])
                 PROVE  Cmp(c, p) = "INCLUDED"
        BY DEF Contained
    <2>0. \A q \in T \ {Root} : \A d \in ToSet(K[q]) : Cmp(d, q) = "INCLUDED"
        BY DEF Shape, Contained
    <2>1. CASE p = x
        <3>1. c \in inside
            BY <1>3, <1>7, <2>1
        <3>2. Cmp(x, c) = "CONTAINS" /\ c \in DOMAIN Input
            BY <1>0, <1>8, <3>1
        <3> QED BY <2>1, <3>2, CmpValues
    <2>2. CASE p = cur /\ c = x
        BY <2>2
    <2>3. CASE p = cur /\ c # x
        <3>1. c \in ToSet(K[cur])
            BY <1>6, <1>7, <2>3
        <3> QED BY <2>0, <2>3, <3>1
    <2>4. CASE p # x /\ p # cur
        BY <1>0, <1>7, <2>0, <2>4
    <2> QED BY <2>1, <2>2, <2>3, <2>4
<1>11. Apart(S, L)
    <2> SUFFICES ASSUME NEW p \in S, NEW c \in ToSet(L[p]), NEW d \in ToSet(L[p]), c # d
                 PROVE  Cmp(c, d) = "DIFFERENT"
        BY DEF Apart
    <2>0. \A q \in T : \A e, f \in ToSet(K[q]) : e # f => Cmp(e, f) = "DIFFERENT"
        BY DEF Shape, Apart
    <2>1. CASE p = x
        <3>1. c \in ToSet(K[cur]) /\ d \in ToSet(K[cur])
            BY <1>3, <1>7, <1>8, <2>1
        <3> QED BY <2>0, <3>1
    <2>2. CASE p = cur
        <3>1. /\ c = x \/ (c \in ToSet(K[cur]) /\ c \notin inside)
              /\ d = x \/ (d \in ToSet(K[cur]) /\ d \notin inside)
            BY <1>6, <1>7, <2>2
        <3>2. \A e \in ToSet(K[cur]) \ inside :
                  e \in DOMAIN Input /\ Cmp(x, e) = "DIFFERENT" /\ Cmp(e, x) = "DIFFERENT"
            <4> SUFFICES ASSUME NEW e \in ToSet(K[cur]) \ inside
                         PROVE  /\ e \in DOMAIN Input
                                /\ Cmp(x, e) = "DIFFERENT" /\ Cmp(e, x) = "DIFFERENT"
                OBVIOUS
            <4>1. e \in DOMAIN Input
                BY <1>0, <1>8
            <4>2. Cmp(x, e) = "DIFFERENT"
                OBVIOUS
            <4> QED BY <4>1, <4>2, CmpValues
        <3> QED BY <2>0, <3>1, <3>2
    <2>3. CASE p # x /\ p # cur
        BY <1>0, <1>7, <2>0, <2>3
    <2> QED BY <2>1, <2>2, <2>3
<1>12. Ordered(S, L)
    <2> SUFFICES ASSUME NEW p \in Id
                 PROVE  Sorted(L[p], CpusOf)
        BY DEF Ordered
    <2>1. \A q \in Id : Sorted(K[q], CpusOf)
        BY DEF Shape, Ordered
    <2> QED BY <1>3, <1>6, <1>7, <2>1
<1>13. Ranked(L)
    <2>1. PICK rank : IsRank(rank, K)
        BY DEF Shape, Ranked
    <2> DEFINE more == [p \in Id |-> IF p = x THEN 2 * rank[cur] ELSE 2 * rank[p] + 1]
    <2>2. rank \in [Id -> Nat]
        BY <2>1 DEF IsRank
    <2>3. more \in [Id -> Nat]
        BY <1>1, <2>2
    <2>4. \A p \in Id : rank[p] <= rank[Root]
        BY <2>1 DEF IsRank
    <2>5. \A p \in Id : \A c \in ToSet(K[p]) : c \in Id /\ c # x /\ rank[c] < rank[p]
        BY <1>0, <2>1 DEF IsRank
    <2>6. Root \in Id
        BY <1>0
    <2>7. ASSUME NEW p \in Id
          PROVE  more[p] <= more[Root]
        BY <1>1, <2>2, <2>4, <2>6
    <2>8. ASSUME NEW p \in Id, NEW c \in ToSet(L[p])
          PROVE  more[c] < more[p]
        <3>1. CASE p = x
            <4>1. c \in ToSet(K[cur])
                BY <1>3, <1>7, <1>8, <3>1
            <4>2. c \in Id /\ c # x /\ rank[c] < rank[cur]
                BY <1>1, <2>5, <4>1
            <4> QED BY <1>1, <2>2, <3>1, <4>2
        <3>2. CASE p = cur /\ c = x
            BY <1>1, <2>2, <3>2
        <3>3. CASE p = cur /\ c # x
            <4>1. c \in ToSet(K[cur])
                BY <1>6, <1>7, <3>3
            <4>2. c \in Id /\ c # x /\ rank[c] < rank[cur]
                BY <1>1, <2>5, <4>1
            <4> QED BY <1>1, <2>2, <3>3, <4>2
        <3>4. CASE p # x /\ p # cur
            <4>1. c \in Id /\ c # x /\ rank[c] < rank[p]
                BY <1>7, <2>5, <3>4
            <4> QED BY <1>1, <2>2, <3>4, <4>1
        <3> QED BY <3>1, <3>2, <3>3, <3>4
    <2> HIDE DEF more
    <2>9. IsRank(more, L)
        BY <2>3, <2>7, <2>8 DEF IsRank
    <2> QED BY <2>9 DEF Ranked
<1>14. Refused(S, V)
    BY DEF Shape, Refused, Cause
<1> QED BY <1>9, <1>10, <1>11, <1>12, <1>13, <1>14 DEF Shape, L, inn, out

-----------------------------------------------------------------------------
(* Insertion into a tree.                                                  *)

TreeType == [root : {Root}, obj : [Id -> Object \cup {NULL}], kids : [Id -> Seq(Id)]]

Objects(t) ==
    /\ t \in TreeType
    /\ t.obj[Root] \in Object /\ t.obj[Root].cpuset = AllCpus
    /\ t.obj[Root].complete_cpuset \in Cpusets /\ t.obj[Root].complete_nodeset \in Nodesets
    /\ \A x \in InTree(t) \ {Root} : Same(t.obj[x], x)

TInv(t, U) == Objects(t) /\ Shape(InTree(t), t.kids, U)

(* A tree is the record of its root, objects and lists.                    *)
LEMMA TreeFields ==
    ASSUME NEW t, Objects(t)
    PROVE  /\ t.root = Root /\ Root \in InTree(t) /\ InTree(t) \subseteq Id
           /\ t.obj \in [Id -> Object \cup {NULL}] /\ t.kids \in [Id -> Seq(Id)]
           /\ t = [root |-> Root, obj |-> t.obj, kids |-> t.kids]
           /\ \A x \in InTree(t) : t.obj[x] \in Object
<1>1. t.root = Root /\ t.obj \in [Id -> Object \cup {NULL}] /\ t.kids \in [Id -> Seq(Id)]
    BY DEF Objects, TreeType
<1>2. t = [root |-> Root, obj |-> t.obj, kids |-> t.kids]
    BY DEF Objects, TreeType
<1>3. Root \in Id /\ t.obj[Root] # NULL
    BY InputAssumption, NullAssumption DEF Objects
<1> QED BY <1>1, <1>2, <1>3 DEF InTree

(* Objects in the tree compare as they did when the backend gave them.     *)
LEMMA CmpInTree ==
    ASSUME NEW t, NEW U, TInv(t, U)
    PROVE  /\ InTree(t) \ {Root} \subseteq DOMAIN Input
           /\ \A y, z \in InTree(t) \ {Root} : obj_cmp(t.obj[y], t.obj[z]) = Cmp(y, z)
           /\ \A x \in DOMAIN Input : \A z \in InTree(t) \ {Root} :
                 obj_cmp(BackendObject(x), t.obj[z]) = Cmp(x, z)
           /\ \A y \in InTree(t) \ {Root} : t.obj[y].cpuset = Cpus(y) /\ CpusOf[y] = Cpus(y)
<1>1. InTree(t) \ {Root} \subseteq DOMAIN Input /\ InTree(t) \subseteq Id
    BY DEF TInv, Shape, Linked
<1>2. \A y \in InTree(t) \ {Root} : Same(t.obj[y], y)
    BY DEF TInv, Objects
<1>3. \A y, z \in InTree(t) \ {Root} : obj_cmp(t.obj[y], t.obj[z]) = Cmp(y, z)
    BY <1>1, <1>2, SameCmp
<1>4. \A x \in DOMAIN Input : \A z \in InTree(t) \ {Root} :
                 obj_cmp(BackendObject(x), t.obj[z]) = Cmp(x, z)
    BY <1>1, <1>2, SameCmp, BackendSame
<1>5. \A y \in InTree(t) \ {Root} : t.obj[y].cpuset = Cpus(y) /\ CpusOf[y] = Cpus(y)
    BY <1>1, <1>2 DEF Same, Cpus, CpusOf
<1> QED BY <1>1, <1>3, <1>4, <1>5

(* What the scan of the children of an object finds.                       *)
LEMMA ScanFinds ==
    ASSUME NEW t, NEW U, TInv(t, U), NEW x \in DOMAIN Input, NEW cur \in InTree(t)
    PROVE  LET o == BackendObject(x)
           IN  /\ Containers(t, cur, o) = {c \in Kids(t, cur) : Cmp(x, c) = "INCLUDED"}
               /\ Kids(t, cur) \subseteq InTree(t) \ {Root}
               /\ Stops(t, cur, o) = {} /\ Containers(t, cur, o) = {} =>
                     \A c \in Kids(t, cur) : Cmp(x, c) \in {"CONTAINS", "DIFFERENT"}
               /\ Stops(t, cur, o) # {} => Cause(x, InTree(t))
<1> DEFINE o == BackendObject(x)
           K == t.kids[cur]
           T == InTree(t)
<1>0. cur \in Id /\ K \in Seq(Id) /\ Distinct(K) /\ ToSet(K) \subseteq T \ {Root}
    BY DEF TInv, Shape, Linked
<1>1. \A i \in DOMAIN K : K[i] \in ToSet(K)
    BY DEF ToSet
<1>2. \A i \in DOMAIN K : obj_cmp(o, t.obj[K[i]]) = Cmp(x, K[i]) /\ K[i] \in T \ {Root}
    BY <1>0, <1>1, CmpInTree
<1>3. Containers(t, cur, o) = {c \in Kids(t, cur) : Cmp(x, c) = "INCLUDED"}
    BY <1>0, CmpInTree DEF Containers, Kids
<1>4. Stops(t, cur, o) =
          {i \in DOMAIN K : \/ Cmp(x, K[i]) \in {"EQUAL", "INTERSECTS"}
                            \/ /\ Cmp(x, K[i]) = "INCLUDED"
                               /\ \E j \in 1..(i - 1) : Cmp(x, K[j]) = "INCLUDED"}
    <2>1. \A i \in DOMAIN K : \A j \in 1..(i - 1) : j \in DOMAIN K
        BY <1>0
    <2> QED BY <1>2, <2>1 DEF Stops
<1>5. Stops(t, cur, o) = {} /\ Containers(t, cur, o) = {} =>
          \A c \in Kids(t, cur) : Cmp(x, c) \in {"CONTAINS", "DIFFERENT"}
    <2> SUFFICES ASSUME Stops(t, cur, o) = {}, Containers(t, cur, o) = {},
                        NEW c \in Kids(t, cur)
                 PROVE  Cmp(x, c) \in {"CONTAINS", "DIFFERENT"}
        OBVIOUS
    <2>1. PICK i \in DOMAIN K : c = K[i]
        BY DEF Kids, ToSet
    <2>2. Cmp(x, c) \notin {"EQUAL", "INTERSECTS"}
        BY <1>4, <2>1
    <2>3. Cmp(x, c) # "INCLUDED"
        BY <1>3
    <2>4. c \in DOMAIN Input
        BY <1>2, <2>1, CmpInTree
    <2> QED BY <2>2, <2>3, <2>4, CmpValues
<1>6. Stops(t, cur, o) # {} => Cause(x, T)
    <2> SUFFICES ASSUME Stops(t, cur, o) # {}
                 PROVE  Cause(x, T)
        OBVIOUS
    <2>1. PICK i \in DOMAIN K :
              \/ Cmp(x, K[i]) \in {"EQUAL", "INTERSECTS"}
              \/ /\ Cmp(x, K[i]) = "INCLUDED"
                 /\ \E j \in 1..(i - 1) : Cmp(x, K[j]) = "INCLUDED"
        BY <1>4
    <2>2. CASE Cmp(x, K[i]) \in {"EQUAL", "INTERSECTS"}
        BY <1>2, <2>2 DEF Cause
    <2>3. CASE Cmp(x, K[i]) = "INCLUDED" /\ \E j \in 1..(i - 1) : Cmp(x, K[j]) = "INCLUDED"
        <3>1. PICK j \in 1..(i - 1) : Cmp(x, K[j]) = "INCLUDED"
            BY <2>3
        <3>2. j \in DOMAIN K /\ j < i
            BY <1>0, <3>1
        <3>3. K[j] # K[i] /\ K[j] \in ToSet(K) /\ K[i] \in ToSet(K)
            BY <1>0, <1>1, <3>2 DEF Distinct
        <3>4. Cmp(K[j], K[i]) = "DIFFERENT"
            BY <3>3 DEF TInv, Shape, Apart
        <3> QED BY <1>2, <2>3, <3>1, <3>2, <3>4 DEF Cause
    <2> QED BY <2>1, <2>2, <2>3
<1> QED BY <1>0, <1>3, <1>5, <1>6 DEF Kids

(* An object that contains another has all its processors.                 *)
LEMMA NeverTooDeep ==
    ASSUME NEW t, NEW U, TInv(t, U), NEW x \in DOMAIN Input, NEW cur \in InTree(t),
           cur = Root \/ Cmp(x, cur) = "INCLUDED"
    PROVE  ~TooDeep(t, cur, BackendObject(x))
<1>1. BackendObject(x).cpuset = Cpus(x)
    BY BackendSame DEF Same, Cpus
<1>2. CASE cur = Root
    <2>1. t.obj[Root].cpuset = AllCpus
        BY DEF TInv, Objects
    <2> QED BY <1>1, <1>2, <2>1, CpusAre DEF TooDeep
<1>3. CASE cur # Root
    <2>1. cur \in DOMAIN Input /\ t.obj[cur].cpuset = Cpus(cur)
        BY <1>3, CmpInTree
    <2>2. Cpus(x) \subseteq Cpus(cur)
        BY <1>3, <2>1, IncludedCpus
    <2> QED BY <1>1, <2>1, <2>2 DEF TooDeep
<1> QED BY <1>2, <1>3

(* The recursion into the containers ends, because children rank lower.    *)
LEMMA WalkExists ==
    ASSUME NEW t, NEW U, TInv(t, U), NEW x \in DOMAIN Input, NEW o, o = BackendObject(x)
    PROVE  \E walk : /\ LastCur(t, o) = walk[t.root]
                     /\ \A cur \in Id :
                           walk[cur] = IF Recurses(t, cur, o)
                                       THEN walk[CHOOSE c \in Containers(t, cur, o) : TRUE]
                                       ELSE cur
<1> DEFINE next(cur) == CHOOSE c \in Containers(t, cur, o) : TRUE
           F(g, cur) == IF Recurses(t, cur, o) THEN g[next(cur)] ELSE cur
<1>1. PICK rank : IsRank(rank, t.kids)
    BY DEF TInv, Shape, Ranked
<1>2. rank \in [Id -> Nat] /\ \A p \in Id : rank[p] <= rank[Root]
    BY <1>1 DEF IsRank
<1>3. \A cur \in Id : Recurses(t, cur, o) => next(cur) \in Id /\ rank[next(cur)] < rank[cur]
    <2> SUFFICES ASSUME NEW cur \in Id, Recurses(t, cur, o)
                 PROVE  next(cur) \in Id /\ rank[next(cur)] < rank[cur]
        OBVIOUS
    <2>1. next(cur) \in Containers(t, cur, o)
        BY DEF Recurses
    <2>2. next(cur) \in ToSet(t.kids[cur])
        BY <2>1 DEF Containers, Kids
    <2> HIDE DEF next
    <2>3. next(cur) \in Id
        BY <2>2 DEF TInv, Shape, Linked
    <2> QED BY <1>1, <2>2, <2>3 DEF IsRank
<1> HIDE DEF next
<1> DEFINE Good(m) == \E g \in [Id -> Id] : \A cur \in Id : rank[cur] <= m => g[cur] = F(g, cur)
           Bad == {m \in Nat : ~Good(m)}
           k == Min(Bad)
<1>4. Good(rank[Root])
    <2>0. Root \in Id
        BY InputAssumption
    <2> HIDE DEF Good
    <2>1. SUFFICES ASSUME Bad # {} PROVE FALSE
        BY <1>2, <2>0
    <2>2. k \in Bad /\ \A m \in Bad : k <= m
        BY <2>1, LeastNat
    <2> HIDE DEF k
    <2>3. k \in Nat /\ ~Good(k)
        BY <2>2
    <2>4. \E g \in [Id -> Id] : \A cur \in Id : rank[cur] < k => g[cur] = F(g, cur)
        <3>1. CASE k = 0
            <4>1. [cur \in Id |-> cur] \in [Id -> Id]
                OBVIOUS
            <4>2. \A cur \in Id : ~(rank[cur] < k)
                BY <1>2, <3>1
            <4> QED BY <4>1, <4>2
        <3>2. CASE k # 0
            <4>1. k - 1 \in Nat /\ ~(k <= k - 1)
                BY <2>3, <3>2
            <4>2. Good(k - 1)
                BY <2>2, <4>1
            <4>3. \A cur \in Id : rank[cur] < k => rank[cur] <= k - 1
                BY <1>2, <2>3
            <4> QED BY <4>2, <4>3 DEF Good
        <3> QED BY <3>1, <3>2
    <2>5. PICK g \in [Id -> Id] : \A cur \in Id : rank[cur] < k => g[cur] = F(g, cur)
        BY <2>4
    <2> DEFINE h == [cur \in Id |-> IF rank[cur] < k THEN g[cur] ELSE F(g, cur)]
    <2>6. h \in [Id -> Id]
        BY <1>3, <2>5
    <2>7. \A cur \in Id : h[cur] = F(g, cur)
        BY <2>5
    <2>8. ASSUME NEW cur \in Id, rank[cur] <= k
          PROVE  h[cur] = F(h, cur)
        <3>1. CASE Recurses(t, cur, o)
            <4>1. next(cur) \in Id /\ rank[next(cur)] < k
                BY <1>2, <1>3, <2>3, <2>8, <3>1
            <4>2. h[next(cur)] = g[next(cur)]
                BY <4>1
            <4> QED BY <2>7, <3>1, <4>2
        <3>2. CASE ~Recurses(t, cur, o)
            BY <2>7, <3>2
        <3> QED BY <3>1, <3>2
    <2> HIDE DEF h
    <2> QED BY <2>3, <2>6, <2>8 DEF Good
<1>5. \E g : g = [cur \in Id |-> F(g, cur)]
    <2>1. PICK g \in [Id -> Id] : \A cur \in Id : rank[cur] <= rank[Root] => g[cur] = F(g, cur)
        BY <1>4
    <2>2. \A cur \in Id : g[cur] = F(g, cur)
        BY <1>2, <2>1
    <2> HIDE DEF F
    <2>3. g = [cur \in Id |-> F(g, cur)]
        BY <2>2
    <2> QED BY <2>3
<1> DEFINE walk == CHOOSE g : g = [cur \in Id |-> F(g, cur)]
<1>6. LastCur(t, o) = walk[t.root]
    BY Zenon DEF LastCur, next
<1>7. walk = [cur \in Id |-> F(walk, cur)]
    <2> HIDE DEF F
    <2> QED BY <1>5, Zenon
<1> HIDE DEF walk
<1>8. \A cur \in Id : walk[cur] = F(walk, cur)
    <2> HIDE DEF F
    <2> QED BY <1>7
<1> QED BY <1>6, <1>8, Zenon DEF next

(* It ends at an object that contains the new one, and goes no deeper.     *)
LEMMA WalkEnds ==
    ASSUME NEW t, NEW U, TInv(t, U), NEW x \in DOMAIN Input
    PROVE  LET o   == BackendObject(x)
               cur == LastCur(t, o)
           IN  /\ cur \in InTree(t) /\ (cur = Root \/ Cmp(x, cur) = "INCLUDED")
               /\ ~Recurses(t, cur, o)
<1> DEFINE o == BackendObject(x)
           next(cur) == CHOOSE c \in Containers(t, cur, o) : TRUE
           Fits(cur) == cur \in InTree(t) /\ (cur = Root \/ Cmp(x, cur) = "INCLUDED")
<1>1. PICK walk : /\ LastCur(t, o) = walk[t.root]
                  /\ \A cur \in Id :
                        walk[cur] = IF Recurses(t, cur, o) THEN walk[next(cur)] ELSE cur
    BY WalkExists
<1>2. PICK rank : IsRank(rank, t.kids)
    BY DEF TInv, Shape, Ranked
<1>3. \A cur \in InTree(t) : Recurses(t, cur, o) =>
          Fits(next(cur)) /\ rank[next(cur)] < rank[cur]
    <2> SUFFICES ASSUME NEW cur \in InTree(t), Recurses(t, cur, o)
                 PROVE  Fits(next(cur)) /\ rank[next(cur)] < rank[cur]
        OBVIOUS
    <2>1. next(cur) \in Containers(t, cur, o)
        BY DEF Recurses
    <2> HIDE DEF next, o
    <2>2. next(cur) \in Kids(t, cur) /\ Cmp(x, next(cur)) = "INCLUDED"
        BY <2>1, ScanFinds DEF o
    <2>3. next(cur) \in InTree(t) \ {Root}
        BY <2>2, ScanFinds
    <2>4. cur \in Id
        BY DEF InTree
    <2> QED BY <1>2, <2>2, <2>3, <2>4 DEF IsRank, Kids
<1> HIDE DEF next, o
<1> DEFINE Is(cur) == Fits(walk[cur]) /\ ~Recurses(t, walk[cur], o)
           Wrong == {cur \in InTree(t) : Fits(cur) /\ ~Is(cur)}
           Bad == {rank[cur] : cur \in Wrong}
           k == Min(Bad)
<1>4. Wrong = {}
    <2>1. SUFFICES ASSUME Wrong # {} PROVE FALSE
        OBVIOUS
    <2>2. Bad \subseteq Nat /\ Bad # {}
        BY <1>2, <2>1 DEF IsRank, InTree
    <2>3. k \in Bad /\ \A m \in Bad : k <= m
        BY <2>2, LeastNat
    <2>4. PICK cur \in Wrong : rank[cur] = k
        BY <2>3
    <2>5. cur \in InTree(t) /\ Fits(cur) /\ ~Is(cur) /\ cur \in Id
        BY DEF InTree
    <2> HIDE DEF k
    <2>6. CASE ~Recurses(t, cur, o)
        <3>1. walk[cur] = cur
            BY <1>1, <2>5, <2>6
        <3> QED BY <2>5, <2>6, <3>1
    <2>7. CASE Recurses(t, cur, o)
        <3>1. walk[cur] = walk[next(cur)]
            BY <1>1, <2>5, <2>7
        <3>2. Fits(next(cur)) /\ rank[next(cur)] < rank[cur]
            BY <1>3, <2>5, <2>7
        <3>3. next(cur) \in Wrong
            BY <2>5, <3>1, <3>2
        <3>4. rank[next(cur)] \in Bad
            BY <3>3
        <3>5. k <= rank[next(cur)] /\ k \in Nat /\ rank[next(cur)] \in Nat
            BY <2>2, <2>3, <3>4
        <3> QED BY <2>4, <3>2, <3>5
    <2> QED BY <2>6, <2>7
<1>5. Fits(Root) /\ Root = t.root
    BY TreeFields DEF TInv
<1>6. Is(Root)
    <2> HIDE DEF Is, Fits
    <2>1. Root \in InTree(t)
        BY <1>5 DEF Fits
    <2> QED BY <1>4, <1>5, <2>1
<1> QED BY <1>1, <1>5, <1>6 DEF o

(* Fields by which nothing is compared may change.                         *)
LEMMA ChangedObject ==
    ASSUME NEW t, NEW U, TInv(t, U), NEW y \in InTree(t), NEW o \in Object,
           IF y = Root THEN /\ o.cpuset = AllCpus
                            /\ o.complete_cpuset \in Cpusets /\ o.complete_nodeset \in Nodesets
           ELSE Same(o, y)
    PROVE  LET u == [t EXCEPT !.obj[y] = o]
           IN  TInv(u, U) /\ InTree(u) = InTree(t)
<1> DEFINE u == [t EXCEPT !.obj[y] = o]
<1>0. Objects(t)
    BY DEF TInv
<1>1. /\ t.obj \in [Id -> Object \cup {NULL}] /\ t.kids \in [Id -> Seq(Id)]
      /\ t = [root |-> Root, obj |-> t.obj, kids |-> t.kids] /\ y \in Id /\ Root \in Id
    BY <1>0, TreeFields, InputAssumption DEF InTree
<1>2. t \in TreeType
    BY <1>0 DEF Objects
<1>3. u.obj = [t.obj EXCEPT ![y] = o] /\ u.kids = t.kids /\ u.root = Root
    BY <1>2 DEF TreeType
<1>4. u.obj \in [Id -> Object \cup {NULL}] /\ u \in TreeType
    <2>1. [t.obj EXCEPT ![y] = o] \in [Id -> Object \cup {NULL}]
        BY <1>1
    <2> QED BY <1>2, <1>3, <2>1 DEF TreeType
<1> HIDE DEF u
<1>5. u.obj[y] = o /\ \A z \in Id : z # y => u.obj[z] = t.obj[z]
    BY <1>1, <1>3
<1>6. InTree(u) = InTree(t)
    BY <1>5, NullAssumption DEF InTree
<1>7. /\ u.obj[Root] \in Object /\ u.obj[Root].cpuset = AllCpus
      /\ u.obj[Root].complete_cpuset \in Cpusets /\ u.obj[Root].complete_nodeset \in Nodesets
    <2>1. CASE y = Root
        BY <1>5, <2>1
    <2>2. CASE y # Root
        <3>1. u.obj[Root] = t.obj[Root]
            BY <1>1, <1>5, <2>2
        <3> QED BY <1>0, <3>1 DEF Objects
    <2> QED BY <2>1, <2>2
<1>8. ASSUME NEW z \in InTree(u) \ {Root}
      PROVE  Same(u.obj[z], z)
    <2>0. z \in InTree(t) \ {Root} /\ z \in Id
        BY <1>6 DEF InTree
    <2>1. CASE z = y
        BY <1>5, <2>0, <2>1
    <2>2. CASE z # y
        <3>1. u.obj[z] = t.obj[z]
            BY <1>5, <2>0, <2>2
        <3> QED BY <1>0, <2>0, <3>1 DEF Objects
    <2> QED BY <2>1, <2>2
<1>9. Objects(u)
    BY <1>4, <1>7, <1>8 DEF Objects
<1>10. Shape(InTree(u), u.kids, U)
    BY <1>3, <1>6 DEF TInv
<1> QED BY <1>6, <1>9, <1>10 DEF TInv, u

(* The objects of the backend.                                             *)
LEMMA BackendType ==
    ASSUME NEW x \in DOMAIN Input
    PROVE  BackendObject(x) \in Object
<1>1. 0..(NbCpus - 1) \subseteq AllCpus /\ 0..(NbNodes - 1) \subseteq AllNodes
    BY IndexAssumption DEF AllCpus, AllNodes
<1>2. /\ Input[x].type \in Types /\ Input[x].level \in Nat
      /\ Input[x].os_index \in Nat \cup {-1}
    BY InputAssumption
<1>3. Input[x].cpuset \in Cpusets /\ Input[x].nodeset \in Nodesets \cup {NULL}
    BY <1>1, InputAssumption DEF Cpusets, Nodesets
<1> DEFINE s == setup_object(Input[x].type, Input[x].os_index)
<1>4. s \in Object
    BY <1>2 DEF setup_object, Object
<1> HIDE DEF s
<1>5. [s EXCEPT !.level = Input[x].level, !.cpuset = Input[x].cpuset,
                !.nodeset = Input[x].nodeset] \in Object
    BY <1>2, <1>3, <1>4 DEF Object
<1> QED BY <1>5 DEF BackendObject, s

(* A child that is described again.                                        *)
LEMMA MergedType ==
    ASSUME NEW c \in Object, NEW o \in Object, NEW y, Same(c, y)
    PROVE  Merged(c, o) \in Object /\ Same(Merged(c, o), y)
<1> DEFINE i == IF c.os_index = -1 THEN o.os_index ELSE c.os_index
           n == IF i = o.os_index /\ o.name # 0 THEN o.name ELSE c.name
           m == [c EXCEPT !.os_index = i, !.name = n]
<1>1. Merged(c, o) = m
    BY DEF Merged
<1>2. /\ c.os_index \in Nat \cup {-1} /\ o.os_index \in Nat \cup {-1}
      /\ c.name \in Nat /\ o.name \in Nat
    BY DEF Object
<1>3. i \in Nat \cup {-1} /\ n \in Nat
    BY <1>2
<1> HIDE DEF i, n
<1>4. m \in Object /\ m.type = c.type /\ m.level = c.level /\ m.cpuset = c.cpuset
      /\ m.nodeset = c.nodeset
    BY <1>3, ZenonT(40) DEF Object
<1> QED BY <1>1, <1>4 DEF Same

(* The sets of an object go to the top.                                    *)
LEMMA RootGrows ==
    ASSUME NEW t, NEW U, TInv(t, U), NEW o \in Object, Has(o.cpuset)
    PROVE  LET u == [t EXCEPT
                        !.obj[t.root].complete_cpuset = @ \cup o.cpuset,
                        !.obj[t.root].complete_nodeset =
                            IF Has(o.nodeset) THEN @ \cup o.nodeset ELSE @]
           IN  TInv(u, U) /\ InTree(u) = InTree(t)
<1> DEFINE r == t.obj[Root]
           a == r.complete_cpuset \cup o.cpuset
           b == IF Has(o.nodeset) THEN r.complete_nodeset \cup o.nodeset
                ELSE r.complete_nodeset
           s == [r EXCEPT !.complete_cpuset = a, !.complete_nodeset = b]
<1>0. /\ Objects(t) /\ r \in Object /\ r.cpuset = AllCpus
      /\ r.complete_cpuset \in Cpusets /\ r.complete_nodeset \in Nodesets
    BY DEF TInv, Objects
<1>1. /\ t.obj \in [Id -> Object \cup {NULL}] /\ t.root = Root /\ Root \in InTree(t)
      /\ t = [root |-> Root, obj |-> t.obj, kids |-> t.kids] /\ Root \in Id
    BY <1>0, TreeFields, InputAssumption
<1>2. o.cpuset \in Cpusets /\ (Has(o.nodeset) => o.nodeset \in Nodesets)
    BY DEF Object, Has
<1>3. a \in Cpusets /\ b \in Nodesets
    BY <1>0, <1>2 DEF Cpusets, Nodesets
<1> HIDE DEF a, b
<1>4. s \in Object /\ s.cpuset = AllCpus /\ s.complete_cpuset = a /\ s.complete_nodeset = b
    BY <1>0, <1>3, ZenonT(40) DEF Object
<1>5. [t EXCEPT !.obj[t.root].complete_cpuset = @ \cup o.cpuset,
                !.obj[t.root].complete_nodeset =
                    IF Has(o.nodeset) THEN @ \cup o.nodeset ELSE @]
      = [t EXCEPT !.obj[Root] = s]
    BY <1>0, <1>1 DEF a, b, Object
<1> HIDE DEF s
<1>6. LET u == [t EXCEPT !.obj[Root] = s]
      IN  TInv(u, U) /\ InTree(u) = InTree(t)
    BY <1>1, <1>3, <1>4, ChangedObject
<1> QED BY <1>5, <1>6

(* Where the scan finds nothing against it, the object is placed.          *)
LEMMA PlacedTree ==
    ASSUME NEW t, NEW U, TInv(t, U), NEW x \in DOMAIN Input, x \notin InTree(t),
           NEW cur \in InTree(t), cur = Root \/ Cmp(x, cur) = "INCLUDED",
           \A c \in Kids(t, cur) : Cmp(x, c) \in {"CONTAINS", "DIFFERENT"}
    PROVE  LET u == Place(t, cur, x, BackendObject(x))
           IN  TInv(u, U \ {x}) /\ InTree(u) = InTree(t) \cup {x}
<1> DEFINE o       == BackendObject(x)
           T       == InTree(t)
           inside  == {c \in Kids(t, cur) : obj_cmp(o, t.obj[c]) = "CONTAINS"}
           outside == Among(t.kids[cur], Kids(t, cur) \ inside)
           after   == {i \in DOMAIN outside :
                          \/ ~Has(t.obj[outside[i]].cpuset)
                          \/ FirstBefore(o.cpuset, t.obj[outside[i]].cpuset)}
           pos     == IF after = {} THEN Len(outside) + 1 ELSE Min(after)
           inn     == Among(t.kids[cur], inside)
           out     == InsertAt(outside, pos, x)
           u       == [t EXCEPT !.obj[x] = o, !.kids[x] = inn, !.kids[cur] = out]
<1>0. Objects(t) /\ Shape(T, t.kids, U) /\ Linked(T, t.kids)
    BY DEF TInv, Shape
<1>1. /\ t.obj \in [Id -> Object \cup {NULL}] /\ t.kids \in [Id -> Seq(Id)]
      /\ cur \in Id /\ Root \in T /\ T \subseteq Id
    BY <1>0, TreeFields
<1>2. x \in Id /\ x # Root /\ x # cur
    BY InputAssumption
<1>3. Place(t, cur, x, o) = u
    BY Zenon DEF Place
<1>4. Kids(t, cur) = ToSet(t.kids[cur]) /\ Kids(t, cur) \subseteq T \ {Root}
    BY <1>0, <1>1 DEF Linked, Kids
<1>5. inside = {c \in ToSet(t.kids[cur]) : Cmp(x, c) = "CONTAINS"}
    BY <1>4, CmpInTree
<1>6. o \in Object /\ o.cpuset = Cpus(x) /\ Same(o, x) /\ CpusOf[x] = Cpus(x)
    BY <1>2, BackendType, BackendSame DEF Same, Cpus, CpusOf
<1> HIDE DEF inside, o
<1>7. outside \in Seq(Id) /\ ToSet(outside) \subseteq T \ {Root}
    BY <1>1, <1>4, AmongIs
<1>8. Sorted(outside, CpusOf)
    BY <1>0, <1>1, AmongKeeps DEF Shape, Ordered, Linked
<1>9. outside = Among(t.kids[cur], ToSet(t.kids[cur]) \ inside)
    BY <1>4
<1> HIDE DEF outside
<1>10. after = {i \in DOMAIN outside : FirstBefore(CpusOf[x], CpusOf[outside[i]])}
    <2>1. \A i \in DOMAIN outside : outside[i] \in T \ {Root}
        BY <1>7 DEF ToSet
    <2>2. \A i \in DOMAIN outside :
              /\ t.obj[outside[i]].cpuset = CpusOf[outside[i]]
              /\ Has(t.obj[outside[i]].cpuset)
        BY <2>1, CmpInTree, CpusAre
    <2> QED BY <1>6, <2>2
<1> HIDE DEF after
<1>11. /\ pos \in 1..(Len(outside) + 1)
       /\ \A i \in DOMAIN outside : i < pos <=> ~FirstBefore(CpusOf[x], CpusOf[outside[i]])
    <2>1. pos = IF after = {} THEN Len(outside) + 1 ELSE Min(after)
        OBVIOUS
    <2> HIDE DEF pos
    <2> QED BY <1>2, <1>7, <1>8, <1>10, <2>1, CpusOfType, FirstAfter, Zenon
<1> HIDE DEF pos
<1>12. Shape(T \cup {x}, [t.kids EXCEPT ![x] = inn, ![cur] = out], U \ {x})
    <2>1. \A c \in ToSet(t.kids[cur]) : Cmp(x, c) \in {"CONTAINS", "DIFFERENT"}
        BY <1>4
    <2> QED BY <1>0, <1>5, <1>9, <1>11, <2>1, PlacedShape, Zenon
<1>13. inn \in Seq(Id)
    BY <1>1, AmongIs
<1>14. out \in Seq(Id)
    <2>1. \A s \in Seq(Id) : \A p \in 1..(Len(s) + 1) : InsertAt(s, p, x) \in Seq(Id)
        BY <1>2, InsertAtIs
    <2> QED BY <1>7, <1>11, <2>1, Zenon
<1> HIDE DEF inn, out
<1>15. t \in TreeType
    BY <1>0 DEF Objects
<1>16. /\ u.obj = [t.obj EXCEPT ![x] = o] /\ u.root = Root
       /\ u.kids = [t.kids EXCEPT ![x] = inn, ![cur] = out]
    BY <1>15 DEF TreeType
<1>17. u \in TreeType
    <2>1. [t.obj EXCEPT ![x] = o] \in [Id -> Object \cup {NULL}]
        BY <1>1, <1>6
    <2>2. [t.kids EXCEPT ![x] = inn, ![cur] = out] \in [Id -> Seq(Id)]
        BY <1>1, <1>13, <1>14
    <2> QED BY <1>15, <2>1, <2>2 DEF TreeType
<1> HIDE DEF u
<1>18. u.obj[x] = o /\ \A z \in Id : z # x => u.obj[z] = t.obj[z]
    BY <1>1, <1>2, <1>16
<1>19. InTree(u) = T \cup {x}
    BY <1>2, <1>6, <1>18, NullAssumption DEF InTree
<1>20. Objects(u)
    <2>1. u.obj[Root] = t.obj[Root]
        BY <1>1, <1>2, <1>18
    <2>2. ASSUME NEW z \in InTree(u) \ {Root}
          PROVE  Same(u.obj[z], z)
        <3>1. CASE z = x
            BY <1>6, <1>18, <3>1
        <3>2. CASE z # x
            <4>1. z \in T \ {Root} /\ z \in Id
                BY <1>1, <1>19, <3>2
            <4>2. u.obj[z] = t.obj[z]
                BY <1>18, <3>2, <4>1
            <4> QED BY <1>0, <4>1, <4>2 DEF Objects
        <3> QED BY <3>1, <3>2
    <2> QED BY <1>0, <1>17, <2>1, <2>2 DEF Objects
<1>21. TInv(u, U \ {x})
    BY <1>12, <1>16, <1>19, <1>20 DEF TInv
<1> QED BY <1>3, <1>19, <1>21 DEF o

(* hwloc__insert_object_by_cpuset.                                         *)
LEMMA InsertKeeps ==
    ASSUME NEW t, NEW U, TInv(t, U), NEW x \in U, U \subseteq DOMAIN Input,
           x \notin InTree(t)
    PROVE  LET u == insert_object_by_cpuset(t, x, BackendObject(x))
           IN  TInv(u, U \ {x}) /\ InTree(u) \subseteq InTree(t) \cup {x}
<1> DEFINE o == BackendObject(x)
           s == [t EXCEPT !.obj[t.root].complete_cpuset = @ \cup o.cpuset,
                          !.obj[t.root].complete_nodeset =
                              IF Has(o.nodeset) THEN @ \cup o.nodeset ELSE @]
           cur == LastCur(s, o)
           eq == MergeWith(s, cur, o)
           u == insert_object_by_cpuset(t, x, o)
<1>1. u = IF Places(s, cur, o) THEN Place(s, cur, x, o)
          ELSE IF eq # NULL THEN [s EXCEPT !.obj[eq] = Merged(@, o)] ELSE s
    BY Zenon DEF insert_object_by_cpuset
<1>2. o \in Object /\ Has(o.cpuset)
    BY BackendType, BackendSame, CpusAre DEF Same, Cpus
<1>3. TInv(s, U) /\ InTree(s) = InTree(t)
    BY <1>2, RootGrows
<1> HIDE DEF s
<1>4. /\ cur \in InTree(s) /\ (cur = Root \/ Cmp(x, cur) = "INCLUDED")
      /\ ~Recurses(s, cur, o)
    BY <1>3, WalkEnds
<1> HIDE DEF cur
<1>5. ~TooDeep(s, cur, o)
    BY <1>3, <1>4, NeverTooDeep
<1>6. CASE Stops(s, cur, o) = {}
    <2>1. Containers(s, cur, o) = {}
        BY <1>4, <1>5, <1>6 DEF Recurses
    <2>2. \A c \in Kids(s, cur) : Cmp(x, c) \in {"CONTAINS", "DIFFERENT"}
        BY <1>3, <1>4, <1>6, <2>1, ScanFinds
    <2>3. u = Place(s, cur, x, o)
        BY <1>1, <1>5, <1>6 DEF Places
    <2> HIDE DEF u
    <2> QED BY <1>3, <1>4, <2>2, <2>3, PlacedTree DEF u
<1>7. CASE Stops(s, cur, o) # {}
    <2>1. Cause(x, InTree(s))
        BY <1>3, <1>4, <1>7, ScanFinds
    <2>2. TInv(s, U \ {x})
        BY <1>3, <2>1, RefusedShape DEF TInv
    <2>3. u = IF eq # NULL THEN [s EXCEPT !.obj[eq] = Merged(@, o)] ELSE s
        BY <1>1, <1>7 DEF Places
    <2>4. CASE eq = NULL
        BY <1>3, <2>2, <2>3, <2>4
    <2>5. CASE eq # NULL
        <3> DEFINE i == Min(Stops(s, cur, o))
        <3>1. eq = s.kids[cur][i]
            BY <2>5 DEF MergeWith
        <3>2. i \in Stops(s, cur, o)
            <4>1. cur \in Id /\ s.kids[cur] \in Seq(Id)
                BY <1>3, <1>4, TreeFields DEF TInv
            <4>2. Stops(s, cur, o) \subseteq Nat
                BY <4>1 DEF Stops
            <4> QED BY <1>7, <4>2, LeastNat
        <3>3. i \in DOMAIN s.kids[cur]
            BY <3>2 DEF Stops
        <3>4. eq \in Kids(s, cur)
            BY <3>1, <3>3 DEF Kids, ToSet
        <3> HIDE DEF eq
        <3>5. eq \in InTree(s) \ {Root}
            BY <1>3, <1>4, <3>4, ScanFinds
        <3> DEFINE c == s.obj[eq]
                   m == Merged(c, o)
        <3>6. c \in Object /\ Same(c, eq)
            BY <1>3, <3>5, TreeFields DEF TInv, Objects
        <3>7. m \in Object /\ Same(m, eq)
            BY <1>2, <3>6, MergedType
        <3>8. u = [s EXCEPT !.obj[eq] = m]
            BY <2>3, <2>5, Zenon
        <3> HIDE DEF m, u
        <3>9. TInv(u, U \ {x}) /\ InTree(u) = InTree(s)
            BY <2>2, <3>5, <3>7, <3>8, ChangedObject
        <3> QED BY <1>3, <3>9 DEF u
    <2> QED BY <2>4, <2>5
<1> QED BY <1>6, <1>7

-----------------------------------------------------------------------------
(* The objects below an object.                                            *)

(* Below satisfies its recursive definition.                               *)
LEMMA BelowIs ==
    ASSUME NEW t, NEW U, TInv(t, U)
    PROVE  \A y \in Id : Below(t, y) = UNION {{c} \cup Below(t, c) : c \in Kids(t, y)}
<1> DEFINE F(g, y) == UNION {{c} \cup g[c] : c \in Kids(t, y)}
<1>1. PICK rank : IsRank(rank, t.kids)
    BY DEF TInv, Shape, Ranked
<1>2. rank \in [Id -> Nat] /\ \A p \in Id : rank[p] <= rank[Root]
    BY <1>1 DEF IsRank
<1>3. \A y \in Id : \A c \in Kids(t, y) : c \in Id /\ rank[c] < rank[y]
    BY <1>1 DEF TInv, Shape, Linked, IsRank, Kids
<1> DEFINE Good(m) == \E g : \A y \in Id : rank[y] <= m => g[y] = F(g, y)
           Bad == {m \in Nat : ~Good(m)}
           k == Min(Bad)
<1>4. Good(rank[Root])
    <2>0. Root \in Id
        BY InputAssumption
    <2> HIDE DEF Good
    <2>1. SUFFICES ASSUME Bad # {} PROVE FALSE
        BY <1>2, <2>0
    <2>2. k \in Bad /\ \A m \in Bad : k <= m
        BY <2>1, LeastNat
    <2> HIDE DEF k
    <2>3. k \in Nat /\ ~Good(k)
        BY <2>2
    <2>4. \E g : \A y \in Id : rank[y] < k => g[y] = F(g, y)
        <3>1. CASE k = 0
            <4>1. \A y \in Id : ~(rank[y] < k)
                BY <1>2, <3>1
            <4> QED BY <4>1
        <3>2. CASE k # 0
            <4>1. k - 1 \in Nat /\ ~(k <= k - 1)
                BY <2>3, <3>2
            <4>2. Good(k - 1)
                BY <2>2, <4>1
            <4>3. \A y \in Id : rank[y] < k => rank[y] <= k - 1
                BY <1>2, <2>3
            <4> HIDE DEF F
            <4> QED BY <4>2, <4>3 DEF Good
        <3> QED BY <3>1, <3>2
    <2>5. PICK g : \A y \in Id : rank[y] < k => g[y] = F(g, y)
        BY <2>4
    <2> DEFINE h == [y \in Id |-> F(g, y)]
    <2>6. \A y \in Id : rank[y] < k => h[y] = g[y]
        <3> HIDE DEF F
        <3> QED BY <2>5
    <2>7. ASSUME NEW y \in Id, rank[y] <= k
          PROVE  h[y] = F(h, y)
        <3>1. \A c \in Kids(t, y) : c \in Id /\ rank[c] < k
            BY <1>2, <1>3, <2>3, <2>7
        <3>2. \A c \in Kids(t, y) : h[c] = g[c]
            BY <2>6, <3>1
        <3>3. h[y] = F(g, y)
            OBVIOUS
        <3> HIDE DEF h
        <3>4. F(g, y) = F(h, y)
            BY <3>2
        <3> QED BY <3>3, <3>4
    <2> HIDE DEF h, F
    <2> QED BY <2>3, <2>7 DEF Good
<1>5. \E g : g = [y \in Id |-> F(g, y)]
    <2>1. PICK g : \A y \in Id : rank[y] <= rank[Root] => g[y] = F(g, y)
        BY <1>4
    <2>2. \A y \in Id : g[y] = F(g, y)
        BY <1>2, <2>1
    <2> DEFINE h == [y \in Id |-> g[y]]
    <2>3. \A y \in Id : F(g, y) = F(h, y)
        <3> SUFFICES ASSUME NEW y \in Id PROVE F(g, y) = F(h, y)
            OBVIOUS
        <3>1. \A c \in Kids(t, y) : h[c] = g[c]
            BY <1>3
        <3> HIDE DEF h
        <3> QED BY <3>1
    <2> HIDE DEF F
    <2>4. h = [y \in Id |-> F(h, y)]
        BY <2>2, <2>3
    <2> QED BY <2>4
<1> DEFINE below == CHOOSE g : g = [y \in Id |-> F(g, y)]
<1>6. \A y \in Id : Below(t, y) = below[y]
    BY Zenon DEF Below
<1>7. below = [y \in Id |-> F(below, y)]
    <2> HIDE DEF F
    <2> QED BY <1>5, Zenon
<1> HIDE DEF below
<1>8. \A y \in Id : below[y] = F(below, y)
    <2> HIDE DEF F
    <2> QED BY <1>7
<1>9. ASSUME NEW y \in Id
      PROVE  Below(t, y) = UNION {{c} \cup Below(t, c) : c \in Kids(t, y)}
    <2>1. \A c \in Kids(t, y) : below[c] = Below(t, c)
        BY <1>3, <1>6
    <2>2. below[y] = UNION {{c} \cup below[c] : c \in Kids(t, y)}
        BY <1>8
    <2>3. UNION {{c} \cup below[c] : c \in Kids(t, y)}
          = UNION {{c} \cup Below(t, c) : c \in Kids(t, y)}
        BY <2>1
    <2> QED BY <1>6, <2>2, <2>3
<1> QED BY <1>9

(* An object below another is its child or below a child of it.            *)
LEMMA BelowChild ==
    ASSUME NEW t, NEW U, TInv(t, U), NEW y \in InTree(t), NEW z
    PROVE  z \in Below(t, y) <=> \E c \in Kids(t, y) : z = c \/ z \in Below(t, c)
<1>1. y \in Id
    BY DEF InTree
<1> QED BY <1>1, BelowIs

(* What is below an object is in the tree and, if it has processors, is    *)
(* contained in it.                                                        *)
LEMMA BelowContained ==
    ASSUME NEW t, NEW U, TInv(t, U)
    PROVE  \A y \in InTree(t) : \A z \in Below(t, y) :
               /\ z \in InTree(t) \ {Root}
               /\ y # Root /\ Cpus(z) # {} => Cmp(z, y) = "INCLUDED"
<1> DEFINE Ok(y, z) == /\ z \in InTree(t) \ {Root}
                       /\ y # Root /\ Cpus(z) # {} => Cmp(z, y) = "INCLUDED"
           Wrong == {y \in InTree(t) : \E z \in Below(t, y) : ~Ok(y, z)}
<1>1. PICK rank : IsRank(rank, t.kids)
    BY DEF TInv, Shape, Ranked
<1> DEFINE Bad == {rank[y] : y \in Wrong}
           k == Min(Bad)
<1>2. SUFFICES ASSUME Wrong # {} PROVE FALSE
    BY Zenon
<1>3. Bad \subseteq Nat /\ Bad # {}
    BY <1>1, <1>2 DEF IsRank, InTree
<1>4. k \in Bad /\ \A m \in Bad : k <= m
    BY <1>3, LeastNat
<1>5. PICK y \in Wrong : rank[y] = k
    BY <1>4
<1> HIDE DEF k
<1>6. PICK z \in Below(t, y) : ~Ok(y, z)
    BY Zenon
<1>7. y \in InTree(t) /\ y \in Id
    BY DEF InTree
<1>8. PICK c \in Kids(t, y) : z = c \/ z \in Below(t, c)
    BY <1>7, BelowChild, Zenon
<1>9. c \in InTree(t) \ {Root} /\ rank[c] < rank[y]
    BY <1>1, <1>7, <1>8 DEF TInv, Shape, Linked, Kids, IsRank
<1>10. c \in DOMAIN Input /\ (y # Root => y \in DOMAIN Input /\ Cmp(c, y) = "INCLUDED")
    BY <1>7, <1>8, <1>9 DEF TInv, Shape, Linked, Contained, Kids
<1>11. CASE z = c
    BY <1>6, <1>9, <1>10, <1>11
<1>12. CASE z \in Below(t, c)
    <2>1. c \notin Wrong
        <3>1. SUFFICES ASSUME c \in Wrong PROVE FALSE
            OBVIOUS
        <3>2. rank[c] \in Bad
            BY <3>1
        <3>3. k <= rank[c] /\ rank[c] \in Nat /\ k \in Nat
            BY <1>3, <1>4, <3>2
        <3> QED BY <1>5, <1>9, <3>3
    <2>2. Ok(c, z)
        BY <1>9, <1>12, <2>1
    <2>3. z \in InTree(t) \ {Root} /\ z \in DOMAIN Input
        BY <2>2 DEF TInv, Shape, Linked
    <2>4. y # Root /\ Cpus(z) # {} => Cmp(z, y) = "INCLUDED"
        BY <1>9, <1>10, <2>2, <2>3, IncludedTrans
    <2> QED BY <1>6, <2>3, <2>4
<1> QED BY <1>8, <1>11, <1>12

(* Of some objects, one is lowest in the tree and one is highest.          *)
LEMMA LowestHighest ==
    ASSUME NEW rank, NEW K, IsRank(rank, K), NEW S, S \subseteq Id, S # {}
    PROVE  /\ \E y \in S : \A z \in S : ~(rank[z] < rank[y])
           /\ \E y \in S : \A z \in S : ~(rank[y] < rank[z])
<1>1. Root \in Id
    BY InputAssumption
<1>2. \A y \in Id : rank[y] \in Nat /\ rank[Root] - rank[y] \in Nat
    BY <1>1 DEF IsRank
<1>3. \E y \in S : \A z \in S : ~(rank[z] < rank[y])
    <2> DEFINE R == {rank[y] : y \in S}
    <2>1. R \subseteq Nat /\ R # {}
        BY <1>2
    <2>2. Min(R) \in R /\ \A m \in R : Min(R) <= m
        BY <2>1, LeastNat
    <2> DEFINE k == Min(R)
    <2> HIDE DEF k
    <2>3. k \in R /\ \A m \in R : k <= m
        BY <2>2 DEF k
    <2>4. PICK y \in S : rank[y] = k
        BY <2>3
    <2>5. \A z \in S : k <= rank[z]
        BY <2>3
    <2> HIDE DEF R
    <2> QED BY <1>2, <2>4, <2>5
<1>4. \E y \in S : \A z \in S : ~(rank[y] < rank[z])
    <2> DEFINE R == {rank[Root] - rank[y] : y \in S}
    <2>1. R \subseteq Nat /\ R # {}
        BY <1>2
    <2>2. Min(R) \in R /\ \A m \in R : Min(R) <= m
        BY <2>1, LeastNat
    <2> DEFINE k == Min(R)
    <2> HIDE DEF k
    <2>3. k \in R /\ \A m \in R : k <= m
        BY <2>2 DEF k
    <2>4. PICK y \in S : rank[Root] - rank[y] = k
        BY <2>3
    <2>5. \A z \in S : k <= rank[Root] - rank[z]
        BY <2>3
    <2> HIDE DEF R
    <2> QED BY <1>1, <1>2, <2>4, <2>5
<1> QED BY <1>3, <1>4

(* A child is in the tree, and lower.                                      *)
LEMMA KidsLower ==
    ASSUME NEW t, NEW U, TInv(t, U), NEW rank, IsRank(rank, t.kids),
           NEW p \in InTree(t), NEW c \in Kids(t, p)
    PROVE  c \in InTree(t) \ {Root} /\ rank[c] < rank[p]
BY DEF TInv, Shape, Linked, Kids, IsRank, InTree

(* The children of what is below an object are below it.                   *)
LEMMA BelowKids ==
    ASSUME NEW t, NEW U, TInv(t, U)
    PROVE  \A q \in InTree(t) : \A z \in Below(t, q) : \A c \in Kids(t, z) : c \in Below(t, q)
<1> DEFINE Wrong == {q \in InTree(t) :
                        \E z \in Below(t, q) : \E c \in Kids(t, z) : c \notin Below(t, q)}
<1>1. PICK rank : IsRank(rank, t.kids)
    BY DEF TInv, Shape, Ranked
<1>2. SUFFICES ASSUME Wrong # {} PROVE FALSE
    BY Zenon
<1>3. Wrong \subseteq Id
    BY DEF InTree
<1>4. PICK q \in Wrong : \A w \in Wrong : ~(rank[w] < rank[q])
    BY <1>1, <1>2, <1>3, LowestHighest, Zenon
<1>5. PICK z \in Below(t, q) : \E c \in Kids(t, z) : c \notin Below(t, q)
    BY Zenon
<1>6. PICK c \in Kids(t, z) : c \notin Below(t, q)
    BY <1>5, Zenon
<1>7. q \in InTree(t)
    OBVIOUS
<1>8. PICK d \in Kids(t, q) : z = d \/ z \in Below(t, d)
    BY <1>6, <1>7, BelowChild, Zenon
<1>9. d \in InTree(t) /\ rank[d] < rank[q]
    BY <1>1, <1>7, <1>8, KidsLower, Zenon
<1>10. d \notin Wrong
    BY <1>4, <1>9, Zenon
<1>11. CASE z = d
    <2>1. c \in Below(t, d)
        BY <1>6, <1>9, <1>11, BelowChild, Zenon
    <2> QED BY <1>6, <1>7, <1>8, <2>1, BelowChild, Zenon
<1>12. CASE z \in Below(t, d)
    <2>1. c \in Below(t, d)
        BY <1>6, <1>9, <1>10, <1>12, Zenon
    <2> QED BY <1>6, <1>7, <1>8, <2>1, BelowChild, Zenon
<1> QED BY <1>8, <1>11, <1>12

(* Everything in the tree but the root is below it.                        *)
LEMMA BelowRoot ==
    ASSUME NEW t, NEW U, TInv(t, U)
    PROVE  Below(t, Root) = InTree(t) \ {Root}
<1> DEFINE Wrong == {x \in InTree(t) \ {Root} : x \notin Below(t, Root)}
<1>1. PICK rank : IsRank(rank, t.kids)
    BY DEF TInv, Shape, Ranked
<1>2. Root \in InTree(t)
    BY DEF TInv, Shape, Linked
<1>3. Wrong = {}
    <2>1. SUFFICES ASSUME Wrong # {} PROVE FALSE
        OBVIOUS
    <2>2. Wrong \subseteq Id
        BY DEF InTree
    <2>3. PICK x \in Wrong : \A w \in Wrong : ~(rank[x] < rank[w])
        BY <1>1, <2>1, <2>2, LowestHighest, Zenon
    <2>4. PICK p \in InTree(t) : x \in Kids(t, p)
        BY <2>3, Zenon DEF TInv, Shape, Linked, Kids
    <2>5. rank[x] < rank[p]
        BY <1>1, <2>4, KidsLower, Zenon
    <2>6. p \notin Wrong
        BY <2>3, <2>5, Zenon
    <2>7. CASE p = Root
        BY <1>2, <2>3, <2>4, <2>7, BelowChild
    <2>8. CASE p # Root
        BY <1>2, <2>3, <2>4, <2>6, <2>8, BelowKids
    <2> QED BY <2>7, <2>8
<1>4. Below(t, Root) \subseteq InTree(t) \ {Root}
    BY <1>2, BelowContained
<1> QED BY <1>3, <1>4

(* Objects with processors that no path relates share none of them.        *)
LEMMA BelowApart ==
    ASSUME NEW t, NEW U, TInv(t, U)
    PROVE  \A p \in InTree(t) : \A x, y \in Below(t, p) :
               x # y /\ Cpus(x) # {} /\ Cpus(y) # {} =>
                   x \in Below(t, y) \/ y \in Below(t, x) \/ Cmp(x, y) = "DIFFERENT"
<1> DEFINE Ok(x, y) == x # y /\ Cpus(x) # {} /\ Cpus(y) # {} =>
                           x \in Below(t, y) \/ y \in Below(t, x) \/ Cmp(x, y) = "DIFFERENT"
           Wrong == {p \in InTree(t) : \E x, y \in Below(t, p) : ~Ok(x, y)}
<1>1. PICK rank : IsRank(rank, t.kids)
    BY DEF TInv, Shape, Ranked
<1>2. SUFFICES ASSUME Wrong # {} PROVE FALSE
    BY Zenon
<1>3. Wrong \subseteq Id
    BY DEF InTree
<1>4. PICK p \in Wrong : \A w \in Wrong : ~(rank[w] < rank[p])
    BY <1>1, <1>2, <1>3, LowestHighest, Zenon
<1>5. PICK x \in Below(t, p), y \in Below(t, p) : ~Ok(x, y)
    BY Zenon
<1>6. p \in InTree(t)
    OBVIOUS
<1>7. PICK c \in Kids(t, p) : x = c \/ x \in Below(t, c)
    BY <1>5, <1>6, BelowChild, Zenon
<1>8. PICK d \in Kids(t, p) : y = d \/ y \in Below(t, d)
    BY <1>5, <1>6, BelowChild, Zenon
<1>9. c \in InTree(t) \ {Root} /\ d \in InTree(t) \ {Root} /\ rank[c] < rank[p]
    BY <1>1, <1>6, <1>7, <1>8, KidsLower, Zenon
<1>10. CASE c = d
    <2>1. c \notin Wrong
        BY <1>4, <1>9, Zenon
    <2>2. x \in Below(t, c) /\ y \in Below(t, c)
        BY <1>5, <1>7, <1>8, <1>10
    <2> QED BY <1>5, <1>9, <2>1, <2>2, Zenon
<1>11. CASE c # d
    <2>1. Cmp(c, d) = "DIFFERENT"
        BY <1>6, <1>7, <1>8, <1>11 DEF TInv, Shape, Apart, Kids
    <2>2. Cpus(x) # {} /\ Cpus(y) # {}
        BY <1>5
    <2>3. (x = c \/ Cmp(x, c) = "INCLUDED") /\ (y = d \/ Cmp(y, d) = "INCLUDED")
        BY <1>7, <1>8, <1>9, <2>2, BelowContained
    <2>4. {x, y, c, d} \subseteq InTree(t) \ {Root}
        BY <1>5, <1>6, <1>9, BelowContained
    <2>5. {x, y, c, d} \subseteq DOMAIN Input
        BY <2>4 DEF TInv, Shape, Linked
    <2>6. Cmp(x, y) = "DIFFERENT"
        BY <2>1, <2>2, <2>3, <2>5, ApartBelow
    <2> QED BY <1>5, <2>6
<1> QED BY <1>10, <1>11

-----------------------------------------------------------------------------
(* The steps of a detection.                                               *)

(* During a detection: what is still to come is not in the tree.           *)
Detecting ==
    phase = "detect" =>
        TInv(tree, todo) /\ todo \subseteq DOMAIN Input /\ todo \cap InTree(tree) = {}

DInv ==
    /\ phase \in {"init", "detect", "loaded"}
    /\ todo \subseteq DOMAIN Input
    /\ tree \in TreeType
    /\ Detecting

(* The tree of hwloc_topology_setup_defaults.                              *)
LEMMA SetupType == setup_defaults \in TreeType /\ setup_defaults.obj[Root] \in Object
<1>1. setup_object("MACHINE", 0) \in Object
    <2>1. "MACHINE" \in Types
        BY DEF Types, ToSet, obj_order_type
    <2> QED BY <2>1 DEF setup_object, Object
<1>2. Root \in Id
    BY InputAssumption
<1> QED BY <1>1, <1>2 DEF setup_defaults, TreeType

(* The tree a detection begins with has the root only.                     *)
LEMMA BeginKeeps ==
    ASSUME NEW m \in Machines
    PROVE  LET u == alloc_cpusets(setup_defaults, m)
           IN  TInv(u, DOMAIN Input) /\ InTree(u) = {Root}
<1> DEFINE s == setup_defaults
           u == alloc_cpusets(s, m)
           o == [s.obj[Root] EXCEPT
                    !.cpuset = AllCpus, !.complete_cpuset = m.known,
                    !.online_cpuset = m.online, !.allowed_cpuset = m.allowed,
                    !.nodeset = {}, !.complete_nodeset = {},
                    !.allowed_nodeset = m.allowed_nodeset]
           K == [x \in Id |-> <<>>]
           ob == [x \in Id |-> IF x = Root THEN o ELSE NULL]
<1>0. Root \in Id
    BY InputAssumption
<1>1. s = [root |-> Root, obj |-> s.obj, kids |-> K] /\ s.root = Root
      /\ s.obj = [x \in Id |-> IF x = Root THEN setup_object("MACHINE", 0) ELSE NULL]
    BY DEF setup_defaults
<1>2. /\ m.known \in Cpusets /\ m.online \in Cpusets /\ m.allowed \in Cpusets
      /\ m.allowed_nodeset \in Nodesets
    <2>1. 0..(NbCpus - 1) \subseteq AllCpus
        BY IndexAssumption DEF AllCpus
    <2> QED BY <2>1, InputAssumption DEF Cpusets
<1>3. /\ o \in Object /\ o.cpuset = AllCpus
      /\ o.complete_cpuset \in Cpusets /\ o.complete_nodeset \in Nodesets
    <2>1. s.obj[Root] \in Object
        BY SetupType
    <2>2. AllCpus \in Cpusets /\ {} \in Nodesets
        BY DEF Cpusets, Nodesets
    <2> HIDE DEF s
    <2> QED BY <1>2, <2>1, <2>2 DEF Object
<1>4. u = [root |-> Root, obj |-> [s.obj EXCEPT ![Root] = o], kids |-> K]
    <2> HIDE DEF s, K
    <2> QED BY <1>1 DEF alloc_cpusets
<1> HIDE DEF o
<1>5. [s.obj EXCEPT ![Root] = o] = ob
    <2> HIDE DEF s
    <2> QED BY <1>0, <1>1
<1>6. u.obj = ob /\ u.kids = K /\ u.root = Root
    <2> HIDE DEF u, s, K, ob
    <2> QED BY <1>4, <1>5
<1> HIDE DEF u, s
<1>7. InTree(u) = {Root}
    BY <1>0, <1>3, <1>6, NullAssumption DEF InTree
<1>8. u \in TreeType
    <2>1. ob \in [Id -> Object \cup {NULL}]
        BY <1>3
    <2>2. K \in [Id -> Seq(Id)]
        OBVIOUS
    <2> HIDE DEF ob, K
    <2> QED BY <1>4, <1>5, <2>1, <2>2 DEF TreeType
<1>9. Objects(u)
    BY <1>0, <1>3, <1>6, <1>7, <1>8 DEF Objects
<1>10. \A p \in Id : K[p] = <<>> /\ ToSet(K[p]) = {}
    BY DEF ToSet
<1>11. Linked({Root}, K)
    <2>1. K \in [Id -> Seq(Id)]
        OBVIOUS
    <2> HIDE DEF K
    <2> QED BY <1>0, <1>10, <2>1 DEF Linked, Distinct
<1>12. Contained({Root}, K) /\ Apart({Root}, K) /\ Ordered({Root}, K)
    <2> HIDE DEF K
    <2> QED BY <1>0, <1>10 DEF Contained, Apart, Ordered, Sorted
<1>13. Ranked(K)
    <2>1. IsRank([x \in Id |-> 0], K)
        <3> HIDE DEF K
        <3> QED BY <1>0, <1>10 DEF IsRank
    <2> QED BY <2>1 DEF Ranked
<1>14. Refused({Root}, DOMAIN Input)
    BY DEF Refused
<1>15. Shape({Root}, K, DOMAIN Input)
    BY <1>11, <1>12, <1>13, <1>14 DEF Shape
<1>16. TInv(u, DOMAIN Input)
    BY <1>6, <1>7, <1>9, <1>15 DEF TInv
<1> QED BY <1>7, <1>16 DEF u, s

(* A step of a detection keeps the invariant, one that leaves the          *)
(* detection or is not part of one does too.                               *)
LEMMA StepKeeps ==
    ASSUME Detecting, [DetectNext \/ phase' # "detect"]_detection
    PROVE  Detecting'
<1>1. ASSUME NEW m \in Machines, BeginDetection(m) PROVE Detecting'
    <2>1. TInv(tree', DOMAIN Input) /\ InTree(tree') = {Root}
        BY <1>1, BeginKeeps DEF BeginDetection
    <2>2. Root \notin DOMAIN Input
        BY InputAssumption
    <2>3. phase' = "detect" /\ todo' = DOMAIN Input
        BY <1>1 DEF BeginDetection
    <2> QED BY <2>1, <2>2, <2>3 DEF Detecting
<1>2. ASSUME NEW x \in DOMAIN Input, InsertDetected(x) PROVE Detecting'
    <2>1. /\ phase = "detect" /\ phase' = "detect" /\ x \in todo
          /\ tree' = insert_object_by_cpuset(tree, x, BackendObject(x))
          /\ todo' = todo \ {x}
        BY <1>2 DEF InsertDetected
    <2>2. TInv(tree, todo) /\ todo \subseteq DOMAIN Input /\ todo \cap InTree(tree) = {}
        BY <2>1 DEF Detecting
    <2>3. TInv(tree', todo') /\ InTree(tree') \subseteq InTree(tree) \cup {x}
        BY <2>1, <2>2, InsertKeeps
    <2> QED BY <2>1, <2>2, <2>3 DEF Detecting
<1>3. CASE EndDetection
    BY <1>3 DEF EndDetection, Detecting
<1>4. CASE phase' # "detect"
    BY <1>4 DEF Detecting
<1>5. CASE UNCHANGED detection
    <2>1. phase' = phase /\ tree' = tree /\ todo' = todo
        BY <1>5 DEF detection
    <2> QED BY <2>1, Zenon DEF Detecting, InTree, TInv
<1> QED BY <1>1, <1>2, <1>3, <1>4, <1>5 DEF DetectNext

(* Whatever the backend inserts, and in whatever order: the invariant of   *)
(* hwloc__insert_object_by_cpuset holds before and after every insertion.  *)
THEOREM DetectInvariant == DetectSpec => []DInv
<1>1. DetectInit => DInv
    BY SetupType DEF DetectInit, DInv, Detecting
<1>2. DInv /\ [DetectNext]_detection => DInv'
    <2> SUFFICES ASSUME DInv, [DetectNext]_detection PROVE DInv'
        OBVIOUS
    <2>1. Detecting'
        BY StepKeeps DEF DInv
    <2>2. ASSUME NEW m \in Machines, BeginDetection(m) PROVE DInv'
        <3>1. tree' \in TreeType
            BY <2>2, BeginKeeps DEF BeginDetection, TInv, Objects
        <3> QED BY <2>1, <2>2, <3>1 DEF BeginDetection, DInv
    <2>3. ASSUME NEW x \in DOMAIN Input, InsertDetected(x) PROVE DInv'
        <3>1. phase' = "detect" /\ todo' \subseteq DOMAIN Input
            BY <2>3 DEF InsertDetected, DInv
        <3>2. tree' \in TreeType
            BY <2>1, <3>1 DEF Detecting, TInv, Objects
        <3> QED BY <2>1, <3>1, <3>2 DEF DInv
    <2>4. CASE EndDetection
        BY <2>1, <2>4 DEF EndDetection, DInv
    <2>5. CASE UNCHANGED detection
        BY <2>1, <2>5 DEF detection, DInv
    <2> QED BY <2>2, <2>3, <2>4, <2>5 DEF DetectNext
<1> QED BY <1>1, <1>2, PTL DEF DetectSpec

(* From the local invariant to the paths of the tree.                      *)
LEMMA NestedDetecting == Detecting => Nested
<1>1. SUFFICES ASSUME Detecting, phase = "detect"
               PROVE  LET under == Below(tree, tree.root)
                          above == {x \in under : NotEmpty(Obj(x).cpuset)}
                      IN  /\ \A x \in under : \A y \in Kids(tree, x) :
                                obj_cmp(Obj(y), Obj(x)) = "INCLUDED"
                          /\ \A x \in InTree(tree) : \A y, z \in Kids(tree, x) :
                                y # z => obj_cmp(Obj(y), Obj(z)) = "DIFFERENT"
                          /\ \A x, y \in above : x # y =>
                                obj_cmp(Obj(x), Obj(y)) =
                                    IF x \in Below(tree, y) THEN "INCLUDED"
                                    ELSE IF y \in Below(tree, x) THEN "CONTAINS"
                                    ELSE "DIFFERENT"
    BY DEF Nested
<1>2. TInv(tree, todo)
    BY <1>1 DEF Detecting
<1>3. tree.root = Root /\ Root \in InTree(tree)
    BY <1>2, TreeFields DEF TInv
<1> DEFINE T == InTree(tree) \ {Root}
<1>4. Below(tree, tree.root) = T
    BY <1>2, <1>3, BelowRoot
<1>5. T \subseteq DOMAIN Input /\ \A x, y \in T : obj_cmp(Obj(x), Obj(y)) = Cmp(x, y)
    BY <1>2, CmpInTree DEF Obj
<1>6. \A x \in T : Obj(x).cpuset = Cpus(x)
    BY <1>2, CmpInTree DEF Obj
<1>7. \A x \in InTree(tree) : Kids(tree, x) \subseteq T
    BY <1>2 DEF TInv, Shape, Linked, Kids
<1>8. \A x \in T : \A y \in Kids(tree, x) : obj_cmp(Obj(y), Obj(x)) = "INCLUDED"
    BY <1>2, <1>5, <1>7 DEF TInv, Shape, Contained, Kids
<1>9. \A x \in InTree(tree) : \A y, z \in Kids(tree, x) :
          y # z => obj_cmp(Obj(y), Obj(z)) = "DIFFERENT"
    BY <1>2, <1>5, <1>7 DEF TInv, Shape, Apart, Kids
<1>10. ASSUME NEW x \in T, NEW y \in T, x # y,
              NotEmpty(Obj(x).cpuset), NotEmpty(Obj(y).cpuset)
       PROVE  obj_cmp(Obj(x), Obj(y)) =
                  IF x \in Below(tree, y) THEN "INCLUDED"
                  ELSE IF y \in Below(tree, x) THEN "CONTAINS" ELSE "DIFFERENT"
    <2>1. Cpus(x) # {} /\ Cpus(y) # {}
        BY <1>6, <1>10 DEF NotEmpty
    <2>2. x \in Below(tree, y) => Cmp(x, y) = "INCLUDED"
        BY <1>2, <2>1, BelowContained
    <2>3. y \in Below(tree, x) => Cmp(y, x) = "INCLUDED"
        BY <1>2, <2>1, BelowContained
    <2>4. y \in Below(tree, x) => Cmp(x, y) = "CONTAINS"
        BY <1>5, <2>3, CmpValues
    <2>5. x \in Below(tree, y) \/ y \in Below(tree, x) \/ Cmp(x, y) = "DIFFERENT"
        BY <1>2, <1>3, <1>4, <1>10, <2>1, BelowApart
    <2>6. obj_cmp(Obj(x), Obj(y)) = Cmp(x, y)
        BY <1>5
    <2> QED BY <2>2, <2>4, <2>5, <2>6
<1> HIDE DEF T
<1> QED BY <1>4, <1>8, <1>9, <1>10, Zenon

(* The lists are sorted by the cpusets the objects came with.              *)
LEMMA OrderedDetecting == Detecting => ChildrenInOrder
<1>1. SUFFICES ASSUME Detecting, phase = "detect", NEW x \in InTree(tree),
                      NEW i \in DOMAIN tree.kids[x], NEW j \in DOMAIN tree.kids[x], i < j
               PROVE  ~FirstBefore(Obj(tree.kids[x][j]).cpuset, Obj(tree.kids[x][i]).cpuset)
    BY DEF ChildrenInOrder
<1>2. TInv(tree, todo)
    BY <1>1 DEF Detecting
<1>3. x \in Id
    BY DEF InTree
<1>4. ~FirstBefore(CpusOf[tree.kids[x][j]], CpusOf[tree.kids[x][i]])
    BY <1>1, <1>2, <1>3 DEF TInv, Shape, Ordered, Sorted
<1>5. tree.kids[x][i] \in InTree(tree) \ {Root} /\ tree.kids[x][j] \in InTree(tree) \ {Root}
    BY <1>2, <1>3 DEF TInv, Shape, Linked, ToSet
<1>6. \A y \in InTree(tree) \ {Root} : Obj(y).cpuset = CpusOf[y]
    BY <1>2, CmpInTree DEF Obj
<1> QED BY <1>4, <1>5, <1>6

(* Of the causes, two containers that are apart leave no processors.       *)
LEMMA CauseDetecting == Detecting => RefusedForCause
<1>1. SUFFICES ASSUME Detecting, phase = "detect",
                      NEW x \in DOMAIN Input \ (todo \cup InTree(tree))
               PROVE  LET cmp(y) == obj_cmp(BackendObject(x), Obj(y))
                          under  == Below(tree, tree.root)
                      IN  \/ \E y \in under : cmp(y) \in {"EQUAL", "INTERSECTS"}
                          \/ /\ Input[x].cpuset = {}
                             /\ \E y, z \in under :
                                   /\ cmp(y) = "INCLUDED" /\ cmp(z) = "INCLUDED"
                                   /\ obj_cmp(Obj(y), Obj(z)) = "DIFFERENT"
    BY DEF RefusedForCause
<1>2. TInv(tree, todo)
    BY <1>1 DEF Detecting
<1>3. tree.root = Root /\ Root \in InTree(tree)
    BY <1>2, TreeFields DEF TInv
<1> DEFINE T == InTree(tree) \ {Root}
<1>4. Below(tree, tree.root) = T
    BY <1>2, <1>3, BelowRoot
<1>5. T \subseteq DOMAIN Input /\ \A y, z \in T : obj_cmp(Obj(y), Obj(z)) = Cmp(y, z)
    BY <1>2, CmpInTree DEF Obj
<1>6. \A y \in T : obj_cmp(BackendObject(x), Obj(y)) = Cmp(x, y)
    BY <1>2, CmpInTree DEF Obj
<1>7. Cause(x, InTree(tree))
    BY <1>2 DEF TInv, Shape, Refused
<1>8. CASE \E y \in T : Cmp(x, y) \in {"EQUAL", "INTERSECTS"}
    BY <1>4, <1>6, <1>8
<1>9. CASE \E y, z \in T : /\ Cmp(x, y) = "INCLUDED" /\ Cmp(x, z) = "INCLUDED"
                           /\ Cmp(y, z) = "DIFFERENT"
    <2>1. PICK y \in T, z \in T :
              Cmp(x, y) = "INCLUDED" /\ Cmp(x, z) = "INCLUDED" /\ Cmp(y, z) = "DIFFERENT"
        BY <1>9
    <2>2. Cpus(x) \subseteq Cpus(y) /\ Cpus(x) \subseteq Cpus(z)
        BY <1>5, <2>1, IncludedCpus
    <2>3. Cpus(y) # {} /\ Cpus(z) # {} => Cpus(y) \cap Cpus(z) = {}
        BY <1>5, <2>1, CmpOfInput
    <2>4. Input[x].cpuset = {}
        BY <2>2, <2>3 DEF Cpus
    <2>5. obj_cmp(BackendObject(x), Obj(y)) = "INCLUDED"
          /\ obj_cmp(BackendObject(x), Obj(z)) = "INCLUDED"
          /\ obj_cmp(Obj(y), Obj(z)) = "DIFFERENT"
        BY <1>5, <1>6, <2>1
    <2> QED BY <1>4, <2>4, <2>5
<1> QED BY <1>7, <1>8, <1>9 DEF Cause

(* An object is placed exactly below those that contain it, whatever the   *)
(* order of the insertions.                                                *)
THEOREM DetectNested == DetectSpec => []Nested
<1>1. DInv => Nested
    BY NestedDetecting DEF DInv
<1> QED BY <1>1, DetectInvariant, PTL

(* The children of an object are in the order of their first processor.    *)
THEOREM DetectOrder == DetectSpec => []ChildrenInOrder
<1>1. DInv => ChildrenInOrder
    BY OrderedDetecting DEF DInv
<1> QED BY <1>1, DetectInvariant, PTL

(* Nothing is refused that could have been placed, and the cause remains.  *)
THEOREM DetectRefusals == DetectSpec => []RefusedForCause
<1>1. DInv => RefusedForCause
    BY CauseDetecting DEF DInv
<1> QED BY <1>1, DetectInvariant, PTL

(* The three hold in any program whose detections are these, such as that  *)
(* of Topology, whatever else it does to a tree that is not being detected.*)
THEOREM DetectAnywhere == OpenDetectSpec => [](Nested /\ ChildrenInOrder /\ RefusedForCause)
<1>1. DetectInit => Detecting
    BY DEF DetectInit, Detecting
<1>2. Detecting /\ [DetectNext \/ phase' # "detect"]_detection => Detecting'
    BY StepKeeps
<1>3. Detecting => Nested /\ ChildrenInOrder /\ RefusedForCause
    BY NestedDetecting, OrderedDetecting, CauseDetecting
<1> QED BY <1>1, <1>2, <1>3, PTL DEF OpenDetectSpec
=============================================================================
