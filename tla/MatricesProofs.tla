--------------------------- MODULE MatricesProofs ---------------------------
(***************************************************************************)
(* Proofs about Matrices, for all matrices, environments and lookups: the  *)
(* matrix that a program forces for a type stays, line by line, what it    *)
(* gave, and the groups of a matrix are connected.                         *)
(***************************************************************************)
EXTENDS Matrices, WellFoundedInduction, FiniteSetTheorems, TLAPS

(* A set of numbers has a least one.                                       *)
LEMMA LeastNat ==
    ASSUME NEW S, S \subseteq Nat, S # {}
    PROVE  Min(S) \in S /\ \A y \in S : Min(S) <= y
<1>1. \E x \in S : \A y \in S : ~(<<y, x>> \in OpToRel(<, Nat))
    BY NatLessThanWellFounded, WFMin, Zenon
<1>2. \A x, y \in Nat : ~(<<y, x>> \in OpToRel(<, Nat)) => x =< y
    BY DEF OpToRel
<1>3. \E x \in S : \A y \in S : x =< y
    BY <1>1, <1>2, Zenon
<1> QED BY <1>3, Zenon DEF Min

-----------------------------------------------------------------------------
(* Recursive functions.                                                    *)

(* The filter of a sequence satisfies its recursive definition.            *)
LEMMA AmongExists ==
    ASSUME NEW T, NEW s \in Seq(T), NEW S
    PROVE  \E f : /\ Among(s, S) = f[Len(s)]
                  /\ f[0] = <<>>
                  /\ \A n \in 1..Len(s) : f[n] = IF s[n] \in S THEN Append(f[n - 1], s[n]) ELSE f[n - 1]
<1> DEFINE F(g, n) == IF n = 0 THEN <<>>
                      ELSE IF s[n] \in S THEN Append(g[n - 1], s[n]) ELSE g[n - 1]
           Good(m) == \E g : g = [n \in 0..m |-> F(g, n)]
           Bad == {m \in Nat : ~Good(m)}
           k == Min(Bad)
<1>0. Len(s) \in Nat
    OBVIOUS
<1>1. Good(Len(s))
    <2>2. SUFFICES ASSUME Bad # {} PROVE FALSE
        BY <1>0
    <2>3. k \in Bad /\ \A m \in Bad : k <= m
        <3> HIDE DEF Good
        <3> QED BY <2>2, LeastNat
    <2> HIDE DEF k
    <2>4. k \in Nat /\ ~Good(k)
        BY <2>3
    <2>5. CASE k = 0
        <3> DEFINE g == [n \in 0..0 |-> <<>>]
        <3>1. g = [n \in 0..0 |-> F(g, n)]
            OBVIOUS
        <3> HIDE DEF g, F
        <3> QED BY <2>4, <2>5, <3>1
    <2>6. CASE k # 0
        <3>1. k - 1 \in Nat /\ ~(k <= k - 1)
            BY <2>4, <2>6
        <3>a. Good(k - 1)
            <4> HIDE DEF Good
            <4> QED BY <2>3, <3>1
        <3>2. PICK g : g = [n \in 0..(k - 1) |-> F(g, n)]
            BY <3>a
        <3> DEFINE h == [n \in 0..k |-> IF n = k THEN F(g, k) ELSE g[n]]
        <3>3. \A n \in 0..k : n # 0 => h[n - 1] = g[n - 1]
            BY <2>4
        <3>4. \A n \in 0..k : F(h, n) = F(g, n)
            BY <3>3
        <3>5. \A n \in 0..k : n # k => g[n] = F(g, n)
            <4> HIDE DEF F
            <4> QED BY <2>4, <3>2
        <3> HIDE DEF F
        <3>6. \A n \in 0..k : h[n] = F(h, n)
            BY <3>4, <3>5
        <3>7. h = [n \in 0..k |-> F(h, n)]
            BY <3>6
        <3> HIDE DEF h
        <3> QED BY <2>4, <3>7
    <2> QED BY <2>5, <2>6
<1> DEFINE f == CHOOSE g : g = [n \in 0..Len(s) |-> F(g, n)]
<1>2. Among(s, S) = f[Len(s)]
    BY Zenon DEF Among
<1> HIDE DEF F
<1>3. f = [n \in 0..Len(s) |-> F(f, n)]
    BY <1>1, Zenon
<1> HIDE DEF f
<1>4. \A n \in 0..Len(s) : f[n] = F(f, n)
    BY <1>3
<1>5. 0 \in 0..Len(s) /\ \A n \in 1..Len(s) : n \in 0..Len(s) /\ n # 0
    BY <1>0
<1>6. f[0] = <<>>
    BY <1>4, <1>5, Zenon DEF F
<1>7. \A n \in 1..Len(s) : f[n] = IF s[n] \in S THEN Append(f[n - 1], s[n]) ELSE f[n - 1]
    BY <1>4, <1>5, Zenon DEF F
<1> QED BY <1>2, <1>6, <1>7

(* The move of one line,                                                   *)
MoveLine(a, n, dst, src, k) == memmove(a, dst + (k - 1) * (n - 1), src + (k - 1) * n, n - 1)

(* So do the moves of lines,                                               *)
LEMMA MoveLinesExists ==
    ASSUME NEW a, NEW n0, NEW dst, NEW src, NEW m \in Nat
    PROVE  \E f : /\ move_lines(a, n0, dst, src, m) = f[m]
                  /\ f[0] = a
                  /\ \A n \in 1..m : f[n] = MoveLine(f[n - 1], n0, dst, src, n)
<1> DEFINE F(g, n) == IF n = 0 THEN a
                      ELSE memmove(g[n - 1], dst + (n - 1) * (n0 - 1), src + (n - 1) * n0, n0 - 1)
           Good(i) == \E g : g = [n \in 0..i |-> F(g, n)]
           Bad == {i \in Nat : ~Good(i)}
           k == Min(Bad)
<1>0. m \in Nat
    OBVIOUS
<1>1. Good(m)
    <2>2. SUFFICES ASSUME Bad # {} PROVE FALSE
        BY <1>0
    <2>3. k \in Bad /\ \A i \in Bad : k <= i
        <3> HIDE DEF Good
        <3> QED BY <2>2, LeastNat
    <2> HIDE DEF k
    <2>4. k \in Nat /\ ~Good(k)
        BY <2>3
    <2>5. CASE k = 0
        <3> DEFINE g == [n \in 0..0 |-> a]
        <3>1. g = [n \in 0..0 |-> F(g, n)]
            OBVIOUS
        <3> HIDE DEF g, F
        <3> QED BY <2>4, <2>5, <3>1
    <2>6. CASE k # 0
        <3>1. k - 1 \in Nat /\ ~(k <= k - 1)
            BY <2>4, <2>6
        <3>a. Good(k - 1)
            <4> HIDE DEF Good
            <4> QED BY <2>3, <3>1
        <3>2. PICK g : g = [n \in 0..(k - 1) |-> F(g, n)]
            BY <3>a
        <3> DEFINE h == [n \in 0..k |-> IF n = k THEN F(g, k) ELSE g[n]]
        <3>3. \A n \in 0..k : n # 0 => h[n - 1] = g[n - 1]
            BY <2>4
        <3>4. \A n \in 0..k : F(h, n) = F(g, n)
            BY <3>3
        <3>5. \A n \in 0..k : n # k => g[n] = F(g, n)
            <4> HIDE DEF F
            <4> QED BY <2>4, <3>2
        <3> HIDE DEF F
        <3>6. \A n \in 0..k : h[n] = F(h, n)
            BY <3>4, <3>5
        <3>7. h = [n \in 0..k |-> F(h, n)]
            BY <3>6
        <3> HIDE DEF h
        <3> QED BY <2>4, <3>7
    <2> QED BY <2>5, <2>6
<1> DEFINE f == CHOOSE g : g = [n \in 0..m |-> F(g, n)]
<1>2. move_lines(a, n0, dst, src, m) = f[m]
    BY Zenon DEF move_lines
<1> HIDE DEF F
<1>3. f = [n \in 0..m |-> F(f, n)]
    BY <1>1, Zenon
<1> HIDE DEF f
<1>4. \A n \in 0..m : f[n] = F(f, n)
    BY <1>3
<1>5. 0 \in 0..m /\ \A n \in 1..m : n \in 0..m /\ n # 0
    BY <1>0
<1>6. f[0] = a
    BY <1>4, <1>5, Zenon DEF F
<1>7. \A n \in 1..m : f[n] = MoveLine(f[n - 1], n0, dst, src, n)
    BY <1>4, <1>5, Zenon DEF F, MoveLine
<1> QED BY <1>2, <1>6, <1>7

(* The matrix before the first round,                                      *)
Unconverted(d) == [d EXCEPT !.objs = <<>>]

(* the conversion of a matrix,                                             *)
LEMMA ConvertExists ==
    ASSUME NEW found, NEW d, d.indexes \in Seq(Nat)
    PROVE  \E f : /\ convert(found, d) = f[Len(d.indexes)]
                  /\ f[0] = Unconverted(d)
                  /\ \A n \in 1..Len(d.indexes) : f[n] = convert_next(found, f[n - 1])
<1> DEFINE F(g, n) == IF n = 0 THEN [d EXCEPT !.objs = <<>>]
                      ELSE convert_next(found, g[n - 1])
           Good(m) == \E g : g = [n \in 0..m |-> F(g, n)]
           Bad == {m \in Nat : ~Good(m)}
           k == Min(Bad)
<1>0. Len(d.indexes) \in Nat
    OBVIOUS
<1>1. Good(Len(d.indexes))
    <2>2. SUFFICES ASSUME Bad # {} PROVE FALSE
        BY <1>0
    <2>3. k \in Bad /\ \A m \in Bad : k <= m
        <3> HIDE DEF Good
        <3> QED BY <2>2, LeastNat
    <2> HIDE DEF k
    <2>4. k \in Nat /\ ~Good(k)
        BY <2>3
    <2>5. CASE k = 0
        <3> DEFINE g == [n \in 0..0 |-> [d EXCEPT !.objs = <<>>]]
        <3>1. g = [n \in 0..0 |-> F(g, n)]
            OBVIOUS
        <3> HIDE DEF g, F
        <3> QED BY <2>4, <2>5, <3>1
    <2>6. CASE k # 0
        <3>1. k - 1 \in Nat /\ ~(k <= k - 1)
            BY <2>4, <2>6
        <3>a. Good(k - 1)
            <4> HIDE DEF Good
            <4> QED BY <2>3, <3>1
        <3>2. PICK g : g = [n \in 0..(k - 1) |-> F(g, n)]
            BY <3>a
        <3> DEFINE h == [n \in 0..k |-> IF n = k THEN F(g, k) ELSE g[n]]
        <3>3. \A n \in 0..k : n # 0 => h[n - 1] = g[n - 1]
            BY <2>4
        <3>4. \A n \in 0..k : F(h, n) = F(g, n)
            BY <3>3
        <3>5. \A n \in 0..k : n # k => g[n] = F(g, n)
            <4> HIDE DEF F
            <4> QED BY <2>4, <3>2
        <3> HIDE DEF F
        <3>6. \A n \in 0..k : h[n] = F(h, n)
            BY <3>4, <3>5
        <3>7. h = [n \in 0..k |-> F(h, n)]
            BY <3>6
        <3> HIDE DEF h
        <3> QED BY <2>4, <3>7
    <2> QED BY <2>5, <2>6
<1> DEFINE f == CHOOSE g : g = [n \in 0..Len(d.indexes) |-> F(g, n)]
<1>2. convert(found, d) = f[Len(d.indexes)]
    BY Zenon DEF convert
<1> HIDE DEF F
<1>3. f = [n \in 0..Len(d.indexes) |-> F(f, n)]
    BY <1>1, Zenon
<1> HIDE DEF f
<1>4. \A n \in 0..Len(d.indexes) : f[n] = F(f, n)
    BY <1>3
<1>5. 0 \in 0..Len(d.indexes) /\ \A n \in 1..Len(d.indexes) : n \in 0..Len(d.indexes) /\ n # 0
    BY <1>0
<1>6. f[0] = Unconverted(d)
    BY <1>4, <1>5, Zenon DEF F, Unconverted
<1>7. \A n \in 1..Len(d.indexes) : f[n] = convert_next(found, f[n - 1])
    BY <1>4, <1>5, Zenon DEF F
<1> QED BY <1>2, <1>6, <1>7

(* The numbers before a pass, and the cell that its step p visits,         *)
Start(ids) == [ids |-> ids, found |-> -1]
Visit(n, near, id, first, s, p) == bring(near, id, s, first + (p - 1) \div n, (p - 1) % n)

(* a pass over the lines of a matrix,                                      *)
LEMMA ScanExists ==
    ASSUME NEW n0, NEW near, NEW ids, NEW id, NEW first,
           NEW N \in Nat, N = (n0 - first) * n0
    PROVE  \E f : /\ scan(n0, near, ids, id, first) = f[N]
                  /\ f[0] = Start(ids)
                  /\ \A n \in 1..N : f[n] = Visit(n0, near, id, first, f[n - 1], n)
<1> DEFINE F(g, n) == IF n = 0 THEN [ids |-> ids, found |-> -1]
                      ELSE bring(near, id, g[n - 1], first + (n - 1) \div n0, (n - 1) % n0)
           Good(m) == \E g : g = [n \in 0..m |-> F(g, n)]
           Bad == {m \in Nat : ~Good(m)}
           k == Min(Bad)
<1>0. N \in Nat
    OBVIOUS
<1>1. Good(N)
    <2>2. SUFFICES ASSUME Bad # {} PROVE FALSE
        BY <1>0
    <2>3. k \in Bad /\ \A m \in Bad : k <= m
        <3> HIDE DEF Good
        <3> QED BY <2>2, LeastNat
    <2> HIDE DEF k
    <2>4. k \in Nat /\ ~Good(k)
        BY <2>3
    <2>5. CASE k = 0
        <3> DEFINE g == [n \in 0..0 |-> [ids |-> ids, found |-> -1]]
        <3>1. g = [n \in 0..0 |-> F(g, n)]
            OBVIOUS
        <3> HIDE DEF g, F
        <3> QED BY <2>4, <2>5, <3>1
    <2>6. CASE k # 0
        <3>1. k - 1 \in Nat /\ ~(k <= k - 1)
            BY <2>4, <2>6
        <3>a. Good(k - 1)
            <4> HIDE DEF Good
            <4> QED BY <2>3, <3>1
        <3>2. PICK g : g = [n \in 0..(k - 1) |-> F(g, n)]
            BY <3>a
        <3> DEFINE h == [n \in 0..k |-> IF n = k THEN F(g, k) ELSE g[n]]
        <3>3. \A n \in 0..k : n # 0 => h[n - 1] = g[n - 1]
            BY <2>4
        <3>4. \A n \in 0..k : F(h, n) = F(g, n)
            BY <3>3
        <3>5. \A n \in 0..k : n # k => g[n] = F(g, n)
            <4> HIDE DEF F
            <4> QED BY <2>4, <3>2
        <3> HIDE DEF F
        <3>6. \A n \in 0..k : h[n] = F(h, n)
            BY <3>4, <3>5
        <3>7. h = [n \in 0..k |-> F(h, n)]
            BY <3>6
        <3> HIDE DEF h
        <3> QED BY <2>4, <3>7
    <2> QED BY <2>5, <2>6
<1> DEFINE f == CHOOSE g : g = [n \in 0..N |-> F(g, n)]
<1>2. scan(n0, near, ids, id, first) = f[N]
    BY Zenon DEF scan
<1> HIDE DEF F
<1>3. f = [n \in 0..N |-> F(f, n)]
    BY <1>1, Zenon
<1> HIDE DEF f
<1>4. \A n \in 0..N : f[n] = F(f, n)
    BY <1>3
<1>5. 0 \in 0..N /\ \A n \in 1..N : n \in 0..N /\ n # 0
    BY <1>0
<1>6. f[0] = Start(ids)
    BY <1>4, <1>5, Zenon DEF F, Start
<1>7. \A n \in 1..N : f[n] = Visit(n0, near, id, first, f[n - 1], n)
    BY <1>4, <1>5, Zenon DEF F, Visit
<1> QED BY <1>2, <1>6, <1>7

(* the passes that close a group,                                          *)
LEMMA CloseExists ==
    ASSUME NEW n0 \in Nat, NEW near, NEW ids, NEW id, NEW i
    PROVE  \E f : /\ close_group(n0, near, ids, id, i) = f[n0].ids
                  /\ f[0] = [ids |-> ids, found |-> i]
                  /\ \A n \in 1..n0 : f[n] = IF f[n - 1].found = -1 THEN f[n - 1] ELSE scan(n0, near, f[n - 1].ids, id, f[n - 1].found)
<1> DEFINE F(g, n) == IF n = 0 THEN [ids |-> ids, found |-> i]
                      ELSE IF g[n - 1].found = -1 THEN g[n - 1] ELSE scan(n0, near, g[n - 1].ids, id, g[n - 1].found)
           Good(m) == \E g : g = [n \in 0..m |-> F(g, n)]
           Bad == {m \in Nat : ~Good(m)}
           k == Min(Bad)
<1>0. n0 \in Nat
    OBVIOUS
<1>1. Good(n0)
    <2>2. SUFFICES ASSUME Bad # {} PROVE FALSE
        BY <1>0
    <2>3. k \in Bad /\ \A m \in Bad : k <= m
        <3> HIDE DEF Good
        <3> QED BY <2>2, LeastNat
    <2> HIDE DEF k
    <2>4. k \in Nat /\ ~Good(k)
        BY <2>3
    <2>5. CASE k = 0
        <3> DEFINE g == [n \in 0..0 |-> [ids |-> ids, found |-> i]]
        <3>1. g = [n \in 0..0 |-> F(g, n)]
            OBVIOUS
        <3> HIDE DEF g, F
        <3> QED BY <2>4, <2>5, <3>1
    <2>6. CASE k # 0
        <3>1. k - 1 \in Nat /\ ~(k <= k - 1)
            BY <2>4, <2>6
        <3>a. Good(k - 1)
            <4> HIDE DEF Good
            <4> QED BY <2>3, <3>1
        <3>2. PICK g : g = [n \in 0..(k - 1) |-> F(g, n)]
            BY <3>a
        <3> DEFINE h == [n \in 0..k |-> IF n = k THEN F(g, k) ELSE g[n]]
        <3>3. \A n \in 0..k : n # 0 => h[n - 1] = g[n - 1]
            BY <2>4
        <3>4. \A n \in 0..k : F(h, n) = F(g, n)
            BY <3>3
        <3>5. \A n \in 0..k : n # k => g[n] = F(g, n)
            <4> HIDE DEF F
            <4> QED BY <2>4, <3>2
        <3> HIDE DEF F
        <3>6. \A n \in 0..k : h[n] = F(h, n)
            BY <3>4, <3>5
        <3>7. h = [n \in 0..k |-> F(h, n)]
            BY <3>6
        <3> HIDE DEF h
        <3> QED BY <2>4, <3>7
    <2> QED BY <2>5, <2>6
<1> DEFINE f == CHOOSE g : g = [n \in 0..n0 |-> F(g, n)]
<1>2. close_group(n0, near, ids, id, i) = f[n0].ids
    BY Zenon DEF close_group
<1> HIDE DEF F
<1>3. f = [n \in 0..n0 |-> F(f, n)]
    BY <1>1, Zenon
<1> HIDE DEF f
<1>4. \A n \in 0..n0 : f[n] = F(f, n)
    BY <1>3
<1>5. 0 \in 0..n0 /\ \A n \in 1..n0 : n \in 0..n0 /\ n # 0
    BY <1>0
<1>6. f[0] = [ids |-> ids, found |-> i]
    BY <1>4, <1>5, Zenon DEF F
<1>7. \A n \in 1..n0 : f[n] = IF f[n - 1].found = -1 THEN f[n - 1] ELSE scan(n0, near, f[n - 1].ids, id, f[n - 1].found)
    BY <1>4, <1>5, Zenon DEF F
<1> QED BY <1>2, <1>6, <1>7

(* No object has a group yet.                                              *)
NoGroups(n) == [ids |-> [k \in 0..(n - 1) |-> 0], next |-> 1, skipped |-> 0]

(* and the search for groups.                                              *)
LEMMA FindExists ==
    ASSUME NEW n0 \in Nat, NEW M, NEW accuracy
    PROVE  \E f : /\ find_groups_by_min_distance(n0, M, accuracy) = [ids |-> f[n0].ids, nb |-> IF f[n0].next = 2 /\ f[n0].skipped = 0 THEN 0 ELSE f[n0].next - 1]
                  /\ f[0] = NoGroups(n0)
                  /\ \A n \in 1..n0 : f[n] = IF f[n - 1].ids[n - 1] # 0 THEN f[n - 1] ELSE new_group(n0, MinimallyConnected(n0, M, accuracy), f[n - 1], n - 1)
<1> DEFINE F(g, n) == IF n = 0 THEN NoGroups(n0)
                      ELSE IF g[n - 1].ids[n - 1] # 0 THEN g[n - 1] ELSE new_group(n0, MinimallyConnected(n0, M, accuracy), g[n - 1], n - 1)
           Good(m) == \E g : g = [n \in 0..m |-> F(g, n)]
           Bad == {m \in Nat : ~Good(m)}
           k == Min(Bad)
<1>0. n0 \in Nat
    OBVIOUS
<1>1. Good(n0)
    <2>2. SUFFICES ASSUME Bad # {} PROVE FALSE
        BY <1>0
    <2>3. k \in Bad /\ \A m \in Bad : k <= m
        <3> HIDE DEF Good
        <3> QED BY <2>2, LeastNat
    <2> HIDE DEF k
    <2>4. k \in Nat /\ ~Good(k)
        BY <2>3
    <2>5. CASE k = 0
        <3> DEFINE g == [n \in 0..0 |-> NoGroups(n0)]
        <3>1. g = [n \in 0..0 |-> F(g, n)]
            OBVIOUS
        <3> HIDE DEF g, F
        <3> QED BY <2>4, <2>5, <3>1
    <2>6. CASE k # 0
        <3>1. k - 1 \in Nat /\ ~(k <= k - 1)
            BY <2>4, <2>6
        <3>a. Good(k - 1)
            <4> HIDE DEF Good
            <4> QED BY <2>3, <3>1
        <3>2. PICK g : g = [n \in 0..(k - 1) |-> F(g, n)]
            BY <3>a
        <3> DEFINE h == [n \in 0..k |-> IF n = k THEN F(g, k) ELSE g[n]]
        <3>3. \A n \in 0..k : n # 0 => h[n - 1] = g[n - 1]
            BY <2>4
        <3>4. \A n \in 0..k : F(h, n) = F(g, n)
            BY <3>3
        <3>5. \A n \in 0..k : n # k => g[n] = F(g, n)
            <4> HIDE DEF F
            <4> QED BY <2>4, <3>2
        <3> HIDE DEF F
        <3>6. \A n \in 0..k : h[n] = F(h, n)
            BY <3>4, <3>5
        <3>7. h = [n \in 0..k |-> F(h, n)]
            BY <3>6
        <3> HIDE DEF h
        <3> QED BY <2>4, <3>7
    <2> QED BY <2>5, <2>6
<1> DEFINE f == CHOOSE g : g = [n \in 0..n0 |-> F(g, n)]
<1>2. find_groups_by_min_distance(n0, M, accuracy) = [ids |-> f[n0].ids, nb |-> IF f[n0].next = 2 /\ f[n0].skipped = 0 THEN 0 ELSE f[n0].next - 1]
    BY Zenon DEF find_groups_by_min_distance, NoGroups
<1> HIDE DEF F
<1>3. f = [n \in 0..n0 |-> F(f, n)]
    BY <1>1, Zenon
<1> HIDE DEF f
<1>4. \A n \in 0..n0 : f[n] = F(f, n)
    BY <1>3
<1>5. 0 \in 0..n0 /\ \A n \in 1..n0 : n \in 0..n0 /\ n # 0
    BY <1>0
<1>6. f[0] = NoGroups(n0)
    BY <1>4, <1>5, Zenon DEF F
<1>7. \A n \in 1..n0 : f[n] = IF f[n - 1].ids[n - 1] # 0 THEN f[n - 1] ELSE new_group(n0, MinimallyConnected(n0, M, accuracy), f[n - 1], n - 1)
    BY <1>4, <1>5, Zenon DEF F
<1> QED BY <1>2, <1>6, <1>7

-----------------------------------------------------------------------------
(* Sequences and their parts.                                              *)

(* The filter keeps what is in the set, in order.                          *)
LEMMA AmongIs ==
    ASSUME NEW T, NEW s \in Seq(T), NEW S
    PROVE  /\ Among(s, S) \in Seq(T)
           /\ ToSet(Among(s, S)) = ToSet(s) \cap S
           /\ \A i, j \in DOMAIN Among(s, S) : i < j =>
                 \E a, b \in DOMAIN s :
                     a < b /\ Among(s, S)[i] = s[a] /\ Among(s, S)[j] = s[b]
<1>1. PICK f : /\ Among(s, S) = f[Len(s)]
               /\ f[0] = <<>>
               /\ \A n \in 1..Len(s) : f[n] = IF s[n] \in S THEN Append(f[n - 1], s[n]) ELSE f[n - 1]
    BY AmongExists
<1>0. Len(s) \in Nat /\ DOMAIN s = 1..Len(s)
    OBVIOUS
<1> DEFINE Kept(n) == {s[a] : a \in 1..n} \cap S
           InOrder(n) == \A i, j \in DOMAIN f[n] : i < j =>
                             \E a, b \in 1..n : a < b /\ f[n][i] = s[a] /\ f[n][j] = s[b]
           Is(n) == f[n] \in Seq(T) /\ ToSet(f[n]) = Kept(n) /\ InOrder(n)
           Bad == {m \in 0..Len(s) : ~Is(m)}
           k == Min(Bad)
<1>2. Is(Len(s))
    <2> HIDE DEF Is
    <2>1. SUFFICES ASSUME Bad # {} PROVE FALSE
        BY <1>0
    <2>a. Bad \subseteq Nat
        BY <1>0
    <2>2. k \in Bad /\ \A m \in Bad : k <= m
        BY <2>a, <2>1, LeastNat, Zenon
    <2> HIDE DEF k
    <2> USE DEF Is
    <2>3. k \in 0..Len(s) /\ ~Is(k)
        BY <2>2
    <2>4. CASE k = 0
        <3>2. 1..0 = {} /\ DOMAIN <<>> = {}
            OBVIOUS
        <3>3. f[k] = <<>>
            BY <1>1, <2>4
        <3>4. f[k] \in Seq(T) /\ ToSet(f[k]) = {} /\ DOMAIN f[k] = {}
            BY <3>2, <3>3 DEF ToSet
        <3>5. Kept(k) = {}
            BY <2>4, <3>2
        <3> QED BY <2>3, <3>4, <3>5
    <2>5. CASE k # 0
        <3>1. k - 1 \in 0..Len(s) /\ ~(k <= k - 1) /\ k \in DOMAIN s /\ k \in 1..Len(s)
            BY <1>0, <2>3, <2>5
        <3>2. Is(k - 1)
            BY <2>2, <3>1
        <3>3. f[k - 1] \in Seq(T) /\ ToSet(f[k - 1]) = Kept(k - 1) /\ InOrder(k - 1)
            BY <3>2
        <3>4. s[k] \in T
            BY <3>1
        <3>5. {s[a] : a \in 1..k} = {s[a] : a \in 1..(k - 1)} \cup {s[k]}
            BY <1>0, <2>3, <2>5
        <3>6. CASE s[k] \notin S
            <4>1. f[k] = f[k - 1]
                BY <1>1, <3>1, <3>6
            <4>2. Kept(k) = Kept(k - 1)
                BY <3>5, <3>6
            <4>a. \A a \in 1..(k - 1) : a \in 1..k
                BY <3>1
            <4>3. InOrder(k)
                <5>1. SUFFICES ASSUME NEW i \in DOMAIN f[k - 1], NEW j \in DOMAIN f[k - 1], i < j
                      PROVE  \E a, b \in 1..k :
                                 a < b /\ f[k - 1][i] = s[a] /\ f[k - 1][j] = s[b]
                    BY <4>1
                <5>2. PICK a, b \in 1..(k - 1) :
                          a < b /\ f[k - 1][i] = s[a] /\ f[k - 1][j] = s[b]
                    BY <3>3, <5>1
                <5> QED BY <4>a, <5>2
            <4> QED BY <2>3, <3>3, <4>1, <4>2, <4>3
        <3>7. CASE s[k] \in S
            <4>1. f[k] = Append(f[k - 1], s[k])
                BY <1>1, <3>1, <3>7
            <4>2. f[k] \in Seq(T)
                BY <3>3, <3>4, <4>1
            <4>a. /\ DOMAIN f[k] = DOMAIN f[k - 1] \cup {Len(f[k - 1]) + 1}
                  /\ f[k][Len(f[k - 1]) + 1] = s[k]
                  /\ \A i \in DOMAIN f[k - 1] : f[k][i] = f[k - 1][i]
                  /\ \A i \in DOMAIN f[k - 1] : i \in Nat /\ i <= Len(f[k - 1])
                  /\ Len(f[k - 1]) \in Nat
                BY <3>3, <3>4, <4>1
            <4>3. ToSet(f[k]) = ToSet(f[k - 1]) \cup {s[k]}
                BY <4>a, Zenon DEF ToSet
            <4>4. ToSet(f[k]) = Kept(k)
                BY <3>3, <3>5, <3>7, <4>3
            <4>5. ASSUME NEW i \in DOMAIN f[k], NEW j \in DOMAIN f[k], i < j
                  PROVE  \E a, b \in 1..k : a < b /\ f[k][i] = s[a] /\ f[k][j] = s[b]
                <5>1. i \in DOMAIN f[k - 1]
                    BY <4>5, <4>a
                <5>2. CASE j \in DOMAIN f[k - 1]
                    <6>1. PICK a, b \in 1..(k - 1) :
                              a < b /\ f[k - 1][i] = s[a] /\ f[k - 1][j] = s[b]
                        BY <3>3, <4>5, <5>1, <5>2
                    <6>2. a \in 1..k /\ b \in 1..k
                        BY <1>0, <2>3
                    <6> QED BY <4>a, <5>1, <5>2, <6>1, <6>2
                <5>3. CASE j = Len(f[k - 1]) + 1
                    <6>1. f[k - 1][i] \in Kept(k - 1)
                        BY <3>3, <5>1, Zenon DEF ToSet
                    <6>2. PICK a \in 1..(k - 1) : f[k - 1][i] = s[a]
                        BY <6>1
                    <6>3. a \in 1..k /\ k \in 1..k /\ a < k
                        BY <1>0, <2>3, <2>5
                    <6> QED BY <4>a, <5>1, <5>3, <6>2, <6>3
                <5> QED BY <4>a, <5>2, <5>3
            <4> QED BY <2>3, <4>2, <4>4, <4>5
        <3> QED BY <3>6, <3>7
    <2> QED BY <2>4, <2>5
<1>3. Kept(Len(s)) = ToSet(s) \cap S
    BY <1>0 DEF ToSet
<1>4. Among(s, S) = f[Len(s)]
    BY <1>1
<1>5. InOrder(Len(s)) /\ f[Len(s)] \in Seq(T) /\ ToSet(f[Len(s)]) = Kept(Len(s))
    BY <1>2
<1>6. InOrder(Len(s)) => \A i, j \in DOMAIN f[Len(s)] : i < j =>
          \E a, b \in DOMAIN s : a < b /\ f[Len(s)][i] = s[a] /\ f[Len(s)][j] = s[b]
    BY <1>0
<1> HIDE DEF Kept, InOrder
<1> QED BY <1>3, <1>4, <1>5, <1>6

-----------------------------------------------------------------------------
(* Moving the lines of a matrix.                                           *)

(* Memory that moves down.                                                 *)
LEMMA MemmoveIs ==
    ASSUME NEW a \in Seq(Nat), NEW dst \in Nat, NEW src \in Nat, NEW n \in Nat,
           src + n <= Len(a), dst <= src
    PROVE  /\ memmove(a, dst, src, n) \in Seq(Nat)
           /\ Len(memmove(a, dst, src, n)) = Len(a)
           /\ \A p \in 0..(Len(a) - 1) :
                 memmove(a, dst, src, n)[p + 1] =
                     IF dst <= p /\ p < dst + n THEN a[p - dst + src + 1] ELSE a[p + 1]
<1> DEFINE b == memmove(a, dst, src, n)
<1>0. Len(a) \in Nat /\ DOMAIN a = 1..Len(a) /\ \A p \in 1..Len(a) : a[p] \in Nat
    OBVIOUS
<1>1. /\ DOMAIN b = 1..Len(a)
      /\ b = [p \in 1..Len(a) |-> b[p]]
      /\ \A p \in 1..Len(a) : b[p] = IF p - 1 \in dst..(dst + n - 1) THEN a[p - dst + src] ELSE a[p]
    BY <1>0 DEF memmove
<1> HIDE DEF b
<1>2. \A p \in 1..Len(a) : p - 1 \in dst..(dst + n - 1) => p - dst + src \in 1..Len(a)
    BY <1>0
<1>3. \A p \in 1..Len(a) : b[p] \in Nat
    BY <1>0, <1>1, <1>2
<1>4. b \in Seq(Nat) /\ Len(b) = Len(a)
    BY <1>0, <1>1, <1>3
<1>5. ASSUME NEW p \in 0..(Len(a) - 1)
      PROVE  b[p + 1] = IF dst <= p /\ p < dst + n THEN a[p - dst + src + 1] ELSE a[p + 1]
    <2>1. p + 1 \in 1..Len(a) /\ (p + 1) - 1 = p /\ (p + 1) - dst + src = p - dst + src + 1
        BY <1>0
    <2>2. p \in dst..(dst + n - 1) <=> dst <= p /\ p < dst + n
        BY <1>0
    <2>3. b[p + 1] = IF (p + 1) - 1 \in dst..(dst + n - 1) THEN a[(p + 1) - dst + src] ELSE a[p + 1]
        BY <1>1, <2>1, Zenon
    <2>4. CASE p \in dst..(dst + n - 1)
        BY <2>1, <2>2, <2>3, <2>4, Zenon
    <2>5. CASE p \notin dst..(dst + n - 1)
        BY <2>1, <2>2, <2>3, <2>5, Zenon
    <2> QED BY <2>4, <2>5
<1> QED BY <1>4, <1>5 DEF b

(* A line is behind the lines before it.                                   *)
LEMMA LineOrder ==
    ASSUME NEW r \in Nat, NEW j \in Nat, NEW w \in Nat, r < j
    PROVE  r * w + w <= j * w
<1>1. PICK e \in Nat : j = r + 1 + e
    <2>1. j - r - 1 \in Nat /\ j = r + 1 + (j - r - 1)
        OBVIOUS
    <2> QED BY <2>1
<1>2. j * w = r * w + w + e * w
    BY <1>1
<1>3. e * w \in Nat /\ r * w \in Nat
    OBVIOUS
<1> QED BY <1>2, <1>3

(* The cells before position q of the shorter matrix have moved to where   *)
(* they belong, the others have not: line and column i are left out.       *)
Skip(x, i) == IF x < i THEN x ELSE x + 1
Moved(b, a, n, i, q) ==
    /\ b \in Seq(Nat) /\ Len(b) = Len(a)
    /\ \A p \in 0..(Len(a) - 1) : q <= p => b[p + 1] = a[p + 1]
    /\ \A r, c \in 0..(n - 2) : r * (n - 1) + c < q =>
          b[r * (n - 1) + c + 1] = a[Skip(r, i) * n + Skip(c, i) + 1]

(* One more piece is moved.                                                *)
LEMMA MoveOn ==
    ASSUME NEW a \in Seq(Nat), NEW n \in Nat \ {0}, NEW i \in 0..(n - 1), n * n <= Len(a),
           NEW b, NEW q \in Nat, NEW s \in Nat, NEW len \in Nat,
           Moved(b, a, n, i, q), q <= s, s + len <= Len(a),
           \A r, c \in 0..(n - 2) : q <= r * (n - 1) + c /\ r * (n - 1) + c < q + len =>
              Skip(r, i) * n + Skip(c, i) = s + (r * (n - 1) + c - q)
    PROVE  Moved(memmove(b, q, s, len), a, n, i, q + len)
<1> DEFINE m == memmove(b, q, s, len)
<1>0. Len(a) \in Nat
    OBVIOUS
<1>1. b \in Seq(Nat) /\ Len(b) = Len(a)
    BY DEF Moved
<1>2. /\ m \in Seq(Nat) /\ Len(m) = Len(a)
      /\ \A p \in 0..(Len(a) - 1) :
            m[p + 1] = IF q <= p /\ p < q + len THEN b[p - q + s + 1] ELSE b[p + 1]
    <2>1. s + len <= Len(b)
        BY <1>1
    <2>2. /\ m \in Seq(Nat) /\ Len(m) = Len(b)
          /\ \A p \in 0..(Len(b) - 1) :
                m[p + 1] = IF q <= p /\ p < q + len THEN b[p - q + s + 1] ELSE b[p + 1]
        BY <1>1, <2>1, MemmoveIs
    <2> HIDE DEF m
    <2> QED BY <1>1, <2>2, Zenon
<1> HIDE DEF m
<1>3. \A p \in 0..(Len(a) - 1) : q <= p => b[p + 1] = a[p + 1]
    BY DEF Moved
<1>4. ASSUME NEW p \in 0..(Len(a) - 1), q + len <= p PROVE m[p + 1] = a[p + 1]
    <2>1. q <= p /\ ~(p < q + len)
        BY <1>0, <1>4
    <2>2. m[p + 1] = b[p + 1]
        BY <1>2, <2>1, Zenon
    <2> QED BY <1>3, <2>1, <2>2, Zenon
<1>5. ASSUME NEW r \in 0..(n - 2), NEW c \in 0..(n - 2), r * (n - 1) + c < q + len
      PROVE  m[r * (n - 1) + c + 1] = a[Skip(r, i) * n + Skip(c, i) + 1]
    <2> DEFINE p == r * (n - 1) + c
    <2>1. p \in Nat /\ p < Len(a)
        <3>1. r * (n - 1) + (n - 1) <= (n - 1) * (n - 1)
            <4>1. n - 1 \in Nat /\ r \in Nat /\ r < n - 1
                OBVIOUS
            <4> QED BY <4>1, LineOrder
        <3>2. (n - 1) * (n - 1) <= n * n
            OBVIOUS
        <3>3. r * (n - 1) \in Nat /\ n * n \in Nat /\ (n - 1) * (n - 1) \in Nat
            OBVIOUS
        <3> QED BY <1>0, <3>1, <3>2, <3>3
    <2>a. p < q + len
        BY <1>5
    <2>b. p < q => b[p + 1] = a[Skip(r, i) * n + Skip(c, i) + 1]
        BY DEF Moved
    <2>c. q <= p => Skip(r, i) * n + Skip(c, i) = s + (p - q)
        BY <1>5
    <2>s. SUFFICES m[p + 1] = a[Skip(r, i) * n + Skip(c, i) + 1]
        OBVIOUS
    <2> HIDE DEF p
    <2>d. p \in 0..(Len(a) - 1)
        BY <1>0, <2>1
    <2>2. CASE p < q
        <3>1. ~(q <= p)
            BY <2>1, <2>2
        <3>2. m[p + 1] = b[p + 1]
            BY <1>2, <2>d, <3>1, Zenon
        <3> QED BY <2>2, <2>b, <3>2, Zenon
    <2>3. CASE q <= p
        <3>1. m[p + 1] = b[p - q + s + 1]
            BY <1>2, <2>3, <2>a, <2>d
        <3> DEFINE t == p - q + s
        <3>2. t \in 0..(Len(a) - 1) /\ q <= t
            BY <1>0, <2>1, <2>3, <2>a
        <3>3. t = Skip(r, i) * n + Skip(c, i)
            BY <2>1, <2>3, <2>c
        <3> HIDE DEF t
        <3>4. m[p + 1] = b[t + 1] /\ b[t + 1] = a[t + 1]
            BY <1>3, <3>1, <3>2 DEF t
        <3>5. m[p + 1] = a[t + 1]
            BY <3>4, Zenon
        <3> QED BY <3>3, <3>5, Zenon
    <2>4. p < q \/ q <= p
        BY <2>1
    <2> QED BY <2>2, <2>3, <2>4, Zenon
<1> QED BY <1>2, <1>4, <1>5 DEF Moved, m

(* Several pieces of n - 1 cells are moved.                                *)
LEMMA LinesMoveOn ==
    ASSUME NEW a \in Seq(Nat), NEW n \in Nat \ {0}, NEW i \in 0..(n - 1), n * n <= Len(a),
           NEW b, NEW q \in Nat, NEW s \in Nat, NEW m \in Nat,
           Moved(b, a, n, i, q), q <= s,
           \A k \in 0..(m - 1) : s + k * n + (n - 1) <= Len(a),
           \A k \in 0..(m - 1), r, c \in 0..(n - 2) :
              q + k * (n - 1) <= r * (n - 1) + c /\ r * (n - 1) + c < q + k * (n - 1) + (n - 1) =>
              Skip(r, i) * n + Skip(c, i) = s + k * n + (r * (n - 1) + c - (q + k * (n - 1)))
    PROVE  Moved(move_lines(b, n, q, s, m), a, n, i, q + m * (n - 1))
<1>1. PICK f : /\ move_lines(b, n, q, s, m) = f[m]
               /\ f[0] = b
               /\ \A k \in 1..m : f[k] = memmove(f[k - 1], q + (k - 1) * (n - 1),
                                                  s + (k - 1) * n, n - 1)
    <2>1. \E f : /\ move_lines(b, n, q, s, m) = f[m]
                 /\ f[0] = b
                 /\ \A k \in 1..m : f[k] = MoveLine(f[k - 1], n, q, s, k)
        BY ONLY m \in Nat, MoveLinesExists
    <2> QED BY <2>1, Zenon DEF MoveLine
<1> DEFINE Is(k) == Moved(f[k], a, n, i, q + k * (n - 1))
           Bad == {k \in 0..m : ~Is(k)}
           e == Min(Bad)
<1>2. Is(m)
    <2> HIDE DEF Is
    <2>1. SUFFICES ASSUME Bad # {} PROVE FALSE
        OBVIOUS
    <2>a. Bad \subseteq Nat
        OBVIOUS
    <2>2. e \in Bad /\ \A k \in Bad : e <= k
        BY <2>a, <2>1, LeastNat, Zenon
    <2> HIDE DEF e
    <2>3. e \in 0..m /\ ~Is(e)
        BY <2>2
    <2>4. CASE e = 0
        <3>1. f[e] = b /\ q + e * (n - 1) = q
            BY <1>1, <2>4
        <3> QED BY <2>3, <3>1 DEF Is
    <2>5. CASE e # 0
        <3> DEFINE k == e - 1
        <3>1. k \in 0..(m - 1) /\ k \in 0..m /\ e \in 1..m /\ ~(e <= k) /\ k \in Nat
            BY <2>3, <2>5
        <3> DEFINE qk == q + k * (n - 1)
                   sk == s + k * n
        <3>2. Is(k)
            BY <2>2, <3>1
        <3>3. Moved(f[k], a, n, i, qk)
            BY <3>2 DEF Is
        <3>4. f[e] = memmove(f[k], qk, sk, n - 1)
            BY <1>1, <3>1
        <3>5. qk \in Nat /\ sk \in Nat /\ n - 1 \in Nat
            <4> HIDE DEF k
            <4>1. k * (n - 1) \in Nat /\ k * n \in Nat
                BY <3>1
            <4> QED BY <4>1
        <3>6. qk <= sk
            <4>1. k * n = k * (n - 1) + k
                BY <3>1
            <4>2. k * (n - 1) \in Nat
                BY <3>1
            <4> QED BY <3>1, <4>1, <4>2
        <3>7. sk + (n - 1) <= Len(a)
            BY <3>1, Zenon
        <3>8. \A r, c \in 0..(n - 2) :
                 qk <= r * (n - 1) + c /\ r * (n - 1) + c < qk + (n - 1) =>
                 Skip(r, i) * n + Skip(c, i) = sk + (r * (n - 1) + c - qk)
            BY <3>1, Zenon
        <3>9. qk + (n - 1) = q + e * (n - 1)
            <4>1. k + 1 = e
                BY <2>3
            <4>2. k * (n - 1) + (n - 1) = (k + 1) * (n - 1)
                BY <3>1
            <4>3. k * (n - 1) \in Nat
                BY <3>1
            <4> HIDE DEF k
            <4> QED BY <4>1, <4>2, <4>3
        <3> HIDE DEF qk, sk, k
        <3>10. Moved(memmove(f[k], qk, sk, n - 1), a, n, i, qk + (n - 1))
            BY <3>3, <3>5, <3>6, <3>7, <3>8, MoveOn
        <3>11. Moved(f[e], a, n, i, q + e * (n - 1))
            BY <3>4, <3>9, <3>10, Zenon
        <3> QED BY <2>3, <3>11 DEF Is
    <2> QED BY <2>4, <2>5
<1> QED BY <1>1, <1>2

(* A cell of the piece that starts at column i of a line is in that line   *)
(* or in the next.                                                         *)
LEMMA PieceCells ==
    ASSUME NEW w \in Nat, NEW i \in 0..w, NEW k \in Nat, NEW r \in Nat, NEW c \in 0..(w - 1),
           k * w + i <= r * w + c, r * w + c < k * w + i + w
    PROVE  (r = k /\ i <= c) \/ (r = k + 1 /\ c < i)
<1>1. k * w \in Nat /\ r * w \in Nat
    OBVIOUS
<1>2. CASE r < k
    <2>1. r * w + w <= k * w
        BY <1>2, LineOrder
    <2> QED BY <1>1, <2>1
<1>3. CASE k + 1 < r
    <2>1. (k + 1) * w + w <= r * w
        BY <1>3, LineOrder
    <2>2. (k + 1) * w = k * w + w
        OBVIOUS
    <2> QED BY <1>1, <2>1, <2>2
<1>4. CASE r = k
    <2>1. r * w = k * w
        BY <1>4
    <2> QED BY <1>1, <1>4, <2>1
<1>5. CASE r = k + 1
    <2>1. r * w = k * w + w
        BY <1>5
    <2> QED BY <1>1, <1>5, <2>1
<1> QED BY <1>2, <1>3, <1>4, <1>5

(* The lines before line i have moved.                                     *)
LEMMA ShiftAboveIs ==
    ASSUME NEW a \in Seq(Nat), NEW n \in Nat \ {0}, NEW i \in 0..(n - 1), n * n <= Len(a)
    PROVE  Moved(shift_above(a, n, i), a, n, i, i * (n - 1))
<1>0. Len(a) \in Nat /\ n - 1 \in Nat /\ i \in Nat /\ i <= n - 1
    OBVIOUS
<1>1. CASE i = 0
    <2>1. shift_above(a, n, i) = a /\ i * (n - 1) = 0
        BY <1>0, <1>1 DEF shift_above
    <2>2. \A r, c \in 0..(n - 2) : ~(r * (n - 1) + c < 0)
        OBVIOUS
    <2>3. Moved(a, a, n, i, 0)
        BY <2>2 DEF Moved
    <2> QED BY <2>1, <2>3
<1>2. CASE i # 0
    <2> DEFINE w == n - 1
               b == move_lines(a, n, i, i + 1, i - 1)
               q == (i - 1) * w + i
               s == (i - 1) * n + i + 1
    <2>0. i - 1 \in Nat /\ i + 1 \in Nat /\ w \in Nat
        BY <1>0, <1>2
    <2>1. Moved(a, a, n, i, i)
        <3>1. ASSUME NEW r \in 0..(n - 2), NEW c \in 0..(n - 2), r * (n - 1) + c < i
              PROVE  r = 0 /\ c < i
            <4>1. CASE r # 0
                <5>1. 0 * w + w <= r * w
                    BY <2>0, <4>1, LineOrder
                <5>2. r * w \in Nat
                    OBVIOUS
                <5> QED BY <1>0, <3>1, <5>1, <5>2
            <4>2. CASE r = 0
                BY <3>1, <4>2
            <4> QED BY <4>1, <4>2
        <3>2. ASSUME NEW r \in 0..(n - 2), NEW c \in 0..(n - 2), r * (n - 1) + c < i
              PROVE  r * (n - 1) + c = Skip(r, i) * n + Skip(c, i)
            BY <1>0, <1>2, <3>1, <3>2 DEF Skip
        <3> QED BY <3>2 DEF Moved
    <2>2. Moved(b, a, n, i, i + (i - 1) * w)
        <3>1. ASSUME NEW k \in 0..((i - 1) - 1) PROVE (i + 1) + k * n + (n - 1) <= Len(a)
            <4>1. (k + 2) * n = k * n + n + n
                OBVIOUS
            <4>2. (k + 2) * n <= n * n
                <5>1. k + 2 < n + 1 /\ k + 2 \in Nat
                    BY <1>0
                <5>2. (k + 2) * n + n <= (n + 1) * n
                    BY <5>1, LineOrder
                <5>3. (n + 1) * n = n * n + n
                    OBVIOUS
                <5>4. n * n \in Nat /\ (k + 2) * n \in Nat
                    BY <5>1
                <5> QED BY <5>2, <5>3, <5>4
            <4>3. k * n \in Nat
                OBVIOUS
            <4> QED BY <1>0, <4>1, <4>2, <4>3
        <3>2. ASSUME NEW k \in 0..((i - 1) - 1), NEW r \in 0..(n - 2), NEW c \in 0..(n - 2),
                     i + k * (n - 1) <= r * (n - 1) + c,
                     r * (n - 1) + c < i + k * (n - 1) + (n - 1)
              PROVE  Skip(r, i) * n + Skip(c, i)
                        = (i + 1) + k * n + (r * (n - 1) + c - (i + k * (n - 1)))
            <4>0. k * (n - 1) \in Nat /\ r * (n - 1) \in Nat /\ k \in Nat /\ r \in Nat /\ i \in 0..w
                  /\ c \in 0..(w - 1)
                BY <1>0
            <4>1. (r = k /\ i <= c) \/ (r = k + 1 /\ c < i)
                <5>1. k * w + i <= r * w + c /\ r * w + c < k * w + i + w
                    BY <3>2, <4>0
                <5> HIDE DEF w
                <5> QED BY <2>0, <4>0, <5>1, PieceCells
            <4>2. r < i
                BY <1>0, <4>1
            <4>3. k * (n - 1) = k * n - k /\ (k + 1) * n = k * n + n
                  /\ (k + 1) * (n - 1) = k * n - k + n - 1
                BY <4>0
            <4>4. k * n \in Nat
                BY <4>0
            <4> QED BY <1>0, <4>1, <4>2, <4>3, <4>4 DEF Skip
        <3>3. i <= i + 1
            BY <1>0
        <3> DEFINE m == i - 1
        <3>4. Moved(move_lines(a, n, i, i + 1, m), a, n, i, i + m * (n - 1))
            <4>1. m \in Nat
                BY <2>0
            <4>2. \A k \in 0..(m - 1) : (i + 1) + k * n + (n - 1) <= Len(a)
                BY <3>1
            <4>3. \A k \in 0..(m - 1), r, c \in 0..(n - 2) :
                     i + k * (n - 1) <= r * (n - 1) + c
                        /\ r * (n - 1) + c < i + k * (n - 1) + (n - 1) =>
                     Skip(r, i) * n + Skip(c, i)
                        = (i + 1) + k * n + (r * (n - 1) + c - (i + k * (n - 1)))
                BY <3>2, Zenon
            <4> HIDE DEF m
            <4> QED BY <1>0, <2>0, <2>1, <3>3, <4>1, <4>2, <4>3, LinesMoveOn, Zenon
        <3> QED BY <3>4
    <2>3. shift_above(a, n, i) = memmove(b, q, s, n - i - 1)
        BY <1>2 DEF shift_above
    <2>4. q \in Nat /\ s \in Nat /\ n - i - 1 \in Nat /\ (i - 1) * w \in Nat /\ (i - 1) * n \in Nat
        BY <1>0, <2>0
    <2>5. (i - 1) * n = (i - 1) * w + (i - 1) /\ i * w = (i - 1) * w + w /\ i * n = (i - 1) * n + n
        BY <1>0
    <2>6. i * n <= n * n
        <3>1. i * n + n <= n * n
            BY <1>0, LineOrder
        <3>2. i * n \in Nat /\ n * n \in Nat
            BY <1>0
        <3> QED BY <3>1, <3>2
    <2>7. q <= s /\ s + (n - i - 1) <= Len(a) /\ q + (n - i - 1) = i * w
        BY <1>0, <2>4, <2>5, <2>6
    <2>8. ASSUME NEW r \in 0..(n - 2), NEW c \in 0..(n - 2),
                 q <= r * (n - 1) + c, r * (n - 1) + c < q + (n - i - 1)
          PROVE  Skip(r, i) * n + Skip(c, i) = s + (r * (n - 1) + c - q)
        <3>0. r \in Nat /\ r * w \in Nat /\ i \in 0..w /\ c \in 0..(w - 1)
            BY <1>0
        <3>1. (r = i - 1 /\ i <= c) \/ (r = (i - 1) + 1 /\ c < i)
            <4>1. (i - 1) * w + i <= r * w + c /\ r * w + c < (i - 1) * w + i + w
                BY <1>0, <2>4, <2>8, <3>0
            <4> HIDE DEF w
            <4> QED BY <2>0, <3>0, <4>1, PieceCells
        <3>2. ~(r = i /\ c < i)
            <4>1. r * w + c < i * w
                BY <2>7, <2>8
            <4>2. i * w \in Nat
                BY <1>0, <2>0
            <4> QED BY <3>0, <4>1, <4>2
        <3>3. r = i - 1 /\ i <= c
            BY <1>0, <3>1, <3>2
        <3>4. Skip(r, i) = i - 1 /\ Skip(c, i) = c + 1
            BY <1>0, <3>3 DEF Skip
        <3>5. r * (n - 1) = (i - 1) * w
            BY <3>3
        <3> QED BY <2>4, <3>4, <3>5
    <2>9. Moved(b, a, n, i, q)
        <3>1. q = i + (i - 1) * w
            BY <1>0, <2>4
        <3> QED BY <2>2, <3>1
    <2> HIDE DEF b, q, s
    <2>10. Moved(memmove(b, q, s, n - i - 1), a, n, i, q + (n - i - 1))
        BY <2>4, <2>7, <2>8, <2>9, MoveOn
    <2> QED BY <2>3, <2>7, <2>10
<1> QED BY <1>1, <1>2

(* The whole matrix has moved: line and column i are gone.                 *)
LEMMA ShiftMatrixIs ==
    ASSUME NEW a \in Seq(Nat), NEW n \in Nat \ {0}, NEW i \in 0..(n - 1), n * n <= Len(a)
    PROVE  /\ shift_matrix(a, n, i) \in Seq(Nat)
           /\ Len(shift_matrix(a, n, i)) = Len(a)
           /\ \A r, c \in 0..(n - 2) : At(shift_matrix(a, n, i), n - 1, r, c)
                                          = At(a, n, Skip(r, i), Skip(c, i))
<1> DEFINE w == n - 1
           z == shift_matrix(a, n, i)
<1>0. Len(a) \in Nat /\ w \in Nat /\ i \in Nat /\ i <= w /\ w * w \in Nat /\ i * w \in Nat
    OBVIOUS
<1>1. Moved(shift_above(a, n, i), a, n, i, i * (n - 1))
    BY ShiftAboveIs
<1>2. Moved(z, a, n, i, w * w)
    <2>1. CASE i = n - 1
        BY <1>1, <2>1 DEF shift_matrix
    <2>2. CASE i # n - 1
        <3> DEFINE b0 == shift_above(a, n, i)
                   q0 == i * w
                   s0 == (i + 1) * n
                   b1 == memmove(b0, q0, s0, i)
                   q1 == i * w + i
                   s1 == (i + 1) * n + i + 1
                   m  == n - 2 - i
                   b2 == move_lines(b1, n, q1, s1, m)
                   q2 == (n - 2) * w + i
                   s2 == (n - 1) * n + i + 1
                   len2 == n - i - 1
        <3>0. i < w /\ m \in Nat /\ len2 \in Nat /\ n - 2 \in Nat
            BY <1>0, <2>2
        <3>a. z = memmove(b2, q2, s2, len2)
            BY <2>2 DEF shift_matrix
        <3>b. /\ (i + 1) * n = i * w + i + n
              /\ (n - 2) * w = i * w + m * w
              /\ w * w = (n - 2) * w + w
              /\ (n - 1) * n = (n - 2) * w + w + (n - 1)
              /\ n * n = (n - 1) * n + n
              /\ m * n = m * w + m
            BY <1>0, <3>0
        <3>c. i * w \in Nat /\ m * w \in Nat /\ (n - 2) * w \in Nat /\ w * w \in Nat
            BY <1>0, <3>0
        <3>d. /\ q0 \in Nat /\ s0 \in Nat /\ q1 \in Nat /\ s1 \in Nat /\ q2 \in Nat /\ s2 \in Nat
              /\ q0 <= s0 /\ q1 <= s1 /\ q2 <= s2
              /\ q0 + i = q1 /\ q1 + m * w = q2 /\ q2 + len2 = w * w
              /\ s2 + len2 = n * n
            BY <1>0, <3>0, <3>b, <3>c
        <3>e. s0 + i <= Len(a)
            BY <1>0, <3>0, <3>b, <3>c
        <3>1. Moved(b1, a, n, i, q1)
            <4>1. ASSUME NEW r \in 0..(n - 2), NEW c \in 0..(n - 2),
                         q0 <= r * (n - 1) + c, r * (n - 1) + c < q0 + i
                  PROVE  Skip(r, i) * n + Skip(c, i) = s0 + (r * (n - 1) + c - q0)
                <5>0. r * w \in Nat /\ r \in Nat
                    BY <1>0
                <5>1. r = i
                    <6>1. CASE r < i
                        <7>1. r * w + w <= i * w
                            BY <1>0, <6>1, LineOrder
                        <7> QED BY <1>0, <4>1, <5>0, <7>1
                    <6>2. CASE i < r
                        <7>1. i * w + w <= r * w
                            BY <1>0, <6>2, LineOrder
                        <7> QED BY <1>0, <4>1, <5>0, <7>1
                    <6> QED BY <1>0, <5>0, <6>1, <6>2
                <5>2. r * (n - 1) = i * w
                    BY <5>1
                <5>3. c < i
                    BY <1>0, <4>1, <5>2
                <5>4. Skip(r, i) = i + 1 /\ Skip(c, i) = c
                    BY <1>0, <5>1, <5>3 DEF Skip
                <5> QED BY <1>0, <3>b, <5>2, <5>4
            <4> HIDE DEF b0, q0, s0, q1
            <4>2. Moved(b0, a, n, i, q0)
                BY <1>1 DEF b0, q0
            <4>3. Moved(memmove(b0, q0, s0, i), a, n, i, q0 + i)
                BY <1>0, <3>d, <3>e, <4>1, <4>2, MoveOn
            <4> QED BY <3>d, <4>3
        <3>2. Moved(b2, a, n, i, q2)
            <4>1. ASSUME NEW k \in 0..(m - 1) PROVE s1 + k * n + (n - 1) <= Len(a)
                <5>0. k \in Nat /\ k < m /\ k * n \in Nat /\ m * n \in Nat /\ n * n \in Nat
                    BY <3>0
                <5>1. k * n + n <= m * n
                    BY <3>0, <5>0, LineOrder
                <5>2. s1 + m * n <= n * n
                    BY <1>0, <3>0, <3>b, <3>c
                <5> QED BY <1>0, <3>d, <5>0, <5>1, <5>2
            <4>2. ASSUME NEW k \in 0..(m - 1), NEW r \in 0..(n - 2), NEW c \in 0..(n - 2),
                         q1 + k * (n - 1) <= r * (n - 1) + c,
                         r * (n - 1) + c < q1 + k * (n - 1) + (n - 1)
                  PROVE  Skip(r, i) * n + Skip(c, i)
                            = s1 + k * n + (r * (n - 1) + c - (q1 + k * (n - 1)))
                <5>0. k \in Nat /\ r \in Nat /\ i \in 0..w /\ c \in 0..(w - 1) /\ i + k \in Nat
                    BY <1>0, <3>0
                <5>1. k * w \in Nat /\ r * w \in Nat /\ (i + k) * w = i * w + k * w
                    BY <1>0, <5>0
                <5>2. (r = i + k /\ i <= c) \/ (r = i + k + 1 /\ c < i)
                    <6>1. (i + k) * w + i <= r * w + c /\ r * w + c < (i + k) * w + i + w
                        BY <1>0, <4>2, <5>0, <5>1
                    <6> HIDE DEF w
                    <6> QED BY <1>0, <5>0, <6>1, PieceCells
                <5>3. Skip(r, i) = r + 1
                    BY <1>0, <5>0, <5>2 DEF Skip
                <5>4. CASE r = i + k /\ i <= c
                    <6>1. r * (n - 1) = i * w + k * w
                        BY <5>1, <5>4
                    <6>2. (r + 1) * n = (i + 1) * n + k * n
                        BY <1>0, <5>0, <5>4
                    <6>3. Skip(c, i) = c + 1
                        BY <1>0, <5>4 DEF Skip
                    <6>4. k * n \in Nat /\ (i + 1) * n \in Nat
                        BY <1>0, <5>0
                    <6> QED BY <1>0, <5>0, <5>1, <5>3, <6>1, <6>2, <6>3, <6>4
                <5>5. CASE r = i + k + 1 /\ c < i
                    <6>1. r * (n - 1) = i * w + k * w + w
                        BY <1>0, <5>0, <5>5
                    <6>2. (r + 1) * n = (i + 1) * n + k * n + n
                        BY <1>0, <5>0, <5>5
                    <6>3. Skip(c, i) = c
                        BY <1>0, <5>5 DEF Skip
                    <6>4. k * n \in Nat /\ (i + 1) * n \in Nat
                        BY <1>0, <5>0
                    <6> QED BY <1>0, <5>0, <5>1, <5>3, <6>1, <6>2, <6>3, <6>4
                <5> QED BY <5>2, <5>4, <5>5
            <4>3. \A k \in 0..(m - 1) : s1 + k * n + (n - 1) <= Len(a)
                BY <4>1
            <4>4. \A k \in 0..(m - 1), r, c \in 0..(n - 2) :
                     q1 + k * (n - 1) <= r * (n - 1) + c
                        /\ r * (n - 1) + c < q1 + k * (n - 1) + (n - 1) =>
                     Skip(r, i) * n + Skip(c, i)
                        = s1 + k * n + (r * (n - 1) + c - (q1 + k * (n - 1)))
                BY <4>2, Zenon
            <4>5. m \in Nat /\ q1 \in Nat /\ s1 \in Nat /\ q1 <= s1
                BY <3>0, <3>d, Zenon
            <4>6. q1 + m * (n - 1) = q2
                BY <3>d
            <4> HIDE DEF b1, q1, s1, m, q2
            <4>7. Moved(move_lines(b1, n, q1, s1, m), a, n, i, q1 + m * (n - 1))
                BY <3>1, <4>3, <4>4, <4>5, LinesMoveOn, Zenon
            <4> QED BY <4>6, <4>7, Zenon
        <3>3. ASSUME NEW r \in 0..(n - 2), NEW c \in 0..(n - 2),
                     q2 <= r * (n - 1) + c, r * (n - 1) + c < q2 + len2
              PROVE  Skip(r, i) * n + Skip(c, i) = s2 + (r * (n - 1) + c - q2)
            <4>0. r * w \in Nat /\ r \in Nat
                BY <1>0
            <4>1. r = n - 2
                <5>1. CASE r < n - 2
                    <6>1. r * w + w <= (n - 2) * w
                        BY <1>0, <3>0, <5>1, LineOrder
                    <6> QED BY <1>0, <3>3, <3>c, <4>0, <6>1
                <5> QED BY <4>0, <5>1
            <4>2. r * (n - 1) = (n - 2) * w
                BY <4>1
            <4>3. i <= c
                BY <1>0, <3>3, <3>c, <4>2
            <4>4. Skip(r, i) = n - 1 /\ Skip(c, i) = c + 1
                BY <1>0, <3>0, <4>1, <4>3 DEF Skip
            <4>5. (n - 1) * n \in Nat
                OBVIOUS
            <4> QED BY <1>0, <3>b, <3>c, <4>2, <4>4, <4>5
        <3>f. s2 + len2 <= Len(a)
            BY <3>d
        <3>g. q2 \in Nat /\ s2 \in Nat /\ len2 \in Nat /\ q2 <= s2
            BY <3>0, <3>d, Zenon
        <3> HIDE DEF b2, q2, s2, len2
        <3>4. Moved(memmove(b2, q2, s2, len2), a, n, i, q2 + len2)
            BY <3>2, <3>3, <3>f, <3>g, MoveOn
        <3> QED BY <3>4, <3>a, <3>d, Zenon
    <2> QED BY <2>1, <2>2
<1> HIDE DEF z
<1>3. ASSUME NEW r \in 0..(n - 2), NEW c \in 0..(n - 2)
      PROVE  At(z, n - 1, r, c) = At(a, n, Skip(r, i), Skip(c, i))
    <2>1. r * (n - 1) + (n - 1) <= (n - 1) * (n - 1)
        <3>1. r \in Nat /\ r < n - 1 /\ n - 1 \in Nat
            OBVIOUS
        <3> QED BY <3>1, LineOrder
    <2>2. r * (n - 1) \in Nat /\ (n - 1) * (n - 1) \in Nat
        OBVIOUS
    <2>3. r * (n - 1) + c < w * w
        BY <2>1, <2>2
    <2> QED BY <1>2, <2>3, Zenon DEF Moved, At
<1> QED BY <1>2, <1>3 DEF Moved, z

-----------------------------------------------------------------------------
(* Matrices with fewer lines.                                              *)

(* Matrix d consists of lines and columns of m.                            *)
Sub(d, m) ==
    \E e \in [DOMAIN d.indexes -> DOMAIN m.indexes] :
        /\ \A p \in DOMAIN d.indexes : d.indexes[p] = m.indexes[e[p]]
        /\ \A p, q \in DOMAIN d.indexes :
              At(d.values, Len(d.indexes), p - 1, q - 1)
                 = At(m.values, Len(m.indexes), e[p] - 1, e[q] - 1)

(* So does m itself, and part of a part.                                   *)
LEMMA SubSelf ==
    ASSUME NEW d, NEW m, d.indexes = m.indexes, d.values = m.values
    PROVE  Sub(d, m)
<1> DEFINE e == [p \in DOMAIN m.indexes |-> p]
<1>1. e \in [DOMAIN d.indexes -> DOMAIN m.indexes] /\ \A p \in DOMAIN d.indexes : e[p] = p
    OBVIOUS
<1> HIDE DEF e
<1>2. \A p \in DOMAIN d.indexes : d.indexes[p] = m.indexes[e[p]]
    BY <1>1
<1>3. \A p, q \in DOMAIN d.indexes :
          At(d.values, Len(d.indexes), p - 1, q - 1)
             = At(m.values, Len(m.indexes), e[p] - 1, e[q] - 1)
    BY <1>1, Zenon
<1> QED BY <1>1, <1>2, <1>3 DEF Sub

LEMMA SubOfSub ==
    ASSUME NEW d, NEW m, NEW o, Sub(d, m), Sub(m, o)
    PROVE  Sub(d, o)
<1>1. PICK e \in [DOMAIN d.indexes -> DOMAIN m.indexes] :
        /\ \A p \in DOMAIN d.indexes : d.indexes[p] = m.indexes[e[p]]
        /\ \A p, q \in DOMAIN d.indexes :
              At(d.values, Len(d.indexes), p - 1, q - 1)
                 = At(m.values, Len(m.indexes), e[p] - 1, e[q] - 1)
    BY DEF Sub
<1>2. PICK g \in [DOMAIN m.indexes -> DOMAIN o.indexes] :
        /\ \A p \in DOMAIN m.indexes : m.indexes[p] = o.indexes[g[p]]
        /\ \A p, q \in DOMAIN m.indexes :
              At(m.values, Len(m.indexes), p - 1, q - 1)
                 = At(o.values, Len(o.indexes), g[p] - 1, g[q] - 1)
    BY DEF Sub
<1> DEFINE h == [p \in DOMAIN d.indexes |-> g[e[p]]]
<1>3. \A p \in DOMAIN d.indexes : e[p] \in DOMAIN m.indexes
    OBVIOUS
<1>4. h \in [DOMAIN d.indexes -> DOMAIN o.indexes] /\ \A p \in DOMAIN d.indexes : h[p] = g[e[p]]
    BY <1>3
<1> HIDE DEF h
<1>5. \A p \in DOMAIN d.indexes : d.indexes[p] = o.indexes[h[p]]
    BY <1>1, <1>2, <1>3, <1>4, Zenon
<1>6. \A p, q \in DOMAIN d.indexes :
          At(d.values, Len(d.indexes), p - 1, q - 1)
             = At(o.values, Len(o.indexes), h[p] - 1, h[q] - 1)
    <2>1. SUFFICES ASSUME NEW p \in DOMAIN d.indexes, NEW q \in DOMAIN d.indexes
          PROVE  At(d.values, Len(d.indexes), p - 1, q - 1)
                    = At(o.values, Len(o.indexes), h[p] - 1, h[q] - 1)
        OBVIOUS
    <2>2. At(d.values, Len(d.indexes), p - 1, q - 1)
             = At(m.values, Len(m.indexes), e[p] - 1, e[q] - 1)
        BY <1>1, Zenon
    <2>3. e[p] \in DOMAIN m.indexes /\ e[q] \in DOMAIN m.indexes
        BY <1>3
    <2>4. At(m.values, Len(m.indexes), e[p] - 1, e[q] - 1)
             = At(o.values, Len(o.indexes), g[e[p]] - 1, g[e[q]] - 1)
        BY <1>2, <2>3, Zenon
    <2>5. h[p] = g[e[p]] /\ h[q] = g[e[q]]
        BY <1>4
    <2> QED BY <2>2, <2>4, <2>5, Zenon
<1> QED BY <1>4, <1>5, <1>6 DEF Sub

(* What the removal of one index leaves.                                   *)
LEMMA ShiftIndexesIs ==
    ASSUME NEW s \in Seq(Nat), NEW i \in 1..Len(s)
    PROVE  /\ shift_indexes(s, i) \in Seq(Nat)
           /\ Len(shift_indexes(s, i)) = Len(s) - 1
           /\ \A p \in 1..(Len(s) - 1) :
                 shift_indexes(s, i)[p] = IF p < i THEN s[p] ELSE s[p + 1]
           /\ ToSet(shift_indexes(s, i)) \subseteq ToSet(s)
           /\ \A x \in ToSet(s) : x # s[i] => x \in ToSet(shift_indexes(s, i))
<1> DEFINE t == shift_indexes(s, i)
<1>0. Len(s) \in Nat /\ DOMAIN s = 1..Len(s) /\ Len(s) - 1 \in Nat
    OBVIOUS
<1>1. /\ DOMAIN t = 1..(Len(s) - 1)
      /\ t = [p \in 1..(Len(s) - 1) |-> t[p]]
      /\ \A p \in 1..(Len(s) - 1) : t[p] = IF p < i THEN s[p] ELSE s[p + 1]
    BY DEF shift_indexes
<1> HIDE DEF t
<1>2. \A p \in 1..(Len(s) - 1) : p \in 1..Len(s) /\ p + 1 \in 1..Len(s)
    BY <1>0
<1>3. \A p \in 1..(Len(s) - 1) : t[p] \in Nat
    BY <1>0, <1>1, <1>2
<1>4. t \in Seq(Nat) /\ Len(t) = Len(s) - 1
    BY <1>0, <1>1, <1>3
<1>5. ToSet(t) \subseteq ToSet(s)
    BY <1>0, <1>1, <1>2 DEF ToSet
<1>6. ASSUME NEW x \in ToSet(s), x # s[i] PROVE x \in ToSet(t)
    <2>1. PICK p \in 1..Len(s) : x = s[p]
        BY <1>0 DEF ToSet
    <2>2. CASE p < i
        <3>1. p \in 1..(Len(s) - 1) /\ t[p] = s[p]
            BY <1>0, <1>1, <2>2
        <3> QED BY <1>1, <2>1, <3>1 DEF ToSet
    <2>3. CASE i < p
        <3>1. p - 1 \in 1..(Len(s) - 1) /\ ~(p - 1 < i) /\ (p - 1) + 1 = p
            BY <1>0, <2>3
        <3>2. t[p - 1] = s[p]
            BY <1>1, <3>1
        <3> QED BY <1>1, <2>1, <3>1, <3>2 DEF ToSet
    <2>4. p # i
        BY <1>6, <2>1
    <2> QED BY <1>0, <2>2, <2>3, <2>4
<1> QED BY <1>1, <1>4, <1>5, <1>6 DEF t

LEMMA SmallerSquare ==
    ASSUME NEW n \in Nat \ {0}
    PROVE  (n - 1) * (n - 1) <= n * n /\ (n - 1) * (n - 1) \in Nat /\ n * n \in Nat
<1> DEFINE m == n - 1
<1>1. m \in Nat /\ n = m + 1
    OBVIOUS
<1> HIDE DEF m
<1>2. m * m <= (m + 1) * (m + 1) /\ m * m \in Nat /\ (m + 1) * (m + 1) \in Nat
    BY ONLY <1>1
<1> QED BY <1>1, <1>2 DEF m

(* A matrix without one of its lines and columns.                          *)
LEMMA ShiftedIsSub ==
    ASSUME NEW d, NEW b, Square(d), NEW i \in 1..Len(d.indexes),
           b.indexes = shift_indexes(d.indexes, i),
           b.values = shift_matrix(d.values, Len(d.indexes), i - 1)
    PROVE  Square(b) /\ Sub(b, d)
<1> DEFINE n == Len(d.indexes)
           e == [p \in 1..(n - 1) |-> IF p < i THEN p ELSE p + 1]
<1>0. /\ d.indexes \in Seq(Nat) /\ d.values \in Seq(Nat) /\ n * n <= Len(d.values)
      /\ n \in Nat \ {0} /\ i - 1 \in 0..(n - 1) /\ DOMAIN d.indexes = 1..n /\ n - 1 \in Nat
      /\ Len(d.values) \in Nat
    BY DEF Square
<1>1. /\ b.indexes \in Seq(Nat) /\ Len(b.indexes) = n - 1 /\ DOMAIN b.indexes = 1..(n - 1)
      /\ \A p \in 1..(n - 1) :
            b.indexes[p] = IF p < i THEN d.indexes[p] ELSE d.indexes[p + 1]
    <2> DEFINE t == shift_indexes(d.indexes, i)
    <2>1. /\ t \in Seq(Nat) /\ Len(t) = n - 1
          /\ \A p \in 1..(n - 1) : t[p] = IF p < i THEN d.indexes[p] ELSE d.indexes[p + 1]
        BY <1>0, ShiftIndexesIs
    <2> HIDE DEF t
    <2>2. DOMAIN t = 1..(n - 1)
        BY <2>1
    <2>3. b.indexes = t
        BY DEF t
    <2> QED BY <2>1, <2>2, <2>3
<1>2. /\ b.values \in Seq(Nat) /\ Len(b.values) = Len(d.values)
      /\ \A r, c \in 0..(n - 2) :
            At(b.values, n - 1, r, c) = At(d.values, n, Skip(r, i - 1), Skip(c, i - 1))
    BY <1>0, ShiftMatrixIs
<1>3. Square(b)
    <2> HIDE DEF n
    <2>1. (n - 1) * (n - 1) <= n * n /\ (n - 1) * (n - 1) \in Nat /\ n * n \in Nat
        <3>1. n \in Nat \ {0}
            BY <1>0
        <3> QED BY ONLY <3>1, SmallerSquare
    <2> QED BY <1>0, <1>1, <1>2, <2>1 DEF Square
<1>4. e \in [DOMAIN b.indexes -> DOMAIN d.indexes]
    <2>1. \A p \in 1..(n - 1) : p \in 1..n /\ p + 1 \in 1..n
        BY <1>0
    <2> QED BY <1>0, <1>1, <2>1
<1>5. \A p \in 1..(n - 1) : e[p] = IF p < i THEN p ELSE p + 1
    OBVIOUS
<1> HIDE DEF e
<1>6. \A p \in DOMAIN b.indexes : b.indexes[p] = d.indexes[e[p]]
    BY <1>1, <1>5
<1>7. ASSUME NEW p \in 1..(n - 1) PROVE p - 1 \in 0..(n - 2) /\ Skip(p - 1, i - 1) = e[p] - 1
    BY <1>0, <1>5 DEF Skip
<1>8. \A p, q \in DOMAIN b.indexes :
          At(b.values, Len(b.indexes), p - 1, q - 1) = At(d.values, n, e[p] - 1, e[q] - 1)
    BY <1>1, <1>2, <1>7, ZenonT(40)
<1> QED BY <1>3, <1>4, <1>6, <1>8, Zenon DEF Sub

-----------------------------------------------------------------------------
(* The conversion of one matrix.                                           *)

IsElement(d) ==
    /\ d = Element(d.type, d.indexes, d.objs, d.values, d.forced)
    /\ d.type \in Types /\ d.forced \in BOOLEAN
    /\ Square(d)
FoundOf(found, type, S) == {x \in S : found[<<type, x>>] # NULL}

(* After k rounds of the loop over the indexes of d.                       *)
Converting(found, d, s, k) ==
    /\ s = Element(d.type, s.indexes, s.objs, s.values, d.forced)
    /\ Square(s)
    /\ s.objs \in Seq({found[<<d.type, x>>] : x \in Nat})
    /\ Len(s.objs) + (Len(d.indexes) - k) = Len(s.indexes)
    /\ \A p \in 1..Len(s.objs) : found[<<d.type, s.indexes[p]>>] # NULL
    /\ ToSet(s.indexes) \subseteq ToSet(d.indexes)
    /\ FoundOf(found, d.type, ToSet(d.indexes)) \subseteq ToSet(s.indexes)
    /\ Sub(s, d)

(* Changing the objects of an element.                                     *)
LEMMA ElementExcept ==
    ASSUME NEW type, NEW indexes, NEW objs, NEW values, NEW forced, NEW s, NEW o,
           s = Element(type, indexes, objs, values, forced)
    PROVE  [s EXCEPT !.objs = o] = Element(type, indexes, o, values, forced)
<1>1. s = [type |-> type, indexes |-> indexes, objs |-> objs, values |-> values, forced |-> forced]
    BY DEF Element
<1>2. [s EXCEPT !.objs = o]
         = [type |-> type, indexes |-> indexes, objs |-> o, values |-> values, forced |-> forced]
    BY <1>1
<1> QED BY <1>2 DEF Element

(* The indexes that remain to be looked up.                                *)
LEMMA OneLess ==
    ASSUME NEW a \in Nat, NEW b \in Nat, NEW c \in Nat, NEW k \in 0..(b - 1), a + (b - k) = c
    PROVE  a + 1 \in 1..c /\ (a + 1) + (b - (k + 1)) = c /\ a + (b - (k + 1)) = c - 1
OBVIOUS

(* Each round keeps that.                                                  *)
LEMMA ConvertNextKeeps ==
    ASSUME NEW found, NEW d, IsElement(d), NEW s, NEW k \in 0..(Len(d.indexes) - 1),
           Converting(found, d, s, k)
    PROVE  Converting(found, d, convert_next(found, s), k + 1)
<1> DEFINE T == {found[<<d.type, x>>] : x \in Nat}
           i == Len(s.objs) + 1
           x == found[<<d.type, s.indexes[i]>>]
           t == convert_next(found, s)
<1>0. /\ d.indexes \in Seq(Nat) /\ Len(d.indexes) \in Nat
      /\ s.indexes \in Seq(Nat) /\ s.values \in Seq(Nat) /\ s.objs \in Seq(T)
      /\ Len(s.objs) \in Nat /\ Len(s.indexes) \in Nat
      /\ Len(s.objs) + (Len(d.indexes) - k) = Len(s.indexes)
      /\ \A p \in 1..Len(s.objs) : found[<<d.type, s.indexes[p]>>] # NULL
      /\ s.type = d.type /\ s.forced = d.forced
    <2>1. d.indexes \in Seq(Nat) /\ Len(d.indexes) \in Nat
        BY DEF IsElement, Square
    <2>2. s.indexes \in Seq(Nat) /\ s.values \in Seq(Nat) /\ Len(s.indexes) \in Nat
        BY DEF Converting, Square
    <2>3. s.type = d.type /\ s.forced = d.forced
        <3>1. s = Element(d.type, s.indexes, s.objs, s.values, d.forced)
            BY DEF Converting
        <3> QED BY <3>1 DEF Element
    <2>4. s.objs \in Seq(T)
        BY DEF Converting
    <2>5. Len(s.objs) \in Nat
        <3> HIDE DEF T
        <3> QED BY <2>4
    <2>6. /\ Len(s.objs) + (Len(d.indexes) - k) = Len(s.indexes)
          /\ \A p \in 1..Len(s.objs) : found[<<d.type, s.indexes[p]>>] # NULL
        BY DEF Converting
    <2> QED BY <2>1, <2>2, <2>3, <2>4, <2>5, <2>6
<1>a. s = Element(d.type, s.indexes, s.objs, s.values, d.forced)
    BY DEF Converting
<1>b. ToSet(s.indexes) \subseteq ToSet(d.indexes)
      /\ FoundOf(found, d.type, ToSet(d.indexes)) \subseteq ToSet(s.indexes)
    BY DEF Converting
<1>c. Sub(s, d) /\ Square(s)
    BY DEF Converting
<1> HIDE DEF T, x
<1>d. /\ (Len(s.objs) + 1) + (Len(d.indexes) - (k + 1)) = Len(s.indexes)
      /\ Len(s.objs) + (Len(d.indexes) - (k + 1)) = Len(s.indexes) - 1
    <2>1. Len(s.objs) \in Nat /\ Len(d.indexes) \in Nat /\ Len(s.indexes) \in Nat
        BY <1>0
    <2>2. Len(s.objs) + (Len(d.indexes) - k) = Len(s.indexes)
        BY <1>0
    <2> DEFINE a == Len(s.objs)
               b == Len(d.indexes)
               c == Len(s.indexes)
    <2>3. a \in Nat /\ b \in Nat /\ c \in Nat /\ k \in 0..(b - 1) /\ a + (b - k) = c
        BY <2>1, <2>2, Zenon
    <2> HIDE DEF a, b, c
    <2>4. (a + 1) + (b - (k + 1)) = c /\ a + (b - (k + 1)) = c - 1
        BY ONLY <2>3
    <2> QED BY <2>4 DEF a, b, c
<1>1. i \in 1..Len(s.indexes) /\ s.indexes[i] \in Nat
    <2>1. i \in 1..Len(s.indexes)
        BY <1>0, OneLess
    <2> HIDE DEF i
    <2> QED BY <1>0, <2>1
<1>2. CASE x # NULL
    <2>1. t = Element(d.type, s.indexes, Append(s.objs, x), s.values, d.forced)
        <3>1. t = [s EXCEPT !.objs = Append(@, x)]
            BY <1>0, <1>2 DEF convert_next, x
        <3> DEFINE y == Append(s.objs, x)
        <3> HIDE DEF y, t
        <3>2. t = [s EXCEPT !.objs = y]
            BY <3>1 DEF y
        <3>3. t = Element(d.type, s.indexes, y, s.values, d.forced)
            BY ONLY <1>a, <3>2, ElementExcept
        <3> QED BY <3>3 DEF y
    <2>2. /\ t.type = d.type /\ t.indexes = s.indexes /\ t.objs = Append(s.objs, x)
          /\ t.values = s.values /\ t.forced = d.forced
        BY <2>1 DEF Element
    <2>3. x \in T
        BY <1>1 DEF x, T
    <2>4. /\ Append(s.objs, x) \in Seq(T) /\ Len(Append(s.objs, x)) = Len(s.objs) + 1
        BY <1>0, <2>3
    <2> HIDE DEF t
    <2>5. t.objs \in Seq(T) /\ Len(t.objs) = Len(s.objs) + 1
        BY <2>2, <2>4
    <2>6. Len(t.objs) + (Len(d.indexes) - (k + 1)) = Len(t.indexes)
        BY <1>d, <2>2, <2>5, Zenon
    <2>7. \A p \in 1..Len(t.objs) : found[<<d.type, t.indexes[p]>>] # NULL
        <3>1. \A p \in 1..Len(t.objs) : p \in 1..Len(s.objs) \/ p = i
            BY <1>0, <2>5
        <3>2. found[<<d.type, s.indexes[i]>>] # NULL
            BY <1>2 DEF x
        <3> QED BY <1>0, <2>2, <3>1, <3>2
    <2>8. Square(t)
        BY <1>c, <2>2 DEF Square
    <2>9. Sub(t, d)
        BY <1>c, <2>2 DEF Sub
    <2>10. t = Element(d.type, t.indexes, t.objs, t.values, d.forced)
        BY <2>1, <2>2
    <2> HIDE DEF T, x, i
    <2>11. /\ ToSet(t.indexes) \subseteq ToSet(d.indexes)
           /\ FoundOf(found, d.type, ToSet(d.indexes)) \subseteq ToSet(t.indexes)
        BY <1>b, <2>2
    <2>12. t.objs \in Seq({found[<<d.type, y>>] : y \in Nat})
        BY <2>5, Zenon DEF T
    <2>13. Converting(found, d, t, k + 1)
        BY <2>6, <2>7, <2>8, <2>9, <2>10, <2>11, <2>12, Zenon DEF Converting
    <2> QED BY <2>13 DEF t
<1>3. CASE x = NULL
    <2> DEFINE ni == shift_indexes(s.indexes, i)
               nv == shift_matrix(s.values, Len(s.indexes), i - 1)
    <2>1. t = Element(d.type, ni, s.objs, nv, d.forced)
        BY <1>0, <1>3 DEF convert_next, x
    <2>2. /\ t.type = d.type /\ t.indexes = ni /\ t.objs = s.objs
          /\ t.values = nv /\ t.forced = d.forced
        BY <2>1 DEF Element
    <2> HIDE DEF t
    <2>3. Square(t) /\ Sub(t, s)
        BY <1>1, <1>c, <2>2, ShiftedIsSub
    <2>4. Sub(t, d)
        BY <1>c, <2>3, SubOfSub
    <2>5. /\ Len(t.indexes) = Len(s.indexes) - 1
          /\ \A p \in 1..(Len(s.indexes) - 1) :
                t.indexes[p] = IF p < i THEN s.indexes[p] ELSE s.indexes[p + 1]
          /\ ToSet(t.indexes) \subseteq ToSet(s.indexes)
          /\ \A y \in ToSet(s.indexes) : y # s.indexes[i] => y \in ToSet(t.indexes)
        <3> HIDE DEF i
        <3>1. i \in 1..Len(s.indexes) /\ s.indexes \in Seq(Nat)
            BY <1>0, <1>1
        <3>2. /\ Len(ni) = Len(s.indexes) - 1
              /\ \A p \in 1..(Len(s.indexes) - 1) :
                    ni[p] = IF p < i THEN s.indexes[p] ELSE s.indexes[p + 1]
              /\ ToSet(ni) \subseteq ToSet(s.indexes)
              /\ \A y \in ToSet(s.indexes) : y # s.indexes[i] => y \in ToSet(ni)
            BY <3>1, ShiftIndexesIs
        <3> HIDE DEF ni
        <3>3. t.indexes = ni
            BY <2>2
        <3> QED BY <3>2, <3>3, Zenon
    <2>6. Len(t.objs) + (Len(d.indexes) - (k + 1)) = Len(t.indexes)
        BY <1>d, <2>2, <2>5, Zenon
    <2>7. \A p \in 1..Len(t.objs) : found[<<d.type, t.indexes[p]>>] # NULL
        <3>1. \A p \in 1..Len(t.objs) : p \in 1..(Len(s.indexes) - 1) /\ p < i /\ p \in 1..Len(s.objs)
            BY <1>0, <1>1, <2>2, SMTT(30)
        <3> QED BY <1>0, <2>5, <3>1
    <2>8. FoundOf(found, d.type, ToSet(d.indexes)) \subseteq ToSet(t.indexes)
        <3>1. s.indexes[i] \notin FoundOf(found, d.type, ToSet(d.indexes))
            BY <1>3 DEF FoundOf, x
        <3> HIDE DEF x, i
        <3> QED BY <1>b, <2>5, <3>1
    <2>9. t = Element(d.type, t.indexes, t.objs, t.values, d.forced)
        BY <2>1, <2>2
    <2>10. t.objs \in Seq({found[<<d.type, y>>] : y \in Nat})
        BY <1>0, <2>2, Zenon DEF T
    <2>11. ToSet(t.indexes) \subseteq ToSet(d.indexes)
        BY <1>b, <2>5
    <2> HIDE DEF T, x, i
    <2>12. Converting(found, d, t, k + 1)
        BY <2>3, <2>4, <2>6, <2>7, <2>8, <2>9, <2>10, <2>11, Zenon DEF Converting
    <2> QED BY <2>12 DEF t
<1> QED BY <1>2, <1>3

(* The conversion leaves the lines whose object is found.                  *)
LEMMA ConvertIs ==
    ASSUME NEW found, NEW d, IsElement(d)
    PROVE  /\ IsElement(convert(found, d))
           /\ convert(found, d).type = d.type /\ convert(found, d).forced = d.forced
           /\ ToSet(convert(found, d).indexes) = FoundOf(found, d.type, ToSet(d.indexes))
           /\ Sub(convert(found, d), d)
<1> DEFINE N == Len(d.indexes)
<1>0. d.indexes \in Seq(Nat) /\ N \in Nat /\ Square(d)
      /\ d.type \in Types /\ d.forced \in BOOLEAN
    BY DEF IsElement, Square
<1>1. PICK f : /\ convert(found, d) = f[N]
               /\ f[0] = Unconverted(d)
               /\ \A n \in 1..N : f[n] = convert_next(found, f[n - 1])
    <2>1. d.indexes \in Seq(Nat)
        BY <1>0
    <2> HIDE <1>0
    <2> QED BY <2>1, ConvertExists, ZenonT(40)
<1> DEFINE Is(k) == Converting(found, d, f[k], k)
           Bad == {k \in 0..N : ~Is(k)}
           e == Min(Bad)
<1>2. Is(0)
    <2>1. f[0] = Element(d.type, d.indexes, <<>>, d.values, d.forced)
        BY <1>1 DEF IsElement, Element, Unconverted
    <2>2. /\ f[0].type = d.type /\ f[0].indexes = d.indexes /\ f[0].objs = <<>>
          /\ f[0].values = d.values /\ f[0].forced = d.forced
        BY <2>1 DEF Element
    <2>3. Sub(f[0], d)
        BY <2>2, SubSelf
    <2>4. Square(f[0])
        BY <1>0, <2>2 DEF Square
    <2>5. f[0].objs \in Seq({found[<<d.type, x>>] : x \in Nat}) /\ Len(f[0].objs) = 0
        BY <2>2
    <2>6. f[0] = Element(d.type, f[0].indexes, f[0].objs, f[0].values, d.forced)
        BY <2>1, <2>2
    <2>7. Len(f[0].objs) + (Len(d.indexes) - 0) = Len(f[0].indexes)
        BY <1>0, <2>2, <2>5
    <2>8. \A p \in 1..Len(f[0].objs) : found[<<d.type, f[0].indexes[p]>>] # NULL
        BY <2>5
    <2>9. /\ ToSet(f[0].indexes) \subseteq ToSet(d.indexes)
          /\ FoundOf(found, d.type, ToSet(d.indexes)) \subseteq ToSet(f[0].indexes)
        BY <2>2 DEF FoundOf
    <2> QED BY <2>3, <2>4, <2>5, <2>6, <2>7, <2>8, <2>9, Zenon DEF Converting
<1>3. Is(N)
    <2> HIDE DEF Is, N
    <2>1. SUFFICES ASSUME Bad # {} PROVE FALSE
        BY <1>0
    <2>a. Bad \subseteq Nat
        BY <1>0
    <2>2. e \in Bad /\ \A k \in Bad : e <= k
        BY <2>a, <2>1, LeastNat, Zenon
    <2> HIDE DEF e
    <2>3. e \in 0..N /\ ~Is(e)
        BY <2>2
    <2>4. e # 0
        BY <1>2, <2>3
    <2> DEFINE k == e - 1
    <2>5. k \in 0..(N - 1) /\ k \in 0..N /\ e \in 1..N /\ ~(e <= k) /\ k + 1 = e
        BY <1>0, <2>3, <2>4
    <2>6. Is(k)
        BY <2>2, <2>5
    <2>7. f[e] = convert_next(found, f[k])
        BY <1>1, <2>5
    <2> HIDE DEF k
    <2>8. Converting(found, d, convert_next(found, f[k]), k + 1)
        BY <2>5, <2>6, ConvertNextKeeps DEF Is, N
    <2>9. Is(e)
        BY <2>5, <2>7, <2>8 DEF Is
    <2> QED BY <2>3, <2>9
<1> DEFINE c == f[N]
<1>4. Converting(found, d, c, N)
    BY <1>3
<1> HIDE DEF c
<1>5. /\ c = Element(d.type, c.indexes, c.objs, c.values, d.forced)
      /\ Square(c) /\ Sub(c, d)
      /\ ToSet(c.indexes) \subseteq ToSet(d.indexes)
      /\ FoundOf(found, d.type, ToSet(d.indexes)) \subseteq ToSet(c.indexes)
      /\ \A p \in 1..Len(c.objs) : found[<<d.type, c.indexes[p]>>] # NULL
    BY <1>4, Zenon DEF Converting
<1>6. c.objs \in Seq({found[<<d.type, x>>] : x \in Nat})
      /\ Len(c.objs) + (N - N) = Len(c.indexes)
    BY <1>4 DEF Converting
<1>7. Len(c.objs) = Len(c.indexes) /\ c.indexes \in Seq(Nat)
    BY <1>0, <1>5, <1>6 DEF Square
<1>8. \A p \in DOMAIN c.indexes : found[<<d.type, c.indexes[p]>>] # NULL
    BY <1>5, <1>7
<1>9. ToSet(c.indexes) = FoundOf(found, d.type, ToSet(d.indexes))
    BY <1>5, <1>8 DEF ToSet, FoundOf
<1>10. c.type = d.type /\ c.forced = d.forced
    BY <1>5 DEF Element
<1>11. IsElement(c)
    BY <1>0, <1>5, <1>10 DEF IsElement
<1>12. convert(found, d) = c
    BY <1>1 DEF c
<1> QED BY <1>5, <1>9, <1>10, <1>11, <1>12

-----------------------------------------------------------------------------
(* Lists of matrices.                                                      *)

IsList(list) == list \in Seq(ToSet(list))

LEMMA ListOf ==
    ASSUME NEW T, NEW s \in Seq(T)
    PROVE  IsList(s)
<1>1. Len(s) \in Nat /\ DOMAIN s = 1..Len(s) /\ s \in [1..Len(s) -> T]
    OBVIOUS
<1>2. \A i \in 1..Len(s) : s[i] \in ToSet(s)
    BY <1>1 DEF ToSet
<1>3. s \in [1..Len(s) -> ToSet(s)]
    BY <1>1, <1>2
<1> QED BY <1>1, <1>3 DEF IsList

LEMMA ListHas ==
    ASSUME NEW s, IsList(s)
    PROVE  /\ Len(s) \in Nat /\ DOMAIN s = 1..Len(s)
           /\ \A i \in DOMAIN s : s[i] \in ToSet(s)
           /\ \A d \in ToSet(s) : \E i \in DOMAIN s : d = s[i]
<1>1. s \in Seq(ToSet(s))
    BY DEF IsList
<1> DEFINE T == ToSet(s)
<1>2. Len(s) \in Nat /\ DOMAIN s = 1..Len(s)
    <2>1. s \in Seq(T)
        BY <1>1
    <2> HIDE DEF T
    <2> QED BY <2>1
<1>3. /\ \A i \in DOMAIN s : s[i] \in ToSet(s)
      /\ \A d \in ToSet(s) : \E i \in DOMAIN s : d = s[i]
    BY DEF ToSet
<1> QED BY <1>2, <1>3

LEMMA ListFilter ==
    ASSUME NEW s, IsList(s), NEW S
    PROVE  /\ IsList(Among(s, S))
           /\ ToSet(Among(s, S)) = ToSet(s) \cap S
           /\ \A i, j \in DOMAIN Among(s, S) : i < j =>
                 \E a, b \in DOMAIN s :
                     a < b /\ Among(s, S)[i] = s[a] /\ Among(s, S)[j] = s[b]
<1>1. s \in Seq(ToSet(s))
    BY DEF IsList
<1> DEFINE T == ToSet(s)
           r == Among(s, S)
<1>2. s \in Seq(T)
    BY <1>1
<1>3. /\ r \in Seq(T)
      /\ ToSet(r) = ToSet(s) \cap S
      /\ \A i, j \in DOMAIN r : i < j =>
            \E a, b \in DOMAIN s : a < b /\ r[i] = s[a] /\ r[j] = s[b]
    <2> HIDE DEF T
    <2> QED BY <1>2, AmongIs
<1> HIDE DEF T, r
<1>4. IsList(r)
    BY <1>3, ListOf
<1> QED BY <1>3, <1>4 DEF r

LEMMA ListAppend ==
    ASSUME NEW s, IsList(s), NEW e
    PROVE  /\ IsList(Append(s, e))
           /\ ToSet(Append(s, e)) = ToSet(s) \cup {e}
           /\ DOMAIN Append(s, e) = 1..(Len(s) + 1)
           /\ Append(s, e)[Len(s) + 1] = e
           /\ \A i \in DOMAIN s : i \in DOMAIN Append(s, e) /\ Append(s, e)[i] = s[i]
           /\ \A i \in DOMAIN Append(s, e) : i \in DOMAIN s \/ i = Len(s) + 1
           /\ Len(s) + 1 \notin DOMAIN s /\ Len(s) + 1 \in DOMAIN Append(s, e)
<1> DEFINE T == ToSet(s) \cup {e}
           r == Append(s, e)
<1>1. s \in Seq(T)
    <2>1. s \in Seq(ToSet(s))
        BY DEF IsList
    <2>2. Len(s) \in Nat /\ DOMAIN s = 1..Len(s) /\ \A i \in DOMAIN s : s[i] \in ToSet(s)
        BY ListHas
    <2> DEFINE U == ToSet(s)
    <2>3. s \in Seq(U) /\ U \subseteq T
        BY <2>1
    <2> HIDE DEF U, T
    <2> QED BY <2>3
<1>2. e \in T
    OBVIOUS
<1>3. /\ r \in Seq(T) /\ Len(r) = Len(s) + 1 /\ Len(s) \in Nat
      /\ DOMAIN s = 1..Len(s) /\ DOMAIN r = 1..(Len(s) + 1)
      /\ r[Len(s) + 1] = e /\ \A i \in 1..Len(s) : r[i] = s[i]
    <2> HIDE DEF T
    <2> QED BY <1>1, <1>2
<1> HIDE DEF r, T
<1>4. /\ \A i \in DOMAIN s : i \in DOMAIN r /\ r[i] = s[i]
      /\ \A i \in DOMAIN r : i \in DOMAIN s \/ i = Len(s) + 1
      /\ Len(s) + 1 \notin DOMAIN s /\ Len(s) + 1 \in DOMAIN r
    BY <1>3
<1>5. ToSet(r) = ToSet(s) \cup {e}
    BY <1>3, <1>4 DEF ToSet
<1>6. IsList(r)
    BY <1>3, ListOf
<1> QED BY <1>3, <1>4, <1>5, <1>6 DEF r

(* Matrix a was asked for: it is one, and names each object once.          *)
AskedOK(a) ==
    /\ a = [indexes |-> a.indexes, values |-> a.values, left |-> a.left]
    /\ Square(a) /\ check_matrix(a.indexes) /\ a.indexes # <<>>

(* The list has one matrix of the type, which is forced and what is left   *)
(* of a.                                                                   *)
Only(list, type, i) ==
    list[i].type = type /\ \A j \in DOMAIN list : list[j].type = type => i = j
Kept(d, a) == d.forced /\ ToSet(d.indexes) = a.left /\ Sub(d, a)
Wins(list, type, a) == \E i \in DOMAIN list : Only(list, type, i) /\ Kept(list[i], a)

(* A matrix wins in the part of the list that holds those of its type,     *)
LEMMA FilterWins ==
    ASSUME NEW list, IsList(list), NEW type, NEW a, Wins(list, type, a), NEW S,
           \A d \in ToSet(list) : d.type = type => d \in S
    PROVE  Wins(Among(list, S), type, a)
<1> DEFINE s == Among(list, S)
<1>1. PICK k \in DOMAIN list : Only(list, type, k) /\ Kept(list[k], a)
    BY DEF Wins
<1>2. /\ IsList(s)
      /\ ToSet(s) = ToSet(list) \cap S
      /\ \A i, j \in DOMAIN s : i < j =>
            \E x, y \in DOMAIN list : x < y /\ s[i] = list[x] /\ s[j] = list[y]
    BY ListFilter
<1> HIDE DEF s
<1>3. list[k] \in ToSet(list) /\ list[k].type = type
    BY <1>1, ListHas DEF Only
<1>4. list[k] \in ToSet(s)
    BY <1>2, <1>3
<1>5. PICK i \in DOMAIN s : s[i] = list[k]
    BY <1>2, <1>4, ListHas
<1>6. ASSUME NEW x \in DOMAIN list, NEW y \in DOMAIN list, x < y,
             list[x].type = type, list[y].type = type
      PROVE  FALSE
    <2>1. x = k /\ y = k
        BY <1>1, <1>6 DEF Only
    <2>2. x \in Nat
        BY ListHas
    <2> QED BY <1>6, <2>1, <2>2
<1>7. ASSUME NEW j \in DOMAIN s, s[j].type = type PROVE i = j
    <2>1. i \in Int /\ j \in Int
        BY <1>2, ListHas
    <2>2. CASE i < j
        <3>1. PICK x, y \in DOMAIN list : x < y /\ s[i] = list[x] /\ s[j] = list[y]
            BY <1>2, <2>2, Zenon
        <3> QED BY <1>3, <1>5, <1>6, <1>7, <3>1
    <2>3. CASE j < i
        <3>1. PICK x, y \in DOMAIN list : x < y /\ s[j] = list[x] /\ s[i] = list[y]
            BY <1>2, <2>3, Zenon
        <3> QED BY <1>3, <1>5, <1>6, <1>7, <3>1
    <2> QED BY <2>1, <2>2, <2>3
<1>8. Only(s, type, i) /\ Kept(s[i], a)
    BY <1>1, <1>3, <1>5, <1>7 DEF Only
<1> QED BY <1>8 DEF Wins, s

(* with a matrix of another type at the end,                               *)
LEMMA AppendWins ==
    ASSUME NEW list, IsList(list), NEW type, NEW a, Wins(list, type, a), NEW e, e.type # type
    PROVE  Wins(Append(list, e), type, a)
<1> DEFINE s == Append(list, e)
<1>1. PICK k \in DOMAIN list : Only(list, type, k) /\ Kept(list[k], a)
    BY DEF Wins
<1>2. /\ s[Len(list) + 1] = e
      /\ \A i \in DOMAIN list : i \in DOMAIN s /\ s[i] = list[i]
      /\ \A i \in DOMAIN s : i \in DOMAIN list \/ i = Len(list) + 1
    BY ListAppend
<1> HIDE DEF s
<1>3. Only(s, type, k) /\ Kept(s[k], a) /\ k \in DOMAIN s
    BY <1>1, <1>2 DEF Only
<1> QED BY <1>3 DEF Wins, s

(* and as the first of its type.                                           *)
LEMMA AppendFirst ==
    ASSUME NEW list, IsList(list), NEW a, NEW e,
           \A d \in ToSet(list) : d.type # e.type, Kept(e, a)
    PROVE  Wins(Append(list, e), e.type, a)
<1> DEFINE s == Append(list, e)
           k == Len(list) + 1
<1>2. /\ s[k] = e /\ k \in DOMAIN s
      /\ \A i \in DOMAIN list : i \in DOMAIN s /\ s[i] = list[i]
      /\ \A i \in DOMAIN s : i \in DOMAIN list \/ i = k
    BY ListAppend
<1>3. \A i \in DOMAIN list : list[i].type # e.type
    BY ListHas
<1> HIDE DEF s, k
<1>4. Only(s, e.type, k) /\ Kept(s[k], a)
    BY <1>2, <1>3 DEF Only
<1> QED BY <1>2, <1>4 DEF Wins, s

-----------------------------------------------------------------------------
(* The invariant: the list holds well-formed matrices, and what was asked  *)
(* for wins.                                                               *)

ListInv(list, as) ==
    /\ IsList(list)
    /\ \A d \in ToSet(list) : IsElement(d)
    /\ as = [type \in Types |-> as[type]]
    /\ \A type \in Types : as[type] # NULL =>
          AskedOK(as[type]) /\ Wins(list, type, as[type])

(* What is forced has no objects yet.                                      *)
Unlooked(list) == \A d \in ToSet(list) : d.forced => d.objs = NULL

(* A forced matrix that is given replaces what was asked for its type.     *)
LEMMA ForcedSet ==
    ASSUME NEW list, NEW as, ListInv(list, as), NEW e, IsElement(e), e.forced, e.objs = NULL,
           NEW a,
           e.indexes = <<>> => a = NULL,
           e.indexes # <<>> => AskedOK(a) /\ Kept(e, a)
    PROVE  /\ ListInv(distances_set(list, e), [as EXCEPT ![e.type] = a])
           /\ Unlooked(list) => Unlooked(distances_set(list, e))
<1> DEFINE S == ToSet(list) \ OfType(list, e.type)
           kept == Among(list, S)
           new == distances_set(list, e)
           bs == [as EXCEPT ![e.type] = a]
<1>1. /\ IsList(list) /\ (\A d \in ToSet(list) : IsElement(d))
      /\ as = [type \in Types |-> as[type]]
      /\ \A type \in Types : as[type] # NULL => AskedOK(as[type]) /\ Wins(list, type, as[type])
    BY DEF ListInv
<1>2. IsList(kept) /\ ToSet(kept) = ToSet(list) \cap S
    BY <1>1, ListFilter
<1>3. new = IF e.indexes = <<>> THEN kept ELSE Append(kept, e)
    BY DEF distances_set
<1>4. e.type \in Types
    BY DEF IsElement
<1>5. /\ bs = [type \in Types |-> bs[type]] /\ bs[e.type] = a
      /\ \A type \in Types : type # e.type => bs[type] = as[type]
    BY <1>1, <1>4
<1> HIDE DEF bs
<1>6. ASSUME NEW d \in ToSet(list), d.type # e.type PROVE d \in S
    BY <1>6 DEF OfType
<1>7. \A d \in ToSet(kept) : d.type # e.type
    BY <1>2 DEF OfType
<1>8. ASSUME NEW type \in Types, type # e.type, as[type] # NULL
      PROVE  Wins(kept, type, as[type])
    <2>1. \A d \in ToSet(list) : d.type = type => d \in S
        BY <1>6, <1>8
    <2>2. Wins(list, type, as[type])
        BY <1>1, <1>8
    <2> HIDE DEF S
    <2> QED BY <1>1, <2>1, <2>2, FilterWins
<1> HIDE DEF S, kept, new
<1>9. CASE e.indexes = <<>>
    <2>1. new = kept
        BY <1>3, <1>9
    <2>2. \A d \in ToSet(kept) : IsElement(d)
        BY <1>1, <1>2
    <2>3. \A type \in Types : bs[type] # NULL => AskedOK(bs[type]) /\ Wins(new, type, bs[type])
        BY <1>1, <1>5, <1>8, <1>9, <2>1
    <2>4. ListInv(new, bs)
        BY <1>2, <1>5, <2>1, <2>2, <2>3 DEF ListInv
    <2>5. Unlooked(list) => Unlooked(new)
        BY <1>2, <2>1 DEF Unlooked
    <2> QED BY <2>4, <2>5 DEF new, bs
<1>10. CASE e.indexes # <<>>
    <2>1. new = Append(kept, e)
        BY <1>3, <1>10
    <2>2. IsList(new) /\ ToSet(new) = ToSet(kept) \cup {e}
        BY <1>2, <2>1, ListAppend
    <2>3. \A d \in ToSet(new) : IsElement(d)
        BY <1>1, <1>2, <2>2
    <2>4. ASSUME NEW type \in Types, bs[type] # NULL
          PROVE  AskedOK(bs[type]) /\ Wins(new, type, bs[type])
        <3>1. CASE type = e.type
            <4>1. AskedOK(a) /\ Kept(e, a)
                BY <1>10
            <4>2. Wins(Append(kept, e), e.type, a)
                BY <1>2, <1>7, <4>1, AppendFirst
            <4> QED BY <1>5, <2>1, <3>1, <4>1, <4>2
        <3>2. CASE type # e.type
            <4>1. bs[type] = as[type] /\ Wins(kept, type, as[type]) /\ AskedOK(as[type])
                BY <1>1, <1>5, <1>8, <2>4, <3>2
            <4>2. Wins(Append(kept, e), type, as[type])
                BY <1>2, <3>2, <4>1, AppendWins
            <4> QED BY <2>1, <4>1, <4>2
        <3> QED BY <3>1, <3>2
    <2>5. ListInv(new, bs)
        BY <1>5, <2>2, <2>3, <2>4 DEF ListInv
    <2>6. Unlooked(list) => Unlooked(new)
        BY <1>2, <2>2 DEF Unlooked
    <2> QED BY <2>5, <2>6 DEF new, bs
<1> QED BY <1>9, <1>10

(* The matrix of the backend replaces nothing that was asked for.          *)
LEMMA BackendSet ==
    ASSUME NEW list, NEW as, ListInv(list, as), NEW e, IsElement(e), ~e.forced
    PROVE  /\ ListInv(distances_set(list, e), as)
           /\ Unlooked(list) => Unlooked(distances_set(list, e))
<1> DEFINE S == ToSet(list)
           kept == Among(list, S)
           new == distances_set(list, e)
<1>1. /\ IsList(list) /\ (\A d \in ToSet(list) : IsElement(d))
      /\ as = [type \in Types |-> as[type]]
      /\ \A type \in Types : as[type] # NULL => AskedOK(as[type]) /\ Wins(list, type, as[type])
    BY DEF ListInv
<1>2. CASE \E d \in OfType(list, e.type) : d.forced
    <2>1. new = list
        BY <1>2 DEF distances_set
    <2> QED BY <2>1
<1>3. CASE ~\E d \in OfType(list, e.type) : d.forced
    <2>1. new = IF e.indexes = <<>> THEN kept ELSE Append(kept, e)
        BY <1>3 DEF distances_set
    <2>2. IsList(kept) /\ ToSet(kept) = ToSet(list)
        BY <1>1, ListFilter
    <2>3. as[e.type] = NULL
        <3>1. SUFFICES ASSUME as[e.type] # NULL PROVE FALSE
            OBVIOUS
        <3>2. e.type \in Types
            BY DEF IsElement
        <3>3. Wins(list, e.type, as[e.type])
            BY <1>1, <3>1, <3>2
        <3>4. PICK k \in DOMAIN list : list[k].type = e.type /\ list[k].forced
            BY <3>3 DEF Wins, Only, Kept
        <3>5. list[k] \in OfType(list, e.type)
            BY <1>1, <3>4, ListHas DEF OfType
        <3> QED BY <1>3, <3>4, <3>5
    <2>4. ASSUME NEW type \in Types, as[type] # NULL
          PROVE  Wins(kept, type, as[type]) /\ type # e.type
        <3>1. \A d \in ToSet(list) : d.type = type => d \in S
            OBVIOUS
        <3>2. Wins(list, type, as[type])
            BY <1>1, <2>4
        <3> HIDE DEF S
        <3> QED BY <1>1, <2>3, <2>4, <3>1, <3>2, FilterWins
    <2> HIDE DEF S, kept, new
    <2>5. CASE e.indexes = <<>>
        <3>1. new = kept
            BY <2>1, <2>5
        <3>2. ListInv(new, as)
            BY <1>1, <2>2, <2>4, <3>1 DEF ListInv
        <3>3. Unlooked(list) => Unlooked(new)
            BY <2>2, <3>1 DEF Unlooked
        <3> QED BY <3>2, <3>3 DEF new
    <2>6. CASE e.indexes # <<>>
        <3>1. new = Append(kept, e)
            BY <2>1, <2>6
        <3>2. IsList(new) /\ ToSet(new) = ToSet(kept) \cup {e}
            BY <2>2, <3>1, ListAppend
        <3>3. \A type \in Types : as[type] # NULL => Wins(new, type, as[type])
            BY <2>2, <2>4, <3>1, AppendWins
        <3>4. ListInv(new, as)
            BY <1>1, <2>2, <3>2, <3>3 DEF ListInv
        <3>5. Unlooked(list) => Unlooked(new)
            BY <2>2, <3>2 DEF Unlooked
        <3> QED BY <3>4, <3>5 DEF new
    <2> QED BY <2>5, <2>6
<1> QED BY <1>2, <1>3

(* A list of what is made of every matrix of a list.                       *)
LEMMA MapList ==
    ASSUME NEW list, IsList(list), NEW s, s = [i \in DOMAIN list |-> s[i]]
    PROVE  IsList(s) /\ DOMAIN s = DOMAIN list
           /\ \A d \in ToSet(s) : \E i \in DOMAIN list : d = s[i]
<1>1. Len(list) \in Nat /\ DOMAIN list = 1..Len(list)
    BY ListHas
<1>2. DOMAIN s = DOMAIN list
    OBVIOUS
<1>3. \A i \in DOMAIN s : s[i] \in ToSet(s)
    BY DEF ToSet
<1> DEFINE T == ToSet(s)
           n == Len(list)
<1>4. s = [i \in 1..n |-> s[i]] /\ \A i \in 1..n : s[i] \in T
    BY <1>1, <1>2, <1>3
<1>5. s \in Seq(T)
    <2> HIDE DEF T, n
    <2>1. n \in Nat
        BY <1>1 DEF n
    <2>2. s \in [1..n -> T]
        BY <1>4
    <2> QED BY <2>1, <2>2
<1>6. \A d \in ToSet(s) : \E i \in DOMAIN list : d = s[i]
    BY <1>2 DEF ToSet
<1> QED BY <1>2, <1>5, <1>6 DEF IsList

LEMMA MapWins ==
    ASSUME NEW list, NEW s, DOMAIN s = DOMAIN list, NEW type, NEW a, NEW b,
           \A i \in DOMAIN list : s[i].type = list[i].type,
           Wins(list, type, a),
           \A i \in DOMAIN list : list[i].type = type /\ Kept(list[i], a) => Kept(s[i], b)
    PROVE  Wins(s, type, b)
<1>1. PICK k \in DOMAIN list : Only(list, type, k) /\ Kept(list[k], a)
    BY DEF Wins
<1>2. Only(s, type, k) /\ Kept(s[k], b)
    BY <1>1 DEF Only
<1> QED BY <1>2 DEF Wins

(* Losing the objects loses nothing else.                                  *)
LEMMA RestrictKeeps ==
    ASSUME NEW list, NEW as, ListInv(list, as)
    PROVE  ListInv(distances_restrict_os(list), as) /\ Unlooked(distances_restrict_os(list))
<1> DEFINE s == distances_restrict_os(list)
<1>1. /\ IsList(list) /\ (\A d \in ToSet(list) : IsElement(d))
      /\ as = [type \in Types |-> as[type]]
      /\ \A type \in Types : as[type] # NULL => AskedOK(as[type]) /\ Wins(list, type, as[type])
    BY DEF ListInv
<1>2. s = [i \in DOMAIN list |-> s[i]] /\ \A i \in DOMAIN list : s[i] = [list[i] EXCEPT !.objs = NULL]
    BY DEF distances_restrict_os
<1> HIDE DEF s
<1>3. IsList(s) /\ DOMAIN s = DOMAIN list /\ \A d \in ToSet(s) : \E i \in DOMAIN list : d = s[i]
    BY <1>1, <1>2, MapList
<1>4. ASSUME NEW i \in DOMAIN list
      PROVE  /\ IsElement(s[i]) /\ s[i].objs = NULL /\ s[i].type = list[i].type
             /\ s[i].indexes = list[i].indexes /\ s[i].values = list[i].values
             /\ s[i].forced = list[i].forced
    <2> DEFINE d == list[i]
    <2>1. IsElement(d)
        BY <1>1, ListHas
    <2>2. d = Element(d.type, d.indexes, d.objs, d.values, d.forced)
          /\ d.type \in Types /\ d.forced \in BOOLEAN /\ Square(d)
        BY <2>1 DEF IsElement
    <2>3. s[i] = [d EXCEPT !.objs = NULL]
        BY <1>2
    <2> HIDE DEF d
    <2>4. s[i] = Element(d.type, d.indexes, NULL, d.values, d.forced)
        BY ONLY <2>2, <2>3, ElementExcept
    <2>5. /\ s[i].objs = NULL /\ s[i].type = d.type /\ s[i].indexes = d.indexes
          /\ s[i].values = d.values /\ s[i].forced = d.forced
        BY <2>4 DEF Element
    <2>6. IsElement(s[i])
        BY <2>2, <2>4, <2>5 DEF IsElement, Square
    <2> QED BY <2>5, <2>6 DEF d
<1>5. ASSUME NEW type \in Types, as[type] # NULL
      PROVE  Wins(s, type, as[type])
    <2>1. \A i \in DOMAIN list : Kept(list[i], as[type]) => Kept(s[i], as[type])
        <3>1. SUFFICES ASSUME NEW i \in DOMAIN list, Kept(list[i], as[type])
              PROVE  Kept(s[i], as[type])
            OBVIOUS
        <3>2. Sub(s[i], list[i]) /\ Sub(list[i], as[type])
            BY <1>4, <3>1, SubSelf DEF Kept
        <3>3. Sub(s[i], as[type])
            BY <3>2, SubOfSub
        <3> QED BY <1>4, <3>1, <3>3 DEF Kept
    <2>2. Wins(list, type, as[type])
        BY <1>1, <1>5
    <2> QED BY <1>3, <1>4, <2>1, <2>2, MapWins
<1>6. (\A d \in ToSet(s) : IsElement(d)) /\ Unlooked(s)
    BY <1>3, <1>4 DEF Unlooked
<1> QED BY <1>1, <1>3, <1>5, <1>6 DEF ListInv, s

(* A conversion leaves what it finds of every matrix that has no objects   *)
(* yet.                                                                    *)
LEMMA FinalizeKeeps ==
    ASSUME NEW found, NEW list, NEW as, ListInv(list, as), Unlooked(list)
    PROVE  ListInv(distances_finalize_os(found, list), StillFound(found, as))
<1> DEFINE s == [i \in DOMAIN list |-> IF list[i].objs # NULL THEN list[i]
                                       ELSE convert(found, list[i])]
           S == {d \in ToSet(s) : d.indexes # <<>>}
           new == distances_finalize_os(found, list)
           bs == StillFound(found, as)
<1>1. /\ IsList(list) /\ (\A d \in ToSet(list) : IsElement(d))
      /\ as = [type \in Types |-> as[type]]
      /\ \A type \in Types : as[type] # NULL => AskedOK(as[type]) /\ Wins(list, type, as[type])
    BY DEF ListInv
<1>2. bs = [type \in Types |-> bs[type]]
    BY DEF StillFound
<1>3. CASE found = NULL
    <2>1. new = <<>>
        BY <1>3 DEF distances_finalize_os
    <2>2. \A type \in Types : bs[type] = NULL
        BY <1>3 DEF StillFound
    <2> HIDE DEF new, bs
    <2>3. IsList(new) /\ ToSet(new) = {}
        BY <2>1 DEF IsList, ToSet
    <2> QED BY <1>2, <2>2, <2>3 DEF ListInv, new, bs
<1>4. CASE found # NULL
    <2>1. new = Among(s, S)
        BY <1>4, Zenon DEF distances_finalize_os
    <2>2. s = [i \in DOMAIN list |-> s[i]]
          /\ \A i \in DOMAIN list : s[i] = IF list[i].objs # NULL THEN list[i]
                                           ELSE convert(found, list[i])
        OBVIOUS
    <2>3. ASSUME NEW type \in Types, bs[type] # NULL
          PROVE  /\ as[type] # NULL
                 /\ FoundOf(found, type, as[type].left) # {}
                 /\ bs[type] = [as[type] EXCEPT !.left = FoundOf(found, type, as[type].left)]
        BY <1>4, <2>3 DEF StillFound, FoundOf
    <2> HIDE DEF s, bs, new
    <2>4. IsList(s) /\ DOMAIN s = DOMAIN list /\ \A d \in ToSet(s) : \E i \in DOMAIN list : d = s[i]
        BY <1>1, <2>2, MapList
    <2>5. ASSUME NEW i \in DOMAIN list
          PROVE  /\ IsElement(s[i]) /\ s[i].type = list[i].type /\ s[i].forced = list[i].forced
                 /\ list[i].forced => /\ ToSet(s[i].indexes) = FoundOf(found, list[i].type, ToSet(list[i].indexes))
                                      /\ Sub(s[i], list[i])
        <3>1. list[i] \in ToSet(list) /\ IsElement(list[i])
            BY <1>1, ListHas
        <3>2. CASE list[i].objs # NULL
            <4>1. ~list[i].forced
                BY <3>1, <3>2 DEF Unlooked
            <4>2. s[i] = list[i]
                BY <2>2, <3>2
            <4> QED BY <3>1, <4>1, <4>2
        <3>3. CASE list[i].objs = NULL
            <4>1. s[i] = convert(found, list[i])
                BY <2>2, <3>3
            <4> QED BY <3>1, <4>1, ConvertIs
        <3> QED BY <3>2, <3>3
    <2>6. IsList(new) /\ ToSet(new) = ToSet(s) \cap S
        BY <2>1, <2>4, ListFilter
    <2>7. \A d \in ToSet(new) : IsElement(d)
        BY <2>4, <2>5, <2>6
    <2>8. ASSUME NEW type \in Types, bs[type] # NULL
          PROVE  AskedOK(bs[type]) /\ Wins(new, type, bs[type])
        <3> DEFINE a == as[type]
                   b == bs[type]
                   left == FoundOf(found, type, a.left)
        <3>1. a # NULL /\ left # {} /\ b = [a EXCEPT !.left = left]
            BY <2>3, <2>8
        <3>2. AskedOK(a) /\ Wins(list, type, a)
            BY <1>1, <3>1
        <3> HIDE DEF a, b, left
        <3>3. a = [indexes |-> a.indexes, values |-> a.values, left |-> a.left]
            BY <3>2 DEF AskedOK
        <3>4. b = [indexes |-> a.indexes, values |-> a.values, left |-> left]
            BY ONLY <3>1, <3>3
        <3>5. b.indexes = a.indexes /\ b.values = a.values /\ b.left = left
            BY ONLY <3>4
        <3>6. AskedOK(b)
            BY <3>2, <3>4, <3>5 DEF AskedOK, Square
        <3>7. ASSUME NEW i \in DOMAIN list, list[i].type = type, Kept(list[i], a)
              PROVE  Kept(s[i], b)
            <4>1. list[i].forced /\ ToSet(list[i].indexes) = a.left /\ Sub(list[i], a)
                BY <3>7 DEF Kept
            <4>2. s[i].forced /\ ToSet(s[i].indexes) = left /\ Sub(s[i], list[i])
                BY <2>5, <3>7, <4>1 DEF left
            <4>3. Sub(s[i], a)
                BY <4>1, <4>2, SubOfSub
            <4>4. Sub(s[i], b)
                BY <3>5, <4>3 DEF Sub
            <4> QED BY <3>5, <4>2, <4>4 DEF Kept
        <3>8. Wins(s, type, b)
            BY <2>4, <2>5, <3>2, <3>7, MapWins
        <3>9. ASSUME NEW d \in ToSet(s), d.type = type PROVE d \in S
            <4>1. PICK k \in DOMAIN s : Only(s, type, k) /\ Kept(s[k], b)
                BY <3>8 DEF Wins
            <4>2. PICK j \in DOMAIN s : d = s[j]
                BY <2>4, ListHas
            <4>3. j = k
                BY <3>9, <4>1, <4>2 DEF Only
            <4>4. ToSet(d.indexes) # {}
                BY <3>1, <3>5, <4>1, <4>2, <4>3 DEF Kept
            <4>5. d.indexes # <<>>
                BY <4>4 DEF ToSet
            <4> QED BY <4>5
        <3> HIDE DEF S
        <3>10. Wins(Among(s, S), type, b)
            BY <2>4, <3>8, <3>9, FilterWins
        <3> QED BY <2>1, <3>6, <3>10 DEF b
    <2> QED BY <1>2, <2>6, <2>7, <2>8 DEF ListInv, new, bs
<1> QED BY <1>3, <1>4

(* A string in the environment gives a matrix.                             *)
LEMMA StringGives ==
    ASSUME NEW s \in EnvStrings, StringMatrix(s).ok
    PROVE  /\ Square(StringMatrix(s)) /\ check_matrix(StringMatrix(s).indexes)
           /\ s.type \in Types
<1> DEFINE m == StringMatrix(s)
<1>1. /\ s.type \in Types
      /\ s.form \in {"none", "product", "list"}
      /\ s.form # "none" => s.indexes \in Seq(Nat)
      /\ s.form = "product" => s.x \in Nat /\ s.y \in Nat /\ s.z \in Nat
      /\ s.form = "list" => s.values \in Seq(Nat)
    BY MatricesAssumption
<1>2. CASE s.form = "none"
    <2>1. m.indexes = <<>> /\ m.values = <<>>
        BY <1>2 DEF StringMatrix
    <2> HIDE DEF m
    <2>2. Square(m) /\ check_matrix(m.indexes)
        BY <2>1 DEF Square, check_matrix
    <2> QED BY <1>1, <2>2 DEF m
<1>3. CASE s.form = "list"
    <2>1. /\ m.indexes = s.indexes /\ m.values = s.values
          /\ Len(s.values) >= Len(s.indexes) * Len(s.indexes) /\ check_matrix(s.indexes)
        BY <1>3 DEF StringMatrix
    <2> HIDE DEF m
    <2>2. Square(m) /\ check_matrix(m.indexes)
        BY <1>1, <1>3, <2>1 DEF Square
    <2> QED BY <1>1, <2>2 DEF m
<1>4. CASE s.form = "product"
    <2> DEFINE n == Len(s.indexes)
               v == GroupedValues(n, s.y, s.z)
    <2>1. m.indexes = s.indexes /\ m.values = v /\ check_matrix(s.indexes)
        BY <1>4 DEF StringMatrix
    <2>2. s.indexes \in Seq(Nat) /\ n \in Nat
        BY <1>1, <1>4
    <2> HIDE DEF m, n
    <2>3. n * n \in Nat
        BY <2>2
    <2>4. v \in [1..(n * n) -> Nat]
        BY DEF GroupedValues
    <2> DEFINE k == n * n
    <2> HIDE DEF v, k
    <2>5. v \in [1..k -> Nat] /\ k \in Nat
        BY <2>3, <2>4 DEF k
    <2>6. v \in Seq(Nat) /\ Len(v) = k
        BY <2>5
    <2>7. Len(v) >= n * n
        BY <2>3, <2>6 DEF k
    <2>8. Square(m)
        BY <2>1, <2>2, <2>6, <2>7 DEF Square, n
    <2> QED BY <1>1, <2>1, <2>8 DEF m
<1> QED BY <1>1, <1>2, <1>3, <1>4

(* What a given matrix becomes in the list, and in the history.            *)
LEMMA GivenMatrix ==
    ASSUME NEW m, Square(m), check_matrix(m.indexes), NEW type \in Types
    PROVE  LET e == Element(type, m.indexes, NULL, m.values, TRUE)
           IN  /\ IsElement(e) /\ e.forced /\ e.objs = NULL /\ e.type = type
               /\ e.indexes = <<>> => Asked(m) = NULL
               /\ e.indexes # <<>> => AskedOK(Asked(m)) /\ Kept(e, Asked(m))
<1> DEFINE e == Element(type, m.indexes, NULL, m.values, TRUE)
           a == [indexes |-> m.indexes, values |-> m.values, left |-> ToSet(m.indexes)]
<1>1. /\ e.type = type /\ e.indexes = m.indexes /\ e.objs = NULL
      /\ e.values = m.values /\ e.forced = TRUE
    BY DEF Element
<1>2. e = Element(e.type, e.indexes, e.objs, e.values, e.forced)
    BY <1>1
<1>3. a.indexes = m.indexes /\ a.values = m.values /\ a.left = ToSet(m.indexes)
      /\ a = [indexes |-> a.indexes, values |-> a.values, left |-> a.left]
    OBVIOUS
<1>4. Asked(m) = IF m.indexes = <<>> THEN NULL ELSE a
    BY DEF Asked
<1> HIDE DEF e, a
<1>5. IsElement(e)
    BY <1>1, <1>2 DEF IsElement, Square
<1>6. Sub(e, a)
    BY <1>1, <1>3, SubSelf
<1>7. Kept(e, a)
    BY <1>1, <1>3, <1>6 DEF Kept
<1>8. m.indexes # <<>> => AskedOK(a)
    BY <1>3 DEF AskedOK, Square
<1>9. /\ IsElement(e) /\ e.forced /\ e.objs = NULL /\ e.type = type
      /\ e.indexes = <<>> => Asked(m) = NULL
      /\ e.indexes # <<>> => AskedOK(Asked(m)) /\ Kept(e, Asked(m))
    BY <1>1, <1>4, <1>5, <1>7, <1>8
<1> QED BY <1>9 DEF e

(* The environment gives its matrix at every load.                         *)
LEMMA EnvKeeps ==
    ASSUME denv \in EnvStrings \cup {NULL},
           NEW list, NEW as, ListInv(list, as), Unlooked(list)
    PROVE  /\ ListInv(distances_set_from_env(list), AskedByEnv(as))
           /\ Unlooked(distances_set_from_env(list))
<1>1. CASE denv = NULL
    BY <1>1 DEF distances_set_from_env, AskedByEnv
<1>2. CASE denv # NULL /\ ~StringMatrix(denv).ok
    BY <1>2 DEF distances_set_from_env, AskedByEnv, distances__set_from_string
<1>3. CASE denv # NULL /\ StringMatrix(denv).ok
    <2> DEFINE m == StringMatrix(denv)
               e == Element(denv.type, m.indexes, NULL, m.values, TRUE)
    <2>1. Square(m) /\ check_matrix(m.indexes) /\ denv.type \in Types
        BY <1>3, StringGives
    <2>2. distances_set_from_env(list) = distances_set(list, e)
        BY <1>3 DEF distances_set_from_env, distances__set_from_string
    <2>3. AskedByEnv(as) = [as EXCEPT ![denv.type] = Asked(m)]
        BY <1>3 DEF AskedByEnv
    <2> HIDE DEF m
    <2>4. /\ IsElement(e) /\ e.forced /\ e.objs = NULL /\ e.type = denv.type
          /\ e.indexes = <<>> => Asked(m) = NULL
          /\ e.indexes # <<>> => AskedOK(Asked(m)) /\ Kept(e, Asked(m))
        BY <2>1, GivenMatrix
    <2> HIDE DEF e
    <2>5. /\ ListInv(distances_set(list, e), [as EXCEPT ![e.type] = Asked(m)])
          /\ Unlooked(distances_set(list, e))
        BY <2>4, ForcedSet
    <2> QED BY <2>2, <2>3, <2>4, <2>5
<1> QED BY <1>1, <1>2, <1>3

LEMMA BackendKeeps ==
    ASSUME NEW list, NEW as, ListInv(list, as), Unlooked(list)
    PROVE  ListInv(set_from_backend(list), as) /\ Unlooked(set_from_backend(list))
<1>1. CASE OSMatrix = NULL
    BY <1>1 DEF set_from_backend
<1>2. CASE OSMatrix # NULL
    <2> DEFINE e == Element("NODE", OSMatrix.indexes, OSMatrix.objs, OSMatrix.values, FALSE)
    <2>1. set_from_backend(list) = distances_set(list, e)
        BY <1>2 DEF set_from_backend
    <2>2. /\ e.type = "NODE" /\ e.indexes = OSMatrix.indexes /\ e.objs = OSMatrix.objs
          /\ e.values = OSMatrix.values /\ e.forced = FALSE
        BY DEF Element
    <2>3. e = Element(e.type, e.indexes, e.objs, e.values, e.forced)
        BY <2>2
    <2>4. "NODE" \in Types
        BY DEF Types, ToSet, obj_order_type
    <2>5. Square(OSMatrix)
        BY <1>2, MatricesAssumption
    <2> HIDE DEF e
    <2>6. IsElement(e) /\ ~e.forced
        BY <2>2, <2>3, <2>4, <2>5 DEF IsElement, Square
    <2> QED BY <2>1, <2>6, BackendSet
<1> QED BY <1>1, <1>2

-----------------------------------------------------------------------------
(* The specification.                                                      *)

(* The inductive invariant of MSpec: the list holds well-formed matrices,  *)
(* and one forced matrix for every one that was asked for.                 *)
MInv == ListInv(osdist, asked) /\ denv \in EnvStrings \cup {NULL}

(* Nothing was asked for, and nothing is there.                            *)
LEMMA EmptyList == ListInv(<<>>, [type \in Types |-> NULL]) /\ Unlooked(<<>>)
<1> DEFINE l == <<>>
           as == [type \in Types |-> NULL]
<1>1. IsList(l) /\ ToSet(l) = {}
    BY DEF IsList, ToSet
<1>2. as = [type \in Types |-> as[type]] /\ \A type \in Types : as[type] = NULL
    OBVIOUS
<1> HIDE DEF l, as
<1>3. ListInv(l, as) /\ Unlooked(l)
    BY <1>1, <1>2 DEF ListInv, Unlooked
<1> QED BY <1>3 DEF l, as

LEMMA MNextKeeps == MInv /\ [MNext]_mvars => MInv'
<1>1. SUFFICES ASSUME MInv, [MNext]_mvars PROVE MInv'
    OBVIOUS
<1>0. ListInv(osdist, asked) /\ denv \in EnvStrings \cup {NULL}
    BY <1>1 DEF MInv
<1>2. SUFFICES ListInv(osdist', asked') /\ denv' = denv
    BY <1>0 DEF MInv, ListInv, Wins, IsList
<1>3. ASSUME NEW m \in UserMatrices, set_distance_matrix(m)
      PROVE  ListInv(osdist', asked') /\ denv' = denv
    <2> DEFINE e == Element(m.type, m.indexes, NULL, m.values, TRUE)
    <2>1. /\ check_matrix(m.indexes) /\ osdist' = distances_set(osdist, e)
          /\ asked' = [asked EXCEPT ![m.type] = Asked(m)] /\ denv' = denv
        BY <1>3 DEF set_distance_matrix
    <2>2. Square(m) /\ m.type \in Types
        BY MatricesAssumption
    <2>3. /\ IsElement(e) /\ e.forced /\ e.objs = NULL /\ e.type = m.type
          /\ e.indexes = <<>> => Asked(m) = NULL
          /\ e.indexes # <<>> => AskedOK(Asked(m)) /\ Kept(e, Asked(m))
        BY <2>1, <2>2, GivenMatrix
    <2> HIDE DEF e
    <2>4. ListInv(distances_set(osdist, e), [asked EXCEPT ![e.type] = Asked(m)])
        BY <1>0, <2>3, ForcedSet
    <2> QED BY <2>1, <2>3, <2>4
<1>4. ASSUME NEW found, NEW again, load_matrices(found, again)
      PROVE  ListInv(osdist', asked') /\ denv' = denv
    <2> DEFINE l1 == distances_restrict_os(osdist)
               l2 == distances_set_from_env(l1)
               l3 == set_from_backend(l2)
               l4 == distances_finalize_os(found, l3)
               l5 == distances_restrict_os(l4)
               as == AskedByEnv(asked)
               bs == StillFound(found, as)
    <2>1. /\ osdist' = distances_finalize_os(again, l5) /\ asked' = StillFound(again, bs)
          /\ denv' = denv
        BY <1>4 DEF load_matrices, detected_matrices
    <2>2. ListInv(l1, asked) /\ Unlooked(l1)
        BY <1>0, RestrictKeeps
    <2> HIDE DEF l1
    <2>3. ListInv(l2, as) /\ Unlooked(l2)
        BY <1>0, <2>2, EnvKeeps
    <2> HIDE DEF l2, as
    <2>4. ListInv(l3, as) /\ Unlooked(l3)
        BY <2>3, BackendKeeps
    <2> HIDE DEF l3
    <2>5. ListInv(l4, bs)
        BY <2>4, FinalizeKeeps
    <2> HIDE DEF l4, bs
    <2>6. ListInv(l5, bs) /\ Unlooked(l5)
        BY <2>5, RestrictKeeps
    <2> HIDE DEF l5
    <2>7. ListInv(distances_finalize_os(again, l5), StillFound(again, bs))
        BY <2>6, FinalizeKeeps
    <2> QED BY <2>1, <2>7
<1>5. ASSUME NEW found, NEW flags, restrict_matrices(found, flags)
      PROVE  ListInv(osdist', asked') /\ denv' = denv
    <2> DEFINE l == distances_restrict(osdist, flags)
               as == IF "ADAPT_DISTANCES" \in flags THEN asked ELSE [type \in Types |-> NULL]
    <2>1. /\ osdist' = distances_finalize_os(found, l) /\ denv' = denv
          /\ asked' = IF "ADAPT_DISTANCES" \in flags THEN StillFound(found, asked)
                      ELSE [type \in Types |-> NULL]
        BY <1>5 DEF restrict_matrices
    <2>2. ListInv(l, as) /\ Unlooked(l)
        <3>1. CASE "ADAPT_DISTANCES" \in flags
            BY <1>0, <3>1, RestrictKeeps DEF distances_restrict
        <3>2. CASE ~("ADAPT_DISTANCES" \in flags)
            BY <3>2, EmptyList DEF distances_restrict
        <3> QED BY <3>1, <3>2
    <2>3. asked' = StillFound(found, as)
        <3>1. CASE "ADAPT_DISTANCES" \in flags
            BY <2>1, <3>1
        <3>2. CASE ~("ADAPT_DISTANCES" \in flags)
            <4>1. StillFound(found, [type \in Types |-> NULL]) = [type \in Types |-> NULL]
                BY DEF StillFound
            <4> QED BY <2>1, <3>2, <4>1
        <3> QED BY <3>1, <3>2
    <2> HIDE DEF l, as
    <2>4. ListInv(distances_finalize_os(found, l), StillFound(found, as))
        BY <2>2, FinalizeKeeps
    <2> QED BY <2>1, <2>3, <2>4
<1>6. CASE UNCHANGED mvars
    BY <1>0, <1>6 DEF mvars
<1> QED BY <1>1, <1>3, <1>4, <1>5, <1>6 DEF MNext

(* The list of the matrices is well formed after every call, and holds     *)
(* what is left of every matrix that was forced (hwloc_distances_set,      *)
(* hwloc_distances_finalize_os).                                           *)
THEOREM MatricesInvariant == MSpec => []MInv
<1>1. MInit => MInv
    BY EmptyList DEF MInit, MInv
<1>2. MInv /\ [MNext]_mvars => MInv'
    BY MNextKeeps
<1> QED BY <1>1, <1>2, PTL DEF MSpec

(* Lines of a matrix that names each object once give its values.          *)
LEMMA SubGives ==
    ASSUME NEW d, NEW a, Sub(d, a), check_matrix(a.indexes)
    PROVE  SameValues(d, a)
<1>1. PICK e \in [DOMAIN d.indexes -> DOMAIN a.indexes] :
        /\ \A p \in DOMAIN d.indexes : d.indexes[p] = a.indexes[e[p]]
        /\ \A p, q \in DOMAIN d.indexes :
              At(d.values, Len(d.indexes), p - 1, q - 1)
                 = At(a.values, Len(a.indexes), e[p] - 1, e[q] - 1)
    BY DEF Sub
<1>2. SUFFICES ASSUME NEW p \in DOMAIN d.indexes, NEW q \in DOMAIN d.indexes
      PROVE  At(d.values, Len(d.indexes), p - 1, q - 1) = ValueFor(a, d.indexes[p], d.indexes[q])
    BY DEF SameValues
<1> DEFINE At1(x) == CHOOSE r \in DOMAIN a.indexes : a.indexes[r] = x
<1>3. ASSUME NEW r \in DOMAIN d.indexes PROVE At1(d.indexes[r]) = e[r] /\ d.indexes[r] \in ToSet(a.indexes)
    <2>1. e[r] \in DOMAIN a.indexes /\ a.indexes[e[r]] = d.indexes[r]
        BY <1>1
    <2>2. \A y \in DOMAIN a.indexes : a.indexes[y] = d.indexes[r] => y = e[r]
        BY <2>1 DEF check_matrix
    <2> QED BY <2>1, <2>2 DEF ToSet
<1>4. ValueFor(a, d.indexes[p], d.indexes[q])
         = At(a.values, Len(a.indexes), At1(d.indexes[p]) - 1, At1(d.indexes[q]) - 1)
    <2>1. {d.indexes[p], d.indexes[q]} \subseteq ToSet(a.indexes)
        BY <1>3
    <2> QED BY <2>1, Zenon DEF ValueFor
<1> HIDE DEF At1
<1>5. At1(d.indexes[p]) = e[p] /\ At1(d.indexes[q]) = e[q]
    BY <1>3
<1>6. At(d.values, Len(d.indexes), p - 1, q - 1) = At(a.values, Len(a.indexes), e[p] - 1, e[q] - 1)
    BY <1>1
<1> QED BY <1>4, <1>5, <1>6

LEMMA MInvWins == MInv => UserMatrixWins
<1>1. SUFFICES ASSUME MInv, NEW type \in Types, asked[type] # NULL
      PROVE  \E i \in DOMAIN osdist :
                 /\ osdist[i].type = type
                 /\ \A j \in DOMAIN osdist : osdist[j].type = type => i = j
                 /\ ToSet(osdist[i].indexes) = asked[type].left
                 /\ SameValues(osdist[i], asked[type])
    BY DEF UserMatrixWins
<1>2. AskedOK(asked[type]) /\ Wins(osdist, type, asked[type])
    BY <1>1 DEF MInv, ListInv
<1>3. PICK i \in DOMAIN osdist : Only(osdist, type, i) /\ Kept(osdist[i], asked[type])
    BY <1>2 DEF Wins
<1>4. SameValues(osdist[i], asked[type])
    BY <1>2, <1>3, SubGives DEF AskedOK, Kept
<1> QED BY <1>3, <1>4 DEF Only, Kept

(* Whatever the program, the environment and the backend give, and         *)
(* whatever every load and restriction finds, a matrix that was forced     *)
(* stays the only one of its type, with the distances it was given, while  *)
(* one of its objects is found (hwloc_distances_set, finalize_os).         *)
THEOREM ForcedMatrixStays == MSpec => []UserMatrixWins
<1> QED BY MatricesInvariant, MInvWins, PTL

-----------------------------------------------------------------------------
(* Groups.                                                                 *)

(* The line and the column of a cell.                                      *)
LEMMA CellOf ==
    ASSUME NEW n \in Nat \ {0}, NEW m \in Nat, NEW p \in Nat, p < m * n
    PROVE  p \div n \in 0..(m - 1) /\ p % n \in 0..(n - 1)
<1> DEFINE q == p \div n
           r == p % n
<1>1. q \in Int /\ r \in 0..(n - 1) /\ p = n * q + r
    OBVIOUS
<1> HIDE DEF q, r
<1>2. n * q >= 0 => q >= 0
    BY <1>1
<1>3. q >= 0
    <2>1. SUFFICES ASSUME q <= -1 PROVE FALSE
        BY <1>1
    <2>2. n * q <= n * (-1)
        BY <1>1, <2>1
    <2>3. n * q \in Int
        BY <1>1
    <2> QED BY <1>1, <2>2, <2>3
<1>4. q <= m - 1
    <2>1. SUFFICES ASSUME q >= m PROVE FALSE
        BY <1>1
    <2>2. n * q >= n * m /\ n * m = m * n
        BY <1>1, <2>1
    <2>3. n * q \in Int /\ n * m \in Int
        BY <1>1
    <2> QED BY <1>1, <2>2, <2>3
<1> QED BY <1>1, <1>3, <1>4 DEF q, r

(* An object that one of a connected set is next to joins it.              *)
LEMMA ConnectedMore ==
    ASSUME NEW G, NEW near, Connected(G, near), NEW j \in G, NEW k, <<j, k>> \in near
    PROVE  Connected(G \cup {k}, near)
<1> DEFINE H == G \cup {k}
<1>1. SUFFICES ASSUME NEW S \in (SUBSET H) \ {{}, H}
      PROVE  \E x \in S, y \in H \ S : <<x, y>> \in near \/ <<y, x>> \in near
    BY DEF Connected
<1>2. CASE S \cap G = {}
    <2>1. S = {k} /\ k \notin G
        BY <1>1, <1>2
    <2> QED BY <2>1
<1>3. CASE S \cap G = G
    <2>1. k \notin S /\ j \in S
        BY <1>1, <1>3
    <2> QED BY <2>1
<1>4. CASE S \cap G # {} /\ S \cap G # G
    <2> DEFINE U == S \cap G
    <2>1. U \in (SUBSET G) \ {{}, G}
        BY <1>4
    <2>2. PICK x \in U, y \in G \ U : <<x, y>> \in near \/ <<y, x>> \in near
        BY <2>1 DEF Connected
    <2> QED BY <2>2
<1> QED BY <1>2, <1>3, <1>4

Members(n, ids, id) == {k \in 0..(n - 1) : ids[k] = id}

(* What closing group id has made of the numbers old.                      *)
Growing(n, near, old, id, s) ==
    /\ s.ids \in [0..(n - 1) -> Nat]
    /\ \A k \in 0..(n - 1) : s.ids[k] = old[k] \/ (old[k] = 0 /\ s.ids[k] = id)
    /\ Connected(Members(n, s.ids, id), near)
    /\ s.found \in {-1} \cup 0..(n - 1)

(* An object that joins the group keeps it connected.                      *)
LEMMA BringKeeps ==
    ASSUME NEW n \in Nat, NEW near, NEW old, NEW id \in Nat \ {0}, NEW s,
           Growing(n, near, old, id, s), NEW j \in 0..(n - 1), NEW k \in 0..(n - 1)
    PROVE  Growing(n, near, old, id, bring(near, id, s, j, k))
<1> DEFINE t == bring(near, id, s, j, k)
           R == 0..(n - 1)
<1>1. /\ s.ids \in [R -> Nat]
      /\ \A x \in R : s.ids[x] = old[x] \/ (old[x] = 0 /\ s.ids[x] = id)
      /\ Connected(Members(n, s.ids, id), near)
      /\ s.found \in {-1} \cup R
    BY DEF Growing
<1>2. CASE s.ids[j] = id /\ s.ids[k] = 0 /\ <<j, k>> \in near
    <2> DEFINE ids == [s.ids EXCEPT ![k] = id]
    <2>1. t.ids = ids /\ t.found = IF s.found = -1 THEN k ELSE s.found
        BY <1>2 DEF bring
    <2>2. /\ ids \in [R -> Nat] /\ ids[k] = id
          /\ \A x \in R : x # k => ids[x] = s.ids[x]
        BY <1>1
    <2> HIDE DEF ids, t, R
    <2>3. \A x \in R : ids[x] = old[x] \/ (old[x] = 0 /\ ids[x] = id)
        BY <1>1, <1>2, <2>2
    <2>4. Members(n, ids, id) = Members(n, s.ids, id) \cup {k}
        BY <2>2 DEF Members, R
    <2>5. j \in Members(n, s.ids, id)
        BY <1>2 DEF Members
    <2>6. Connected(Members(n, ids, id), near)
        BY <1>1, <1>2, <2>4, <2>5, ConnectedMore
    <2>7. t.found \in {-1} \cup R
        BY <1>1, <2>1 DEF R
    <2>8. Growing(n, near, old, id, t)
        BY <2>1, <2>2, <2>3, <2>6, <2>7 DEF Growing, R
    <2> QED BY <2>8 DEF t
<1>3. CASE ~(s.ids[j] = id /\ s.ids[k] = 0 /\ <<j, k>> \in near)
    <2>1. t = s
        BY <1>3 DEF bring
    <2> QED BY <2>1
<1> QED BY <1>2, <1>3

LEMMA ScanKeeps ==
    ASSUME NEW n \in Nat, NEW near, NEW old, NEW id \in Nat \ {0}, NEW s,
           Growing(n, near, old, id, s), NEW first \in 0..(n - 1)
    PROVE  Growing(n, near, old, id, scan(n, near, s.ids, id, first))
<1> DEFINE N == (n - first) * n
           m == n - first
<1>0. N \in Nat /\ m \in Nat /\ n \in Nat \ {0} /\ N = m * n
    <2>1. m \in Nat /\ n \in Nat \ {0}
        OBVIOUS
    <2>2. N = m * n
        OBVIOUS
    <2> HIDE DEF m, N
    <2> QED BY <2>1, <2>2
<1>1. PICK f : /\ scan(n, near, s.ids, id, first) = f[N]
               /\ f[0] = Start(s.ids)
               /\ \A p \in 1..N : f[p] = Visit(n, near, id, first, f[p - 1], p)
    <2>1. N \in Nat /\ N = (n - first) * n
        BY <1>0
    <2> HIDE DEF N
    <2> QED BY <2>1, ScanExists
<1> HIDE DEF N, m
<1> DEFINE Is(p) == Growing(n, near, old, id, f[p])
           Bad == {p \in 0..N : ~Is(p)}
           e == Min(Bad)
<1>2. Is(0)
    <2>1. f[0].ids = s.ids /\ f[0].found = -1
        BY <1>1 DEF Start
    <2> QED BY <2>1 DEF Growing
<1>3. Is(N)
    <2> HIDE DEF Is
    <2>1. SUFFICES ASSUME Bad # {} PROVE FALSE
        BY <1>0
    <2>a. Bad \subseteq Nat
        BY <1>0
    <2>2. e \in Bad /\ \A p \in Bad : e <= p
        BY <2>a, <2>1, LeastNat, Zenon
    <2> HIDE DEF e
    <2>3. e \in 0..N /\ ~Is(e)
        BY <2>2
    <2>4. e # 0
        BY <1>2, <2>3
    <2> DEFINE p == e - 1
    <2>5. p \in Nat /\ p < N /\ p \in 0..N /\ e \in 1..N /\ ~(e <= p)
        BY <1>0, <2>3, <2>4
    <2>6. Is(p)
        BY <2>2, <2>5
    <2> DEFINE q == p \div n
               r == p % n
               j == first + q
    <2>7. f[e] = bring(near, id, f[p], j, r)
        BY <1>1, <2>5 DEF Visit
    <2> HIDE DEF p
    <2>8. q \in 0..(m - 1) /\ r \in 0..(n - 1)
        <3>1. p < m * n
            BY <1>0, <2>5
        <3> QED BY <1>0, <2>5, <3>1, CellOf
    <2> HIDE DEF q, r
    <2>9. j \in 0..(n - 1)
        BY <2>8 DEF m
    <2> HIDE DEF j
    <2>10. Growing(n, near, old, id, bring(near, id, f[p], j, r))
        BY <2>6, <2>8, <2>9, BringKeeps DEF Is
    <2>11. Is(e)
        BY <2>7, <2>10 DEF Is
    <2> QED BY <2>3, <2>11
<1> QED BY <1>1, <1>3

(* So do the passes.                                                       *)
LEMMA CloseKeeps ==
    ASSUME NEW n \in Nat, NEW near, NEW old, NEW id \in Nat \ {0}, NEW ids, NEW i \in 0..(n - 1),
           Growing(n, near, old, id, [ids |-> ids, found |-> i])
    PROVE  LET new == close_group(n, near, ids, id, i)
           IN  /\ new \in [0..(n - 1) -> Nat]
               /\ \A k \in 0..(n - 1) : new[k] = old[k] \/ (old[k] = 0 /\ new[k] = id)
               /\ Connected(Members(n, new, id), near)
<1>1. PICK f : /\ close_group(n, near, ids, id, i) = f[n].ids
               /\ f[0] = [ids |-> ids, found |-> i]
               /\ \A r \in 1..n : f[r] = IF f[r - 1].found = -1 THEN f[r - 1]
                                         ELSE scan(n, near, f[r - 1].ids, id, f[r - 1].found)
    BY CloseExists
<1> DEFINE Is(p) == Growing(n, near, old, id, f[p])
           Bad == {p \in 0..n : ~Is(p)}
           e == Min(Bad)
<1>2. Is(0)
    BY <1>1
<1>3. Is(n)
    <2> HIDE DEF Is
    <2>1. SUFFICES ASSUME Bad # {} PROVE FALSE
        OBVIOUS
    <2>a. Bad \subseteq Nat
        OBVIOUS
    <2>2. e \in Bad /\ \A p \in Bad : e <= p
        BY <2>a, <2>1, LeastNat, Zenon
    <2> HIDE DEF e
    <2>3. e \in 0..n /\ ~Is(e)
        BY <2>2
    <2>4. e # 0
        BY <1>2, <2>3
    <2> DEFINE p == e - 1
    <2>5. p \in 0..n /\ e \in 1..n /\ ~(e <= p)
        BY <2>3, <2>4
    <2>6. Is(p)
        BY <2>2, <2>5
    <2>7. f[e] = IF f[p].found = -1 THEN f[p] ELSE scan(n, near, f[p].ids, id, f[p].found)
        BY <1>1, <2>5
    <2> HIDE DEF p
    <2>8. CASE f[p].found = -1
        BY <2>3, <2>6, <2>7, <2>8 DEF Is
    <2>9. CASE f[p].found # -1
        <3>1. f[p].found \in 0..(n - 1)
            BY <2>6, <2>9 DEF Is, Growing
        <3>2. Growing(n, near, old, id, scan(n, near, f[p].ids, id, f[p].found))
            BY <2>6, <3>1, ScanKeeps DEF Is
        <3> QED BY <2>3, <2>7, <2>9, <3>2 DEF Is
    <2> QED BY <2>8, <2>9
<1> QED BY <1>1, <1>3 DEF Growing

(* After some objects: the groups so far are connected, and none of them   *)
(* is a single object.                                                     *)
GroupInv(n, near, s) ==
    /\ s = [ids |-> s.ids, next |-> s.next, skipped |-> s.skipped]
    /\ s.ids \in [0..(n - 1) -> Nat]
    /\ s.next \in Nat \ {0} /\ s.skipped \in Nat
    /\ \A k \in 0..(n - 1) : s.ids[k] < s.next
    /\ \A id \in 1..(s.next - 1) :
          /\ Cardinality(Members(n, s.ids, id)) > 1
          /\ Connected(Members(n, s.ids, id), near)

LEMMA NewGroupKeeps ==
    ASSUME NEW n \in Nat, NEW near, NEW s, GroupInv(n, near, s), NEW i \in 0..(n - 1),
           s.ids[i] = 0
    PROVE  GroupInv(n, near, new_group(n, near, s, i))
<1> DEFINE R == 0..(n - 1)
           id == s.next
           old == [s.ids EXCEPT ![i] = id]
           ids == close_group(n, near, old, id, i)
           t == new_group(n, near, s, i)
<1>1. /\ s.ids \in [R -> Nat]
      /\ id \in Nat \ {0} /\ s.skipped \in Nat
      /\ \A k \in R : s.ids[k] < id
      /\ \A g \in 1..(id - 1) : /\ Cardinality(Members(n, s.ids, g)) > 1
                                /\ Connected(Members(n, s.ids, g), near)
    BY DEF GroupInv
<1>2. t = IF Cardinality(Members(n, ids, id)) = 1
          THEN [ids |-> s.ids, next |-> id, skipped |-> s.skipped + 1]
          ELSE [ids |-> ids, next |-> id + 1, skipped |-> s.skipped]
    BY DEF new_group, Members
<1>3. old \in [R -> Nat] /\ old[i] = id /\ \A k \in R : k # i => old[k] = s.ids[k]
    BY <1>1
<1>a. s.ids[i] = 0
    OBVIOUS
<1> HIDE DEF old, id, t
<1>4. Members(n, old, id) = {i}
    <2>1. \A k \in R : k # i => old[k] # id
        <3>1. SUFFICES ASSUME NEW k \in R, k # i PROVE old[k] # id
            OBVIOUS
        <3>2. old[k] < id /\ old[k] \in Nat
            BY <1>1, <1>3, <3>1
        <3> QED BY <1>1, <3>2
    <2> QED BY <1>3, <2>1 DEF Members
<1>5. Connected(Members(n, old, id), near)
    BY <1>4 DEF Connected
<1>6. Growing(n, near, old, id, [ids |-> old, found |-> i])
    <2> DEFINE u == [ids |-> old, found |-> i]
    <2>1. u.ids = old /\ u.found = i
        OBVIOUS
    <2> HIDE DEF u
    <2>3. Growing(n, near, old, id, u)
        BY <1>3, <1>5, <2>1 DEF Growing
    <2> QED BY <2>3 DEF u
<1>b. /\ ids \in [R -> Nat]
      /\ \A k \in R : ids[k] = old[k] \/ (old[k] = 0 /\ ids[k] = id)
      /\ Connected(Members(n, ids, id), near)
    BY <1>1, <1>6, CloseKeeps
<1> HIDE DEF ids
<1>7. /\ ids \in [R -> Nat]
      /\ \A k \in R : ids[k] = s.ids[k] \/ (s.ids[k] = 0 /\ ids[k] = id)
      /\ Connected(Members(n, ids, id), near)
      /\ ids[i] = id
    BY <1>1, <1>3, <1>a, <1>b
<1>8. CASE Cardinality(Members(n, ids, id)) = 1
    <2>1. t = [ids |-> s.ids, next |-> id, skipped |-> s.skipped + 1]
        BY <1>2, <1>8
    <2>2. t.ids = s.ids /\ t.next = id /\ t.skipped = s.skipped + 1
          /\ t = [ids |-> t.ids, next |-> t.next, skipped |-> t.skipped]
        BY <2>1
    <2>3. GroupInv(n, near, t)
        BY <1>1, <2>2 DEF GroupInv
    <2> QED BY <2>3 DEF t
<1>9. CASE Cardinality(Members(n, ids, id)) # 1
    <2>1. t = [ids |-> ids, next |-> id + 1, skipped |-> s.skipped]
        BY <1>2, <1>9
    <2>2. t.ids = ids /\ t.next = id + 1 /\ t.skipped = s.skipped
          /\ t = [ids |-> t.ids, next |-> t.next, skipped |-> t.skipped]
        BY <2>1
    <2>3. \A k \in R : ids[k] < id + 1
        <3>1. SUFFICES ASSUME NEW k \in R PROVE ids[k] < id + 1
            OBVIOUS
        <3>2. s.ids[k] < id /\ s.ids[k] \in Nat /\ (ids[k] = s.ids[k] \/ ids[k] = id)
            BY <1>1, <1>7, SMTT(30)
        <3> QED BY <1>1, <3>2
    <2>4. ASSUME NEW g \in 1..(id - 1)
          PROVE  Members(n, ids, g) = Members(n, s.ids, g)
        <3>1. \A k \in R : ids[k] = g <=> s.ids[k] = g
            <4>1. g # 0 /\ g # id
                BY <1>1, <2>4
            <4> QED BY <1>7, <4>1, Zenon
        <3> QED BY <3>1 DEF Members
    <2>5. Cardinality(Members(n, ids, id)) > 1
        <3>0. IsFiniteSet(0..(n - 1))
            <4>1. 0 \in Int /\ n - 1 \in Int
                OBVIOUS
            <4> QED BY <4>1, FS_Interval
        <3>1. IsFiniteSet(Members(n, ids, id))
            <4>1. Members(n, ids, id) \subseteq 0..(n - 1)
                BY DEF Members
            <4> QED BY <3>0, <4>1, FS_Subset
        <3>2. i \in Members(n, ids, id)
            BY <1>7 DEF Members
        <3>3. Cardinality(Members(n, ids, id)) \in Nat /\ Cardinality(Members(n, ids, id)) # 0
            BY <3>1, <3>2, FS_CardinalityType, FS_EmptySet
        <3> QED BY <1>9, <3>3
    <2>6. ASSUME NEW g \in 1..((id + 1) - 1)
          PROVE  /\ Cardinality(Members(n, ids, g)) > 1
                 /\ Connected(Members(n, ids, g), near)
        <3>1. g = id \/ g \in 1..(id - 1)
            BY <1>1
        <3> QED BY <1>1, <1>7, <2>4, <2>5, <3>1
    <2>7. id + 1 \in Nat \ {0}
        BY <1>1
    <2>8. GroupInv(n, near, t)
        BY <1>1, <1>7, <2>2, <2>3, <2>6, <2>7 DEF GroupInv
    <2> QED BY <2>8 DEF t
<1> QED BY <1>8, <1>9

(* The groups of a matrix are connected, and none is a single object.      *)
LEMMA FindGroups ==
    ASSUME NEW n \in Nat, NEW M, NEW accuracy
    PROVE  LET g == find_groups_by_min_distance(n, M, accuracy)
               near == MinimallyConnected(n, M, accuracy)
           IN  \A id \in 1..g.nb : /\ Cardinality(Members(n, g.ids, id)) > 1
                                   /\ Connected(Members(n, g.ids, id), near)
<1> DEFINE g == find_groups_by_min_distance(n, M, accuracy)
           near == MinimallyConnected(n, M, accuracy)
<1>1. PICK f : /\ g = [ids |-> f[n].ids,
                       nb |-> IF f[n].next = 2 /\ f[n].skipped = 0 THEN 0 ELSE f[n].next - 1]
               /\ f[0] = NoGroups(n)
               /\ \A p \in 1..n : f[p] = IF f[p - 1].ids[p - 1] # 0 THEN f[p - 1]
                                         ELSE new_group(n, near, f[p - 1], p - 1)
    BY FindExists
<1> HIDE DEF near
<1> DEFINE Is(p) == GroupInv(n, near, f[p])
           Bad == {p \in 0..n : ~Is(p)}
           e == Min(Bad)
<1>2. Is(0)
    <2> DEFINE s == f[0]
    <2>1. s = [ids |-> [k \in 0..(n - 1) |-> 0], next |-> 1, skipped |-> 0]
        BY <1>1 DEF NoGroups
    <2>2. /\ s.ids = [k \in 0..(n - 1) |-> 0] /\ s.next = 1 /\ s.skipped = 0
          /\ s = [ids |-> s.ids, next |-> s.next, skipped |-> s.skipped]
        BY <2>1
    <2> HIDE DEF s
    <2>3. GroupInv(n, near, s)
        BY <2>2 DEF GroupInv
    <2> QED BY <2>3 DEF s
<1>3. Is(n)
    <2> HIDE DEF Is
    <2>1. SUFFICES ASSUME Bad # {} PROVE FALSE
        OBVIOUS
    <2>a. Bad \subseteq Nat
        OBVIOUS
    <2>2. e \in Bad /\ \A p \in Bad : e <= p
        BY <2>a, <2>1, LeastNat, Zenon
    <2> HIDE DEF e
    <2>3. e \in 0..n /\ ~Is(e)
        BY <2>2
    <2>4. e # 0
        BY <1>2, <2>3
    <2> DEFINE p == e - 1
    <2>5. p \in 0..n /\ p \in 0..(n - 1) /\ e \in 1..n /\ ~(e <= p)
        BY <2>3, <2>4
    <2>6. Is(p)
        BY <2>2, <2>5
    <2>7. f[e] = IF f[p].ids[p] # 0 THEN f[p] ELSE new_group(n, near, f[p], p)
        BY <1>1, <2>5
    <2> HIDE DEF p
    <2>8. CASE f[p].ids[p] # 0
        BY <2>3, <2>6, <2>7, <2>8 DEF Is
    <2>9. CASE f[p].ids[p] = 0
        <3>1. GroupInv(n, near, new_group(n, near, f[p], p))
            BY <2>5, <2>6, <2>9, NewGroupKeeps DEF Is
        <3> QED BY <2>3, <2>7, <2>9, <3>1 DEF Is
    <2> QED BY <2>8, <2>9
<1>4. g.ids = f[n].ids /\ (g.nb = 0 \/ g.nb = f[n].next - 1)
    BY <1>1
<1> HIDE DEF g
<1>5. ASSUME NEW id \in 1..g.nb
      PROVE  Cardinality(Members(n, g.ids, id)) > 1 /\ Connected(Members(n, g.ids, id), near)
    <2>1. f[n].next \in Nat \ {0}
        BY <1>3 DEF GroupInv
    <2>2. id \in 1..(f[n].next - 1)
        BY <1>4, <2>1
    <2> QED BY <1>3, <1>4, <2>2 DEF GroupInv
<1> QED BY <1>5 DEF g, near

LEMMA AskedGroups ==
    ASSUME \A type \in Types : asked[type] # NULL => asked[type].indexes \in Seq(Nat)
    PROVE  GroupsConnected
<1>1. SUFFICES ASSUME NEW type \in Types, NEW accuracy \in ToSet(Accuracies),
                      Groupable(asked[type], accuracy)
      PROVE  LET m == asked[type]
                 n == Len(m.indexes)
                 g == Groups(m, accuracy)
             IN  \A id \in 1..g.nb :
                    /\ Cardinality({k \in 0..(n - 1) : g.ids[k] = id}) > 1
                    /\ Connected({k \in 0..(n - 1) : g.ids[k] = id},
                                 MinimallyConnected(n, Cells(m.values, n), accuracy))
    BY Zenon DEF GroupsConnected
<1> DEFINE n == Len(asked[type].indexes)
           M == Cells(asked[type].values, n)
           g == find_groups_by_min_distance(n, M, accuracy)
<1>2. n \in Nat
    BY <1>1 DEF Groupable
<1>3. Groups(asked[type], accuracy) = g
    BY DEF Groups
<1> HIDE DEF n, M
<1>4. \A id \in 1..g.nb : /\ Cardinality(Members(n, g.ids, id)) > 1
                          /\ Connected(Members(n, g.ids, id), MinimallyConnected(n, M, accuracy))
    BY <1>2, FindGroups
<1> HIDE DEF g
<1> QED BY <1>3, <1>4, Zenon DEF Members, n, M

(* For every matrix that was given, whatever its distances, and for every  *)
(* accuracy, the objects of one group are joined by steps of the minimal   *)
(* distance within the group, and no group is a single object              *)
(* (hwloc__find_groups_by_min_distance).                                   *)
THEOREM GroupsAreConnected == MSpec => []GroupsConnected
<1>1. MInv => GroupsConnected
    <2>1. SUFFICES ASSUME MInv PROVE GroupsConnected
        OBVIOUS
    <2>2. \A type \in Types : asked[type] # NULL => asked[type].indexes \in Seq(Nat)
        BY <2>1 DEF MInv, ListInv, AskedOK, Square
    <2> QED BY <2>2, AskedGroups
<1> QED BY <1>1, MatricesInvariant, PTL
=============================================================================
