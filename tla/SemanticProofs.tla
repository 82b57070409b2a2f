--------------------------- MODULE SemanticProofs ---------------------------
(***************************************************************************)
(* The semantic analyzer, for every set of syntax trees that the parser    *)
(* can make: lexical scoping, what an accepted program declares and        *)
(* returns, and what can crash.                                            *)
(*                                                                         *)
(* The invariant that everything rests on is Inv: the agenda is in the     *)
(* order of the source, the visits in it do not overlap, the scopes of its *)
(* tasks are nested, and each scope that was made has the first            *)
(* declaration of every name that was visited in it.                       *)
(***************************************************************************)
EXTENDS SemanticAnalyzer, Numbers, SequenceTheorems

-----------------------------------------------------------------------------
(* Paths *)

Path == Seq(Nat)

\* The first n slots of a path.
Cut(p, n) == SubSeq(p, 1, n)

LEMMA CutIs ==
  ASSUME NEW p \in Path, NEW n \in 0 .. Len(p)
  PROVE  /\ Cut(p, n) \in Path /\ Len(Cut(p, n)) = n
         /\ \A k \in 1 .. n : Cut(p, n)[k] = p[k]
<1>1. n \in Int /\ 1 \in Int /\ \A k \in 1 .. n : p[k] \in Nat
  BY DEF Path
<1> QED BY <1>1, SubSeqProperties DEF Path, Cut

LEMMA SamePath ==
  ASSUME NEW p \in Path, NEW q \in Path, Len(p) = Len(q),
         \A k \in 1 .. Len(p) : p[k] = q[k]
  PROVE  p = q
BY SeqEqual DEF Path

\* Two paths begin with the same n slots.
LEMMA CutsAgree ==
  ASSUME NEW p \in Path, NEW q \in Path, NEW n \in Nat, n <= Len(p), n <= Len(q)
  PROVE  Cut(p, n) = Cut(q, n) <=> \A k \in 1 .. n : p[k] = q[k]
<1>1. n \in 0 .. Len(p) /\ n \in 0 .. Len(q)
  BY DEF Path
<1>2. ASSUME \A k \in 1 .. n : p[k] = q[k]
      PROVE  Cut(p, n) = Cut(q, n)
  BY <1>1, <1>2, CutIs, SamePath
<1>3. ASSUME Cut(p, n) = Cut(q, n), NEW k \in 1 .. n
      PROVE  p[k] = q[k]
  BY <1>1, <1>3, CutIs
<1> QED BY <1>2, <1>3

LEMMA PrefixIs ==
  ASSUME NEW p \in Path, NEW q \in Path
  PROVE  IsPrefix(p, q) <=> Len(p) <= Len(q) /\ \A k \in 1 .. Len(p) : p[k] = q[k]
<1>1. Len(p) \in Nat /\ Len(q) \in Nat
  BY DEF Path
<1>2. IsPrefix(p, q) <=> Len(p) <= Len(q) /\ Cut(p, Len(p)) = Cut(q, Len(p))
  BY DEF IsPrefix, Cut
<1> QED BY <1>1, <1>2, CutsAgree

\* p is q, or above it in every tree.
Above(p, q) == Len(p) <= Len(q) /\ \A k \in 1 .. Len(p) : p[k] = q[k]

LEMMA AboveIs ==
  ASSUME NEW p \in Path, NEW q \in Path
  PROVE  /\ IsPrefix(p, q) <=> Above(p, q)
         /\ IsStrictPrefix(p, q) <=> Above(p, q) /\ p # q
BY PrefixIs DEF Above, IsStrictPrefix

LEMMA AboveOrder ==
  ASSUME NEW p \in Path, NEW q \in Path, NEW r \in Path
  PROVE  /\ Above(p, p)
         /\ Above(p, q) /\ Above(q, r) => Above(p, r)
         /\ Above(p, q) /\ Above(q, p) => p = q
         /\ Above(p, r) /\ Above(q, r) => Above(p, q) \/ Above(q, p)
         /\ Above(p, q) /\ p # q => Len(p) < Len(q)
<1>1. Len(p) \in Nat /\ Len(q) \in Nat /\ Len(r) \in Nat
  BY DEF Path
<1>2. Above(p, q) /\ Len(p) = Len(q) => p = q
  BY SamePath DEF Above
<1> QED BY <1>1, <1>2 DEF Above

LEMMA CutAbove ==
  ASSUME NEW p \in Path, NEW q \in Path
  PROVE  Above(p, q) <=> Len(p) <= Len(q) /\ p = Cut(q, Len(p))
<1>1. Len(p) \in Nat /\ Len(q) \in Nat
  BY DEF Path
<1>2. ASSUME Len(p) <= Len(q)
      PROVE  p = Cut(q, Len(p)) <=> \A k \in 1 .. Len(p) : p[k] = q[k]
  <2>1. Len(p) \in 0 .. Len(q)
    BY <1>1, <1>2
  <2>2. Cut(q, Len(p)) \in Path /\ Len(Cut(q, Len(p))) = Len(p)
        /\ \A k \in 1 .. Len(p) : Cut(q, Len(p))[k] = q[k]
    BY <2>1, CutIs
  <2> HIDE DEF Path
  <2>3. ASSUME \A k \in 1 .. Len(p) : p[k] = q[k] PROVE p = Cut(q, Len(p))
    BY <2>2, <2>3, SamePath
  <2> QED BY <2>2, <2>3
<1> QED BY <1>2 DEF Above

\* The child in slot i.
LEMMA ChildIs ==
  ASSUME NEW p \in Path, NEW i \in Nat
  PROVE  /\ Append(p, i) \in Path /\ Len(Append(p, i)) = Len(p) + 1
         /\ \A k \in 1 .. Len(p) : Append(p, i)[k] = p[k]
         /\ Append(p, i)[Len(p) + 1] = i
         /\ Front(Append(p, i)) = p /\ Last(Append(p, i)) = i
         /\ Append(p, i) # p /\ Append(p, i) # <<>> /\ Above(p, Append(p, i))
<1>1. /\ Append(p, i) \in Path /\ Len(Append(p, i)) = Len(p) + 1
      /\ \A k \in 1 .. Len(p) : Append(p, i)[k] = p[k]
      /\ Append(p, i)[Len(p) + 1] = i /\ Len(p) \in Nat
  BY AppendProperties DEF Path
<1>2. Len(p) \in 0 .. Len(Append(p, i))
  BY <1>1
<1>3. Front(Append(p, i)) = Cut(Append(p, i), Len(p))
  BY <1>1 DEF Front, Cut
<1>4. Front(Append(p, i)) = p
  <2> DEFINE c == Append(p, i)
  <2>1. Cut(c, Len(p)) \in Path /\ Len(Cut(c, Len(p))) = Len(p)
        /\ \A k \in 1 .. Len(p) : Cut(c, Len(p))[k] = c[k]
    BY <1>1, <1>2, CutIs
  <2>2. \A k \in 1 .. Len(p) : Cut(c, Len(p))[k] = p[k]
    BY <2>1, <1>1
  <2> HIDE DEF c, Path
  <2>3. Cut(c, Len(p)) = p
    BY <2>1, <2>2, SamePath
  <2> QED BY <1>3, <2>3 DEF c
<1>5. Above(p, Append(p, i))
  BY <1>1 DEF Above
<1> QED BY <1>1, <1>4, <1>5 DEF Last

\* What is below p is p, or below one of its children.
LEMMA BelowChild ==
  ASSUME NEW p \in Path, NEW q \in Path, Above(p, q), p # q
  PROVE  /\ Len(p) + 1 <= Len(q)
         /\ q[Len(p) + 1] \in Nat
         /\ Above(Append(p, q[Len(p) + 1]), q)
<1>1. Len(p) \in Nat /\ Len(q) \in Nat /\ Len(p) < Len(q)
  BY AboveOrder DEF Path
<1>2. q[Len(p) + 1] \in Nat
  BY <1>1 DEF Path
<1>3. Above(Append(p, q[Len(p) + 1]), q)
  <2> DEFINE c == Append(p, q[Len(p) + 1])
  <2>1. Len(c) = Len(p) + 1 /\ (\A k \in 1 .. Len(p) : c[k] = p[k])
        /\ c[Len(p) + 1] = q[Len(p) + 1]
    BY <1>2, ChildIs
  <2> HIDE DEF c
  <2>2. ASSUME NEW k \in 1 .. Len(c) PROVE c[k] = q[k]
    BY <1>1, <2>1, <2>2 DEF Above
  <2>3. Len(c) <= Len(q)
    BY <1>1, <2>1
  <2>4. Above(c, q)
    BY <2>2, <2>3 DEF Above
  <2> QED BY <2>4 DEF c
<1> QED BY <1>1, <1>2, <1>3

LEMMA ChildAbove ==
  ASSUME NEW p \in Path, NEW q \in Path, NEW i \in Nat
  PROVE  Above(Append(p, i), q) <=> Above(p, q) /\ p # q /\ q[Len(p) + 1] = i
<1>1. Len(p) \in Nat /\ Len(q) \in Nat
  BY DEF Path
<1>2. ASSUME Above(Append(p, i), q)
      PROVE  Above(p, q) /\ p # q /\ q[Len(p) + 1] = i
  <2> DEFINE c == Append(p, i)
  <2>1. Len(c) = Len(p) + 1 /\ (\A k \in 1 .. Len(p) : c[k] = p[k])
        /\ c[Len(p) + 1] = i /\ Above(c, q)
    BY <1>2, ChildIs
  <2> HIDE DEF c
  <2> QED BY <1>1, <2>1 DEF Above
<1>3. ASSUME Above(p, q), p # q, q[Len(p) + 1] = i
      PROVE  Above(Append(p, i), q)
  BY <1>3, BelowChild
<1> QED BY <1>2, <1>3

\* The paths that leave p to the right of d.
Splits(d, p, n) ==
  /\ n \in 0 .. Len(p) - 1 /\ n < Len(d)
  /\ (\A k \in 1 .. n : d[k] = p[k]) /\ d[n + 1] < p[n + 1]

LEMMA PrecedesIs ==
  ASSUME NEW d \in Path, NEW p \in Path
  PROVE  Precedes(d, p) <=> (Above(d, p) /\ d # p) \/ \E n \in Nat : Splits(d, p, n)
<1>1. Len(d) \in Nat /\ Len(p) \in Nat
  BY DEF Path
<1>2. ASSUME NEW n \in 0 .. Len(p) - 1, n < Len(d)
      PROVE  SubSeq(d, 1, n) = SubSeq(p, 1, n) <=> \A k \in 1 .. n : d[k] = p[k]
  <2>1. n \in Nat /\ n <= Len(d) /\ n <= Len(p)
    BY <1>1, <1>2
  <2> QED BY <2>1, CutsAgree DEF Cut
<1>3. (\E n \in 0 .. Len(p) - 1 :
         n < Len(d) /\ SubSeq(d, 1, n) = SubSeq(p, 1, n) /\ d[n + 1] < p[n + 1])
      <=> \E n \in Nat : Splits(d, p, n)
  BY <1>1, <1>2 DEF Splits
<1> QED BY <1>3, AboveIs DEF Precedes

LEMMA PrecedesOrder ==
  ASSUME NEW d \in Path, NEW p \in Path
  PROVE  /\ ~Precedes(p, p)
         /\ Above(p, d) => ~Precedes(d, p)
         /\ ~(Precedes(d, p) /\ Precedes(p, d))
<1>1. /\ Len(d) \in Nat /\ Len(p) \in Nat
      /\ \A k \in 1 .. Len(d) : d[k] \in Nat
      /\ \A k \in 1 .. Len(p) : p[k] \in Nat
  BY DEF Path
<1>2. ASSUME Above(p, d), NEW n \in Nat, Splits(d, p, n)
      PROVE  FALSE
  BY <1>1, <1>2 DEF Above, Splits
<1>3. Above(p, d) => ~Precedes(d, p)
  BY <1>2, PrecedesIs, AboveOrder
<1>4. ASSUME Above(d, p), NEW n \in Nat, Splits(p, d, n)
      PROVE  FALSE
  BY <1>1, <1>4 DEF Above, Splits
<1>5. ASSUME NEW n \in Nat, Splits(d, p, n), NEW m \in Nat, Splits(p, d, m)
      PROVE  FALSE
  <2>1. /\ n + 1 \in 1 .. Len(p) /\ n + 1 \in 1 .. Len(d)
        /\ m + 1 \in 1 .. Len(p) /\ m + 1 \in 1 .. Len(d)
    BY <1>1, <1>5 DEF Splits
  <2>2. d[n + 1] < p[n + 1] /\ p[m + 1] < d[m + 1]
    BY <1>5 DEF Splits
  <2>3. CASE n < m
    <3>1. n + 1 \in 1 .. m
      BY <2>3
    <3>2. p[n + 1] = d[n + 1]
      BY <3>1, <1>5 DEF Splits
    <3> QED BY <3>2, <2>2, <2>1, <1>1
  <2>4. CASE m < n
    <3>1. m + 1 \in 1 .. n
      BY <2>4
    <3>2. p[m + 1] = d[m + 1]
      BY <3>1, <1>5 DEF Splits
    <3> QED BY <3>2, <2>2, <2>1, <1>1
  <2>5. CASE n = m
    BY <2>5, <2>2, <2>1, <1>1
  <2> QED BY <2>3, <2>4, <2>5
<1>6. ~(Precedes(d, p) /\ Precedes(p, d))
  BY <1>2, <1>4, <1>5, PrecedesIs, AboveOrder
<1>7. ~Precedes(p, p)
  <2>1. ~ \E n \in Nat : Splits(p, p, n)
    BY <1>1 DEF Splits
  <2> QED BY <2>1, PrecedesIs
<1> QED BY <1>3, <1>6, <1>7

\* What comes before the child in slot i of p.
LEMMA PrecedesChild ==
  ASSUME NEW d \in Path, NEW p \in Path, NEW i \in Nat
  PROVE  Precedes(d, Append(p, i)) <=>
           Precedes(d, p) \/ (Above(p, d) /\ (d = p \/ d[Len(p) + 1] < i))
<1> DEFINE c == Append(p, i)
<1>1. /\ Len(d) \in Nat /\ Len(p) \in Nat /\ c \in Path /\ Len(c) = Len(p) + 1
      /\ (\A k \in 1 .. Len(p) : c[k] = p[k]) /\ c[Len(p) + 1] = i
  BY ChildIs DEF Path
<1> HIDE DEF c
<1>2. Above(d, c) /\ d # c <=> Above(d, p)
  <2>1. ASSUME Above(d, c), d # c PROVE Above(d, p)
    <3>1. Len(d) < Len(c)
      BY <2>1, <1>1, AboveOrder
    <3> QED BY <2>1, <3>1, <1>1 DEF Above
  <2>2. ASSUME Above(d, p) PROVE Above(d, c) /\ d # c
    BY <2>2, <1>1 DEF Above
  <2> QED BY <2>1, <2>2
<1>3. ASSUME NEW n \in Nat, Splits(d, c, n)
      PROVE  Splits(d, p, n) \/ (Above(p, d) /\ d # p /\ d[Len(p) + 1] < i)
  <2>1. CASE n < Len(p)
    <3>1. \A k \in 1 .. n : p[k] = c[k]
      BY <2>1, <1>1
    <3>2. p[n + 1] = c[n + 1]
      BY <2>1, <1>1
    <3> QED BY <2>1, <3>1, <3>2, <1>1, <1>3 DEF Splits
  <2>2. CASE n = Len(p)
    BY <2>2, <1>1, <1>3 DEF Splits, Above
  <2> QED BY <2>1, <2>2, <1>1, <1>3 DEF Splits
<1>4. ASSUME NEW n \in Nat, Splits(d, p, n)
      PROVE  Splits(d, c, n)
  <2>1. n < Len(p)
    BY <1>4, <1>1 DEF Splits
  <2>2. p[n + 1] = c[n + 1] /\ \A k \in 1 .. n : p[k] = c[k]
    BY <2>1, <1>1
  <2> QED BY <2>1, <2>2, <1>1, <1>4 DEF Splits
<1>5. ASSUME Above(p, d), d # p, d[Len(p) + 1] < i
      PROVE  Splits(d, c, Len(p))
  <2>1. Len(p) < Len(d)
    BY <1>5, AboveOrder
  <2> QED BY <2>1, <1>1, <1>5 DEF Splits, Above
<1>6. Precedes(d, c) <=> (Above(d, c) /\ d # c) \/ \E n \in Nat : Splits(d, c, n)
  BY <1>1, PrecedesIs
<1>7. Precedes(d, p) <=> (Above(d, p) /\ d # p) \/ \E n \in Nat : Splits(d, p, n)
  BY PrecedesIs
<1>8. Above(p, p)
  BY AboveOrder
<1>9. Precedes(d, c) => Precedes(d, p) \/ (Above(p, d) /\ (d = p \/ d[Len(p) + 1] < i))
  BY <1>2, <1>3, <1>6, <1>7, <1>8
<1>10. ASSUME Precedes(d, p) \/ (Above(p, d) /\ (d = p \/ d[Len(p) + 1] < i))
       PROVE  Precedes(d, c)
  BY <1>2, <1>4, <1>5, <1>6, <1>7, <1>8, <1>10, <1>1
<1> QED BY <1>9, <1>10 DEF c

\* What comes before p, and what stands below it.
LEMMA BelowPrecedes ==
  ASSUME NEW d \in Path, NEW e \in Path, NEW p \in Path, Above(d, e),
         Precedes(d, p), ~Above(d, p)
  PROVE  Precedes(e, p)
<1>1. PICK n \in Nat : Splits(d, p, n)
  BY PrecedesIs
<1>2. Len(d) \in Nat /\ Len(e) \in Nat /\ Len(p) \in Nat
  BY LenProperties DEF Path
<1>3. Splits(e, p, n)
  BY <1>1, <1>2 DEF Splits, Above
<1> QED BY <1>3, PrecedesIs

-----------------------------------------------------------------------------
(* The tree *)

LEMMA LastChild ==
  ASSUME NEW q \in Path, q # <<>>
  PROVE  /\ Front(q) \in Path /\ Last(q) \in Nat /\ q = Append(Front(q), Last(q))
         /\ Len(q) = Len(Front(q)) + 1 /\ Above(Front(q), q)
<1>1. Len(q) \in Nat \ {0} /\ Len(q) - 1 \in 0 .. Len(q)
  BY EmptySeq DEF Path
<1>2. Last(q) \in Nat
  BY <1>1 DEF Path, Last
<1>3. /\ Front(q) \in Path /\ Len(Front(q)) = Len(q) - 1
      /\ \A k \in 1 .. Len(q) - 1 : Front(q)[k] = q[k]
  BY <1>1, CutIs DEF Front, Cut
<1> DEFINE f == Front(q)
           i == Last(q)
           c == Append(f, i)
<1>4. i = q[Len(q)]
  BY DEF Last
<1>5. f \in Path /\ i \in Nat
  BY <1>2, <1>3
<1>6. /\ c \in Path /\ Len(c) = Len(f) + 1 /\ c[Len(f) + 1] = i
      /\ \A k \in 1 .. Len(f) : c[k] = f[k]
  <2> HIDE DEF f, i
  <2> QED BY <1>5, ChildIs
<1>7. Len(f) = Len(q) - 1 /\ \A k \in 1 .. Len(q) - 1 : f[k] = q[k]
  BY <1>3
<1> HIDE DEF f, i, c
<1>8. ASSUME NEW k \in 1 .. Len(q) PROVE c[k] = q[k]
  BY <1>1, <1>4, <1>6, <1>7, <1>8
<1>9. c = q
  BY <1>1, <1>6, <1>7, <1>8, SamePath
<1>10. Above(f, q)
  BY <1>1, <1>7 DEF Above
<1> QED BY <1>1, <1>5, <1>7, <1>9, <1>10 DEF c, f, i

LEMMA NodesArePaths ==
  ASSUME WellFormed(ast)
  PROVE  /\ DOMAIN ast \subseteq Path /\ IsFiniteSet(DOMAIN ast)
         /\ <<>> \in DOMAIN ast /\ ast[<<>>].kind = "program"
BY DEF WellFormed, Path

\* The node above the last slot of a path.
LEMMA ParentIs ==
  ASSUME WellFormed(ast), NEW q \in DOMAIN ast, q # <<>>
  PROVE  /\ Front(q) \in DOMAIN ast /\ Last(q) \in 1 .. ast[Front(q)].arity
         /\ ast[q].kind \in KindsAt(ast[Front(q)], Last(q))
BY DEF WellFormed

LEMMA AritiesAre ==
  ASSUME WellFormed(ast), NEW p \in DOMAIN ast
  PROVE  /\ ast[p].arity \in Arities(ast[p].kind) /\ ast[p].arity \in Nat
         /\ ast[p].kind = "function" => ast[p].arity \in Nat \ {0}
<1>1. ast[p].arity \in Arities(ast[p].kind)
  BY DEF WellFormed
<1>2. \A kind : Arities(kind) \subseteq Nat
  BY DEF Arities
<1>3. Arities("function") = Nat \ {0}
  BY DEF Arities
<1> QED BY <1>1, <1>2, <1>3

LEMMA ChildNode ==
  ASSUME WellFormed(ast), NEW p \in Path, NEW i \in Nat, Append(p, i) \in DOMAIN ast
  PROVE  /\ p \in DOMAIN ast /\ i \in 1 .. ast[p].arity
         /\ ast[Append(p, i)].kind \in KindsAt(ast[p], i)
<1>1. Front(Append(p, i)) = p /\ Last(Append(p, i)) = i /\ Append(p, i) # <<>>
  BY ChildIs
<1> DEFINE c == Append(p, i)
<1> HIDE DEF c
<1>2. /\ Front(c) \in DOMAIN ast /\ Last(c) \in 1 .. ast[Front(c)].arity
      /\ ast[c].kind \in KindsAt(ast[Front(c)], Last(c))
  BY <1>1, ParentIs DEF c
<1> QED BY <1>1, <1>2 DEF c

\* What is below p and not p is below p with its parent.
LEMMA ParentBelow ==
  ASSUME NEW p \in Path, NEW q \in Path, Above(p, q), q # p
  PROVE  q # <<>> /\ Above(p, Front(q))
<1>1. Len(p) \in Nat /\ Len(p) < Len(q)
  BY AboveOrder DEF Path
<1>2. q # <<>>
  BY <1>1, EmptySeq
<1> DEFINE f == Front(q)
<1>3. f \in Path /\ Len(q) = Len(f) + 1 /\ Above(f, q) /\ Len(f) \in Nat
  BY <1>2, LastChild DEF Path
<1> HIDE DEF f
<1>4. Above(f, p) => Len(f) <= Len(p)
  BY DEF Above
<1>5. Above(f, p) => f = p
  BY <1>1, <1>3, <1>4, AboveOrder
<1>6. Above(p, f)
  BY <1>3, <1>5, AboveOrder
<1> QED BY <1>2, <1>6 DEF f

\* What p has and each child of a node that has it has, all below p have.
LEMMA DownTheTree ==
  ASSUME WellFormed(ast), NEW p \in Path, NEW S, p \in S,
         \A r \in DOMAIN ast : r # <<>> /\ Front(r) \in S => r \in S,
         NEW q \in DOMAIN ast, Above(p, q)
  PROVE  q \in S
<1> DEFINE Missing(r) == r \in DOMAIN ast /\ Above(p, r) /\ r \notin S
           T == {n \in Nat : \E r \in Path : Missing(r) /\ Len(r) = n}
<1>1. SUFFICES ASSUME q \notin S PROVE FALSE
  OBVIOUS
<1>2. q \in Path /\ Len(q) \in Nat
  BY NodesArePaths DEF Path
<1>3. Len(q) \in T
  BY <1>1, <1>2
<1>4. PICK m \in T : \A k \in T : m <= k
  <2> HIDE DEF T
  <2>1. T \subseteq Nat
    BY DEF T
  <2> QED BY <1>3, <2>1, LeastNumber
<1>5. PICK r \in Path : Missing(r) /\ Len(r) = m
  BY <1>4
<1>6. r # <<>> /\ Above(p, Front(r)) /\ Front(r) \notin S
  BY <1>5, ParentBelow
<1>7. Front(r) \in DOMAIN ast /\ Front(r) \in Path /\ Len(r) = Len(Front(r)) + 1
  BY <1>5, <1>6, ParentIs, LastChild
<1>8. Missing(Front(r)) /\ Len(Front(r)) \in Nat
  BY <1>6, <1>7 DEF Path
<1>9. Len(Front(r)) \in T
  BY <1>7, <1>8
<1> QED BY <1>4, <1>5, <1>7, <1>8, <1>9

LEMMA AncestorsAreNodes ==
  ASSUME WellFormed(ast), NEW q \in DOMAIN ast, NEW p \in Path, Above(p, q)
  PROVE  p \in DOMAIN ast
<1> DEFINE S == {p} \cup {r \in DOMAIN ast : p \in DOMAIN ast}
<1>1. p \in S
  OBVIOUS
<1>2. ASSUME NEW r \in DOMAIN ast, r # <<>>, Front(r) \in S PROVE r \in S
  BY <1>2, ParentIs
<1> HIDE DEF S
<1>3. q \in S
  BY <1>1, <1>2, DownTheTree
<1> QED BY <1>3 DEF S

\* The kinds of node that can stand below a kind.
LEMMA ChildKinds ==
  ASSUME NEW node, NEW i, NEW kind \in KindsAt(node, i)
  PROVE  /\ kind # "program"
         /\ kind = "function" => node.kind = "program"
         /\ kind = "parameter" => node.kind = "function" /\ i < node.arity
         /\ node.kind \in {"declaration", "return", "expression"} \cup ExpressionKinds
              => kind \in ExpressionKinds
         /\ node.kind = "function" /\ ~(i < node.arity) => kind = "block"
         /\ node.kind = "function" /\ i < node.arity => kind = "parameter"
         /\ node.kind = "program" => kind = "function"
         /\ node.kind \in {"if", "while"} /\ i = 1 => kind \in ExpressionKinds
         /\ node.kind = "for" /\ i = 2 => kind \in ExpressionKinds
         /\ node.kind # "parameter"
BY DEF KindsAt, StatementKinds, ExpressionKinds

LEMMA ParentKinds ==
  ASSUME WellFormed(ast), NEW q \in DOMAIN ast, q # <<>>
  PROVE  /\ ast[q].kind # "program"
         /\ ast[q].kind = "function" => ast[Front(q)].kind = "program"
         /\ ast[q].kind = "parameter" =>
              ast[Front(q)].kind = "function" /\ Last(q) < ast[Front(q)].arity
         /\ ast[Front(q)].kind \in {"declaration", "return", "expression"} \cup ExpressionKinds
              => ast[q].kind \in ExpressionKinds
         /\ ast[Front(q)].kind # "parameter"
BY ParentIs, ChildKinds

\* The root is the only program, and functions are its children.
LEMMA TopLevel ==
  ASSUME WellFormed(ast), NEW p \in DOMAIN ast
  PROVE  /\ ast[p].kind = "program" <=> p = <<>>
         /\ ast[p].kind = "function" => p # <<>> /\ Front(p) = <<>> /\ Len(p) = 1
<1>1. ast[p].kind = "program" <=> p = <<>>
  BY ParentKinds, NodesArePaths
<1>2. ASSUME ast[p].kind = "function"
      PROVE  p # <<>> /\ Front(p) = <<>> /\ Len(p) = 1
  <2>1. p # <<>> /\ p \in Path
    BY <1>1, <1>2, NodesArePaths
  <2>2. Front(p) \in DOMAIN ast /\ ast[Front(p)].kind = "program"
    BY <1>2, <2>1, ParentIs, ParentKinds
  <2>3. Front(p) = <<>>
    <3> DEFINE f == Front(p)
    <3>1. f \in DOMAIN ast /\ ast[f].kind = "program"
      BY <2>2
    <3> HIDE DEF f
    <3>2. f = <<>>
      BY <3>1, ParentKinds
    <3> QED BY <3>2 DEF f
  <2>4. Len(p) = Len(Front(p)) + 1
    BY <2>1, LastChild
  <2> QED BY <2>1, <2>3, <2>4
<1> QED BY <1>1, <1>2

\* Below an expression there are only expressions.
LEMMA BelowExpression ==
  ASSUME WellFormed(ast), NEW p \in DOMAIN ast, NEW q \in DOMAIN ast, Above(p, q),
         ast[p].kind \in ExpressionKinds
  PROVE  ast[q].kind \in ExpressionKinds
<1> DEFINE S == {r \in DOMAIN ast : ast[r].kind \in ExpressionKinds}
<1>1. p \in S /\ p \in Path
  BY NodesArePaths
<1>2. ASSUME NEW r \in DOMAIN ast, r # <<>>, Front(r) \in S PROVE r \in S
  BY <1>2, ParentKinds
<1> HIDE DEF S
<1>3. q \in S
  BY <1>1, <1>2, DownTheTree
<1> QED BY <1>3 DEF S

\* A node below p stands below a child of p.
LEMMA BelowNode ==
  ASSUME WellFormed(ast), NEW p \in DOMAIN ast, NEW q \in DOMAIN ast, Above(p, q), p # q
  PROVE  LET i == q[Len(p) + 1] IN
         /\ i \in 1 .. ast[p].arity /\ i \in Nat /\ Append(p, i) \in DOMAIN ast
         /\ Above(Append(p, i), q)
<1> DEFINE i == q[Len(p) + 1]
<1>1. p \in Path /\ q \in Path
  BY NodesArePaths
<1>2. i \in Nat /\ Above(Append(p, i), q)
  BY <1>1, BelowChild
<1>3. Append(p, i) \in Path
  BY <1>1, <1>2, ChildIs
<1>4. Append(p, i) \in DOMAIN ast
  BY <1>2, <1>3, AncestorsAreNodes
<1>5. i \in 1 .. ast[p].arity
  BY <1>1, <1>2, <1>4, ChildNode
<1> QED BY <1>2, <1>4, <1>5

LEMMA DeclarersAre ==
  ASSUME WellFormed(ast), NEW d \in Declarers
  PROVE  /\ d \in DOMAIN ast /\ d \in Path /\ d # <<>> /\ ast[d].name \in Name
         /\ ast[d].kind \in {"function", "parameter", "declaration"}
         /\ ast[d].kind \notin ExpressionKinds
<1>1. d \in DOMAIN ast /\ ast[d].kind \in {"function", "parameter", "declaration"}
  BY DEF Declarers, DeclarerKinds
<1>2. d # <<>> /\ d \in Path
  BY <1>1, NodesArePaths
<1>3. ast[d].name \in Name
  BY <1>1 DEF WellFormed, DeclarerKinds
<1>4. ast[d].kind \notin ExpressionKinds
  BY <1>1 DEF ExpressionKinds
<1> QED BY <1>1, <1>2, <1>3, <1>4

\* Nothing is declared in an expression, and nothing below these statements.
LEMMA NothingDeclared ==
  ASSUME WellFormed(ast), NEW p \in DOMAIN ast, NEW d \in Declarers, Above(p, d)
  PROVE  /\ ast[p].kind \notin ExpressionKinds
         /\ ast[p].kind \in {"declaration", "return", "expression"} => d = p
<1>1. d \in DOMAIN ast /\ d \in Path /\ ast[d].kind \notin ExpressionKinds
  BY DeclarersAre
<1>2. ast[p].kind \notin ExpressionKinds
  BY <1>1, BelowExpression
<1>3. ASSUME ast[p].kind \in {"declaration", "return", "expression"}, d # p
      PROVE  FALSE
  <2> DEFINE c == Append(p, d[Len(p) + 1])
  <2>1. p \in Path /\ d[Len(p) + 1] \in Nat /\ c \in DOMAIN ast /\ Above(c, d)
    BY <1>1, <1>3, BelowNode, NodesArePaths
  <2>2. ast[c].kind \in KindsAt(ast[p], d[Len(p) + 1])
    BY <2>1, ChildNode
  <2>3. ast[c].kind \in ExpressionKinds
    BY <1>3, <2>2, ChildKinds
  <2> QED BY <1>1, <2>1, <2>3, BelowExpression
<1> QED BY <1>2, <1>3

-----------------------------------------------------------------------------
(* The scope that a node stands in *)

HasScope(p) == ast[p].kind \in ScopeKinds

LEMMA EnclosingIs ==
  ASSUME WellFormed(ast), NEW q \in DOMAIN ast, q # <<>>
  PROVE  LET e == EnclosingScope(q) IN
         /\ e \in DOMAIN ast /\ Above(e, q) /\ e # q /\ HasScope(e)
         /\ \A r \in DOMAIN ast : Above(r, q) /\ r # q /\ HasScope(r) => Above(r, e)
<1> DEFINE T == {n \in 0 .. Len(q) - 1 : ast[SubSeq(q, 1, n)].kind \in ScopeKinds}
           n == Max(T)
           e == EnclosingScope(q)
<1>1. q \in Path /\ Len(q) \in Nat \ {0}
  BY NodesArePaths, EmptySeq DEF Path
<1>2. 0 \in T
  <2>1. SubSeq(q, 1, 0) = <<>>
    BY SubSeqEmpty
  <2>2. ast[<<>>].kind \in ScopeKinds
    BY NodesArePaths DEF ScopeKinds
  <2>3. ast[SubSeq(q, 1, 0)].kind \in ScopeKinds /\ 0 \in 0 .. Len(q) - 1
    <3>1. 0 \in 0 .. Len(q) - 1
      BY <1>1
    <3> QED BY <3>1, <2>1, <2>2
  <2> QED BY <2>3
<1>3. n \in T /\ \A k \in T : k <= n
  <2>1. T \subseteq 0 .. Len(q) /\ T # {} /\ \A k \in T : k \in Int
    BY <1>1, <1>2
  <2> HIDE DEF T
  <2>2. \E m \in T : \A k \in T : k <= m
    BY <1>1, <2>1, GreatestNumber
  <2>3. \E m \in T : \A k \in T : m >= k
    BY <2>1, <2>2
  <2>4. n \in T /\ \A k \in T : n >= k
    BY <2>3 DEF Max
  <2> QED BY <2>1, <2>4
<1>4. e = Cut(q, n) /\ ast[Cut(q, n)].kind \in ScopeKinds /\ n \in 0 .. Len(q) - 1
  BY <1>3 DEF EnclosingScope, Cut
<1>5. n \in 0 .. Len(q) /\ n < Len(q)
  BY <1>1, <1>4
<1> HIDE DEF n, T, e
<1>6. e \in Path /\ Len(e) = n /\ \A k \in 1 .. n : e[k] = q[k]
  BY <1>1, <1>4, <1>5, CutIs
<1>7. Above(e, q) /\ e # q
  BY <1>5, <1>6, <1>1 DEF Above
<1>8. e \in DOMAIN ast /\ HasScope(e)
  BY <1>4, <1>6, <1>7, AncestorsAreNodes DEF HasScope
<1>9. ASSUME NEW r \in DOMAIN ast, Above(r, q), r # q, HasScope(r)
      PROVE  Above(r, e)
  <2>1. r \in Path /\ Len(r) \in Nat /\ Len(r) < Len(q)
    BY <1>1, <1>9, NodesArePaths, AboveOrder DEF Path
  <2>2. r = Cut(q, Len(r))
    BY <1>1, <1>9, <2>1, CutAbove
  <2>3. Len(r) \in T
    <3>1. ast[SubSeq(q, 1, Len(r))].kind \in ScopeKinds /\ Len(r) \in 0 .. Len(q) - 1
      <4>1. Len(r) \in 0 .. Len(q) - 1
        BY <1>1, <2>1
      <4>2. SubSeq(q, 1, Len(r)) = r
        BY <2>2 DEF Cut
      <4> QED BY <1>9, <4>1, <4>2 DEF HasScope
    <3> QED BY <3>1 DEF T
  <2>4. Len(r) <= n
    BY <1>3, <2>3
  <2> QED BY <1>5, <1>6, <1>9, <2>1, <2>4 DEF Above
<1> QED BY <1>7, <1>8, <1>9 DEF e

\* The scope of a child is that of its parent, unless the parent has one.
LEMMA EnclosingOfChild ==
  ASSUME WellFormed(ast), NEW p \in Path, NEW i \in Nat, Append(p, i) \in DOMAIN ast
  PROVE  /\ HasScope(p) => EnclosingScope(Append(p, i)) = p
         /\ ~HasScope(p) => p # <<>> /\ EnclosingScope(Append(p, i)) = EnclosingScope(p)
<1> DEFINE c == Append(p, i)
           e == EnclosingScope(c)
<1>1. p \in DOMAIN ast /\ c \in Path /\ Above(p, c) /\ c # p /\ c # <<>>
  BY ChildIs, ChildNode
<1>2. /\ e \in DOMAIN ast /\ Above(e, c) /\ e # c /\ HasScope(e)
      /\ \A r \in DOMAIN ast : Above(r, c) /\ r # c /\ HasScope(r) => Above(r, e)
  BY <1>1, EnclosingIs
<1>3. e \in Path
  BY <1>2, NodesArePaths
<1>4. Above(e, p)
  <2>1. Front(c) = p
    BY ChildIs
  <2> HIDE DEF c, e
  <2> QED BY <1>1, <1>2, <1>3, <2>1, ParentBelow
<1> HIDE DEF c, e
<1>5. ASSUME HasScope(p) PROVE e = p
  BY <1>1, <1>2, <1>3, <1>4, <1>5, AboveOrder
<1>6. ASSUME ~HasScope(p) PROVE p # <<>> /\ e = EnclosingScope(p)
  <2> DEFINE f == EnclosingScope(p)
  <2>1. p # <<>> /\ e # p
    BY <1>2, <1>6, NodesArePaths DEF HasScope, ScopeKinds
  <2>2. /\ f \in DOMAIN ast /\ Above(f, p) /\ f # p /\ HasScope(f)
        /\ \A r \in DOMAIN ast : Above(r, p) /\ r # p /\ HasScope(r) => Above(r, f)
    BY <1>1, <2>1, EnclosingIs
  <2> HIDE DEF f
  <2>3. f \in Path
    BY <2>2, NodesArePaths
  <2>4. Above(e, f)
    BY <1>2, <1>4, <2>1, <2>2
  <2>5. Above(f, c) /\ f # c
    BY <1>1, <2>2, <2>3, AboveOrder
  <2>6. Above(f, e)
    BY <1>2, <2>2, <2>5
  <2>7. e = f
    BY <1>3, <2>3, <2>4, <2>6, AboveOrder
  <2> QED BY <2>1, <2>7 DEF f
<1> QED BY <1>5, <1>6 DEF c, e

-----------------------------------------------------------------------------
(* The tasks that a node is replaced by *)

Doings == { "visit", "initializer", "value", "operands", "condition", "pop", "leave" }

Tasks == [do : Doings, at : Path, saved : Nat]

LEMMA TaskIs ==
  ASSUME NEW do \in Doings, NEW p \in Path
  PROVE  /\ Task(do, p) \in Tasks /\ Task(do, p).do = do /\ Task(do, p).at = p
         /\ Task(do, p).saved = 0
BY DEF Task, Tasks

\* The slots from .. to of p whose child is not null.
Slots(p, from, to) == {i \in from .. to : Append(p, i) \in DOMAIN ast}

\* The task is about a child of p in one of the slots S.
About(t, p, S) ==
  /\ t.do \in {"visit", "condition"}
  /\ \E i \in S : t.at = Append(p, i)
  /\ t.do = "condition" => ast[t.at].kind \in ExpressionKinds

\* t is about a child to the left of the one of u, or u is about its condition.
Before(t, u) ==
  Last(t.at) < Last(u.at) \/ (Last(t.at) = Last(u.at) /\ u.do = "condition")

Visiting(t, p) == t.do = "visit" /\ t.at = p

\* In the list, the children in the slots S of p are visited one after the
\* other, and a condition is looked at when it has been visited.
Lists(list, p, S) ==
  /\ list \in Seq(Tasks)
  /\ \A k \in 1 .. Len(list) : About(list[k], p, S)
  /\ \A k, l \in 1 .. Len(list) : k < l => Before(list[k], list[l])
  /\ \A i \in S : \E k \in 1 .. Len(list) : Visiting(list[k], Append(p, i))

LEMMA ListsNone ==
  ASSUME NEW p \in Path
  PROVE  Lists(<<>>, p, {})
BY DEF Lists

LEMMA ListsOne ==
  ASSUME NEW p \in Path, NEW i \in Nat
  PROVE  Lists(<<Task("visit", Append(p, i))>>, p, {i})
<1> DEFINE t == Task("visit", Append(p, i))
<1>1. Append(p, i) \in Path /\ "visit" \in Doings
  BY ChildIs DEF Doings
<1>2. t \in Tasks /\ t.do = "visit" /\ t.at = Append(p, i)
  BY <1>1, TaskIs
<1> HIDE DEF t
<1>3. <<t>> \in Seq(Tasks) /\ Len(<<t>>) = 1 /\ <<t>>[1] = t
  BY <1>2
<1>4. Lists(<<t>>, p, {i})
  BY <1>2, <1>3 DEF Lists, About, Visiting
<1> QED BY <1>4 DEF t

\* One list after another, of slots to its right.
LEMMA ListsJoin ==
  ASSUME NEW p \in Path, NEW S \in SUBSET Nat, NEW R \in SUBSET Nat,
         NEW first, NEW second, Lists(first, p, S), Lists(second, p, R),
         \A i \in S, j \in R : i < j
  PROVE  Lists(first \o second, p, S \cup R)
<1> DEFINE list == first \o second
           n == Len(first)
<1>1. first \in Seq(Tasks) /\ second \in Seq(Tasks)
  BY DEF Lists
<1>2. /\ list \in Seq(Tasks) /\ Len(list) = n + Len(second)
      /\ n \in Nat /\ Len(second) \in Nat
      /\ \A k \in 1 .. n + Len(second) :
           list[k] = IF k <= n THEN first[k] ELSE second[k - n]
  BY <1>1, ConcatProperties
<1> HIDE DEF list, n
<1>3. /\ \A k \in 1 .. n : list[k] = first[k]
      /\ \A k \in 1 .. Len(list) : k > n =>
           k - n \in 1 .. Len(second) /\ list[k] = second[k - n]
      /\ \A k \in 1 .. Len(second) : n + k \in 1 .. Len(list) /\ list[n + k] = second[k]
      /\ \A k \in 1 .. Len(list) : k <= n => k \in 1 .. n
      /\ \A k \in 1 .. n : k \in 1 .. Len(list)
  BY <1>2
<1>4. ASSUME NEW k \in 1 .. Len(list)
      PROVE  About(list[k], p, S \cup R)
  <2>1. CASE k \in 1 .. n
    <3>1. list[k] = first[k] /\ About(first[k], p, S)
      BY <1>3, <2>1 DEF Lists, n
    <3> QED BY <3>1 DEF About
  <2>2. CASE k > n
    <3>1. list[k] = second[k - n] /\ About(second[k - n], p, R)
      BY <1>3, <2>2 DEF Lists
    <3> QED BY <3>1 DEF About
  <2> QED BY <2>1, <2>2, <1>2
<1>5. ASSUME NEW k \in 1 .. Len(list), NEW l \in 1 .. Len(list), k < l
      PROVE  Before(list[k], list[l])
  <2>1. CASE l <= n
    <3>1. k \in 1 .. n /\ l \in 1 .. n
      BY <1>2, <1>5, <2>1
    <3> QED BY <1>3, <1>5, <3>1 DEF Lists, n
  <2>2. CASE k > n
    <3>1. /\ k - n \in 1 .. Len(second) /\ l - n \in 1 .. Len(second)
          /\ list[k] = second[k - n] /\ list[l] = second[l - n] /\ k - n < l - n
      BY <1>2, <1>3, <1>5, <2>2
    <3> QED BY <3>1 DEF Lists
  <2>3. CASE k <= n /\ l > n
    <3>1. /\ k \in 1 .. n /\ list[k] = first[k]
          /\ l - n \in 1 .. Len(second) /\ list[l] = second[l - n]
      BY <1>3, <2>3
    <3>2. About(list[k], p, S) /\ About(list[l], p, R)
      BY <3>1 DEF Lists, n
    <3>3. PICK i \in S : list[k].at = Append(p, i)
      BY <3>2 DEF About
    <3>4. PICK j \in R : list[l].at = Append(p, j)
      BY <3>2 DEF About
    <3>5. Last(list[k].at) = i /\ Last(list[l].at) = j
      BY <3>3, <3>4, ChildIs
    <3> QED BY <3>5 DEF Before
  <2> QED BY <2>1, <2>2, <2>3, <1>2
<1>6. ASSUME NEW i \in S \cup R
      PROVE  \E k \in 1 .. Len(list) : Visiting(list[k], Append(p, i))
  <2>1. CASE i \in S
    BY <1>3, <2>1 DEF Lists, n
  <2>2. CASE i \in R
    BY <1>3, <2>2 DEF Lists
  <2> QED BY <2>1, <2>2
<1>7. Lists(list, p, S \cup R)
  BY <1>2, <1>4, <1>5, <1>6 DEF Lists
<1> QED BY <1>7 DEF list

-----------------------------------------------------------------------------
\* The rule that Visits is made of, up to a slot.
IsListing(f, p, from, to) ==
  f = [slot \in from - 1 .. to |->
         CASE slot < from -> <<>>
           [] slot >= from /\ Append(p, slot) \in DOMAIN ast ->
                Append(f[slot - 1], Task("visit", Append(p, slot)))
           [] slot >= from /\ Append(p, slot) \notin DOMAIN ast -> f[slot - 1]]

LEMMA ListingAt ==
  ASSUME NEW f, NEW p, NEW from \in Nat \ {0}, NEW to \in Nat, IsListing(f, p, from, to),
         NEW n \in from - 1 .. to
  PROVE  /\ n < from => f[n] = <<>>
         /\ ~(n < from) /\ Append(p, n) \in DOMAIN ast =>
              f[n] = Append(f[n - 1], Task("visit", Append(p, n)))
         /\ ~(n < from) /\ Append(p, n) \notin DOMAIN ast => f[n] = f[n - 1]
BY DEF IsListing

LEMMA ListingExists ==
  ASSUME NEW p, NEW from \in Nat \ {0}, NEW to \in Nat, from - 1 <= to
  PROVE  \E f : IsListing(f, p, from, to)
<1> DEFINE T == {n \in Nat : from - 1 <= n /\ ~ \E f : IsListing(f, p, from, n)}
<1>1. SUFFICES ASSUME T # {} PROVE FALSE
  OBVIOUS
<1>2. PICK m \in T : \A k \in T : m <= k
  <2>1. T \subseteq Nat
    OBVIOUS
  <2> HIDE DEF T
  <2> QED BY <1>1, <2>1, LeastNumber
<1>3. m # from - 1
  <2> DEFINE g == [slot \in from - 1 .. from - 1 |-> <<>>]
  <2>1. ASSUME m = from - 1 PROVE IsListing(g, p, from, m)
    BY <2>1 DEF IsListing
  <2> QED BY <1>2, <2>1
<1>4. m - 1 \in Nat /\ from - 1 <= m - 1 /\ m - 1 \notin T /\ m \in Nat /\ from <= m
  <2>1. m \in Nat /\ from - 1 <= m /\ from - 1 \in Nat
    OBVIOUS
  <2> HIDE DEF T
  <2> QED BY <1>2, <1>3, <2>1
<1>5. PICK f : IsListing(f, p, from, m - 1)
  BY <1>4
<1> DEFINE last == IF Append(p, m) \in DOMAIN ast
                   THEN Append(f[m - 1], Task("visit", Append(p, m))) ELSE f[m - 1]
           g == [slot \in from - 1 .. m |-> IF slot = m THEN last ELSE f[slot]]
           new == [slot \in from - 1 .. m |->
         CASE slot < from -> <<>>
           [] slot >= from /\ Append(p, slot) \in DOMAIN ast ->
                Append(g[slot - 1], Task("visit", Append(p, slot)))
           [] slot >= from /\ Append(p, slot) \notin DOMAIN ast -> g[slot - 1]]
<1>6. ASSUME NEW slot \in from - 1 .. m
      PROVE  g[slot] = new[slot]
  <2>1. CASE slot = m
    <3>1. m - 1 \in from - 1 .. m /\ m - 1 # m /\ slot \in Int /\ slot >= from
      BY <1>4, <2>1
    <3>2. g[m - 1] = f[m - 1]
      BY <3>1
    <3>3. g[slot] = last
      BY <2>1
    <3>4. CASE Append(p, m) \in DOMAIN ast
      <4>1. new[slot] = Append(g[m - 1], Task("visit", Append(p, m)))
        BY <2>1, <3>1, <3>4
      <4> HIDE DEF g, new
      <4> QED BY <3>2, <3>3, <3>4, <4>1
    <3>5. CASE Append(p, m) \notin DOMAIN ast
      <4>1. new[slot] = g[m - 1]
        BY <2>1, <3>1, <3>5
      <4> HIDE DEF g, new
      <4> QED BY <3>2, <3>3, <3>5, <4>1
    <3> QED BY <3>4, <3>5
  <2>2. CASE slot # m /\ slot < from
    <3>1. slot \in from - 1 .. m - 1
      BY <1>4, <2>2
    <3>2. f[slot] = <<>>
      BY <1>5, <2>2, <3>1 DEF IsListing
    <3>3. g[slot] = f[slot] /\ new[slot] = <<>>
      BY <2>2
    <3> HIDE DEF g, new
    <3> QED BY <3>2, <3>3
  <2>3. CASE slot # m /\ slot >= from
    <3>1. /\ slot \in from - 1 .. m - 1 /\ slot - 1 \in from - 1 .. m /\ slot - 1 # m
          /\ slot \in Int /\ ~(slot < from)
      BY <1>4, <2>3
    <3>2. g[slot] = f[slot] /\ g[slot - 1] = f[slot - 1]
      BY <2>3, <3>1
    <3>3. CASE Append(p, slot) \in DOMAIN ast
      <4>1. new[slot] = Append(g[slot - 1], Task("visit", Append(p, slot)))
        BY <2>3, <3>1, <3>3
      <4>2. f[slot] = Append(f[slot - 1], Task("visit", Append(p, slot)))
        BY <1>5, <2>3, <3>1, <3>3 DEF IsListing
      <4> HIDE DEF g, new
      <4> QED BY <3>2, <4>1, <4>2
    <3>4. CASE Append(p, slot) \notin DOMAIN ast
      <4>1. new[slot] = g[slot - 1]
        BY <2>3, <3>1, <3>4
      <4>2. f[slot] = f[slot - 1]
        BY <1>5, <2>3, <3>1, <3>4 DEF IsListing
      <4> HIDE DEF g, new
      <4> QED BY <3>2, <4>1, <4>2
    <3> QED BY <3>3, <3>4
  <2> QED BY <2>1, <2>2, <2>3, <1>4
<1>7. g = new
  BY <1>6
<1>8. IsListing(g, p, from, m)
  BY <1>7 DEF IsListing
<1> QED BY <1>2, <1>8

LEMMA VisitsRule ==
  ASSUME NEW p, NEW from \in Nat \ {0}, NEW to \in Nat, from - 1 <= to
  PROVE  \E f : Visits(p, from, to) = f[to] /\ IsListing(f, p, from, to)
<1>1. PICK f : IsListing(f, p, from, to)
  BY ListingExists
<1> DEFINE visits[slot \in from - 1 .. to] ==
        CASE slot < from -> <<>>
          [] slot >= from /\ Append(p, slot) \in DOMAIN ast ->
               Append(visits[slot - 1], Task("visit", Append(p, slot)))
          [] slot >= from /\ Append(p, slot) \notin DOMAIN ast -> visits[slot - 1]
<1>2. f = [slot \in from - 1 .. to |->
        CASE slot < from -> <<>>
          [] slot >= from /\ Append(p, slot) \in DOMAIN ast ->
               Append(f[slot - 1], Task("visit", Append(p, slot)))
          [] slot >= from /\ Append(p, slot) \notin DOMAIN ast -> f[slot - 1]]
  BY <1>1 DEF IsListing
<1>3. visits = [slot \in from - 1 .. to |->
        CASE slot < from -> <<>>
          [] slot >= from /\ Append(p, slot) \in DOMAIN ast ->
               Append(visits[slot - 1], Task("visit", Append(p, slot)))
          [] slot >= from /\ Append(p, slot) \notin DOMAIN ast -> visits[slot - 1]]
  BY <1>2
<1>4. Visits(p, from, to) = visits[to]
  BY DEF Visits
<1> HIDE DEF visits
<1>5. IsListing(visits, p, from, to)
  BY <1>3 DEF IsListing
<1> QED BY <1>4, <1>5

LEMMA VisitsAre ==
  ASSUME NEW p \in Path, NEW from \in Nat \ {0}, NEW to \in Nat, from - 1 <= to
  PROVE  Lists(Visits(p, from, to), p, Slots(p, from, to))
<1>1. PICK f : Visits(p, from, to) = f[to] /\ IsListing(f, p, from, to)
  BY VisitsRule
<1>2. IsListing(f, p, from, to)
  BY <1>1
<1> DEFINE T == {n \in Nat : /\ from - 1 <= n /\ n <= to
                             /\ ~Lists(f[n], p, Slots(p, from, n))}
<1>3. SUFFICES ASSUME T # {} PROVE FALSE
  <2>1. to \notin T => Lists(f[to], p, Slots(p, from, to))
    OBVIOUS
  <2> QED BY <1>1, <1>3, <2>1
<1>4. PICK m \in T : \A k \in T : m <= k
  <2>1. T \subseteq Nat
    OBVIOUS
  <2> HIDE DEF T
  <2> QED BY <1>3, <2>1, LeastNumber
<1>5. m \in Nat /\ from - 1 <= m /\ m <= to /\ ~Lists(f[m], p, Slots(p, from, m))
  OBVIOUS
<1>6. ASSUME NEW n \in Nat, from - 1 <= n, n < m
      PROVE  Lists(f[n], p, Slots(p, from, n))
  <2>1. n \notin T
    <3> HIDE DEF T
    <3> QED BY <1>4, <1>5, <1>6
  <2> QED BY <2>1, <1>5, <1>6
<1> HIDE DEF T
<1>7. CASE m < from
  <2>1. m \in from - 1 .. to /\ m \in Int
    BY <1>5
  <2>2. f[m] = <<>>
    BY <1>2, <1>7, <2>1 DEF IsListing
  <2>3. Slots(p, from, m) = {}
    BY <1>5, <1>7 DEF Slots
  <2> QED BY <1>5, <2>2, <2>3, ListsNone
<1>8. CASE m >= from
  <2>1. /\ m \in from - 1 .. to /\ m \in Int /\ ~(m < from)
        /\ m - 1 \in Nat /\ from - 1 <= m - 1 /\ m - 1 < m
    BY <1>5, <1>8
  <2>2. Lists(f[m - 1], p, Slots(p, from, m - 1))
    BY <2>1, <1>6
  <2>3. CASE Append(p, m) \notin DOMAIN ast
    <3>1. f[m] = f[m - 1]
      BY <1>2, <1>8, <2>1, <2>3 DEF IsListing
    <3>2. Slots(p, from, m) = Slots(p, from, m - 1)
      BY <1>5, <2>1, <2>3 DEF Slots
    <3> QED BY <1>5, <2>2, <3>1, <3>2
  <2>4. CASE Append(p, m) \in DOMAIN ast
    <3> DEFINE t == Task("visit", Append(p, m))
    <3>1. f[m] = Append(f[m - 1], t)
      BY <1>2, <1>8, <2>1, <2>4 DEF IsListing
    <3>2. Slots(p, from, m) = Slots(p, from, m - 1) \cup {m}
      BY <1>5, <2>1, <2>4 DEF Slots
    <3>3. Lists(<<t>>, p, {m})
      BY <1>5, ListsOne
    <3>4. /\ \A i \in Slots(p, from, m - 1), j \in {m} : i < j
          /\ Slots(p, from, m - 1) \in SUBSET Nat /\ {m} \in SUBSET Nat
      BY <1>5, <2>1 DEF Slots
    <3>5. f[m - 1] \in Seq(Tasks) /\ <<t>> \in Seq(Tasks)
      BY <2>2, <3>3 DEF Lists
    <3>6. t \in Tasks
      BY <1>5, ChildIs, TaskIs DEF Doings
    <3> HIDE DEF t
    <3>7. Append(f[m - 1], t) = f[m - 1] \o <<t>>
      BY <3>5, <3>6, AppendIsConcat
    <3>8. Lists(f[m - 1] \o <<t>>, p, Slots(p, from, m - 1) \cup {m})
      BY <2>2, <3>3, <3>4, ListsJoin
    <3> QED BY <1>5, <3>1, <3>2, <3>7, <3>8
  <2> QED BY <2>3, <2>4
<1> QED BY <1>5, <1>7, <1>8

\* One slot.
LEMMA OneVisit ==
  ASSUME NEW p \in Path, NEW slot \in Nat \ {0}
  PROVE  /\ Append(p, slot) \in DOMAIN ast =>
              Visits(p, slot, slot) = <<Task("visit", Append(p, slot))>>
         /\ Append(p, slot) \notin DOMAIN ast => Visits(p, slot, slot) = <<>>
<1>1. PICK f : Visits(p, slot, slot) = f[slot] /\ IsListing(f, p, slot, slot)
  <2>1. slot \in Nat /\ slot - 1 <= slot
    OBVIOUS
  <2> QED BY <2>1, VisitsRule
<1>2. IsListing(f, p, slot, slot)
  BY <1>1
<1>3. /\ slot \in slot - 1 .. slot /\ slot - 1 \in slot - 1 .. slot /\ slot - 1 < slot
      /\ slot \in Nat /\ ~(slot < slot)
  OBVIOUS
<1>4. f[slot - 1] = <<>>
  BY <1>2, <1>3, ListingAt
<1>5. ASSUME Append(p, slot) \in DOMAIN ast
      PROVE  f[slot] = <<Task("visit", Append(p, slot))>>
  <2> DEFINE t == Task("visit", Append(p, slot))
  <2>1. f[slot] = Append(f[slot - 1], t)
    <3>1. slot \in Nat \ {0} /\ slot \in Nat
      OBVIOUS
    <3>2. Append(p, slot) \in DOMAIN ast => f[slot] = Append(f[slot - 1], t)
      BY <1>2, <1>3, <3>1, ListingAt
    <3> QED BY <1>5, <3>2
  <2> HIDE DEF t
  <2>2. f[slot] = <<t>>
    BY <1>4, <2>1
  <2> QED BY <2>2 DEF t
<1>6. ASSUME Append(p, slot) \notin DOMAIN ast
      PROVE  f[slot] = <<>>
  BY <1>2, <1>3, <1>4, <1>6, ListingAt
<1> QED BY <1>1, <1>5, <1>6

LEMMA ConditionIs ==
  ASSUME NEW p \in Path, NEW slot \in Nat \ {0},
         Append(p, slot) \in DOMAIN ast => ast[Append(p, slot)].kind \in ExpressionKinds
  PROVE  Lists(Condition(p, slot), p, Slots(p, slot, slot))
<1> DEFINE c == Append(p, slot)
           t == Task("visit", c)
           u == Task("condition", c)
<1>1. c \in Path /\ Last(c) = slot
  BY ChildIs
<1>2. CASE c \notin DOMAIN ast
  <2>1. Condition(p, slot) = <<>>
    BY <1>2, OneVisit DEF Condition
  <2>2. Slots(p, slot, slot) = {}
    BY <1>2 DEF Slots
  <2> QED BY <2>1, <2>2, ListsNone
<1>3. CASE c \in DOMAIN ast
  <2>1. /\ t \in Tasks /\ u \in Tasks /\ t.do = "visit" /\ t.at = c
        /\ u.do = "condition" /\ u.at = c
    <3> HIDE DEF c
    <3> QED BY <1>1, TaskIs DEF Doings
  <2>2. Condition(p, slot) = <<t>> \o <<u>>
    BY <1>3, OneVisit DEF Condition
  <2>3. Slots(p, slot, slot) = {slot}
    BY <1>3 DEF Slots
  <2>4. ast[c].kind \in ExpressionKinds
    BY <1>3
  <2> DEFINE list == <<t>> \o <<u>>
  <2>5. /\ <<t>> \in Seq(Tasks) /\ Len(<<t>>) = 1 /\ <<t>>[1] = t
        /\ <<u>> \in Seq(Tasks) /\ Len(<<u>>) = 1 /\ <<u>>[1] = u
    <3> HIDE DEF t, u
    <3> QED BY <2>1
  <2>6. c = Append(p, slot)
    OBVIOUS
  <2> HIDE DEF t, u, c
  <2>7. list \in Seq(Tasks) /\ Len(list) = 2 /\ list[1] = t /\ list[2] = u
    BY <2>5, ConcatProperties
  <2> HIDE DEF list
  <2>8. \A k \in 1 .. Len(list) : k = 1 \/ k = 2
    BY <2>7
  <2>9. Lists(list, p, {slot})
    <3>1. About(t, p, {slot}) /\ About(u, p, {slot}) /\ Before(t, u)
          /\ Visiting(t, Append(p, slot))
      BY <1>1, <2>1, <2>4, <2>6 DEF About, Before, Visiting
    <3> HIDE DEF About
    <3>2. \A k \in 1 .. Len(list) : About(list[k], p, {slot})
      BY <2>7, <2>8, <3>1
    <3>3. \A k, l \in 1 .. Len(list) : k < l => Before(list[k], list[l])
      BY <2>7, <2>8, <3>1
    <3>4. 1 \in 1 .. Len(list) /\ Visiting(list[1], Append(p, slot))
      BY <2>7, <3>1
    <3> QED BY <2>7, <3>2, <3>3, <3>4 DEF Lists
  <2> QED BY <2>2, <2>3, <2>9 DEF list
<1> QED BY <1>2, <1>3

-----------------------------------------------------------------------------
(* The agenda *)

Ending == {"pop", "leave"}

\* Where the names that a task looks up stand: Position is PosOf(Now).
PosOf(t) == IF t.do = "initializer" THEN Append(t.at, 1) ELSE t.at

\* What a task does fits the node that it is about.
Fits(t) ==
  /\ t.at \in DOMAIN ast
  /\ t.do = "visit" => ast[t.at].kind # "parameter"
  /\ t.do = "initializer" => ast[t.at].kind = "declaration" /\ Append(t.at, 1) \in DOMAIN ast
  /\ t.do = "value" => ast[t.at].kind = "return" /\ Append(t.at, 1) \in DOMAIN ast
  /\ t.do = "operands" => ast[t.at].kind = "binary"
  /\ t.do = "condition" => ast[t.at].kind \in ExpressionKinds
  /\ t.do = "pop" => ast[t.at].kind \in {"block", "for"}
  /\ t.do = "leave" => ast[t.at].kind = "function"

\* d is to be visited by a task of the agenda a, from the n-th on.
Awaits(a, n, d) ==
  \E j \in n .. Len(a) : a[j].do = "visit" /\ Above(a[j].at, d)

\* What has been declared when a task is next is what comes before it.
InOrder(a) ==
  \A i \in 1 .. Len(a), d \in Declarers :
    a[i].do \notin Ending => (Precedes(d, PosOf(a[i])) <=> ~Awaits(a, i, d))

Unrelated(t, u) ==
  t.do = "visit" /\ u.do = "visit" =>
    Precedes(t.at, u.at) /\ ~Above(t.at, u.at) /\ ~Above(u.at, t.at)

Apart(a) == \A i, j \in 1 .. Len(a) : i < j => Unrelated(a[i], a[j])

\* The node whose scope is the current one when a task is next ...
ScopeAt(t) ==
  IF t.do \in Ending \/ t.at = <<>> THEN t.at ELSE EnclosingScope(PosOf(t))

\* ... and when what it stands for has been done.
ScopeAfter(t) == IF t.do \in Ending THEN EnclosingScope(t.at) ELSE ScopeAt(t)

Nested(a) == \A i \in 1 .. Len(a) - 1 : ScopeAt(a[i + 1]) = ScopeAfter(a[i])

\* The tasks follow the source, and the scopes are nested like the tasks.
Ordered(a) ==
  /\ a \in Seq(Tasks) /\ \A i \in 1 .. Len(a) : Fits(a[i])
  /\ InOrder(a) /\ Apart(a)

AgendaInv(a) == Ordered(a) /\ Nested(a)

\* The tasks in more are what the visit t is replaced by.
Unfolds(more, t) ==
  /\ more \in Seq(Tasks) /\ \A k \in 1 .. Len(more) : Fits(more[k])
  /\ \A k \in 1 .. Len(more), d \in Declarers : more[k].do \notin Ending =>
       (Precedes(d, PosOf(more[k])) <=>
          (Precedes(d, t.at) \/ Above(t.at, d)) /\ ~Awaits(more, k, d))
  /\ Apart(more)
  /\ \A k \in 1 .. Len(more) : more[k].do = "visit" => Above(t.at, more[k].at)

Replaces(more, t) ==
  /\ Unfolds(more, t) /\ Nested(more)
  /\ more # <<>> => ScopeAfter(more[Len(more)]) = ScopeAfter(t)

LEMMA TaskTyped ==
  ASSUME NEW t \in Tasks
  PROVE  t.do \in Doings /\ t.at \in Path /\ t.saved \in Nat
BY DEF Tasks

\* The rest of an agenda.
LEMMA RestIs ==
  ASSUME NEW a \in Seq(Tasks), a # <<>>
  PROVE  /\ Head(a) = a[1] /\ a[1] \in Tasks /\ Len(a) \in Nat \ {0}
         /\ Tail(a) \in Seq(Tasks) /\ Len(Tail(a)) = Len(a) - 1
         /\ \A i \in 1 .. Len(a) - 1 : Tail(a)[i] = a[i + 1]
<1>1. Len(a) \in Nat \ {0}
  BY EmptySeq
<1>2. 1 \in 1 .. Len(a)
  BY <1>1
<1>3. a[1] \in Tasks
  BY <1>2, ElementOfSeq
<1> QED BY <1>1, <1>3, HeadTailProperties

LEMMA JoinIs ==
  ASSUME NEW more \in Seq(Tasks), NEW a \in Seq(Tasks), a # <<>>
  PROVE  LET b == more \o Tail(a) IN
         /\ b \in Seq(Tasks) /\ Len(b) = Len(more) + Len(a) - 1
         /\ Len(more) \in Nat /\ Len(a) \in Nat \ {0}
         /\ \A i \in 1 .. Len(more) : b[i] = more[i]
         /\ \A i \in 2 .. Len(a) : b[Len(more) + i - 1] = a[i]
         /\ \A i \in 1 .. Len(b) :
              \/ i \in 1 .. Len(more) /\ b[i] = more[i]
              \/ i - Len(more) + 1 \in 2 .. Len(a) /\ b[i] = a[i - Len(more) + 1]
<1> DEFINE rest == Tail(a)
           b == more \o rest
           m == Len(more)
           n == Len(a)
<1>1. /\ rest \in Seq(Tasks) /\ Len(rest) = n - 1 /\ n \in Nat \ {0}
      /\ \A i \in 1 .. n - 1 : rest[i] = a[i + 1]
  BY RestIs
<1> HIDE DEF rest
<1>2. /\ b \in Seq(Tasks) /\ Len(b) = m + Len(rest) /\ m \in Nat
      /\ \A i \in 1 .. m + Len(rest) : b[i] = IF i <= m THEN more[i] ELSE rest[i - m]
  <2>1. rest \in Seq(Tasks) /\ more \in Seq(Tasks) /\ m \in Nat
    BY <1>1, LenProperties
  <2>2. /\ more \o rest \in Seq(Tasks) /\ Len(more \o rest) = Len(more) + Len(rest)
        /\ \A i \in 1 .. Len(more) + Len(rest) :
             (more \o rest)[i] = IF i <= Len(more) THEN more[i] ELSE rest[i - Len(more)]
    BY <2>1, ConcatProperties
  <2> QED BY <2>1, <2>2
<1> HIDE DEF b, m, n
<1>3. \A i \in 1 .. m : b[i] = more[i]
  BY <1>1, <1>2
<1>4. ASSUME NEW i \in 2 .. n PROVE b[m + i - 1] = a[i]
  <2>1. /\ m + i - 1 \in 1 .. m + Len(rest) /\ ~(m + i - 1 <= m)
        /\ (m + i - 1) - m = i - 1 /\ i - 1 \in 1 .. n - 1 /\ (i - 1) + 1 = i
    BY <1>1, <1>2
  <2>2. b[m + i - 1] = rest[i - 1]
    BY <1>2, <2>1
  <2> QED BY <1>1, <2>1, <2>2
<1>5. ASSUME NEW i \in 1 .. Len(b), ~(i <= m)
      PROVE  i - m + 1 \in 2 .. n /\ b[i] = a[i - m + 1]
  <2>1. i - m + 1 \in 2 .. n /\ m + (i - m + 1) - 1 = i
    BY <1>1, <1>2, <1>5
  <2> QED BY <2>1, <1>4
<1>6. ASSUME NEW i \in 1 .. Len(b), i <= m
      PROVE  i \in 1 .. m
  BY <1>2, <1>6
<1>7. Len(b) = m + n - 1
  BY <1>1, <1>2
<1> QED BY <1>1, <1>2, <1>3, <1>4, <1>5, <1>6, <1>7 DEF b, m, n, rest

\* What is to be visited when the head has been replaced.
LEMMA AwaitsJoin ==
  ASSUME NEW more \in Seq(Tasks), NEW a \in Seq(Tasks), a # <<>>, NEW d
  PROVE  /\ \A k \in 1 .. Len(more) + 1 :
              Awaits(more \o Tail(a), k, d) <=> Awaits(more, k, d) \/ Awaits(a, 2, d)
         /\ \A i \in 2 .. Len(a) :
              Awaits(more \o Tail(a), Len(more) + i - 1, d) <=> Awaits(a, i, d)
<1> DEFINE b == more \o Tail(a)
           m == Len(more)
           n == Len(a)
<1>1. /\ Len(b) = m + n - 1 /\ m \in Nat /\ n \in Nat \ {0}
      /\ \A i \in 1 .. m : b[i] = more[i]
      /\ \A i \in 2 .. n : b[m + i - 1] = a[i]
      /\ \A i \in 1 .. Len(b) : \/ i \in 1 .. m /\ b[i] = more[i]
                                \/ i - m + 1 \in 2 .. n /\ b[i] = a[i - m + 1]
  BY JoinIs
<1> HIDE DEF b, m, n
<1>2. ASSUME NEW k \in 1 .. m + 1, Awaits(b, k, d)
      PROVE  Awaits(more, k, d) \/ Awaits(a, 2, d)
  <2>1. PICK j \in k .. Len(b) : b[j].do = "visit" /\ Above(b[j].at, d)
    BY <1>2 DEF Awaits
  <2>2. j \in 1 .. Len(b)
    BY <1>1, <2>1
  <2>3. CASE j \in 1 .. m /\ b[j] = more[j]
    <3>1. j \in k .. m
      BY <1>1, <2>1, <2>3
    <3> QED BY <2>1, <2>3, <3>1 DEF Awaits, m
  <2>4. CASE j - m + 1 \in 2 .. n /\ b[j] = a[j - m + 1]
    BY <2>1, <2>4 DEF Awaits, n
  <2> QED BY <1>1, <2>2, <2>3, <2>4
<1>3. ASSUME NEW k \in 1 .. m + 1, Awaits(more, k, d)
      PROVE  Awaits(b, k, d)
  <2>1. PICK j \in k .. m : more[j].do = "visit" /\ Above(more[j].at, d)
    BY <1>3 DEF Awaits, m
  <2>2. j \in k .. Len(b) /\ b[j] = more[j]
    BY <1>1, <2>1
  <2> QED BY <2>1, <2>2 DEF Awaits
<1>4. ASSUME NEW i \in 2 .. n, Awaits(a, i, d), NEW k \in 1 .. m + i - 1
      PROVE  Awaits(b, k, d)
  <2>1. PICK j \in i .. n : a[j].do = "visit" /\ Above(a[j].at, d)
    BY <1>4 DEF Awaits, n
  <2>2. m + j - 1 \in k .. Len(b) /\ b[m + j - 1] = a[j]
    BY <1>1, <2>1
  <2> QED BY <2>1, <2>2 DEF Awaits
<1>5. ASSUME NEW i \in 2 .. n, Awaits(b, m + i - 1, d)
      PROVE  Awaits(a, i, d)
  <2>1. PICK j \in m + i - 1 .. Len(b) : b[j].do = "visit" /\ Above(b[j].at, d)
    BY <1>5 DEF Awaits
  <2>2. j \in 1 .. Len(b) /\ j \notin 1 .. m
    BY <1>1, <2>1
  <2>3. j - m + 1 \in i .. n /\ b[j] = a[j - m + 1]
    BY <1>1, <2>1, <2>2
  <2> QED BY <2>1, <2>3 DEF Awaits, n
<1>6. ASSUME NEW k \in 1 .. m + 1, Awaits(a, 2, d)
      PROVE  Awaits(b, k, d)
  <2>1. n >= 2
    BY <1>1, <1>6 DEF Awaits, n
  <2>2. 2 \in 2 .. n /\ k \in 1 .. m + 2 - 1
    BY <1>1, <2>1
  <2> QED BY <1>4, <1>6, <2>2
<1>7. ASSUME NEW i \in 2 .. n, Awaits(a, i, d)
      PROVE  Awaits(b, m + i - 1, d)
  <2>1. m + i - 1 \in 1 .. m + i - 1
    BY <1>1
  <2> QED BY <1>4, <1>7, <2>1
<1> QED BY <1>2, <1>3, <1>5, <1>6, <1>7 DEF b, m, n

\* Nothing stands below two visits of an agenda.
LEMMA ApartBelow ==
  ASSUME NEW a \in Seq(Tasks), Apart(a), a # <<>>, NEW d \in Path,
         a[1].do = "visit", Above(a[1].at, d)
  PROVE  ~Awaits(a, 2, d)
<1> SUFFICES ASSUME Awaits(a, 2, d) PROVE FALSE
  OBVIOUS
<1>1. PICK j \in 2 .. Len(a) : a[j].do = "visit" /\ Above(a[j].at, d)
  BY DEF Awaits
<1>2. 1 \in 1 .. Len(a) /\ j \in 1 .. Len(a) /\ 1 < j
  BY <1>1, RestIs
<1>3. a[1].at \in Path /\ a[j].at \in Path
  BY <1>2, ElementOfSeq, TaskTyped
<1>4. Above(a[1].at, a[j].at) \/ Above(a[j].at, a[1].at)
  BY <1>1, <1>3, AboveOrder
<1> QED BY <1>1, <1>2, <1>4 DEF Apart, Unrelated

LEMMA OrderStays ==
  ASSUME NEW a, Ordered(a), a # <<>>, NEW more, Unfolds(more, a[1]),
         more # <<>> => a[1].do = "visit", WellFormed(ast)
  PROVE  Ordered(more \o Tail(a))
<1> DEFINE b == more \o Tail(a)
           m == Len(more)
           n == Len(a)
<1>1. a \in Seq(Tasks) /\ more \in Seq(Tasks)
  BY DEF Ordered, Unfolds
<1>2. /\ b \in Seq(Tasks) /\ Len(b) = m + n - 1 /\ m \in Nat /\ n \in Nat \ {0}
      /\ \A i \in 1 .. m : b[i] = more[i]
      /\ \A i \in 2 .. n : b[m + i - 1] = a[i]
      /\ \A i \in 1 .. Len(b) : \/ i \in 1 .. m /\ b[i] = more[i]
                                \/ i - m + 1 \in 2 .. n /\ b[i] = a[i - m + 1]
  BY <1>1, JoinIs
<1>3. \A d : /\ \A k \in 1 .. m + 1 : Awaits(b, k, d) <=> Awaits(more, k, d) \/ Awaits(a, 2, d)
             /\ \A i \in 2 .. n : Awaits(b, m + i - 1, d) <=> Awaits(a, i, d)
  BY <1>1, AwaitsJoin
<1>4. a[1] \in Tasks /\ \A i \in 2 .. n : i \in 1 .. n
  BY <1>1, <1>2, RestIs
<1>5. m \in Nat \ {0} => more # <<>>
  OBVIOUS
<1> HIDE DEF b, m, n
<1>6. ASSUME NEW i \in 1 .. Len(b) PROVE Fits(b[i])
  BY <1>2, <1>4 DEF Ordered, Unfolds, m, n
<1>7. InOrder(b)
  <2> SUFFICES ASSUME NEW i \in 1 .. Len(b), NEW d \in Declarers, b[i].do \notin Ending
      PROVE  Precedes(d, PosOf(b[i])) <=> ~Awaits(b, i, d)
    BY DEF InOrder
  <2>1. CASE i \in 1 .. m /\ b[i] = more[i]
    <3>1. /\ i \in 1 .. m + 1 /\ a[1].do = "visit" /\ d \in Path
          /\ a[1].do \notin Ending /\ PosOf(a[1]) = a[1].at /\ 1 \in 1 .. n
      BY <1>2, <1>5, <2>1, DeclarersAre DEF Ending, PosOf
    <3>2. Precedes(d, PosOf(more[i])) <=>
            (Precedes(d, a[1].at) \/ Above(a[1].at, d)) /\ ~Awaits(more, i, d)
      BY <2>1 DEF Unfolds, m
    <3>3. Precedes(d, a[1].at) <=> ~Awaits(a, 1, d)
      BY <3>1 DEF Ordered, InOrder, n
    <3>4. Awaits(a, 1, d) <=> Above(a[1].at, d) \/ Awaits(a, 2, d)
      <4>1. Awaits(a, 1, d) => Above(a[1].at, d) \/ Awaits(a, 2, d)
        <5> SUFFICES ASSUME NEW j \in 1 .. n, a[j].do = "visit", Above(a[j].at, d)
            PROVE  Above(a[1].at, d) \/ Awaits(a, 2, d)
          BY DEF Awaits, n
        <5>1. j = 1 \/ j \in 2 .. n
          BY <1>2
        <5> QED BY <5>1 DEF Awaits, n
      <4>2. Awaits(a, 2, d) => Awaits(a, 1, d)
        <5> SUFFICES ASSUME NEW j \in 2 .. n, a[j].do = "visit", Above(a[j].at, d)
            PROVE  Awaits(a, 1, d)
          BY DEF Awaits, n
        <5> QED BY <1>4 DEF Awaits, n
      <4>3. Above(a[1].at, d) => Awaits(a, 1, d)
        BY <3>1 DEF Awaits, n
      <4> QED BY <4>1, <4>2, <4>3
    <3>5. Above(a[1].at, d) => ~Awaits(a, 2, d)
      BY <1>1, <3>1, ApartBelow DEF Ordered
    <3> QED BY <1>3, <2>1, <3>1, <3>2, <3>3, <3>4, <3>5
  <2>2. CASE i - m + 1 \in 2 .. n /\ b[i] = a[i - m + 1]
    <3> DEFINE k == i - m + 1
    <3>1. k \in 2 .. n /\ k \in 1 .. n /\ i = m + k - 1
      BY <1>2, <2>2
    <3>2. Precedes(d, PosOf(a[k])) <=> ~Awaits(a, k, d)
      BY <2>2, <3>1 DEF Ordered, InOrder, n
    <3> QED BY <1>3, <2>2, <3>1, <3>2
  <2> QED BY <1>2, <2>1, <2>2
<1>8. Apart(b)
  <2> SUFFICES ASSUME NEW i \in 1 .. Len(b), NEW j \in 1 .. Len(b), i < j
      PROVE  Unrelated(b[i], b[j])
    BY DEF Apart
  <2>1. CASE i \in 1 .. m /\ b[i] = more[i] /\ j \in 1 .. m /\ b[j] = more[j]
    BY <2>1 DEF Unfolds, Apart, m
  <2>2. CASE /\ i - m + 1 \in 2 .. n /\ b[i] = a[i - m + 1]
             /\ j - m + 1 \in 2 .. n /\ b[j] = a[j - m + 1]
    <3>1. m \in Int /\ n \in Int /\ i \in Int /\ j \in Int /\ i < j
      BY <1>2
    <3> HIDE DEF m, n
    <3>2. i - m + 1 \in 1 .. n
      BY <2>2, <3>1
    <3>3. j - m + 1 \in 1 .. n
      BY <2>2, <3>1
    <3>4. i - m + 1 < j - m + 1
      BY <3>1
    <3> QED BY <2>2, <3>2, <3>3, <3>4 DEF Ordered, Apart, n
  <2>3. CASE /\ i \in 1 .. m /\ b[i] = more[i]
             /\ j - m + 1 \in 2 .. n /\ b[j] = a[j - m + 1]
    <3> DEFINE k == j - m + 1
    <3> SUFFICES ASSUME more[i].do = "visit", a[k].do = "visit"
        PROVE  /\ Precedes(more[i].at, a[k].at)
               /\ ~Above(more[i].at, a[k].at) /\ ~Above(a[k].at, more[i].at)
      BY <2>3 DEF Unrelated
    <3>1. /\ a[1].do = "visit" /\ Above(a[1].at, more[i].at)
          /\ 1 \in 1 .. n /\ k \in 1 .. n /\ 1 < k
      <4>1. more # <<>>
        BY <1>2, <1>5, <2>3
      <4>2. a[1].do = "visit" /\ Above(a[1].at, more[i].at)
        BY <4>1, <2>3 DEF Unfolds, m
      <4> QED BY <4>2, <1>2, <1>4, <2>3
    <3>2. Unrelated(a[1], a[k])
      BY <3>1 DEF Ordered, Apart, n
    <3>3. /\ Precedes(a[1].at, a[k].at)
          /\ ~Above(a[1].at, a[k].at) /\ ~Above(a[k].at, a[1].at)
      BY <3>1, <3>2 DEF Unrelated
    <3>4. a[1].at \in Path /\ a[k].at \in Path /\ more[i].at \in Path
      <4>1. a[k] \in Tasks /\ more[i] \in Tasks
        BY <1>1, <2>3, <3>1, ElementOfSeq DEF m, n
      <4> QED BY <1>4, <4>1, TaskTyped
    <3> HIDE DEF k
    <3> QED BY <3>1, <3>3, <3>4, AboveOrder, BelowPrecedes
  <2>4. CASE i - m + 1 \in 2 .. n /\ j \in 1 .. m
    BY <1>2, <2>4
  <2> QED BY <1>2, <2>1, <2>2, <2>3, <2>4
<1>9. Ordered(b)
  BY <1>2, <1>6, <1>7, <1>8 DEF Ordered
<1> QED BY <1>9 DEF b

LEMMA AgendaStays ==
  ASSUME NEW a, AgendaInv(a), a # <<>>, NEW more, Replaces(more, a[1]),
         more # <<>> => a[1].do = "visit", WellFormed(ast)
  PROVE  AgendaInv(more \o Tail(a))
<1> DEFINE b == more \o Tail(a)
           m == Len(more)
           n == Len(a)
<1>1. a \in Seq(Tasks) /\ more \in Seq(Tasks)
  BY DEF AgendaInv, Ordered, Replaces, Unfolds
<1>2. /\ Len(b) = m + n - 1 /\ m \in Nat /\ n \in Nat \ {0}
      /\ \A i \in 1 .. m : b[i] = more[i]
      /\ \A i \in 2 .. n : b[m + i - 1] = a[i]
  BY <1>1, JoinIs
<1>3. Ordered(b)
  BY OrderStays DEF AgendaInv, Replaces
<1>4. m \in Nat \ {0} => more # <<>>
  OBVIOUS
<1> HIDE DEF b, m, n
<1>5. Nested(b)
  <2> SUFFICES ASSUME NEW i \in 1 .. Len(b) - 1
      PROVE  ScopeAt(b[i + 1]) = ScopeAfter(b[i])
    BY DEF Nested
  <2>1. CASE i < m
    <3>1. i \in 1 .. m - 1 /\ b[i] = more[i] /\ b[i + 1] = more[i + 1]
      BY <1>2, <2>1
    <3> QED BY <3>1 DEF Replaces, Nested, m
  <2>2. CASE i = m
    <3>1. 2 \in 2 .. n /\ m + 2 - 1 = i + 1 /\ i \in 1 .. m /\ m # 0
      BY <1>2, <2>2
    <3>2. b[i] = more[m] /\ b[i + 1] = a[2] /\ 1 \in 1 .. n - 1
      BY <1>2, <2>2, <3>1
    <3>3. ScopeAt(a[1 + 1]) = ScopeAfter(a[1])
      BY <3>2 DEF AgendaInv, Nested, n
    <3>4. ScopeAfter(more[m]) = ScopeAfter(a[1])
      BY <1>2, <1>4, <3>1 DEF Replaces, m
    <3> QED BY <3>2, <3>3, <3>4
  <2>3. CASE i > m
    <3> DEFINE k == i - m + 1
    <3>1. /\ k \in 2 .. n /\ k + 1 \in 2 .. n /\ k \in 1 .. n - 1
          /\ i = m + k - 1 /\ i + 1 = m + (k + 1) - 1
      BY <1>2, <2>3
    <3>2. b[i] = a[k] /\ b[i + 1] = a[k + 1]
      BY <1>2, <3>1
    <3> HIDE DEF k
    <3> QED BY <3>1, <3>2 DEF AgendaInv, Nested, n
  <2> QED BY <1>2, <2>1, <2>2, <2>3
<1>6. AgendaInv(b)
  BY <1>3, <1>5 DEF AgendaInv
<1> QED BY <1>6 DEF b

-----------------------------------------------------------------------------
(* What a visit is replaced by *)

\* The children of p in the slots S are what is to be visited of p.
Covers(S, p) ==
  /\ S \in SUBSET Nat
  /\ \A i \in S : Append(p, i) \in DOMAIN ast /\ ast[Append(p, i)].kind # "parameter"
  /\ \A d \in Declarers : Above(p, d) /\ d # p =>
       d[Len(p) + 1] \in S \/ \A i \in S : d[Len(p) + 1] < i

\* The last of the tasks that p is replaced by, if it is about p itself.
Ends(last, p) ==
  \/ last = <<>>
  \/ \E u \in Tasks :
       /\ last = <<u>> /\ u.at = p /\ Fits(u) /\ p # <<>>
       /\ \/ u.do \in Ending /\ HasScope(p)
          \/ u.do \in {"value", "operands"} /\ ~HasScope(p)

Closes(last, p) == Ends(last, p) /\ (last = <<>> /\ HasScope(p) => p = <<>>)

\* The scope of the children of a node.
ScopeBelow(p) == IF HasScope(p) \/ p = <<>> THEN p ELSE EnclosingScope(p)

LEMMA NoDeclarers ==
  ASSUME WellFormed(ast), NEW u \in Tasks, Fits(u), u.do \in {"value", "operands", "condition"},
         NEW d \in Declarers
  PROVE  ~Above(u.at, d)
<1>1. u.at \in DOMAIN ast /\ ast[u.at].kind \in {"return"} \cup ExpressionKinds
  BY DEF Fits, ExpressionKinds
<1>2. ast[d].kind \notin {"return"} \cup ExpressionKinds
  BY DeclarersAre DEF ExpressionKinds
<1> QED BY <1>1, <1>2, NothingDeclared

LEMMA AboutChild ==
  ASSUME WellFormed(ast), NEW p \in Path, NEW S, Covers(S, p), NEW t \in Tasks, About(t, p, S)
  PROVE  /\ t.do \notin Ending /\ PosOf(t) = t.at /\ Fits(t) /\ Above(p, t.at)
         /\ ScopeAt(t) = ScopeBelow(p) /\ ScopeAfter(t) = ScopeBelow(p)
         /\ Last(t.at) \in S /\ Last(t.at) \in Nat /\ t.at = Append(p, Last(t.at))
<1>1. PICK i \in S : t.at = Append(p, i)
  BY DEF About
<1>2. i \in Nat /\ Append(p, i) \in DOMAIN ast /\ ast[Append(p, i)].kind # "parameter"
  BY DEF Covers
<1>3. Last(t.at) = i /\ Above(p, t.at) /\ t.at # <<>>
  <2>1. Last(Append(p, i)) = i /\ Above(p, Append(p, i)) /\ Append(p, i) # <<>>
    BY <1>2, ChildIs
  <2> QED BY <1>1, <2>1
<1>4. t.do \in {"visit", "condition"}
  BY DEF About
<1>5. t.do \notin Ending /\ PosOf(t) = t.at
  BY <1>4 DEF Ending, PosOf
<1>6. Fits(t)
  BY <1>1, <1>2, <1>4 DEF Fits, About
<1>7. EnclosingScope(t.at) = ScopeBelow(p)
  <2>1. /\ HasScope(p) => EnclosingScope(Append(p, i)) = p
        /\ ~HasScope(p) => p # <<>> /\ EnclosingScope(Append(p, i)) = EnclosingScope(p)
    BY <1>2, EnclosingOfChild
  <2> QED BY <1>1, <2>1 DEF ScopeBelow
<1>8. ScopeAt(t) = ScopeBelow(p) /\ ScopeAfter(t) = ScopeBelow(p)
  BY <1>3, <1>5, <1>7 DEF ScopeAt, ScopeAfter
<1>9. Last(t.at) \in S /\ Last(t.at) \in Nat /\ t.at = Append(p, Last(t.at))
  BY <1>1, <1>2, <1>3
<1> QED BY <1>3, <1>5, <1>6, <1>8, <1>9

\* What is in the list and behind it.
LEMMA ListAndLast ==
  ASSUME NEW p \in Path, NEW S, NEW list, Lists(list, p, S), NEW last, Ends(last, p)
  PROVE  LET more == list \o last IN
         /\ more \in Seq(Tasks) /\ Len(more) = Len(list) + Len(last)
         /\ Len(list) \in Nat /\ Len(last) \in {0, 1}
         /\ \A k \in 1 .. Len(list) : more[k] = list[k] /\ list[k] \in Tasks
         /\ \A k \in 1 .. Len(more) :
              \/ k \in 1 .. Len(list) /\ more[k] = list[k]
              \/ k = Len(list) + 1 /\ k = Len(more) /\ last = <<more[k]>>
<1> DEFINE more == list \o last
<1>1. list \in Seq(Tasks) /\ Len(list) \in Nat
  BY DEF Lists
<1>2. last \in Seq(Tasks) /\ (last = <<>> \/ (Len(last) = 1 /\ last = <<last[1]>>))
  <2>1. CASE last = <<>>
    BY <2>1
  <2>2. CASE \E u \in Tasks : last = <<u>>
    BY <2>2
  <2> QED BY <2>1, <2>2 DEF Ends
<1>3. Len(last) \in {0, 1}
  BY <1>2
<1>4. /\ more \in Seq(Tasks) /\ Len(more) = Len(list) + Len(last)
      /\ \A k \in 1 .. Len(list) + Len(last) :
           more[k] = IF k <= Len(list) THEN list[k] ELSE last[k - Len(list)]
  BY <1>1, <1>2, ConcatProperties
<1> HIDE DEF more
<1>5. ASSUME NEW k \in 1 .. Len(list) PROVE more[k] = list[k] /\ list[k] \in Tasks
  <2>1. k \in 1 .. Len(list) + Len(last) /\ k <= Len(list)
    BY <1>1, <1>3
  <2> QED BY <1>1, <1>4, <2>1, ElementOfSeq
<1>6. ASSUME NEW k \in 1 .. Len(more), k \notin 1 .. Len(list)
      PROVE  k = Len(list) + 1 /\ k = Len(more) /\ last = <<more[k]>>
  <2>1. Len(last) = 1 /\ k = Len(list) + 1 /\ k = Len(more) /\ k - Len(list) = 1
    BY <1>1, <1>3, <1>4, <1>6
  <2>2. more[k] = last[1]
    BY <1>1, <1>4, <2>1
  <2>3. last = <<last[1]>>
    BY <1>2, <2>1, EmptySeq
  <2> QED BY <2>1, <2>2, <2>3
<1>7. \A k \in 1 .. Len(more) :
        \/ k \in 1 .. Len(list) /\ more[k] = list[k]
        \/ k = Len(list) + 1 /\ k = Len(more) /\ last = <<more[k]>>
  BY <1>5, <1>6
<1> QED BY <1>1, <1>3, <1>4, <1>5, <1>7 DEF more

LEMMA LastIs ==
  ASSUME WellFormed(ast), NEW p \in DOMAIN ast, NEW u, Ends(<<u>>, p)
  PROVE  /\ u \in Tasks /\ u.at = p /\ Fits(u) /\ p # <<>> /\ u.do # "visit"
         /\ u.do \notin Ending => ~HasScope(p) /\ PosOf(u) = p
              /\ \A d \in Declarers : ~Above(p, d)
         /\ ScopeAt(u) = ScopeBelow(p) /\ ScopeAfter(u) = EnclosingScope(p)
<1>1. PICK v \in Tasks :
        /\ <<u>> = <<v>> /\ v.at = p /\ Fits(v) /\ p # <<>>
        /\ \/ v.do \in Ending /\ HasScope(p)
           \/ v.do \in {"value", "operands"} /\ ~HasScope(p)
  BY DEF Ends
<1>2. u = v
  BY <1>1
<1>3. u.do # "visit"
  BY <1>1, <1>2 DEF Ending
<1>4. ASSUME u.do \notin Ending
      PROVE  ~HasScope(p) /\ PosOf(u) = p /\ u.do \in {"value", "operands"}
  BY <1>1, <1>2, <1>4 DEF PosOf
<1>5. ASSUME u.do \notin Ending PROVE \A d \in Declarers : ~Above(p, d)
  BY <1>1, <1>2, <1>4, <1>5, NoDeclarers
<1>6. ScopeAt(u) = ScopeBelow(p) /\ ScopeAfter(u) = EnclosingScope(p)
  <2>1. CASE u.do \in Ending /\ HasScope(p)
    BY <1>1, <1>2, <2>1 DEF ScopeAt, ScopeAfter, ScopeBelow
  <2>2. CASE u.do \notin Ending
    <3>1. ~HasScope(p) /\ PosOf(u) = p /\ p # <<>> /\ u.at = p
      BY <1>1, <1>2, <1>4, <2>2
    <3> QED BY <2>2, <3>1 DEF ScopeAt, ScopeAfter, ScopeBelow
  <2>3. u.do \in {"value", "operands"} => u.do \notin Ending
    BY DEF Ending
  <2> QED BY <1>1, <1>2, <2>1, <2>2, <2>3
<1> QED BY <1>1, <1>2, <1>3, <1>4, <1>5, <1>6

\* A node's children before the child in slot i are what precedes it below p.
LEMMA ListInOrder ==
  ASSUME WellFormed(ast), NEW p \in DOMAIN ast, NEW S, Covers(S, p),
         NEW list, Lists(list, p, S), NEW last, Ends(last, p),
         NEW k \in 1 .. Len(list), NEW d \in Declarers
  PROVE  Precedes(d, list[k].at) <=>
           (Precedes(d, p) \/ Above(p, d)) /\ ~Awaits(list \o last, k, d)
<1> DEFINE more == list \o last
           i == Last(list[k].at)
           s == d[Len(p) + 1]
<1>1. p \in Path /\ d \in Path
  BY NodesArePaths, DeclarersAre
<1>2. /\ Len(more) = Len(list) + Len(last)
      /\ Len(list) \in Nat /\ Len(last) \in {0, 1}
      /\ \A l \in 1 .. Len(list) : more[l] = list[l] /\ list[l] \in Tasks
      /\ \A l \in 1 .. Len(more) : \/ l \in 1 .. Len(list) /\ more[l] = list[l]
                                   \/ last = <<more[l]>>
  BY <1>1, ListAndLast
<1>3. \A l \in 1 .. Len(list) :
        /\ About(list[l], p, S) /\ Last(list[l].at) \in S /\ Last(list[l].at) \in Nat
        /\ list[l].at = Append(p, Last(list[l].at)) /\ Fits(list[l])
  BY <1>1, <1>2, AboutChild DEF Lists
<1>4. i \in Nat /\ i \in S /\ list[k].at = Append(p, i)
  BY <1>3
<1>5. Precedes(d, list[k].at) <=>
        Precedes(d, p) \/ (Above(p, d) /\ (d = p \/ s < i))
  <2>1. d \in Path
    BY <1>1
  <2>2. p \in Path
    BY <1>1
  <2>3. i \in Nat
    BY <1>4
  <2> HIDE DEF i, more
  <2>4. Precedes(d, Append(p, i)) <=>
          Precedes(d, p) \/ (Above(p, d) /\ (d = p \/ d[Len(p) + 1] < i))
    BY <2>1, <2>2, <2>3, PrecedesChild
  <2> QED BY <1>4, <2>4
<1> HIDE DEF more
<1>6. ASSUME Awaits(more, k, d)
      PROVE  Above(p, d) /\ d # p /\ s \in Nat /\ i <= s
  <2>1. PICK l \in k .. Len(more) : more[l].do = "visit" /\ Above(more[l].at, d)
    BY <1>6 DEF Awaits
  <2>2. l \in 1 .. Len(more) /\ k <= l
    BY <1>2, <2>1
  <2>3. ASSUME last = <<more[l]>> PROVE FALSE
    BY <2>1, <2>3, LastIs
  <2>4. l \in 1 .. Len(list) /\ more[l] = list[l]
    BY <1>2, <2>2, <2>3
  <2> DEFINE j == Last(list[l].at)
  <2>5. j \in Nat /\ list[l].at = Append(p, j)
    BY <1>3, <2>4
  <2>6. Above(p, d) /\ p # d /\ s = j
    <3> HIDE DEF j
    <3>1. Above(Append(p, j), d)
      BY <2>1, <2>4, <2>5
    <3> QED BY <1>1, <2>5, <3>1, ChildAbove
  <2>7. i <= j
    <3>1. CASE l = k
      BY <1>4, <3>1
    <3>2. CASE k < l
      <4>1. Before(list[k], list[l])
        BY <2>4, <3>2 DEF Lists
      <4> QED BY <1>4, <2>1, <2>4, <2>5, <4>1 DEF Before
    <3> QED BY <2>2, <2>4, <3>1, <3>2
  <2> QED BY <2>5, <2>6, <2>7
<1>7. ASSUME Above(p, d), d # p, ~Awaits(more, k, d)
      PROVE  s < i
  <2>1. s \in S \/ s < i
    BY <1>4, <1>7 DEF Covers
  <2>2. CASE s \in S
    <3>1. PICK l \in 1 .. Len(list) : Visiting(list[l], Append(p, s))
      BY <2>2 DEF Lists
    <3>2. s \in Nat /\ Above(Append(p, s), d)
      BY <1>1, <1>7, BelowChild
    <3>3. Last(list[l].at) = s
      BY <1>1, <3>1, <3>2, ChildIs DEF Visiting
    <3>4. ~(k <= l)
      <4>1. ASSUME k <= l PROVE Awaits(more, k, d)
        <5>1. l \in k .. Len(more) /\ more[l] = list[l]
          BY <1>2, <4>1
        <5> QED BY <3>1, <3>2, <5>1 DEF Awaits, Visiting
      <4> QED BY <1>7, <4>1
    <3>5. Before(list[l], list[k])
      <4>1. l < k
        BY <1>2, <3>4
      <4> QED BY <4>1 DEF Lists
    <3>6. CASE s < i
      BY <3>6
    <3>7. CASE s = i /\ list[k].do = "condition"
      <4>1. Above(list[k].at, d)
        BY <1>4, <3>2, <3>7
      <4>2. list[k] \in Tasks /\ Fits(list[k])
        BY <1>2, <1>3
      <4> QED BY <3>7, <4>1, <4>2, NoDeclarers
    <3> QED BY <3>3, <3>5, <3>6, <3>7 DEF Before
  <2> QED BY <2>1, <2>2
<1>8. Above(p, d) => ~Precedes(d, p)
  BY <1>1, PrecedesOrder
<1>9. Above(p, p)
  BY <1>1, AboveOrder
<1>10. ASSUME Precedes(d, list[k].at), Awaits(more, k, d) PROVE FALSE
  <2>1. Above(p, d) /\ d # p /\ s \in Nat /\ i <= s
    BY <1>6, <1>10
  <2>2. s < i
    BY <1>5, <1>8, <1>10, <2>1
  <2> HIDE DEF s, i
  <2> QED BY <1>4, <2>1, <2>2
<1>11. Precedes(d, list[k].at) => Precedes(d, p) \/ Above(p, d)
  BY <1>5
<1>12. ASSUME Precedes(d, p) \/ Above(p, d), ~Awaits(more, k, d)
       PROVE  Precedes(d, list[k].at)
  BY <1>5, <1>7, <1>12
<1> QED BY <1>10, <1>11, <1>12 DEF more

\* The tasks that stand for a node, one by one.
LEMMA ListIs ==
  ASSUME WellFormed(ast), NEW p \in DOMAIN ast, NEW S, Covers(S, p),
         NEW list, Lists(list, p, S), NEW last, Ends(last, p)
  PROVE  LET more == list \o last IN
         /\ \A k \in 1 .. Len(list) :
              /\ list[k].do \notin Ending /\ PosOf(list[k]) = list[k].at /\ Fits(list[k])
              /\ Above(p, list[k].at) /\ list[k].at = Append(p, Last(list[k].at))
              /\ ScopeAt(list[k]) = ScopeBelow(p) /\ ScopeAfter(list[k]) = ScopeBelow(p)
              /\ Last(list[k].at) \in Nat
         /\ \A k \in 1 .. Len(more) : last = <<more[k]>> =>
              /\ more[k].at = p /\ Fits(more[k]) /\ p # <<>> /\ more[k].do # "visit"
              /\ more[k].do \notin Ending => ~HasScope(p) /\ PosOf(more[k]) = p
                   /\ \A d \in Declarers : ~Above(p, d)
              /\ ScopeAt(more[k]) = ScopeBelow(p)
              /\ ScopeAfter(more[k]) = EnclosingScope(p)
<1> DEFINE more == list \o last
<1>1. p \in DOMAIN ast /\ p \in Path
  BY NodesArePaths
<1>2. /\ more \in Seq(Tasks) /\ Len(more) = Len(list) + Len(last)
      /\ Len(list) \in Nat /\ Len(last) \in {0, 1}
      /\ \A k \in 1 .. Len(list) : more[k] = list[k] /\ list[k] \in Tasks
      /\ \A k \in 1 .. Len(more) :
           \/ k \in 1 .. Len(list) /\ more[k] = list[k]
           \/ k = Len(list) + 1 /\ k = Len(more) /\ last = <<more[k]>>
  BY <1>1, ListAndLast
<1>3. ASSUME NEW k \in 1 .. Len(list)
      PROVE  /\ list[k].do \notin Ending /\ PosOf(list[k]) = list[k].at /\ Fits(list[k])
             /\ Above(p, list[k].at) /\ list[k].at = Append(p, Last(list[k].at))
             /\ ScopeAt(list[k]) = ScopeBelow(p) /\ ScopeAfter(list[k]) = ScopeBelow(p)
             /\ Last(list[k].at) \in Nat
  <2>1. About(list[k], p, S) /\ list[k] \in Tasks
    BY <1>2 DEF Lists
  <2> QED BY <1>1, <2>1, AboutChild
<1>4. ASSUME NEW k \in 1 .. Len(more), last = <<more[k]>>
      PROVE  /\ more[k].at = p /\ Fits(more[k]) /\ p # <<>> /\ more[k].do # "visit"
             /\ more[k].do \notin Ending => ~HasScope(p) /\ PosOf(more[k]) = p
                  /\ \A d \in Declarers : ~Above(p, d)
             /\ ScopeAt(more[k]) = ScopeBelow(p)
             /\ ScopeAfter(more[k]) = EnclosingScope(p)
  <2> DEFINE u == more[k]
  <2>1. Ends(<<u>>, p)
    BY <1>4
  <2> HIDE DEF u
  <2>2. /\ u.at = p /\ Fits(u) /\ p # <<>> /\ u.do # "visit"
        /\ u.do \notin Ending => ~HasScope(p) /\ PosOf(u) = p
             /\ \A d \in Declarers : ~Above(p, d)
        /\ ScopeAt(u) = ScopeBelow(p) /\ ScopeAfter(u) = EnclosingScope(p)
    BY <1>1, <2>1, LastIs
  <2> QED BY <2>2 DEF u
<1> HIDE DEF more
<1> QED BY <1>3, <1>4 DEF more

LEMMA ListUnfolds ==
  ASSUME WellFormed(ast), NEW t \in Tasks, Fits(t), t.do = "visit",
         NEW S, Covers(S, t.at), NEW list, Lists(list, t.at, S), NEW last, Ends(last, t.at)
  PROVE  Unfolds(list \o last, t)
<1> DEFINE p == t.at
           more == list \o last
<1>1. p \in DOMAIN ast /\ p \in Path
  BY NodesArePaths DEF Fits
<1>2. /\ more \in Seq(Tasks) /\ Len(more) = Len(list) + Len(last)
      /\ Len(list) \in Nat /\ Len(last) \in {0, 1}
      /\ \A k \in 1 .. Len(list) : more[k] = list[k] /\ list[k] \in Tasks
      /\ \A k \in 1 .. Len(more) :
           \/ k \in 1 .. Len(list) /\ more[k] = list[k]
           \/ k = Len(list) + 1 /\ k = Len(more) /\ last = <<more[k]>>
  BY <1>1, ListAndLast
<1>3. \A k \in 1 .. Len(list) :
        /\ list[k].do \notin Ending /\ PosOf(list[k]) = list[k].at /\ Fits(list[k])
        /\ Above(p, list[k].at) /\ list[k].at = Append(p, Last(list[k].at))
        /\ ScopeAt(list[k]) = ScopeBelow(p) /\ ScopeAfter(list[k]) = ScopeBelow(p)
        /\ Last(list[k].at) \in Nat
  BY <1>1, ListIs
<1>4. \A k \in 1 .. Len(more) : last = <<more[k]>> =>
        /\ more[k].at = p /\ Fits(more[k]) /\ p # <<>> /\ more[k].do # "visit"
        /\ more[k].do \notin Ending => ~HasScope(p) /\ PosOf(more[k]) = p
             /\ \A d \in Declarers : ~Above(p, d)
        /\ ScopeAt(more[k]) = ScopeBelow(p)
        /\ ScopeAfter(more[k]) = EnclosingScope(p)
  BY <1>1, ListIs
<1> HIDE DEF more
<1>5. ASSUME NEW k \in 1 .. Len(more)
      PROVE  /\ Fits(more[k])
             /\ more[k].do = "visit" => Above(p, more[k].at)
  BY <1>2, <1>3, <1>4
<1>6. ASSUME NEW k \in 1 .. Len(more), NEW d \in Declarers, more[k].do \notin Ending
      PROVE  Precedes(d, PosOf(more[k])) <=>
               (Precedes(d, p) \/ Above(p, d)) /\ ~Awaits(more, k, d)
  <2>1. CASE k \in 1 .. Len(list) /\ more[k] = list[k]
    BY <1>1, <1>3, <2>1, ListInOrder DEF more
  <2>2. CASE k = Len(more) /\ last = <<more[k]>>
    <3>1. PosOf(more[k]) = p /\ ~Above(p, d) /\ more[k].do # "visit"
      BY <1>4, <1>6, <2>2
    <3>2. ~Awaits(more, k, d)
      <4> SUFFICES ASSUME NEW j \in k .. Len(more), more[j].do = "visit" PROVE FALSE
        BY DEF Awaits
      <4>1. j = k
        BY <1>2, <2>2
      <4> QED BY <3>1, <4>1
    <3> QED BY <3>1, <3>2
  <2> QED BY <1>2, <2>1, <2>2
<1>7. Apart(more)
  <2> SUFFICES ASSUME NEW k \in 1 .. Len(more), NEW l \in 1 .. Len(more), k < l,
                      more[k].do = "visit", more[l].do = "visit"
      PROVE  /\ Precedes(more[k].at, more[l].at)
             /\ ~Above(more[k].at, more[l].at) /\ ~Above(more[l].at, more[k].at)
    BY DEF Apart, Unrelated
  <2>1. /\ k \in 1 .. Len(list) /\ more[k] = list[k]
        /\ l \in 1 .. Len(list) /\ more[l] = list[l]
    BY <1>2, <1>4
  <2> DEFINE i == Last(list[k].at)
             j == Last(list[l].at)
  <2>2. i \in Nat /\ j \in Nat /\ list[k].at = Append(p, i) /\ list[l].at = Append(p, j)
    BY <1>3, <2>1
  <2>3. i < j
    <3>1. Before(list[k], list[l])
      BY <2>1 DEF Lists
    <3> QED BY <2>1, <2>2, <3>1 DEF Before
  <2> HIDE DEF i, j, p
  <2>4. /\ Append(p, i) \in Path /\ Append(p, i)[Len(p) + 1] = i
        /\ Append(p, j) \in Path /\ Append(p, j)[Len(p) + 1] = j
        /\ Above(p, Append(p, i))
    BY <1>1, <2>2, ChildIs
  <2>5. ~Above(Append(p, i), Append(p, j)) /\ ~Above(Append(p, j), Append(p, i))
    <3>1. i # j
      BY <2>2, <2>3
    <3> QED BY <1>1, <2>2, <2>4, <3>1, ChildAbove
  <2>6. Precedes(Append(p, i), Append(p, j))
    <3> DEFINE d == Append(p, i)
    <3>1. d \in Path /\ d[Len(p) + 1] < j /\ Above(p, d)
      BY <2>3, <2>4
    <3> HIDE DEF d
    <3>2. Precedes(d, Append(p, j))
      BY <1>1, <2>2, <3>1, PrecedesChild
    <3> QED BY <3>2 DEF d
  <2> QED BY <2>1, <2>2, <2>5, <2>6
<1>8. Unfolds(more, t)
  BY <1>2, <1>5, <1>6, <1>7 DEF Unfolds
<1> QED BY <1>8 DEF more

LEMMA ListReplaces ==
  ASSUME WellFormed(ast), NEW t \in Tasks, Fits(t), t.do = "visit",
         NEW S, Covers(S, t.at), NEW list, Lists(list, t.at, S), NEW last, Closes(last, t.at)
  PROVE  Replaces(list \o last, t)
<1> DEFINE p == t.at
           more == list \o last
<1>1. p \in DOMAIN ast /\ p \in Path
  BY NodesArePaths DEF Fits
<1>2. /\ more \in Seq(Tasks) /\ Len(more) = Len(list) + Len(last)
      /\ Len(list) \in Nat /\ Len(last) \in {0, 1}
      /\ \A k \in 1 .. Len(list) : more[k] = list[k] /\ list[k] \in Tasks
      /\ \A k \in 1 .. Len(more) :
           \/ k \in 1 .. Len(list) /\ more[k] = list[k]
           \/ k = Len(list) + 1 /\ k = Len(more) /\ last = <<more[k]>>
  BY <1>1, ListAndLast DEF Closes
<1>3. \A k \in 1 .. Len(list) :
        /\ list[k].do \notin Ending /\ PosOf(list[k]) = list[k].at /\ Fits(list[k])
        /\ Above(p, list[k].at) /\ list[k].at = Append(p, Last(list[k].at))
        /\ ScopeAt(list[k]) = ScopeBelow(p) /\ ScopeAfter(list[k]) = ScopeBelow(p)
        /\ Last(list[k].at) \in Nat
  BY <1>1, ListIs DEF Closes
<1>4. \A k \in 1 .. Len(more) : last = <<more[k]>> =>
        /\ more[k].at = p /\ Fits(more[k]) /\ p # <<>> /\ more[k].do # "visit"
        /\ more[k].do \notin Ending => ~HasScope(p) /\ PosOf(more[k]) = p
             /\ \A d \in Declarers : ~Above(p, d)
        /\ ScopeAt(more[k]) = ScopeBelow(p)
        /\ ScopeAfter(more[k]) = EnclosingScope(p)
  BY <1>1, ListIs DEF Closes
<1> HIDE DEF more
<1>5. ASSUME NEW k \in 1 .. Len(more)
      PROVE  ScopeAt(more[k]) = ScopeBelow(p)
  BY <1>2, <1>3, <1>4
<1>6. Nested(more)
  <2> SUFFICES ASSUME NEW k \in 1 .. Len(more) - 1
      PROVE  ScopeAt(more[k + 1]) = ScopeAfter(more[k])
    BY DEF Nested
  <2>1. /\ k \in 1 .. Len(more) /\ k + 1 \in 1 .. Len(more) /\ k # Len(more)
        /\ k \in 1 .. Len(list)
    BY <1>2
  <2> QED BY <1>2, <1>3, <1>5, <2>1
<1>7. ASSUME more # <<>>
      PROVE  ScopeAfter(more[Len(more)]) = ScopeAfter(t)
  <2>1. Len(more) \in 1 .. Len(more)
    BY <1>2, <1>7, EmptySeq
  <2>2. ScopeAfter(t) = IF p = <<>> THEN p ELSE EnclosingScope(p)
    BY DEF ScopeAfter, ScopeAt, PosOf, Ending
  <2>3. CASE last = <<more[Len(more)]>>
    BY <1>4, <2>1, <2>2, <2>3
  <2>4. CASE last = <<>> /\ (HasScope(p) => p = <<>>)
    <3>1. Len(more) \in 1 .. Len(list)
      BY <1>2, <2>1, <2>4
    <3>2. ScopeAfter(more[Len(more)]) = ScopeBelow(p)
      BY <1>2, <1>3, <3>1
    <3> QED BY <2>2, <2>4, <3>2 DEF ScopeBelow
  <2>5. last # <<>> => last = <<more[Len(more)]>>
    <3>1. last # <<>> => Len(last) = 1
      BY DEF Closes, Ends
    <3> QED BY <1>2, <2>1, <3>1
  <2>6. last = <<>> => (HasScope(p) => p = <<>>)
    <3>1. \A u : <<u>> # <<>>
      OBVIOUS
    <3> QED BY <3>1 DEF Closes, Ends
  <2> QED BY <2>3, <2>4, <2>5, <2>6
<1>8. Unfolds(more, t)
  BY ListUnfolds DEF more, Closes
<1>9. Replaces(more, t)
  BY <1>6, <1>7, <1>8 DEF Replaces
<1> QED BY <1>9 DEF more

\* A declaration is replaced by what is left to do for it.
LEMMA InitializerReplaces ==
  ASSUME WellFormed(ast), NEW t \in Tasks, Fits(t), t.do = "visit",
         ast[t.at].kind = "declaration", Append(t.at, 1) \in DOMAIN ast
  PROVE  Replaces(<<Task("initializer", t.at)>>, t)
<1> DEFINE p == t.at
           u == Task("initializer", p)
           more == <<u>>
           c == Append(p, 1)
<1>1. p \in DOMAIN ast /\ p \in Path /\ p # <<>> /\ ~HasScope(p) /\ p \in Declarers
  BY NodesArePaths DEF Fits, HasScope, ScopeKinds, Declarers, DeclarerKinds
<1>2. u \in Tasks /\ u.do = "initializer" /\ u.at = p
  BY <1>1, TaskIs DEF Doings
<1>3. Fits(u)
  BY <1>1, <1>2 DEF Fits
<1>4. PosOf(u) = c /\ u.do \notin Ending /\ u.do # "visit"
  BY <1>2 DEF PosOf, Ending
<1>5. EnclosingScope(c) = EnclosingScope(p)
  BY <1>1, EnclosingOfChild
<1>6. ScopeAt(u) = EnclosingScope(p) /\ ScopeAfter(u) = EnclosingScope(p)
  BY <1>1, <1>2, <1>4, <1>5 DEF ScopeAt, ScopeAfter
<1>7. ScopeAfter(t) = EnclosingScope(p)
  BY <1>1 DEF ScopeAfter, ScopeAt, PosOf, Ending
<1>8. ASSUME NEW d \in Declarers
      PROVE  Precedes(d, c) <=> Precedes(d, p) \/ Above(p, d)
  <2>1. d \in Path
    BY DeclarersAre
  <2>2. Precedes(d, c) <=> Precedes(d, p) \/ (Above(p, d) /\ (d = p \/ d[Len(p) + 1] < 1))
    BY <1>1, <2>1, PrecedesChild
  <2>3. Above(p, d) => d = p
    BY <1>1, NothingDeclared
  <2> QED BY <2>2, <2>3
<1> HIDE DEF u, c, p
<1>9. more \in Seq(Tasks) /\ Len(more) = 1 /\ more[1] = u
  BY <1>2
<1> HIDE DEF more
<1>10. \A k \in 1 .. Len(more) : k = 1 /\ more[k] = u
  BY <1>9
<1>11. \A d \in Declarers : ~Awaits(more, 1, d)
  BY <1>4, <1>9, <1>10 DEF Awaits
<1>12. /\ \A k \in 1 .. Len(more) : Fits(more[k]) /\ more[k].do # "visit"
       /\ Apart(more) /\ Nested(more)
  <2>1. \A k \in 1 .. Len(more) : Fits(more[k]) /\ more[k].do # "visit"
    BY <1>3, <1>4, <1>10
  <2>2. Apart(more)
    BY <2>1 DEF Apart, Unrelated
  <2>3. Nested(more)
    BY <1>9 DEF Nested
  <2> QED BY <2>1, <2>2, <2>3
<1>13. \A k \in 1 .. Len(more), d \in Declarers :
         Precedes(d, PosOf(more[k])) <=>
           (Precedes(d, p) \/ Above(p, d)) /\ ~Awaits(more, k, d)
  BY <1>4, <1>8, <1>10, <1>11
<1>14. ScopeAfter(more[Len(more)]) = ScopeAfter(t)
  BY <1>6, <1>7, <1>9
<1>15. Replaces(more, t)
  BY <1>9, <1>12, <1>13, <1>14 DEF Replaces, Unfolds, p
<1> QED BY <1>15 DEF more, u, p

LEMMA NothingReplaces ==
  ASSUME NEW t
  PROVE  Replaces(<<>>, t)
BY DEF Replaces, Unfolds, Apart, Nested

-----------------------------------------------------------------------------
(* What has been visited *)

Awaited(a, x) == Awaits(a, 1, x)

LEMMA AwaitedSplit ==
  ASSUME NEW a \in Seq(Tasks), a # <<>>, NEW x
  PROVE  Awaited(a, x) <=> (a[1].do = "visit" /\ Above(a[1].at, x)) \/ Awaits(a, 2, x)
<1>1. Len(a) \in Nat \ {0}
  BY RestIs
<1>2. \A j : j \in 1 .. Len(a) <=> j = 1 \/ j \in 2 .. Len(a)
  BY <1>1
<1> QED BY <1>2 DEF Awaited, Awaits

\* A step from a to b that replaces the head by more.
StepTo(a, more, b) ==
  /\ AgendaInv(a) /\ a # <<>> /\ Replaces(more, a[1])
  /\ more # <<>> => a[1].do = "visit"
  /\ b = more \o Tail(a)

LEMMA AwaitedAfter ==
  ASSUME NEW a, NEW more, NEW b, StepTo(a, more, b), NEW x \in Path
  PROVE  /\ Awaited(b, x) <=> Awaited(more, x) \/ Awaits(a, 2, x)
         /\ Awaited(more, x) => a[1].do = "visit" /\ Above(a[1].at, x)
         /\ Awaited(b, x) => Awaited(a, x)
         /\ Awaited(a, x) /\ ~Awaited(b, x) => a[1].do = "visit" /\ Above(a[1].at, x)
         /\ a[1].do = "visit" /\ Above(a[1].at, x) => ~Awaits(a, 2, x)
<1>1. a \in Seq(Tasks) /\ more \in Seq(Tasks) /\ a # <<>> /\ Apart(a)
  BY DEF StepTo, AgendaInv, Ordered, Replaces, Unfolds
<1>2. Awaited(b, x) <=> Awaited(more, x) \/ Awaits(a, 2, x)
  <2>1. 1 \in 1 .. Len(more) + 1
    BY <1>1, LenProperties
  <2> QED BY <1>1, <2>1, AwaitsJoin DEF StepTo, Awaited
<1>3. ASSUME Awaited(more, x)
      PROVE  a[1].do = "visit" /\ Above(a[1].at, x)
  <2>1. PICK j \in 1 .. Len(more) : more[j].do = "visit" /\ Above(more[j].at, x)
    BY <1>3 DEF Awaited, Awaits
  <2>2. more # <<>>
    BY <2>1, EmptySeq
  <2>3. Above(a[1].at, more[j].at) /\ a[1].do = "visit"
    BY <2>1, <2>2 DEF StepTo, Replaces, Unfolds
  <2>4. a[1].at \in Path /\ more[j].at \in Path
    BY <1>1, <2>1, RestIs, ElementOfSeq, TaskTyped
  <2> QED BY <2>1, <2>3, <2>4, AboveOrder
<1>4. a[1].do = "visit" /\ Above(a[1].at, x) => ~Awaits(a, 2, x)
  BY <1>1, ApartBelow
<1> QED BY <1>1, <1>2, <1>3, <1>4, AwaitedSplit

\* What a visit with its children in a list leaves to be visited below p.
LEMMA ListAwaits ==
  ASSUME WellFormed(ast), NEW p \in DOMAIN ast, NEW S, Covers(S, p),
         NEW list, Lists(list, p, S), NEW last, Ends(last, p), NEW x \in Path
  PROVE  Awaited(list \o last, x) <=> Above(p, x) /\ x # p /\ x[Len(p) + 1] \in S
<1> DEFINE more == list \o last
           s == x[Len(p) + 1]
<1>1. p \in Path
  BY NodesArePaths
<1>2. /\ Len(more) = Len(list) + Len(last)
      /\ Len(list) \in Nat /\ Len(last) \in {0, 1}
      /\ \A l \in 1 .. Len(list) : more[l] = list[l] /\ list[l] \in Tasks
      /\ \A l \in 1 .. Len(more) : \/ l \in 1 .. Len(list) /\ more[l] = list[l]
                                   \/ last = <<more[l]>>
  BY <1>1, ListAndLast
<1> HIDE DEF more
<1>3. ASSUME Awaited(more, x)
      PROVE  Above(p, x) /\ x # p /\ s \in S
  <2>1. PICK l \in 1 .. Len(more) : more[l].do = "visit" /\ Above(more[l].at, x)
    BY <1>3 DEF Awaits, Awaited
  <2>2. ASSUME last = <<more[l]>> PROVE FALSE
    BY <2>1, <2>2, LastIs
  <2>3. l \in 1 .. Len(list) /\ more[l] = list[l]
    BY <1>2, <2>1, <2>2
  <2>4. About(list[l], p, S)
    BY <2>3 DEF Lists
  <2>5. PICK i \in S : list[l].at = Append(p, i)
    BY <2>4 DEF About
  <2>6. i \in Nat /\ Above(Append(p, i), x)
    BY <2>1, <2>3, <2>5 DEF Covers
  <2> QED BY <1>1, <2>5, <2>6, ChildAbove
<1>4. ASSUME Above(p, x), x # p, s \in S
      PROVE  Awaited(more, x)
  <2>1. PICK l \in 1 .. Len(list) : Visiting(list[l], Append(p, s))
    BY <1>4 DEF Lists
  <2>2. Above(Append(p, s), x)
    BY <1>1, <1>4, BelowChild
  <2>3. l \in 1 .. Len(more) /\ more[l] = list[l]
    BY <1>2
  <2> QED BY <2>1, <2>2, <2>3 DEF Awaited, Awaits, Visiting
<1> QED BY <1>3, <1>4 DEF more

LEMMA NoneAwaited ==
  ASSUME NEW x
  PROVE  ~Awaited(<<>>, x)
BY DEF Awaited, Awaits

LEMMA PrecedesBelow ==
  ASSUME NEW d \in Path, NEW p \in Path, NEW e \in Path, Precedes(d, p), Above(p, e)
  PROVE  Precedes(d, e)
<1>1. Len(d) \in Nat /\ Len(p) \in Nat /\ Len(e) \in Nat
  BY DEF Path
<1>2. ASSUME Above(d, p), d # p
      PROVE  Above(d, e) /\ d # e
  BY <1>1, <1>2, AboveOrder DEF Above
<1>3. ASSUME NEW n \in Nat, Splits(d, p, n)
      PROVE  Splits(d, e, n)
  <2>1. n + 1 \in 1 .. Len(p) /\ \A k \in 1 .. n : k \in 1 .. Len(p)
    BY <1>1, <1>3 DEF Splits
  <2>2. p[n + 1] = e[n + 1] /\ \A k \in 1 .. n : p[k] = e[k]
    BY <2>1 DEF Above
  <2>3. n \in 0 .. Len(e) - 1
    BY <1>1, <2>1 DEF Above
  <2> QED BY <1>3, <2>2, <2>3 DEF Splits
<1>4. (Above(d, p) /\ d # p) \/ \E n \in Nat : Splits(d, p, n)
  BY PrecedesIs
<1>5. (Above(d, e) /\ d # e) \/ \E n \in Nat : Splits(d, e, n)
  BY <1>2, <1>3, <1>4
<1> QED BY <1>5, PrecedesIs

-----------------------------------------------------------------------------
(* The scopes *)

SymbolOf(d) == Symbol(ast[d].name, Declared(d).kind, Declared(d).type)

SameName(d, e) ==
  EnclosingScope(e) = EnclosingScope(d) /\ ast[e].name = ast[d].name

\* Of what has been visited, d declares its name first in its scope.
IsFirst(d, a) ==
  /\ ~Awaited(a, d)
  /\ \A e \in Declarers : e # d /\ ~Awaited(a, e) /\ SameName(d, e) => Precedes(d, e)

ScopeSet == [parent : Nat, at : Path, symbols : SUBSET [name : Name,
              kind : {"function", "variable"}, type : Builtins \cup {NoType},
              isInitialized : BOOLEAN]]

\* Scopes are nested like the nodes that they were made for ...
FollowsTree(sc) ==
  \A s \in 1 .. Len(sc) :
    /\ sc[s].at \in DOMAIN ast /\ HasScope(sc[s].at)
    /\ sc[s].at = <<>> => sc[s].parent = 0
    /\ sc[s].at # <<>> => /\ sc[s].parent \in 1 .. s - 1
                          /\ sc[sc[s].parent].at = EnclosingScope(sc[s].at)

\* ... of which each has one, made when it was visited.
OneForEach(sc, a) ==
  /\ \A s, q \in 1 .. Len(sc) : sc[s].at = sc[q].at => s = q
  /\ \A s \in 1 .. Len(sc) : sc[s].at # <<>> => ~Awaited(a, sc[s].at)

\* A scope has the first declaration of each name that was visited.
HasFirst(scope, a) ==
  /\ \A y \in scope.symbols : \E d \in Declarers :
       IsFirst(d, a) /\ EnclosingScope(d) = scope.at /\ y = SymbolOf(d)
  /\ \A d \in Declarers : ~Awaited(a, d) /\ EnclosingScope(d) = scope.at =>
       \E y \in scope.symbols : y.name = ast[d].name

ScopesInv(sc, a) ==
  /\ sc \in Seq(ScopeSet) /\ FollowsTree(sc) /\ OneForEach(sc, a)
  /\ \A s \in 1 .. Len(sc) : HasFirst(sc[s], a)

\* savedScope is the scope that the function stands in.
Saves(sc, t) ==
  t.do = "leave" => t.saved \in 1 .. Len(sc) /\ sc[t.saved].at = EnclosingScope(t.at)

Leaves(sc, a) == \A i \in 1 .. Len(a) : Saves(sc, a[i])

CurrentIs(sc, c, a) ==
  a # <<>> => c \in 1 .. Len(sc) /\ sc[c].at = ScopeAt(a[1])

LEMMA SymbolIs ==
  ASSUME WellFormed(ast), NEW d \in Declarers
  PROVE  /\ SymbolOf(d) \in [name : Name, kind : {"function", "variable"},
                             type : Builtins \cup {NoType}, isInitialized : BOOLEAN]
         /\ SymbolOf(d).name = ast[d].name
         /\ SymbolOf(d).kind = Declared(d).kind /\ SymbolOf(d).type = Declared(d).type
         /\ SymbolOf(d).type = NoType => ast[d].kind = "declaration" /\ ast[d].type = NoType
<1>1. ast[d].name \in Name /\ ast[d].kind \in {"function", "parameter", "declaration"}
      /\ d \in DOMAIN ast
  BY DeclarersAre
<1>2. ReturnType(d) \in Builtins /\ ReturnType(d) # NoType
  BY DEF ReturnType, Known, Builtin, Builtins, NoType
<1>3. DeclaredType(d) \in Builtins \cup {NoType}
      /\ (DeclaredType(d) = NoType => ast[d].type = NoType)
  BY DEF DeclaredType, Known, Builtin, Builtins, NoType
<1>4. ast[d].kind = "parameter" => ast[d].type # NoType
  BY <1>1 DEF WellFormed
<1>5. CASE ast[d].kind = "function"
  <2>1. SymbolOf(d) = [name |-> ast[d].name, kind |-> "function", type |-> ReturnType(d),
                       isInitialized |-> FALSE]
    BY <1>5 DEF SymbolOf, Symbol, Declared
  <2>2. Declared(d).kind = "function" /\ Declared(d).type = ReturnType(d)
    BY <1>5 DEF Declared
  <2> QED BY <1>1, <1>2, <2>1, <2>2
<1>6. CASE ast[d].kind # "function"
  <2>1. SymbolOf(d) = [name |-> ast[d].name, kind |-> "variable", type |-> DeclaredType(d),
                       isInitialized |-> FALSE]
    BY <1>6 DEF SymbolOf, Symbol, Declared
  <2>2. Declared(d).kind = "variable" /\ Declared(d).type = DeclaredType(d)
    BY <1>6 DEF Declared
  <2> QED BY <1>1, <1>3, <1>4, <1>6, <2>1, <2>2
<1> QED BY <1>5, <1>6

\* What was first stays first.
LEMMA FirstStays ==
  ASSUME WellFormed(ast), NEW a, NEW more, NEW b, StepTo(a, more, b),
         NEW d \in Declarers, IsFirst(d, a)
  PROVE  IsFirst(d, b)
<1>1. d \in Path /\ \A e \in Declarers : e \in Path
  BY DeclarersAre
<1>2. ~Awaited(b, d)
  BY <1>1, AwaitedAfter DEF IsFirst
<1>3. ASSUME NEW e \in Declarers, e # d, ~Awaited(b, e), SameName(d, e)
      PROVE  Precedes(d, e)
  <2>1. CASE ~Awaited(a, e)
    BY <1>3, <2>1 DEF IsFirst
  <2>2. CASE Awaited(a, e)
    <3>1. a[1].do = "visit" /\ Above(a[1].at, e) /\ e \in Path
      BY <1>1, <1>3, <2>2, AwaitedAfter
    <3>2. a \in Seq(Tasks) /\ a # <<>> /\ InOrder(a)
      BY DEF StepTo, AgendaInv, Ordered
    <3>3. 1 \in 1 .. Len(a) /\ a[1].at \in Path
      BY <3>2, RestIs, TaskTyped
    <3>4. Precedes(d, a[1].at)
      <4>1. a[1].do \notin Ending /\ PosOf(a[1]) = a[1].at
        BY <3>1 DEF Ending, PosOf
      <4>2. ~Awaits(a, 1, d)
        BY DEF IsFirst, Awaited
      <4> QED BY <3>2, <3>3, <4>1, <4>2 DEF InOrder
    <3> QED BY <1>1, <3>1, <3>3, <3>4, PrecedesBelow
  <2> QED BY <2>1, <2>2
<1> QED BY <1>2, <1>3 DEF IsFirst

\* A scope in which nothing new is declared.
LEMMA ScopeStays ==
  ASSUME WellFormed(ast), NEW a, NEW more, NEW b, StepTo(a, more, b),
         NEW scope, HasFirst(scope, a),
         \A d \in Declarers : EnclosingScope(d) = scope.at /\ ~Awaited(b, d) => ~Awaited(a, d)
  PROVE  HasFirst(scope, b)
<1>1. ASSUME NEW y \in scope.symbols
      PROVE  \E d \in Declarers :
               IsFirst(d, b) /\ EnclosingScope(d) = scope.at /\ y = SymbolOf(d)
  <2>1. PICK d \in Declarers :
          IsFirst(d, a) /\ EnclosingScope(d) = scope.at /\ y = SymbolOf(d)
    BY DEF HasFirst
  <2>2. IsFirst(d, b)
    BY <2>1, FirstStays
  <2> QED BY <2>1, <2>2
<1>2. ASSUME NEW d \in Declarers, ~Awaited(b, d), EnclosingScope(d) = scope.at
      PROVE  \E y \in scope.symbols : y.name = ast[d].name
  BY <1>2 DEF HasFirst
<1> QED BY <1>1, <1>2 DEF HasFirst

\* SymbolScope::declare of the declarer that is visited.
LEMMA ScopeDeclares ==
  ASSUME WellFormed(ast), NEW a, NEW more, NEW b, StepTo(a, more, b),
         NEW scope \in ScopeSet, HasFirst(scope, a),
         NEW p \in Declarers, scope.at = EnclosingScope(p), ~Awaited(b, p),
         \A d \in Declarers : EnclosingScope(d) = scope.at /\ ~Awaited(b, d)
                                => ~Awaited(a, d) \/ d = p
  PROVE  /\ HasFirst(With(scope, SymbolOf(p)), b)
         /\ With(scope, SymbolOf(p)) \in ScopeSet
         /\ With(scope, SymbolOf(p)).at = scope.at
         /\ With(scope, SymbolOf(p)).parent = scope.parent
<1> DEFINE y0 == SymbolOf(p)
           new == With(scope, y0)
<1>1. /\ y0 \in [name : Name, kind : {"function", "variable"},
                 type : Builtins \cup {NoType}, isInitialized : BOOLEAN]
      /\ y0.name = ast[p].name
  BY SymbolIs
<1> HIDE DEF y0
<1>2. ASSUME NEW y \in scope.symbols
      PROVE  \E d \in Declarers :
               IsFirst(d, b) /\ EnclosingScope(d) = scope.at /\ y = SymbolOf(d)
  <2>1. PICK d \in Declarers :
          IsFirst(d, a) /\ EnclosingScope(d) = scope.at /\ y = SymbolOf(d)
    BY DEF HasFirst
  <2>2. IsFirst(d, b)
    BY <2>1, FirstStays
  <2> QED BY <2>1, <2>2
<1>3. ASSUME NEW d \in Declarers, ~Awaited(b, d), EnclosingScope(d) = scope.at, d # p
      PROVE  \E y \in scope.symbols : y.name = ast[d].name
  BY <1>3 DEF HasFirst
<1>4. CASE \E other \in scope.symbols : other.name = y0.name
  <2>1. new = scope
    BY <1>4 DEF With
  <2>2. ASSUME NEW d \in Declarers, ~Awaited(b, d), EnclosingScope(d) = scope.at
        PROVE  \E y \in scope.symbols : y.name = ast[d].name
    BY <1>1, <1>3, <1>4, <2>2
  <2>3. HasFirst(scope, b)
    BY <1>2, <2>2 DEF HasFirst
  <2> QED BY <2>1, <2>3 DEF y0
<1>5. CASE ~ \E other \in scope.symbols : other.name = y0.name
  <2>1. new = [scope EXCEPT !.symbols = @ \cup {y0}]
    BY <1>5 DEF With
  <2>2. /\ new \in ScopeSet /\ new.at = scope.at /\ new.parent = scope.parent
        /\ new.symbols = scope.symbols \cup {y0}
    BY <1>1, <2>1 DEF ScopeSet
  <2>3. IsFirst(p, b)
    <3> SUFFICES ASSUME NEW e \in Declarers, e # p, ~Awaited(b, e), SameName(p, e)
        PROVE  FALSE
      BY DEF IsFirst
    <3>1. EnclosingScope(e) = scope.at /\ ast[e].name = y0.name
      BY <1>1 DEF SameName
    <3> QED BY <1>3, <1>5, <3>1
  <2> HIDE DEF new
  <2>4. ASSUME NEW y \in new.symbols
        PROVE  \E d \in Declarers :
                 IsFirst(d, b) /\ EnclosingScope(d) = new.at /\ y = SymbolOf(d)
    BY <1>2, <2>2, <2>3 DEF y0
  <2>5. ASSUME NEW d \in Declarers, ~Awaited(b, d), EnclosingScope(d) = new.at
        PROVE  \E y \in new.symbols : y.name = ast[d].name
    BY <1>1, <1>3, <2>2, <2>5
  <2>6. HasFirst(new, b)
    BY <2>4, <2>5 DEF HasFirst
  <2> QED BY <2>2, <2>6 DEF new, y0
<1> QED BY <1>4, <1>5

-----------------------------------------------------------------------------
(* What each kind of node is replaced by when it is visited *)

AllSlots(p) == Slots(p, 1, ast[p].arity)

\* All that stands below p is still to be visited, and p is not; the scope is
\* that of the children of p, and each task is about p or what is below it.
Keeps(more, p) ==
  /\ ~Awaited(more, p)
  /\ \A k \in 1 .. Len(more) : more[k].do # "leave" /\ ScopeAt(more[k]) = ScopeBelow(p)
  /\ \A k \in 1 .. Len(more) : Above(p, more[k].at)
  /\ \A x \in DOMAIN ast : Above(p, x) /\ x # p => Awaited(more, x)

LEMMA AllCovers ==
  ASSUME WellFormed(ast), NEW p \in DOMAIN ast, ast[p].kind # "function"
  PROVE  /\ Covers(AllSlots(p), p)
         /\ \A x \in DOMAIN ast : Above(p, x) /\ x # p => x[Len(p) + 1] \in AllSlots(p)
<1>1. p \in Path /\ ast[p].arity \in Nat
  BY NodesArePaths, AritiesAre
<1>2. \A x \in DOMAIN ast : Above(p, x) /\ x # p => x[Len(p) + 1] \in AllSlots(p)
  BY BelowNode DEF AllSlots, Slots
<1>3. AllSlots(p) \in SUBSET Nat
  BY <1>1 DEF AllSlots, Slots
<1>4. ASSUME NEW i \in AllSlots(p)
      PROVE  Append(p, i) \in DOMAIN ast /\ ast[Append(p, i)].kind # "parameter"
  <2>1. i \in Nat /\ Append(p, i) \in DOMAIN ast
    BY <1>1 DEF AllSlots, Slots
  <2>2. ast[Append(p, i)].kind \in KindsAt(ast[p], i)
    BY <1>1, <2>1, ChildNode
  <2> QED BY <2>1, <2>2, ChildKinds
<1>5. Declarers \subseteq DOMAIN ast
  BY DEF Declarers
<1> QED BY <1>2, <1>3, <1>4, <1>5 DEF Covers

LEMMA BodyCovers ==
  ASSUME WellFormed(ast), NEW f \in DOMAIN ast, ast[f].kind = "function"
  PROVE  LET body == ast[f].arity IN
         /\ Covers(Slots(f, body, body), f) /\ Slots(f, body, body) = {body}
         /\ body \in Nat \ {0} /\ Append(f, body) \in DOMAIN ast
         /\ ast[Append(f, body)].kind = "block"
<1> DEFINE n == ast[f].arity
           S == Slots(f, n, n)
<1>1. f \in Path /\ n \in Nat \ {0}
  BY NodesArePaths, AritiesAre
<1>2. Append(f, n) \in DOMAIN ast
  <2>1. n \in 1 .. n
    BY <1>1
  <2> QED BY <2>1 DEF WellFormed, Full
<1>3. ast[Append(f, n)].kind = "block"
  <2>1. ast[Append(f, n)].kind \in KindsAt(ast[f], n)
    BY <1>1, <1>2, ChildNode
  <2>2. ~(n < ast[f].arity)
    BY <1>1
  <2> QED BY <2>1, <2>2, ChildKinds
<1>4. S = {n}
  BY <1>1, <1>2 DEF Slots
<1>5. ASSUME NEW d \in Declarers, Above(f, d), d # f
      PROVE  d[Len(f) + 1] \in {n} \/ \A i \in {n} : d[Len(f) + 1] < i
  <2>1. d[Len(f) + 1] \in 1 .. n
    BY <1>5, DeclarersAre, BelowNode
  <2> QED BY <1>1, <2>1
<1>6. Covers({n}, f)
  BY <1>1, <1>2, <1>3, <1>5 DEF Covers
<1> QED BY <1>1, <1>2, <1>3, <1>4, <1>6

LEMMA AllReplace ==
  ASSUME WellFormed(ast), NEW t \in Tasks, Fits(t), t.do = "visit",
         ast[t.at].kind # "function", NEW list, Lists(list, t.at, AllSlots(t.at)),
         NEW last, Closes(last, t.at)
  PROVE  Replaces(list \o last, t) /\ Keeps(list \o last, t.at)
<1> DEFINE p == t.at
<1>1. p \in DOMAIN ast /\ p \in Path /\ DOMAIN ast \subseteq Path
  BY NodesArePaths DEF Fits
<1>2. /\ Covers(AllSlots(p), p)
      /\ \A x \in DOMAIN ast : Above(p, x) /\ x # p => x[Len(p) + 1] \in AllSlots(p)
  BY <1>1, AllCovers
<1>3. Replaces(list \o last, t)
  BY <1>2, ListReplaces
<1>4. ASSUME NEW x \in DOMAIN ast, Above(p, x), x # p
      PROVE  Awaited(list \o last, x)
  BY <1>1, <1>2, <1>4, ListAwaits DEF Closes
<1>5. ~Awaited(list \o last, p)
  BY <1>1, <1>2, ListAwaits DEF Closes
<1>6. ASSUME NEW k \in 1 .. Len(list \o last)
      PROVE  (list \o last)[k].do # "leave" /\ ScopeAt((list \o last)[k]) = ScopeBelow(p)
             /\ Above(p, (list \o last)[k].at)
  <2> DEFINE more == list \o last
  <2>1. \/ k \in 1 .. Len(list) /\ more[k] = list[k]
        \/ last = <<more[k]>>
    BY <1>1, <1>2, ListAndLast DEF Closes
  <2> HIDE DEF more
  <2>2. ASSUME k \in 1 .. Len(list), more[k] = list[k]
        PROVE  more[k].do # "leave" /\ ScopeAt(more[k]) = ScopeBelow(p) /\ Above(p, more[k].at)
    <3>1. About(list[k], p, AllSlots(p)) /\ list[k] \in Tasks
      BY <1>1, <2>2, ListAndLast DEF Lists, Closes
    <3>2. ScopeAt(list[k]) = ScopeBelow(p) /\ Above(p, list[k].at)
      BY <1>1, <1>2, <3>1, AboutChild
    <3> QED BY <2>2, <3>1, <3>2 DEF About
  <2>3. ASSUME last = <<more[k]>>
        PROVE  more[k].do # "leave" /\ ScopeAt(more[k]) = ScopeBelow(p) /\ Above(p, more[k].at)
    <3> DEFINE u == more[k]
    <3>1. Ends(<<u>>, p) /\ p \in Path /\ Above(p, p)
      BY <1>1, <2>3, AboveOrder, NodesArePaths DEF Closes
    <3> HIDE DEF u, p
    <3>2. /\ u.at = p /\ Fits(u) /\ u.do # "visit" /\ ScopeAt(u) = ScopeBelow(p)
      BY <1>1, <3>1, LastIs
    <3>3. u.do # "leave"
      BY <1>1, <3>2 DEF Fits, p
    <3> QED BY <3>1, <3>2, <3>3 DEF u
  <2>4. more[k].do # "leave" /\ ScopeAt(more[k]) = ScopeBelow(p) /\ Above(p, more[k].at)
    BY <2>1, <2>2, <2>3
  <2> QED BY <2>4 DEF more
<1> QED BY <1>3, <1>4, <1>5, <1>6 DEF Keeps

LEMMA ConcatNone ==
  ASSUME NEW list \in Seq(Tasks)
  PROVE  list \o <<>> = list
BY ConcatEmptySeq

\* A node without a scope and without a task of its own behind its children.
LEMMA ChildrenReplace ==
  ASSUME WellFormed(ast), NEW t \in Tasks, Fits(t), t.do = "visit",
         HasScope(t.at) => t.at = <<>>, ast[t.at].kind # "function",
         NEW list, Lists(list, t.at, AllSlots(t.at))
  PROVE  Replaces(list, t) /\ Keeps(list, t.at)
<1>1. Closes(<<>>, t.at)
  BY DEF Closes, Ends
<1>2. list \o <<>> = list
  BY ConcatNone DEF Lists
<1> QED BY <1>1, <1>2, AllReplace

LEMMA VisitedNode ==
  ASSUME WellFormed(ast), NEW t \in Tasks, Fits(t)
  PROVE  /\ t.at \in DOMAIN ast /\ t.at \in Path
         /\ ast[t.at].arity \in Nat /\ ast[t.at].arity \in Arities(ast[t.at].kind)
         /\ t.at = <<>> <=> ast[t.at].kind = "program"
BY NodesArePaths, AritiesAre, TopLevel DEF Fits

LEMMA FirstSlots ==
  ASSUME NEW p \in Path, NEW n \in Nat
  PROVE  Lists(Visits(p, 1, n), p, Slots(p, 1, n))
<1>1. 1 \in Nat \ {0} /\ 1 - 1 <= n
  OBVIOUS
<1> QED BY <1>1, VisitsAre

LEMMA ProgramReplaces ==
  ASSUME WellFormed(ast), NEW t \in Tasks, Fits(t), t.do = "visit",
         ast[t.at].kind = "program"
  PROVE  LET more == Visits(t.at, 1, ast[t.at].arity) IN Replaces(more, t) /\ Keeps(more, t.at)
BY VisitedNode, FirstSlots, ChildrenReplace DEF AllSlots

LEMMA CallReplaces ==
  ASSUME WellFormed(ast), NEW t \in Tasks, Fits(t), t.do = "visit",
         ast[t.at].kind = "call"
  PROVE  LET more == Visits(t.at, 1, ast[t.at].arity) IN Replaces(more, t) /\ Keeps(more, t.at)
BY VisitedNode, FirstSlots, ChildrenReplace DEF AllSlots, HasScope, ScopeKinds

LEMMA OperandReplaces ==
  ASSUME WellFormed(ast), NEW t \in Tasks, Fits(t), t.do = "visit",
         ast[t.at].kind \in {"expression", "unary"}
  PROVE  LET more == Visits(t.at, 1, 1) IN Replaces(more, t) /\ Keeps(more, t.at)
<1>1. ast[t.at].arity = 1
  BY VisitedNode DEF Arities
<1> QED BY <1>1, VisitedNode, FirstSlots, ChildrenReplace DEF AllSlots, HasScope, ScopeKinds

LEMMA LeafReplaces ==
  ASSUME WellFormed(ast), NEW t \in Tasks, Fits(t), t.do = "visit",
         ast[t.at].kind \in {"literal", "identifier"}
  PROVE  Replaces(<<>>, t) /\ Keeps(<<>>, t.at)
<1>1. ast[t.at].arity = 0
  BY VisitedNode DEF Arities
<1>2. AllSlots(t.at) = {}
  BY <1>1 DEF AllSlots, Slots
<1>3. Lists(<<>>, t.at, AllSlots(t.at))
  BY <1>2, VisitedNode, ListsNone
<1> QED BY <1>3, ChildrenReplace DEF HasScope, ScopeKinds

LEMMA BinaryReplaces ==
  ASSUME WellFormed(ast), NEW t \in Tasks, Fits(t), t.do = "visit",
         ast[t.at].kind = "binary"
  PROVE  LET more == Visits(t.at, 1, 2) \o <<Task("operands", t.at)>> IN
         Replaces(more, t) /\ Keeps(more, t.at)
<1> DEFINE u == Task("operands", t.at)
<1>1. ast[t.at].arity = 2 /\ t.at \in DOMAIN ast /\ t.at \in Path /\ t.at # <<>>
  BY VisitedNode DEF Arities
<1>2. Lists(Visits(t.at, 1, 2), t.at, AllSlots(t.at))
  BY <1>1, FirstSlots DEF AllSlots
<1>3. u \in Tasks /\ u.do = "operands" /\ u.at = t.at
  BY <1>1, TaskIs DEF Doings
<1> HIDE DEF u
<1>4. Fits(u)
  BY <1>1, <1>3 DEF Fits
<1>5. Closes(<<u>>, t.at)
  BY <1>1, <1>3, <1>4 DEF Closes, Ends, HasScope, ScopeKinds
<1>6. Replaces(Visits(t.at, 1, 2) \o <<u>>, t) /\ Keeps(Visits(t.at, 1, 2) \o <<u>>, t.at)
  BY <1>2, <1>5, AllReplace
<1> QED BY <1>6 DEF u

LEMMA ReturnReplaces ==
  ASSUME WellFormed(ast), NEW t \in Tasks, Fits(t), t.do = "visit",
         ast[t.at].kind = "return"
  PROVE  LET value == Visits(t.at, 1, 1)
             more  == value \o (IF value = <<>> THEN <<>> ELSE <<Task("value", t.at)>>)
         IN Replaces(more, t) /\ Keeps(more, t.at)
<1> DEFINE p == t.at
           u == Task("value", p)
           value == Visits(p, 1, 1)
           last == IF value = <<>> THEN <<>> ELSE <<u>>
<1>1. ast[p].arity = 1 /\ p \in DOMAIN ast /\ p \in Path /\ p # <<>> /\ ~HasScope(p)
  BY VisitedNode DEF Arities, HasScope, ScopeKinds
<1>2. Lists(value, p, AllSlots(p))
  BY <1>1, FirstSlots DEF AllSlots
<1>3. u \in Tasks /\ u.do = "value" /\ u.at = p
  BY <1>1, TaskIs DEF Doings
<1> HIDE DEF u
<1>4. Closes(last, p)
  <2>1. CASE value = <<>>
    BY <1>1, <2>1 DEF Closes, Ends
  <2>2. CASE value # <<>>
    <3>1. Append(p, 1) \in DOMAIN ast
      BY <1>1, <2>2, OneVisit
    <3>2. Fits(u)
      BY <1>1, <1>3, <3>1 DEF Fits
    <3>3. Closes(<<u>>, p)
      BY <1>1, <1>3, <3>2 DEF Closes, Ends
    <3> QED BY <2>2, <3>3
  <2> QED BY <2>1, <2>2
<1> HIDE DEF last, value
<1>5. Replaces(value \o last, t) /\ Keeps(value \o last, p)
  BY <1>2, <1>4, AllReplace
<1> QED BY <1>5 DEF value, last, u

LEMMA BlockReplaces ==
  ASSUME WellFormed(ast), NEW t \in Tasks, Fits(t), t.do = "visit",
         ast[t.at].kind = "block"
  PROVE  LET more == Visits(t.at, 1, ast[t.at].arity) \o <<Task("pop", t.at)>> IN
         Replaces(more, t) /\ Keeps(more, t.at)
<1> DEFINE u == Task("pop", t.at)
           value == Visits(t.at, 1, ast[t.at].arity)
<1>1. ast[t.at].arity \in Nat /\ t.at \in DOMAIN ast /\ t.at \in Path /\ t.at # <<>>
  BY VisitedNode
<1>2. Lists(value, t.at, AllSlots(t.at))
  BY <1>1, FirstSlots DEF AllSlots
<1>3. u \in Tasks /\ u.do = "pop" /\ u.at = t.at
  BY <1>1, TaskIs DEF Doings
<1> HIDE DEF u, value
<1>4. Fits(u)
  BY <1>1, <1>3 DEF Fits
<1>5. Closes(<<u>>, t.at)
  BY <1>1, <1>3, <1>4 DEF Closes, Ends, HasScope, ScopeKinds, Ending
<1>6. Replaces(value \o <<u>>, t) /\ Keeps(value \o <<u>>, t.at)
  BY <1>2, <1>5, AllReplace
<1> QED BY <1>6 DEF u, value

\* The slots from .. to are those up to middle and those behind it.
LEMMA SlotsSplit ==
  ASSUME NEW p, NEW from \in Nat, NEW middle \in Nat, NEW to \in Nat,
         from <= middle + 1, middle <= to
  PROVE  /\ Slots(p, from, middle) \cup Slots(p, middle + 1, to) = Slots(p, from, to)
         /\ \A i \in Slots(p, from, middle), j \in Slots(p, middle + 1, to) : i < j
         /\ Slots(p, from, middle) \in SUBSET Nat
         /\ Slots(p, middle + 1, to) \in SUBSET Nat
BY DEF Slots

LEMMA ConditionAt ==
  ASSUME WellFormed(ast), NEW p \in DOMAIN ast, NEW slot \in {1, 2},
         \/ ast[p].kind \in {"if", "while"} /\ slot = 1
         \/ ast[p].kind = "for" /\ slot = 2
  PROVE  Lists(Condition(p, slot), p, Slots(p, slot, slot))
<1>1. p \in Path /\ slot \in Nat \ {0} /\ slot \in Nat
  BY NodesArePaths
<1>2. ASSUME Append(p, slot) \in DOMAIN ast
      PROVE  ast[Append(p, slot)].kind \in ExpressionKinds
  BY <1>1, <1>2, ChildNode, ChildKinds
<1> QED BY <1>1, <1>2, ConditionIs

LEMMA IfReplaces ==
  ASSUME WellFormed(ast), NEW t \in Tasks, Fits(t), t.do = "visit",
         ast[t.at].kind \in {"if", "while"}
  PROVE  LET more == Condition(t.at, 1) \o Visits(t.at, 2, ast[t.at].arity) IN
         Replaces(more, t) /\ Keeps(more, t.at)
<1> DEFINE p == t.at
           n == ast[p].arity
<1>1. n \in {2, 3} /\ p \in DOMAIN ast /\ p \in Path
  BY VisitedNode DEF Arities
<1> HIDE DEF n
<1>2. Lists(Condition(p, 1), p, Slots(p, 1, 1))
  BY <1>1, ConditionAt
<1>3. Lists(Visits(p, 2, n), p, Slots(p, 2, n))
  <2>1. 2 \in Nat \ {0} /\ n \in Nat /\ 2 - 1 <= n
    BY <1>1
  <2> QED BY <1>1, <2>1, VisitsAre
<1>4. /\ Slots(p, 1, 1) \cup Slots(p, 2, n) = Slots(p, 1, n)
      /\ \A i \in Slots(p, 1, 1), j \in Slots(p, 2, n) : i < j
      /\ Slots(p, 1, 1) \in SUBSET Nat /\ Slots(p, 2, n) \in SUBSET Nat
  BY <1>1 DEF Slots
<1>5. Lists(Condition(p, 1) \o Visits(p, 2, n), p, Slots(p, 1, n))
  <2>1. Lists(Condition(p, 1) \o Visits(p, 2, n), p, Slots(p, 1, 1) \cup Slots(p, 2, n))
    <3> HIDE DEF p
    <3> QED BY <1>1, <1>2, <1>3, <1>4, ListsJoin
  <2> QED BY <1>4, <2>1
<1> QED BY <1>5, ChildrenReplace DEF AllSlots, HasScope, ScopeKinds, n

LEMMA ForReplaces ==
  ASSUME WellFormed(ast), NEW t \in Tasks, Fits(t), t.do = "visit",
         ast[t.at].kind = "for"
  PROVE  LET more == Visits(t.at, 1, 1) \o Condition(t.at, 2)
                       \o Visits(t.at, 3, 4) \o <<Task("pop", t.at)>>
         IN Replaces(more, t) /\ Keeps(more, t.at)
<1> DEFINE p == t.at
           u == Task("pop", p)
           A == Visits(p, 1, 1)
           B == Condition(p, 2)
           C == Visits(p, 3, 4)
<1>1. ast[p].arity = 4 /\ p \in DOMAIN ast /\ p \in Path /\ p # <<>>
  BY VisitedNode DEF Arities
<1>2. Lists(A, p, Slots(p, 1, 1))
  BY <1>1, FirstSlots
<1>3. Lists(B, p, Slots(p, 2, 2))
  BY <1>1, ConditionAt
<1>4. Lists(C, p, Slots(p, 3, 4))
  <2>1. 3 \in Nat \ {0} /\ 4 \in Nat /\ 3 - 1 <= 4
    OBVIOUS
  <2> QED BY <1>1, <2>1, VisitsAre
<1>5. u \in Tasks /\ u.do = "pop" /\ u.at = p
  BY <1>1, TaskIs DEF Doings
<1> HIDE DEF u, A, B, C
<1>6. Fits(u)
  BY <1>1, <1>5 DEF Fits
<1>7. Closes(<<u>>, p)
  BY <1>1, <1>5, <1>6 DEF Closes, Ends, HasScope, ScopeKinds, Ending
<1>8. Lists(A \o B, p, Slots(p, 1, 2))
  <2>1. /\ Slots(p, 1, 1) \cup Slots(p, 2, 2) = Slots(p, 1, 2)
        /\ \A i \in Slots(p, 1, 1), j \in Slots(p, 2, 2) : i < j
        /\ Slots(p, 1, 1) \in SUBSET Nat /\ Slots(p, 2, 2) \in SUBSET Nat
    BY DEF Slots
  <2>2. Lists(A \o B, p, Slots(p, 1, 1) \cup Slots(p, 2, 2))
    <3> HIDE DEF p
    <3> QED BY <1>1, <1>2, <1>3, <2>1, ListsJoin
  <2> QED BY <2>1, <2>2
<1>9. Lists((A \o B) \o C, p, Slots(p, 1, 4))
  <2>1. /\ Slots(p, 1, 2) \cup Slots(p, 3, 4) = Slots(p, 1, 4)
        /\ \A i \in Slots(p, 1, 2), j \in Slots(p, 3, 4) : i < j
        /\ Slots(p, 1, 2) \in SUBSET Nat /\ Slots(p, 3, 4) \in SUBSET Nat
    BY DEF Slots
  <2>2. Lists((A \o B) \o C, p, Slots(p, 1, 2) \cup Slots(p, 3, 4))
    <3> HIDE DEF p
    <3> QED BY <1>1, <1>4, <1>8, <2>1, ListsJoin
  <2> QED BY <2>1, <2>2
<1>10. Lists((A \o B) \o C, p, AllSlots(p))
  BY <1>1, <1>9 DEF AllSlots
<1>11. Replaces(((A \o B) \o C) \o <<u>>, t) /\ Keeps(((A \o B) \o C) \o <<u>>, p)
  BY <1>7, <1>10, AllReplace
<1> QED BY <1>11 DEF u, A, B, C

\* The body of a function is visited, and then the function is left.
LEMMA FunctionReplaces ==
  ASSUME WellFormed(ast), NEW t \in Tasks, Fits(t), t.do = "visit",
         ast[t.at].kind = "function", NEW c \in Nat
  PROVE  LET f    == t.at
             body == ast[f].arity
             leave == [do |-> "leave", at |-> f, saved |-> c]
             more == Visits(f, body, body) \o <<leave>>
         IN /\ Replaces(more, t)
            /\ \A x \in Path : Awaited(more, x) <=> Above(Append(f, body), x)
            /\ more = <<Task("visit", Append(f, body)), leave>> /\ ~Awaited(more, f)
            /\ leave \in Tasks
<1> DEFINE f == t.at
           n == ast[f].arity
           u == [do |-> "leave", at |-> f, saved |-> c]
           list == Visits(f, n, n)
<1>1. f \in DOMAIN ast /\ f \in Path /\ f # <<>>
  BY VisitedNode
<1>2. /\ Covers(Slots(f, n, n), f) /\ Slots(f, n, n) = {n}
      /\ n \in Nat \ {0} /\ Append(f, n) \in DOMAIN ast
  BY <1>1, BodyCovers
<1>3. u \in Tasks /\ u.do = "leave" /\ u.at = f
  BY <1>1 DEF Tasks, Doings
<1>4. list = <<Task("visit", Append(f, n))>>
  BY <1>1, <1>2, OneVisit
<1>5. Lists(list, f, Slots(f, n, n))
  <2>1. n \in Nat \ {0} /\ n \in Nat /\ n - 1 <= n
    BY <1>2
  <2> HIDE DEF n
  <2> QED BY <1>1, <2>1, VisitsAre
<1> HIDE DEF u
<1>6. Fits(u)
  BY <1>1, <1>3 DEF Fits
<1>7. Closes(<<u>>, f)
  BY <1>1, <1>3, <1>6 DEF Closes, Ends, HasScope, ScopeKinds, Ending
<1> HIDE DEF list
<1>8. Replaces(list \o <<u>>, t)
  BY <1>2, <1>5, <1>7, ListReplaces
<1>9. ASSUME NEW x \in Path
      PROVE  Awaited(list \o <<u>>, x) <=> Above(Append(f, n), x)
  <2> HIDE DEF n, f
  <2>1. Awaited(list \o <<u>>, x) <=> Above(f, x) /\ x # f /\ x[Len(f) + 1] \in {n}
    BY <1>1, <1>2, <1>5, <1>7, ListAwaits DEF Closes
  <2>2. Above(Append(f, n), x) <=> Above(f, x) /\ x # f /\ x[Len(f) + 1] = n
    BY <1>1, <1>2, ChildAbove
  <2> QED BY <2>1, <2>2
<1>10. list \o <<u>> = <<Task("visit", Append(f, n)), u>>
  <2> DEFINE v == Task("visit", Append(f, n))
  <2>1. v \in Tasks
    BY <1>1, <1>2, ChildIs, TaskIs DEF Doings
  <2> HIDE DEF v
  <2>2. <<v>> \in Seq(Tasks) /\ <<u>> \in Seq(Tasks)
    BY <1>3, <2>1
  <2>3. /\ Len(<<v>> \o <<u>>) = 2 /\ (<<v>> \o <<u>>)[1] = v /\ (<<v>> \o <<u>>)[2] = u
        /\ <<v>> \o <<u>> \in Seq(Tasks)
    BY <2>2, ConcatProperties
  <2>4. <<v>> \o <<u>> = <<v, u>>
    <3> DEFINE s == <<v>> \o <<u>>
               r == <<v, u>>
    <3>1. s \in Seq(Tasks) /\ Len(s) = 2 /\ s[1] = v /\ s[2] = u
      BY <2>3
    <3>2. r \in Seq(Tasks) /\ Len(r) = 2 /\ r[1] = v /\ r[2] = u
      BY <1>3, <2>1
    <3> HIDE DEF s, r
    <3>3. \A i \in 1 .. Len(s) : s[i] = r[i]
      BY <3>1, <3>2
    <3>4. s = r
      BY <3>1, <3>2, <3>3, SeqEqual
    <3> QED BY <3>4 DEF s, r
  <2> QED BY <1>4, <2>4 DEF v
<1>11. ~Awaited(list \o <<u>>, f)
  <2>1. ~Above(Append(f, n), f)
    BY <1>1, <1>2, ChildAbove
  <2> QED BY <1>1, <1>9, <2>1
<1> QED BY <1>3, <1>8, <1>9, <1>10, <1>11 DEF u, list

-----------------------------------------------------------------------------
(* What a step does to the scopes *)

LEMMA AtSequences ==
  ASSUME NEW sc \in Seq(ScopeSet), NEW s \in 1 .. Len(sc)
  PROVE  /\ sc[s] \in ScopeSet /\ sc[s].at \in Path /\ sc[s].parent \in Nat
         /\ Len(sc) \in Nat
<1>1. sc[s] \in ScopeSet
  BY ElementOfSeq
<1> QED BY <1>1 DEF ScopeSet

\* No declarer has been visited in the step.
LEMMA ScopesSame ==
  ASSUME WellFormed(ast), NEW a, NEW more, NEW b, StepTo(a, more, b),
         NEW sc, ScopesInv(sc, a),
         \A d \in Declarers : ~Awaited(b, d) => ~Awaited(a, d)
  PROVE  ScopesInv(sc, b)
<1>1. sc \in Seq(ScopeSet) /\ FollowsTree(sc) /\ OneForEach(sc, a)
  BY DEF ScopesInv
<1>2. OneForEach(sc, b)
  <2>1. \A s \in 1 .. Len(sc) : Awaited(b, sc[s].at) => Awaited(a, sc[s].at)
    BY <1>1, AtSequences, AwaitedAfter
  <2> QED BY <1>1, <2>1 DEF OneForEach
<1>3. ASSUME NEW s \in 1 .. Len(sc)
      PROVE  HasFirst(sc[s], b)
  <2>1. HasFirst(sc[s], a)
    BY DEF ScopesInv
  <2> QED BY <2>1, ScopeStays
<1> QED BY <1>1, <1>2, <1>3 DEF ScopesInv

\* One declarer p, or p and what stands in a scope that p is given next.
LEMMA ScopesDeclare ==
  ASSUME WellFormed(ast), NEW a, NEW more, NEW b, StepTo(a, more, b),
         NEW sc, ScopesInv(sc, a), NEW c \in 1 .. Len(sc),
         NEW p \in Declarers, Awaited(a, p), ~Awaited(b, p), sc[c].at = EnclosingScope(p),
         \A d \in Declarers : ~Awaited(b, d) => ~Awaited(a, d) \/ d = p \/ EnclosingScope(d) = p
  PROVE  LET sd == [sc EXCEPT ![c] = With(@, SymbolOf(p))] IN
         /\ ScopesInv(sd, b) /\ Len(sd) = Len(sc)
         /\ \A s \in 1 .. Len(sc) : sd[s].at = sc[s].at /\ sc[s].at # p
<1> DEFINE new == With(sc[c], SymbolOf(p))
           sd == [sc EXCEPT ![c] = new]
<1>1. sc \in Seq(ScopeSet) /\ FollowsTree(sc) /\ OneForEach(sc, a)
  BY DEF ScopesInv
<1>2. p # <<>>
  BY DeclarersAre
<1>3. \A s \in 1 .. Len(sc) : sc[s].at # p
  BY <1>1, <1>2 DEF OneForEach
<1>4. \A d \in Declarers, s \in 1 .. Len(sc) :
        EnclosingScope(d) = sc[s].at /\ ~Awaited(b, d) => ~Awaited(a, d) \/ d = p
  BY <1>3
<1>5. sc[c] \in ScopeSet /\ HasFirst(sc[c], a)
  BY <1>1, AtSequences DEF ScopesInv
<1>6. /\ HasFirst(new, b) /\ new \in ScopeSet
      /\ new.at = sc[c].at /\ new.parent = sc[c].parent
  BY <1>4, <1>5, ScopeDeclares
<1>7. ASSUME NEW s \in 1 .. Len(sc), s # c
      PROVE  HasFirst(sc[s], b)
  <2>1. HasFirst(sc[s], a)
    BY DEF ScopesInv
  <2>2. \A d \in Declarers : EnclosingScope(d) = sc[s].at /\ ~Awaited(b, d) => ~Awaited(a, d)
    BY <1>1, <1>4, <1>7 DEF OneForEach
  <2> QED BY <2>1, <2>2, ScopeStays
<1> HIDE DEF new
<1>8. /\ sd \in Seq(ScopeSet) /\ Len(sd) = Len(sc) /\ sd[c] = new
      /\ \A s \in 1 .. Len(sc) : s # c => sd[s] = sc[s]
  BY <1>1, <1>6, ExceptSeq
<1> HIDE DEF sd
<1>9. \A s \in 1 .. Len(sc) : sd[s].at = sc[s].at /\ sd[s].parent = sc[s].parent
  BY <1>6, <1>8
<1>10. FollowsTree(sd)
  <2>1. \A s \in 1 .. Len(sc) : sc[s].parent \in 1 .. s - 1 => sc[s].parent \in 1 .. Len(sc)
    BY <1>1, LenProperties
  <2> QED BY <1>1, <1>8, <1>9, <2>1 DEF FollowsTree
<1>11. OneForEach(sd, b)
  <2>1. \A s \in 1 .. Len(sc) : Awaited(b, sc[s].at) => Awaited(a, sc[s].at)
    BY <1>1, AtSequences, AwaitedAfter
  <2> QED BY <1>1, <1>8, <1>9, <2>1 DEF OneForEach
<1>12. \A s \in 1 .. Len(sd) : HasFirst(sd[s], b)
  BY <1>6, <1>7, <1>8
<1>13. ScopesInv(sd, b)
  BY <1>8, <1>10, <1>11, <1>12 DEF ScopesInv
<1> QED BY <1>3, <1>8, <1>9, <1>13 DEF sd, new

\* A new scope below another one.
LEMMA ScopesPush ==
  ASSUME WellFormed(ast), NEW b, NEW sc, ScopesInv(sc, b), NEW new \in ScopeSet,
         new.at \in DOMAIN ast, HasScope(new.at), new.at # <<>>,
         new.parent \in 1 .. Len(sc), sc[new.parent].at = EnclosingScope(new.at),
         \A s \in 1 .. Len(sc) : sc[s].at # new.at,
         ~Awaited(b, new.at), HasFirst(new, b)
  PROVE  LET sd == Append(sc, new) IN
         /\ ScopesInv(sd, b) /\ Len(sd) = Len(sc) + 1 /\ sd[Len(sc) + 1] = new
         /\ \A s \in 1 .. Len(sc) : sd[s] = sc[s]
<1> DEFINE sd == Append(sc, new)
           n  == Len(sc)
<1>1. sc \in Seq(ScopeSet) /\ FollowsTree(sc) /\ OneForEach(sc, b) /\ n \in Nat
  BY LenProperties DEF ScopesInv
<1>2. /\ sd \in Seq(ScopeSet) /\ Len(sd) = n + 1 /\ sd[n + 1] = new
      /\ \A s \in 1 .. n : sd[s] = sc[s]
  BY <1>1, AppendProperties
<1> HIDE DEF sd
<1>3. \A s \in 1 .. n + 1 : s \in 1 .. n \/ s = n + 1
  BY <1>1
<1>4. FollowsTree(sd)
  <2> SUFFICES ASSUME NEW s \in 1 .. n + 1
      PROVE  /\ sd[s].at \in DOMAIN ast /\ HasScope(sd[s].at)
             /\ sd[s].at = <<>> => sd[s].parent = 0
             /\ sd[s].at # <<>> => /\ sd[s].parent \in 1 .. s - 1
                                   /\ sd[sd[s].parent].at = EnclosingScope(sd[s].at)
    BY <1>2 DEF FollowsTree
  <2>1. CASE s \in 1 .. n
    <3>1. sd[s] = sc[s]
      BY <1>2, <2>1
    <3>2. sc[s].parent \in 1 .. s - 1 => sd[sc[s].parent] = sc[sc[s].parent]
      <4> HIDE DEF n
      <4> QED BY <1>1, <1>2, <2>1
    <3> QED BY <1>1, <2>1, <3>1, <3>2 DEF FollowsTree
  <2>2. CASE s = n + 1
    <3>1. sd[s] = new /\ sd[new.parent] = sc[new.parent]
      BY <1>2, <2>2
    <3>2. new.parent \in 1 .. s - 1
      BY <1>1, <2>2
    <3> QED BY <3>1, <3>2
  <2> QED BY <1>3, <2>1, <2>2
<1>5. OneForEach(sd, b)
  <2>1. ASSUME NEW s \in 1 .. n + 1, NEW q \in 1 .. n + 1, sd[s].at = sd[q].at
        PROVE  s = q
    BY <1>1, <1>2, <1>3, <2>1 DEF OneForEach
  <2>2. ASSUME NEW s \in 1 .. n + 1, sd[s].at # <<>>
        PROVE  ~Awaited(b, sd[s].at)
    BY <1>1, <1>2, <1>3, <2>2 DEF OneForEach
  <2> QED BY <1>2, <2>1, <2>2 DEF OneForEach
<1>6. \A s \in 1 .. n + 1 : HasFirst(sd[s], b)
  BY <1>2, <1>3 DEF ScopesInv
<1>7. ScopesInv(sd, b)
  BY <1>2, <1>4, <1>5, <1>6 DEF ScopesInv
<1> QED BY <1>2, <1>7 DEF sd

\* Where savedScope points is not changed by a scope that is added.
LEMMA LeavesStay ==
  ASSUME WellFormed(ast), NEW a, NEW more, NEW b, StepTo(a, more, b),
         NEW sc, NEW sd, Leaves(sc, a),
         \A k \in 1 .. Len(more) : Saves(sc, more[k]),
         Len(sc) \in Nat, Len(sd) \in Nat, Len(sc) <= Len(sd),
         \A s \in 1 .. Len(sc) : sd[s].at = sc[s].at
  PROVE  Leaves(sd, b)
<1>1. a \in Seq(Tasks) /\ more \in Seq(Tasks) /\ a # <<>> /\ b = more \o Tail(a)
  BY DEF StepTo, AgendaInv, Ordered, Replaces, Unfolds
<1> DEFINE m == Len(more)
<1>2. \A i \in 1 .. Len(b) :
        \/ i \in 1 .. m /\ b[i] = more[i]
        \/ i - m + 1 \in 2 .. Len(a) /\ b[i] = a[i - m + 1]
  BY <1>1, JoinIs
<1>3. Len(a) \in Nat /\ \A i \in 2 .. Len(a) : i \in 1 .. Len(a)
  BY <1>1, LenProperties
<1>4. ASSUME NEW i \in 1 .. Len(b)
      PROVE  Saves(sc, b[i])
  BY <1>2, <1>3 DEF Leaves
<1>5. \A s \in 1 .. Len(sc) : s \in 1 .. Len(sd)
  OBVIOUS
<1> QED BY <1>4, <1>5 DEF Leaves, Saves

-----------------------------------------------------------------------------
(* What a step visits *)

LEMMA HeadIs ==
  ASSUME NEW a, AgendaInv(a), a # <<>>
  PROVE  /\ a \in Seq(Tasks) /\ a[1] \in Tasks /\ Fits(a[1]) /\ a[1].at \in Path
         /\ 1 \in 1 .. Len(a) /\ a[1].at \in DOMAIN ast /\ Head(a) = a[1]
         /\ a[1].do = "visit" => Awaited(a, a[1].at)
<1>1. a \in Seq(Tasks)
  BY DEF AgendaInv, Ordered
<1>2. a[1] \in Tasks /\ Len(a) \in Nat \ {0} /\ Head(a) = a[1]
  BY <1>1, RestIs
<1>3. 1 \in 1 .. Len(a) /\ a[1].at \in Path
  BY <1>2, TaskTyped
<1>4. Fits(a[1])
  BY <1>3 DEF AgendaInv, Ordered
<1>5. Above(a[1].at, a[1].at)
  BY <1>3, AboveOrder
<1> QED BY <1>1, <1>2, <1>3, <1>4, <1>5 DEF Awaited, Awaits, Fits

\* Of a step that keeps what is below p, only p is visited.
LEMMA OnlyHead ==
  ASSUME WellFormed(ast), NEW a, NEW more, NEW b, StepTo(a, more, b),
         a[1].do = "visit", Keeps(more, a[1].at)
  PROVE  /\ \A x \in DOMAIN ast : ~Awaited(b, x) => ~Awaited(a, x) \/ x = a[1].at
         /\ ~Awaited(b, a[1].at)
<1>1. DOMAIN ast \subseteq Path /\ a[1].at \in Path /\ a[1].at \in DOMAIN ast
  BY NodesArePaths, HeadIs DEF StepTo
<1>2. ASSUME NEW x \in DOMAIN ast, ~Awaited(b, x), Awaited(a, x), x # a[1].at
      PROVE  FALSE
  <2>1. Above(a[1].at, x)
    BY <1>1, <1>2, AwaitedAfter
  <2>2. Awaited(more, x)
    BY <1>2, <2>1 DEF Keeps
  <2> QED BY <1>1, <1>2, <2>2, AwaitedAfter
<1>3. ~Awaited(b, a[1].at)
  <2>1. Above(a[1].at, a[1].at)
    BY <1>1, AboveOrder
  <2> QED BY <1>1, <2>1, AwaitedAfter DEF Keeps
<1> QED BY <1>2, <1>3

\* When nothing but the rest is left, what is not below the head stays.
LEMMA RestAwaited ==
  ASSUME WellFormed(ast), NEW a, NEW b, StepTo(a, <<>>, b), NEW x \in Path
  PROVE  /\ a[1].do # "visit" => (Awaited(b, x) <=> Awaited(a, x))
         /\ ~Awaited(b, x) => ~Awaited(a, x) \/ Above(a[1].at, x)
BY AwaitedAfter, NoneAwaited

\* The parameters of a function, and what stands below its body.
LEMMA BelowFunction ==
  ASSUME WellFormed(ast), NEW f \in DOMAIN ast, ast[f].kind = "function",
         NEW x \in DOMAIN ast, Above(f, x), x # f, ~Above(Append(f, ast[f].arity), x)
  PROVE  /\ \E i \in 1 .. ast[f].arity - 1 : x = Append(f, i)
         /\ x \in Parameters(f) /\ ast[x].kind = "parameter" /\ EnclosingScope(x) = f
<1> DEFINE i == x[Len(f) + 1]
           n == ast[f].arity
<1>1. f \in Path /\ x \in Path /\ n \in Nat \ {0}
  BY NodesArePaths, AritiesAre
<1>2. i \in 1 .. n /\ i \in Nat /\ Append(f, i) \in DOMAIN ast /\ Above(Append(f, i), x)
  BY BelowNode
<1> HIDE DEF i
<1>3. i # n
  BY <1>2
<1>4. i < n /\ i \in 1 .. n - 1
  BY <1>1, <1>2, <1>3
<1>5. ast[Append(f, i)].kind = "parameter"
  <2>1. ast[Append(f, i)].kind \in KindsAt(ast[f], i)
    BY <1>1, <1>2, ChildNode
  <2> QED BY <1>4, <2>1, ChildKinds
<1>6. ast[Append(f, i)].arity = 0
  <2>1. ast[Append(f, i)].arity \in Arities(ast[Append(f, i)].kind)
    BY <1>2, AritiesAre
  <2> QED BY <1>5, <2>1 DEF Arities
<1>7. x = Append(f, i)
  <2> SUFFICES ASSUME x # Append(f, i) PROVE FALSE
    OBVIOUS
  <2>1. x[Len(Append(f, i)) + 1] \in 1 .. ast[Append(f, i)].arity
    BY <1>2, BelowNode
  <2> QED BY <1>6, <2>1
<1>8. EnclosingScope(Append(f, i)) = f
  BY <1>1, <1>2, EnclosingOfChild DEF HasScope, ScopeKinds
<1> QED BY <1>4, <1>5, <1>7, <1>8 DEF Parameters

\* The first parameter of each name is what the scope of a function is made with.
LEMMA ParametersFirst ==
  ASSUME WellFormed(ast), NEW a, NEW more, NEW b, StepTo(a, more, b),
         a[1].do = "visit", NEW f, f = a[1].at, ast[f].kind = "function",
         \A x \in Path : Awaited(more, x) <=> Above(Append(f, ast[f].arity), x),
         current \in Nat
  PROVE  /\ HasFirst(ParameterScope(f), b) /\ ParameterScope(f) \in ScopeSet
         /\ ParameterScope(f).at = f /\ ParameterScope(f).parent = current
<1> DEFINE n == ast[f].arity
           new == ParameterScope(f)
           first == {q \in Parameters(f) : ~Repeated(q)}
<1>1. f \in DOMAIN ast /\ f \in Path /\ n \in Nat \ {0} /\ HasScope(f)
  BY HeadIs, AritiesAre DEF StepTo, HasScope, ScopeKinds
<1>2. ASSUME NEW i \in 1 .. n - 1
      PROVE  LET p == Append(f, i) IN
             /\ i \in Nat /\ p \in DOMAIN ast /\ p \in Declarers /\ ast[p].kind = "parameter"
             /\ EnclosingScope(p) = f /\ ~Awaited(b, p) /\ Above(f, p) /\ f # p
             /\ p \in Parameters(f) /\ p \in Path
             /\ SymbolOf(p) = Symbol(ast[p].name, "variable", DeclaredType(p))
             /\ Front(p) = f /\ Last(p) = i /\ p[Len(f) + 1] = i
  <2> DEFINE p == Append(f, i)
  <2>1. i \in Nat /\ i \in 1 .. n /\ i < n
    BY <1>1
  <2>2. p \in DOMAIN ast
    BY <1>1, <2>1 DEF WellFormed, Full
  <2>3. ast[p].kind = "parameter"
    <3>1. ast[p].kind \in KindsAt(ast[f], i)
      BY <1>1, <2>1, <2>2, ChildNode
    <3> QED BY <2>1, <3>1, ChildKinds
  <2>4. p \in Declarers
    BY <2>2, <2>3 DEF Declarers, DeclarerKinds
  <2>5. EnclosingScope(p) = f
    BY <1>1, <2>1, <2>2, EnclosingOfChild
  <2> HIDE DEF n
  <2>6. Above(f, p) /\ f # p /\ p \in Path /\ p[Len(f) + 1] = i /\ Front(p) = f /\ Last(p) = i
    BY <1>1, <2>1, ChildIs
  <2>7. ~Awaited(more, p)
    <3>1. n \in Nat /\ i # n
      BY <1>1, <2>1
    <3>2. f \in Path /\ p \in Path /\ p[Len(f) + 1] = i
      BY <1>1, <2>6
    <3> HIDE DEF p
    <3>3. ~Above(Append(f, n), p)
      BY <3>1, <3>2, ChildAbove
    <3> QED BY <2>6, <3>3 DEF n
  <2>8. ~Awaited(b, p)
    BY <2>6, <2>7, AwaitedAfter
  <2>9. SymbolOf(p) = Symbol(ast[p].name, "variable", DeclaredType(p))
    BY <2>3 DEF SymbolOf, Declared
  <2>10. p \in Parameters(f)
    BY DEF Parameters, n
  <2> QED BY <2>1, <2>2, <2>3, <2>4, <2>5, <2>6, <2>8, <2>9, <2>10
<1>3. ASSUME NEW d \in Declarers, EnclosingScope(d) = f, ~Awaited(b, d)
      PROVE  \E i \in 1 .. n - 1 : d = Append(f, i)
  <2>1. d \in DOMAIN ast /\ d \in Path /\ d # <<>>
    BY DeclarersAre
  <2>2. Above(f, d) /\ f # d
    BY <1>3, <2>1, EnclosingIs
  <2>3. ~Awaited(more, d)
    BY <1>3, <2>1, AwaitedAfter
  <2> QED BY <1>1, <2>1, <2>2, <2>3, BelowFunction
<1>4. ASSUME NEW i \in 1 .. n - 1
      PROVE  Repeated(Append(f, i)) <=>
               \E j \in 1 .. i - 1 : ast[Append(f, j)].name = ast[Append(f, i)].name
  BY <1>2 DEF Repeated
<1>5. /\ new.at = f /\ new.parent = current
      /\ new.symbols = {Symbol(ast[p].name, "variable", DeclaredType(p)) : p \in first}
      /\ new = [parent |-> current, at |-> f,
                symbols |-> {Symbol(ast[p].name, "variable", DeclaredType(p)) : p \in first}]
  <2> DEFINE symbols == {Symbol(ast[p].name, "variable", DeclaredType(p)) : p \in first}
  <2>1. new = [Scope(current, f) EXCEPT !.symbols = symbols]
    BY DEF ParameterScope
  <2> HIDE DEF symbols, new
  <2>2. new = [parent |-> current, at |-> f, symbols |-> symbols]
    BY <2>1 DEF Scope
  <2>3. new.at = f /\ new.parent = current /\ new.symbols = symbols
    BY <2>2
  <2> QED BY <2>2, <2>3 DEF symbols
<1>6. \A p \in first : \E i \in 1 .. n - 1 : p = Append(f, i)
  BY DEF Parameters
<1>7. \A p \in first : /\ Symbol(ast[p].name, "variable", DeclaredType(p)) = SymbolOf(p)
                       /\ p \in Declarers /\ EnclosingScope(p) = f
  <2> TAKE p \in first
  <2>1. PICK i \in 1 .. n - 1 : p = Append(f, i)
    BY <1>6
  <2> HIDE DEF first, n
  <2> QED BY <1>2, <2>1
<1> HIDE DEF new, first, n
<1>8. ASSUME NEW i \in 1 .. n - 1, ~Repeated(Append(f, i))
      PROVE  IsFirst(Append(f, i), b)
  <2> DEFINE p == Append(f, i)
  <2> SUFFICES ASSUME NEW e \in Declarers, e # p, ~Awaited(b, e), SameName(p, e)
      PROVE  Precedes(p, e)
    BY <1>2 DEF IsFirst
  <2>1. EnclosingScope(e) = f /\ ast[e].name = ast[p].name
    BY <1>2 DEF SameName
  <2>2. PICK j \in 1 .. n - 1 : e = Append(f, j)
    BY <1>3, <2>1
  <2>3. i \in Nat /\ j \in Nat /\ i # j /\ i >= 1 /\ j >= 1
    BY <1>2, <2>2
  <2>4. ~(j < i)
    <3> SUFFICES ASSUME j < i PROVE FALSE
      OBVIOUS
    <3>1. j \in 1 .. i - 1
      BY <2>3
    <3> QED BY <1>4, <1>8, <2>1, <2>2, <3>1
  <2>5. Precedes(p, Append(f, j)) <=>
          Precedes(p, f) \/ (Above(f, p) /\ (p = f \/ p[Len(f) + 1] < j))
    <3>1. p \in Path
      BY <1>2
    <3>2. f \in Path
      BY <1>1
    <3>3. j \in Nat
      BY <2>3
    <3> HIDE DEF p
    <3> QED BY <3>1, <3>2, <3>3, PrecedesChild
  <2>6. Above(f, p) /\ p[Len(f) + 1] = i
    BY <1>2
  <2> QED BY <2>2, <2>3, <2>4, <2>5, <2>6
<1>9. ASSUME NEW y \in new.symbols
      PROVE  \E d \in Declarers :
               IsFirst(d, b) /\ EnclosingScope(d) = new.at /\ y = SymbolOf(d)
  <2>1. PICK p \in first : y = Symbol(ast[p].name, "variable", DeclaredType(p))
    BY <1>5
  <2>2. ~Repeated(p)
    BY DEF first
  <2>3. PICK i \in 1 .. n - 1 : p = Append(f, i)
    BY <1>6
  <2> QED BY <1>5, <1>7, <1>8, <2>1, <2>2, <2>3
<1>10. ASSUME NEW d \in Declarers, ~Awaited(b, d), EnclosingScope(d) = new.at
       PROVE  \E y \in new.symbols : y.name = ast[d].name
  <2>1. PICK i \in 1 .. n - 1 : d = Append(f, i)
    BY <1>3, <1>5, <1>10
  <2> DEFINE T == {j \in 1 .. n - 1 : ast[Append(f, j)].name = ast[d].name}
  <2>2. T \subseteq Nat /\ i \in T
    BY <1>1, <2>1
  <2>3. PICK j \in T : \A k \in T : j <= k
    BY <2>2, LeastNumber
  <2>4. j \in 1 .. n - 1 /\ ast[Append(f, j)].name = ast[d].name
    BY <2>3
  <2>5. ~Repeated(Append(f, j))
    <3> SUFFICES ASSUME NEW k \in 1 .. j - 1, ast[Append(f, k)].name = ast[Append(f, j)].name
        PROVE  FALSE
      BY <1>4, <2>4
    <3>1. k \in T /\ k < j /\ j \in Nat /\ k \in Nat
      BY <1>1, <2>4
    <3> HIDE DEF T
    <3> QED BY <2>3, <3>1
  <2>6. Append(f, j) \in first
    BY <1>2, <2>4, <2>5 DEF first
  <2>7. SymbolOf(Append(f, j)) \in new.symbols
    BY <1>5, <1>7, <2>6
  <2>8. SymbolOf(Append(f, j)).name = ast[Append(f, j)].name
    BY <1>2, <2>4, SymbolIs
  <2> QED BY <2>4, <2>7, <2>8
<1>11. HasFirst(new, b)
  BY <1>9, <1>10 DEF HasFirst
<1>12. new \in ScopeSet
  <2> DEFINE symbols == {Symbol(ast[p].name, "variable", DeclaredType(p)) : p \in first}
             All == [name : Name, kind : {"function", "variable"},
                     type : Builtins \cup {NoType}, isInitialized : BOOLEAN]
  <2>1. \A p \in first : Symbol(ast[p].name, "variable", DeclaredType(p)) \in All
    BY <1>7, SymbolIs
  <2>2. symbols \in SUBSET All
    BY <2>1
  <2> HIDE DEF symbols, All
  <2>3. new = [parent |-> current, at |-> f, symbols |-> symbols]
    BY <1>5 DEF symbols
  <2> QED BY <1>1, <2>2, <2>3 DEF ScopeSet, All
<1> QED BY <1>5, <1>11, <1>12 DEF new

-----------------------------------------------------------------------------
(* The agenda, the scopes and the current one after a step *)

Structure(sc, c, a) ==
  /\ AgendaInv(a) /\ ScopesInv(sc, a) /\ Leaves(sc, a) /\ CurrentIs(sc, c, a)
  /\ c \in 0 .. Len(sc)

\* The next task after a step.
LEMMA NextTask ==
  ASSUME NEW a, NEW more, NEW b, StepTo(a, more, b), b # <<>>
  PROVE  /\ more # <<>> => b[1] = more[1] /\ 1 \in 1 .. Len(more)
         /\ more = <<>> => ScopeAt(b[1]) = ScopeAfter(a[1])
<1>1. a \in Seq(Tasks) /\ more \in Seq(Tasks) /\ a # <<>> /\ b = more \o Tail(a)
  BY DEF StepTo, AgendaInv, Ordered, Replaces, Unfolds
<1>2. /\ Len(b) = Len(more) + Len(a) - 1 /\ b \in Seq(Tasks)
      /\ Len(more) \in Nat /\ Len(a) \in Nat \ {0}
      /\ \A i \in 1 .. Len(more) : b[i] = more[i]
      /\ \A i \in 2 .. Len(a) : b[Len(more) + i - 1] = a[i]
  BY <1>1, JoinIs
<1>3. Len(b) >= 1
  BY <1>2, EmptySeq
<1>4. ASSUME more # <<>>
      PROVE  b[1] = more[1] /\ 1 \in 1 .. Len(more)
  <2>1. Len(more) # 0
    BY <1>1, <1>4, EmptySeq
  <2> QED BY <1>2, <2>1
<1>5. ASSUME more = <<>>
      PROVE  ScopeAt(b[1]) = ScopeAfter(a[1])
  <2>1. Len(more) = 0
    BY <1>5
  <2>2. 2 \in 2 .. Len(a) /\ Len(more) + 2 - 1 = 1 /\ 1 \in 1 .. Len(a) - 1
    BY <1>2, <1>3, <2>1
  <2>3. b[1] = a[2]
    BY <1>2, <2>2
  <2>4. ScopeAt(a[1 + 1]) = ScopeAfter(a[1])
    BY <2>2 DEF StepTo, AgendaInv, Ordered, Nested
  <2> QED BY <2>3, <2>4
<1> QED BY <1>4, <1>5

LEMMA StepKeepsAgenda ==
  ASSUME WellFormed(ast), NEW a, NEW more, NEW b, StepTo(a, more, b)
  PROVE  AgendaInv(b)
BY AgendaStays DEF StepTo

\* A task is done, or a node without a scope is visited.
LEMMA StructureSame ==
  ASSUME WellFormed(ast), NEW a, NEW more, NEW b, StepTo(a, more, b),
         NEW sc, NEW c, Structure(sc, c, a), a[1].do \notin Ending,
         \A k \in 1 .. Len(more) : more[k].do # "leave" /\ ScopeAt(more[k]) = ScopeAt(a[1]),
         \A d \in Declarers : ~Awaited(b, d) => ~Awaited(a, d)
  PROVE  Structure(sc, c, b)
<1>1. AgendaInv(b) /\ ScopesInv(sc, b) /\ c \in 0 .. Len(sc)
  BY StepKeepsAgenda, ScopesSame DEF Structure
<1>2. Leaves(sc, b)
  <2>1. Len(sc) \in Nat /\ \A k \in 1 .. Len(more) : Saves(sc, more[k])
    BY LenProperties DEF Structure, ScopesInv, Saves
  <2> QED BY <2>1, LeavesStay DEF Structure
<1>3. ASSUME b # <<>>
      PROVE  ScopeAt(b[1]) = ScopeAt(a[1])
  BY <1>3, NextTask DEF ScopeAfter
<1>4. CurrentIs(sc, c, b)
  BY <1>3 DEF CurrentIs, Structure, StepTo
<1> QED BY <1>1, <1>2, <1>4 DEF Structure

\* A scope is left.
LEMMA StructureBack ==
  ASSUME WellFormed(ast), NEW a, NEW b, StepTo(a, <<>>, b),
         NEW sc, NEW c, Structure(sc, c, a), a[1].do \in Ending,
         NEW e, e = IF a[1].do = "leave" THEN a[1].saved
                    ELSE IF sc[c].parent = 0 THEN c ELSE sc[c].parent
  PROVE  Structure(sc, e, b)
<1>1. /\ a # <<>> /\ a[1].at \in DOMAIN ast /\ a[1].at \in Path /\ 1 \in 1 .. Len(a)
      /\ Fits(a[1]) /\ a[1].do # "visit" /\ a[1].at # <<>>
  BY HeadIs, VisitedNode, TopLevel DEF StepTo, Ending, Fits
<1>2. AgendaInv(b) /\ ScopesInv(sc, b)
  <2>1. \A d \in Declarers : ~Awaited(b, d) => ~Awaited(a, d)
    BY <1>1, RestAwaited, DeclarersAre
  <2> QED BY <2>1, StepKeepsAgenda, ScopesSame DEF Structure
<1>3. sc \in Seq(ScopeSet) /\ Len(sc) \in Nat /\ FollowsTree(sc)
  BY LenProperties DEF Structure, ScopesInv
<1>4. Leaves(sc, b)
  <2> DEFINE more == <<>>
  <2>1. \A k \in 1 .. Len(more) : Saves(sc, more[k])
    OBVIOUS
  <2>2. StepTo(a, more, b)
    OBVIOUS
  <2> HIDE DEF more
  <2> QED BY <1>3, <2>1, <2>2, LeavesStay DEF Structure
<1>5. c \in 1 .. Len(sc) /\ sc[c].at = ScopeAt(a[1])
  BY <1>1 DEF Structure, CurrentIs
<1>6. ScopeAt(a[1]) = a[1].at /\ ScopeAfter(a[1]) = EnclosingScope(a[1].at)
  BY DEF ScopeAt, ScopeAfter
<1>7. e \in 1 .. Len(sc) /\ sc[e].at = EnclosingScope(a[1].at)
  <2>1. CASE a[1].do = "leave"
    <3>1. Saves(sc, a[1])
      BY <1>1 DEF Structure, Leaves
    <3> QED BY <2>1, <3>1 DEF Saves
  <2>2. CASE a[1].do # "leave"
    <3>1. sc[c].parent \in 1 .. c - 1 /\ sc[sc[c].parent].at = EnclosingScope(sc[c].at)
      BY <1>1, <1>3, <1>5, <1>6 DEF FollowsTree
    <3>2. e = sc[c].parent
      BY <2>2, <3>1
    <3> QED BY <1>3, <1>5, <1>6, <3>1, <3>2
  <2> QED BY <2>1, <2>2
<1>8. b # <<>> => ScopeAt(b[1]) = EnclosingScope(a[1].at)
  BY <1>6, NextTask
<1>9. CurrentIs(sc, e, b)
  BY <1>7, <1>8 DEF CurrentIs
<1>10. e \in 0 .. Len(sc)
  BY <1>3, <1>7
<1> QED BY <1>2, <1>4, <1>9, <1>10 DEF Structure

LEMMA EmptyScope ==
  ASSUME NEW p \in Path, NEW c \in Nat
  PROVE  /\ Scope(c, p) \in ScopeSet /\ Scope(c, p).at = p /\ Scope(c, p).parent = c
         /\ Scope(c, p).symbols = {}
BY DEF Scope, ScopeSet

\* A block or a for is visited.
LEMMA StructurePush ==
  ASSUME WellFormed(ast), NEW a, NEW more, NEW b, StepTo(a, more, b),
         NEW sc, NEW c, Structure(sc, c, a), a[1].do = "visit",
         ast[a[1].at].kind \in {"block", "for"}, Keeps(more, a[1].at), more # <<>>
  PROVE  Structure(Append(sc, Scope(c, a[1].at)), Len(sc) + 1, b)
<1> DEFINE p == a[1].at
           new == Scope(c, p)
           sd == Append(sc, new)
           n == Len(sc)
<1>1. /\ a # <<>> /\ p \in DOMAIN ast /\ p \in Path /\ p # <<>> /\ HasScope(p)
      /\ Awaited(a, p) /\ p \notin Declarers
  BY HeadIs, VisitedNode
     DEF StepTo, HasScope, ScopeKinds, Declarers, DeclarerKinds
<1>2. sc \in Seq(ScopeSet) /\ n \in Nat /\ OneForEach(sc, a)
  BY LenProperties DEF Structure, ScopesInv
<1>3. ScopeAt(a[1]) = EnclosingScope(p)
  BY <1>1 DEF ScopeAt, Ending, PosOf
<1>4. c \in 1 .. n /\ c \in Nat /\ sc[c].at = EnclosingScope(p)
  BY <1>1, <1>2, <1>3 DEF Structure, CurrentIs
<1>5. new \in ScopeSet /\ new.at = p /\ new.parent = c /\ new.symbols = {}
  BY <1>1, <1>4, EmptyScope
<1>6. /\ ~Awaited(b, p)
      /\ \A x \in DOMAIN ast : ~Awaited(b, x) => ~Awaited(a, x) \/ x = p
  BY OnlyHead
<1>7. \A d \in Declarers : ~Awaited(b, d) => ~Awaited(a, d)
  BY <1>1, <1>6, DeclarersAre
<1>8. ScopesInv(sc, b) /\ AgendaInv(b)
  BY <1>7, ScopesSame, StepKeepsAgenda DEF Structure
<1>9. \A s \in 1 .. n : sc[s].at # p
  BY <1>1, <1>2 DEF OneForEach
<1>10. ASSUME NEW d \in Declarers, EnclosingScope(d) = p
       PROVE  Awaited(b, d)
  <2>1. d \in DOMAIN ast /\ d \in Path /\ d # <<>>
    BY DeclarersAre
  <2>2. Above(p, d) /\ d # p
    BY <1>10, <2>1, EnclosingIs
  <2>3. Awaited(more, d)
    BY <2>1, <2>2 DEF Keeps
  <2> QED BY <2>1, <2>3, AwaitedAfter
<1> HIDE DEF new, p
<1>11. HasFirst(new, b)
  BY <1>5, <1>10 DEF HasFirst
<1>12. /\ ScopesInv(sd, b) /\ Len(sd) = n + 1 /\ sd[n + 1] = new
       /\ \A s \in 1 .. n : sd[s] = sc[s]
  BY <1>1, <1>4, <1>5, <1>6, <1>8, <1>9, <1>11, ScopesPush
<1> HIDE DEF sd, n
<1>13. Leaves(sd, b)
  <2>1. \A k \in 1 .. Len(more) : Saves(sc, more[k])
    BY DEF Keeps, Saves
  <2>2. n <= n + 1 /\ n + 1 \in Nat
    BY <1>2
  <2> QED BY <1>2, <1>12, <2>1, <2>2, LeavesStay DEF Structure, n
<1>14. CurrentIs(sd, n + 1, b)
  <2> SUFFICES ASSUME b # <<>>
      PROVE  n + 1 \in 1 .. Len(sd) /\ sd[n + 1].at = ScopeAt(b[1])
    BY DEF CurrentIs
  <2>1. b[1] = more[1] /\ 1 \in 1 .. Len(more)
    BY NextTask
  <2>2. ScopeAt(b[1]) = ScopeBelow(p)
    BY <2>1 DEF Keeps, p
  <2>3. ScopeBelow(p) = p
    BY <1>1 DEF ScopeBelow
  <2> QED BY <1>2, <1>5, <1>12, <2>2, <2>3
<1>15. n + 1 \in 0 .. Len(sd)
  BY <1>2, <1>12
<1>16. Structure(sd, n + 1, b)
  BY <1>8, <1>12, <1>13, <1>14, <1>15 DEF Structure
<1> QED BY <1>16 DEF sd, n, new, p

\* A declaration is visited.
LEMMA StructureDeclare ==
  ASSUME WellFormed(ast), NEW a, NEW more, NEW b, StepTo(a, more, b),
         NEW sc, NEW c, Structure(sc, c, a), a[1].do = "visit",
         ast[a[1].at].kind = "declaration",
         \A k \in 1 .. Len(more) : more[k].do = "initializer" /\ more[k].at = a[1].at
  PROVE  Structure([sc EXCEPT ![c] = With(@, SymbolOf(a[1].at))], c, b)
<1> DEFINE p == a[1].at
           sd == [sc EXCEPT ![c] = With(@, SymbolOf(p))]
<1>1. /\ a # <<>> /\ p \in DOMAIN ast /\ p \in Path /\ p # <<>> /\ ~HasScope(p)
      /\ Awaited(a, p) /\ p \in Declarers /\ Above(p, p) /\ Fits(a[1])
  BY HeadIs, VisitedNode, AboveOrder
     DEF StepTo, HasScope, ScopeKinds, Declarers, DeclarerKinds
<1>2. sc \in Seq(ScopeSet) /\ Len(sc) \in Nat
  BY LenProperties DEF Structure, ScopesInv
<1>3. ScopeAt(a[1]) = EnclosingScope(p) /\ ScopeAfter(a[1]) = EnclosingScope(p)
  BY <1>1 DEF ScopeAt, ScopeAfter, Ending, PosOf
<1>4. c \in 1 .. Len(sc) /\ sc[c].at = EnclosingScope(p)
  BY <1>1, <1>3 DEF Structure, CurrentIs
<1>5. \A x : ~Awaited(more, x)
  BY DEF Awaited, Awaits
<1>6. ~Awaited(b, p)
  BY <1>1, <1>5, AwaitedAfter
<1>7. ASSUME NEW d \in Declarers, ~Awaited(b, d)
      PROVE  ~Awaited(a, d) \/ d = p
  <2>1. d \in Path
    BY DeclarersAre
  <2>2. Awaited(a, d) => Above(p, d)
    BY <1>7, <2>1, AwaitedAfter
  <2> QED BY <1>1, <2>2, NothingDeclared
<1>8. /\ ScopesInv(sd, b) /\ Len(sd) = Len(sc)
      /\ \A s \in 1 .. Len(sc) : sd[s].at = sc[s].at /\ sc[s].at # p
  BY <1>1, <1>4, <1>6, <1>7, ScopesDeclare DEF Structure
<1> HIDE DEF sd, p
<1>9. Leaves(sd, b)
  <2>1. \A k \in 1 .. Len(more) : Saves(sc, more[k])
    BY DEF Saves
  <2>2. Len(sd) \in Nat /\ Len(sc) <= Len(sd)
    BY <1>2, <1>8
  <2>3. \A s \in 1 .. Len(sc) : sd[s].at = sc[s].at
    BY <1>8
  <2> QED BY <1>2, <2>1, <2>2, <2>3, LeavesStay DEF Structure
<1>10. ASSUME b # <<>>
       PROVE  ScopeAt(b[1]) = EnclosingScope(p)
  <2>1. CASE more = <<>>
    BY <1>3, <1>10, <2>1, NextTask
  <2>2. CASE more # <<>>
    <3>1. b[1] = more[1] /\ 1 \in 1 .. Len(more)
      BY <1>10, <2>2, NextTask
    <3>2. b[1].do = "initializer" /\ b[1].at = p
      BY <3>1 DEF p
    <3>3. more[1] \in Tasks /\ Fits(more[1])
      BY <3>1, ElementOfSeq DEF StepTo, Replaces, Unfolds
    <3>4. Append(p, 1) \in DOMAIN ast
      BY <3>1, <3>2, <3>3 DEF Fits
    <3>5. EnclosingScope(Append(p, 1)) = EnclosingScope(p)
      BY <1>1, <3>4, EnclosingOfChild
    <3>6. ScopeAt(b[1]) = EnclosingScope(Append(p, 1))
      BY <1>1, <3>2 DEF ScopeAt, PosOf, Ending
    <3> QED BY <3>5, <3>6
  <2> QED BY <2>1, <2>2
<1>11. CurrentIs(sd, c, b)
  BY <1>4, <1>8, <1>10 DEF CurrentIs
<1>12. Structure(sd, c, b)
  BY <1>2, <1>4, <1>8, <1>9, <1>11, StepKeepsAgenda DEF Structure
<1> QED BY <1>12 DEF sd, p

\* A function is visited.
LEMMA StructureFunction ==
  ASSUME WellFormed(ast), NEW a, NEW more, NEW b, StepTo(a, more, b),
         NEW sc, Structure(sc, current, a), a[1].do = "visit",
         NEW f, f = a[1].at, ast[f].kind = "function",
         NEW leave, leave = [do |-> "leave", at |-> f, saved |-> current],
         more = <<Task("visit", Append(f, ast[f].arity)), leave>>,
         \A x \in Path : Awaited(more, x) <=> Above(Append(f, ast[f].arity), x)
  PROVE  Structure(Append([sc EXCEPT ![current] = With(@, SymbolOf(f))], ParameterScope(f)),
                   Len(sc) + 1, b)
<1> DEFINE body == Append(f, ast[f].arity)
           sd == [sc EXCEPT ![current] = With(@, SymbolOf(f))]
           new == ParameterScope(f)
           se == Append(sd, new)
           n == Len(sc)
<1>1. /\ a # <<>> /\ f \in DOMAIN ast /\ f \in Path /\ f # <<>> /\ HasScope(f)
      /\ Awaited(a, f) /\ f \in Declarers /\ Above(f, f)
  BY HeadIs, VisitedNode, AboveOrder
     DEF StepTo, HasScope, ScopeKinds, Declarers, DeclarerKinds
<1>2. sc \in Seq(ScopeSet) /\ n \in Nat
  BY LenProperties DEF Structure, ScopesInv
<1>3. ScopeAt(a[1]) = EnclosingScope(f)
  BY <1>1 DEF ScopeAt, Ending, PosOf
<1>4. current \in 1 .. n /\ current \in Nat /\ sc[current].at = EnclosingScope(f)
  BY <1>1, <1>2, <1>3 DEF Structure, CurrentIs
<1>5. /\ ast[f].arity \in Nat \ {0} /\ body \in DOMAIN ast /\ body \in Path
      /\ ast[body].kind = "block" /\ EnclosingScope(body) = f /\ ~Above(body, f)
      /\ body # <<>>
  <2>1. /\ ast[f].arity \in Nat \ {0} /\ body \in DOMAIN ast /\ ast[body].kind = "block"
    BY <1>1, BodyCovers
  <2>2. ~Above(body, f)
    BY <1>1, <2>1, ChildAbove
  <2>3. EnclosingScope(body) = f /\ body \in Path /\ body # <<>>
    <3> DEFINE i == ast[f].arity
    <3>1. i \in Nat /\ Append(f, i) \in DOMAIN ast
      BY <2>1
    <3> HIDE DEF i
    <3>2. EnclosingScope(Append(f, i)) = f
      BY <1>1, <3>1, EnclosingOfChild
    <3>3. f \in Path /\ i \in Nat
      BY <1>1, <3>1
    <3>4. Append(f, i) \in Path /\ Append(f, i) # <<>>
      BY <3>3, ChildIs
    <3> QED BY <3>2, <3>4 DEF i
  <2> QED BY <2>1, <2>2, <2>3
<1>6. ~Awaited(b, f)
  BY <1>1, <1>5, AwaitedAfter
<1>7. ASSUME NEW d \in Declarers, ~Awaited(b, d)
      PROVE  ~Awaited(a, d) \/ d = f \/ EnclosingScope(d) = f
  <2>1. d \in Path /\ d \in DOMAIN ast
    BY DeclarersAre
  <2>2. Awaited(a, d) => Above(f, d) /\ ~Above(body, d)
    BY <1>7, <2>1, AwaitedAfter
  <2> QED BY <1>1, <2>1, <2>2, BelowFunction
<1>8. /\ ScopesInv(sd, b) /\ Len(sd) = n
      /\ \A s \in 1 .. n : sd[s].at = sc[s].at /\ sc[s].at # f
  BY <1>1, <1>4, <1>6, <1>7, ScopesDeclare DEF Structure
<1>9. /\ HasFirst(new, b) /\ new \in ScopeSet /\ new.at = f /\ new.parent = current
  BY <1>4, ParametersFirst
<1> HIDE DEF sd, new, n
<1>10. /\ ScopesInv(se, b) /\ Len(se) = n + 1 /\ se[n + 1] = new
       /\ \A s \in 1 .. n : se[s] = sd[s]
  BY <1>1, <1>4, <1>6, <1>8, <1>9, ScopesPush
<1> HIDE DEF se, body
<1>11. Len(more) = 2 /\ more[1] = Task("visit", body) /\ more[2] = leave
  BY DEF body
<1>12. Leaves(se, b)
  <2>1. Saves(sc, more[1]) /\ Saves(sc, more[2])
    BY <1>4, <1>11 DEF Saves, Task, n
  <2>2. \A k \in 1 .. Len(more) : k = 1 \/ k = 2
    BY <1>11
  <2>3. \A k \in 1 .. Len(more) : Saves(sc, more[k])
    BY <2>1, <2>2
  <2>4. n + 1 \in Nat /\ n <= n + 1
    BY <1>2
  <2>5. \A s \in 1 .. n : se[s].at = sc[s].at
    BY <1>8, <1>10
  <2> QED BY <1>2, <1>10, <2>3, <2>4, <2>5, LeavesStay DEF Structure, n
<1>13. CurrentIs(se, n + 1, b)
  <2> SUFFICES ASSUME b # <<>>
      PROVE  n + 1 \in 1 .. Len(se) /\ se[n + 1].at = ScopeAt(b[1])
    BY DEF CurrentIs
  <2>1. more # <<>>
    BY <1>11
  <2>2. b[1] = Task("visit", body)
    BY <1>11, <2>1, NextTask
  <2>3. ScopeAt(b[1]) = f
    BY <1>5, <2>2 DEF ScopeAt, PosOf, Ending, Task
  <2> QED BY <1>2, <1>9, <1>10, <2>3
<1>14. n + 1 \in 0 .. Len(se)
  BY <1>2, <1>10
<1>15. Structure(se, n + 1, b)
  BY <1>10, <1>12, <1>13, <1>14, StepKeepsAgenda DEF Structure
<1> QED BY <1>15 DEF se, sd, new, n

-----------------------------------------------------------------------------
(* The actions *)

Inv ==
  /\ ast \in Programs /\ status \in {"start", "running", "done", "crashed"}
  /\ status = "start" => agenda = <<>> /\ scopes = <<>> /\ current = 0
  /\ status # "start" => Structure(scopes, current, agenda)

\* The actions that replace a visit by visits of all children, ...
PlainVisit == \/ VisitProgram \/ VisitReturn \/ VisitIfOrWhile \/ VisitOperand
              \/ VisitBinary \/ VisitCall \/ VisitLeaf

\* ... those that do this and make a scope, ...
ScopedVisit == VisitBlock \/ VisitFor

\* ... and those that only look at types.
Check == CheckInitializer \/ CheckReturn \/ CheckCondition \/ CheckOperands

\* What a step does with the head of the agenda.
Turns(more) == StepTo(agenda, more, agenda') /\ ast' = ast /\ status = "running"

\* The step replaces a visit of p by what is below p.
Descends(p) == \E more : Turns(more) /\ Keeps(more, p)

DescendsFar(p) == \E more : Turns(more) /\ Keeps(more, p) /\ more # <<>>

LEMMA Trees ==
  ASSUME Inv PROVE WellFormed(ast)
BY ProgramsAssumption DEF Inv

LEMMA NowIs ==
  ASSUME Inv, status = "running", agenda # <<>>
  PROVE  /\ Now = agenda[1] /\ AgendaInv(agenda) /\ Structure(scopes, current, agenda)
         /\ agenda[1] \in Tasks /\ Fits(agenda[1]) /\ WellFormed(ast)
         /\ agenda[1].at \in DOMAIN ast /\ agenda[1].at \in Path
<1>1. AgendaInv(agenda) /\ Structure(scopes, current, agenda)
  BY DEF Inv, Structure
<1> QED BY <1>1, HeadIs, Trees DEF Now

LEMMA PlainVisits ==
  ASSUME Inv, PlainVisit
  PROVE  /\ Descends(agenda[1].at)
         /\ agenda[1].do = "visit" /\ agenda # <<>>
         /\ ast[agenda[1].at].kind \in { "program", "return", "if", "while", "expression",
              "unary", "binary", "call", "literal", "identifier" }
         /\ UNCHANGED <<ast, scopes, current>>
<1> DEFINE t == agenda[1]
           p == t.at
           Goal == /\ Descends(p)
                   /\ t.do = "visit" /\ agenda # <<>>
                   /\ ast[p].kind \in { "program", "return", "if", "while", "expression",
                        "unary", "binary", "call", "literal", "identifier" }
                   /\ UNCHANGED <<ast, scopes, current>>
<1> SUFFICES Goal
  OBVIOUS
<1>1. status = "running" /\ agenda # <<>>
  BY DEF PlainVisit, VisitProgram, VisitReturn, VisitIfOrWhile, VisitOperand, VisitBinary,
         VisitCall, VisitLeaf, At
<1>2. /\ Now = t /\ AgendaInv(agenda) /\ WellFormed(ast) /\ t \in Tasks /\ Fits(t)
      /\ Structure(scopes, current, agenda)
  BY <1>1, NowIs
<1> HIDE DEF t
<1>3. ASSUME NEW more, Replaces(more, t), Keeps(more, p), t.do = "visit", Then(more), ast' = ast
      PROVE  Descends(p)
  BY <1>1, <1>2, <1>3 DEF Descends, Turns, StepTo, Then, t
<1>4. CASE VisitProgram
  <2>1. t.do = "visit" /\ ast[p].kind = "program"
        /\ Then(Visits(p, 1, ast[p].arity)) /\ UNCHANGED <<ast, scopes, current>>
    BY <1>2, <1>4 DEF VisitProgram, At
  <2> QED BY <1>1, <1>2, <1>3, <2>1, ProgramReplaces
<1>5. CASE VisitReturn
  <2> DEFINE value == Visits(p, 1, 1)
             more == value \o (IF value = <<>> THEN <<>> ELSE <<Task("value", p)>>)
  <2>1. t.do = "visit" /\ ast[p].kind = "return"
        /\ Then(more) /\ UNCHANGED <<ast, scopes, current>>
    BY <1>2, <1>5 DEF VisitReturn, At
  <2>2. Replaces(more, t) /\ Keeps(more, p)
    BY <1>2, <2>1, ReturnReplaces
  <2> HIDE DEF more
  <2> QED BY <1>1, <1>2, <1>3, <2>1, <2>2
<1>6. CASE VisitIfOrWhile
  <2> DEFINE more == Condition(p, 1) \o Visits(p, 2, ast[p].arity)
  <2>1. t.do = "visit" /\ ast[p].kind \in {"if", "while"}
        /\ Then(more) /\ UNCHANGED <<ast, scopes, current>>
    BY <1>2, <1>6 DEF VisitIfOrWhile, At
  <2>2. Replaces(more, t) /\ Keeps(more, p)
    BY <1>2, <2>1, IfReplaces
  <2> HIDE DEF more
  <2> QED BY <1>1, <1>2, <1>3, <2>1, <2>2
<1>7. CASE VisitOperand
  <2> DEFINE more == Visits(p, 1, 1)
  <2>1. t.do = "visit" /\ ast[p].kind \in {"expression", "unary"}
        /\ Then(more) /\ UNCHANGED <<ast, scopes, current>>
    BY <1>2, <1>7 DEF VisitOperand, At
  <2>2. Replaces(more, t) /\ Keeps(more, p)
    BY <1>2, <2>1, OperandReplaces
  <2> HIDE DEF more
  <2> QED BY <1>1, <1>2, <1>3, <2>1, <2>2
<1>8. CASE VisitBinary
  <2> DEFINE more == Visits(p, 1, 2) \o <<Task("operands", p)>>
  <2>1. t.do = "visit" /\ ast[p].kind = "binary"
        /\ Then(more) /\ UNCHANGED <<ast, scopes, current>>
    BY <1>2, <1>8 DEF VisitBinary, At
  <2>2. Replaces(more, t) /\ Keeps(more, p)
    BY <1>2, <2>1, BinaryReplaces
  <2> HIDE DEF more
  <2> QED BY <1>1, <1>2, <1>3, <2>1, <2>2
<1>9. CASE VisitCall
  <2> DEFINE more == Visits(p, 1, ast[p].arity)
  <2>1. t.do = "visit" /\ ast[p].kind = "call"
        /\ Then(more) /\ UNCHANGED <<ast, scopes, current>>
    BY <1>2, <1>9 DEF VisitCall, At
  <2>2. Replaces(more, t) /\ Keeps(more, p)
    BY <1>2, <2>1, CallReplaces
  <2> HIDE DEF more
  <2> QED BY <1>1, <1>2, <1>3, <2>1, <2>2
<1>10. CASE VisitLeaf
  <2>1. t.do = "visit" /\ ast[p].kind \in {"literal", "identifier"}
        /\ Then(<<>>) /\ UNCHANGED <<ast, scopes, current>>
    BY <1>2, <1>10 DEF VisitLeaf, At
  <2> QED BY <1>1, <1>2, <1>3, <2>1, LeafReplaces
<1> QED BY <1>4, <1>5, <1>6, <1>7, <1>8, <1>9, <1>10 DEF PlainVisit

\* A step that only takes the head away.
LEMMA TakesHead ==
  ASSUME Inv, status = "running", agenda # <<>>, Then(<<>>), ast' = ast
  PROVE  Turns(<<>>)
BY NowIs, NothingReplaces DEF Turns, StepTo, Then

LEMMA Checks ==
  ASSUME Inv, Check
  PROVE  /\ Turns(<<>>) /\ agenda # <<>>
         /\ agenda[1].do \in {"initializer", "value", "condition", "operands"}
         /\ UNCHANGED <<ast, scopes, current, hasReturn>>
<1>1. status = "running" /\ agenda # <<>>
  BY DEF Check, CheckInitializer, CheckReturn, CheckCondition, CheckOperands, At
<1>2. Now = agenda[1]
  BY <1>1, NowIs
<1>3. /\ Then(<<>>) /\ UNCHANGED <<ast, scopes, current, hasReturn>>
      /\ agenda[1].do \in {"initializer", "value", "condition", "operands"}
  BY <1>2 DEF Check, CheckInitializer, CheckReturn, CheckCondition, CheckOperands, At
<1> QED BY <1>1, <1>3, TakesHead

LEMMA Assignments ==
  ASSUME Inv, VisitAssignment
  PROVE  /\ Turns(<<>>) /\ agenda # <<>>
         /\ agenda[1].do = "visit" /\ ast[agenda[1].at].kind = "assignment"
         /\ UNCHANGED <<ast, scopes, current, hasReturn>>
<1>1. status = "running" /\ agenda # <<>>
  BY DEF VisitAssignment, At
<1>2. Now = agenda[1]
  BY <1>1, NowIs
<1>3. /\ Then(<<>>) /\ UNCHANGED <<ast, scopes, current, hasReturn>>
      /\ agenda[1].do = "visit" /\ ast[agenda[1].at].kind = "assignment"
  BY <1>2 DEF VisitAssignment, At
<1> QED BY <1>1, <1>3, TakesHead

LEMMA Leavings ==
  ASSUME Inv, PopScope \/ LeaveFunction
  PROVE  /\ Turns(<<>>) /\ agenda # <<>>
         /\ agenda[1].do \in Ending
         /\ UNCHANGED <<ast, scopes, hasReturn, status>>
         /\ current' = IF agenda[1].do = "leave" THEN agenda[1].saved
                       ELSE IF scopes[current].parent = 0 THEN current
                       ELSE scopes[current].parent
<1>1. status = "running" /\ agenda # <<>>
  BY DEF PopScope, LeaveFunction, At
<1>2. Now = agenda[1]
  BY <1>1, NowIs
<1>3. /\ Then(<<>>) /\ UNCHANGED <<ast, scopes, hasReturn, status>>
      /\ agenda[1].do \in Ending
      /\ current' = IF agenda[1].do = "leave" THEN agenda[1].saved
                    ELSE IF scopes[current].parent = 0 THEN current
                    ELSE scopes[current].parent
  BY <1>2 DEF PopScope, LeaveFunction, At, Ending
<1> QED BY <1>1, <1>3, TakesHead

LEMMA ScopedVisits ==
  ASSUME Inv, ScopedVisit
  PROVE  /\ DescendsFar(agenda[1].at)
         /\ agenda[1].do = "visit" /\ agenda # <<>>
         /\ ast[agenda[1].at].kind \in {"block", "for"}
         /\ scopes' = Append(scopes, Scope(current, agenda[1].at))
         /\ current' = Len(scopes) + 1
         /\ UNCHANGED <<ast, hasReturn, reports, status>>
<1> DEFINE t == agenda[1]
           p == t.at
           Goal == /\ DescendsFar(p)
                   /\ t.do = "visit" /\ agenda # <<>>
                   /\ ast[p].kind \in {"block", "for"}
                   /\ scopes' = Append(scopes, Scope(current, p))
                   /\ current' = Len(scopes) + 1
                   /\ UNCHANGED <<ast, hasReturn, reports, status>>
<1> SUFFICES Goal
  OBVIOUS
<1>1. status = "running" /\ agenda # <<>>
  BY DEF ScopedVisit, VisitBlock, VisitFor, At
<1>2. /\ Now = t /\ AgendaInv(agenda) /\ WellFormed(ast) /\ t \in Tasks /\ Fits(t)
      /\ Structure(scopes, current, agenda) /\ p \in Path
  BY <1>1, NowIs
<1> HIDE DEF t
<1>3. ASSUME NEW more, Replaces(more, t), Keeps(more, p), t.do = "visit", Then(more),
             ast' = ast, more # <<>>
      PROVE  DescendsFar(p)
  BY <1>1, <1>2, <1>3 DEF DescendsFar, Turns, StepTo, Then, t
<1>4. ASSUME NEW list \in Seq(Tasks)
      PROVE  list \o <<Task("pop", p)>> # <<>>
  <2> DEFINE last == <<Task("pop", p)>>
  <2>1. last \in Seq(Tasks) /\ Len(last) = 1
    BY <1>2, TaskIs DEF Doings
  <2> HIDE DEF last
  <2>2. Len(list \o last) = Len(list) + 1 /\ Len(list) \in Nat
    <3>1. list \in Seq(Tasks)
      OBVIOUS
    <3>2. Len(list \o last) = Len(list) + Len(last)
      BY <2>1, <3>1, ConcatProperties
    <3>3. Len(list) \in Nat
      BY <3>1, LenProperties
    <3> QED BY <2>1, <3>2, <3>3
  <2>3. Len(list \o last) # 0
    BY <2>2
  <2> QED BY <2>3 DEF last
<1>5. CASE VisitBlock
  <2> DEFINE list == Visits(p, 1, ast[p].arity)
             more == list \o <<Task("pop", p)>>
  <2>1. t.do = "visit" /\ ast[p].kind = "block" /\ Push(Scope(current, p))
        /\ Then(more) /\ UNCHANGED <<ast, hasReturn, reports, status>>
    BY <1>2, <1>5 DEF VisitBlock, At
  <2>2. Replaces(more, t) /\ Keeps(more, p)
    BY <1>2, <2>1, BlockReplaces
  <2>3. more # <<>>
    <3>1. ast[p].arity \in Nat
      BY <1>2, VisitedNode
    <3>2. list \in Seq(Tasks)
      BY <1>2, <3>1, FirstSlots DEF Lists
    <3> HIDE DEF list
    <3> QED BY <1>4, <3>2
  <2> HIDE DEF more
  <2>4. DescendsFar(p)
    BY <1>3, <2>1, <2>2, <2>3
  <2> QED BY <1>1, <2>1, <2>4 DEF Push
<1>6. CASE VisitFor
  <2> DEFINE list == Visits(p, 1, 1) \o Condition(p, 2) \o Visits(p, 3, 4)
             more == list \o <<Task("pop", p)>>
  <2>1. t.do = "visit" /\ ast[p].kind = "for" /\ Push(Scope(current, p))
        /\ Then(more) /\ UNCHANGED <<ast, hasReturn, reports, status>>
    BY <1>2, <1>6 DEF VisitFor, At
  <2>2. Replaces(more, t) /\ Keeps(more, p)
    BY <1>2, <2>1, ForReplaces
  <2>3. more # <<>>
    <3>1. Visits(p, 1, 1) \in Seq(Tasks)
      BY <1>2, FirstSlots DEF Lists
    <3>2. Condition(p, 2) \in Seq(Tasks)
      BY <1>2, <2>1, ConditionAt DEF Lists, Fits
    <3>3. Visits(p, 3, 4) \in Seq(Tasks)
      BY <1>2, VisitsAre DEF Lists
    <3>4. Visits(p, 1, 1) \o Condition(p, 2) \in Seq(Tasks)
      BY <3>1, <3>2, ConcatProperties
    <3>5. list \in Seq(Tasks)
      BY <3>3, <3>4, ConcatProperties
    <3> HIDE DEF list
    <3> QED BY <1>4, <3>5
  <2> HIDE DEF more
  <2>4. DescendsFar(p)
    BY <1>3, <2>1, <2>2, <2>3
  <2> QED BY <1>1, <2>1, <2>4 DEF Push
<1> QED BY <1>5, <1>6 DEF ScopedVisit

LEMMA Declarations ==
  ASSUME Inv, VisitDeclaration
  PROVE  LET p == agenda[1].at IN
         /\ \E more : /\ Turns(more)
                      /\ \A k \in 1 .. Len(more) : more[k].do = "initializer" /\ more[k].at = p
         /\ agenda[1].do = "visit" /\ agenda # <<>> /\ ast[p].kind = "declaration"
         /\ scopes' = [scopes EXCEPT ![current] = With(@, SymbolOf(p))]
         /\ reports' = reports \cup UnknownType(p) \cup Redeclared(p)
         /\ UNCHANGED <<ast, current, hasReturn, status>>
<1> DEFINE t == agenda[1]
           p == t.at
           more == IF Append(p, 1) \in DOMAIN ast THEN <<Task("initializer", p)>> ELSE <<>>
<1>1. status = "running" /\ agenda # <<>>
  BY DEF VisitDeclaration, At
<1>2. /\ Now = t /\ AgendaInv(agenda) /\ WellFormed(ast) /\ t \in Tasks /\ Fits(t)
      /\ p \in Path
  BY <1>1, NowIs
<1> HIDE DEF t
<1>3. /\ t.do = "visit" /\ ast[p].kind = "declaration" /\ Then(more)
      /\ scopes' = [scopes EXCEPT ![current] =
                      With(@, Symbol(ast[p].name, "variable", DeclaredType(p)))]
      /\ reports' = reports \cup UnknownType(p) \cup Redeclared(p)
      /\ UNCHANGED <<ast, current, hasReturn, status>>
  BY <1>2 DEF VisitDeclaration, At
<1>4. SymbolOf(p) = Symbol(ast[p].name, "variable", DeclaredType(p))
  BY <1>3 DEF SymbolOf, Declared
<1>5. Replaces(more, t)
  BY <1>2, <1>3, InitializerReplaces, NothingReplaces
<1>6. \A k \in 1 .. Len(more) : more[k].do = "initializer" /\ more[k].at = p
  BY <1>2, TaskIs DEF Doings
<1> HIDE DEF more
<1>7. Turns(more)
  BY <1>1, <1>2, <1>3, <1>5 DEF Turns, StepTo, Then, t
<1> QED BY <1>1, <1>3, <1>4, <1>6, <1>7 DEF t

LEMMA Functions ==
  ASSUME Inv, VisitFunction
  PROVE  LET f == agenda[1].at
             body == Append(f, ast[f].arity)
             leave == [do |-> "leave", at |-> f, saved |-> current]
             more == <<Task("visit", body), leave>>
         IN
         /\ Turns(more) /\ ~Awaited(more, f)
         /\ \A x \in Path : Awaited(more, x) <=> Above(body, x)
         /\ agenda[1].do = "visit" /\ agenda # <<>> /\ ast[f].kind = "function"
         /\ scopes' = Append([scopes EXCEPT ![current] = With(@, SymbolOf(f))],
                             ParameterScope(f))
         /\ current' = Len(scopes) + 1
         /\ reports' = reports \cup UnknownType(f) \cup Redeclared(f) \cup ParameterErrors(f)
         /\ hasReturn' = (hasReturn /\ ReturnType(f) = "void")
         /\ UNCHANGED <<ast, status>>
<1> DEFINE t == agenda[1]
           f == t.at
           n == ast[f].arity
           body == Append(f, n)
           leave == [do |-> "leave", at |-> f, saved |-> current]
           more == <<Task("visit", body), leave>>
<1>1. status = "running" /\ agenda # <<>>
  BY DEF VisitFunction, At
<1>2. /\ Now = t /\ AgendaInv(agenda) /\ WellFormed(ast) /\ t \in Tasks /\ Fits(t)
      /\ f \in Path /\ Structure(scopes, current, agenda)
  BY <1>1, NowIs
<1> HIDE DEF t
<1>3. /\ t.do = "visit" /\ ast[f].kind = "function"
      /\ Then(Visits(f, n, n) \o <<leave>>)
      /\ scopes' = Append([scopes EXCEPT ![current] =
                             With(@, Symbol(ast[f].name, "function", ReturnType(f)))],
                          ParameterScope(f))
      /\ current' = Len(scopes) + 1
      /\ reports' = reports \cup UnknownType(f) \cup Redeclared(f) \cup ParameterErrors(f)
      /\ hasReturn' = (hasReturn /\ ReturnType(f) = "void")
      /\ UNCHANGED <<ast, status>>
  BY <1>2 DEF VisitFunction, At
<1>4. SymbolOf(f) = Symbol(ast[f].name, "function", ReturnType(f))
  BY <1>3 DEF SymbolOf, Declared
<1>5. current \in Nat
  BY <1>2 DEF Structure
<1>6. /\ Replaces(more, t) /\ Visits(f, n, n) \o <<leave>> = more /\ ~Awaited(more, f)
      /\ \A x \in Path : Awaited(more, x) <=> Above(body, x)
  BY <1>2, <1>3, <1>5, FunctionReplaces
<1> HIDE DEF leave, more, body, n
<1>7. Turns(more)
  BY <1>1, <1>2, <1>3, <1>6 DEF Turns, StepTo, Then, t
<1> QED BY <1>1, <1>3, <1>4, <1>6, <1>7 DEF t, n, more, leave, body

-----------------------------------------------------------------------------
(* The invariant of the agenda and the scopes *)

\* A tree that stays means the same things after the step.
LEMMA SameTree ==
  ASSUME ast' = ast
  PROVE  /\ Declarers' = Declarers /\ (DOMAIN ast)' = DOMAIN ast
         /\ \A p : EnclosingScope(p)' = EnclosingScope(p)
         /\ \A d : Declared(d)' = Declared(d) /\ SymbolOf(d)' = SymbolOf(d)
         /\ \A p : HasScope(p)' <=> HasScope(p)
BY DEF Declarers, EnclosingScope, ScopeKinds, HasScope, SymbolOf, Declared, ReturnType,
       DeclaredType, Known, Symbol

LEMMA SameStructure ==
  ASSUME ast' = ast, Structure(scopes', current', agenda')
  PROVE  Structure(scopes, current, agenda)'
<1>1. /\ Declarers' = Declarers /\ \A p : EnclosingScope(p)' = EnclosingScope(p)
      /\ \A d : SymbolOf(d)' = SymbolOf(d) /\ \A p : HasScope(p)' <=> HasScope(p)
  BY SameTree
<1>2. AgendaInv(agenda)'
  <2>1. Nested(agenda)' <=> Nested(agenda')
    BY <1>1 DEF Nested, ScopeAt, ScopeAfter, PosOf, Ending
  <2>2. InOrder(agenda)' <=> InOrder(agenda')
    BY <1>1 DEF InOrder, PosOf, Ending
  <2>3. (\A i \in 1 .. Len(agenda) : Fits(agenda[i]))'
          <=> \A i \in 1 .. Len(agenda') : Fits(agenda'[i])
    BY DEF Fits, ExpressionKinds
  <2> QED BY <2>1, <2>2, <2>3 DEF AgendaInv, Ordered, Structure
<1>3. ScopesInv(scopes, agenda)'
  <2>1. FollowsTree(scopes)' <=> FollowsTree(scopes')
    BY <1>1 DEF FollowsTree
  <2>2. OneForEach(scopes, agenda)' <=> OneForEach(scopes', agenda')
    BY DEF OneForEach
  <2>3. \A d : IsFirst(d, agenda)' <=> IsFirst(d, agenda')
    BY <1>1 DEF IsFirst, SameName
  <2>4. (\A s \in 1 .. Len(scopes) : HasFirst(scopes[s], agenda))'
          <=> \A s \in 1 .. Len(scopes') : HasFirst(scopes'[s], agenda')
    BY <1>1, <2>3 DEF HasFirst
  <2> QED BY <2>1, <2>2, <2>4 DEF ScopesInv, Structure
<1>4. Leaves(scopes, agenda)'
  BY <1>1 DEF Leaves, Saves, Structure
<1>5. CurrentIs(scopes, current, agenda)'
  BY <1>1 DEF CurrentIs, ScopeAt, PosOf, Ending, Structure
<1> QED BY <1>2, <1>3, <1>4, <1>5 DEF Structure

LEMMA PlainStructure ==
  ASSUME Inv, PlainVisit
  PROVE  Structure(scopes', current', agenda')
<1> DEFINE p == agenda[1].at
<1>1. /\ Descends(p) /\ agenda[1].do = "visit" /\ agenda # <<>>
      /\ ast[p].kind \in { "program", "return", "if", "while", "expression",
              "unary", "binary", "call", "literal", "identifier" }
      /\ UNCHANGED <<ast, scopes, current>>
  BY PlainVisits
<1>2. PICK more : Turns(more) /\ Keeps(more, p)
  BY <1>1 DEF Descends
<1>3. status = "running" /\ StepTo(agenda, more, agenda')
  BY <1>2 DEF Turns
<1>4. /\ WellFormed(ast) /\ Structure(scopes, current, agenda)
      /\ p \in DOMAIN ast /\ p \in Path /\ agenda[1] \in Tasks /\ Fits(agenda[1])
  BY <1>1, <1>3, NowIs
<1>5. p = <<>> <=> ast[p].kind = "program"
  BY <1>4, VisitedNode
<1>6. \A d \in Declarers : ~Awaited(agenda', d) => ~Awaited(agenda, d)
  <2>1. \A d \in Declarers : d \in DOMAIN ast /\ d # p
    BY <1>1 DEF Declarers, DeclarerKinds
  <2> QED BY <1>1, <1>2, <1>3, <1>4, <2>1, OnlyHead
<1>7. ScopeAt(agenda[1]) = ScopeBelow(p) /\ agenda[1].do \notin Ending
  BY <1>1, <1>5 DEF ScopeAt, ScopeBelow, HasScope, ScopeKinds, PosOf, Ending
<1>8. \A k \in 1 .. Len(more) :
        more[k].do # "leave" /\ ScopeAt(more[k]) = ScopeAt(agenda[1])
  BY <1>2, <1>7 DEF Keeps
<1>9. Structure(scopes, current, agenda')
  BY <1>3, <1>4, <1>6, <1>7, <1>8, StructureSame
<1> QED BY <1>1, <1>9

LEMMA HeadStructure ==
  ASSUME Inv, Turns(<<>>), UNCHANGED <<scopes, current>>, agenda # <<>>,
         agenda[1].do \notin Ending,
         \A d \in Declarers : ~Awaited(agenda', d) => ~Awaited(agenda, d)
  PROVE  Structure(scopes', current', agenda')
<1>1. status = "running" /\ StepTo(agenda, <<>>, agenda')
  BY DEF Turns
<1>2. WellFormed(ast) /\ Structure(scopes, current, agenda)
  BY <1>1, NowIs
<1> DEFINE more == <<>>
<1>3. \A k \in 1 .. Len(more) :
        more[k].do # "leave" /\ ScopeAt(more[k]) = ScopeAt(agenda[1])
  OBVIOUS
<1>4. StepTo(agenda, more, agenda')
  BY <1>1
<1> HIDE DEF more
<1> QED BY <1>2, <1>3, <1>4, StructureSame

LEMMA CheckStructure ==
  ASSUME Inv, Check \/ VisitAssignment
  PROVE  Structure(scopes', current', agenda')
<1>1. /\ Turns(<<>>) /\ agenda # <<>> /\ UNCHANGED <<ast, scopes, current>>
      /\ \/ agenda[1].do \in {"initializer", "value", "condition", "operands"}
         \/ agenda[1].do = "visit" /\ ast[agenda[1].at].kind = "assignment"
  BY Checks, Assignments
<1>2. StepTo(agenda, <<>>, agenda') /\ WellFormed(ast) /\ agenda[1].at \in DOMAIN ast
  BY <1>1, NowIs DEF Turns
<1>3. ASSUME NEW d \in Declarers, ~Awaited(agenda', d)
      PROVE  ~Awaited(agenda, d)
  <2>1. d \in Path
    BY <1>2, DeclarersAre
  <2>2. CASE agenda[1].do # "visit"
    BY <1>2, <1>3, <2>1, <2>2, RestAwaited
  <2>3. CASE ast[agenda[1].at].kind = "assignment"
    <3>1. ~Above(agenda[1].at, d)
      BY <1>2, <2>3, NothingDeclared DEF ExpressionKinds
    <3> QED BY <1>2, <1>3, <2>1, <3>1, RestAwaited
  <2> QED BY <1>1, <2>2, <2>3
<1>4. agenda[1].do \notin Ending
  BY <1>1 DEF Ending
<1> QED BY <1>1, <1>3, <1>4, HeadStructure

LEMMA InvInit ==
  ASSUME Init PROVE Inv
BY DEF Init, Inv

\* The agenda and the scopes that an analysis begins with.
LEMMA AnalyzeStructure ==
  ASSUME Inv, Analyze
  PROVE  Structure(scopes', current', agenda')
<1> DEFINE t == Task("visit", <<>>)
           a == <<t>>
           root == Scope(0, <<>>)
           sc == <<root>>
<1>1. WellFormed(ast) /\ agenda' = a /\ scopes' = sc /\ current' = 1
  BY Trees DEF Analyze
<1>2. <<>> \in DOMAIN ast /\ <<>> \in Path /\ ast[<<>>].kind = "program"
  BY <1>1, NodesArePaths
<1>3. t \in Tasks /\ t.do = "visit" /\ t.at = <<>>
  BY <1>2, TaskIs DEF Doings
<1>4. root \in ScopeSet /\ root.at = <<>> /\ root.parent = 0 /\ root.symbols = {}
  BY <1>2, EmptyScope
<1> HIDE DEF t, root
<1>5. Fits(t)
  BY <1>2, <1>3 DEF Fits
<1>6. a \in Seq(Tasks) /\ Len(a) = 1 /\ a[1] = t /\ a # <<>>
  BY <1>3
<1>7. sc \in Seq(ScopeSet) /\ Len(sc) = 1 /\ sc[1] = root
  BY <1>4
<1> HIDE DEF a, sc
<1>8. ASSUME NEW d \in Path PROVE Awaits(a, 1, d)
  BY <1>3, <1>6 DEF Awaits, Above
<1>9. \A i \in 1 .. Len(a) : i = 1
  BY <1>6
<1>10. InOrder(a)
  <2> SUFFICES ASSUME NEW d \in Declarers
      PROVE  Precedes(d, PosOf(t)) <=> ~Awaits(a, 1, d)
    BY <1>6, <1>9 DEF InOrder
  <2>1. d \in Path /\ d # <<>>
    BY <1>1, DeclarersAre
  <2>2. Above(<<>>, d)
    BY <2>1 DEF Above, Path
  <2>3. ~Precedes(d, <<>>)
    BY <1>2, <2>1, <2>2, PrecedesOrder
  <2> QED BY <1>3, <1>8, <2>1, <2>3 DEF PosOf
<1>11. Apart(a) /\ Nested(a)
  BY <1>6 DEF Apart, Nested
<1>12. AgendaInv(a)
  BY <1>5, <1>6, <1>9, <1>10, <1>11 DEF AgendaInv, Ordered
<1>13. \A s \in 1 .. Len(sc) : s = 1 /\ sc[s] = root
  BY <1>7
<1>14. FollowsTree(sc) /\ OneForEach(sc, a)
  BY <1>2, <1>4, <1>13 DEF FollowsTree, OneForEach, HasScope, ScopeKinds
<1>15. HasFirst(root, a)
  <2>1. \A d \in Declarers : Awaited(a, d)
    BY <1>1, <1>8, DeclarersAre DEF Awaited
  <2> QED BY <1>4, <2>1 DEF HasFirst
<1>16. ScopesInv(sc, a)
  BY <1>7, <1>13, <1>14, <1>15 DEF ScopesInv
<1>17. Leaves(sc, a)
  BY <1>3, <1>6, <1>9 DEF Leaves, Saves
<1>18. CurrentIs(sc, 1, a) /\ 1 \in 0 .. Len(sc)
  BY <1>3, <1>4, <1>6, <1>7 DEF CurrentIs, ScopeAt
<1> QED BY <1>1, <1>12, <1>16, <1>17, <1>18 DEF Structure

LEMMA InvNext ==
  ASSUME Inv, [Next]_vars PROVE Inv'
<1>1. CASE UNCHANGED vars
  <2>1. ast' = ast /\ agenda' = agenda /\ scopes' = scopes /\ current' = current
        /\ status' = status
    BY <1>1 DEF vars
  <2>2. status # "start" => Structure(scopes, current, agenda)'
    BY <2>1, SameStructure DEF Inv
  <2> QED BY <2>1, <2>2 DEF Inv
<1>2. ASSUME status = "running", ast' = ast, status' \in {"running", "crashed"},
             Structure(scopes', current', agenda')
      PROVE  Inv'
  BY <1>2, SameStructure DEF Inv
<1>3. \A paths, errors : Checked(paths, errors) => status' \in {"crashed", status}
  BY DEF Checked
<1>4. CASE Analyze
  BY <1>4, AnalyzeStructure, SameStructure DEF Inv, Analyze
<1>5. CASE PlainVisit
  <2>1. status = "running" /\ status' \in {"running", "crashed"} /\ ast' = ast
    BY <1>3, <1>5 DEF PlainVisit, VisitProgram, VisitReturn, VisitIfOrWhile, VisitOperand,
       VisitBinary, VisitCall, VisitLeaf, At
  <2> QED BY <1>2, <1>5, <2>1, PlainStructure
<1>6. CASE Check \/ VisitAssignment
  <2>1. status = "running" /\ status' \in {"running", "crashed"} /\ ast' = ast
    BY <1>3, <1>6 DEF Check, CheckInitializer, CheckReturn, CheckCondition, CheckOperands,
       VisitAssignment, At
  <2> QED BY <1>2, <1>6, <2>1, CheckStructure
<1>7. CASE ScopedVisit
  <2> DEFINE p == agenda[1].at
  <2>1. /\ DescendsFar(p) /\ agenda[1].do = "visit" /\ agenda # <<>>
        /\ ast[p].kind \in {"block", "for"}
        /\ scopes' = Append(scopes, Scope(current, p))
        /\ current' = Len(scopes) + 1
        /\ UNCHANGED <<ast, hasReturn, reports, status>>
    BY <1>7, ScopedVisits
  <2>2. PICK more : Turns(more) /\ Keeps(more, p) /\ more # <<>>
    BY <2>1 DEF DescendsFar
  <2>3. status = "running" /\ StepTo(agenda, more, agenda')
    BY <2>2 DEF Turns
  <2>4. WellFormed(ast) /\ Structure(scopes, current, agenda)
    BY <2>1, <2>3, NowIs
  <2>5. Structure(scopes', current', agenda')
    BY <2>1, <2>2, <2>3, <2>4, StructurePush
  <2> QED BY <1>2, <2>1, <2>3, <2>5
<1>8. CASE PopScope \/ LeaveFunction
  <2>1. /\ Turns(<<>>) /\ agenda # <<>> /\ agenda[1].do \in Ending
        /\ UNCHANGED <<ast, scopes, status>>
        /\ current' = IF agenda[1].do = "leave" THEN agenda[1].saved
                      ELSE IF scopes[current].parent = 0 THEN current
                      ELSE scopes[current].parent
    BY <1>8, Leavings
  <2>2. status = "running" /\ StepTo(agenda, <<>>, agenda')
    BY <2>1 DEF Turns
  <2>3. WellFormed(ast) /\ Structure(scopes, current, agenda)
    BY <2>1, <2>2, NowIs
  <2>4. Structure(scopes, current', agenda')
    BY <2>1, <2>2, <2>3, StructureBack
  <2> QED BY <1>2, <2>1, <2>2, <2>4
<1>9. CASE VisitDeclaration
  <2> DEFINE p == agenda[1].at
  <2>1. /\ \E more : /\ Turns(more)
                     /\ \A k \in 1 .. Len(more) : more[k].do = "initializer" /\ more[k].at = p
        /\ agenda[1].do = "visit" /\ agenda # <<>> /\ ast[p].kind = "declaration"
        /\ scopes' = [scopes EXCEPT ![current] = With(@, SymbolOf(p))]
        /\ UNCHANGED <<ast, current, status>>
    BY <1>9, Declarations
  <2>2. PICK more : /\ Turns(more)
                    /\ \A k \in 1 .. Len(more) : more[k].do = "initializer" /\ more[k].at = p
    BY <2>1
  <2>3. status = "running" /\ StepTo(agenda, more, agenda')
    BY <2>2 DEF Turns
  <2>4. WellFormed(ast) /\ Structure(scopes, current, agenda)
    BY <2>1, <2>3, NowIs
  <2>5. Structure([scopes EXCEPT ![current] = With(@, SymbolOf(p))], current, agenda')
    <3>1. \A k \in 1 .. Len(more) : more[k].do = "initializer" /\ more[k].at = p
      BY <2>2
    <3>2. agenda[1].do = "visit" /\ p = agenda[1].at /\ ast[p].kind = "declaration"
      BY <2>1
    <3>3. StepTo(agenda, more, agenda')
      BY <2>3
    <3> HIDE DEF p
    <3> QED BY <2>4, <3>1, <3>2, <3>3, StructureDeclare
  <2> QED BY <1>2, <2>1, <2>3, <2>5
<1>10. CASE VisitFunction
  <2> DEFINE f == agenda[1].at
             body == Append(f, ast[f].arity)
             leave == [do |-> "leave", at |-> f, saved |-> current]
             more == <<Task("visit", body), leave>>
  <2>1. /\ Turns(more) /\ \A x \in Path : Awaited(more, x) <=> Above(body, x)
        /\ agenda[1].do = "visit" /\ agenda # <<>> /\ ast[f].kind = "function"
        /\ scopes' = Append([scopes EXCEPT ![current] = With(@, SymbolOf(f))],
                            ParameterScope(f))
        /\ current' = Len(scopes) + 1 /\ UNCHANGED <<ast, status>>
    BY <1>10, Functions
  <2>2. status = "running" /\ StepTo(agenda, more, agenda')
    BY <2>1 DEF Turns
  <2>3. WellFormed(ast) /\ Structure(scopes, current, agenda)
    BY <2>1, <2>2, NowIs
  <2>4. Structure(Append([scopes EXCEPT ![current] = With(@, SymbolOf(f))],
                         ParameterScope(f)), Len(scopes) + 1, agenda')
    BY <2>1, <2>2, <2>3, StructureFunction
  <2> QED BY <1>2, <2>1, <2>2, <2>4
<1>11. CASE Finish
  <2>1. /\ status = "running" /\ agenda = <<>> /\ status' = "done" /\ current' = 0
        /\ UNCHANGED <<ast, agenda, scopes>>
    BY <1>11 DEF Finish
  <2>2. Structure(scopes, current, agenda)
    BY <2>1 DEF Inv
  <2>3. Structure(scopes', current', agenda')
    <3>1. Len(scopes) \in Nat
      BY <2>2, LenProperties DEF Structure, ScopesInv
    <3>2. 0 \in 0 .. Len(scopes)
      BY <3>1
    <3> QED BY <2>1, <2>2, <3>2 DEF Structure, CurrentIs
  <2> QED BY <2>1, <2>3, SameStructure DEF Inv
<1>12. CASE Terminated
  BY <1>1, <1>12 DEF Terminated
<1> QED BY <1>1, <1>4, <1>5, <1>6, <1>7, <1>8, <1>9, <1>10, <1>11, <1>12
        DEF Next, PlainVisit, Check, ScopedVisit

\* The invariant of the agenda and of the scopes: the current scope is the one
\* that the next task stands in, and each scope knows what was declared there.
THEOREM StructureInvariant == Spec => []Inv
<1>1. Init => Inv
  BY InvInit
<1>2. Inv /\ [Next]_vars => Inv'
  BY InvNext
<1> QED BY <1>1, <1>2, PTL DEF Spec

-----------------------------------------------------------------------------
(* SymbolScope::lookup *)

\* The rule that lookup is made of, for the first n scopes.
IsFind(f, name, n) ==
  f = [s \in 0 .. n |-> IF s = 0 \/ LocalSymbols(s, name) # {} THEN s
                        ELSE f[scopes[s].parent]]

LEMMA FindExists ==
  ASSUME NEW name, NEW n \in Nat, \A s \in 1 .. n : scopes[s].parent \in 0 .. s - 1
  PROVE  \E f : IsFind(f, name, n)
<1> DEFINE T == {k \in Nat : k <= n /\ ~ \E f : IsFind(f, name, k)}
<1>1. SUFFICES ASSUME T # {} PROVE FALSE
  OBVIOUS
<1>2. PICK m \in T : \A k \in T : m <= k
  <2>1. T \subseteq Nat
    OBVIOUS
  <2> HIDE DEF T
  <2> QED BY <1>1, <2>1, LeastNumber
<1>3. m # 0
  <2>1. IsFind([s \in 0 .. 0 |-> 0], name, 0)
    BY DEF IsFind
  <2> QED BY <1>2, <2>1
<1>4. m \in Nat /\ m - 1 \in Nat /\ m <= n /\ m - 1 \notin T /\ m - 1 <= n
  <2>1. m \in Nat /\ m <= n
    OBVIOUS
  <2> HIDE DEF T
  <2> QED BY <1>2, <1>3, <2>1
<1>5. PICK f : IsFind(f, name, m - 1)
  BY <1>4
<1> DEFINE last == IF LocalSymbols(m, name) # {} THEN m ELSE f[scopes[m].parent]
           g == [s \in 0 .. m |-> IF s = m THEN last ELSE f[s]]
           new == [s \in 0 .. m |-> IF s = 0 \/ LocalSymbols(s, name) # {} THEN s
                                    ELSE g[scopes[s].parent]]
<1> HIDE DEF T
<1>6. ASSUME NEW s \in 0 .. m
      PROVE  g[s] = new[s]
  <2>1. s # 0 => /\ scopes[s].parent \in 0 .. m /\ scopes[s].parent # m
                 /\ scopes[s].parent \in 0 .. m - 1
    BY <1>4
  <2>2. s # 0 => g[scopes[s].parent] = f[scopes[s].parent]
    BY <2>1
  <2>3. new[s] = IF s = 0 \/ LocalSymbols(s, name) # {} THEN s ELSE g[scopes[s].parent]
    OBVIOUS
  <2>4. g[s] = IF s = m THEN last ELSE f[s]
    OBVIOUS
  <2> HIDE DEF g, new
  <2>5. CASE s = m
    BY <1>3, <2>2, <2>3, <2>4, <2>5
  <2>6. CASE s # m
    <3>1. s \in 0 .. m - 1
      BY <1>4, <2>6
    <3>2. f[s] = IF s = 0 \/ LocalSymbols(s, name) # {} THEN s ELSE f[scopes[s].parent]
      BY <1>5, <3>1 DEF IsFind
    <3> QED BY <2>2, <2>3, <2>4, <2>6, <3>2
  <2> QED BY <2>5, <2>6
<1>7. g = new
  BY <1>6
<1>8. IsFind(g, name, m)
  BY <1>7 DEF IsFind
<1> QED BY <1>2, <1>8 DEF T

\* m is the nearest of the scopes around s that has the name, 0 when none has.
Nearest(name, s, m) ==
  \/ m = 0 /\ \A q \in 1 .. Len(scopes) :
                Above(scopes[q].at, scopes[s].at) => LocalSymbols(q, name) = {}
  \/ /\ m \in 1 .. Len(scopes) /\ Above(scopes[m].at, scopes[s].at)
     /\ LocalSymbols(m, name) # {}
     /\ \A q \in 1 .. Len(scopes) :
          Above(scopes[q].at, scopes[s].at) /\ LocalSymbols(q, name) # {} =>
            Above(scopes[q].at, scopes[m].at)

\* The scopes around one are it and those around its parent.
LEMMA AroundScope ==
  ASSUME WellFormed(ast), scopes \in Seq(ScopeSet), FollowsTree(scopes),
         \A s, q \in 1 .. Len(scopes) : scopes[s].at = scopes[q].at => s = q,
         NEW s \in 1 .. Len(scopes)
  PROVE  /\ Above(scopes[s].at, scopes[s].at) /\ scopes[s].parent \in 0 .. s - 1
         /\ scopes[s].parent = 0 => scopes[s].at = <<>>
         /\ scopes[s].parent # 0 =>
              /\ scopes[s].parent \in 1 .. Len(scopes)
              /\ Above(scopes[scopes[s].parent].at, scopes[s].at)
         /\ \A e \in DOMAIN ast :
              Above(e, scopes[s].at) /\ e # scopes[s].at /\ HasScope(e) =>
                scopes[s].parent # 0 /\ Above(e, scopes[scopes[s].parent].at)
<1> DEFINE p == scopes[s].at
           r == scopes[s].parent
<1>1. p \in Path /\ Len(scopes) \in Nat /\ p \in DOMAIN ast /\ DOMAIN ast \subseteq Path
  BY AtSequences, NodesArePaths DEF FollowsTree
<1>2. Above(p, p)
  BY <1>1, AboveOrder
<1>3. CASE p = <<>>
  <2>1. r = 0
    BY <1>3 DEF FollowsTree
  <2>2. ASSUME NEW e \in DOMAIN ast, Above(e, p)
        PROVE  e = p
    <3>1. e \in Path /\ Len(e) \in Nat /\ Len(e) <= 0
      BY <1>1, <1>3, <2>2 DEF Above, Path
    <3> QED BY <1>3, <3>1, EmptySeq DEF Path
  <2> QED BY <1>2, <1>3, <2>1, <2>2
<1>4. CASE p # <<>>
  <2>1. r \in 1 .. s - 1 /\ scopes[r].at = EnclosingScope(p)
    BY <1>4 DEF FollowsTree
  <2>2. /\ Above(EnclosingScope(p), p)
        /\ \A e \in DOMAIN ast : Above(e, p) /\ e # p /\ HasScope(e) =>
             Above(e, EnclosingScope(p))
    BY <1>1, <1>4, EnclosingIs
  <2>3. r \in 1 .. Len(scopes) /\ r \in 0 .. s - 1 /\ r # 0
    BY <1>1, <2>1
  <2> HIDE DEF r
  <2>4. \A e \in DOMAIN ast : Above(e, p) /\ e # p /\ HasScope(e) => Above(e, scopes[r].at)
    BY <2>1, <2>2
  <2> QED BY <1>2, <2>1, <2>2, <2>3, <2>4 DEF r
<1> QED BY <1>3, <1>4

\* Each node with a scope that stands around a scope has been given its own.
LEMMA ScopesAround ==
  ASSUME WellFormed(ast), scopes \in Seq(ScopeSet), FollowsTree(scopes),
         \A s, q \in 1 .. Len(scopes) : scopes[s].at = scopes[q].at => s = q,
         NEW s \in 1 .. Len(scopes), NEW e \in DOMAIN ast, HasScope(e), Above(e, scopes[s].at)
  PROVE  \E q \in 1 .. Len(scopes) : scopes[q].at = e
<1> DEFINE T == {k \in 1 .. Len(scopes) : Above(e, scopes[k].at)}
<1>1. T \subseteq Nat /\ s \in T
  OBVIOUS
<1>2. PICK m \in T : \A k \in T : m <= k
  BY <1>1, LeastNumber
<1>3. m \in 1 .. Len(scopes) /\ Above(e, scopes[m].at)
  OBVIOUS
<1>4. CASE e = scopes[m].at
  BY <1>3, <1>4
<1>5. CASE e # scopes[m].at
  <2>1. /\ scopes[m].parent # 0 /\ Above(e, scopes[scopes[m].parent].at)
        /\ scopes[m].parent \in 0 .. m - 1 /\ scopes[m].parent \in 1 .. Len(scopes)
    BY <1>3, <1>5, AroundScope
  <2>2. scopes[m].parent \in T /\ ~(m <= scopes[m].parent)
    BY <1>3, <2>1
  <2> HIDE DEF T
  <2> QED BY <1>2, <2>2
<1> QED BY <1>4, <1>5

LEMMA FindIsNearest ==
  ASSUME WellFormed(ast), scopes \in Seq(ScopeSet), FollowsTree(scopes),
         \A s, q \in 1 .. Len(scopes) : scopes[s].at = scopes[q].at => s = q,
         NEW name, NEW f, IsFind(f, name, Len(scopes)), NEW s \in 1 .. Len(scopes)
  PROVE  Nearest(name, s, f[s])
<1> DEFINE T == {k \in 1 .. Len(scopes) : ~Nearest(name, k, f[k])}
<1>1. SUFFICES ASSUME T # {} PROVE FALSE
  OBVIOUS
<1>2. PICK m \in T : \A k \in T : m <= k
  <2>1. T \subseteq Nat
    OBVIOUS
  <2> HIDE DEF T
  <2> QED BY <1>1, <2>1, LeastNumber
<1>3. m \in 1 .. Len(scopes) /\ ~Nearest(name, m, f[m])
  OBVIOUS
<1> DEFINE r == scopes[m].parent
           p == scopes[m].at
<1>4. /\ Above(p, p) /\ r \in 0 .. m - 1
      /\ r = 0 => p = <<>>
      /\ r # 0 => r \in 1 .. Len(scopes) /\ Above(scopes[r].at, p)
      /\ \A e \in DOMAIN ast :
           Above(e, p) /\ e # p /\ HasScope(e) => r # 0 /\ Above(e, scopes[r].at)
  BY <1>3, AroundScope
<1>5. \A q \in 1 .. Len(scopes) :
        scopes[q].at \in DOMAIN ast /\ HasScope(scopes[q].at) /\ scopes[q].at \in Path
  BY AtSequences DEF FollowsTree
<1>6. \A q \in 1 .. Len(scopes) :
        Above(scopes[q].at, p) => q = m \/ (r # 0 /\ Above(scopes[q].at, scopes[r].at))
  BY <1>3, <1>4, <1>5
<1>7. Len(scopes) \in Nat /\ m \in 0 .. Len(scopes) /\ m # 0 /\ 0 \in 0 .. Len(scopes)
  BY <1>3, LenProperties
<1>8. f[m] = IF LocalSymbols(m, name) # {} THEN m ELSE f[r]
  BY <1>7 DEF IsFind
<1>9. f[0] = 0
  BY <1>7 DEF IsFind
<1>10. CASE LocalSymbols(m, name) # {}
  <2>1. f[m] = m
    BY <1>8, <1>10
  <2> HIDE DEF p
  <2>2. Nearest(name, m, m)
    BY <1>3, <1>4, <1>10 DEF Nearest, p
  <2> QED BY <1>3, <2>1, <2>2
<1>11. CASE LocalSymbols(m, name) = {} /\ r = 0
  <2>1. f[m] = 0
    BY <1>8, <1>9, <1>11
  <2>2. Nearest(name, m, 0)
    BY <1>6, <1>11 DEF Nearest
  <2> QED BY <1>3, <2>1, <2>2
<1>12. CASE LocalSymbols(m, name) = {} /\ r # 0
  <2>1. f[m] = f[r] /\ r \in 1 .. Len(scopes) /\ Above(scopes[r].at, p)
    BY <1>4, <1>8, <1>12
  <2>2. Nearest(name, r, f[r])
    <3>1. ~(m <= r)
      BY <1>4, <1>7
    <3> HIDE DEF r
    <3>2. r \notin T
      <4> HIDE DEF T
      <4> QED BY <1>2, <3>1
    <3> QED BY <2>1, <3>2
  <2> HIDE DEF T, r, p
  <2>3. CASE f[r] = 0 /\ \A q \in 1 .. Len(scopes) :
                Above(scopes[q].at, scopes[r].at) => LocalSymbols(q, name) = {}
    <3>1. Nearest(name, m, 0)
      BY <1>6, <1>12, <2>3 DEF Nearest, p
    <3> QED BY <1>3, <2>1, <2>3, <3>1
  <2> DEFINE g == f[r]
  <2>4. CASE /\ g \in 1 .. Len(scopes) /\ Above(scopes[g].at, scopes[r].at)
             /\ LocalSymbols(g, name) # {}
             /\ \A q \in 1 .. Len(scopes) :
                  Above(scopes[q].at, scopes[r].at) /\ LocalSymbols(q, name) # {} =>
                    Above(scopes[q].at, scopes[g].at)
    <3> HIDE DEF g
    <3>1. Above(scopes[g].at, p)
      BY <1>3, <1>5, <2>1, <2>4, AboveOrder DEF p
    <3>2. Nearest(name, m, g)
      BY <1>6, <1>12, <2>4, <3>1 DEF Nearest, p
    <3> QED BY <1>3, <2>1, <3>2 DEF g
  <2> QED BY <2>2, <2>3, <2>4 DEF Nearest
<1> QED BY <1>10, <1>11, <1>12

LEMMA LookupIs ==
  ASSUME WellFormed(ast), scopes \in Seq(ScopeSet), FollowsTree(scopes),
         \A s, q \in 1 .. Len(scopes) : scopes[s].at = scopes[q].at => s = q,
         NEW name, current \in 0 .. Len(scopes)
  PROVE  /\ current = 0 => Lookup(name) = {}
         /\ current # 0 =>
              \E m : /\ Nearest(name, current, m)
                     /\ Lookup(name) = IF m = 0 THEN {} ELSE LocalSymbols(m, name)
<1> DEFINE find[s \in 0 .. Len(scopes)] ==
             IF s = 0 \/ LocalSymbols(s, name) # {} THEN s ELSE find[scopes[s].parent]
<1>1. Len(scopes) \in Nat
  BY LenProperties
<1>2. \A s \in 1 .. Len(scopes) : scopes[s].parent \in 0 .. s - 1
  BY AroundScope
<1>3. PICK f : IsFind(f, name, Len(scopes))
  BY <1>1, <1>2, FindExists
<1>4. f = [s \in 0 .. Len(scopes) |->
             IF s = 0 \/ LocalSymbols(s, name) # {} THEN s ELSE f[scopes[s].parent]]
  BY <1>3 DEF IsFind
<1>5. find = [s \in 0 .. Len(scopes) |->
             IF s = 0 \/ LocalSymbols(s, name) # {} THEN s ELSE find[scopes[s].parent]]
  BY <1>4
<1>6. Lookup(name) = IF find[current] = 0 THEN {} ELSE LocalSymbols(find[current], name)
  BY DEF Lookup
<1> HIDE DEF find
<1>7. IsFind(find, name, Len(scopes))
  BY <1>5 DEF IsFind
<1>8. CASE current = 0
  <2>1. find[0] = 0
    BY <1>1, <1>7 DEF IsFind
  <2> QED BY <1>6, <1>8, <2>1
<1>9. CASE current # 0
  <2>1. current \in 1 .. Len(scopes)
    BY <1>1, <1>9
  <2>2. Nearest(name, current, find[current])
    BY <1>7, <2>1, FindIsNearest
  <2> QED BY <1>6, <1>9, <2>2
<1> QED BY <1>8, <1>9

-----------------------------------------------------------------------------
(* Lexical scoping *)

\* Each symbol of a scope is the first declaration of its name.
LEMMA OneSymbol ==
  ASSUME WellFormed(ast), NEW scope, NEW a, HasFirst(scope, a), NEW name,
         NEW y \in {x \in scope.symbols : x.name = name}
  PROVE  \E d \in Declarers :
           /\ IsFirst(d, a) /\ EnclosingScope(d) = scope.at /\ ast[d].name = name
           /\ {x \in scope.symbols : x.name = name} = {SymbolOf(d)}
<1> DEFINE here == {x \in scope.symbols : x.name = name}
<1>1. ASSUME NEW x \in here
      PROVE  \E d \in Declarers :
               /\ IsFirst(d, a) /\ EnclosingScope(d) = scope.at
               /\ ast[d].name = name /\ x = SymbolOf(d)
  <2>1. PICK d \in Declarers :
          IsFirst(d, a) /\ EnclosingScope(d) = scope.at /\ x = SymbolOf(d)
    BY DEF HasFirst
  <2>2. ast[d].name = name
    BY <2>1, SymbolIs
  <2> QED BY <2>1, <2>2
<1>2. PICK d \in Declarers : /\ IsFirst(d, a) /\ EnclosingScope(d) = scope.at
                             /\ ast[d].name = name /\ y = SymbolOf(d)
  BY <1>1
<1>3. ASSUME NEW x \in here
      PROVE  x = SymbolOf(d)
  <2>1. PICK e \in Declarers : /\ IsFirst(e, a) /\ EnclosingScope(e) = scope.at
                               /\ ast[e].name = name /\ x = SymbolOf(e)
    BY <1>1
  <2>2. ASSUME e # d PROVE FALSE
    <3>1. Precedes(d, e) /\ Precedes(e, d)
      BY <1>2, <2>1, <2>2 DEF IsFirst, SameName
    <3> QED BY <3>1, PrecedesOrder, DeclarersAre
  <2> QED BY <2>1, <2>2
<1>4. y \in here
  OBVIOUS
<1> HIDE DEF here
<1>5. here = {SymbolOf(d)}
  BY <1>2, <1>3, <1>4
<1> QED BY <1>2, <1>5 DEF here

\* What is visible where the analyzer is.
LEMMA VisibleIs ==
  ASSUME Inv, status = "running", agenda # <<>>, Now.do \notin Ending, NEW name
  PROVE  LET E == ScopeAt(Now) IN
         /\ E \in DOMAIN ast /\ HasScope(E)
         /\ Visible(name, Position) =
              {d \in Declarers : /\ ast[d].name = name /\ ~Awaited(agenda, d)
                                 /\ Above(EnclosingScope(d), E)}
<1> DEFINE P == PosOf(Now)
           E == ScopeAt(Now)
<1>1. /\ Now = agenda[1] /\ AgendaInv(agenda) /\ Fits(Now) /\ WellFormed(ast)
      /\ Now.at \in DOMAIN ast /\ Now.at \in Path /\ Position = P /\ Now \in Tasks
  BY NowIs DEF Position, PosOf
<1>2. P \in DOMAIN ast /\ P \in Path /\ DOMAIN ast \subseteq Path
  BY <1>1, NodesArePaths DEF PosOf, Fits
<1>3. /\ P = <<>> => E = <<>> /\ HasScope(E)
      /\ P # <<>> => E = EnclosingScope(P)
  <2>1. CASE Now.at = <<>>
    <3>1. ast[<<>>].kind = "program" /\ HasScope(<<>>)
      BY <1>1, NodesArePaths DEF HasScope, ScopeKinds
    <3>2. Now.do # "initializer"
      BY <1>1, <2>1, <3>1 DEF Fits
    <3> QED BY <2>1, <3>1, <3>2 DEF PosOf, ScopeAt
  <2>2. CASE Now.at # <<>>
    <3>1. P # <<>>
      <4>1. Append(Now.at, 1) # <<>>
        BY <1>1, ChildIs
      <4> QED BY <2>2, <4>1 DEF PosOf
    <3> QED BY <2>2, <3>1 DEF ScopeAt
  <2> QED BY <2>1, <2>2
<1> HIDE DEF P, E
<1>4. /\ E \in DOMAIN ast /\ HasScope(E) /\ E \in Path
      /\ P # <<>> => /\ Above(E, P)
                     /\ \A r \in DOMAIN ast : Above(r, P) /\ r # P /\ HasScope(r) => Above(r, E)
  BY <1>1, <1>2, <1>3, EnclosingIs
<1>5. ASSUME NEW d \in Declarers
      PROVE  /\ Precedes(d, P) <=> ~Awaited(agenda, d)
             /\ Precedes(d, P) =>
                  (IsPrefix(EnclosingScope(d), P) <=> Above(EnclosingScope(d), E))
  <2>1. d \in Path /\ d \in DOMAIN ast /\ d # <<>>
    BY <1>1, DeclarersAre
  <2> DEFINE e == EnclosingScope(d)
  <2>2. e \in DOMAIN ast /\ e \in Path /\ HasScope(e) /\ Above(e, d)
    BY <1>1, <1>2, <2>1, EnclosingIs
  <2> HIDE DEF e
  <2>3. Precedes(d, P) <=> ~Awaited(agenda, d)
    <3>1. 1 \in 1 .. Len(agenda)
      BY <1>1, HeadIs
    <3> QED BY <1>1, <3>1 DEF AgendaInv, Ordered, InOrder, Awaited, P
  <2>4. IsPrefix(e, P) <=> Above(e, P)
    BY <1>2, <2>2, AboveIs
  <2>5. ASSUME Precedes(d, P)
        PROVE  Above(e, P) <=> Above(e, E)
    <3>1. e # P
      BY <1>2, <2>1, <2>2, <2>5, PrecedesOrder
    <3>2. P # <<>>
      <4>1. Above(<<>>, d)
        BY <2>1 DEF Above, Path
      <4> QED BY <1>2, <2>1, <2>5, <4>1, PrecedesOrder
    <3>3. Above(e, P) => Above(e, E)
      BY <1>4, <2>2, <3>1, <3>2
    <3>4. Above(e, E) => Above(e, P)
      BY <1>2, <1>4, <2>2, <3>2, AboveOrder
    <3> QED BY <3>3, <3>4
  <2> QED BY <2>3, <2>4, <2>5 DEF e
<1>6. Visible(name, P) = {d \in Declarers : /\ ast[d].name = name /\ ~Awaited(agenda, d)
                                            /\ Above(EnclosingScope(d), E)}
  BY <1>5 DEF Visible
<1> QED BY <1>1, <1>4, <1>6 DEF E

\* What is looked up is the symbol of the declaration that the name resolves to.
LEMMA LookupResolves ==
  ASSUME Inv, status = "running", agenda # <<>>, Now.do \notin Ending, NEW name
  PROVE  Lookup(name) = {SymbolOf(d) : d \in Resolve(name, Position)}
<1> DEFINE V == Visible(name, Position)
           E == ScopeAt(Now)
<1>1. /\ Now = agenda[1] /\ WellFormed(ast) /\ Structure(scopes, current, agenda)
  BY NowIs
<1>2. /\ scopes \in Seq(ScopeSet) /\ FollowsTree(scopes) /\ Len(scopes) \in Nat
      /\ \A s, q \in 1 .. Len(scopes) : scopes[s].at = scopes[q].at => s = q
      /\ \A s \in 1 .. Len(scopes) : HasFirst(scopes[s], agenda)
      /\ current \in 1 .. Len(scopes) /\ scopes[current].at = E
      /\ current # 0 /\ current \in 0 .. Len(scopes)
  <2>1. /\ scopes \in Seq(ScopeSet) /\ FollowsTree(scopes) /\ Len(scopes) \in Nat
        /\ OneForEach(scopes, agenda)
        /\ \A s \in 1 .. Len(scopes) : HasFirst(scopes[s], agenda)
    BY <1>1, LenProperties DEF Structure, ScopesInv
  <2>2. current \in 1 .. Len(scopes) /\ scopes[current].at = E
    BY <1>1 DEF Structure, CurrentIs
  <2> QED BY <2>1, <2>2 DEF OneForEach
<1>3. /\ E \in DOMAIN ast /\ HasScope(E)
      /\ V = {d \in Declarers : /\ ast[d].name = name /\ ~Awaited(agenda, d)
                                /\ Above(EnclosingScope(d), E)}
  BY VisibleIs
<1>4. PICK m : /\ Nearest(name, current, m)
               /\ Lookup(name) = IF m = 0 THEN {} ELSE LocalSymbols(m, name)
  BY <1>1, <1>2, LookupIs
<1> HIDE DEF V, E
\* A visible declaration is in a scope around the current one.
<1>5. ASSUME NEW d \in V
      PROVE  \E q \in 1 .. Len(scopes) :
               /\ scopes[q].at = EnclosingScope(d) /\ Above(scopes[q].at, E)
               /\ LocalSymbols(q, name) # {}
  <2>1. /\ d \in Declarers /\ ast[d].name = name /\ ~Awaited(agenda, d)
        /\ Above(EnclosingScope(d), E)
    BY <1>3
  <2>2. EnclosingScope(d) \in DOMAIN ast /\ HasScope(EnclosingScope(d))
    BY <1>1, <2>1, DeclarersAre, EnclosingIs
  <2>3. PICK q \in 1 .. Len(scopes) : scopes[q].at = EnclosingScope(d)
    BY <1>1, <1>2, <2>1, <2>2, ScopesAround
  <2>4. HasFirst(scopes[q], agenda)
    BY <1>2
  <2>5. \E y \in scopes[q].symbols : y.name = ast[d].name
    BY <2>1, <2>3, <2>4 DEF HasFirst
  <2>6. LocalSymbols(q, name) # {}
    BY <2>1, <2>5 DEF LocalSymbols
  <2> QED BY <2>1, <2>3, <2>6
<1>6. CASE m = 0
  <2>1. \A q \in 1 .. Len(scopes) :
          Above(scopes[q].at, E) => LocalSymbols(q, name) = {}
    BY <1>2, <1>4, <1>6 DEF Nearest
  <2>2. V = {}
    BY <1>5, <2>1
  <2>3. Resolve(name, Position) = {}
    BY <2>2 DEF Resolve, V
  <2> QED BY <1>4, <1>6, <2>3
<1>7. CASE m # 0
  <2>1. /\ m \in 1 .. Len(scopes) /\ Above(scopes[m].at, E) /\ LocalSymbols(m, name) # {}
        /\ \A q \in 1 .. Len(scopes) :
             Above(scopes[q].at, E) /\ LocalSymbols(q, name) # {} =>
               Above(scopes[q].at, scopes[m].at)
    BY <1>2, <1>4, <1>7 DEF Nearest
  <2>2. PICK y : y \in LocalSymbols(m, name)
    BY <2>1
  <2>3. LocalSymbols(m, name) = {x \in scopes[m].symbols : x.name = name}
    BY DEF LocalSymbols
  <2>4. HasFirst(scopes[m], agenda)
    BY <1>2, <2>1
  <2>5. PICK d \in Declarers :
          /\ IsFirst(d, agenda) /\ EnclosingScope(d) = scopes[m].at /\ ast[d].name = name
          /\ LocalSymbols(m, name) = {SymbolOf(d)}
    BY <1>1, <2>2, <2>3, <2>4, OneSymbol
  <2>6. d \in V
    BY <1>3, <2>1, <2>5 DEF IsFirst
  <2>7. ASSUME NEW e \in V
        PROVE  /\ Above(EnclosingScope(e), EnclosingScope(d))
               /\ EnclosingScope(e) \in Path /\ e \in Path /\ e \in Declarers
               /\ EnclosingScope(e) = EnclosingScope(d) /\ e # d => Precedes(d, e)
    <3>1. e \in Declarers /\ ast[e].name = name /\ ~Awaited(agenda, e)
      BY <1>3
    <3>2. Above(EnclosingScope(e), EnclosingScope(d))
      BY <1>5, <2>1, <2>5
    <3>3. EnclosingScope(e) \in Path /\ e \in Path
      BY <1>1, <3>1, DeclarersAre, EnclosingIs, NodesArePaths
    <3>4. EnclosingScope(e) = EnclosingScope(d) /\ e # d => Precedes(d, e)
      BY <2>5, <3>1 DEF IsFirst, SameName
    <3> QED BY <3>1, <3>2, <3>3, <3>4
  <2>8. d \in Resolve(name, Position)
    <3> SUFFICES ASSUME NEW e \in V \ {d}
        PROVE  \/ IsStrictPrefix(EnclosingScope(e), EnclosingScope(d))
               \/ EnclosingScope(e) = EnclosingScope(d) /\ Precedes(d, e)
      BY <2>6 DEF Resolve, V
    <3> QED BY <2>6, <2>7, AboveIs
  <2>9. ASSUME NEW e \in Resolve(name, Position)
        PROVE  e = d
    <3> SUFFICES ASSUME e # d PROVE FALSE
      OBVIOUS
    <3>1. /\ e \in V
          /\ \/ IsStrictPrefix(EnclosingScope(d), EnclosingScope(e))
             \/ EnclosingScope(d) = EnclosingScope(e) /\ Precedes(e, d)
      BY <2>6 DEF Resolve, V
    <3>2. ~IsStrictPrefix(EnclosingScope(d), EnclosingScope(e))
      BY <2>6, <2>7, <3>1, AboveIs, AboveOrder
    <3>3. Precedes(d, e) /\ Precedes(e, d)
      BY <2>7, <3>1, <3>2
    <3> QED BY <2>6, <2>7, <3>1, <3>3, PrecedesOrder
  <2>10. Resolve(name, Position) = {d}
    BY <2>8, <2>9
  <2> QED BY <1>4, <1>7, <2>5, <2>10
<1> QED BY <1>6, <1>7

\* LookupIsLexical, for every program: what the scopes that are left after any
\* sequence of pushScope, popScope and savedScope say of a name is what the
\* nesting and the order of the source say.
THEOREM LexicalScoping == Spec => []LookupIsLexical
<1>1. ASSUME Inv PROVE LookupIsLexical
  <2> SUFFICES ASSUME status = "running", agenda # <<>>, Now.do \notin {"pop", "leave"},
                      NEW name \in Name
      PROVE  {[kind |-> s.kind, type |-> s.type] : s \in Lookup(name)}
               = {Declared(d) : d \in Resolve(name, Position)}
    BY DEF LookupIsLexical
  <2>1. Lookup(name) = {SymbolOf(d) : d \in Resolve(name, Position)}
    BY <1>1, LookupResolves DEF Ending
  <2>2. ASSUME NEW d \in Declarers
        PROVE  Declared(d) = [kind |-> SymbolOf(d).kind, type |-> SymbolOf(d).type]
    <3>1. SymbolOf(d).kind = Declared(d).kind /\ SymbolOf(d).type = Declared(d).type
      BY <1>1, Trees, SymbolIs
    <3>2. Declared(d) = [kind |-> Declared(d).kind, type |-> Declared(d).type]
      BY DEF Declared
    <3> QED BY <3>1, <3>2
  <2>3. Resolve(name, Position) \subseteq Declarers
    BY DEF Resolve, Visible
  <2> QED BY <2>1, <2>2, <2>3
<1> QED BY <1>1, StructureInvariant, PTL

-----------------------------------------------------------------------------
(* What is visited in a step *)

\* x is visited for the first time, or passed over for good.
New(x) == Awaited(agenda, x) /\ ~Awaited(agenda', x)

LEMMA PlainNew ==
  ASSUME Inv, PlainVisit \/ ScopedVisit, NEW x \in DOMAIN ast, New(x)
  PROVE  /\ x = agenda[1].at
         /\ ast[x].kind \in { "program", "return", "if", "while", "expression", "unary",
              "binary", "call", "literal", "identifier", "block", "for" }
<1> DEFINE p == agenda[1].at
<1>1. /\ Descends(p) /\ agenda[1].do = "visit" /\ agenda # <<>>
      /\ ast[p].kind \in { "program", "return", "if", "while", "expression", "unary",
              "binary", "call", "literal", "identifier", "block", "for" }
  <2>1. CASE PlainVisit
    BY <2>1, PlainVisits
  <2>2. CASE ScopedVisit
    <3>1. /\ DescendsFar(p) /\ agenda[1].do = "visit" /\ agenda # <<>>
          /\ ast[p].kind \in {"block", "for"}
      BY <2>2, ScopedVisits
    <3>2. Descends(p)
      BY <3>1 DEF Descends, DescendsFar
    <3> QED BY <3>1, <3>2
  <2> QED BY <2>1, <2>2
<1>2. PICK more : Turns(more) /\ Keeps(more, p)
  BY <1>1 DEF Descends
<1>3. StepTo(agenda, more, agenda') /\ WellFormed(ast)
  BY <1>2, Trees DEF Turns
<1>4. x = p
  BY <1>1, <1>2, <1>3, OnlyHead DEF New
<1> QED BY <1>1, <1>4

LEMMA CheckNew ==
  ASSUME Inv, Check \/ PopScope \/ LeaveFunction, NEW x \in DOMAIN ast
  PROVE  ~New(x)
<1>1. Turns(<<>>) /\ agenda[1].do # "visit"
  BY Checks, Leavings DEF Ending
<1>2. StepTo(agenda, <<>>, agenda') /\ WellFormed(ast) /\ x \in Path
  BY <1>1, Trees, NodesArePaths DEF Turns
<1> QED BY <1>1, <1>2, RestAwaited DEF New

LEMMA AssignmentNew ==
  ASSUME Inv, VisitAssignment, NEW x \in DOMAIN ast, New(x)
  PROVE  Above(agenda[1].at, x) /\ ast[agenda[1].at].kind = "assignment"
<1>1. Turns(<<>>) /\ ast[agenda[1].at].kind = "assignment"
  BY Assignments
<1>2. StepTo(agenda, <<>>, agenda') /\ WellFormed(ast) /\ x \in Path
  BY <1>1, Trees, NodesArePaths DEF Turns
<1> QED BY <1>1, <1>2, RestAwaited DEF New

LEMMA DeclarationNew ==
  ASSUME Inv, VisitDeclaration, NEW x \in DOMAIN ast, New(x)
  PROVE  Above(agenda[1].at, x) /\ ast[agenda[1].at].kind = "declaration"
<1>1. /\ ast[agenda[1].at].kind = "declaration"
      /\ \E more : Turns(more)
  BY Declarations
<1>2. PICK more : Turns(more)
  BY <1>1
<1>3. StepTo(agenda, more, agenda') /\ WellFormed(ast) /\ x \in Path
  BY <1>2, Trees, NodesArePaths DEF Turns
<1> QED BY <1>1, <1>3, AwaitedAfter DEF New

LEMMA FunctionNew ==
  ASSUME Inv, VisitFunction, NEW x \in DOMAIN ast
  PROVE  LET f == agenda[1].at IN
         /\ New(x) => x = f \/ ( /\ x \in Parameters(f) /\ ast[x].kind = "parameter"
                                 /\ EnclosingScope(x) = f
                                 /\ \E i \in 1 .. ast[f].arity - 1 : x = Append(f, i))
         /\ Above(f, x) => Awaited(agenda, x)
         /\ ast[f].kind = "function" /\ f \in DOMAIN ast /\ f \in Path
<1> DEFINE f == agenda[1].at
           body == Append(f, ast[f].arity)
           leave == [do |-> "leave", at |-> f, saved |-> current]
           more == <<Task("visit", body), leave>>
<1>1. /\ Turns(more) /\ \A y \in Path : Awaited(more, y) <=> Above(body, y)
      /\ agenda[1].do = "visit" /\ agenda # <<>> /\ ast[f].kind = "function"
  BY Functions
<1> HIDE DEF more, body
<1>2. /\ StepTo(agenda, more, agenda') /\ WellFormed(ast) /\ x \in Path
      /\ f \in DOMAIN ast /\ f \in Path /\ AgendaInv(agenda) /\ status = "running"
  BY <1>1, Trees, NodesArePaths, NowIs DEF Turns
<1>3. Above(f, x) => Awaited(agenda, x)
  <2>1. agenda \in Seq(Tasks)
    BY <1>2 DEF AgendaInv, Ordered
  <2> QED BY <1>1, <1>2, <2>1, AwaitedSplit
<1>4. New(x) => Above(f, x) /\ ~Above(body, x)
  BY <1>1, <1>2, AwaitedAfter DEF New
<1> HIDE DEF f
<1>5. ASSUME New(x), x # f
      PROVE  /\ x \in Parameters(f) /\ ast[x].kind = "parameter"
             /\ EnclosingScope(x) = f
             /\ \E i \in 1 .. ast[f].arity - 1 : x = Append(f, i)
  BY <1>1, <1>2, <1>4, <1>5, BelowFunction DEF body
<1> QED BY <1>1, <1>2, <1>3, <1>5 DEF f

-----------------------------------------------------------------------------
(* Declarations and assignments *)

\* Two declarations of a name in a scope that have both been visited.
Doubled(a) ==
  \E d, e \in Declarers : d # e /\ SameName(d, e) /\ ~Awaited(a, d) /\ ~Awaited(a, e)

\* An assignment that was visited, to a name that was not declared there.
Unresolved(a) ==
  \E p \in DOMAIN ast : /\ ast[p].kind = "assignment" /\ Visited(p) /\ ~Awaited(a, p)
                        /\ Resolve(ast[p].name, p) = {}

DeclaredInv ==
  /\ status = "done" => agenda = <<>>
  /\ status # "start" /\ (Doubled(agenda) \/ Unresolved(agenda)) => reports # {}

LEMMA ReportsStay ==
  ASSUME [Next]_vars
  PROVE  reports \subseteq reports'
<1>1. \A paths, errors : Checked(paths, errors) => reports \subseteq reports'
  BY DEF Checked
<1> QED BY <1>1
     DEF Next, vars, Analyze, VisitProgram, VisitFunction, LeaveFunction, VisitDeclaration,
         CheckInitializer, VisitBlock, PopScope, VisitAssignment, VisitReturn, CheckReturn,
         VisitIfOrWhile, VisitFor, CheckCondition, VisitOperand, VisitBinary, CheckOperands,
         VisitCall, VisitLeaf, Finish, Terminated

\* The scope has the name of a declaration that was visited.
LEMMA AlreadyDeclared ==
  ASSUME Inv, status = "running", agenda # <<>>, agenda[1].do = "visit",
         NEW p \in Declarers, p = agenda[1].at, NEW e \in Declarers, SameName(p, e),
         ~Awaited(agenda, e)
  PROVE  Redeclared(p) # {}
<1>1. /\ WellFormed(ast) /\ Structure(scopes, current, agenda) /\ p # <<>>
  BY NowIs, DeclarersAre
<1>2. ScopeAt(agenda[1]) = EnclosingScope(p)
  BY <1>1 DEF ScopeAt, PosOf, Ending
<1>3. current \in 1 .. Len(scopes) /\ scopes[current].at = EnclosingScope(p)
  BY <1>1, <1>2 DEF Structure, CurrentIs
<1>4. HasFirst(scopes[current], agenda)
  BY <1>1, <1>3 DEF Structure, ScopesInv
<1>5. EnclosingScope(e) = scopes[current].at /\ ast[e].name = ast[p].name
  BY <1>3 DEF SameName
<1>6. PICK y \in scopes[current].symbols : y.name = ast[p].name
  BY <1>4, <1>5 DEF HasFirst
<1> QED BY <1>6 DEF Redeclared, LocalSymbols

\* One of two parameters with a name is reported.
LEMMA RepeatedParameter ==
  ASSUME Inv, NEW f \in Path, ast[f].arity \in Nat, NEW i \in 1 .. ast[f].arity - 1,
         NEW j \in 1 .. ast[f].arity - 1, i # j,
         ast[Append(f, i)].name = ast[Append(f, j)].name
  PROVE  ParameterErrors(f) # {}
<1>1. \A k \in 1 .. ast[f].arity - 1 :
        /\ Append(f, k) \in Parameters(f)
        /\ Front(Append(f, k)) = f /\ Last(Append(f, k)) = k
  BY ChildIs DEF Parameters
<1>2. ASSUME NEW k \in 1 .. ast[f].arity - 1, NEW l \in 1 .. ast[f].arity - 1, l < k,
             ast[Append(f, l)].name = ast[Append(f, k)].name
      PROVE  ParameterErrors(f) # {}
  <2>1. l \in 1 .. k - 1
    BY <1>2
  <2>2. Repeated(Append(f, k))
    BY <1>1, <1>2, <2>1 DEF Repeated
  <2>3. Error("redeclared", Append(f, k)) \in ParameterErrors(f)
    BY <1>1, <2>2 DEF ParameterErrors
  <2> QED BY <2>3
<1>3. i < j \/ j < i
  OBVIOUS
<1> QED BY <1>2, <1>3

LEMMA DoubledStep ==
  ASSUME Inv, DeclaredInv, [Next]_vars, status = "running", ast' = ast, Doubled(agenda')
  PROVE  reports' # {}
<1>1. reports \subseteq reports' /\ WellFormed(ast)
  BY ReportsStay, Trees
<1>2. PICK d \in Declarers, e \in Declarers :
        d # e /\ SameName(d, e) /\ ~Awaited(agenda', d) /\ ~Awaited(agenda', e)
  BY DEF Doubled
<1>3. CASE ~Awaited(agenda, d) /\ ~Awaited(agenda, e)
  BY <1>1, <1>2, <1>3 DEF DeclaredInv, Doubled
<1>4. ASSUME NEW u \in Declarers, NEW v \in Declarers, u # v, SameName(u, v), New(u),
             New(v) \/ ~Awaited(agenda, v)
      PROVE  reports' # {}
  <2>1. /\ u \in DOMAIN ast /\ ast[u].kind \in DeclarerKinds /\ u # <<>>
        /\ v \in DOMAIN ast /\ v # <<>>
    BY <1>1, DeclarersAre DEF DeclarerKinds
  <2>2. CASE PlainVisit \/ ScopedVisit
    BY <1>4, <2>1, <2>2, PlainNew DEF DeclarerKinds
  <2>3. CASE Check \/ PopScope \/ LeaveFunction
    BY <1>4, <2>1, <2>3, CheckNew
  <2>4. CASE VisitAssignment
    <3>1. Above(agenda[1].at, u) /\ ast[agenda[1].at].kind = "assignment"
      BY <1>4, <2>1, <2>4, AssignmentNew
    <3>2. agenda[1].at \in DOMAIN ast
      BY <2>4, Assignments, NowIs
    <3> QED BY <1>1, <3>1, <3>2, NothingDeclared DEF ExpressionKinds
  <2>5. CASE VisitDeclaration
    <3> DEFINE p == agenda[1].at
    <3>1. /\ ast[p].kind = "declaration" /\ p \in DOMAIN ast /\ agenda[1].do = "visit"
          /\ agenda # <<>> /\ reports' = reports \cup UnknownType(p) \cup Redeclared(p)
      BY <2>5, Declarations, NowIs
    <3>2. \A x \in Declarers : New(x) => x = p
      <4>1. \A x \in Declarers : x \in DOMAIN ast /\ (New(x) => Above(p, x))
        BY <1>1, <2>5, DeclarationNew, DeclarersAre
      <4> QED BY <1>1, <3>1, <4>1, NothingDeclared
    <3>3. u = p /\ ~Awaited(agenda, v)
      BY <1>4, <3>2
    <3>4. Redeclared(p) # {}
      BY <1>4, <3>1, <3>3, AlreadyDeclared
    <3> QED BY <3>1, <3>4
  <2>6. CASE VisitFunction
    <3> DEFINE f == agenda[1].at
               Parameter(x) == /\ x \in Parameters(f) /\ EnclosingScope(x) = f
                               /\ \E i \in 1 .. ast[f].arity - 1 : x = Append(f, i)
    <3>1. /\ ast[f].kind = "function" /\ f \in DOMAIN ast /\ f \in Path
          /\ agenda[1].do = "visit" /\ agenda # <<>>
          /\ reports' = reports \cup UnknownType(f) \cup Redeclared(f) \cup ParameterErrors(f)
      BY <2>1, <2>6, Functions, FunctionNew
    <3>2. \A x \in DOMAIN ast : /\ New(x) => x = f \/ Parameter(x)
                                /\ Above(f, x) => Awaited(agenda, x)
      BY <2>6, FunctionNew
    <3> HIDE DEF f, Parameter
    <3>3. u = f \/ Parameter(u)
      BY <1>4, <2>1, <3>2
    <3>4. EnclosingScope(f) # f
      BY <1>1, <3>1, TopLevel, EnclosingIs
    <3>5. CASE u = f
      <4>1. EnclosingScope(v) # f
        BY <1>4, <3>4, <3>5 DEF SameName
      <4>2. ~New(v)
        BY <1>4, <2>1, <3>2, <3>5, <4>1 DEF Parameter
      <4>3. ~Awaited(agenda, v)
        BY <1>4, <4>2
      <4>4. Redeclared(f) # {}
        BY <1>4, <3>1, <3>5, <4>3, AlreadyDeclared DEF f
      <4> QED BY <3>1, <4>4
    <3>6. CASE Parameter(u)
      <4>1. EnclosingScope(v) = f
        BY <1>4, <3>6 DEF SameName, Parameter
      <4>2. Above(f, v)
        BY <1>1, <2>1, <4>1, EnclosingIs
      <4>3. New(v) /\ v # f
        BY <1>4, <2>1, <3>2, <3>4, <4>1, <4>2
      <4>4. Parameter(v)
        BY <2>1, <3>2, <4>3
      <4>5. PICK i \in 1 .. ast[f].arity - 1 : u = Append(f, i)
        BY <3>6 DEF Parameter
      <4>6. PICK j \in 1 .. ast[f].arity - 1 : v = Append(f, j)
        BY <4>4 DEF Parameter
      <4>7. ast[f].arity \in Nat /\ i # j /\ ast[u].name = ast[v].name
        BY <1>1, <1>4, <3>1, <4>5, <4>6, AritiesAre DEF SameName
      <4>8. ParameterErrors(f) # {}
        BY <3>1, <4>5, <4>6, <4>7, RepeatedParameter
      <4> QED BY <3>1, <4>8
    <3> QED BY <3>3, <3>5, <3>6
  <2>7. CASE Analyze \/ Finish \/ Terminated \/ UNCHANGED vars
    <3>1. agenda' = agenda
      BY <2>7 DEF Analyze, Finish, Terminated, vars
    <3> QED BY <1>4, <3>1 DEF New
  <2> QED BY <2>2, <2>3, <2>4, <2>5, <2>6, <2>7
          DEF Next, PlainVisit, ScopedVisit, Check
<1>5. SameName(e, d)
  BY <1>2 DEF SameName
<1> QED BY <1>2, <1>3, <1>4, <1>5 DEF New

\* What a name means at an assignment when it is visited.
LEMMA UnresolvedStep ==
  ASSUME Inv, DeclaredInv, [Next]_vars, status = "running", ast' = ast, Unresolved(agenda')
  PROVE  reports' # {}
<1>1. reports \subseteq reports' /\ WellFormed(ast)
  BY ReportsStay, Trees
<1>2. PICK x \in DOMAIN ast : /\ ast[x].kind = "assignment" /\ Visited(x)
                              /\ ~Awaited(agenda', x) /\ Resolve(ast[x].name, x) = {}
  BY DEF Unresolved
<1>3. CASE ~Awaited(agenda, x)
  BY <1>1, <1>2, <1>3 DEF DeclaredInv, Unresolved
<1>4. CASE Awaited(agenda, x)
  <2>1. New(x) /\ x \in Path
    BY <1>1, <1>2, <1>4, NodesArePaths DEF New
  <2>2. ASSUME NEW p \in Path, Above(p, x), p # x,
               ast[p].kind \in {"declaration", "assignment"}
        PROVE  FALSE
    <3>1. p = SubSeq(x, 1, Len(p)) /\ Len(p) < Len(x) /\ Len(p) \in Nat /\ Len(x) \in Nat
      BY <2>1, <2>2, CutAbove, AboveOrder DEF Cut, Path
    <3>2. Len(p) \in 0 .. Len(x) - 1
      BY <3>1
    <3> QED BY <1>2, <2>2, <3>1, <3>2 DEF Visited
  <2>3. CASE PlainVisit \/ ScopedVisit
    BY <1>2, <2>1, <2>3, PlainNew
  <2>4. CASE Check \/ PopScope \/ LeaveFunction
    BY <2>1, <2>4, CheckNew
  <2>5. CASE VisitAssignment
    <3>1. /\ Above(agenda[1].at, x) /\ ast[agenda[1].at].kind = "assignment"
          /\ agenda # <<>> /\ agenda[1].do = "visit"
      BY <2>1, <2>5, AssignmentNew, Assignments
    <3>2. agenda[1].at \in Path /\ Now = agenda[1]
      BY <3>1, NowIs
    <3>3. Now.at = x
      BY <2>2, <3>1, <3>2
    <3>4. Position = x /\ Now.do \notin Ending
      BY <3>1, <3>2, <3>3 DEF Position, Ending
    <3>5. Lookup(ast[x].name) = {}
      BY <1>2, <3>1, <3>4, LookupResolves
    <3>6. Checked({}, {Error("undefined target", x)})
      BY <2>5, <3>3, <3>5 DEF VisitAssignment
    <3>7. Error("undefined target", x) \in reports'
      <4> DEFINE errors == {Error("undefined target", x)}
                 none == {}
      <4>1. none = {}
        OBVIOUS
      <4>2. Checked(none, errors)
        BY <3>6
      <4> HIDE DEF errors, none
      <4>3. ~ \E p \in none : TypeOf(p).crash
        BY <4>1
      <4>4. errors \subseteq reports'
        BY <4>2, <4>3 DEF Checked
      <4> QED BY <4>4 DEF errors
    <3> QED BY <3>7
  <2>6. CASE VisitDeclaration
    <3>1. /\ Above(agenda[1].at, x) /\ ast[agenda[1].at].kind = "declaration"
          /\ agenda # <<>>
      BY <2>1, <2>6, DeclarationNew, Declarations
    <3>2. agenda[1].at \in Path
      BY <3>1, NowIs
    <3> QED BY <1>2, <2>2, <3>1, <3>2
  <2>7. CASE VisitFunction
    BY <1>2, <2>1, <2>7, FunctionNew
  <2>8. CASE Analyze \/ Finish \/ Terminated \/ UNCHANGED vars
    <3>1. agenda' = agenda
      BY <2>8 DEF Analyze, Finish, Terminated, vars
    <3> QED BY <2>1, <3>1 DEF New
  <2> QED BY <2>3, <2>4, <2>5, <2>6, <2>7, <2>8
          DEF Next, PlainVisit, ScopedVisit, Check
<1> QED BY <1>3, <1>4

LEMMA SameMeaning ==
  ASSUME ast' = ast
  PROVE  /\ Doubled(agenda)' <=> Doubled(agenda')
         /\ Unresolved(agenda)' <=> Unresolved(agenda')
<1>1. /\ Declarers' = Declarers /\ \A p : EnclosingScope(p)' = EnclosingScope(p)
  BY SameTree
<1>2. Doubled(agenda)' <=> Doubled(agenda')
  BY <1>1 DEF Doubled, SameName
<1>3. \A name, p : Visible(name, p)' = Visible(name, p)
  BY <1>1 DEF Visible
<1>4. \A name, p : Resolve(name, p)' = Resolve(name, p)
  BY <1>1, <1>3 DEF Resolve
<1>5. \A p : Visited(p)' <=> Visited(p)
  BY DEF Visited
<1>6. Unresolved(agenda)' <=> Unresolved(agenda')
  BY <1>4, <1>5 DEF Unresolved
<1> QED BY <1>2, <1>6

LEMMA DeclaredNext ==
  ASSUME Inv, DeclaredInv, [Next]_vars PROVE DeclaredInv'
<1>1. ast' = ast
  BY DEF Next, vars, Analyze, VisitProgram, VisitFunction, LeaveFunction, VisitDeclaration,
         CheckInitializer, VisitBlock, PopScope, VisitAssignment, VisitReturn, CheckReturn,
         VisitIfOrWhile, VisitFor, CheckCondition, VisitOperand, VisitBinary, CheckOperands,
         VisitCall, VisitLeaf, Finish, Terminated
<1>2. /\ Doubled(agenda)' <=> Doubled(agenda')
      /\ Unresolved(agenda)' <=> Unresolved(agenda')
  BY <1>1, SameMeaning
<1>3. CASE status = "running"
  <2>1. Doubled(agenda') \/ Unresolved(agenda') => reports' # {}
    BY <1>1, <1>3, DoubledStep, UnresolvedStep
  <2>2. status' = "done" => agenda' = <<>>
    <3>1. \A paths, errors : Checked(paths, errors) => status' \in {"crashed", status}
      BY DEF Checked
    <3> QED BY <1>3, <3>1
      DEF Next, vars, Analyze, VisitProgram, VisitFunction, LeaveFunction, VisitDeclaration,
         CheckInitializer, VisitBlock, PopScope, VisitAssignment, VisitReturn, CheckReturn,
         VisitIfOrWhile, VisitFor, CheckCondition, VisitOperand, VisitBinary, CheckOperands,
         VisitCall, VisitLeaf, Finish, Terminated
  <2> QED BY <1>2, <2>1, <2>2 DEF DeclaredInv
<1>4. CASE Analyze
  <2> DEFINE t == Task("visit", <<>>)
  <2>1. agenda' = <<t>> /\ status' = "running" /\ WellFormed(ast)
    BY <1>4, Trees DEF Analyze
  <2>2. <<>> \in Path
    BY <2>1, NodesArePaths
  <2>3. t.do = "visit" /\ t.at = <<>>
    BY <2>2, TaskIs DEF Doings
  <2> HIDE DEF t
  <2>4. \A x \in Path : Awaited(agenda', x)
    BY <2>1, <2>3 DEF Awaited, Awaits, Above, Path
  <2>5. Declarers \subseteq Path /\ DOMAIN ast \subseteq Path
    BY <2>1, NodesArePaths, DeclarersAre
  <2>6. ~Doubled(agenda') /\ ~Unresolved(agenda')
    BY <2>4, <2>5 DEF Doubled, Unresolved
  <2> QED BY <1>2, <2>1, <2>6 DEF DeclaredInv
<1>5. CASE status # "running" /\ ~Analyze
  <2>1. UNCHANGED vars
    BY <1>5 DEF Next, vars, VisitProgram, VisitFunction, LeaveFunction, VisitDeclaration,
         CheckInitializer, VisitBlock, PopScope, VisitAssignment, VisitReturn, CheckReturn,
         VisitIfOrWhile, VisitFor, CheckCondition, VisitOperand, VisitBinary, CheckOperands,
         VisitCall, VisitLeaf, Finish, Terminated, At
  <2> QED BY <1>2, <2>1 DEF DeclaredInv, vars
<1> QED BY <1>3, <1>4, <1>5

LEMMA DeclaredInit ==
  ASSUME Init PROVE DeclaredInv
BY DEF Init, DeclaredInv

\* AcceptedProgramsAreDeclared, for every program: in one that is accepted no
\* scope declares a name twice and no assignment that is visited has a name
\* that is not declared.
THEOREM Declaredness == Spec => []AcceptedProgramsAreDeclared
<1>1. ASSUME Inv, DeclaredInv PROVE AcceptedProgramsAreDeclared
  <2> SUFFICES ASSUME status = "done", reports = {}
      PROVE  /\ \A d, e \in Declarers :
                  d # e /\ EnclosingScope(d) = EnclosingScope(e) => ast[d].name # ast[e].name
             /\ \A p \in DOMAIN ast :
                  ast[p].kind = "assignment" /\ Visited(p) => Resolve(ast[p].name, p) # {}
    BY DEF AcceptedProgramsAreDeclared, Accepted
  <2>1. agenda = <<>> /\ ~Doubled(agenda) /\ ~Unresolved(agenda)
    BY <1>1 DEF DeclaredInv
  <2>2. \A x : ~Awaited(agenda, x)
    BY <2>1, NoneAwaited
  <2> QED BY <2>1, <2>2 DEF Doubled, Unresolved, SameName
<1>2. Init => DeclaredInv
  BY DeclaredInit
<1>3. Inv /\ DeclaredInv /\ [Next]_vars => DeclaredInv'
  BY DeclaredNext
<1> QED BY <1>1, <1>2, <1>3, StructureInvariant, PTL DEF Spec

-----------------------------------------------------------------------------
(* Returns *)

\* The function f is still to be left.
Pending(a, f) == \E j \in 1 .. Len(a) : a[j].do = "leave" /\ a[j].at = f

\* What is to be done before a function is left is about what is below it.
Inside(a) ==
  \A i, j \in 1 .. Len(a) : i < j /\ a[j].do = "leave" => Above(a[j].at, a[i].at)

\* A return is asked of f ...
Owes(f) == /\ ast[f].kind = "function" /\ ReturnType(f) # "void"
           /\ ast[Append(f, ast[f].arity)].arity > 0

\* ... and there is one.
Returns(f) == \E p \in DOMAIN ast : Above(f, p) /\ ast[p].kind = "return"

\* hasReturnStatement_ speaks of the function that is to be left, and in each
\* that was left a return was seen, or missed.
ReturnsHold(a, seen, errors) ==
  /\ Inside(a)
  /\ \A f \in DOMAIN ast : Owes(f) =>
       /\ seen /\ Pending(a, f) => Returns(f)
       /\ ~Awaited(a, f) /\ ~Pending(a, f) => errors # {} \/ Returns(f)

ReturnInv == status # "start" => ReturnsHold(agenda, hasReturn, reports)

\* The functions that are to be left before and after a step.
LEMMA PendingAfter ==
  ASSUME NEW a, NEW more, NEW b, StepTo(a, more, b), NEW f
  PROVE  /\ Pending(b, f) <=>
              Pending(more, f) \/ \E j \in 2 .. Len(a) : a[j].do = "leave" /\ a[j].at = f
         /\ Pending(a, f) <=> \/ a[1].do = "leave" /\ a[1].at = f
                              \/ \E j \in 2 .. Len(a) : a[j].do = "leave" /\ a[j].at = f
<1>1. /\ a \in Seq(Tasks) /\ a # <<>> /\ more \in Seq(Tasks) /\ b = more \o Tail(a)
  BY DEF StepTo, AgendaInv, Ordered, Replaces, Unfolds
<1>2. /\ Len(b) = Len(more) + Len(a) - 1 /\ Len(more) \in Nat /\ Len(a) \in Nat \ {0}
      /\ \A i \in 1 .. Len(more) : b[i] = more[i]
      /\ \A i \in 2 .. Len(a) : b[Len(more) + i - 1] = a[i]
      /\ \A i \in 1 .. Len(b) :
           \/ i \in 1 .. Len(more) /\ b[i] = more[i]
           \/ i - Len(more) + 1 \in 2 .. Len(a) /\ b[i] = a[i - Len(more) + 1]
  BY <1>1, JoinIs
<1>3. ASSUME Pending(b, f)
      PROVE  Pending(more, f) \/ \E j \in 2 .. Len(a) : a[j].do = "leave" /\ a[j].at = f
  BY <1>2, <1>3 DEF Pending
<1>4. ASSUME Pending(more, f) PROVE Pending(b, f)
  BY <1>2, <1>4 DEF Pending
<1>5. ASSUME NEW j \in 2 .. Len(a), a[j].do = "leave", a[j].at = f PROVE Pending(b, f)
  <2>1. Len(more) + j - 1 \in 1 .. Len(b) /\ b[Len(more) + j - 1] = a[j]
    BY <1>2
  <2> QED BY <1>5, <2>1 DEF Pending
<1>6. Pending(a, f) <=> \/ a[1].do = "leave" /\ a[1].at = f
                        \/ \E j \in 2 .. Len(a) : a[j].do = "leave" /\ a[j].at = f
  BY <1>2 DEF Pending
<1> QED BY <1>3, <1>4, <1>5, <1>6

LEMMA InsideStays ==
  ASSUME NEW a, NEW more, NEW b, StepTo(a, more, b), Inside(a),
         \A k \in 1 .. Len(more) : Above(a[1].at, more[k].at), Inside(more)
  PROVE  Inside(b)
<1>1. /\ a \in Seq(Tasks) /\ a # <<>> /\ more \in Seq(Tasks) /\ b = more \o Tail(a)
  BY DEF StepTo, AgendaInv, Ordered, Replaces, Unfolds
<1>2. /\ Len(more) \in Nat /\ Len(a) \in Nat \ {0}
      /\ \A i \in 1 .. Len(b) :
           \/ i \in 1 .. Len(more) /\ b[i] = more[i]
           \/ i - Len(more) + 1 \in 2 .. Len(a) /\ b[i] = a[i - Len(more) + 1]
  BY <1>1, JoinIs
<1>3. /\ \A k \in 1 .. Len(more) : more[k] \in Tasks /\ more[k].at \in Path
      /\ \A k \in 1 .. Len(a) : a[k] \in Tasks /\ a[k].at \in Path
  BY <1>1, ElementOfSeq, TaskTyped
<1>4. ASSUME NEW i \in 1 .. Len(b), NEW j \in 1 .. Len(b), i < j, b[j].do = "leave"
      PROVE  Above(b[j].at, b[i].at)
  <2>1. CASE j \in 1 .. Len(more)
    <3>1. i \in 1 .. Len(more) /\ b[i] = more[i] /\ b[j] = more[j]
      BY <1>2, <1>4, <2>1
    <3> QED BY <1>4, <2>1, <3>1 DEF Inside
  <2>2. CASE j \notin 1 .. Len(more)
    <3> DEFINE m == j - Len(more) + 1
    <3>1. m \in 2 .. Len(a) /\ b[j] = a[m]
      BY <1>2, <2>2
    <3>2. CASE i \in 1 .. Len(more)
      <4>1. b[i] = more[i]
        BY <1>2, <3>2
      <4>2. 1 < m /\ 1 \in 1 .. Len(a) /\ m \in 1 .. Len(a)
        BY <1>2, <3>1
      <4> HIDE DEF m
      <4>3. Above(a[m].at, a[1].at)
        BY <1>4, <3>1, <4>2 DEF Inside
      <4>4. Above(a[1].at, more[i].at)
        BY <3>2
      <4> QED BY <1>3, <3>1, <3>2, <4>1, <4>2, <4>3, <4>4, AboveOrder
    <3>3. CASE i \notin 1 .. Len(more)
      <4> DEFINE n == i - Len(more) + 1
      <4>1. n \in 2 .. Len(a) /\ b[i] = a[n] /\ n < m
        BY <1>2, <1>4, <3>3
      <4>2. n \in 1 .. Len(a) /\ m \in 1 .. Len(a)
        BY <1>2, <3>1, <4>1
      <4> HIDE DEF m, n
      <4> QED BY <1>4, <3>1, <4>1, <4>2 DEF Inside
    <3> QED BY <3>2, <3>3
  <2> QED BY <2>1, <2>2
<1> QED BY <1>4 DEF Inside

\* A step that replaces the head by tasks that leave no function.
LEMMA TurnReturns ==
  ASSUME NEW more, Turns(more), Inside(agenda),
         \A k \in 1 .. Len(more) : Above(agenda[1].at, more[k].at) /\ more[k].do # "leave"
  PROVE  /\ Inside(agenda')
         /\ \A f : Pending(agenda', f) => Pending(agenda, f)
         /\ \A f : Pending(agenda, f) /\ ~Pending(agenda', f) =>
              agenda[1].do = "leave" /\ agenda[1].at = f
<1>1. StepTo(agenda, more, agenda')
  BY DEF Turns
<1>2. Inside(more) /\ \A f : ~Pending(more, f)
  BY DEF Inside, Pending
<1>3. Inside(agenda')
  BY <1>1, <1>2, InsideStays
<1> QED BY <1>1, <1>2, <1>3, PendingAfter

LEMMA HeadReturns ==
  ASSUME Turns(<<>>), Inside(agenda)
  PROVE  /\ Inside(agenda')
         /\ \A f : Pending(agenda', f) => Pending(agenda, f)
         /\ \A f : Pending(agenda, f) /\ ~Pending(agenda', f) =>
              agenda[1].do = "leave" /\ agenda[1].at = f
<1> DEFINE more == <<>>
<1>1. Turns(more) /\ Len(more) = 0
  OBVIOUS
<1> HIDE DEF more
<1>2. 1 .. Len(more) = {}
  BY <1>1
<1> QED BY <1>1, <1>2, TurnReturns

LEMMA DescendsReturns ==
  ASSUME Inside(agenda), agenda[1].do = "visit", Descends(agenda[1].at)
  PROVE  Inside(agenda') /\ \A f : Pending(agenda', f) <=> Pending(agenda, f)
<1>1. PICK more : Turns(more) /\ Keeps(more, agenda[1].at)
  BY DEF Descends
<1>2. \A k \in 1 .. Len(more) : Above(agenda[1].at, more[k].at) /\ more[k].do # "leave"
  BY <1>1 DEF Keeps
<1> QED BY <1>1, <1>2, TurnReturns

LEMMA DeclarationReturns ==
  ASSUME Inv, VisitDeclaration, Inside(agenda)
  PROVE  Inside(agenda') /\ \A f : Pending(agenda', f) <=> Pending(agenda, f)
<1>1. /\ agenda[1].do = "visit" /\ agenda # <<>>
      /\ \E more : /\ Turns(more)
                   /\ \A k \in 1 .. Len(more) : /\ more[k].do = "initializer"
                                                /\ more[k].at = agenda[1].at
  BY Declarations
<1>2. PICK more : /\ Turns(more)
                  /\ \A k \in 1 .. Len(more) : /\ more[k].do = "initializer"
                                               /\ more[k].at = agenda[1].at
  BY <1>1
<1>3. agenda[1].at \in Path
  BY <1>1, <1>2, NowIs DEF Turns
<1>4. \A k \in 1 .. Len(more) : Above(agenda[1].at, more[k].at) /\ more[k].do # "leave"
  BY <1>2, <1>3, AboveOrder
<1> QED BY <1>1, <1>2, <1>4, TurnReturns

LEMMA FunctionReturns ==
  ASSUME Inv, VisitFunction, Inside(agenda)
  PROVE  /\ Inside(agenda')
         /\ \A f : Pending(agenda', f) <=> Pending(agenda, f) \/ f = agenda[1].at
<1> DEFINE g == agenda[1].at
           body == Append(g, ast[g].arity)
           leave == [do |-> "leave", at |-> g, saved |-> current]
           visit == Task("visit", body)
           more == <<visit, leave>>
<1>1. /\ Turns(more) /\ agenda[1].do = "visit" /\ agenda # <<>>
      /\ ast[g].kind = "function"
  BY Functions
<1>2. /\ g \in Path /\ StepTo(agenda, more, agenda') /\ WellFormed(ast) /\ g \in DOMAIN ast
  BY <1>1, NowIs DEF Turns
<1>3. body \in Path /\ Above(g, body) /\ Above(g, g)
  <2>1. ast[g].arity \in Nat
    BY <1>2, AritiesAre
  <2> HIDE DEF g
  <2>2. body \in Path /\ Above(g, body)
    BY <1>2, <2>1, ChildIs
  <2>3. Above(g, g)
    BY <1>2, AboveOrder
  <2> QED BY <2>2, <2>3
<1>4. /\ visit.do = "visit" /\ visit.at = body /\ leave.do = "leave" /\ leave.at = g
  <2> HIDE DEF body
  <2>1. "visit" \in Doings
    BY DEF Doings
  <2>2. visit.do = "visit" /\ visit.at = body
    BY <1>3, <2>1, TaskIs
  <2> QED BY <2>2
<1> HIDE DEF body, leave, visit, g
<1>5. Len(more) = 2 /\ more[1] = visit /\ more[2] = leave
  OBVIOUS
<1> HIDE DEF more
<1>6. \A k \in 1 .. Len(more) : k = 1 \/ k = 2
  BY <1>5
<1>7. Inside(more) /\ \A k \in 1 .. Len(more) : Above(g, more[k].at)
  BY <1>3, <1>4, <1>5, <1>6 DEF Inside
<1>8. \A f : Pending(more, f) <=> f = g
  BY <1>4, <1>5, <1>6 DEF Pending
<1>9. Inside(agenda')
  BY <1>2, <1>7, InsideStays DEF g
<1>10. \A f : Pending(agenda', f) <=> Pending(agenda, f) \/ f = g
  BY <1>1, <1>2, <1>8, PendingAfter
<1> QED BY <1>9, <1>10 DEF g

\* A function is visited by VisitFunction only.
LEMMA FunctionIsVisited ==
  ASSUME Inv, [Next]_vars, NEW f \in DOMAIN ast, ast[f].kind = "function", New(f)
  PROVE  VisitFunction /\ f = agenda[1].at
<1>1. WellFormed(ast) /\ f \in Declarers /\ f \in DOMAIN ast
  BY Trees DEF Declarers, DeclarerKinds
<1>2. CASE PlainVisit \/ ScopedVisit
  BY <1>2, PlainNew
<1>3. CASE Check \/ PopScope \/ LeaveFunction
  BY <1>3, CheckNew
<1>4. CASE VisitAssignment
  <2>1. Above(agenda[1].at, f) /\ ast[agenda[1].at].kind = "assignment"
    BY <1>4, AssignmentNew
  <2>2. agenda[1].at \in DOMAIN ast
    BY <1>4, NowIs DEF VisitAssignment, At
  <2> QED BY <1>1, <2>1, <2>2, NothingDeclared DEF ExpressionKinds
<1>5. CASE VisitDeclaration
  <2>1. Above(agenda[1].at, f) /\ ast[agenda[1].at].kind = "declaration"
    BY <1>5, DeclarationNew
  <2>2. agenda[1].at \in DOMAIN ast
    BY <1>5, Declarations, NowIs DEF VisitDeclaration, At
  <2> QED BY <1>1, <2>1, <2>2, NothingDeclared
<1>6. CASE VisitFunction
  BY <1>6, FunctionNew
<1>7. CASE Analyze \/ Finish \/ Terminated \/ UNCHANGED vars
  <2>1. agenda' = agenda \/ (agenda = <<>>)
    BY <1>7 DEF Analyze, Finish, Terminated, vars, Inv
  <2> QED BY <2>1, NoneAwaited DEF New
<1> QED BY <1>2, <1>3, <1>4, <1>5, <1>6, <1>7
        DEF Next, PlainVisit, ScopedVisit, Check

LEMMA SameReturns ==
  ASSUME ast' = ast, ReturnsHold(agenda', hasReturn', reports')
  PROVE  ReturnsHold(agenda, hasReturn, reports)'
<1>1. \A f : (Owes(f)' <=> Owes(f)) /\ (Returns(f)' <=> Returns(f))
  <2>1. \A f : ReturnType(f)' = ReturnType(f)
    BY DEF ReturnType, Known, Builtin
  <2> QED BY <2>1 DEF Owes, Returns
<1>2. Inside(agenda)' <=> Inside(agenda')
  BY DEF Inside
<1>3. \A f : /\ Pending(agenda, f)' <=> Pending(agenda', f)
             /\ Awaited(agenda, f)' <=> Awaited(agenda', f)
  BY DEF Pending, Awaited, Awaits
<1> QED BY <1>1, <1>2, <1>3 DEF ReturnsHold

LEMMA ReturnsNext ==
  ASSUME Inv, status = "running", ReturnsHold(agenda, hasReturn, reports), [Next]_vars
  PROVE  ReturnsHold(agenda', hasReturn', reports')
<1>1. /\ reports \subseteq reports' /\ WellFormed(ast) /\ Inside(agenda)
      /\ \A f \in DOMAIN ast : f \in Path /\ (Owes(f) => ast[f].kind = "function")
  BY ReportsStay, Trees, NodesArePaths DEF ReturnsHold, Owes
\* The step seen from one function.
<1> DEFINE Kept(f) ==
             /\ hasReturn' /\ Pending(agenda', f) => Returns(f)
             /\ ~Awaited(agenda', f) /\ ~Pending(agenda', f) => reports' # {} \/ Returns(f)
<1>2. ASSUME Inside(agenda'), \A f \in DOMAIN ast : Owes(f) => Kept(f)
      PROVE  ReturnsHold(agenda', hasReturn', reports')
  BY <1>2 DEF ReturnsHold
<1>3. ASSUME NEW f \in DOMAIN ast, Owes(f), ~VisitFunction,
             Pending(agenda', f) <=> Pending(agenda, f), hasReturn' => hasReturn
      PROVE  Kept(f)
  <2>1. ~New(f)
    BY <1>1, <1>3, FunctionIsVisited
  <2> QED BY <1>1, <1>3, <2>1 DEF New, ReturnsHold
<1> HIDE DEF Kept
<1>4. ASSUME Inside(agenda'), ~VisitFunction, hasReturn' => hasReturn,
             \A f : Pending(agenda', f) <=> Pending(agenda, f)
      PROVE  ReturnsHold(agenda', hasReturn', reports')
  BY <1>2, <1>3, <1>4
<1>5. CASE (PlainVisit \/ ScopedVisit) /\ ~VisitReturn
  <2>1. agenda[1].do = "visit" /\ Descends(agenda[1].at)
    BY <1>5, PlainVisits, ScopedVisits DEF Descends, DescendsFar
  <2>2. hasReturn' = hasReturn
    BY <1>5 DEF PlainVisit, ScopedVisit, VisitProgram, VisitIfOrWhile, VisitOperand,
                VisitBinary, VisitCall, VisitLeaf, VisitBlock, VisitFor
  <2>3. ~VisitFunction
    BY <1>5, <2>1, PlainVisits, ScopedVisits, Functions
  <2> QED BY <1>1, <1>4, <2>1, <2>2, <2>3, DescendsReturns
<1>6. CASE VisitReturn
  <2>1. /\ agenda[1].do = "visit" /\ Descends(agenda[1].at) /\ agenda # <<>>
        /\ ast[agenda[1].at].kind = "return" /\ agenda[1].at \in DOMAIN ast
        /\ agenda \in Seq(Tasks)
    <3>1. agenda # <<>> /\ Descends(agenda[1].at) /\ agenda[1].do = "visit"
      BY <1>6, PlainVisits DEF PlainVisit
    <3> QED BY <1>6, <3>1, NowIs DEF VisitReturn, At, AgendaInv, Ordered
  <2>2. ~VisitFunction
    BY <2>1, Functions
  <2>3. Inside(agenda') /\ \A f : Pending(agenda', f) <=> Pending(agenda, f)
    BY <1>1, <2>1, DescendsReturns
  <2>4. ASSUME NEW f \in DOMAIN ast, Owes(f)
        PROVE  Kept(f)
    <3>1. ASSUME Pending(agenda, f) PROVE Returns(f)
      <4>1. PICK j \in 1 .. Len(agenda) : agenda[j].do = "leave" /\ agenda[j].at = f
        BY <3>1 DEF Pending
      <4>2. 1 \in 1 .. Len(agenda) /\ 1 < j
        BY <2>1, <4>1
      <4>3. Above(f, agenda[1].at)
        BY <1>1, <4>1, <4>2 DEF Inside
      <4> QED BY <2>1, <4>3 DEF Returns
    <3>2. ~New(f)
      BY <1>1, <2>2, <2>4, FunctionIsVisited
    <3> QED BY <1>1, <2>3, <2>4, <3>1, <3>2 DEF New, ReturnsHold, Kept
  <2> QED BY <1>2, <2>3, <2>4
<1>7. CASE Check \/ VisitAssignment \/ PopScope
  <2>1. /\ Turns(<<>>) /\ hasReturn' = hasReturn /\ agenda # <<>>
        /\ agenda[1].do # "leave" /\ ~VisitFunction
    <3>1. CASE Check
      BY <3>1, Checks, Functions
    <3>2. CASE VisitAssignment
      BY <3>2, Assignments, Functions
    <3>3. CASE PopScope
      <4>1. Turns(<<>>) /\ hasReturn' = hasReturn /\ agenda # <<>>
        BY <3>3, Leavings
      <4>2. agenda[1].do = "pop"
        BY <3>3, <4>1, NowIs DEF PopScope
      <4> QED BY <4>1, <4>2, Functions
    <3> QED BY <1>7, <3>1, <3>2, <3>3
  <2> QED BY <1>1, <1>4, <2>1, HeadReturns
<1>8. CASE LeaveFunction
  <2>1. Turns(<<>>) /\ hasReturn' = hasReturn /\ agenda # <<>>
    BY <1>8, Leavings
  <2>2. /\ Now = agenda[1] /\ agenda[1].do = "leave" /\ ~VisitFunction
        /\ agenda[1].at \in DOMAIN ast
    BY <1>8, <2>1, NowIs, Functions DEF LeaveFunction, At
  <2>3. /\ Inside(agenda')
        /\ \A f : Pending(agenda', f) => Pending(agenda, f)
        /\ \A f : Pending(agenda, f) /\ ~Pending(agenda', f) => agenda[1].at = f
    BY <1>1, <2>1, HeadReturns
  <2>4. ASSUME NEW f \in DOMAIN ast, Owes(f), Pending(agenda, f), ~Pending(agenda', f)
        PROVE  Kept(f)
    <3>1. agenda[1].at = f /\ ast[f].kind = "function"
      BY <2>3, <2>4 DEF Owes
    <3>2. CASE hasReturn
      BY <2>4, <3>2 DEF ReturnsHold, Kept
    <3>3. CASE MissingReturn(f)
      <4>1. Error("missing return", f) \in reports'
        BY <1>8, <2>2, <3>1, <3>3 DEF LeaveFunction
      <4> QED BY <2>4, <4>1 DEF Kept
    <3>4. CASE ~hasReturn /\ ~MissingReturn(f)
      <4> DEFINE body == Append(f, ast[f].arity)
                 last == Append(body, ast[body].arity)
      <4>1. ast[body].arity > 0 /\ ast[last].kind = "return"
        BY <2>4, <3>4 DEF Owes, MissingReturn
      <4>2. f \in Path /\ ast[f].arity \in Nat /\ body \in DOMAIN ast /\ ast[body].kind = "block"
        BY <1>1, <3>1, AritiesAre, BodyCovers
      <4> HIDE DEF body
      <4>3. body \in Path /\ ast[body].arity \in Nat
        BY <1>1, <4>2, NodesArePaths, AritiesAre
      <4>4. ast[body].arity \in 1 .. ast[body].arity
        BY <4>1, <4>3
      <4>5. last \in DOMAIN ast
        BY <1>1, <4>2, <4>4 DEF WellFormed, Full
      <4>6. Above(f, body) /\ Above(body, last) /\ last \in Path
        <5>1. Above(f, body)
          BY <4>2, ChildIs DEF body
        <5> QED BY <4>3, <5>1, ChildIs
      <4> HIDE DEF last
      <4>7. Above(f, last)
        BY <4>2, <4>3, <4>6, AboveOrder
      <4>8. Returns(f)
        BY <4>1, <4>5, <4>7 DEF Returns
      <4> QED BY <2>4, <4>8 DEF Kept
    <3> QED BY <3>2, <3>3, <3>4
  <2> QED BY <1>2, <1>3, <2>1, <2>2, <2>3, <2>4
<1>9. CASE VisitDeclaration
  <2>1. agenda # <<>> /\ hasReturn' = hasReturn /\ ast[agenda[1].at].kind = "declaration"
    BY <1>9, Declarations
  <2>2. ~VisitFunction
    BY <2>1, Functions
  <2> QED BY <1>1, <1>4, <1>9, <2>1, <2>2, DeclarationReturns
<1>10. CASE VisitFunction
  <2>1. Inside(agenda') /\ \A f : Pending(agenda', f) <=> Pending(agenda, f) \/ f = agenda[1].at
    BY <1>1, <1>10, FunctionReturns
  <2>2. hasReturn' = (hasReturn /\ ReturnType(agenda[1].at) = "void")
    BY <1>10, Functions
  <2>3. ASSUME NEW f \in DOMAIN ast, Owes(f)
        PROVE  Kept(f)
    <3>1. CASE f = agenda[1].at
      BY <2>1, <2>2, <2>3, <3>1 DEF Owes, Kept
    <3>2. CASE f # agenda[1].at
      <4>1. ~New(f)
        BY <1>1, <2>3, <3>2, FunctionIsVisited
      <4> QED BY <1>1, <2>1, <2>2, <2>3, <3>2, <4>1 DEF New, ReturnsHold, Kept
    <3> QED BY <3>1, <3>2
  <2> QED BY <1>2, <2>1, <2>3
<1>11. CASE Analyze \/ Finish \/ Terminated \/ UNCHANGED vars
  <2>1. UNCHANGED <<agenda, hasReturn, reports>>
    BY <1>11 DEF Analyze, Finish, Terminated, vars
  <2> QED BY <2>1
<1> QED BY <1>5, <1>6, <1>7, <1>8, <1>9, <1>10, <1>11
        DEF Next, PlainVisit, ScopedVisit, Check

LEMMA ReturnInvNext ==
  ASSUME Inv, ReturnInv, [Next]_vars PROVE ReturnInv'
<1>1. ast' = ast
  BY DEF Next, vars, Analyze, VisitProgram, VisitFunction, LeaveFunction, VisitDeclaration,
         CheckInitializer, VisitBlock, PopScope, VisitAssignment, VisitReturn, CheckReturn,
         VisitIfOrWhile, VisitFor, CheckCondition, VisitOperand, VisitBinary, CheckOperands,
         VisitCall, VisitLeaf, Finish, Terminated
<1>2. CASE status = "running"
  BY <1>1, <1>2, ReturnsNext, SameReturns DEF ReturnInv
<1>3. CASE Analyze
  <2> DEFINE t == Task("visit", <<>>)
  <2>1. agenda' = <<t>> /\ WellFormed(ast) /\ <<>> \in Path
    BY <1>3, Trees, NodesArePaths DEF Analyze
  <2>2. t.do = "visit" /\ t.at = <<>>
    BY <2>1, TaskIs DEF Doings
  <2> HIDE DEF t
  <2>3. \A k \in 1 .. Len(agenda') : agenda'[k].do = "visit"
    BY <2>1, <2>2
  <2>4. Inside(agenda') /\ \A f : ~Pending(agenda', f)
    BY <2>3 DEF Inside, Pending
  <2>5. \A f \in DOMAIN ast : Awaited(agenda', f)
    BY <2>1, <2>2, NodesArePaths DEF Awaited, Awaits, Above, Path
  <2>6. ReturnsHold(agenda', hasReturn', reports')
    BY <2>4, <2>5 DEF ReturnsHold
  <2> QED BY <1>1, <2>6, SameReturns DEF ReturnInv
<1>4. CASE status # "running" /\ ~Analyze
  <2>1. UNCHANGED vars
    BY <1>4 DEF Next, vars, VisitProgram, VisitFunction, LeaveFunction, VisitDeclaration,
         CheckInitializer, VisitBlock, PopScope, VisitAssignment, VisitReturn, CheckReturn,
         VisitIfOrWhile, VisitFor, CheckCondition, VisitOperand, VisitBinary, CheckOperands,
         VisitCall, VisitLeaf, Finish, Terminated, At
  <2> QED BY <1>1, <2>1, SameReturns DEF ReturnInv, vars
<1> QED BY <1>2, <1>3, <1>4

\* AcceptedFunctionsReturn, for every program: hasReturnStatement_ is reset
\* where a function that must return begins, so a return that it remembers when
\* such a function is left stands in that function.
THEOREM ReturnsAreFound == Spec => []AcceptedFunctionsReturn
<1>1. ASSUME Inv, DeclaredInv, ReturnInv PROVE AcceptedFunctionsReturn
  <2> SUFFICES ASSUME status = "done", reports = {}, NEW f \in DOMAIN ast, Owes(f)
               PROVE  \E p \in DOMAIN ast : IsPrefix(f, p) /\ ast[p].kind = "return"
    BY DEF AcceptedFunctionsReturn, Accepted, Owes
  <2>1. agenda = <<>> /\ WellFormed(ast)
    BY <1>1, Trees DEF DeclaredInv
  <2>2. ~Awaited(agenda, f) /\ ~Pending(agenda, f)
    BY <2>1, NoneAwaited DEF Pending
  <2>3. Returns(f)
    BY <1>1, <2>2 DEF ReturnInv, ReturnsHold
  <2> QED BY <2>1, <2>3, NodesArePaths, AboveIs DEF Returns
<1>2. Init => DeclaredInv /\ ReturnInv
  BY DeclaredInit DEF Init, ReturnInv
<1>3. Inv /\ DeclaredInv /\ [Next]_vars => DeclaredInv'
  BY DeclaredNext
<1>4. Inv /\ ReturnInv /\ [Next]_vars => ReturnInv'
  BY ReturnInvNext
<1> QED BY <1>1, <1>2, <1>3, <1>4, StructureInvariant, PTL DEF Spec

-----------------------------------------------------------------------------
(* checkExpressionType *)

\* The rule that checkExpressionType is made of, for the nodes in D.
IsTypes(g, D) == g = [p \in D |-> ExpressionType(g, p)]

LEMMA OperandsAre ==
  ASSUME WellFormed(ast), NEW p \in DOMAIN ast
  PROVE  /\ ast[p].kind = "binary" => /\ Append(p, 1) \in DOMAIN ast
                                      /\ Append(p, 2) \in DOMAIN ast
         /\ ast[p].kind \in {"unary", "assignment"} => Append(p, 1) \in DOMAIN ast
<1>1. ast[p].kind = "binary" => ast[p].arity = 2
  BY AritiesAre DEF Arities
<1>2. ast[p].kind \in {"unary", "assignment"} => ast[p].arity = 1
  BY AritiesAre DEF Arities
<1>3. ast[p].kind \in Full => \A i \in 1 .. ast[p].arity : Append(p, i) \in DOMAIN ast
  BY DEF WellFormed
<1>4. ast[p].kind = "binary" => 1 \in 1 .. ast[p].arity /\ 2 \in 1 .. ast[p].arity
  BY <1>1
<1>5. ast[p].kind \in {"unary", "assignment"} => 1 \in 1 .. ast[p].arity
  BY <1>2
<1> QED BY <1>3, <1>4, <1>5 DEF Full

\* What the rule says of p follows from its operands.
LEMMA RuleOfOperands ==
  ASSUME NEW p, NEW g, NEW h,
         ast[p].kind = "binary" => /\ g[Append(p, 1)] = h[Append(p, 1)]
                                   /\ g[Append(p, 2)] = h[Append(p, 2)],
         ast[p].kind = "unary" => g[Append(p, 1)] = h[Append(p, 1)]
  PROVE  ExpressionType(g, p) = ExpressionType(h, p)
BY DEF ExpressionType

\* A finite tree has a longest path.
LEMMA LongestPath ==
  ASSUME WellFormed(ast)
  PROVE  \E n \in Nat : \A p \in DOMAIN ast : Len(p) <= n
<1> DEFINE n == Cardinality(DOMAIN ast)
<1>1. IsFiniteSet(DOMAIN ast) /\ DOMAIN ast \subseteq Path
  BY NodesArePaths
<1>2. n \in Nat
  BY <1>1, FS_CardinalityType
<1>3. ASSUME NEW p \in DOMAIN ast
      PROVE  Len(p) <= n
  <2> DEFINE f == [i \in 0 .. Len(p) |-> Cut(p, i)]
  <2>1. p \in Path /\ Len(p) \in Nat
    BY <1>1 DEF Path
  <2>2. ASSUME NEW i \in 0 .. Len(p)
        PROVE  Cut(p, i) \in DOMAIN ast /\ Len(Cut(p, i)) = i
    <3>1. Cut(p, i) \in Path /\ Len(Cut(p, i)) = i
      BY <2>1, CutIs
    <3>2. Above(Cut(p, i), p)
      BY <2>1, <3>1, CutAbove
    <3> QED BY <2>1, <3>1, <3>2, AncestorsAreNodes
  <2>3. f \in [0 .. Len(p) -> DOMAIN ast]
    BY <2>2
  <2>4. \A a, b \in DOMAIN f : f[a] = f[b] => a = b
    BY <2>2
  <2>5. f \in Injection(0 .. Len(p), DOMAIN ast)
    BY <2>3, <2>4 DEF Injection, IsInjective
  <2>6. Cardinality(0 .. Len(p)) <= n
    <3> HIDE DEF f
    <3> QED BY <1>1, <2>5, FS_Injection
  <2>7. Cardinality(0 .. Len(p)) = Len(p) + 1
    BY <2>1, FS_Interval
  <2> HIDE DEF n
  <2> QED BY <1>2, <2>1, <2>6, <2>7
<1> QED BY <1>2, <1>3

\* The nodes at n or more slots from the root.
Deep(n) == {p \in DOMAIN ast : Len(p) >= n}

LEMMA TypesExist ==
  ASSUME WellFormed(ast)
  PROVE  \E g : IsTypes(g, DOMAIN ast)
<1> DEFINE T == {k \in Nat : \E g : IsTypes(g, Deep(k))}
<1>1. /\ DOMAIN ast \subseteq Path
      /\ \A p \in DOMAIN ast : p \in Path /\ Len(p) \in Nat
  BY NodesArePaths DEF Path
<1>2. T # {}
  <2>1. PICK n \in Nat : \A p \in DOMAIN ast : Len(p) <= n
    BY LongestPath
  <2>2. Deep(n + 1) = {}
    BY <1>1, <2>1 DEF Deep
  <2>3. IsTypes([p \in {} |-> 0], {})
    BY DEF IsTypes
  <2>4. n + 1 \in Nat /\ \E g : IsTypes(g, Deep(n + 1))
    <3> DEFINE none == [p \in {} |-> 0]
    <3>1. IsTypes(none, Deep(n + 1))
      BY <2>2, <2>3
    <3> HIDE DEF none
    <3> QED BY <3>1
  <2>5. n + 1 \in T
    BY <2>4
  <2> QED BY <2>5
<1>3. PICK m \in T : \A k \in T : m <= k
  <2>1. T \subseteq Nat
    OBVIOUS
  <2> HIDE DEF T
  <2> QED BY <1>2, <2>1, LeastNumber
<1>4. m \in Nat
  OBVIOUS
<1>5. PICK f : IsTypes(f, Deep(m))
  OBVIOUS
<1>6. CASE m = 0
  <2> HIDE DEF T
  <2>1. Deep(m) = DOMAIN ast
    BY <1>1, <1>6 DEF Deep
  <2> QED BY <1>5, <2>1
<1>7. CASE m # 0
  <2> DEFINE g == [p \in Deep(m - 1) |-> IF Len(p) >= m THEN f[p] ELSE ExpressionType(f, p)]
             new == [p \in Deep(m - 1) |-> ExpressionType(g, p)]
  <2>1. m - 1 \in Nat /\ m - 1 \notin T
    <3>1. m - 1 \in Nat /\ ~(m <= m - 1)
      BY <1>4, <1>7
    <3> HIDE DEF T
    <3> QED BY <1>3, <3>1
  <2> HIDE DEF T
  <2>2. ASSUME NEW q \in DOMAIN ast, Len(q) >= m
        PROVE  g[q] = f[q] /\ f[q] = ExpressionType(f, q)
    <3>1. q \in Deep(m - 1) /\ q \in Deep(m)
      BY <1>1, <1>4, <2>2 DEF Deep
    <3>2. f[q] = ExpressionType(f, q)
      BY <1>5, <3>1 DEF IsTypes
    <3> QED BY <2>2, <3>1, <3>2
  <2>3. ASSUME NEW p \in Deep(m - 1)
        PROVE  g[p] = new[p]
    <3>1. p \in DOMAIN ast /\ p \in Path /\ Len(p) \in Nat /\ Len(p) >= m - 1
      BY <1>1 DEF Deep
    <3>2. \A i \in Nat : Len(Append(p, i)) >= m
      BY <1>4, <3>1, ChildIs
    <3>3. \A i \in Nat : Append(p, i) \in DOMAIN ast => g[Append(p, i)] = f[Append(p, i)]
      BY <2>2, <3>2
    <3>4. g[p] = IF Len(p) >= m THEN f[p] ELSE ExpressionType(f, p)
      OBVIOUS
    <3>5. new[p] = ExpressionType(g, p)
      OBVIOUS
    <3> HIDE DEF g, new
    <3>6. ExpressionType(g, p) = ExpressionType(f, p)
      BY <3>1, <3>3, OperandsAre, RuleOfOperands
    <3>7. Len(p) >= m => f[p] = ExpressionType(f, p)
      BY <2>2, <3>1
    <3> QED BY <3>4, <3>5, <3>6, <3>7
  <2>4. g = new
    BY <2>3
  <2>5. IsTypes(g, Deep(m - 1))
    BY <2>4 DEF IsTypes
  <2> QED BY <2>1, <2>5 DEF T
<1> QED BY <1>6, <1>7

LEMMA TypeOfIs ==
  ASSUME WellFormed(ast)
  PROVE  \E g : IsTypes(g, DOMAIN ast) /\ \A p \in DOMAIN ast : TypeOf(p) = g[p]
<1> DEFINE check[p \in DOMAIN ast] == ExpressionType(check, p)
<1>1. PICK g : IsTypes(g, DOMAIN ast)
  BY TypesExist
<1>2. \A path : TypeOf(path) = check[path]
  BY DEF TypeOf
<1>3. check = [p \in DOMAIN ast |-> ExpressionType(check, p)]
  BY <1>1 DEF IsTypes
<1> HIDE DEF check
<1> QED BY <1>2, <1>3 DEF IsTypes

\* A variable that is declared without a type.
Untyped == \E d \in Declarers : ast[d].kind = "declaration" /\ ast[d].type = NoType

LEMMA LookupTyped ==
  ASSUME Inv, status = "running", agenda # <<>>, NEW name, NEW s \in Lookup(name)
  PROVE  s.type \in Builtins \cup {NoType} /\ (s.type = NoType => Untyped)
<1>1. /\ WellFormed(ast) /\ scopes \in Seq(ScopeSet) /\ FollowsTree(scopes)
      /\ \A r, q \in 1 .. Len(scopes) : scopes[r].at = scopes[q].at => r = q
      /\ \A r \in 1 .. Len(scopes) : HasFirst(scopes[r], agenda)
      /\ current \in 1 .. Len(scopes) /\ Len(scopes) \in Nat
  BY NowIs, LenProperties DEF Structure, ScopesInv, OneForEach, CurrentIs
<1>2. \E m : /\ Nearest(name, current, m)
             /\ Lookup(name) = IF m = 0 THEN {} ELSE LocalSymbols(m, name)
  BY <1>1, LookupIs
<1>3. PICK m : /\ Nearest(name, current, m)
               /\ Lookup(name) = IF m = 0 THEN {} ELSE LocalSymbols(m, name)
  BY <1>2
<1>4. m \in 1 .. Len(scopes) /\ s \in scopes[m].symbols
  BY <1>3 DEF Nearest, LocalSymbols
<1>5. PICK d \in Declarers : s = SymbolOf(d)
  BY <1>1, <1>4 DEF HasFirst
<1> QED BY <1>1, <1>5, SymbolIs DEF Untyped

\* What checkExpressionType can find.
Undefineds == [what : {"undefined identifier"}, at : DOMAIN ast]

Sound(typing) ==
  /\ typing.errors \subseteq Undefineds
  /\ ~Untyped => typing.type # NoType /\ ~typing.crash

LEMMA TypingIs ==
  ASSUME NEW type, NEW errors, NEW crash
  PROVE  LET t == Typing(type, errors, crash) IN
         t.type = type /\ t.errors = errors /\ t.crash = crash
BY DEF Typing

LEMMA BinaryIs ==
  ASSUME NEW op, NEW left, NEW right, left # NoType, right # NoType
  PROVE  BinaryType(op, left, right).type # NoType /\ ~BinaryType(op, left, right).crash
<1> DEFINE both == BinaryType(op, left, right)
<1> SUFFICES both.type # NoType /\ ~both.crash
  OBVIOUS
<1>1. CASE left = right
  <2>1. both = Typing(left, {}, FALSE)
    BY <1>1 DEF BinaryType
  <2> HIDE DEF both
  <2> QED BY <2>1 DEF Typing
<1>2. CASE left # right /\ op \notin Arithmetic
  <2>1. both = Typing("bool", {}, FALSE)
    BY <1>2 DEF BinaryType
  <2> HIDE DEF both
  <2> QED BY <2>1 DEF Typing, NoType
<1>3. CASE left # right /\ op \in Arithmetic
  <2> DEFINE type == IF "float" \in {left, right} THEN "float" ELSE "int"
             crash == left = NoType \/ (left # "float" /\ right = NoType)
  <2>1. both = Typing(type, {}, crash)
    BY <1>3 DEF BinaryType
  <2>2. type # NoType /\ ~crash
    BY DEF NoType
  <2> HIDE DEF both, type, crash
  <2>3. both.type = type /\ both.crash = crash
    BY <2>1 DEF Typing
  <2> QED BY <2>2, <2>3
<1> QED BY <1>1, <1>2, <1>3

LEMMA ExpressionSound ==
  ASSUME Inv, status = "running", agenda # <<>>, NEW p \in DOMAIN ast, NEW g,
         ast[p].kind = "binary" => Sound(g[Append(p, 1)]) /\ Sound(g[Append(p, 2)]),
         ast[p].kind = "unary" => Sound(g[Append(p, 1)])
  PROVE  Sound(ExpressionType(g, p))
<1>1. WellFormed(ast) /\ "any" # NoType
  BY Trees DEF NoType
<1>2. \A name : \A s \in Lookup(name) : s.type = NoType => Untyped
  BY LookupTyped
<1>3. ASSUME NEW type, type = NoType => Untyped
      PROVE  Sound(Typing(type, {}, FALSE))
  <2> DEFINE t == Typing(type, {}, FALSE)
  <2>1. t.type = type /\ t.errors = {} /\ t.crash = FALSE
    BY DEF Typing
  <2> HIDE DEF t
  <2>2. Sound(t)
    BY <1>3, <2>1 DEF Sound
  <2> QED BY <2>2 DEF t
<1>4. CASE ast[p].kind = "literal"
  <2>1. ast[p].type # NoType
    BY <1>1, <1>4 DEF WellFormed, NoType
  <2>2. ExpressionType(g, p) = Typing(ast[p].type, {}, FALSE)
    BY <1>4 DEF ExpressionType
  <2> QED BY <1>3, <2>1, <2>2
<1>5. CASE ast[p].kind = "identifier" /\ Lookup(ast[p].name) # {}
  <2> DEFINE s == CHOOSE s \in Lookup(ast[p].name) : TRUE
  <2>1. s \in Lookup(ast[p].name)
    BY <1>5
  <2>2. ExpressionType(g, p) = Typing(s.type, {}, FALSE)
    BY <1>5 DEF ExpressionType
  <2> HIDE DEF s
  <2> QED BY <1>2, <1>3, <2>1, <2>2
<1>6. CASE ast[p].kind = "identifier" /\ Lookup(ast[p].name) = {}
  <2> DEFINE errors == {Error("undefined identifier", p)}
  <2>1. ExpressionType(g, p) = Typing("any", errors, FALSE)
    BY <1>6 DEF ExpressionType
  <2>2. errors \subseteq Undefineds
    BY DEF Error, Undefineds
  <2> HIDE DEF errors
  <2> DEFINE t == Typing("any", errors, FALSE)
  <2>3. t.type = "any" /\ t.errors = errors /\ t.crash = FALSE
    BY DEF Typing
  <2> HIDE DEF t
  <2>4. Sound(t)
    BY <1>1, <2>2, <2>3 DEF Sound
  <2> QED BY <2>1, <2>4 DEF t
<1>7. CASE ast[p].kind = "binary"
  <2> DEFINE left == g[Append(p, 1)]
             right == g[Append(p, 2)]
             both == BinaryType(ast[p].name, left.type, right.type)
             errors == left.errors \cup right.errors
  <2>1. ExpressionType(g, p) =
          Typing(both.type, errors, left.crash \/ right.crash \/ both.crash)
    BY <1>7 DEF ExpressionType
  <2>2. Sound(left) /\ Sound(right)
    BY <1>7
  <2> HIDE DEF left, right
  <2>3. errors \subseteq Undefineds
    BY <2>2 DEF Sound
  <2>4. ~Untyped => both.type # NoType /\ ~both.crash /\ ~left.crash /\ ~right.crash
    BY <2>2, BinaryIs DEF Sound
  <2> DEFINE crash == left.crash \/ right.crash \/ both.crash
  <2>5. ~Untyped => ~crash
    BY <2>4
  <2> HIDE DEF both, errors, crash
  <2>6. ExpressionType(g, p) = Typing(both.type, errors, crash)
    BY <2>1 DEF crash
  <2> QED BY <2>3, <2>4, <2>5, <2>6, TypingIs DEF Sound
<1>8. CASE ast[p].kind = "unary"
  BY <1>8 DEF ExpressionType
<1>9. CASE ast[p].kind = "call"
  <2> DEFINE callee == ast[Append(p, 1)]
             type == IF /\ callee.kind = "identifier"
                        /\ \E s \in Lookup(callee.name) : s.kind = "function"
                     THEN (CHOOSE s \in Lookup(callee.name) : TRUE).type ELSE "any"
  <2>1. ExpressionType(g, p) = Typing(type, {}, FALSE)
    BY <1>9 DEF ExpressionType
  <2>2. type = NoType => Untyped
    <3>1. CASE \E s \in Lookup(callee.name) : s.kind = "function"
      <4> DEFINE s == CHOOSE s \in Lookup(callee.name) : TRUE
      <4>1. s \in Lookup(callee.name)
        BY <3>1
      <4>2. type \in {s.type, "any"}
        OBVIOUS
      <4> HIDE DEF s, type
      <4> QED BY <1>1, <1>2, <4>1, <4>2
    <3>2. CASE ~ \E s \in Lookup(callee.name) : s.kind = "function"
      BY <1>1, <3>2
    <3> QED BY <3>1, <3>2
  <2> HIDE DEF type
  <2> QED BY <1>3, <2>1, <2>2
<1>10. CASE ast[p].kind \notin {"literal", "identifier", "binary", "unary", "call"}
  <2>1. ExpressionType(g, p) = Typing("any", {}, FALSE)
    BY <1>10 DEF ExpressionType
  <2> QED BY <1>1, <1>3, <2>1
<1> QED BY <1>4, <1>5, <1>6, <1>7, <1>8, <1>9, <1>10

LEMMA TypeOfSound ==
  ASSUME Inv, status = "running", agenda # <<>>
  PROVE  \A p \in DOMAIN ast : Sound(TypeOf(p))
<1>1. WellFormed(ast) /\ \A p \in DOMAIN ast : p \in Path /\ Len(p) \in Nat
  BY Trees, NodesArePaths DEF Path
<1>2. PICK g : IsTypes(g, DOMAIN ast) /\ \A p \in DOMAIN ast : TypeOf(p) = g[p]
  BY <1>1, TypeOfIs
<1>3. PICK n \in Nat : \A p \in DOMAIN ast : Len(p) <= n
  BY <1>1, LongestPath
<1> DEFINE Bad == {p \in DOMAIN ast : ~Sound(g[p])}
           T == {Len(p) : p \in Bad}
<1>4. CASE Bad = {}
  BY <1>2, <1>4
<1>5. CASE Bad # {}
  <2>1. T # {} /\ T \subseteq 0 .. n
    <3>1. \A p \in Bad : Len(p) \in 0 .. n
      BY <1>1, <1>3
    <3> HIDE DEF Bad
    <3> QED BY <1>5, <3>1
  <2>2. PICK m \in T : \A k \in T : k <= m
    <3> HIDE DEF T
    <3> QED BY <2>1, GreatestNumber
  <2>3. PICK p \in Bad : Len(p) = m
    BY <2>2
  <2>4. p \in DOMAIN ast /\ p \in Path /\ Len(p) \in Nat /\ ~Sound(g[p])
    BY <1>1
  <2>5. ASSUME NEW q \in DOMAIN ast, Len(q) > Len(p)
        PROVE  Sound(g[q])
    <3>1. SUFFICES ASSUME q \in Bad PROVE FALSE
      OBVIOUS
    <3>2. Len(q) \in T
      BY <3>1
    <3>3. Len(q) <= m /\ Len(q) \in Nat
      BY <1>1, <2>2, <3>2
    <3> HIDE DEF T, Bad
    <3> QED BY <2>3, <2>4, <2>5, <3>3
  <2>6. \A i \in Nat : Append(p, i) \in DOMAIN ast => Sound(g[Append(p, i)])
    <3>1. \A i \in Nat : Len(Append(p, i)) > Len(p)
      BY <2>4, ChildIs
    <3> HIDE DEF Bad, T
    <3> QED BY <2>5, <3>1
  <2> HIDE DEF Bad, T
  <2>7. /\ ast[p].kind = "binary" => Sound(g[Append(p, 1)]) /\ Sound(g[Append(p, 2)])
        /\ ast[p].kind = "unary" => Sound(g[Append(p, 1)])
    BY <1>1, <2>4, <2>6, OperandsAre
  <2>8. Sound(ExpressionType(g, p))
    BY <2>4, <2>7, ExpressionSound
  <2>9. g[p] = ExpressionType(g, p)
    BY <1>2, <2>4 DEF IsTypes
  <2> QED BY <2>4, <2>8, <2>9
<1> QED BY <1>4, <1>5

-----------------------------------------------------------------------------
(* Types, reports and crashes *)

Reported(errors) == \A e \in errors : e.what \in Whats /\ e.at \in DOMAIN ast

\* Every report is about a node, and only a variable without a type crashes.
TypingInv ==
  /\ hasReturn \in BOOLEAN /\ Reported(reports)
  /\ status = "crashed" => Untyped

LEMMA OneReport ==
  ASSUME NEW what \in Whats, NEW p \in DOMAIN ast, NEW errors, errors \subseteq {Error(what, p)}
  PROVE  Reported(errors)
BY DEF Reported, Error

LEMMA CheckedSound ==
  ASSUME Inv, TypingInv, status = "running", agenda # <<>>, NEW paths \in SUBSET DOMAIN ast,
         NEW what \in Whats, NEW p \in DOMAIN ast, NEW errors, errors \subseteq {Error(what, p)},
         Checked(paths, errors)
  PROVE  Reported(reports') /\ (status' = "crashed" => Untyped)
<1>1. \A q \in paths : Sound(TypeOf(q))
  BY TypeOfSound
<1>2. Reported(errors) /\ Reported(reports)
  BY OneReport DEF TypingInv
<1>3. ASSUME NEW e \in reports', e \notin reports, e \notin errors
      PROVE  e.what \in Whats /\ e.at \in DOMAIN ast
  <2>1. PICK q \in paths : e \in TypeOf(q).errors
    BY <1>3 DEF Checked
  <2>2. e \in Undefineds
    BY <1>1, <2>1 DEF Sound
  <2> QED BY <2>2 DEF Undefineds, Whats
<1>4. status' = "crashed" => \E q \in paths : TypeOf(q).crash
  BY DEF Checked
<1>5. status' = "crashed" => Untyped
  BY <1>1, <1>4 DEF Sound
<1> QED BY <1>2, <1>3, <1>5 DEF Reported

\* The expressions that a task looks at are nodes.
LEMMA CheckTyping ==
  ASSUME Inv, TypingInv, Check \/ VisitAssignment \/ VisitCall
  PROVE  Reported(reports') /\ (status' = "crashed" => Untyped)
<1> DEFINE p == agenda[1].at
<1>1. status = "running" /\ agenda # <<>>
  BY DEF Check, CheckInitializer, CheckReturn, CheckCondition, CheckOperands,
         VisitAssignment, VisitCall, At
<1>2. /\ Now = agenda[1] /\ Fits(agenda[1]) /\ WellFormed(ast) /\ p \in DOMAIN ast
  BY <1>1, NowIs
<1>3. /\ "type mismatch" \in Whats /\ "undefined target" \in Whats
      /\ "invalid return" \in Whats /\ "not boolean" \in Whats
      /\ "operand mismatch" \in Whats /\ "undefined function" \in Whats
  BY DEF Whats
<1>4. CASE CheckInitializer
  <2>1. Append(p, 1) \in DOMAIN ast
    BY <1>2, <1>4 DEF CheckInitializer, At, Fits
  <2> DEFINE init == Append(p, 1)
             errors == IF Mismatch(DeclaredType(p), TypeOf(init).type)
                       THEN {Error("type mismatch", p)} ELSE {}
  <2>2. Checked({init}, errors)
    BY <1>2, <1>4 DEF CheckInitializer
  <2>3. errors \subseteq {Error("type mismatch", p)}
    OBVIOUS
  <2> HIDE DEF errors, init
  <2>4. {init} \in SUBSET DOMAIN ast
    BY <2>1 DEF init
  <2> QED BY <1>1, <1>2, <1>3, <2>2, <2>3, <2>4, CheckedSound
<1>5. CASE VisitAssignment
  <2>1. ast[p].kind = "assignment"
    BY <1>2, <1>5 DEF VisitAssignment, At
  <2> DEFINE value == Append(p, 1)
             wrong(s) == IF Mismatch(s.type, TypeOf(value).type)
                         THEN {Error("type mismatch", p)} ELSE {}
             undefined == {Error("undefined target", p)}
             none == {}
             one == {value}
  <2>2. Checked(none, undefined) \/ \E s : Checked(one, wrong(s))
    BY <1>2, <1>5 DEF VisitAssignment
  <2>3. \A s : wrong(s) \subseteq {Error("type mismatch", p)}
    OBVIOUS
  <2>4. none \in SUBSET DOMAIN ast /\ undefined \subseteq {Error("undefined target", p)}
    OBVIOUS
  <2>5. one \in SUBSET DOMAIN ast
    BY <1>2, <2>1, OperandsAre
  <2> HIDE DEF wrong, value, none, undefined, one
  <2>6. CASE Checked(none, undefined)
    BY <1>1, <1>2, <1>3, <2>4, <2>6, CheckedSound
  <2>7. CASE \E s : Checked(one, wrong(s))
    <3>1. PICK s : Checked(one, wrong(s))
      BY <2>7
    <3> QED BY <1>1, <1>2, <1>3, <2>3, <2>5, <3>1, CheckedSound
  <2> QED BY <2>2, <2>6, <2>7
<1>6. CASE CheckReturn
  <2>1. Append(p, 1) \in DOMAIN ast
    BY <1>2, <1>6 DEF CheckReturn, At, Fits
  <2> DEFINE one == {Append(p, 1)}
             errors == IF TypeOf(Append(p, 1)).type = NoType
                       THEN {Error("invalid return", p)} ELSE {}
  <2>2. Checked(one, errors) /\ one \in SUBSET DOMAIN ast
    BY <1>2, <1>6, <2>1 DEF CheckReturn
  <2>3. errors \subseteq {Error("invalid return", p)}
    OBVIOUS
  <2> HIDE DEF errors, one
  <2> QED BY <1>1, <1>2, <1>3, <2>2, <2>3, CheckedSound
<1>7. CASE CheckCondition
  <2> DEFINE one == {p}
             errors == IF TypeOf(p).type \in {NoType, "bool", "any"} THEN {}
                       ELSE {Error("not boolean", p)}
  <2>1. Checked(one, errors) /\ one \in SUBSET DOMAIN ast
    BY <1>2, <1>7 DEF CheckCondition
  <2>2. errors \subseteq {Error("not boolean", p)}
    OBVIOUS
  <2> HIDE DEF errors, one
  <2> QED BY <1>1, <1>2, <1>3, <2>1, <2>2, CheckedSound
<1>8. CASE CheckOperands
  <2>1. ast[p].kind = "binary"
    BY <1>2, <1>8 DEF CheckOperands, At
  <2> DEFINE left  == TypeOf(Append(p, 1)).type
             right == TypeOf(Append(p, 2)).type
             wrong == /\ Mismatch(left, right)
                      /\ ast[p].name \in Arithmetic => {left, right} # {"int", "float"}
             both == {Append(p, 1), Append(p, 2)}
             errors == IF wrong THEN {Error("operand mismatch", p)} ELSE {}
  <2>2. Checked(both, errors)
    BY <1>2, <1>8 DEF CheckOperands
  <2>3. errors \subseteq {Error("operand mismatch", p)}
    OBVIOUS
  <2>4. both \in SUBSET DOMAIN ast
    BY <1>2, <2>1, OperandsAre
  <2> HIDE DEF errors, both
  <2> QED BY <1>1, <1>2, <1>3, <2>2, <2>3, <2>4, CheckedSound
<1>9. CASE VisitCall
  <2> DEFINE callee == ast[Append(p, 1)]
             none == {}
             errors == IF /\ callee.kind = "identifier"
                          /\ \A s \in Lookup(callee.name) : s.kind # "function"
                       THEN {Error("undefined function", p)} ELSE {}
  <2>1. Checked(none, errors) /\ none \in SUBSET DOMAIN ast
    BY <1>2, <1>9 DEF VisitCall
  <2>2. errors \subseteq {Error("undefined function", p)}
    OBVIOUS
  <2> HIDE DEF errors, none
  <2> QED BY <1>1, <1>2, <1>3, <2>1, <2>2, CheckedSound
<1> QED BY <1>4, <1>5, <1>6, <1>7, <1>8, <1>9 DEF Check

LEMMA DeclarationReported ==
  ASSUME NEW d \in DOMAIN ast
  PROVE  Reported(UnknownType(d)) /\ Reported(Redeclared(d))
<1>1. /\ UnknownType(d) \subseteq {Error("unknown type", d)}
      /\ Redeclared(d) \subseteq {Error("redeclared", d)}
  BY DEF UnknownType, Redeclared
<1>2. "unknown type" \in Whats /\ "redeclared" \in Whats
  BY DEF Whats
<1> QED BY <1>1, <1>2, OneReport

LEMMA ParametersReported ==
  ASSUME WellFormed(ast), NEW f \in DOMAIN ast, ast[f].kind = "function"
  PROVE  Reported(ParameterErrors(f))
<1>1. ast[f].arity \in Nat \ {0} /\ \A i \in 1 .. ast[f].arity : Append(f, i) \in DOMAIN ast
  BY AritiesAre DEF WellFormed, Full
<1>2. \A p \in Parameters(f) : p \in DOMAIN ast
  <2>1. \A i \in 1 .. ast[f].arity - 1 : i \in 1 .. ast[f].arity
    BY <1>1
  <2> QED BY <1>1, <2>1 DEF Parameters
<1>3. ASSUME NEW e \in ParameterErrors(f)
      PROVE  \E p \in Parameters(f) : e \in UnknownType(p) \/ e = Error("redeclared", p)
  BY <1>3 DEF ParameterErrors
<1>4. ASSUME NEW e \in ParameterErrors(f)
      PROVE  e.what \in Whats /\ e.at \in DOMAIN ast
  <2>1. PICK p \in Parameters(f) : e \in UnknownType(p) \/ e = Error("redeclared", p)
    BY <1>3
  <2>2. p \in DOMAIN ast
    BY <1>2
  <2>3. e = Error("redeclared", p) => e.what \in Whats /\ e.at \in DOMAIN ast
    BY <2>2 DEF Error, Whats
  <2> QED BY <2>1, <2>2, <2>3, DeclarationReported DEF Reported
<1> QED BY <1>4 DEF Reported

LEMMA TypingNext ==
  ASSUME Inv, TypingInv, [Next]_vars PROVE TypingInv'
<1>1. ast' = ast
  BY DEF Next, vars, Analyze, VisitProgram, VisitFunction, LeaveFunction, VisitDeclaration,
         CheckInitializer, VisitBlock, PopScope, VisitAssignment, VisitReturn, CheckReturn,
         VisitIfOrWhile, VisitFor, CheckCondition, VisitOperand, VisitBinary, CheckOperands,
         VisitCall, VisitLeaf, Finish, Terminated
<1>2. hasReturn' \in BOOLEAN
  BY DEF TypingInv, Next, vars, Analyze, VisitProgram, VisitFunction, LeaveFunction,
         VisitDeclaration, CheckInitializer, VisitBlock, PopScope, VisitAssignment,
         VisitReturn, CheckReturn, VisitIfOrWhile, VisitFor, CheckCondition, VisitOperand,
         VisitBinary, CheckOperands, VisitCall, VisitLeaf, Finish, Terminated
<1>3. ASSUME Reported(reports'), status' = "crashed" => Untyped
      PROVE  TypingInv'
  <2>1. Untyped' <=> Untyped
    BY <1>1, SameTree DEF Untyped
  <2>2. Reported(reports)' <=> Reported(reports')
    BY <1>1 DEF Reported
  <2> QED BY <1>2, <1>3, <2>1, <2>2 DEF TypingInv
<1>4. Reported(reports)
  BY DEF TypingInv
<1>5. CASE Check \/ VisitAssignment \/ VisitCall
  BY <1>3, <1>5, CheckTyping
<1>6. CASE VisitFunction
  <2> DEFINE f == agenda[1].at
  <2>1. /\ reports' = reports \cup UnknownType(f) \cup Redeclared(f) \cup ParameterErrors(f)
        /\ status' = status /\ ast[f].kind = "function" /\ agenda # <<>>
    BY <1>6, Functions
  <2>2. f \in DOMAIN ast /\ WellFormed(ast) /\ status = "running"
    BY <1>6, <2>1, NowIs DEF VisitFunction, At
  <2> HIDE DEF f
  <2>3. /\ Reported(UnknownType(f)) /\ Reported(Redeclared(f))
        /\ Reported(ParameterErrors(f))
    BY <2>1, <2>2, DeclarationReported, ParametersReported
  <2>4. Reported(reports')
    BY <1>4, <2>1, <2>3 DEF Reported
  <2> QED BY <1>3, <2>1, <2>2, <2>4
<1>7. CASE VisitDeclaration
  <2> DEFINE d == agenda[1].at
  <2>1. /\ reports' = reports \cup UnknownType(d) \cup Redeclared(d)
        /\ status' = status /\ agenda # <<>>
    BY <1>7, Declarations
  <2>2. d \in DOMAIN ast /\ status = "running"
    BY <1>7, <2>1, NowIs DEF VisitDeclaration, At
  <2> HIDE DEF d
  <2>3. Reported(UnknownType(d)) /\ Reported(Redeclared(d))
    BY <2>2, DeclarationReported
  <2>4. Reported(reports')
    BY <1>4, <2>1, <2>3 DEF Reported
  <2> QED BY <1>3, <2>1, <2>2, <2>4
<1>8. CASE LeaveFunction
  <2> DEFINE errors == IF MissingReturn(Now.at) THEN {Error("missing return", Now.at)} ELSE {}
  <2>1. /\ reports' = reports \cup errors /\ status' = status /\ status = "running"
        /\ agenda # <<>>
    BY <1>8 DEF LeaveFunction, At
  <2>2. Now.at \in DOMAIN ast
    BY <2>1, NowIs
  <2>3. errors \subseteq {Error("missing return", Now.at)} /\ "missing return" \in Whats
    BY DEF Whats
  <2> HIDE DEF errors
  <2>4. Reported(errors)
    BY <2>2, <2>3, OneReport
  <2>5. Reported(reports')
    BY <1>4, <2>1, <2>4 DEF Reported
  <2> QED BY <1>3, <2>1, <2>5
<1>9. CASE \/ Analyze \/ VisitProgram \/ VisitBlock \/ PopScope \/ VisitReturn
           \/ VisitIfOrWhile \/ VisitFor \/ VisitOperand \/ VisitBinary \/ VisitLeaf
           \/ Finish \/ Terminated \/ UNCHANGED vars
  <2>1. reports' = reports /\ (status' = "crashed" => status = "crashed")
    BY <1>9 DEF vars, Analyze, VisitProgram, VisitBlock, PopScope, VisitReturn,
         VisitIfOrWhile, VisitFor, VisitOperand, VisitBinary, VisitLeaf, Finish, Terminated
  <2> QED BY <1>3, <1>4, <2>1 DEF TypingInv
<1> QED BY <1>5, <1>6, <1>7, <1>8, <1>9 DEF Next, Check

\* The types of everything that the analyzer keeps, for every program.
THEOREM AnalysisTyping == Spec => []TypeOK
<1>1. ASSUME Inv, TypingInv PROVE TypeOK
  <2>1. CASE status = "start"
    <3>1. agenda = <<>> /\ scopes = <<>> /\ current = 0
      BY <1>1, <2>1 DEF Inv
    <3>2. DOMAIN agenda = {} /\ DOMAIN scopes = {} /\ Len(scopes) = 0
      BY <3>1
    <3> QED BY <1>1, <3>1, <3>2 DEF Inv, TypingInv, Reported, TypeOK
  <2>2. CASE status # "start"
    <3>1. /\ agenda \in Seq(Tasks) /\ \A i \in 1 .. Len(agenda) : Fits(agenda[i])
          /\ scopes \in Seq(ScopeSet) /\ FollowsTree(scopes) /\ current \in 0 .. Len(scopes)
      BY <1>1, <2>2 DEF Inv, Structure, AgendaInv, Ordered, ScopesInv
    <3>2. DOMAIN agenda = 1 .. Len(agenda) /\ DOMAIN scopes = 1 .. Len(scopes)
      BY <3>1, LenProperties
    <3>3. \A i \in DOMAIN agenda : agenda[i].at \in DOMAIN ast
      BY <3>1, <3>2 DEF Fits
    <3>4. ASSUME NEW s \in 1 .. Len(scopes)
          PROVE  /\ scopes[s].parent \in 0 .. s - 1 /\ scopes[s].at \in DOMAIN ast
                 /\ \A symbol \in scopes[s].symbols :
                      symbol.name \in Name /\ symbol.type \in Builtins \cup {NoType}
      <4>1. scopes[s] \in ScopeSet
        BY <3>1, ElementOfSeq
      <4>2. scopes[s].parent \in 0 .. s - 1 /\ scopes[s].at \in DOMAIN ast
        BY <3>1 DEF FollowsTree
      <4> QED BY <4>1, <4>2 DEF ScopeSet
    <3> QED BY <1>1, <3>1, <3>2, <3>3, <3>4 DEF Inv, TypingInv, Reported, TypeOK
  <2> QED BY <2>1, <2>2
<1>2. Init => TypingInv
  BY DEF Init, TypingInv, Reported
<1>3. Inv /\ TypingInv /\ [Next]_vars => TypingInv'
  BY TypingNext
<1> QED BY <1>1, <1>2, <1>3, StructureInvariant, PTL DEF Spec

\* OnlyUntypedVariablesCrash, for every program: checkExpressionType is given a
\* null type only where a variable was declared without a type.
THEOREM CrashesAreExplained == Spec => []OnlyUntypedVariablesCrash
<1>1. TypingInv => OnlyUntypedVariablesCrash
  BY DEF TypingInv, Untyped, OnlyUntypedVariablesCrash
<1>2. Init => TypingInv
  BY DEF Init, TypingInv, Reported
<1>3. Inv /\ TypingInv /\ [Next]_vars => TypingInv'
  BY TypingNext
<1> QED BY <1>1, <1>2, <1>3, StructureInvariant, PTL DEF Spec
=============================================================================
