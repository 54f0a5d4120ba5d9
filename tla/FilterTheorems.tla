--------------------------- MODULE FilterTheorems ---------------------------
(***************************************************************************)
(* What Filter does, for sequences of any length.                          *)
(*                                                                         *)
(* The library's induction theorems take the property as an operator; here *)
(* induction on the natural numbers is stated for a set instead, from the  *)
(* well-foundedness of their order, and the property becomes membership.   *)
(***************************************************************************)
EXTENDS Filtering, Integers, SequenceTheorems, WellFoundedInduction, TLAPS

-----------------------------------------------------------------------------
(* Induction.                                                              *)

\* A nonempty set of natural numbers has a least element.
LEMMA LeastNatural ==
  ASSUME NEW T, T \subseteq Nat, T # {}
  PROVE  \E m \in T : \A k \in T : m <= k
<1> DEFINE R == OpToRel(<, Nat)
<1>1. IsWellFoundedOn(R, Nat)
  BY NatLessThanWellFounded
<1>2. \A a, b \in Nat : <<a, b>> \in R <=> a < b
  BY DEF OpToRel
<1> HIDE DEF R
<1>3. PICK m \in T : \A k \in T : <<k, m>> \notin R
  BY <1>1, WFMin
<1>4. ASSUME NEW k \in T PROVE m <= k
  <2>1. m \in Nat /\ k \in Nat /\ <<k, m>> \notin R
    BY <1>3
  <2>2. ~(k < m)
    BY <1>2, <2>1
  <2>3. QED
    BY <2>1, <2>2
<1>5. QED
  BY <1>4

\* A set that holds 0 and the successor of each of its naturals holds them all.
LEMMA InductionInSet ==
  ASSUME NEW T, 0 \in T, \A n \in Nat : n \in T => n + 1 \in T
  PROVE  Nat \subseteq T
<1> DEFINE U == Nat \ T
<1> SUFFICES ASSUME U # {} PROVE FALSE
  OBVIOUS
<1>1. U \subseteq Nat
  OBVIOUS
<1>2. PICK m \in U : \A k \in U : m <= k
  <2> HIDE DEF U
  <2>1. QED
    BY <1>1, LeastNatural
<1>3. m # 0 /\ m - 1 \in Nat /\ (m - 1) + 1 = m
  OBVIOUS
<1>4. m - 1 \in T
  BY <1>2, <1>3
<1>5. QED
  BY <1>3, <1>4

-----------------------------------------------------------------------------
(* The recursive function that defines Filter.                             *)

\* kept gives, for each length, what the prefix of s of that length keeps.
Keeps(s, S, kept, len) ==
  kept = [n \in 0 .. len |->
            IF n = 0 THEN << >>
            ELSE IF s[n] \in S THEN Append(kept[n - 1], s[n])
            ELSE kept[n - 1]]

\* Such a function exists for every length.
LEMMA KeepsExists ==
  ASSUME NEW s, NEW S
  PROVE  \A len \in Nat : \E kept : Keeps(s, S, kept, len)
<1> DEFINE T == {len \in Nat : \E kept : Keeps(s, S, kept, len)}
<1>1. 0 \in T
  <2>1. Keeps(s, S, [n \in 0 .. 0 |-> << >>], 0)
    BY DEF Keeps
  <2>2. QED
    BY <2>1
<1>2. ASSUME NEW len \in Nat, len \in T PROVE len + 1 \in T
  <2>1. PICK kept : Keeps(s, S, kept, len)
    BY <1>2
  <2> DEFINE more == [n \in 0 .. len + 1 |->
                        IF n = 0 THEN << >>
                        ELSE IF s[n] \in S THEN Append(kept[n - 1], s[n])
                        ELSE kept[n - 1]]
  <2>2. ASSUME NEW n \in 0 .. len PROVE more[n] = kept[n]
    <3>1. kept[n] = IF n = 0 THEN << >>
                    ELSE IF s[n] \in S THEN Append(kept[n - 1], s[n]) ELSE kept[n - 1]
      BY <2>1 DEF Keeps
    <3>2. n \in 0 .. len + 1
      OBVIOUS
    <3>3. QED
      BY <3>1, <3>2
  <2>3. more = [n \in 0 .. len + 1 |->
                  IF n = 0 THEN << >>
                  ELSE IF s[n] \in S THEN Append(more[n - 1], s[n])
                  ELSE more[n - 1]]
    <3>1. ASSUME NEW n \in 0 .. len + 1, n # 0 PROVE more[n - 1] = kept[n - 1]
      <4>1. n - 1 \in 0 .. len
        BY <3>1
      <4> HIDE DEF more
      <4>2. QED
        BY <2>2, <4>1
    <3>2. QED
      BY <3>1
  <2> HIDE DEF more
  <2>4. Keeps(s, S, more, len + 1)
    BY <2>3 DEF Keeps
  <2>5. QED
    BY <2>4
<1> HIDE DEF T
<1>3. Nat \subseteq T
  BY <1>1, <1>2, InductionInSet
<1>4. QED
  BY <1>3 DEF T

\* Filter is the value of such a function at the length of the sequence.
LEMMA FilterUnfolds ==
  ASSUME NEW s, NEW S, Len(s) \in Nat
  PROVE  \E kept : Keeps(s, S, kept, Len(s)) /\ Filter(s, S) = kept[Len(s)]
<1> DEFINE chosen == CHOOSE kept : Keeps(s, S, kept, Len(s))
<1>1. Keeps(s, S, chosen, Len(s))
  BY KeepsExists
<1>2. Filter(s, S) = chosen[Len(s)]
  BY DEF Filter, Keeps
<1> HIDE DEF chosen
<1>3. QED
  BY <1>1, <1>2

\* Functions that agree on the elements of two sequences up to a length keep
\* the same there.
LEMMA KeepsUnique ==
  ASSUME NEW s, NEW t, NEW S, NEW f, NEW g, NEW m \in Nat, NEW k \in Nat, NEW len \in Nat,
         len <= m, len <= k, Keeps(s, S, f, m), Keeps(t, S, g, k),
         \A n \in 1 .. len : s[n] = t[n]
  PROVE  f[len] = g[len]
<1> DEFINE T == {n \in Nat : n <= len => f[n] = g[n]}
<1>1. 0 \in T
  <2>1. f[0] = << >> /\ g[0] = << >>
    BY DEF Keeps
  <2>2. QED
    BY <2>1
<1>2. ASSUME NEW n \in Nat, n \in T PROVE n + 1 \in T
  <2> SUFFICES ASSUME n + 1 <= len PROVE f[n + 1] = g[n + 1]
    OBVIOUS
  <2>1. n + 1 \in 0 .. m /\ n + 1 \in 0 .. k /\ n + 1 # 0 /\ (n + 1) - 1 = n
    OBVIOUS
  <2>2. f[n + 1] = IF s[n + 1] \in S THEN Append(f[n], s[n + 1]) ELSE f[n]
    BY <2>1 DEF Keeps
  <2>3. g[n + 1] = IF t[n + 1] \in S THEN Append(g[n], t[n + 1]) ELSE g[n]
    BY <2>1 DEF Keeps
  <2>4. f[n] = g[n] /\ s[n + 1] = t[n + 1]
    BY <1>2
  <2>5. QED
    BY <2>2, <2>3, <2>4
<1> HIDE DEF T
<1>3. Nat \subseteq T
  BY <1>1, <1>2, InductionInSet
<1>4. QED
  BY <1>3 DEF T

-----------------------------------------------------------------------------
(* Filter, one element at a time.                                          *)

\* Nothing is kept of the empty sequence.
LEMMA FilterEmpty ==
  ASSUME NEW S
  PROVE  Filter(<< >>, S) = << >>
<1>1. PICK kept : Keeps(<< >>, S, kept, 0) /\ Filter(<< >>, S) = kept[0]
  <2>1. Len(<< >>) = 0
    OBVIOUS
  <2>2. QED
    BY <2>1, FilterUnfolds
<1>2. QED
  BY <1>1 DEF Keeps

\* The last element is kept if it is in the set.
LEMMA FilterAppend ==
  ASSUME NEW X, NEW s \in Seq(X), NEW e \in X, NEW S
  PROVE  Filter(Append(s, e), S) =
           IF e \in S THEN Append(Filter(s, S), e) ELSE Filter(s, S)
<1> DEFINE t == Append(s, e)
           len == Len(s)
<1>1. /\ len \in Nat /\ t \in Seq(X) /\ Len(t) = len + 1 /\ t[len + 1] = e
      /\ \A n \in 1 .. len : t[n] = s[n]
  BY AppendProperties
<1> HIDE DEF t
<1>2. PICK f : Keeps(s, S, f, len) /\ Filter(s, S) = f[len]
  BY <1>1, FilterUnfolds
<1>3. PICK g : Keeps(t, S, g, len + 1) /\ Filter(t, S) = g[len + 1]
  BY <1>1, FilterUnfolds
<1> HIDE DEF len
<1>4. g[len] = f[len]
  <2>1. len + 1 \in Nat /\ len <= len /\ len <= len + 1
    BY <1>1
  <2>2. QED
    BY <1>1, <1>2, <1>3, <2>1, KeepsUnique
<1>5. g[len + 1] = IF t[len + 1] \in S THEN Append(g[len], t[len + 1]) ELSE g[len]
  <2>1. len + 1 \in 0 .. len + 1 /\ len + 1 # 0 /\ (len + 1) - 1 = len
    BY <1>1
  <2>2. QED
    BY <1>3, <2>1 DEF Keeps
<1>6. QED
  BY <1>1, <1>2, <1>3, <1>4, <1>5 DEF t

\* The element of a list of one is kept or not.
LEMMA FilterOne ==
  ASSUME NEW X, NEW a \in X, NEW S
  PROVE  Filter(<<a>>, S) = IF a \in S THEN <<a>> ELSE << >>
<1>1. << >> \in Seq(X)
  OBVIOUS
<1>2. Filter(Append(<< >>, a), S) =
        IF a \in S THEN Append(Filter(<< >>, S), a) ELSE Filter(<< >>, S)
  BY <1>1, FilterAppend
<1>3. <<a>> = Append(<< >>, a)
  OBVIOUS
<1>4. QED
  BY <1>2, <1>3, FilterEmpty

\* Of a list of two, the second is kept after what is kept of the first.
LEMMA FilterTwo ==
  ASSUME NEW X, NEW a \in X, NEW b \in X, NEW S
  PROVE  Filter(<<a, b>>, S) =
           IF b \in S THEN Append(Filter(<<a>>, S), b) ELSE Filter(<<a>>, S)
<1>1. <<a>> \in Seq(X) /\ <<a, b>> = Append(<<a>>, b)
  OBVIOUS
<1>2. QED
  BY <1>1, FilterAppend

-----------------------------------------------------------------------------
(* Filter, on whole sequences.                                             *)

\* What is kept was in the sequence and is in the set.
LEMMA FilterElements ==
  ASSUME NEW X, NEW S
  PROVE  \A s \in Seq(X) : Filter(s, S) \in Seq(X \cap S)
<1> DEFINE T == {n \in Nat : \A s \in Seq(X) : Len(s) = n => Filter(s, S) \in Seq(X \cap S)}
<1>1. 0 \in T
  <2>1. ASSUME NEW s \in Seq(X), Len(s) = 0 PROVE Filter(s, S) \in Seq(X \cap S)
    <3>1. s = << >>
      BY <2>1, EmptySeq
    <3>2. QED
      BY <3>1, FilterEmpty, EmptySeq
  <2>2. QED
    BY <2>1
<1>2. ASSUME NEW n \in Nat, n \in T PROVE n + 1 \in T
  <2>1. ASSUME NEW s \in Seq(X), Len(s) = n + 1 PROVE Filter(s, S) \in Seq(X \cap S)
    <3>1. PICK t \in Seq(X), e \in X : s = Append(t, e)
      BY <2>1, SequenceEmptyOrAppend, EmptySeq
    <3>2. Len(t) = n
      BY <2>1, <3>1, AppendProperties, LenProperties
    <3>3. Filter(t, S) \in Seq(X \cap S)
      BY <1>2, <3>2
    <3>4. Filter(s, S) = IF e \in S THEN Append(Filter(t, S), e) ELSE Filter(t, S)
      BY <3>1, FilterAppend
    <3>5. QED
      BY <3>3, <3>4, AppendProperties
  <2>2. QED
    BY <2>1
<1> HIDE DEF T
<1>3. Nat \subseteq T
  BY <1>1, <1>2, InductionInSet
<1>4. ASSUME NEW s \in Seq(X) PROVE Filter(s, S) \in Seq(X \cap S)
  <2>1. Len(s) \in T
    BY <1>3, LenProperties
  <2>2. QED
    BY <2>1 DEF T
<1>5. QED
  BY <1>4

\* A sequence of elements of the set is kept whole.
LEMMA FilterAll ==
  ASSUME NEW S
  PROVE  \A s \in Seq(S) : Filter(s, S) = s
<1> DEFINE T == {n \in Nat : \A s \in Seq(S) : Len(s) = n => Filter(s, S) = s}
<1>1. 0 \in T
  <2>1. ASSUME NEW s \in Seq(S), Len(s) = 0 PROVE Filter(s, S) = s
    <3>1. s = << >>
      BY <2>1, EmptySeq
    <3>2. QED
      BY <3>1, FilterEmpty
  <2>2. QED
    BY <2>1
<1>2. ASSUME NEW n \in Nat, n \in T PROVE n + 1 \in T
  <2>1. ASSUME NEW s \in Seq(S), Len(s) = n + 1 PROVE Filter(s, S) = s
    <3>1. PICK t \in Seq(S), e \in S : s = Append(t, e)
      BY <2>1, SequenceEmptyOrAppend, EmptySeq
    <3>2. Len(t) = n
      BY <2>1, <3>1, AppendProperties, LenProperties
    <3>3. QED
      BY <1>2, <3>1, <3>2, FilterAppend
  <2>2. QED
    BY <2>1
<1> HIDE DEF T
<1>3. Nat \subseteq T
  BY <1>1, <1>2, InductionInSet
<1>4. ASSUME NEW s \in Seq(S) PROVE Filter(s, S) = s
  <2>1. Len(s) \in T
    BY <1>3, LenProperties
  <2>2. QED
    BY <2>1 DEF T
<1>5. QED
  BY <1>4

\* Nothing is kept of a sequence without elements of the set.
LEMMA FilterNone ==
  ASSUME NEW X, NEW S, X \cap S = {}, NEW s \in Seq(X)
  PROVE  Filter(s, S) = << >>
<1>1. Filter(s, S) \in Seq({})
  BY FilterElements
<1>2. Filter(s, S) # << >> => Head(Filter(s, S)) \in {}
  BY <1>1, HeadTailProperties
<1>3. QED
  BY <1>2

\* Filtering one sequence after the other is filtering both.
LEMMA FilterConcat ==
  ASSUME NEW X, NEW s \in Seq(X), NEW S
  PROVE  \A t \in Seq(X) : Filter(s \o t, S) = Filter(s, S) \o Filter(t, S)
<1>b. ASSUME NEW p \in Seq(X), NEW q \in Seq(X), NEW e \in X
      PROVE  Append(p \o q, e) = p \o Append(q, e)
  OBVIOUS
<1> DEFINE T == {n \in Nat : \A t \in Seq(X) :
                   Len(t) = n => Filter(s \o t, S) = Filter(s, S) \o Filter(t, S)}
<1>a. ASSUME NEW t \in Seq(X) PROVE Filter(t, S) \in Seq(X)
  <2>1. Filter(t, S) \in Seq(X \cap S) /\ X \cap S \subseteq X
    BY FilterElements
  <2>2. QED
    BY <2>1, SeqMonotonic
<1>1. 0 \in T
  <2>1. ASSUME NEW t \in Seq(X), Len(t) = 0
        PROVE  Filter(s \o t, S) = Filter(s, S) \o Filter(t, S)
    <3>1. t = << >>
      BY <2>1, EmptySeq
    <3>2. s \o t = s /\ Filter(s, S) \o << >> = Filter(s, S)
      BY <1>a, <3>1, ConcatEmptySeq
    <3>3. QED
      BY <3>1, <3>2, FilterEmpty
  <2>2. QED
    BY <2>1
<1>2. ASSUME NEW n \in Nat, n \in T PROVE n + 1 \in T
  <2>1. ASSUME NEW t \in Seq(X), Len(t) = n + 1
        PROVE  Filter(s \o t, S) = Filter(s, S) \o Filter(t, S)
    <3>0. t # << >>
      BY <2>1
    <3>1. PICK u \in Seq(X), e \in X : t = Append(u, e)
      BY <3>0, SequenceEmptyOrAppend
    <3>2. Len(u) = n
      BY <2>1, <3>1, AppendProperties, LenProperties
    <3>3. Filter(s \o u, S) = Filter(s, S) \o Filter(u, S)
      BY <1>2, <3>2
    <3> DEFINE w == s \o u
    <3>4. s \o t = Append(w, e) /\ w \in Seq(X)
      BY <3>1
    <3> HIDE DEF w
    <3>5. Filter(Append(w, e), S) =
            IF e \in S THEN Append(Filter(w, S), e) ELSE Filter(w, S)
      BY <3>4, FilterAppend
    <3>6. Filter(t, S) = IF e \in S THEN Append(Filter(u, S), e) ELSE Filter(u, S)
      BY <3>1, FilterAppend
    <3>7. Append(Filter(s, S) \o Filter(u, S), e) = Filter(s, S) \o Append(Filter(u, S), e)
      BY <1>a, <1>b
    <3>8. QED
      BY <3>3, <3>4, <3>5, <3>6, <3>7 DEF w
  <2>2. QED
    BY <2>1
<1> HIDE DEF T
<1>3. Nat \subseteq T
  BY <1>1, <1>2, InductionInSet
<1>4. ASSUME NEW t \in Seq(X) PROVE Filter(s \o t, S) = Filter(s, S) \o Filter(t, S)
  <2>1. Len(t) \in T
    BY <1>3, LenProperties
  <2>2. QED
    BY <2>1 DEF T
<1>5. QED
  BY <1>4

-----------------------------------------------------------------------------
(* Filter, on a queue: reading its head, cutting it short, adding to it.   *)

\* A nonempty sequence is its head and then its tail.
LEMMA HeadThenTail ==
  ASSUME NEW X, NEW s \in Seq(X), s # << >>
  PROVE  s = <<Head(s)>> \o Tail(s)
<1>1. Len(s) \in Nat /\ Len(s) > 0
  BY LenProperties, EmptySeq
<1>2. QED
  BY <1>1

\* Two sequences that together have one element: one of them is empty.
LEMMA OneInTwo ==
  ASSUME NEW X, NEW u \in Seq(X), NEW v \in Seq(X), NEW e, u \o v = <<e>>
  PROVE  (u = << >> /\ v = <<e>>) \/ (u = <<e>> /\ v = << >>)
<1>1. Len(u) \in Nat /\ Len(v) \in Nat /\ Len(u) + Len(v) = 1
  <2>1. Len(<<e>>) = 1
    OBVIOUS
  <2>2. QED
    BY <2>1, ConcatProperties, LenProperties
<1>2. CASE Len(u) = 0
  <2>1. u = << >>
    BY <1>2, EmptySeq
  <2>2. QED
    BY <2>1, ConcatEmptySeq
<1>3. CASE Len(v) = 0
  <2>1. v = << >>
    BY <1>3, EmptySeq
  <2>2. QED
    BY <2>1, ConcatEmptySeq
<1>4. QED
  BY <1>1, <1>2, <1>3

\* A sequence added behind a nonempty one leaves its head.
LEMMA HeadOfConcat ==
  ASSUME NEW X, NEW u \in Seq(X), NEW v \in Seq(X), u # << >>
  PROVE  u \o v # << >> /\ Head(u \o v) = Head(u)
<1>1. u \o v # << >> /\ u \o v \in Seq(X)
  BY ConcatProperties, ConcatEqualIffEmpty
<1>2. Len(u) \in Nat /\ Len(u) # 0 /\ Len(v) \in Nat
  BY LenProperties, EmptySeq
<1>3. (u \o v)[1] = u[1]
  BY <1>2, ConcatProperties
<1>4. QED
  BY <1>1, <1>3

\* What is kept of a queue starts with its head, if that is kept.
LEMMA FilterHead ==
  ASSUME NEW X, NEW s \in Seq(X), s # << >>, NEW S
  PROVE  /\ Head(s) \in X /\ Tail(s) \in Seq(X)
         /\ Head(s) \in S => Filter(s, S) = <<Head(s)>> \o Filter(Tail(s), S)
         /\ Head(s) \notin S => Filter(s, S) = Filter(Tail(s), S)
<1> DEFINE h == Head(s)
           w == Tail(s)
           hs == <<h>>
<1>1. h \in X /\ w \in Seq(X)
  BY HeadTailProperties
<1>2. s = hs \o w
  BY HeadThenTail
<1>3. hs \in Seq(X)
  BY <1>1
<1>4. Filter(hs, S) = IF h \in S THEN hs ELSE << >>
  BY <1>1, FilterOne
<1> HIDE DEF h, w, hs
<1>5. Filter(hs \o w, S) = Filter(hs, S) \o Filter(w, S)
  <2>1. \A t \in Seq(X) : Filter(hs \o t, S) = Filter(hs, S) \o Filter(t, S)
    BY <1>3, FilterConcat
  <2>2. QED
    BY <1>1, <2>1
<1>6. Filter(w, S) \in Seq(X \cap S)
  BY <1>1, FilterElements
<1>7. << >> \o Filter(w, S) = Filter(w, S)
  BY <1>6, ConcatEmptySeq
<1>8. QED
  BY <1>1, <1>2, <1>4, <1>5, <1>7 DEF h, w, hs

\* Of a queue in which at most one element is kept, reading the head leaves
\* nothing to keep if the head is kept, and the same otherwise.
LEMMA FilterPopOnly ==
  ASSUME NEW X, NEW s \in Seq(X), s # << >>, NEW S,
         \E e : Filter(s, S) \in {<< >>, <<e>>}
  PROVE  /\ Head(s) \in S => Filter(s, S) = <<Head(s)>> /\ Filter(Tail(s), S) = << >>
         /\ Head(s) \notin S => Filter(Tail(s), S) = Filter(s, S)
<1>0. PICK e : Filter(s, S) \in {<< >>, <<e>>}
  OBVIOUS
<1>1. Head(s) \in X /\ Tail(s) \in Seq(X)
  BY FilterHead
<1>2. CASE Head(s) \in S
  <2> DEFINE h == Head(s)
             v == Filter(Tail(s), S)
  <2>1. Filter(s, S) = <<h>> \o v
    BY <1>2, FilterHead
  <2>2. v \in Seq(X) /\ <<h>> \in Seq(X)
    <3>1. v \in Seq(X \cap S) /\ X \cap S \subseteq X
      BY <1>1, FilterElements
    <3>2. <<h>> \in Seq(X)
      BY <1>1
    <3>3. QED
      BY <3>1, <3>2, SeqMonotonic
  <2> HIDE DEF h, v
  <2>3. <<h>> # << >>
    OBVIOUS
  <2>4. Filter(s, S) # << >>
    BY <2>1, <2>2, <2>3, ConcatEqualIffEmpty
  <2>5. <<h>> \o v = <<e>>
    BY <1>0, <2>1, <2>4
  <2>6. <<h>> = <<e>> /\ v = << >>
    BY <2>2, <2>3, <2>5, OneInTwo
  <2>7. QED
    BY <1>2, <2>1, <2>5, <2>6 DEF h, v
<1>3. QED
  BY <1>2, FilterHead

\* A queue cut short keeps a beginning of what was kept: nothing of nothing,
\* of a single element either that or nothing, and otherwise the same head.
LEMMA FilterCut ==
  ASSUME NEW X, NEW s \in Seq(X), NEW n \in 0 .. Len(s), NEW S
  PROVE  LET t == SubSeq(s, 1, n) IN
         /\ t \in Seq(X)
         /\ Filter(s, S) = << >> => Filter(t, S) = << >>
         /\ \A e : Filter(s, S) = <<e>> => Filter(t, S) \in {<< >>, <<e>>}
         /\ Filter(t, S) # << >> =>
              Filter(s, S) # << >> /\ Head(Filter(t, S)) = Head(Filter(s, S))
<1> DEFINE t == SubSeq(s, 1, n)
           w == SubSeq(s, n + 1, Len(s))
<1>a. Len(s) \in Nat /\ n \in Int /\ 1 <= n + 1 /\ n <= Len(s)
  BY LenProperties
<1>b. \A i \in 1 .. Len(s) : s[i] \in X
  BY ElementOfSeq
<1>c. t \in Seq(X) /\ w \in Seq(X)
  BY <1>a, <1>b, SubSeqProperties
<1>d. s = SubSeq(s, 1, Len(s))
  BY SubSeqFull
<1>e. t \o w = SubSeq(s, 1, Len(s))
  <2>1. /\ 1 \in 1 .. Len(s) + 1 /\ n \in 1 - 1 .. Len(s)
        /\ Len(s) \in n .. Len(s)
    BY <1>a
  <2>2. QED
    BY <2>1, ConcatAdjacentSubSeq
<1>1. t \in Seq(X) /\ w \in Seq(X) /\ s = t \o w
  BY <1>c, <1>d, <1>e
<1> HIDE DEF t, w
<1>2. Filter(s, S) = Filter(t, S) \o Filter(w, S)
  BY <1>1, FilterConcat
<1>3. X \cap S \subseteq X
  OBVIOUS
<1> DEFINE u == Filter(t, S)
           v == Filter(w, S)
<1>4. u \in Seq(X) /\ v \in Seq(X)
  BY <1>1, <1>3, FilterElements, SeqMonotonic
<1>5. Filter(s, S) = u \o v
  BY <1>2
<1> HIDE DEF u, v
<1>6. u \o v = << >> => u = << >>
  BY <1>4, ConcatEqualIffEmpty
<1>7. ASSUME NEW e, u \o v = <<e>> PROVE u \in {<< >>, <<e>>}
  <2>1. (u = << >> /\ v = <<e>>) \/ (u = <<e>> /\ v = << >>)
    BY <1>4, <1>7, OneInTwo
  <2>2. QED
    BY <2>1
<1>8. u # << >> => u \o v # << >> /\ Head(u) = Head(u \o v)
  BY <1>4, HeadOfConcat
<1>9. QED
  BY <1>1, <1>5, <1>6, <1>7, <1>8 DEF t, u
=============================================================================
