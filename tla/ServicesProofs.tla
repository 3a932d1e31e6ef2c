---------------------------- MODULE ServicesProofs ----------------------------
(***************************************************************************)
(* Proofs about the stream of a suggestion and about the knowledge base,   *)
(* and about the services side by side, for all values of the constants:   *)
(* for every body that a provider sends and however it is cut, for all     *)
(* sources, texts, tags, queries and readers, and for all budgets.         *)
(*                                                                         *)
(* What a recursive function computes is proved from the least element of  *)
(* a set of natural numbers: the first place where something would go      *)
(* wrong is not the first one (Induction), so that the equation of such a  *)
(* function has a solution (Recursion), and what holds of <<>> and is kept *)
(* by every Append holds of all sequences (SequenceInduction).             *)
(*                                                                         *)
(*   Texts      the tokens and units of a text, and where it is cut        *)
(*   Input      the sources and the transcript within their budgets        *)
(*   Call       SuggestionInv: the answer is what was yielded, it fits,    *)
(*              and what was said is the answer, what is buffered and what *)
(*              is still to be read                                        *)
(*   Documents  the chunks of a text                                       *)
(*   Library    the rows that a search sees when documents are added       *)
(*   Search     KnowledgeInv: what was selected is what the statement      *)
(*              would select now, and what was answered agrees with the    *)
(*              list and the detail of the reader                          *)
(***************************************************************************)
EXTENDS MCServices, ApiProofs, TranscriptProofs, SequenceTheorems, WellFoundedInduction

-----------------------------------------------------------------------------
(* Recursive functions and sequences *)

\* A nonempty set of natural numbers has a least element.
LEMMA Least ==
  ASSUME NEW T \in SUBSET Nat, T # {}
  PROVE  \E n \in T : \A k \in T : n <= k
<1>1. IsWellFoundedOn(OpToRel(<, Nat), Nat)
  BY NatLessThanWellFounded
<1>. DEFINE R == OpToRel(<, Nat)
<1>2. \A m, n \in Nat : <<m, n>> \in R <=> m < n
  BY DEF OpToRel
<1>. HIDE DEF R
<1>3. PICK n \in T : \A k \in T : ~(<<k, n>> \in R)
  BY <1>1, WFMin DEF R
<1>4. \A k \in T : ~(k < n)
  BY <1>2, <1>3
<1>5. \A k \in T : n <= k
  BY <1>4
<1>. QED
  BY <1>5

\* What holds of 0 and is handed on holds up to n.
LEMMA Induction ==
  ASSUME NEW n \in Nat, NEW P, 0 \in P, \A k \in 1..n : k - 1 \in P => k \in P
  PROVE  n \in P /\ \A k \in 0..n : k \in P
<1>. DEFINE Bad == {k \in 0..n : k \notin P}
<1>1. SUFFICES ASSUME Bad # {} PROVE FALSE
  <2>1. n \in 0..n
    OBVIOUS
  <2>. QED
    BY <2>1
<1>2. Bad \in SUBSET Nat
  OBVIOUS
<1>3. PICK m \in Bad : \A k \in Bad : m <= k
  BY <1>1, <1>2, Least
<1>4. m # 0 /\ m \in 1..n /\ m - 1 \in 0..n /\ ~(m <= m - 1)
  BY <1>3
<1>. QED
  BY <1>3, <1>4

\* What holds of the empty sequence and of every sequence with one element more holds of all.
LEMMA SequenceInduction ==
  ASSUME NEW S, NEW P, <<>> \in P,
         \A s \in Seq(S) : \A x \in S : s \in P => Append(s, x) \in P
  PROVE  \A s \in Seq(S) : s \in P
<1>. TAKE s \in Seq(S)
<1>. DEFINE Q == {k \in 0..Len(s) : SubSeq(s, 1, k) \in P}
<1>1. 0 \in Q
  <2>1. SubSeq(s, 1, 0) = <<>> /\ 0 \in 0..Len(s)
    OBVIOUS
  <2>. QED
    BY <2>1
<1>2. ASSUME NEW k \in 1..Len(s), k - 1 \in Q PROVE k \in Q
  <2>1. SubSeq(s, 1, k - 1) \in Seq(S) /\ s[k] \in S
    OBVIOUS
  <2>2. SubSeq(s, 1, k) = Append(SubSeq(s, 1, k - 1), s[k])
    OBVIOUS
  <2>3. SubSeq(s, 1, k - 1) \in P /\ k \in 0..Len(s)
    BY <1>2
  <2>4. Append(SubSeq(s, 1, k - 1), s[k]) \in P
    BY <2>1, <2>3
  <2>. QED
    BY <2>2, <2>3, <2>4
<1>3. Len(s) \in Q
  <2>1. Len(s) \in Nat
    OBVIOUS
  <2>. HIDE DEF Q
  <2>. QED
    BY <1>1, <1>2, <2>1, Induction
<1>4. SubSeq(s, 1, Len(s)) = s
  BY SubSeqFull
<1>5. SubSeq(s, 1, Len(s)) \in P
  BY <1>3
<1>. QED
  BY <1>4, <1>5, Zenon

\* f begins with base, and its next value is what g makes of the last one.
Unfolds(f, A, base, g, n) ==
  /\ f \in [0..n -> A]
  /\ f[0] = base
  /\ \A k \in 1..n : f[k] = g[k][f[k - 1]]

\* There is such a function.
LEMMA Recursion ==
  ASSUME NEW A, NEW base \in A, NEW n \in Nat, NEW g \in [1..n -> [A -> A]]
  PROVE  \E f : Unfolds(f, A, base, g, n)
<1>. DEFINE P == {m \in 0..n : \E f : Unfolds(f, A, base, g, m)}
<1>1. 0 \in P
  <2>1. Unfolds([k \in 0..0 |-> base], A, base, g, 0)
    BY DEF Unfolds
  <2>. QED
    BY <2>1
<1>2. ASSUME NEW m \in 1..n, m - 1 \in P PROVE m \in P
  <2>1. m - 1 \in Nat /\ m - 1 \in 0..n /\ m \in 0..n
    OBVIOUS
  <2>2. PICK f : Unfolds(f, A, base, g, m - 1)
    BY <1>2
  <2>. DEFINE h == [k \in 0..m |-> IF k = m THEN g[m][f[m - 1]] ELSE f[k]]
  <2>3. f[m - 1] \in A /\ g[m] \in [A -> A]
    BY <2>1, <2>2 DEF Unfolds
  <2>4. h \in [0..m -> A] /\ h[0] = base
    BY <2>1, <2>2, <2>3 DEF Unfolds
  <2>5. ASSUME NEW k \in 1..m PROVE h[k] = g[k][h[k - 1]]
    BY <2>1, <2>2 DEF Unfolds
  <2>6. Unfolds(h, A, base, g, m)
    BY <2>4, <2>5 DEF Unfolds
  <2>. QED
    BY <2>1, <2>6
<1>3. n \in P
  <2>. HIDE DEF P
  <2>. QED
    BY <1>1, <1>2, Induction
<1>. QED
  BY <1>3

-----------------------------------------------------------------------------
(* Sums *)

\* The sums are what their definition says.
LEMMA SumsUnfold ==
  ASSUME NEW s \in Seq(Nat)
  PROVE  Sums(s) = [n \in 0..Len(s) |-> IF n = 0 THEN 0 ELSE Sums(s)[n - 1] + s[n]]
<1>. DEFINE g == [k \in 1..Len(s) |-> [a \in Nat |-> a + s[k]]]
<1>1. g \in [1..Len(s) -> [Nat -> Nat]] /\ Len(s) \in Nat
  OBVIOUS
<1>2. PICK f : Unfolds(f, Nat, 0, g, Len(s))
  <2>. HIDE DEF g
  <2>. QED
    BY <1>1, Recursion
<1>3. f = [n \in 0..Len(s) |-> f[n]] /\ f[0] = 0
  BY <1>2 DEF Unfolds
<1>4. ASSUME NEW n \in 0..Len(s), n # 0 PROVE f[n] = f[n - 1] + s[n]
  <2>1. n \in 1..Len(s) /\ n - 1 \in 0..Len(s)
    BY <1>4
  <2>2. f[n - 1] \in Nat /\ f[n] = g[n][f[n - 1]]
    BY <1>2, <2>1 DEF Unfolds
  <2>. QED
    BY <2>1, <2>2
<1>5. f = [n \in 0..Len(s) |-> IF n = 0 THEN 0 ELSE f[n - 1] + s[n]]
  <2>1. ASSUME NEW n \in 0..Len(s) PROVE f[n] = IF n = 0 THEN 0 ELSE f[n - 1] + s[n]
    BY <1>3, <1>4
  <2>. QED
    BY <1>3, <2>1
<1>. QED
  BY <1>5 DEF Sums

\* The first sum, and each from the one before it.
LEMMA SumsAt ==
  ASSUME NEW s \in Seq(Nat)
  PROVE  /\ Sums(s)[0] = 0
         /\ \A k \in 1..Len(s) : Sums(s)[k] = Sums(s)[k - 1] + s[k]
         /\ \A k \in 0..Len(s) : Sums(s)[k] \in Nat
<1>1. Sums(s)[0] = 0
  <2>1. 0 \in 0..Len(s)
    OBVIOUS
  <2>. QED
    BY <2>1, SumsUnfold
<1>2. ASSUME NEW k \in 1..Len(s) PROVE Sums(s)[k] = Sums(s)[k - 1] + s[k]
  <2>1. k \in 0..Len(s) /\ k # 0
    OBVIOUS
  <2>. QED
    BY <2>1, SumsUnfold
<1>. DEFINE P == {k \in 0..Len(s) : Sums(s)[k] \in Nat}
<1>3. 0 \in P
  BY <1>1
<1>4. ASSUME NEW k \in 1..Len(s), k - 1 \in P PROVE k \in P
  <2>1. s[k] \in Nat /\ k \in 0..Len(s)
    OBVIOUS
  <2>2. Sums(s)[k - 1] \in Nat
    BY <1>4
  <2>. QED
    BY <1>2, <2>1, <2>2
<1>5. Len(s) \in Nat
  OBVIOUS
<1>6. \A k \in 0..Len(s) : k \in P
  <2>. HIDE DEF P
  <2>. QED
    BY <1>3, <1>4, <1>5, Induction
<1>. QED
  BY <1>1, <1>2, <1>6

\* The sum with one number more.
LEMMA TotalAppend ==
  ASSUME NEW s \in Seq(Nat), NEW x \in Nat
  PROVE  Total(Append(s, x)) = Total(s) + x
<1>. DEFINE t == Append(s, x)
            P == {k \in 0..Len(s) : Sums(t)[k] = Sums(s)[k]}
<1>1. t \in Seq(Nat) /\ Len(t) = Len(s) + 1 /\ t[Len(t)] = x /\ \A k \in 1..Len(s) : t[k] = s[k]
  OBVIOUS
<1>. HIDE DEF t
<1>2. 0 \in P
  BY <1>1, SumsAt
<1>3. ASSUME NEW k \in 1..Len(s), k - 1 \in P PROVE k \in P
  <2>1. Sums(t)[k] = Sums(t)[k - 1] + t[k]
    <3>1. k \in 1..Len(t)
      BY <1>1
    <3>. QED
      BY <1>1, <3>1, SumsAt
  <2>2. Sums(s)[k] = Sums(s)[k - 1] + s[k]
    BY SumsAt
  <2>. QED
    BY <1>1, <1>3, <2>1, <2>2
<1>4. Len(s) \in P
  <2>1. Len(s) \in Nat
    OBVIOUS
  <2>. HIDE DEF P
  <2>. QED
    BY <1>2, <1>3, <2>1, Induction
<1>5. Sums(t)[Len(t)] = Sums(t)[Len(t) - 1] + t[Len(t)]
  BY <1>1, SumsAt
<1>. QED
  BY <1>1, <1>4, <1>5 DEF Total, t

\* Nothing adds up to nothing.
LEMMA TotalEmpty == Total(<<>>) = 0
<1>1. <<>> \in Seq(Nat) /\ Len(<<>>) = 0
  OBVIOUS
<1>. QED
  BY <1>1, SumsAt DEF Total

\* A sum of natural numbers is one.
LEMMA TotalNat ==
  ASSUME NEW s \in Seq(Nat)
  PROVE  Total(s) \in Nat
BY SumsAt DEF Total

-----------------------------------------------------------------------------
(* The lines of one kind *)

\* The lines of one kind, up to each line.
Chosen(lines, K) ==
  LET chosen[n \in 0..Len(lines)] ==
        IF n = 0 THEN <<>>
        ELSE IF lines[n] \in K THEN Append(chosen[n - 1], lines[n]) ELSE chosen[n - 1]
  IN chosen

\* They are what their definition says.
LEMMA ChosenUnfold ==
  ASSUME NEW S, NEW s \in Seq(S), NEW K
  PROVE  Chosen(s, K) =
           [n \in 0..Len(s) |->
              IF n = 0 THEN <<>>
              ELSE IF s[n] \in K THEN Append(Chosen(s, K)[n - 1], s[n]) ELSE Chosen(s, K)[n - 1]]
<1>. DEFINE g == [k \in 1..Len(s) |->
                    [a \in Seq(S) |-> IF s[k] \in K THEN Append(a, s[k]) ELSE a]]
<1>1. g \in [1..Len(s) -> [Seq(S) -> Seq(S)]] /\ Len(s) \in Nat /\ <<>> \in Seq(S)
  OBVIOUS
<1>2. PICK f : Unfolds(f, Seq(S), <<>>, g, Len(s))
  <2>. HIDE DEF g
  <2>. QED
    BY <1>1, Recursion
<1>3. f = [n \in 0..Len(s) |-> f[n]] /\ f[0] = <<>>
  BY <1>2 DEF Unfolds
<1>4. ASSUME NEW n \in 0..Len(s), n # 0
      PROVE  f[n] = IF s[n] \in K THEN Append(f[n - 1], s[n]) ELSE f[n - 1]
  <2>1. n \in 1..Len(s) /\ n - 1 \in 0..Len(s)
    BY <1>4
  <2>2. f[n - 1] \in Seq(S) /\ f[n] = g[n][f[n - 1]]
    BY <1>2, <2>1 DEF Unfolds
  <2>. QED
    BY <2>1, <2>2
<1>. DEFINE next(n) == IF n = 0 THEN <<>>
                       ELSE IF s[n] \in K THEN Append(f[n - 1], s[n]) ELSE f[n - 1]
<1>5. f = [n \in 0..Len(s) |-> next(n)]
  <2>1. ASSUME NEW n \in 0..Len(s) PROVE f[n] = next(n)
    BY <1>3, <1>4
  <2>. HIDE DEF next
  <2>. QED
    BY <1>3, <2>1
<1>. QED
  BY <1>5 DEF Chosen

\* None before the first line, and those up to a line from those up to the one before it.
LEMMA ChosenAt ==
  ASSUME NEW S, NEW s \in Seq(S), NEW K
  PROVE  /\ Chosen(s, K)[0] = <<>>
         /\ \A k \in 1..Len(s) :
              Chosen(s, K)[k] = IF s[k] \in K THEN Append(Chosen(s, K)[k - 1], s[k])
                                ELSE Chosen(s, K)[k - 1]
<1>1. 0 \in 0..Len(s)
  OBVIOUS
<1>2. ASSUME NEW k \in 1..Len(s) PROVE k \in 0..Len(s) /\ k # 0
  OBVIOUS
<1>. DEFINE F == Chosen(s, K)
<1>3. F = [n \in 0..Len(s) |->
             IF n = 0 THEN <<>> ELSE IF s[n] \in K THEN Append(F[n - 1], s[n]) ELSE F[n - 1]]
  BY ChosenUnfold
<1>. HIDE DEF F
<1>4. F[0] = <<>>
  BY <1>1, <1>3
<1>5. ASSUME NEW k \in 1..Len(s)
      PROVE  F[k] = IF s[k] \in K THEN Append(F[k - 1], s[k]) ELSE F[k - 1]
  BY <1>2, <1>3
<1>. QED
  BY <1>4, <1>5 DEF F

\* The lines of a kind are those up to the last line.
LEMMA OnlyIsLast == ASSUME NEW s, NEW K PROVE Only(s, K) = Chosen(s, K)[Len(s)]
BY DEF Only, Chosen

\* The lines of a kind among one line more.
LEMMA OnlyAppend ==
  ASSUME NEW S, NEW s \in Seq(S), NEW x \in S, NEW K
  PROVE  Only(Append(s, x), K) = IF x \in K THEN Append(Only(s, K), x) ELSE Only(s, K)
<1>. DEFINE t == Append(s, x)
            P == {k \in 0..Len(s) : Chosen(t, K)[k] = Chosen(s, K)[k]}
<1>1. t \in Seq(S) /\ Len(t) = Len(s) + 1 /\ t[Len(t)] = x /\ \A k \in 1..Len(s) : t[k] = s[k]
  OBVIOUS
<1>. HIDE DEF t
<1>2. 0 \in P
  BY <1>1, ChosenAt
<1>3. ASSUME NEW k \in 1..Len(s), k - 1 \in P PROVE k \in P
  <2>1. k \in 1..Len(t) /\ t[k] = s[k]
    BY <1>1
  <2>2. Chosen(t, K)[k] = IF t[k] \in K THEN Append(Chosen(t, K)[k - 1], t[k])
                          ELSE Chosen(t, K)[k - 1]
    BY <1>1, <2>1, ChosenAt
  <2>3. Chosen(s, K)[k] = IF s[k] \in K THEN Append(Chosen(s, K)[k - 1], s[k])
                          ELSE Chosen(s, K)[k - 1]
    BY ChosenAt
  <2>. QED
    BY <1>3, <2>1, <2>2, <2>3
<1>4. Len(s) \in P
  <2>1. Len(s) \in Nat
    OBVIOUS
  <2>. HIDE DEF P
  <2>. QED
    BY <1>2, <1>3, <2>1, Induction
<1>5. Chosen(t, K)[Len(t)] = IF t[Len(t)] \in K THEN Append(Chosen(t, K)[Len(t) - 1], t[Len(t)])
                             ELSE Chosen(t, K)[Len(t) - 1]
  <2>1. Len(t) \in 1..Len(t)
    BY <1>1
  <2>. QED
    BY <1>1, <2>1, ChosenAt
<1>6. Len(t) - 1 = Len(s)
  BY <1>1
<1>7. Only(t, K) = IF x \in K THEN Append(Only(s, K), x) ELSE Only(s, K)
  BY <1>1, <1>4, <1>5, <1>6, OnlyIsLast
<1>. QED
  BY <1>7 DEF t

\* None before the first line.
LEMMA ChosenBegins == ASSUME NEW S, NEW s \in Seq(S), NEW K PROVE Chosen(s, K)[0] = <<>>
BY ChosenAt

\* There are none in an empty text.
LEMMA OnlyEmpty == ASSUME NEW K PROVE Only(<<>>, K) = <<>>
<1>1. <<>> \in Seq(Nat) /\ Len(<<>>) = 0
  OBVIOUS
<1>. DEFINE e == <<>>
<1>2. Chosen(e, K)[0] = <<>>
  <2>1. e \in Seq(Nat)
    OBVIOUS
  <2>. HIDE DEF e
  <2>. QED
    BY <2>1, ChosenBegins
<1>. QED
  BY <1>1, <1>2, OnlyIsLast

\* They are lines of the text, and of the kind.
LEMMA OnlyTyped ==
  ASSUME NEW S, NEW s \in Seq(S), NEW K
  PROVE  Only(s, K) \in Seq(S) /\ Only(s, K) \in Seq(K)
<1>. DEFINE P == {u \in Seq(S) : Only(u, K) \in Seq(S) /\ Only(u, K) \in Seq(K)}
<1>1. <<>> \in P
  <2>1. Only(<<>>, K) = <<>>
    BY OnlyEmpty
  <2>2. <<>> \in Seq(S) /\ <<>> \in Seq(K)
    OBVIOUS
  <2>. QED
    BY <2>1, <2>2
<1>2. ASSUME NEW u \in Seq(S), NEW x \in S, u \in P PROVE Append(u, x) \in P
  <2>1. Only(Append(u, x), K) = IF x \in K THEN Append(Only(u, K), x) ELSE Only(u, K)
    BY OnlyAppend
  <2>2. u \in Seq(S) /\ Only(u, K) \in Seq(S) /\ Only(u, K) \in Seq(K)
    BY <1>2
  <2>3. Append(u, x) \in Seq(S)
    BY <2>2
  <2>4. CASE x \in K
    <3>1. Append(Only(u, K), x) \in Seq(S) /\ Append(Only(u, K), x) \in Seq(K)
      BY <2>2, <2>4
    <3>. QED
      BY <2>1, <2>4, <2>3, <3>1
  <2>5. CASE x \notin K
    BY <2>1, <2>2, <2>5, <2>3
  <2>. QED
    BY <2>4, <2>5
<1>3. s \in P
  <2>. HIDE DEF P
  <2>. QED
    BY <1>1, <1>2, SequenceInduction
<1>. QED
  BY <1>3

\* An element more after two sequences is one more after the second.
AppendsToTheSecond(S) ==
  \A a \in Seq(S) : \A b \in Seq(S) : \A x \in S : Append(a \o b, x) = a \o Append(b, x)

\* It is so for all sequences.
LEMMA AppendConcat == ASSUME NEW S PROVE AppendsToTheSecond(S)
BY DEF AppendsToTheSecond

\* The lines of a kind in two sequences.
LEMMA OnlyConcat ==
  ASSUME NEW S, NEW s \in Seq(S), NEW t \in Seq(S), NEW K
  PROVE  Only(s \o t, K) = Only(s, K) \o Only(t, K)
<1>1. AppendsToTheSecond(S)
  BY AppendConcat
<1>. DEFINE P == {u \in Seq(S) : Only(s \o u, K) = Only(s, K) \o Only(u, K)}
<1>2. <<>> \in P
  <2>1. s \o <<>> = s /\ Only(s, K) \in Seq(S)
    BY OnlyTyped
  <2>2. Only(s, K) \o <<>> = Only(s, K)
    BY <2>1
  <2>. QED
    BY <2>1, <2>2, OnlyEmpty
<1>3. ASSUME NEW u \in Seq(S), NEW x \in S, u \in P PROVE Append(u, x) \in P
  <2>1. s \o Append(u, x) = Append(s \o u, x) /\ s \o u \in Seq(S) /\ Append(u, x) \in Seq(S)
    OBVIOUS
  <2>2. Only(s \o Append(u, x), K)
          = IF x \in K THEN Append(Only(s \o u, K), x) ELSE Only(s \o u, K)
    <3>. DEFINE v == s \o u
    <3>1. v \in Seq(S)
      BY <2>1
    <3>. HIDE DEF v
    <3>2. Only(Append(v, x), K) = IF x \in K THEN Append(Only(v, K), x) ELSE Only(v, K)
      BY <3>1, OnlyAppend
    <3>. QED
      BY <2>1, <3>2, Zenon DEF v
  <2>3. Only(Append(u, x), K) = IF x \in K THEN Append(Only(u, K), x) ELSE Only(u, K)
    BY OnlyAppend
  <2>4. Only(s, K) \in Seq(S) /\ Only(u, K) \in Seq(S) /\ Only(s \o u, K) = Only(s, K) \o Only(u, K)
    BY <1>3, OnlyTyped
  <2>5. Append(Only(s, K) \o Only(u, K), x) = Only(s, K) \o Append(Only(u, K), x)
    BY <2>4, <1>1, Zenon DEF AppendsToTheSecond
  <2>6. Only(s \o Append(u, x), K) = Only(s, K) \o Only(Append(u, x), K)
    <3>1. CASE x \in K
      <4>1. Only(s \o Append(u, x), K) = Append(Only(s \o u, K), x)
        BY <2>2, <3>1
      <4>2. Only(Append(u, x), K) = Append(Only(u, K), x)
        BY <2>3, <3>1
      <4>. QED
        BY <2>4, <2>5, <4>1, <4>2, Zenon
    <3>2. CASE x \notin K
      <4>1. Only(s \o Append(u, x), K) = Only(s \o u, K)
        BY <2>2, <3>2
      <4>2. Only(Append(u, x), K) = Only(u, K)
        BY <2>3, <3>2
      <4>. QED
        BY <2>4, <4>1, <4>2, Zenon
    <3>. QED
      BY <3>1, <3>2
  <2>. QED
    BY <2>1, <2>6
<1>4. t \in P
  <2>. HIDE DEF P
  <2>. QED
    BY <1>2, <1>3, SequenceInduction
<1>. QED
  BY <1>4

\* A kind within another one.
LEMMA OnlyOnly ==
  ASSUME NEW S, NEW s \in Seq(S), NEW D, NEW K \in SUBSET D
  PROVE  Only(Only(s, D), K) = Only(s, K)
<1>. DEFINE P == {u \in Seq(S) : Only(Only(u, D), K) = Only(u, K)}
<1>1. <<>> \in P
  BY OnlyEmpty
<1>2. ASSUME NEW u \in Seq(S), NEW x \in S, u \in P PROVE Append(u, x) \in P
  <2>1. Only(Append(u, x), D) = IF x \in D THEN Append(Only(u, D), x) ELSE Only(u, D)
    BY OnlyAppend
  <2>2. Only(Append(u, x), K) = IF x \in K THEN Append(Only(u, K), x) ELSE Only(u, K)
    BY OnlyAppend
  <2>3. Only(Append(Only(u, D), x), K)
          = IF x \in K THEN Append(Only(Only(u, D), K), x) ELSE Only(Only(u, D), K)
    BY OnlyTyped, OnlyAppend
  <2>4. Append(u, x) \in Seq(S) /\ Only(Only(u, D), K) = Only(u, K)
    BY <1>2
  <2>5. CASE x \in D
    BY <2>1, <2>2, <2>3, <2>4, <2>5
  <2>6. CASE x \notin D
    BY <2>1, <2>2, <2>4, <2>6
  <2>. QED
    BY <2>5, <2>6
<1>3. s \in P
  <2>. HIDE DEF P
  <2>. QED
    BY <1>1, <1>2, SequenceInduction
<1>. QED
  BY <1>3

-----------------------------------------------------------------------------
(* Measures of a text *)

\* A character is its number of tokens.
LEMMA TextIsNat == ASSUME NEW t \in Seq(Text) PROVE t \in Seq(Nat)
<1>1. Text \subseteq Nat
  BY DEF Text
<1>. QED
  BY <1>1, SeqMonotonic

\* The units of one character more.
LEMMA UnitsAppend ==
  ASSUME NEW t \in Seq(Text), NEW c \in Text
  PROVE  Units(Append(t, c)) = Units(t) + IF c = 4 THEN 2 ELSE 1
<1>. DEFINE W(text) == [i \in 1..Len(text) |-> IF text[i] = 4 THEN 2 ELSE 1]
            x == IF c = 4 THEN 2 ELSE 1
<1>1. W(t) \in Seq(Nat) /\ x \in Nat
  OBVIOUS
<1>2. W(Append(t, c)) = Append(W(t), x)
  OBVIOUS
<1>. HIDE DEF W, x
<1>3. Total(Append(W(t), x)) = Total(W(t)) + x
  BY <1>1, TotalAppend
<1>. QED
  BY <1>2, <1>3 DEF Units, W, x

\* An empty text has no units.
LEMMA UnitsEmpty == Units(<<>>) = 0
<1>1. [i \in 1..Len(<<>>) |-> IF <<>>[i] = 4 THEN 2 ELSE 1] = <<>>
  OBVIOUS
<1>. QED
  BY <1>1, TotalEmpty DEF Units

\* The length of a text in units of UTF-16.
LEMMA UnitsNat ==
  ASSUME NEW t \in Seq(Text)
  PROVE  Units(t) \in Nat
<1>. DEFINE W == [i \in 1..Len(t) |-> IF t[i] = 4 THEN 2 ELSE 1]
<1>1. W \in Seq(Nat)
  OBVIOUS
<1>. QED
  BY <1>1, TotalNat DEF Units

\* The tokens of one character more.
LEMMA TokensAppend ==
  ASSUME NEW t \in Seq(Text), NEW c \in Text
  PROVE  EstimateTokenCount(Append(t, c)) = EstimateTokenCount(t) + c
<1>1. t \in Seq(Nat) /\ c \in Nat
  BY TextIsNat DEF Text
<1>. QED
  BY <1>1, TotalAppend DEF EstimateTokenCount

\* The length of a text in tokens.
LEMMA TokensNat ==
  ASSUME NEW t \in Seq(Text)
  PROVE  EstimateTokenCount(t) \in Nat
BY TextIsNat, TotalNat DEF EstimateTokenCount

\* An empty text has no tokens.
LEMMA TokensEmpty == EstimateTokenCount(<<>>) = 0
BY TotalEmpty DEF EstimateTokenCount

\* A measure of texts that grows with them.
Measure(w) ==
  /\ w \in [Seq(Text) -> Nat]
  /\ w[<<>>] = 0
  /\ \A t \in Seq(Text), c \in Text : w[t] <= w[Append(t, c)]

\* Its tokens, and its units of UTF-16, are such measures.
Tokens == [t \in Seq(Text) |-> EstimateTokenCount(t)]

Utf16 == [t \in Seq(Text) |-> Units(t)]

\* Tokens grow with a text: no character has less than none.
LEMMA TokensMeasure == Measure(Tokens)
<1>1. <<>> \in Seq(Text)
  OBVIOUS
<1>2. ASSUME NEW t \in Seq(Text), NEW c \in Text PROVE Tokens[t] <= Tokens[Append(t, c)]
  <2>1. c \in Nat /\ Append(t, c) \in Seq(Text)
    BY DEF Text
  <2>. QED
    BY <2>1, TokensAppend, TokensNat DEF Tokens
<1>. QED
  BY <1>1, <1>2, TokensNat, TokensEmpty DEF Measure, Tokens

\* So do units of UTF-16.
LEMMA UnitsMeasure == Measure(Utf16)
<1>1. <<>> \in Seq(Text)
  OBVIOUS
<1>2. ASSUME NEW t \in Seq(Text), NEW c \in Text PROVE Utf16[t] <= Utf16[Append(t, c)]
  <2>1. Append(t, c) \in Seq(Text)
    OBVIOUS
  <2>. QED
    BY <2>1, UnitsAppend, UnitsNat DEF Utf16
<1>. QED
  BY <1>1, <1>2, UnitsNat, UnitsEmpty DEF Measure, Utf16

\* The measure of a prefix.
LEMMA MeasureNat ==
  ASSUME NEW w, Measure(w), NEW t \in Seq(Text), NEW n \in 0..Len(t)
  PROVE  SubSeq(t, 1, n) \in Seq(Text) /\ w[SubSeq(t, 1, n)] \in Nat
<1>1. SubSeq(t, 1, n) \in Seq(Text)
  OBVIOUS
<1>. QED
  BY <1>1 DEF Measure

\* A longer prefix does not measure less.
LEMMA MeasurePrefix ==
  ASSUME NEW w, Measure(w), NEW t \in Seq(Text), NEW j \in 0..Len(t), NEW k \in j..Len(t)
  PROVE  w[SubSeq(t, 1, j)] <= w[SubSeq(t, 1, k)]
<1>. DEFINE M(n) == w[SubSeq(t, 1, n)]
            P == {n \in 0..Len(t) - j : M(j) <= M(j + n)}
<1>1. \A n \in 0..Len(t) : SubSeq(t, 1, n) \in Seq(Text) /\ M(n) \in Nat
  BY MeasureNat
<1>2. ASSUME NEW n \in 1..Len(t) PROVE M(n - 1) <= M(n)
  <2>1. SubSeq(t, 1, n) = Append(SubSeq(t, 1, n - 1), t[n]) /\ t[n] \in Text
    OBVIOUS
  <2>2. SubSeq(t, 1, n - 1) \in Seq(Text)
    OBVIOUS
  <2>. QED
    BY <2>1, <2>2 DEF Measure
<1>. HIDE DEF M
<1>3. 0 \in P
  BY <1>1
<1>4. ASSUME NEW n \in 1..Len(t) - j, n - 1 \in P PROVE n \in P
  <2>1. j + n \in 1..Len(t) /\ (j + n) - 1 = j + (n - 1) /\ j + (n - 1) \in 0..Len(t)
    OBVIOUS
  <2>2. M(j) <= M(j + (n - 1)) /\ M(j + (n - 1)) <= M(j + n)
    BY <1>2, <1>4, <2>1
  <2>. QED
    BY <1>1, <2>1, <2>2
<1>5. \A n \in 0..Len(t) - j : n \in P
  <2>1. Len(t) - j \in Nat
    OBVIOUS
  <2>. HIDE DEF P
  <2>. QED
    BY <1>3, <1>4, <2>1, Induction
<1>6. k - j \in 0..Len(t) - j /\ j + (k - j) = k
  OBVIOUS
<1>. QED
  BY <1>5, <1>6 DEF M

\* The place where a text is cut: what is before it is within max, and no longer prefix is.
IsCut(w, t, max, n) ==
  /\ w[SubSeq(t, 1, n)] <= max
  /\ n < Len(t) => w[SubSeq(t, 1, n + 1)] > max

\* There is such a place in every text.
LEMMA CutExists ==
  ASSUME NEW w, Measure(w), NEW t \in Seq(Text), NEW max \in Nat
  PROVE  \E n \in 0..Len(t) : IsCut(w, t, max, n)
<1>. DEFINE T == {n \in 0..Len(t) : n < Len(t) => w[SubSeq(t, 1, n + 1)] > max}
<1>1. T \in SUBSET Nat /\ Len(t) \in T
  OBVIOUS
<1>2. PICK n \in T : \A k \in T : n <= k
  BY <1>1, Least
<1>3. CASE n = 0
  <2>1. SubSeq(t, 1, 0) = <<>>
    OBVIOUS
  <2>2. w[SubSeq(t, 1, 0)] = 0
    BY <2>1 DEF Measure
  <2>3. w[SubSeq(t, 1, n)] <= max
    BY <1>3, <2>2
  <2>. QED
    BY <1>2, <2>3 DEF IsCut
<1>4. CASE n # 0
  <2>1. n - 1 \in 0..Len(t) /\ n - 1 < Len(t) /\ (n - 1) + 1 = n /\ ~(n <= n - 1) /\ n \in 0..Len(t)
    BY <1>4
  <2>2. n - 1 \notin T
    BY <1>2, <2>1
  <2>3. ~(w[SubSeq(t, 1, n)] > max)
    BY <2>1, <2>2
  <2>4. w[SubSeq(t, 1, n)] \in Nat
    BY <2>1, MeasureNat
  <2>5. w[SubSeq(t, 1, n)] <= max
    BY <2>3, <2>4
  <2>. QED
    BY <1>2, <2>5 DEF IsCut
<1>. QED
  BY <1>3, <1>4

\* No prefix within max is longer.
LEMMA CutIsLongest ==
  ASSUME NEW w, Measure(w), NEW t \in Seq(Text), NEW max \in Nat,
         NEW n \in 0..Len(t), IsCut(w, t, max, n),
         NEW k \in 0..Len(t), w[SubSeq(t, 1, k)] <= max
  PROVE  k <= n
<1>1. SUFFICES ASSUME n < k PROVE FALSE
  OBVIOUS
<1>2. n + 1 \in 0..Len(t) /\ k \in (n + 1)..Len(t) /\ n < Len(t)
  BY <1>1
<1>3. w[SubSeq(t, 1, n + 1)] <= w[SubSeq(t, 1, k)] /\ w[SubSeq(t, 1, n + 1)] > max
  BY <1>2, MeasurePrefix DEF IsCut
<1>4. w[SubSeq(t, 1, n + 1)] \in Nat /\ w[SubSeq(t, 1, k)] \in Nat
  BY <1>2, MeasureNat
<1>. QED
  BY <1>3, <1>4

\* The truncation of a text is one of its cuts.
LEMMA TruncateCuts ==
  ASSUME NEW t \in Seq(Text), NEW max \in Nat
  PROVE  \E n \in 0..Len(t) :
           IsCut(Tokens, t, max, n) /\ TruncateToTokenBudget(t, max) = SubSeq(t, 1, n)
<1>. DEFINE C(n) == /\ EstimateTokenCount(SubSeq(t, 1, n)) <= max
                    /\ n < Len(t) => EstimateTokenCount(SubSeq(t, 1, n + 1)) > max
            m == CHOOSE n \in 0..Len(t) : C(n)
<1>1. \A n \in 0..Len(t) : Tokens[SubSeq(t, 1, n)] = EstimateTokenCount(SubSeq(t, 1, n))
  BY MeasureNat, TokensMeasure DEF Tokens
<1>2. ASSUME NEW n \in 0..Len(t) PROVE C(n) <=> IsCut(Tokens, t, max, n)
  <2>1. n < Len(t) => n + 1 \in 0..Len(t)
    OBVIOUS
  <2>. QED
    BY <1>1, <2>1 DEF IsCut
<1>3. \E n \in 0..Len(t) : C(n)
  <2>. HIDE DEF C
  <2>. QED
    BY <1>2, CutExists, TokensMeasure
<1>4. m \in 0..Len(t) /\ C(m)
  <2>. HIDE DEF C
  <2>. QED
    BY <1>3
<1>5. TruncateToTokenBudget(t, max) = SubSeq(t, 1, m)
  BY DEF TruncateToTokenBudget
<1>. HIDE DEF C, m
<1>. QED
  BY <1>2, <1>4, <1>5

\* What a truncation keeps: at least every prefix that is within the budget.
LEMMA TruncateKeeps ==
  ASSUME NEW t \in Seq(Text), NEW max \in Nat, NEW b, b = TruncateToTokenBudget(t, max),
         NEW k \in 0..Len(t), EstimateTokenCount(SubSeq(t, 1, k)) <= max
  PROVE  /\ b \in Seq(Text) /\ Len(b) \in k..Len(t)
         /\ EstimateTokenCount(b) <= max
         /\ SubSeq(b, 1, k) = SubSeq(t, 1, k)
<1>1. PICK n \in 0..Len(t) : IsCut(Tokens, t, max, n) /\ b = SubSeq(t, 1, n)
  BY TruncateCuts
<1>2. Tokens[SubSeq(t, 1, k)] <= max
  BY MeasureNat, TokensMeasure DEF Tokens
<1>3. k <= n
  BY <1>1, <1>2, CutIsLongest, TokensMeasure
<1>4. b \in Seq(Text) /\ Tokens[b] = EstimateTokenCount(b) /\ Len(b) = n
  BY <1>1, MeasureNat, TokensMeasure DEF Tokens
<1>5. SubSeq(b, 1, k) = SubSeq(t, 1, k)
  BY <1>1, <1>3
<1>. QED
  BY <1>1, <1>3, <1>4, <1>5 DEF IsCut

\* The slice of a text is one of its cuts, or one with half of the next character.
LEMMA SliceCuts ==
  ASSUME NEW t \in Seq(Text), NEW max \in Nat
  PROVE  \E n \in 0..Len(t) :
           /\ IsCut(Utf16, t, max, n)
           /\ SliceUnits(t, max)
                = IF n < Len(t) /\ Units(SubSeq(t, 1, n)) < max
                  THEN Append(SubSeq(t, 1, n), 3) ELSE SubSeq(t, 1, n)
<1>. DEFINE C(n) == /\ Units(SubSeq(t, 1, n)) <= max
                    /\ n < Len(t) => Units(SubSeq(t, 1, n + 1)) > max
            m == CHOOSE k \in 0..Len(t) : C(k)
<1>1. \A n \in 0..Len(t) : Utf16[SubSeq(t, 1, n)] = Units(SubSeq(t, 1, n))
  BY MeasureNat, UnitsMeasure DEF Utf16
<1>2. ASSUME NEW n \in 0..Len(t) PROVE C(n) <=> IsCut(Utf16, t, max, n)
  <2>1. n < Len(t) => n + 1 \in 0..Len(t)
    OBVIOUS
  <2>. QED
    BY <1>1, <2>1 DEF IsCut
<1>3. \E n \in 0..Len(t) : C(n)
  <2>. HIDE DEF C
  <2>. QED
    BY <1>2, CutExists, UnitsMeasure
<1>4. m \in 0..Len(t) /\ C(m)
  <2>. HIDE DEF C
  <2>. QED
    BY <1>3
<1>5. SliceUnits(t, max) = IF m < Len(t) /\ Units(SubSeq(t, 1, m)) < max
                           THEN Append(SubSeq(t, 1, m), 3) ELSE SubSeq(t, 1, m)
  BY DEF SliceUnits
<1>. HIDE DEF C, m
<1>. QED
  BY <1>2, <1>4, <1>5

\* What a slice keeps; half of a character has fewer tokens than the character.
LEMMA SliceKeeps ==
  ASSUME NEW t \in Seq(Text), NEW max \in Nat, NEW b, b = SliceUnits(t, max),
         NEW k \in 0..Len(t), Units(SubSeq(t, 1, k)) <= max
  PROVE  /\ b \in Seq(Text) /\ Len(b) \in k..Len(t)
         /\ Units(b) <= max
         /\ EstimateTokenCount(b) <= EstimateTokenCount(t)
         /\ SubSeq(b, 1, k) = SubSeq(t, 1, k)
<1>1. PICK n \in 0..Len(t) :
        /\ IsCut(Utf16, t, max, n)
        /\ b = IF n < Len(t) /\ Units(SubSeq(t, 1, n)) < max
               THEN Append(SubSeq(t, 1, n), 3) ELSE SubSeq(t, 1, n)
  BY SliceCuts
<1>. DEFINE whole == SubSeq(t, 1, n)
<1>2. Utf16[SubSeq(t, 1, k)] <= max
  BY MeasureNat, UnitsMeasure DEF Utf16
<1>3. k <= n
  BY <1>1, <1>2, CutIsLongest, UnitsMeasure
<1>4. whole \in Seq(Text) /\ Utf16[whole] = Units(whole) /\ Len(whole) = n
  BY MeasureNat, UnitsMeasure DEF Utf16
<1>5. Units(whole) <= max
  BY <1>1, <1>4 DEF IsCut
<1>6. SubSeq(whole, 1, k) = SubSeq(t, 1, k)
  BY <1>3
<1>7. \A m \in 0..Len(t) : /\ SubSeq(t, 1, m) \in Seq(Text)
                           /\ Tokens[SubSeq(t, 1, m)] = EstimateTokenCount(SubSeq(t, 1, m))
                           /\ EstimateTokenCount(SubSeq(t, 1, m)) \in Nat
  BY MeasureNat, TokensMeasure, TokensNat DEF Tokens
<1>8. SubSeq(t, 1, Len(t)) = t /\ EstimateTokenCount(t) \in Nat
  BY TokensNat
<1>9. \A m \in 0..Len(t) : EstimateTokenCount(SubSeq(t, 1, m)) <= EstimateTokenCount(t)
  <2>. TAKE m \in 0..Len(t)
  <2>1. Len(t) \in m..Len(t) /\ Len(t) \in 0..Len(t)
    OBVIOUS
  <2>2. Tokens[SubSeq(t, 1, m)] <= Tokens[SubSeq(t, 1, Len(t))]
    BY <2>1, MeasurePrefix, TokensMeasure
  <2>. QED
    BY <1>7, <1>8, <2>1, <2>2
<1>10. CASE ~(n < Len(t) /\ Units(whole) < max)
  <2>1. b = whole
    BY <1>1, <1>10
  <2>2. Len(b) \in k..Len(t)
    BY <1>3, <1>4, <2>1
  <2>3. EstimateTokenCount(b) <= EstimateTokenCount(t)
    BY <1>9, <2>1
  <2>. HIDE DEF whole
  <2>. QED
    BY <1>4, <1>5, <1>6, <2>1, <2>2, <2>3
<1>11. CASE n < Len(t) /\ Units(whole) < max
  <2>1. b = Append(whole, 3)
    BY <1>1, <1>11
  <2>2. 3 \in Text /\ t[n + 1] \in Text /\ n + 1 \in 0..Len(t)
    BY <1>11 DEF Text
  <2>3. SubSeq(t, 1, n + 1) = Append(whole, t[n + 1])
    BY <1>11
  <2>4. Utf16[SubSeq(t, 1, n + 1)] = Units(SubSeq(t, 1, n + 1))
    BY <2>2, MeasureNat, UnitsMeasure DEF Utf16
  <2>5. Units(SubSeq(t, 1, n + 1)) > max
    BY <1>1, <1>11, <2>4 DEF IsCut
  <2>6. EstimateTokenCount(SubSeq(t, 1, n + 1)) <= EstimateTokenCount(t)
    BY <1>9, <2>2
  <2>. HIDE DEF whole
  <2>7. Units(Append(whole, t[n + 1])) = Units(whole) + IF t[n + 1] = 4 THEN 2 ELSE 1
    BY <1>4, <2>2, UnitsAppend
  <2>8. Units(whole) \in Nat /\ EstimateTokenCount(whole) \in Nat
    BY <1>4, UnitsNat, TokensNat
  <2>9. t[n + 1] = 4
    <3>1. CASE t[n + 1] # 4
      <4>1. Units(SubSeq(t, 1, n + 1)) = Units(whole) + 1
        BY <2>3, <2>7, <3>1
      <4>2. Units(whole) + 1 <= max
        BY <1>11, <2>8
      <4>3. ~(Units(whole) + 1 > max)
        BY <2>8, <4>2
      <4>. QED
        BY <2>5, <4>1, <4>3
    <3>. QED
      BY <3>1
  <2>10. EstimateTokenCount(whole) + 4 <= EstimateTokenCount(t)
    <3>1. EstimateTokenCount(Append(whole, t[n + 1])) = EstimateTokenCount(whole) + t[n + 1]
      BY <1>4, <2>2, TokensAppend
    <3>. QED
      BY <2>3, <2>6, <2>9, <3>1
  <2>11. EstimateTokenCount(b) = EstimateTokenCount(whole) + 3
    BY <1>4, <2>1, <2>2, TokensAppend
  <2>12. Units(b) = Units(whole) + 1
    BY <1>4, <2>1, <2>2, UnitsAppend
  <2>13. b \in Seq(Text) /\ Len(b) = n + 1
    BY <1>4, <2>1, <2>2
  <2>14. SubSeq(b, 1, k) = SubSeq(whole, 1, k)
    BY <1>3, <1>4, <2>1, <2>2
  <2>15. Units(b) <= max
    BY <1>11, <2>8, <2>12
  <2>16. EstimateTokenCount(b) <= EstimateTokenCount(t)
    BY <1>8, <2>8, <2>10, <2>11
  <2>17. Len(b) \in k..Len(t)
    BY <1>3, <1>11, <2>13
  <2>. QED
    BY <1>6, <2>13, <2>14, <2>15, <2>16, <2>17
<1>. QED
  BY <1>10, <1>11

\* A slice of a text is a text.
LEMMA SliceTyped ==
  ASSUME NEW t \in Seq(Text), NEW max \in Nat
  PROVE  SliceUnits(t, max) \in Seq(Text)
<1>1. 0 \in 0..Len(t) /\ SubSeq(t, 1, 0) = <<>>
  OBVIOUS
<1>2. Units(SubSeq(t, 1, 0)) <= max
  <2>1. Units(SubSeq(t, 1, 0)) = 0
    BY <1>1, UnitsEmpty
  <2>. QED
    BY <2>1
<1>. QED
  BY <1>1, <1>2, SliceKeeps

\* A truncated text is a text, and within the budget.
LEMMA TruncateTyped ==
  ASSUME NEW t \in Seq(Text), NEW max \in Nat
  PROVE  /\ TruncateToTokenBudget(t, max) \in Seq(Text)
         /\ EstimateTokenCount(TruncateToTokenBudget(t, max)) <= max
<1>1. 0 \in 0..Len(t) /\ SubSeq(t, 1, 0) = <<>>
  OBVIOUS
<1>2. EstimateTokenCount(SubSeq(t, 1, 0)) <= max
  <2>1. EstimateTokenCount(SubSeq(t, 1, 0)) = 0
    BY <1>1, TokensEmpty
  <2>. QED
    BY <2>1
<1>. QED
  BY <1>1, <1>2, TruncateKeeps

-----------------------------------------------------------------------------
(* The input of a suggestion *)

\* A chunk of a document, with the tokens of its header.
Chunk == [header : Nat, text : Seq(Text)]

\* The tokens of each of the sources, with the empty lines before it.
SizeOf(sources) ==
  [i \in 1..Len(sources) |->
     Separator + sources[i].header + EstimateTokenCount(sources[i].text)]

\* What was included and what is left is within the budget.
Room ==
  {acc \in [done : BOOLEAN, left : Nat, included : Seq(Chunk)] :
     /\ Warning + Total(SizeOf(acc.included)) + acc.left <= MaxSourceTokens
     /\ \A i \in 1..Len(acc.included) : acc.included[i].text # <<>>}

\* They are natural numbers.
LEMMA SizeTyped == ASSUME NEW s \in Seq(Chunk) PROVE SizeOf(s) \in Seq(Nat)
<1>1. \A d \in Chunk : d.header \in Nat /\ EstimateTokenCount(d.text) \in Nat
  BY TokensNat DEF Chunk
<1>. QED
  BY <1>1 DEF SizeOf, Separator

\* The tokens of one source more.
LEMMA SizeAppend ==
  ASSUME NEW s \in Seq(Chunk), NEW c \in Chunk
  PROVE  Total(SizeOf(Append(s, c)))
           = Total(SizeOf(s)) + (Separator + c.header + EstimateTokenCount(c.text))
<1>. DEFINE x == Separator + c.header + EstimateTokenCount(c.text)
<1>1. \A d \in Chunk : d.header \in Nat /\ EstimateTokenCount(d.text) \in Nat
  BY TokensNat DEF Chunk
<1>2. SizeOf(s) \in Seq(Nat) /\ x \in Nat
  BY <1>1, SizeTyped DEF Separator
<1>3. SizeOf(Append(s, c)) = Append(SizeOf(s), x)
  <2>. DEFINE z(d) == Separator + d.header + EstimateTokenCount(d.text)
  <2>. HIDE DEF z
  <2>1. [i \in 1..Len(Append(s, c)) |-> z(Append(s, c)[i])]
          = Append([i \in 1..Len(s) |-> z(s[i])], z(c))
    OBVIOUS
  <2>. QED
    BY <2>1 DEF SizeOf, z
<1>. HIDE DEF x
<1>4. Total(Append(SizeOf(s), x)) = Total(SizeOf(s)) + x
  BY <1>2, TotalAppend
<1>. QED
  BY <1>2, <1>3, <1>4 DEF x

\* Another chunk fits into what is left.
LEMMA AddSourceFits ==
  ASSUME NEW acc \in Room, NEW c \in Chunk
  PROVE  AddSource(acc, c) \in Room
<1>. DEFINE room == acc.left - SeparatorTokens - c.header
            bounded == TruncateToTokenBudget(c.text, room)
<1>1. /\ acc.done \in BOOLEAN /\ acc.left \in Nat /\ acc.included \in Seq(Chunk)
      /\ acc = [done |-> acc.done, left |-> acc.left, included |-> acc.included]
      /\ Warning + Total(SizeOf(acc.included)) + acc.left <= MaxSourceTokens
      /\ \A i \in 1..Len(acc.included) : acc.included[i].text # <<>>
  BY DEF Room
<1>2. c.header \in Nat /\ c.text \in Seq(Text) /\ c = [header |-> c.header, text |-> c.text]
  BY DEF Chunk
<1>3. SeparatorTokens = 2 /\ Separator = 2 /\ Warning \in Nat /\ MaxSourceTokens \in Nat
  BY SuggestionStreamAssumption DEF SeparatorTokens, Separator
<1>4. Total(SizeOf(acc.included)) \in Nat
  BY <1>1, SizeTyped, TotalNat
<1>5. CASE acc.done \/ acc.left <= SeparatorTokens
  <2>1. AddSource(acc, c) = [acc EXCEPT !.done = TRUE]
    BY <1>5 DEF AddSource
  <2>. QED
    BY <1>1, <2>1 DEF Room
<1>6. CASE /\ ~(acc.done \/ acc.left <= SeparatorTokens)
           /\ c.text = <<>> \/ room <= 0 \/ bounded = <<>>
  <2>1. AddSource(acc, c) = [acc EXCEPT !.left = @ - SeparatorTokens]
    BY <1>6 DEF AddSource
  <2>2. acc.left - SeparatorTokens \in Nat
    BY <1>1, <1>3, <1>6
  <2>3. Warning + Total(SizeOf(acc.included)) + (acc.left - SeparatorTokens) <= MaxSourceTokens
    BY <1>1, <1>3, <1>4
  <2>. QED
    BY <1>1, <2>1, <2>2, <2>3 DEF Room
<1>7. CASE /\ ~(acc.done \/ acc.left <= SeparatorTokens)
           /\ ~(c.text = <<>> \/ room <= 0 \/ bounded = <<>>)
  <2>. DEFINE source == [header |-> c.header, text |-> bounded]
              all == Append(acc.included, source)
              n == EstimateTokenCount(bounded)
  <2>1. AddSource(acc, c) = [done |-> FALSE, left |-> room - n, included |-> all]
    BY <1>7 DEF AddSource
  <2>2. room \in Nat /\ bounded # <<>>
    BY <1>1, <1>2, <1>3, <1>7
  <2>3. bounded \in Seq(Text) /\ n <= room /\ n \in Nat
    <3>. HIDE DEF room
    <3>. QED
      BY <1>2, <2>2, TruncateTyped, TokensNat
  <2>4. source \in Chunk /\ source.header = c.header /\ source.text = bounded
    BY <1>2, <2>3 DEF Chunk
  <2>5. Total(SizeOf(all)) = Total(SizeOf(acc.included)) + (Separator + c.header + n)
    <3>. HIDE DEF source, bounded
    <3>. QED
      BY <1>1, <2>4, SizeAppend
  <2>6. all \in Seq(Chunk) /\ \A i \in 1..Len(all) : all[i].text # <<>>
    <3>. HIDE DEF source, bounded
    <3>. QED
      BY <1>1, <2>2, <2>4
  <2>7. Warning + Total(SizeOf(all)) + (room - n) <= MaxSourceTokens
    <3>. DEFINE before == Total(SizeOf(acc.included))
                after == Total(SizeOf(all))
    <3>1. /\ before \in Nat /\ n \in Nat /\ after = before + (2 + c.header + n)
          /\ Warning + before + acc.left <= MaxSourceTokens
      BY <1>1, <1>3, <1>4, <2>3, <2>5
    <3>. HIDE DEF before, after, n
    <3>2. room = acc.left - 2 - c.header /\ acc.left \in Nat /\ c.header \in Nat
      BY <1>1, <1>2, <1>3
    <3>. HIDE DEF room
    <3>3. \A w, b, h, l, x \in Nat : w + (b + (2 + h + x)) + ((l - 2 - h) - x) = w + b + l
      OBVIOUS
    <3>4. Warning + after + (room - n) = Warning + before + acc.left
      BY <1>3, <3>1, <3>2, <3>3
    <3>. QED
      BY <3>1, <3>4 DEF after
  <2>8. room - n \in Nat
    <3>. HIDE DEF room, n
    <3>. QED
      BY <2>2, <2>3
  <2>. HIDE DEF all, room, n
  <2>. QED
    BY <2>1, <2>6, <2>7, <2>8 DEF Room
<1>. QED
  BY <1>5, <1>6, <1>7

\* All sources that are included fit.
LEMMA SourcesIncluded ==
  ASSUME NEW chunks \in Seq(Chunk)
  PROVE  /\ UntrustedSourceContext(chunks) \in Seq(Chunk)
         /\ SourceTokens(UntrustedSourceContext(chunks)) <= MaxSourceTokens
         /\ \A i \in DOMAIN UntrustedSourceContext(chunks) :
              UntrustedSourceContext(chunks)[i].text # <<>>
<1>. DEFINE sources == UntrustedSourceContext(chunks)
<1>1. Warning \in Nat /\ MaxSourceTokens \in Nat
  BY SuggestionStreamAssumption
<1>2. CASE Warning >= MaxSourceTokens
  <2>1. sources = <<>>
    BY <1>2 DEF UntrustedSourceContext, NoSources
  <2>. QED
    BY <1>1, <2>1 DEF SourceTokens, NoSources
<1>3. CASE ~(Warning >= MaxSourceTokens)
  <2>. DEFINE base == [done |-> FALSE, left |-> MaxSourceTokens - Warning, included |-> NoSources]
              g == [k \in 1..Len(chunks) |-> [acc \in Room |-> AddSource(acc, chunks[k])]]
              F == CHOOSE room : room =
                     [n \in 0..Len(chunks) |->
                        IF n = 0 THEN base ELSE AddSource(room[n - 1], chunks[n])]
  <2>1. base \in Room
    <3>1. SizeOf(<<>>) = <<>> /\ <<>> \in Seq(Chunk)
      BY DEF SizeOf
    <3>2. MaxSourceTokens - Warning \in Nat
      BY <1>1, <1>3
    <3>3. Warning + 0 + (MaxSourceTokens - Warning) <= MaxSourceTokens
      BY <1>1
    <3>. QED
      BY <3>1, <3>2, <3>3, TotalEmpty DEF Room, NoSources
  <2>2. g \in [1..Len(chunks) -> [Room -> Room]] /\ Len(chunks) \in Nat
    BY AddSourceFits
  <2>3. PICK f : Unfolds(f, Room, base, g, Len(chunks))
    <3>. HIDE DEF base, g
    <3>. QED
      BY <2>1, <2>2, Recursion
  <2>4. f = [n \in 0..Len(chunks) |-> IF n = 0 THEN base ELSE AddSource(f[n - 1], chunks[n])]
    <3>1. f = [n \in 0..Len(chunks) |-> f[n]] /\ f[0] = base
      BY <2>3 DEF Unfolds
    <3>2. ASSUME NEW n \in 0..Len(chunks), n # 0 PROVE f[n] = AddSource(f[n - 1], chunks[n])
      <4>1. n \in 1..Len(chunks) /\ n - 1 \in 0..Len(chunks)
        BY <3>2
      <4>2. f[n - 1] \in Room /\ f[n] = g[n][f[n - 1]]
        BY <2>3, <4>1 DEF Unfolds
      <4>. QED
        BY <4>1, <4>2
    <3>. HIDE DEF base
    <3>. QED
      BY <3>1, <3>2
  <2>5. F = [n \in 0..Len(chunks) |-> IF n = 0 THEN base ELSE AddSource(F[n - 1], chunks[n])]
    <3>. HIDE DEF base
    <3>. QED
      BY <2>4
  <2>6. sources = F[Len(chunks)].included
    BY <1>3 DEF UntrustedSourceContext
  <2>. DEFINE P == {k \in 0..Len(chunks) : F[k] \in Room}
  <2>. HIDE DEF F, base
  <2>7. 0 \in P
    BY <2>1, <2>5
  <2>8. ASSUME NEW k \in 1..Len(chunks), k - 1 \in P PROVE k \in P
    <3>1. F[k] = AddSource(F[k - 1], chunks[k]) /\ F[k - 1] \in Room /\ chunks[k] \in Chunk
      BY <2>5, <2>8
    <3>. QED
      BY <3>1, AddSourceFits
  <2>9. F[Len(chunks)] \in Room
    <3>1. Len(chunks) \in P
      <4>. HIDE DEF P
      <4>. QED
        BY <2>2, <2>7, <2>8, Induction
    <3>. QED
      BY <3>1
  <2>10. /\ sources \in Seq(Chunk) /\ F[Len(chunks)].left \in Nat
         /\ Warning + Total(SizeOf(sources)) + F[Len(chunks)].left <= MaxSourceTokens
         /\ \A i \in 1..Len(sources) : sources[i].text # <<>>
    <3>. HIDE DEF sources
    <3>. QED
      BY <2>6, <2>9 DEF Room
  <2>. HIDE DEF sources
  <2>11. Total(SizeOf(sources)) \in Nat
    BY <2>10, SizeTyped, TotalNat
  <2>12. SourceTokens(sources) <= MaxSourceTokens
    <3>1. SourceTokens(sources) = 0 \/ SourceTokens(sources) = Warning + Total(SizeOf(sources))
      BY DEF SourceTokens, SizeOf
    <3>. QED
      BY <1>1, <2>10, <2>11, <3>1
  <2>13. DOMAIN sources = 1..Len(sources)
    BY <2>10
  <2>14. \A i \in DOMAIN sources : sources[i].text # <<>>
    BY <2>10, <2>13
  <2>. QED
    BY <2>10, <2>12, <2>14 DEF sources
<1>. QED
  BY <1>2, <1>3

\* The transcript of the input: every line adds what fits.
LEMMA TranscriptTyped ==
  ASSUME NEW lines \in Seq(Seq(Text))
  PROVE  TranscriptContext(lines) \in Seq(Text)
<1>. DEFINE Acc == [text : Seq(Text), left : Nat, done : BOOLEAN]
            base == [text |-> <<>>, left |-> MaxTranscriptChars, done |-> FALSE]
            line(k) == lines[Len(lines) + 1 - k]
            g == [k \in 1..Len(lines) |-> [acc \in Acc |-> AddLine(acc, line(k))]]
            F == CHOOSE newest : newest = [n \in 0..Len(lines) |->
                                   IF n = 0 THEN base ELSE AddLine(newest[n - 1], line(n))]
<1>1. /\ base \in Acc /\ Len(lines) \in Nat /\ MaxTranscriptTokens \in Nat
      /\ \A k \in 1..Len(lines) : line(k) \in Seq(Text)
  BY SuggestionStreamAssumption
<1>2. ASSUME NEW acc \in Acc, NEW l \in Seq(Text) PROVE AddLine(acc, l) \in Acc
  <2>1. acc.text \in Seq(Text) /\ acc.left \in Nat /\ acc.done \in BOOLEAN
    OBVIOUS
  <2>. DEFINE used == IF Units(l) + 1 > acc.left THEN acc.left ELSE Units(l) + 1
              slice == SliceUnits(l, acc.left)
              text == IF acc.text = <<>> THEN slice ELSE slice \o <<1>> \o acc.text
  <2>2. AddLine(acc, l) = [acc EXCEPT !.done = TRUE]
          \/ AddLine(acc, l) = [text |-> text, left |-> acc.left - used, done |-> used = acc.left]
    BY DEF AddLine
  <2>3. slice \in Seq(Text) /\ <<1>> \in Seq(Text)
    BY <2>1, SliceTyped DEF Text
  <2>4. text \in Seq(Text)
    <3>. HIDE DEF slice
    <3>. QED
      BY <2>1, <2>3
  <2>5. acc.left - used \in Nat
    BY <2>1, UnitsNat
  <2>. HIDE DEF used, text
  <2>6. [acc EXCEPT !.done = TRUE] \in Acc
    OBVIOUS
  <2>7. [text |-> text, left |-> acc.left - used, done |-> used = acc.left] \in Acc
    BY <2>4, <2>5
  <2>. HIDE DEF Acc
  <2>. QED
    BY <2>2, <2>6, <2>7
<1>3. g \in [1..Len(lines) -> [Acc -> Acc]]
  <2>. HIDE DEF Acc, line
  <2>. QED
    BY <1>1, <1>2
<1>4. PICK f : Unfolds(f, Acc, base, g, Len(lines))
  <2>. HIDE DEF Acc, base, g
  <2>. QED
    BY <1>1, <1>3, Recursion
<1>5. f = [n \in 0..Len(lines) |-> IF n = 0 THEN base ELSE AddLine(f[n - 1], line(n))]
  <2>1. f = [n \in 0..Len(lines) |-> f[n]] /\ f[0] = base
    BY <1>4 DEF Unfolds
  <2>2. ASSUME NEW n \in 0..Len(lines), n # 0 PROVE f[n] = AddLine(f[n - 1], line(n))
    <3>1. n \in 1..Len(lines) /\ n - 1 \in 0..Len(lines)
      BY <2>2
    <3>. HIDE DEF Acc, line, base
    <3>2. f[n - 1] \in Acc /\ f[n] = g[n][f[n - 1]]
      BY <1>4, <3>1 DEF Unfolds
    <3>. QED
      BY <3>1, <3>2
  <2>. HIDE DEF base, line
  <2>. QED
    BY <2>1, <2>2
<1>6. F = [n \in 0..Len(lines) |-> IF n = 0 THEN base ELSE AddLine(F[n - 1], line(n))]
  <2>. HIDE DEF base, line
  <2>. QED
    BY <1>5
<1>7. TranscriptContext(lines) = TruncateToTokenBudget(F[Len(lines)].text, MaxTranscriptTokens)
  BY DEF TranscriptContext
<1>. DEFINE P == {k \in 0..Len(lines) : F[k] \in Acc}
<1>. HIDE DEF F, base, line
<1>8. 0 \in P
  BY <1>1, <1>6
<1>9. ASSUME NEW k \in 1..Len(lines), k - 1 \in P PROVE k \in P
  <2>. HIDE DEF Acc
  <2>1. F[k - 1] \in Acc /\ k \in 0..Len(lines) /\ k # 0
    BY <1>9
  <2>2. F[k] = AddLine(F[k - 1], line(k))
    BY <1>6, <2>1
  <2>. QED
    BY <1>1, <1>2, <2>1, <2>2
<1>10. Len(lines) \in P
  <2>. HIDE DEF P
  <2>. QED
    BY <1>1, <1>8, <1>9, Induction
<1>11. F[Len(lines)].text \in Seq(Text)
  BY <1>10
<1>. QED
  BY <1>1, <1>7, <1>11, TruncateTyped

-----------------------------------------------------------------------------
(* One call *)

\* What a body consists of.
Lines == Text \cup {Completed, Failed, Other, End, CrLf}

\* A text that fits into the budgets of the answer.
Within(text) ==
  EstimateTokenCount(text) <= MaxOutputTokens /\ Units(text) <= MaxOutputChars

\* Every variable of the call is in its range.
CallOK ==
  /\ api \in {"responses", "chat"}
  /\ phase \in {"rejected", "request", "reading", "complete", "error", "abandoned"}
  /\ body \in Seq(Lines) /\ buffer \in Seq(Lines)
  /\ said \in Seq(Text) /\ content \in Seq(Text) /\ context.transcript \in Seq(Text)
  /\ finished \in BOOLEAN

\* What was said is what was yielded and what is still to be handled, as long as it fits.
SaidSoFar ==
  Within(said) =>
    /\ phase \in {"request", "reading"} => said = content \o TextOf(buffer \o body)
    /\ phase = "complete" => content = said

\* The inductive invariant: TokensAddUp speaks of a call that is complete, this of every
\* call: the answer is what was yielded and fits, and nothing of what was said is lost.
SuggestionInv ==
  CallOK /\ SourcesFit /\ content = yielded /\ Within(content) /\ SaidSoFar

\* The budgets of the answer.
LEMMA BudgetsNat == MaxOutputTokens \in Nat /\ MaxOutputChars \in Nat
BY SuggestionStreamAssumption

\* The text among some lines.
LEMMA TextOfTyped == ASSUME NEW s \in Seq(Lines) PROVE TextOf(s) \in Seq(Text)
BY OnlyTyped DEF TextOf

\* An empty answer fits.
LEMMA EmptyWithin == Within(<<>>)
<1>1. EstimateTokenCount(<<>>) = 0 /\ Units(<<>>) = 0
  BY TokensEmpty, UnitsEmpty
<1>. QED
  BY <1>1, BudgetsNat DEF Within

\* The beginning of a text that fits does.
LEMMA WithinPrefix ==
  ASSUME NEW s \in Seq(Text), NEW t \in Seq(Text), Within(s \o t)
  PROVE  Within(s)
<1>. DEFINE u == s \o t
<1>1. u \in Seq(Text) /\ SubSeq(u, 1, Len(s)) = s /\ SubSeq(u, 1, Len(u)) = u
      /\ Len(s) \in 0..Len(u) /\ Len(u) \in Len(s)..Len(u)
  OBVIOUS
<1>. HIDE DEF u
<1>2. Tokens[s] <= Tokens[u] /\ Utf16[s] <= Utf16[u]
  <2>1. Tokens[SubSeq(u, 1, Len(s))] <= Tokens[SubSeq(u, 1, Len(u))]
    BY <1>1, MeasurePrefix, TokensMeasure
  <2>2. Utf16[SubSeq(u, 1, Len(s))] <= Utf16[SubSeq(u, 1, Len(u))]
    BY <1>1, MeasurePrefix, UnitsMeasure
  <2>. QED
    BY <1>1, <2>1, <2>2
<1>3. /\ Tokens[s] = EstimateTokenCount(s) /\ Tokens[u] = EstimateTokenCount(u)
      /\ Utf16[s] = Units(s) /\ Utf16[u] = Units(u)
  BY <1>1 DEF Tokens, Utf16
<1>4. /\ EstimateTokenCount(s) \in Nat /\ EstimateTokenCount(u) \in Nat
      /\ Units(s) \in Nat /\ Units(u) \in Nat
  BY <1>1, TokensNat, UnitsNat
<1>5. Within(u)
  BY DEF u
<1>. QED
  BY <1>2, <1>3, <1>4, <1>5, BudgetsNat DEF Within

\* A sequence in two pieces.
LEMMA SplitAt ==
  ASSUME NEW S, NEW s \in Seq(S), NEW k \in 0..Len(s)
  PROVE  SubSeq(s, 1, k) \o SubSeq(s, k + 1, Len(s)) = s
<1>1. 1 \in 1..Len(s) + 1 /\ k \in 1 - 1..Len(s) /\ Len(s) \in k..Len(s)
  OBVIOUS
<1>2. SubSeq(s, 1, k) \o SubSeq(s, k + 1, Len(s)) = SubSeq(s, 1, Len(s))
  BY <1>1, ConcatAdjacentSubSeq
<1>. QED
  BY <1>2, SubSeqFull

\* A sequence around two of its elements.
LEMMA SplitAtTwo ==
  ASSUME NEW S, NEW s \in Seq(S), NEW n \in 1..Len(s) - 1
  PROVE  s = (SubSeq(s, 1, n - 1) \o <<s[n], s[n + 1]>>) \o SubSeq(s, n + 2, Len(s))
<1>1. SubSeq(s, n, n + 1) = <<s[n], s[n + 1]>>
  <2>. DEFINE a == SubSeq(s, n, n + 1)
              b == <<s[n], s[n + 1]>>
  <2>1. a \in Seq(S) /\ Len(a) = 2 /\ a[1] = s[n] /\ a[2] = s[n + 1]
    <3>1. /\ n \in Int /\ n + 1 \in Int /\ \A i \in n..n + 1 : s[i] \in S
          /\ n <= n + 1 /\ (n + 1) - n + 1 = 2
      OBVIOUS
    <3>2. a \in Seq(S) /\ Len(a) = 2
      BY <3>1, SubSeqProperties
    <3>3. \A i \in 1..2 : a[i] = s[n + i - 1]
      BY <3>1, SubSeqProperties
    <3>4. n + 1 - 1 = n /\ n + 2 - 1 = n + 1
      OBVIOUS
    <3>. HIDE DEF a
    <3>5. a[1] = s[n + 1 - 1] /\ a[2] = s[n + 2 - 1]
      BY <3>3
    <3>. QED
      BY <3>2, <3>4, <3>5
  <2>2. b \in Seq(S) /\ Len(b) = 2 /\ b[1] = s[n] /\ b[2] = s[n + 1]
    OBVIOUS
  <2>. HIDE DEF a, b
  <2>3. \A i \in 1..Len(a) : a[i] = b[i]
    BY <2>1, <2>2
  <2>4. a = b
    BY <2>1, <2>2, <2>3, SeqEqual
  <2>. QED
    BY <2>4 DEF a, b
<1>2. SubSeq(s, 1, n - 1) \o SubSeq(s, n, n + 1) = SubSeq(s, 1, n + 1)
  <2>1. 1 \in 1..Len(s) + 1 /\ n - 1 \in 1 - 1..Len(s) /\ n + 1 \in n - 1..Len(s) /\ (n - 1) + 1 = n
    OBVIOUS
  <2>. QED
    BY <2>1, ConcatAdjacentSubSeq
<1>3. SubSeq(s, 1, n + 1) \o SubSeq(s, n + 2, Len(s)) = s
  <2>1. n + 1 \in 0..Len(s) /\ (n + 1) + 1 = n + 2
    OBVIOUS
  <2>2. SubSeq(s, 1, n + 1) \o SubSeq(s, (n + 1) + 1, Len(s)) = s
    BY <2>1, SplitAt
  <2>. QED
    BY <2>1, <2>2
<1>. QED
  BY <1>1, <1>2, <1>3

\* The text of two pieces of a body is the text of one after that of the other.
LEMMA LinesConcat ==
  ASSUME NEW a \in Seq(Lines), NEW b \in Seq(Lines)
  PROVE  a \o b \in Seq(Lines) /\ TextOf(a \o b) = TextOf(a) \o TextOf(b)
<1>1. a \o b \in Seq(Lines)
  OBVIOUS
<1>2. Only(a \o b, Text) = Only(a, Text) \o Only(b, Text)
  BY OnlyConcat
<1>. QED
  BY <1>1, <1>2 DEF TextOf

\* Three pieces of a body.
LEMMA LinesAssociative ==
  ASSUME NEW a \in Seq(Lines), NEW b \in Seq(Lines), NEW c \in Seq(Lines)
  PROVE  (a \o b) \o c = a \o (b \o c)
OBVIOUS

\* Three pieces of a text.
LEMMA TextsAssociative ==
  ASSUME NEW a \in Seq(Text), NEW b \in Seq(Text), NEW c \in Seq(Text)
  PROVE  (a \o b) \o c = a \o (b \o c)
OBVIOUS

\* The end of a line has no text.
LEMMA EndHasNoText == ASSUME NEW a \in Seq(Lines) PROVE TextOf(Append(a, End)) = TextOf(a)
<1>1. End \in Lines /\ End \notin Text
  BY DEF End, Text, Lines
<1>2. Only(Append(a, End), Text)
        = IF End \in Text THEN Append(Only(a, Text), End) ELSE Only(a, Text)
  BY <1>1, OnlyAppend
<1>. QED
  BY <1>1, <1>2 DEF TextOf

\* Nor has the empty line between two events.
LEMMA NoText == <<End, End>> \in Seq(Lines) /\ TextOf(<<End, End>>) = <<>>
<1>1. End \in Lines /\ End \notin Text
  BY DEF End, Text, Lines
<1>. DEFINE e == <<>>
            f == <<End>>
<1>2. e \in Seq(Lines) /\ f \in Seq(Lines) /\ <<End, End>> \in Seq(Lines)
      /\ f = Append(e, End) /\ <<End, End>> = Append(f, End) /\ TextOf(e) = <<>>
  BY <1>1, OnlyEmpty DEF TextOf
<1>. HIDE DEF e, f
<1>3. TextOf(Append(e, End)) = TextOf(e) /\ TextOf(Append(f, End)) = TextOf(f)
  BY <1>2, EndHasNoText
<1>. QED
  BY <1>2, <1>3

\* A token adds what is left of the budgets: all of it if it fits.
LEMMA TokenAdds ==
  ASSUME content \in Seq(Text), content = yielded, Within(content),
         NEW text \in Seq(Text), Token(text)
  PROVE  /\ content' \in Seq(Text) /\ content' = yielded' /\ Within(content')
         /\ Within(content \o text) => content' = content \o text
<1>. DEFINE t == content \o text
            cut == TruncateToTokenBudget(t, MaxOutputTokens)
            b == SliceUnits(cut, MaxOutputChars)
            k == Len(content)
<1>1. content' = b /\ yielded' = yielded \o SubSeq(b, k + 1, Len(b))
  BY DEF Token
<1>2. /\ t \in Seq(Text) /\ k \in 0..Len(t) /\ SubSeq(t, 1, k) = content
      /\ Len(t) \in 0..Len(t) /\ SubSeq(t, 1, Len(t)) = t /\ Len(t) \in Nat
  OBVIOUS
<1>. HIDE DEF t, k
<1>3. /\ cut \in Seq(Text) /\ Len(cut) \in k..Len(t) /\ EstimateTokenCount(cut) <= MaxOutputTokens
      /\ SubSeq(cut, 1, k) = content
  <2>1. EstimateTokenCount(SubSeq(t, 1, k)) <= MaxOutputTokens
    BY <1>2 DEF Within
  <2>. QED
    BY <1>2, <2>1, BudgetsNat, TruncateKeeps
<1>4. /\ b \in Seq(Text) /\ Len(b) \in k..Len(cut) /\ Units(b) <= MaxOutputChars
      /\ EstimateTokenCount(b) <= EstimateTokenCount(cut) /\ SubSeq(b, 1, k) = content
  <2>. HIDE DEF cut
  <2>1. Units(SubSeq(cut, 1, k)) <= MaxOutputChars
    BY <1>3 DEF Within
  <2>2. k \in 0..Len(cut)
    BY <1>2, <1>3
  <2>. QED
    BY <1>2, <1>3, <2>1, <2>2, BudgetsNat, SliceKeeps
<1>5. Within(b)
  <2>1. EstimateTokenCount(b) \in Nat /\ EstimateTokenCount(cut) \in Nat
    BY <1>3, <1>4, TokensNat
  <2>. HIDE DEF b, cut
  <2>. QED
    BY <1>3, <1>4, <2>1, BudgetsNat DEF Within
<1>6. content \o SubSeq(b, k + 1, Len(b)) = b
  <2>. HIDE DEF b
  <2>1. content = SubSeq(b, 1, k) /\ k \in Nat /\ k <= Len(b) /\ Len(b) \in Nat
    BY <1>2, <1>4
  <2>2. k \in 0..Len(b) /\ b \in Seq(Text)
    BY <1>4, <2>1
  <2>3. SubSeq(b, 1, k) \o SubSeq(b, k + 1, Len(b)) = b
    BY <2>2, SplitAt
  <2>. QED
    BY <2>1, <2>3
<1>7. ASSUME Within(t) PROVE b = t
  <2>1. EstimateTokenCount(SubSeq(t, 1, Len(t))) <= MaxOutputTokens
    BY <1>2, <1>7 DEF Within
  <2>2. Len(cut) \in Len(t)..Len(t) /\ SubSeq(cut, 1, Len(t)) = SubSeq(t, 1, Len(t))
    BY <1>2, <2>1, BudgetsNat, TruncateKeeps
  <2>3. cut = t
    <3>. HIDE DEF cut
    <3>1. Len(cut) = Len(t) /\ SubSeq(cut, 1, Len(cut)) = cut
      BY <1>2, <1>3, <2>2
    <3>. QED
      BY <1>2, <2>2, <3>1
  <2>4. Units(SubSeq(cut, 1, Len(t))) <= MaxOutputChars
    BY <1>2, <1>7, <2>2 DEF Within
  <2>5. Len(b) \in Len(t)..Len(cut) /\ SubSeq(b, 1, Len(t)) = SubSeq(cut, 1, Len(t))
    <3>. HIDE DEF cut
    <3>. QED
      BY <1>2, <1>3, <2>3, <2>4, BudgetsNat, SliceKeeps
  <2>. HIDE DEF b, cut
  <2>6. Len(b) = Len(t) /\ SubSeq(b, 1, Len(b)) = b
    BY <1>2, <1>4, <2>3, <2>5
  <2>. QED
    BY <1>2, <2>3, <2>5, <2>6
<1>. HIDE DEF b
<1>8. yielded' = b
  BY <1>1, <1>6
<1>. QED
  BY <1>1, <1>4, <1>5, <1>7, <1>8 DEF t

\* An event that is JSON and has text is one line of text.
LEMMA OneLineOfText ==
  ASSUME NEW data \in Seq(Lines), ~(Len(data) > 1), TextOf(data) # <<>>
  PROVE  TextOf(data) = data
<1>. DEFINE e == <<>>
<1>1. e \in Seq(Lines) /\ TextOf(e) = <<>> /\ \A x \in Lines : Append(e, x) = <<x>>
  BY OnlyEmpty DEF TextOf
<1>2. CASE Len(data) = 0
  <2>1. data = e
    BY <1>2
  <2>. QED
    BY <1>1, <2>1
<1>3. CASE Len(data) = 1
  <2>1. data[1] \in Lines /\ data = <<data[1]>>
    BY <1>3
  <2>. HIDE DEF e
  <2>2. Only(Append(e, data[1]), Text)
          = IF data[1] \in Text THEN Append(Only(e, Text), data[1]) ELSE Only(e, Text)
    BY <1>1, <2>1, OnlyAppend
  <2>3. data = Append(e, data[1])
    BY <1>1, <2>1
  <2>4. Only(e, Text) = e /\ Only(e, Text) = <<>>
    BY <1>1 DEF TextOf, e
  <2>. QED
    BY <2>2, <2>3, <2>4 DEF TextOf
<1>4. Len(data) = 0 \/ Len(data) = 1
  <2>1. Len(data) \in Nat /\ ~(Len(data) > 1)
    OBVIOUS
  <2>. QED
    BY <2>1
<1>. QED
  BY <1>2, <1>3, <1>4

\* An event adds its text.
LEMMA EventAdds ==
  ASSUME content \in Seq(Text), content = yielded, Within(content), finished \in BOOLEAN,
         NEW data \in Seq(Lines), ~Throws(data), Handle(data)
  PROVE  /\ content' \in Seq(Text) /\ content' = yielded' /\ Within(content')
         /\ finished' \in BOOLEAN
         /\ Within(content \o TextOf(data)) => content' = content \o TextOf(data)
<1>1. TextOf(data) \in Seq(Text)
  BY TextOfTyped
<1>2. finished' \in BOOLEAN
  BY DEF Handle
<1>3. CASE TextOf(data) # <<>>
  <2>1. Token(TextOf(data))
    <3>1. Token(data)
      BY <1>3 DEF Handle
    <3>2. TextOf(data) = data
      BY <1>3, OneLineOfText DEF Throws
    <3>. QED
      BY <3>1, <3>2
  <2>. QED
    BY <1>1, <1>2, <2>1, TokenAdds
<1>4. CASE TextOf(data) = <<>>
  <2>1. content' = content /\ yielded' = yielded
    BY <1>4 DEF Handle
  <2>2. content \o <<>> = content
    OBVIOUS
  <2>3. Within(content')
    BY <2>1
  <2>. QED
    BY <1>2, <1>4, <2>1, <2>2, <2>3
<1>. QED
  BY <1>3, <1>4

\* The data lines of an event have all its text.
LEMMA DataHasText ==
  ASSUME NEW frame \in Seq(Lines)
  PROVE  DataLines(frame) \in Seq(Lines) /\ TextOf(DataLines(frame)) = TextOf(frame)
<1>1. Text \in SUBSET (Text \cup {Completed, Failed, Other})
  OBVIOUS
<1>. QED
  BY <1>1, OnlyTyped, OnlyOnly DEF DataLines, TextOf

\* A call begins with an input that fits, and with nothing said.
LEMMA SuggestionStart == SuggestionStreamInit => SuggestionInv
<1>. SUFFICES ASSUME SuggestionStreamInit PROVE SuggestionInv
  OBVIOUS
<1>. USE DEF SuggestionStreamInit
<1>1. body \in Seq(Lines) /\ buffer = <<>> /\ buffer \in Seq(Lines)
  BY SuggestionStreamAssumption DEF Lines
<1>2. PICK lines \in Transcripts, chunks \in SourceLists :
        context = [transcript |-> TranscriptContext(lines),
                   sources |-> UntrustedSourceContext(chunks)]
  BY DEF Contexts
<1>3. lines \in Seq(Seq(Text)) /\ chunks \in Seq(Chunk)
  BY SuggestionStreamAssumption DEF Chunk
<1>4. context.transcript \in Seq(Text)
  BY <1>2, <1>3, TranscriptTyped
<1>5. SourcesFit
  <2>1. context.sources = UntrustedSourceContext(chunks)
    BY <1>2
  <2>. QED
    BY <1>3, <2>1, SourcesIncluded DEF SourcesFit
<1>6. said \in Seq(Text) /\ content = <<>> /\ yielded = <<>> /\ content \in Seq(Text)
  BY <1>1, TextOfTyped
<1>7. CallOK
  BY <1>1, <1>4, <1>6 DEF CallOK
<1>8. SaidSoFar
  <2>1. buffer \o body = body /\ content \o said = said /\ phase # "complete"
    BY <1>1, <1>6
  <2>2. said = content \o TextOf(buffer \o body)
    BY <2>1
  <2>. QED
    BY <2>1, <2>2 DEF SaidSoFar
<1>. QED
  BY <1>5, <1>6, <1>7, <1>8, EmptyWithin DEF SuggestionInv

\* Every step of the call keeps the invariant.
LEMMA SuggestionStep ==
  ASSUME SuggestionInv, [SuggestionStreamNext]_suggestionVars
  PROVE  SuggestionInv'
<1>. USE DEF SuggestionInv
<1>1. ASSUME UNCHANGED <<request, body, buffer, finished, content, yielded>>,
             phase' \in {"reading", "error", "abandoned"}, phase \in {"request", "reading"}
      PROVE  SuggestionInv'
  <2>1. CallOK' /\ SourcesFit' /\ (content = yielded)' /\ Within(content)'
    BY <1>1 DEF CallOK, SourcesFit, Within, request
  <2>2. SaidSoFar'
    BY <1>1 DEF SaidSoFar, Within, request
  <2>. QED
    BY <2>1, <2>2
<1>2. CASE Respond
  BY <1>1, <1>2 DEF Respond
<1>3. CASE BreaksOff
  BY <1>1, <1>3 DEF BreaksOff
<1>4. CASE Abandon
  BY <1>1, <1>4 DEF Abandon
<1>5. ASSUME NEW n \in 1..Len(body), ReadPiece(n) PROVE SuggestionInv'
  <2>1. /\ body' = SubSeq(body, n + 1, Len(body)) /\ buffer' = buffer \o SubSeq(body, 1, n)
        /\ UNCHANGED <<request, phase, finished, content, yielded>>
    BY <1>5 DEF ReadPiece, Buffered
  <2>2. body \in Seq(Lines) /\ buffer \in Seq(Lines)
    BY DEF CallOK
  <2>3. body' \in Seq(Lines) /\ buffer' \in Seq(Lines)
    BY <2>1, <2>2
  <2>4. buffer' \o body' = buffer \o body
    <3>. DEFINE a == SubSeq(body, 1, n)
                b == SubSeq(body, n + 1, Len(body))
    <3>1. a \in Seq(Lines) /\ b \in Seq(Lines) /\ a \o b = body
      BY <2>2
    <3>. HIDE DEF a, b
    <3>2. (buffer \o a) \o b = buffer \o (a \o b)
      BY <2>2, <3>1, LinesAssociative
    <3>. QED
      BY <2>1, <3>1, <3>2 DEF a, b
  <2>5. CallOK' /\ SourcesFit' /\ (content = yielded)' /\ Within(content)'
    BY <2>1, <2>3 DEF CallOK, SourcesFit, Within, request
  <2>6. SaidSoFar'
    BY <2>1, <2>4 DEF SaidSoFar, Within, request
  <2>. QED
    BY <2>5, <2>6
<1>6. CASE ParseFrame
  <2>. DEFINE first == CHOOSE n \in Boundaries : \A k \in Boundaries : n <= k
              pre == SubSeq(buffer, 1, first - 1)
              rest == SubSeq(buffer, first + 2, Len(buffer))
  <2>1. /\ phase = "reading" /\ Boundaries # {} /\ UNCHANGED <<request, body>>
        /\ IF Throws(DataLines(pre))
           THEN phase' = "error" /\ UNCHANGED <<buffer, finished, content, yielded>>
           ELSE Handle(DataLines(pre)) /\ buffer' = rest /\ UNCHANGED phase
    BY <1>6 DEF ParseFrame
  <2>2. first \in Boundaries
    <3>1. Boundaries \in SUBSET Nat
      BY DEF Boundaries
    <3>. QED
      BY <2>1, <3>1, Least
  <2>. HIDE DEF first
  <2>3. CASE Throws(DataLines(pre))
    BY <1>1, <2>1, <2>3
  <2>4. CASE ~Throws(DataLines(pre))
    <3>1. buffer \in Seq(Lines) /\ body \in Seq(Lines) /\ said \in Seq(Text)
          /\ content \in Seq(Text) /\ finished \in BOOLEAN
      BY DEF CallOK
    <3>2. /\ first \in 1..Len(buffer) - 1 /\ buffer[first] = End /\ buffer[first + 1] = End
      BY <2>2 DEF Boundaries
    <3>3. /\ pre \in Seq(Lines) /\ rest \in Seq(Lines) /\ <<End, End>> \in Seq(Lines)
      BY <3>1, <3>2 DEF Lines
    <3>4. buffer = (pre \o <<End, End>>) \o rest
      BY <3>1, <3>2, SplitAtTwo
    <3>. HIDE DEF pre, rest
    <3>5. TextOf(<<End, End>>) = <<>>
      BY NoText
    <3>6. DataLines(pre) \in Seq(Lines) /\ TextOf(DataLines(pre)) = TextOf(pre)
      BY <3>3, DataHasText
    <3>7. /\ content' \in Seq(Text) /\ content' = yielded' /\ Within(content')
          /\ finished' \in BOOLEAN
          /\ Within(content \o TextOf(pre)) => content' = content \o TextOf(pre)
      BY <2>1, <2>4, <3>1, <3>6, EventAdds
    <3>8. TextOf(buffer \o body) = TextOf(pre) \o TextOf(rest \o body)
      <4>1. pre \o <<End, End>> \in Seq(Lines) /\ rest \o body \in Seq(Lines)
        BY <3>1, <3>3, LinesConcat
      <4>2. buffer \o body = (pre \o <<End, End>>) \o (rest \o body)
        <5>. DEFINE event == pre \o <<End, End>>
        <5>1. event \in Seq(Lines) /\ buffer = event \o rest
          BY <3>4, <4>1
        <5>. HIDE DEF event
        <5>2. event \in Seq(Lines) /\ rest \in Seq(Lines) /\ body \in Seq(Lines)
          BY <3>1, <3>3, <5>1
        <5>3. (event \o rest) \o body = event \o (rest \o body)
          BY <5>2, LinesAssociative, Zenon
        <5>. QED
          BY <5>1, <5>3, Zenon DEF event
      <4>3. TextOf(buffer \o body) = TextOf(pre \o <<End, End>>) \o TextOf(rest \o body)
        BY <4>1, <4>2, LinesConcat
      <4>4. TextOf(pre \o <<End, End>>) = TextOf(pre) \o <<>>
        <5>. DEFINE gap == <<End, End>>
        <5>1. gap \in Seq(Lines) /\ TextOf(gap) = <<>>
          BY NoText
        <5>. HIDE DEF gap
        <5>2. TextOf(pre \o gap) = TextOf(pre) \o TextOf(gap)
          BY <3>3, <5>1, LinesConcat
        <5>. QED
          BY <5>1, <5>2 DEF gap
      <4>5. TextOf(pre) \o <<>> = TextOf(pre)
        BY <3>3, TextOfTyped, ConcatEmptySeq
      <4>. QED
        BY <4>3, <4>4, <4>5
    <3>9. TextOf(pre) \in Seq(Text) /\ TextOf(rest \o body) \in Seq(Text)
      <4>1. rest \o body \in Seq(Lines)
        BY <3>1, <3>3
      <4>. QED
        BY <3>3, <4>1, TextOfTyped
    <3>10. /\ buffer' = rest /\ phase' = "reading" /\ body' = body /\ said' = said
           /\ context' = context /\ api' = api
      BY <2>1, <2>4 DEF request
    <3>11. SaidSoFar'
      <4>1. SUFFICES ASSUME Within(said) PROVE said = content' \o TextOf(rest \o body)
        BY <3>10 DEF SaidSoFar, Within
      <4>2. said = content \o (TextOf(pre) \o TextOf(rest \o body))
        BY <2>1, <3>8, <4>1 DEF SaidSoFar
      <4>. DEFINE a == TextOf(pre)
                  b == TextOf(rest \o body)
      <4>. HIDE DEF a, b
      <4>3. said = (content \o a) \o b
        <5>1. a \in Seq(Text) /\ b \in Seq(Text)
          BY <3>9 DEF a, b
        <5>2. said = content \o (a \o b)
          BY <4>2 DEF a, b
        <5>3. (content \o a) \o b = content \o (a \o b)
          BY <3>1, <5>1, TextsAssociative, Zenon
        <5>. QED
          BY <5>2, <5>3, Zenon
      <4>4. Within(content \o a)
        <5>1. content \o a \in Seq(Text) /\ b \in Seq(Text)
          BY <3>1, <3>9 DEF a, b
        <5>2. Within((content \o a) \o b)
          BY <4>1, <4>3
        <5>. QED
          BY <5>1, <5>2, WithinPrefix
      <4>. QED
        BY <3>7, <4>3, <4>4 DEF a, b
    <3>12. CallOK' /\ SourcesFit'
      BY <3>1, <3>3, <3>7, <3>10 DEF CallOK, SourcesFit
    <3>13. Within(content)'
      BY <3>7 DEF Within
    <3>. QED
      BY <3>7, <3>11, <3>12, <3>13
  <2>. QED
    BY <2>3, <2>4
<1>7. CASE EndOfBody
  <2>1. /\ phase = "reading" /\ body = <<>> /\ UNCHANGED <<request, body, buffer>>
        /\ IF Throws(DataLines(buffer))
           THEN phase' = "error" /\ UNCHANGED <<finished, content, yielded>>
           ELSE Handle(DataLines(buffer)) /\ phase' = IF finished' THEN "complete" ELSE "error"
    BY <1>7 DEF EndOfBody
  <2>2. CASE Throws(DataLines(buffer))
    BY <1>1, <2>1, <2>2
  <2>3. CASE ~Throws(DataLines(buffer))
    <3>1. buffer \in Seq(Lines) /\ body \in Seq(Lines) /\ said \in Seq(Text)
          /\ content \in Seq(Text) /\ finished \in BOOLEAN
      BY DEF CallOK
    <3>2. DataLines(buffer) \in Seq(Lines) /\ TextOf(DataLines(buffer)) = TextOf(buffer)
      BY <3>1, DataHasText
    <3>3. /\ content' \in Seq(Text) /\ content' = yielded' /\ Within(content')
          /\ finished' \in BOOLEAN
          /\ Within(content \o TextOf(buffer)) => content' = content \o TextOf(buffer)
      BY <2>1, <2>3, <3>1, <3>2, EventAdds
    <3>4. /\ buffer' = buffer /\ body' = body /\ said' = said /\ context' = context /\ api' = api
          /\ phase' \in {"complete", "error"}
      BY <2>1, <2>3 DEF request
    <3>5. buffer \o body = buffer
      BY <2>1, <3>1
    <3>6. SaidSoFar'
      BY <2>1, <3>3, <3>4, <3>5 DEF SaidSoFar, Within
    <3>7. CallOK' /\ SourcesFit'
      BY <3>1, <3>3, <3>4 DEF CallOK, SourcesFit
    <3>8. Within(content)'
      BY <3>3 DEF Within
    <3>. QED
      BY <3>3, <3>6, <3>7, <3>8
  <2>. QED
    BY <2>2, <2>3
<1>8. CASE UNCHANGED suggestionVars
  BY <1>8 DEF suggestionVars, CallOK, SourcesFit, SaidSoFar, Within
<1>. QED
  BY <1>2, <1>3, <1>4, <1>5, <1>6, <1>7, <1>8 DEF SuggestionStreamNext

\* The invariant says what the runs check.
LEMMA SuggestionImplies ==
  SuggestionInv => SuggestionStreamTypeOK /\ TokensAddUp /\ SourcesFit
<1>. SUFFICES ASSUME SuggestionInv PROVE SuggestionStreamTypeOK /\ TokensAddUp /\ SourcesFit
  OBVIOUS
<1>1. \A text \in Seq(Text) : \A i \in DOMAIN text : text[i] \in Text
  OBVIOUS
<1>2. SuggestionStreamTypeOK
  BY <1>1 DEF SuggestionInv, CallOK, SuggestionStreamTypeOK
<1>3. TokensAddUp
  BY DEF SuggestionInv, SaidSoFar, TokensAddUp, Within
<1>. QED
  BY <1>2, <1>3 DEF SuggestionInv

\* It holds in every state of a call.
LEMMA SuggestionInvariant == SuggestionStreamSpec => []SuggestionInv
<1>1. SuggestionInv /\ [SuggestionStreamNext]_suggestionVars => SuggestionInv'
  BY SuggestionStep
<1>. QED
  BY <1>1, SuggestionStart, PTL DEF SuggestionStreamSpec

\* The model of a suggestion stays in its ranges: what is read, kept and yielded is text.
THEOREM SuggestionStreamTypeCorrect == SuggestionStreamSpec => []SuggestionStreamTypeOK
BY SuggestionInvariant, SuggestionImplies, PTL

\* collectSse and the token callbacks, for every body, however it is cut into pieces, and for
\* all budgets: the tokens that were yielded are the answer, no answer exceeds the token or the
\* character budget, and an answer that is complete has all that was said if that fits.
THEOREM TokensAddUpHolds == SuggestionStreamSpec => []TokensAddUp
BY SuggestionInvariant, SuggestionImplies, PTL

\* assembleUntrustedSourceContext, for all sources and for every budget: what the model is
\* shown of the documents, with the headers, the empty lines and the warning, fits, and every
\* source that is cited has text.
THEOREM SourcesFitHolds == SuggestionStreamSpec => []SourcesFit
BY SuggestionInvariant, SuggestionImplies, PTL

-----------------------------------------------------------------------------
(* Documents *)

\* No chunk is empty or, unless it is one word, too long.
ChunkWords ==
  {c \in Seq(Vocabulary) : c # <<>> /\ (TextLength(c) <= MaxChunkChars \/ Len(c) = 1)}

\* A document that is stored, or about to be: its tags are normalised.
Document ==
  [owner : Readers \cup {"nobody"}, tags : {StoredTags(tags) : tags \in TagLists \cup {{}}},
   chunks : Seq(ChunkWords), embedded : BOOLEAN]

\* The widths of a word and of a chunk.
LEMMA WidthNat == WordLength + 1 \in Nat /\ MaxChunkChars \in Nat /\ MaxChunkChars > 0
BY KnowledgeAssumption

\* The length of an empty text is -1: it has no word that needs no space.
LEMMA TextLengthInt ==
  ASSUME NEW S, NEW words \in Seq(S)
  PROVE  TextLength(words) \in Int
<1>1. \A a, b \in Nat : a * b - 1 \in Int
  OBVIOUS
<1>. QED
  BY <1>1, WidthNat DEF TextLength

\* Two texts one after the other, with a space between them.
LEMMA TextLengthConcat ==
  ASSUME NEW S, NEW s \in Seq(S), NEW t \in Seq(S)
  PROVE  TextLength(s \o t) = TextLength(s) + TextLength(t) + 1
<1>1. \A a, b, c \in Nat : (a + b) * c - 1 = (a * c - 1) + (b * c - 1) + 1
  OBVIOUS
<1>2. Len(s) \in Nat /\ Len(t) \in Nat /\ Len(s \o t) = Len(s) + Len(t)
  OBVIOUS
<1>. QED
  BY <1>1, <1>2, WidthNat DEF TextLength

-----------------------------------------------------------------------------
(* Chunks *)

\* What splitLongParagraph keeps: complete chunks, and one that is not too long.
SplitAcc ==
  {acc \in [chunks : Seq(ChunkWords), current : Seq(Vocabulary)] :
     acc.current # <<>> => acc.current \in ChunkWords}

\* A word more: a chunk that is complete is not empty, and not too long.
LEMMA AddWordOK ==
  ASSUME NEW acc \in SplitAcc, NEW word \in Vocabulary
  PROVE  AddWord(acc, word) \in SplitAcc /\ AddWord(acc, word).current # <<>>
<1>. DEFINE more == Append(acc.current, word)
<1>1. /\ acc.chunks \in Seq(ChunkWords) /\ acc.current \in Seq(Vocabulary)
      /\ acc.current # <<>> => acc.current \in ChunkWords
      /\ acc = [chunks |-> acc.chunks, current |-> acc.current]
  BY DEF SplitAcc
<1>2. more \in Seq(Vocabulary) /\ more # <<>> /\ <<word>> \in ChunkWords /\ <<word>> # <<>>
  <2>1. more \in Seq(Vocabulary) /\ more # <<>>
    BY <1>1, AppendProperties
  <2>2. <<word>> \in Seq(Vocabulary) /\ Len(<<word>>) = 1 /\ <<word>> # <<>>
    OBVIOUS
  <2>. HIDE DEF more
  <2>. QED
    BY <2>1, <2>2 DEF ChunkWords
<1>3. CASE TextLength(more) <= MaxChunkChars
  <2>1. AddWord(acc, word) = [acc EXCEPT !.current = more]
    BY <1>3 DEF AddWord
  <2>2. AddWord(acc, word) = [chunks |-> acc.chunks, current |-> more]
    BY <1>1, <2>1
  <2>3. more \in ChunkWords
    BY <1>2, <1>3 DEF ChunkWords
  <2>. HIDE DEF more
  <2>. QED
    BY <1>1, <1>2, <2>2, <2>3 DEF SplitAcc
<1>4. CASE ~(TextLength(more) <= MaxChunkChars)
  <2>. DEFINE chunks == IF acc.current = <<>> THEN acc.chunks ELSE Append(acc.chunks, acc.current)
  <2>1. AddWord(acc, word) = [chunks |-> chunks, current |-> <<word>>]
    BY <1>4 DEF AddWord
  <2>2. chunks \in Seq(ChunkWords)
    BY <1>1
  <2>3. <<word>> \in Seq(Vocabulary)
    OBVIOUS
  <2>. HIDE DEF chunks
  <2>. QED
    BY <1>2, <2>1, <2>2, <2>3 DEF SplitAcc
<1>. QED
  BY <1>3, <1>4

\* The chunks of a long paragraph.
LEMMA SplitOK ==
  ASSUME NEW words \in Seq(Vocabulary), words # <<>>
  PROVE  SplitLongParagraph(words) \in Seq(ChunkWords)
<1>. DEFINE base == [chunks |-> <<>>, current |-> <<>>]
            g == [k \in 1..Len(words) |-> [acc \in SplitAcc |-> AddWord(acc, words[k])]]
            F == CHOOSE split : split = [n \in 0..Len(words) |->
                                  IF n = 0 THEN base ELSE AddWord(split[n - 1], words[n])]
<1>1. base \in SplitAcc /\ Len(words) \in Nat /\ \A k \in 1..Len(words) : words[k] \in Vocabulary
  BY DEF SplitAcc
<1>2. g \in [1..Len(words) -> [SplitAcc -> SplitAcc]]
  BY <1>1, AddWordOK
<1>3. PICK f : Unfolds(f, SplitAcc, base, g, Len(words))
  <2>. HIDE DEF base, g
  <2>. QED
    BY <1>1, <1>2, Recursion
<1>4. f = [n \in 0..Len(words) |-> IF n = 0 THEN base ELSE AddWord(f[n - 1], words[n])]
  <2>1. f = [n \in 0..Len(words) |-> f[n]] /\ f[0] = base
    BY <1>3 DEF Unfolds
  <2>2. ASSUME NEW n \in 0..Len(words), n # 0 PROVE f[n] = AddWord(f[n - 1], words[n])
    <3>1. n \in 1..Len(words) /\ n - 1 \in 0..Len(words)
      BY <2>2
    <3>. HIDE DEF base
    <3>2. f[n - 1] \in SplitAcc /\ f[n] = g[n][f[n - 1]]
      BY <1>3, <3>1 DEF Unfolds
    <3>. QED
      BY <3>1, <3>2
  <2>. HIDE DEF base
  <2>. QED
    BY <2>1, <2>2
<1>5. F = [n \in 0..Len(words) |-> IF n = 0 THEN base ELSE AddWord(F[n - 1], words[n])]
  <2>. HIDE DEF base
  <2>. QED
    BY <1>4
<1>6. SplitLongParagraph(words) = Append(F[Len(words)].chunks, F[Len(words)].current)
  BY DEF SplitLongParagraph
<1>. DEFINE P == {k \in 0..Len(words) : F[k] \in SplitAcc}
<1>. HIDE DEF F, base
<1>7. 0 \in P
  BY <1>1, <1>5
<1>8. ASSUME NEW k \in 1..Len(words), F[k - 1] \in SplitAcc
      PROVE  F[k] \in SplitAcc /\ F[k].current # <<>>
  <2>1. k \in 0..Len(words) /\ k # 0
    BY <1>8
  <2>2. F[k] = AddWord(F[k - 1], words[k])
    BY <1>5, <2>1
  <2>. QED
    BY <1>1, <1>8, <2>2, AddWordOK
<1>9. \A k \in 1..Len(words) : k - 1 \in P => k \in P
  BY <1>8
<1>10. \A k \in 0..Len(words) : F[k] \in SplitAcc
  <2>1. \A k \in 0..Len(words) : k \in P
    <3>. HIDE DEF P
    <3>. QED
      BY <1>1, <1>7, <1>9, Induction
  <2>. QED
    BY <2>1
<1>11. Len(words) \in 1..Len(words) /\ Len(words) - 1 \in 0..Len(words)
  OBVIOUS
<1>12. F[Len(words)] \in SplitAcc /\ F[Len(words)].current # <<>>
  BY <1>8, <1>10, <1>11
<1>13. F[Len(words)].chunks \in Seq(ChunkWords) /\ F[Len(words)].current \in ChunkWords
  BY <1>12 DEF SplitAcc
<1>. QED
  BY <1>6, <1>13

\* What chunkDocumentText keeps: the length it counts is not less than that of its chunk.
ChunkAcc ==
  {acc \in [chunks : Seq(ChunkWords), current : Seq(Vocabulary), length : Int] :
     acc.current # <<>> => TextLength(acc.current) <= acc.length /\ acc.length <= MaxChunkChars}

\* The chunk that is kept becomes one more, if there is one.
LEMMA FlushedOK ==
  ASSUME NEW acc \in ChunkAcc
  PROVE  Flushed(acc) \in Seq(ChunkWords)
<1>1. /\ acc.chunks \in Seq(ChunkWords) /\ acc.current \in Seq(Vocabulary) /\ acc.length \in Int
      /\ acc.current # <<>> => TextLength(acc.current) <= acc.length /\ acc.length <= MaxChunkChars
  BY DEF ChunkAcc
<1>2. acc.current # <<>> => acc.current \in ChunkWords
  <2>1. TextLength(acc.current) \in Int /\ MaxChunkChars \in Nat
    BY <1>1, TextLengthInt, WidthNat
  <2>2. acc.current # <<>> => TextLength(acc.current) <= MaxChunkChars
    BY <1>1, <2>1
  <2>. QED
    BY <1>1, <2>2 DEF ChunkWords
<1>. QED
  BY <1>1, <1>2 DEF Flushed

\* A paragraph more: the length that is counted is at least that of the chunk.
LEMMA AddParagraphOK ==
  ASSUME NEW acc \in ChunkAcc, NEW words \in Seq(Vocabulary), words # <<>>
  PROVE  AddParagraph(acc, words) \in ChunkAcc
<1>. DEFINE length == IF acc.current = <<>> THEN TextLength(words)
                      ELSE acc.length + 2 + TextLength(words)
<1>1. /\ acc.chunks \in Seq(ChunkWords) /\ acc.current \in Seq(Vocabulary) /\ acc.length \in Int
      /\ acc.current # <<>> => TextLength(acc.current) <= acc.length /\ acc.length <= MaxChunkChars
      /\ acc = [chunks |-> acc.chunks, current |-> acc.current, length |-> acc.length]
  BY DEF ChunkAcc
<1>2. TextLength(words) \in Int /\ TextLength(acc.current) \in Int /\ MaxChunkChars \in Nat
  BY <1>1, TextLengthInt, WidthNat
<1>3. Flushed(acc) \in Seq(ChunkWords)
  BY FlushedOK
<1>4. CASE TextLength(words) > MaxChunkChars
  <2>1. AddParagraph(acc, words)
          = [chunks |-> Flushed(acc) \o SplitLongParagraph(words), current |-> <<>>, length |-> 0]
    BY <1>4 DEF AddParagraph
  <2>2. Flushed(acc) \o SplitLongParagraph(words) \in Seq(ChunkWords)
    BY <1>3, SplitOK
  <2>. QED
    BY <2>1, <2>2 DEF ChunkAcc
<1>5. CASE ~(TextLength(words) > MaxChunkChars) /\ length <= MaxChunkChars
  <2>1. AddParagraph(acc, words) = [acc EXCEPT !.current = @ \o words, !.length = length]
    BY <1>5 DEF AddParagraph
  <2>2. AddParagraph(acc, words)
          = [chunks |-> acc.chunks, current |-> acc.current \o words, length |-> length]
    BY <1>1, <2>1
  <2>3. acc.current \o words \in Seq(Vocabulary)
    BY <1>1
  <2>4. length \in Int
    BY <1>1, <1>2
  <2>5. TextLength(acc.current \o words) <= length
    <3>1. CASE acc.current = <<>>
      <4>1. acc.current \o words = words
        BY <3>1
      <4>. QED
        BY <1>2, <3>1, <4>1
    <3>2. CASE acc.current # <<>>
      <4>1. TextLength(acc.current \o words) = TextLength(acc.current) + TextLength(words) + 1
        BY <1>1, TextLengthConcat
      <4>. QED
        BY <1>1, <1>2, <3>2, <4>1
    <3>. QED
      BY <3>1, <3>2
  <2>. HIDE DEF length
  <2>6. length <= MaxChunkChars
    BY <1>5
  <2>. DEFINE current == acc.current \o words
  <2>. HIDE DEF current
  <2>7. AddParagraph(acc, words) = [chunks |-> acc.chunks, current |-> current, length |-> length]
    BY <2>2 DEF current
  <2>8. current \in Seq(Vocabulary) /\ TextLength(current) <= length
    BY <2>3, <2>5 DEF current
  <2>. QED
    BY <1>1, <2>4, <2>6, <2>7, <2>8 DEF ChunkAcc
<1>6. CASE ~(TextLength(words) > MaxChunkChars) /\ ~(length <= MaxChunkChars)
  <2>1. AddParagraph(acc, words)
          = [chunks |-> Flushed(acc), current |-> words, length |-> TextLength(words)]
    BY <1>6 DEF AddParagraph
  <2>2. TextLength(words) <= TextLength(words) /\ TextLength(words) <= MaxChunkChars
    BY <1>2, <1>6
  <2>. QED
    BY <1>2, <1>3, <2>1, <2>2 DEF ChunkAcc
<1>. QED
  BY <1>4, <1>5, <1>6

\* The chunks of a document.
LEMMA ChunksOK ==
  ASSUME NEW text \in Texts
  PROVE  ChunkDocumentText(text) \in Seq(ChunkWords)
<1>. DEFINE base == [chunks |-> <<>>, current |-> <<>>, length |-> 0]
            g == [k \in 1..Len(text) |-> [acc \in ChunkAcc |-> AddParagraph(acc, text[k])]]
            F == CHOOSE chunked : chunked = [n \in 0..Len(text) |->
                                    IF n = 0 THEN base ELSE AddParagraph(chunked[n - 1], text[n])]
<1>1. /\ base \in ChunkAcc
      /\ Len(text) \in Nat
      /\ \A k \in 1..Len(text) : text[k] \in Seq(Vocabulary) /\ text[k] # <<>>
  <2>1. text \in Seq(Seq(Vocabulary) \ {<<>>})
    BY KnowledgeAssumption
  <2>2. base \in ChunkAcc
    BY DEF ChunkAcc
  <2>. QED
    BY <2>1, <2>2
<1>2. g \in [1..Len(text) -> [ChunkAcc -> ChunkAcc]]
  BY <1>1, AddParagraphOK
<1>3. PICK f : Unfolds(f, ChunkAcc, base, g, Len(text))
  <2>. HIDE DEF base, g
  <2>. QED
    BY <1>1, <1>2, Recursion
<1>4. f = [n \in 0..Len(text) |-> IF n = 0 THEN base ELSE AddParagraph(f[n - 1], text[n])]
  <2>1. f = [n \in 0..Len(text) |-> f[n]] /\ f[0] = base
    BY <1>3 DEF Unfolds
  <2>2. ASSUME NEW n \in 0..Len(text), n # 0 PROVE f[n] = AddParagraph(f[n - 1], text[n])
    <3>1. n \in 1..Len(text) /\ n - 1 \in 0..Len(text)
      BY <2>2
    <3>. HIDE DEF base
    <3>2. f[n - 1] \in ChunkAcc /\ f[n] = g[n][f[n - 1]]
      BY <1>3, <3>1 DEF Unfolds
    <3>. QED
      BY <3>1, <3>2
  <2>. HIDE DEF base
  <2>. QED
    BY <2>1, <2>2
<1>5. F = [n \in 0..Len(text) |-> IF n = 0 THEN base ELSE AddParagraph(F[n - 1], text[n])]
  <2>. HIDE DEF base
  <2>. QED
    BY <1>4
<1>6. ChunkDocumentText(text) = Flushed(F[Len(text)])
  BY DEF ChunkDocumentText
<1>. DEFINE P == {k \in 0..Len(text) : F[k] \in ChunkAcc}
<1>. HIDE DEF F, base
<1>7. 0 \in P
  BY <1>1, <1>5
<1>8. ASSUME NEW k \in 1..Len(text), k - 1 \in P PROVE k \in P
  <2>1. k \in 0..Len(text) /\ k # 0 /\ F[k - 1] \in ChunkAcc
    BY <1>8
  <2>2. F[k] = AddParagraph(F[k - 1], text[k])
    BY <1>5, <2>1
  <2>. QED
    BY <1>1, <2>1, <2>2, AddParagraphOK
<1>9. Len(text) \in P
  <2>. HIDE DEF P
  <2>. QED
    BY <1>1, <1>7, <1>8, Induction
<1>10. F[Len(text)] \in ChunkAcc
  BY <1>9
<1>. QED
  BY <1>6, <1>10, FlushedOK

-----------------------------------------------------------------------------
(* What a search sees of a library *)

\* A search in any of its steps.
SearchRecord ==
  [step : {"idle", "embed", "keyword", "answered"}, reader : Readers \cup {"nobody"},
   terms : Queries \cup {{}}, allowed : AllowedLists \cup {{}}, vector : BOOLEAN, seen : Nat,
   keyword : SUBSET (Nat \X Nat), results : SUBSET (Nat \X Nat), least : Nat]

\* The rows, words, scores and selected rows, of a library that need not be the current one.
RowsIn(lib, n) == UNION {{<<d, i>> : i \in DOMAIN lib[d].chunks} : d \in 1..n}

WordsIn(lib, row) == lib[row[1]].chunks[row[2]]

ScoreIn(lib, row, terms) ==
  2 * Cardinality({n \in DOMAIN WordsIn(lib, row) : WordsIn(lib, row)[n] \in terms})

\* What the list of documents has, and what the statements select.
ListIn(lib, u) == {d \in DOMAIN lib : CanAccess(u, lib[d])}

SelectedIn(lib, s, row) == row[1] \in s.allowed /\ AccessPredicate(s.reader, lib[row[1]])

\* What the statement with the terms of a search finds.
KeywordsIn(lib, s) ==
  {r \in RowsIn(lib, s.seen) : ScoreIn(lib, r, s.terms) > 0 /\ SelectedIn(lib, s, r)}

\* What is answered is in the detail; what is in the detail is found.
ShownIn(lib, s) ==
  \A r \in s.results :
    /\ r[1] \in s.allowed \cap ListIn(lib, s.reader)
    /\ r[2] \in DOMAIN lib[r[1]].chunks

FoundIn(lib, s) ==
  \A r \in RowsIn(lib, s.seen) :
    /\ r[1] \in s.allowed \cap ListIn(lib, s.reader)
    /\ ScoreIn(lib, r, s.terms) > 0
    => \/ r \in s.results
       \/ Cardinality(s.results) = TopK /\ ScoreIn(lib, r, s.terms) <= s.least

\* The tags that are stored are what is left of them when they are read.
LEMMA StoredTagsStay ==
  ASSUME NEW tags
  PROVE  NormalizePermissionTags(StoredTags(tags)) = StoredTags(tags)
<1>. DEFINE N(x) == [tag |-> x.tag, exact |-> TRUE]
            left == {u \in tags : u.tag # "blank"}
            written == {N(t) : t \in left}
<1>1. StoredTags(tags) = written
  BY DEF StoredTags, NormalizePermissionTags
<1>2. \A t : N(t).tag = t.tag /\ N(N(t)) = N(t)
  OBVIOUS
<1>3. \A t \in left : t.tag # "blank"
  OBVIOUS
<1>4. {u \in written : u.tag # "blank"} = written
  <2>. HIDE DEF left, N
  <2>. QED
    BY <1>2, <1>3
<1>5. {N(t) : t \in written} = written
  <2>. HIDE DEF left, N
  <2>. QED
    BY <1>2
<1>6. NormalizePermissionTags(written) = {N(t) : t \in {u \in written : u.tag # "blank"}}
  BY DEF NormalizePermissionTags
<1>. HIDE DEF written, N
<1>. QED
  BY <1>1, <1>4, <1>5, <1>6

\* The predicate of the statements is the check of the service.
LEMMA PredicateIsCheck ==
  ASSUME NEW document \in Document, NEW u
  PROVE  AccessPredicate(u, document) <=> CanAccess(u, document)
<1>1. PICK tags \in TagLists \cup {{}} : document.tags = StoredTags(tags)
  BY DEF Document
<1>2. NormalizePermissionTags(document.tags) = document.tags
  BY <1>1, StoredTagsStay
<1>. QED
  BY <1>2 DEF AccessPredicate, CanAccess

\* A document of a library, and its chunks.
LEMMA DocumentAt ==
  ASSUME NEW lib \in Seq(Document), NEW d \in 1..Len(lib)
  PROVE  /\ lib[d] \in Document /\ lib[d].chunks \in Seq(ChunkWords)
         /\ DOMAIN lib[d].chunks = 1..Len(lib[d].chunks) /\ Len(lib[d].chunks) \in Nat
<1>1. lib[d] \in Document
  OBVIOUS
<1>2. lib[d].chunks \in Seq(ChunkWords)
  BY <1>1 DEF Document
<1>. QED
  BY <1>1, <1>2

\* A row is a chunk of one of the documents.
LEMMA RowIn ==
  ASSUME NEW lib, NEW n, NEW r
  PROVE  r \in RowsIn(lib, n) <=> \E d \in 1..n : \E i \in DOMAIN lib[d].chunks : r = <<d, i>>
BY DEF RowsIn

\* It is a pair of the document and of the place of the chunk in it.
LEMMA RowsAre ==
  ASSUME NEW lib \in Seq(Document), NEW n \in 0..Len(lib)
  PROVE  /\ \A r \in RowsIn(lib, n) :
              /\ r[1] \in 1..n /\ r[2] \in DOMAIN lib[r[1]].chunks /\ r = <<r[1], r[2]>>
              /\ r \in Nat \X Nat
         /\ \A d \in 1..n : \A i \in DOMAIN lib[d].chunks : <<d, i>> \in RowsIn(lib, n)
<1>1. ASSUME NEW r \in RowsIn(lib, n)
      PROVE  /\ r[1] \in 1..n /\ r[2] \in DOMAIN lib[r[1]].chunks /\ r = <<r[1], r[2]>>
             /\ r \in Nat \X Nat
  <2>1. PICK d \in 1..n : \E i \in DOMAIN lib[d].chunks : r = <<d, i>>
    BY DEF RowsIn
  <2>2. PICK i \in DOMAIN lib[d].chunks : r = <<d, i>>
    BY <2>1
  <2>3. d \in 1..Len(lib)
    OBVIOUS
  <2>4. i \in Nat /\ d \in Nat
    BY <2>3, DocumentAt
  <2>. QED
    BY <2>2, <2>4
<1>2. ASSUME NEW d \in 1..n, NEW i \in DOMAIN lib[d].chunks PROVE <<d, i>> \in RowsIn(lib, n)
  BY DEF RowsIn
<1>. QED
  BY <1>1, <1>2

\* A score is a natural number.
LEMMA ScoreNat ==
  ASSUME NEW lib \in Seq(Document), NEW r \in RowsIn(lib, Len(lib)), NEW terms
  PROVE  ScoreIn(lib, r, terms) \in Nat
<1>. DEFINE words == WordsIn(lib, r)
            hits == {n \in DOMAIN words : words[n] \in terms}
<1>1. r[1] \in 1..Len(lib) /\ r[2] \in DOMAIN lib[r[1]].chunks
  <2>1. Len(lib) \in 0..Len(lib)
    OBVIOUS
  <2>. QED
    BY <2>1, RowsAre
<1>2. lib[r[1]].chunks \in Seq(ChunkWords)
  BY <1>1, DocumentAt
<1>3. words \in Seq(Vocabulary)
  BY <1>1, <1>2 DEF WordsIn, ChunkWords
<1>4. DOMAIN words = 1..Len(words) /\ Len(words) \in Nat
  BY <1>3
<1>5. IsFiniteSet(DOMAIN words)
  BY <1>4, FS_Interval
<1>. HIDE DEF words
<1>6. Cardinality(hits) \in Nat
  BY <1>5, FS_Subset, FS_CardinalityType
<1>7. 2 * Cardinality(hits) \in Nat
  <2>. HIDE DEF hits
  <2>. QED
    BY <1>6
<1>. QED
  BY <1>7 DEF ScoreIn, words

\* A library has finitely many rows.
LEMMA RowsFinite ==
  ASSUME NEW lib \in Seq(Document)
  PROVE  IsFiniteSet(RowsIn(lib, Len(lib)))
<1>. DEFINE P == {n \in 0..Len(lib) : IsFiniteSet(RowsIn(lib, n))}
<1>1. 0 \in P
  <2>1. RowsIn(lib, 0) = {}
    BY DEF RowsIn
  <2>. QED
    BY <2>1, FS_EmptySet
<1>2. ASSUME NEW n \in 1..Len(lib), n - 1 \in P PROVE n \in P
  <2>. DEFINE chunks == lib[n].chunks
              own == {<<n, i>> : i \in DOMAIN chunks}
              f == [i \in DOMAIN chunks |-> <<n, i>>]
  <2>1. DOMAIN chunks = 1..Len(chunks) /\ Len(chunks) \in Nat
    BY DocumentAt
  <2>2. IsFiniteSet(DOMAIN chunks)
    <3>. HIDE DEF chunks
    <3>1. IsFiniteSet(1..Len(chunks))
      BY <2>1, FS_Interval
    <3>. QED
      BY <2>1, <3>1
  <2>3. f \in Surjection(DOMAIN chunks, own)
    <3>. HIDE DEF chunks
    <3>. QED
      BY DEF Surjection
  <2>4. IsFiniteSet(own)
    <3>. HIDE DEF own, f, chunks
    <3>. QED
      BY <2>2, <2>3, FS_Surjection
  <2>5. RowsIn(lib, n) = RowsIn(lib, n - 1) \cup own
    <3>1. 1..n = (1..n - 1) \cup {n}
      OBVIOUS
    <3>2. \A r : r \in own <=> \E i \in DOMAIN lib[n].chunks : r = <<n, i>>
      OBVIOUS
    <3>3. \A r : r \in RowsIn(lib, n) <=> r \in RowsIn(lib, n - 1) \/ r \in own
      <4>. HIDE DEF own
      <4>. QED
        BY <3>1, <3>2, RowIn
    <3>. HIDE DEF own
    <3>. QED
      BY <3>3
  <2>6. IsFiniteSet(RowsIn(lib, n - 1))
    BY <1>2
  <2>. HIDE DEF own
  <2>. DEFINE before == RowsIn(lib, n - 1)
  <2>. HIDE DEF before
  <2>7. IsFiniteSet(before)
    BY <2>6 DEF before
  <2>8. IsFiniteSet(before \cup own)
    BY <2>4, <2>7, FS_Union
  <2>9. IsFiniteSet(RowsIn(lib, n)) /\ n \in 0..Len(lib)
    BY <2>5, <2>8 DEF before
  <2>. QED
    BY <2>9
<1>3. Len(lib) \in P
  <2>1. Len(lib) \in Nat
    OBVIOUS
  <2>. HIDE DEF P
  <2>. QED
    BY <1>1, <1>2, <2>1, Induction
<1>. QED
  BY <1>3

\* The rows of the first documents are the same when another is added, with what is in them.
LEMMA RowsStay ==
  ASSUME NEW lib \in Seq(Document), NEW document \in Document, NEW n \in 0..Len(lib)
  PROVE  /\ RowsIn(Append(lib, document), n) = RowsIn(lib, n)
         /\ \A r \in RowsIn(lib, n) : \A terms :
              ScoreIn(Append(lib, document), r, terms) = ScoreIn(lib, r, terms)
         /\ \A d \in 1..n : Append(lib, document)[d] = lib[d]
<1>. DEFINE more == Append(lib, document)
<1>1. \A d \in 1..n : more[d] = lib[d]
  OBVIOUS
<1>. HIDE DEF more
<1>2. RowsIn(more, n) = RowsIn(lib, n)
  <2>1. {{<<d, i>> : i \in DOMAIN more[d].chunks} : d \in 1..n}
          = {{<<d, i>> : i \in DOMAIN lib[d].chunks} : d \in 1..n}
    BY <1>1
  <2>. QED
    BY <2>1 DEF RowsIn
<1>3. ASSUME NEW r \in RowsIn(lib, n), NEW terms
      PROVE  ScoreIn(more, r, terms) = ScoreIn(lib, r, terms)
  <2>1. r[1] \in 1..n
    BY RowsAre
  <2>2. WordsIn(more, r) = WordsIn(lib, r)
    BY <1>1, <2>1 DEF WordsIn
  <2>. QED
    BY <2>2 DEF ScoreIn
<1>. QED
  BY <1>1, <1>2, <1>3 DEF more

\* Another document changes neither what a search has selected nor what it has answered.
LEMMA LibraryGrows ==
  ASSUME NEW lib \in Seq(Document), NEW document \in Document, NEW s \in SearchRecord,
         s.seen <= Len(lib)
  PROVE  /\ KeywordsIn(Append(lib, document), s) = KeywordsIn(lib, s)
         /\ ShownIn(lib, s) => ShownIn(Append(lib, document), s)
         /\ FoundIn(lib, s) => FoundIn(Append(lib, document), s)
<1>. DEFINE more == Append(lib, document)
<1>1. s.seen \in 0..Len(lib)
  BY DEF SearchRecord
<1>2. /\ RowsIn(more, s.seen) = RowsIn(lib, s.seen)
      /\ \A r \in RowsIn(lib, s.seen) : \A terms :
           ScoreIn(more, r, terms) = ScoreIn(lib, r, terms)
      /\ \A d \in 1..s.seen : more[d] = lib[d]
  BY <1>1, RowsStay
<1>3. DOMAIN lib = 1..Len(lib) /\ \A d \in DOMAIN lib : d \in DOMAIN more /\ more[d] = lib[d]
  OBVIOUS
<1>4. \A r \in RowsIn(lib, s.seen) : r[1] \in 1..s.seen /\ r[1] \in DOMAIN lib
  <2>1. \A d \in 1..s.seen : d \in DOMAIN lib
    BY <1>1, <1>3
  <2>. QED
    BY <1>1, <2>1, RowsAre
<1>5. KeywordsIn(more, s) = KeywordsIn(lib, s)
  <2>1. \A r \in RowsIn(lib, s.seen) :
          (ScoreIn(more, r, s.terms) > 0 /\ SelectedIn(more, s, r))
            <=> (ScoreIn(lib, r, s.terms) > 0 /\ SelectedIn(lib, s, r))
    <3>. HIDE DEF more
    <3>. QED
      BY <1>2, <1>4 DEF SelectedIn
  <2>. HIDE DEF more
  <2>. QED
    BY <1>2, <2>1 DEF KeywordsIn
<1>. HIDE DEF more
<1>6. \A d \in DOMAIN lib : d \in ListIn(more, s.reader) <=> d \in ListIn(lib, s.reader)
  BY <1>3 DEF ListIn
<1>7. \A d \in ListIn(lib, s.reader) : d \in DOMAIN lib
  BY DEF ListIn
<1>8. ShownIn(lib, s) => ShownIn(more, s)
  BY <1>3, <1>6, <1>7 DEF ShownIn
<1>9. FoundIn(lib, s) => FoundIn(more, s)
  BY <1>2, <1>4, <1>6 DEF FoundIn
<1>. QED
  BY <1>5, <1>8, <1>9 DEF more

\* A number that is not above a smaller one.
LEMMA Between ==
  ASSUME NEW x \in Nat, NEW y \in Nat, NEW z \in Nat, x <= y, z >= y
  PROVE  x <= z
OBVIOUS

\* The answer t of the search s, from its parts.
IsAnswer(lib, s, near, readable, similarity, vectorRows, score, scored, results, least, t) ==
  /\ near = {r \in RowsIn(lib, Len(lib)) :
               s.vector /\ lib[r[1]].embedded /\ SelectedIn(lib, s, r)}
  /\ readable = {r \in RowsIn(lib, Len(lib)) : CanAccess(s.reader, lib[r[1]])}
  /\ similarity \in [near -> 0..1] /\ vectorRows \in SUBSET near
  /\ score = [r \in (s.keyword \cup vectorRows) \cap readable |->
                (IF r \in s.keyword THEN ScoreIn(lib, r, s.terms) ELSE 0)
                  + (IF r \in vectorRows THEN similarity[r] ELSE 0)]
  /\ scored = {r \in DOMAIN score : score[r] > 0}
  /\ results \in SUBSET scored /\ BestOf(scored, score, TopK, results)
  /\ least = IF results = {} THEN 0
             ELSE CHOOSE n \in {score[r] : r \in results} : \A r \in results : n <= score[r]
  /\ t = [s EXCEPT !.step = "answered", !.results = results, !.least = least,
                   !.keyword = {}, !.vector = FALSE]

\* What is answered is in the detail, and what is in the detail is found.
LEMMA AnswerAgrees ==
  ASSUME NEW lib \in Seq(Document), NEW s \in SearchRecord, s.seen <= Len(lib),
         s.keyword = KeywordsIn(lib, s),
         NEW near, NEW readable, NEW similarity, NEW vectorRows, NEW score, NEW scored,
         NEW results, NEW least, NEW t,
         IsAnswer(lib, s, near, readable, similarity, vectorRows, score, scored, results, least, t)
  PROVE  t \in SearchRecord /\ ShownIn(lib, t) /\ FoundIn(lib, t)
<1>. DEFINE all == RowsIn(lib, Len(lib))
<1>1. /\ DOMAIN lib = 1..Len(lib) /\ Len(lib) \in 0..Len(lib)
      /\ s.seen \in 0..Len(lib)
  BY DEF SearchRecord
<1>2. /\ DOMAIN score = (s.keyword \cup vectorRows) \cap readable
      /\ scored \in SUBSET readable /\ results \in SUBSET scored /\ results \in SUBSET DOMAIN score
      /\ readable \in SUBSET all /\ results \in SUBSET all
      /\ scored \in SUBSET all /\ DOMAIN score \in SUBSET all
  BY DEF IsAnswer
<1>3. \A r \in all : ScoreIn(lib, r, s.terms) \in Nat
  BY ScoreNat
<1>4. \A r \in vectorRows : similarity[r] \in Nat
  <2>1. similarity \in [near -> 0..1] /\ vectorRows \in SUBSET near
    BY DEF IsAnswer
  <2>2. \A r \in near : similarity[r] \in 0..1
    BY <2>1
  <2>. QED
    BY <2>1, <2>2
<1>5. ASSUME NEW r \in DOMAIN score
      PROVE  /\ score[r] \in Nat
             /\ r \in s.keyword => ScoreIn(lib, r, s.terms) <= score[r]
  <2>. DEFINE a == IF r \in s.keyword THEN ScoreIn(lib, r, s.terms) ELSE 0
              b == IF r \in vectorRows THEN similarity[r] ELSE 0
  <2>1. score[r] = a + b
    BY DEF IsAnswer
  <2>2. r \in all
    BY <1>2
  <2>3. a \in Nat /\ b \in Nat
    BY <1>3, <1>4, <2>2
  <2>4. r \in s.keyword => a = ScoreIn(lib, r, s.terms)
    OBVIOUS
  <2>. HIDE DEF a, b
  <2>. QED
    BY <2>1, <2>3, <2>4
<1>6. /\ t.step = "answered" /\ t.results = results /\ t.least = least /\ t.seen = s.seen
      /\ t.reader = s.reader /\ t.terms = s.terms /\ t.allowed = s.allowed
  BY DEF IsAnswer, SearchRecord
<1>7. IsFiniteSet(scored) /\ IsFiniteSet(results)
  <2>1. IsFiniteSet(all)
    BY RowsFinite
  <2>. HIDE DEF all
  <2>. QED
    BY <1>2, <2>1, FS_Subset
<1>8. /\ Cardinality(results) = IF Cardinality(scored) < TopK THEN Cardinality(scored) ELSE TopK
      /\ \A r \in results, q \in scored \ results : score[r] >= score[q]
  BY DEF IsAnswer, BestOf
<1>9. results # {} => \E r \in results : least = score[r]
  <2>1. SUFFICES ASSUME results # {} PROVE \E r \in results : least = score[r]
    OBVIOUS
  <2>. DEFINE T == {score[r] : r \in results}
  <2>2. T \in SUBSET Nat /\ T # {}
    <3>1. \A r \in results : score[r] \in Nat
      BY <1>2, <1>5
    <3>. QED
      BY <2>1, <3>1
  <2>3. least = CHOOSE n \in T : \A r \in results : n <= score[r]
    BY <2>1 DEF IsAnswer
  <2>4. \E n \in T : \A k \in T : n <= k
    <3>. HIDE DEF T
    <3>. QED
      BY <2>2, Least
  <2>5. \E n \in T : \A r \in results : n <= score[r]
    BY <2>4
  <2>6. least \in T
    <3>. HIDE DEF T
    <3>. QED
      BY <2>3, <2>5
  <2>. QED
    BY <2>6
<1>10. least \in Nat
  <2>1. CASE results = {}
    BY <2>1 DEF IsAnswer
  <2>2. CASE results # {}
    BY <1>2, <1>5, <1>9, <2>2
  <2>. QED
    BY <2>1, <2>2
<1>11. t \in SearchRecord
  <2>1. all \in SUBSET (Nat \X Nat)
    BY <1>1, RowsAre
  <2>2. results \in SUBSET (Nat \X Nat)
    <3>. HIDE DEF all
    <3>. QED
      BY <1>2, <2>1
  <2>3. t = [s EXCEPT !.step = "answered", !.results = results, !.least = least,
                      !.keyword = {}, !.vector = FALSE]
    BY DEF IsAnswer
  <2>. QED
    BY <1>10, <2>2, <2>3 DEF SearchRecord
<1>12. ShownIn(lib, t)
  <2>1. ASSUME NEW r \in results
        PROVE  /\ r[1] \in s.allowed \cap ListIn(lib, s.reader)
               /\ r[2] \in DOMAIN lib[r[1]].chunks
    <3>1. r \in all /\ r \in readable /\ r \in s.keyword \cup vectorRows
      BY <1>2
    <3>2. r[1] \in DOMAIN lib /\ r[2] \in DOMAIN lib[r[1]].chunks
      BY <1>1, <3>1, RowsAre
    <3>3. SelectedIn(lib, s, r)
      BY <3>1 DEF IsAnswer, KeywordsIn
    <3>4. CanAccess(s.reader, lib[r[1]])
      BY <3>1 DEF IsAnswer
    <3>. QED
      BY <3>2, <3>3, <3>4 DEF SelectedIn, ListIn
  <2>. QED
    BY <1>6, <2>1 DEF ShownIn
<1>13. FoundIn(lib, t)
  <2>1. SUFFICES ASSUME NEW r \in RowsIn(lib, s.seen),
                        r[1] \in s.allowed \cap ListIn(lib, s.reader),
                        ScoreIn(lib, r, s.terms) > 0, r \notin results
                 PROVE  Cardinality(results) = TopK /\ ScoreIn(lib, r, s.terms) <= least
    <3>1. ASSUME NEW r \in RowsIn(lib, t.seen),
                 r[1] \in t.allowed \cap ListIn(lib, t.reader) /\ ScoreIn(lib, r, t.terms) > 0
          PROVE  \/ r \in t.results
                 \/ Cardinality(t.results) = TopK /\ ScoreIn(lib, r, t.terms) <= t.least
      <4>. HIDE DEF all
      <4>1. /\ r \in RowsIn(lib, s.seen) /\ r[1] \in s.allowed \cap ListIn(lib, s.reader)
            /\ ScoreIn(lib, r, s.terms) > 0
        BY <1>6, <3>1
      <4>2. \/ r \in results
            \/ Cardinality(results) = TopK /\ ScoreIn(lib, r, s.terms) <= least
        BY <2>1, <4>1
      <4>. QED
        BY <1>6, <4>2
    <3>. QED
      BY <3>1 DEF FoundIn
  <2>2. r \in all /\ r[1] \in DOMAIN lib
    <3>1. r[1] \in 1..s.seen /\ r[2] \in DOMAIN lib[r[1]].chunks /\ r = <<r[1], r[2]>>
      BY <1>1, RowsAre
    <3>2. r[1] \in 1..Len(lib)
      <4>1. \A d \in 1..s.seen : d \in 1..Len(lib)
        BY <1>1
      <4>. QED
        BY <3>1, <4>1
    <3>3. <<r[1], r[2]>> \in all
      BY <1>1, <3>1, <3>2, RowsAre
    <3>. QED
      BY <1>1, <3>1, <3>2, <3>3
  <2>3. CanAccess(s.reader, lib[r[1]])
    BY <2>1 DEF ListIn
  <2>4. r \in s.keyword
    <3>1. lib[r[1]] \in Document
      BY <2>2
    <3>2. SelectedIn(lib, s, r)
      BY <2>1, <2>3, <3>1, PredicateIsCheck DEF SelectedIn
    <3>. QED
      BY <2>1, <3>2 DEF KeywordsIn
  <2>5. r \in DOMAIN score
    BY <1>2, <2>2, <2>3, <2>4 DEF IsAnswer
  <2>6. ScoreIn(lib, r, s.terms) \in Nat /\ score[r] \in Nat /\ ScoreIn(lib, r, s.terms) <= score[r]
    BY <1>3, <1>5, <2>2, <2>4, <2>5
  <2>7. r \in scored
    <3>. DEFINE x == ScoreIn(lib, r, s.terms)
                y == score[r]
    <3>1. x \in Nat /\ y \in Nat /\ x <= y /\ x > 0
      BY <2>1, <2>6
    <3>2. scored = {q \in DOMAIN score : score[q] > 0}
      BY DEF IsAnswer
    <3>. HIDE DEF x, y
    <3>3. y > 0
      BY <3>1
    <3>. QED
      BY <2>5, <3>2, <3>3 DEF y
  <2>8. Cardinality(results) = TopK
    <3>1. results # scored
      BY <2>1, <2>7
    <3>2. Cardinality(results) # Cardinality(scored)
      BY <1>2, <1>7, <3>1, FS_Subset
    <3>. QED
      BY <1>8, <3>2
  <2>9. results # {}
    <3>1. Cardinality(results) # 0
      BY <2>8, KnowledgeAssumption
    <3>. QED
      BY <3>1, FS_EmptySet
  <2>10. PICK q \in results : least = score[q]
    BY <1>9, <2>9
  <2>11. score[q] >= score[r] /\ score[q] \in Nat
    BY <1>2, <1>5, <1>8, <2>1, <2>7
  <2>12. ScoreIn(lib, r, s.terms) <= least
    <3>. DEFINE x == ScoreIn(lib, r, s.terms)
                y == score[r]
                z == score[q]
    <3>1. x \in Nat /\ y \in Nat /\ z \in Nat /\ x <= y /\ z >= y /\ least = z
      BY <2>6, <2>10, <2>11
    <3>. HIDE DEF x, y, z
    <3>2. x <= z
      BY <3>1, Between
    <3>. QED
      BY <3>1, <3>2 DEF x
  <2>. QED
    BY <2>8, <2>12
<1>. QED
  BY <1>11, <1>12, <1>13

-----------------------------------------------------------------------------
(* The knowledge base *)

\* The documents, the upload and the search are in their ranges.
LibraryOK == library \in Seq(Document) /\ Len(library) <= MaxDocuments

UploadOK == uploading \in Document /\ (uploading # NoUpload => Len(library) < MaxDocuments)

SearchOK == search \in SearchRecord /\ search.seen <= Len(library)

\* A search remembers what the statement found in the library of its time, which is what the
\* same statement finds in it now.
Remembered == search.step = "keyword" => search.keyword = KeywordsIn(library, search)

\* Its answer agrees with the list and the detail.
Agrees == search.step = "answered" => ShownIn(library, search) /\ FoundIn(library, search)

\* The inductive invariant.
KnowledgeInv ==
  storable \in BOOLEAN /\ LibraryOK /\ UploadOK /\ SearchOK /\ Remembered /\ Agrees

\* No upload.
LEMMA NoUploadTyped == NoUpload \in Document
<1>1. StoredTags({}) = {}
  BY DEF StoredTags, NormalizePermissionTags
<1>2. {} \in {StoredTags(tags) : tags \in TagLists \cup {{}}}
  BY <1>1
<1>. QED
  BY <1>2 DEF NoUpload, Document

\* No search.
LEMMA NoSearchTyped == NoSearch \in SearchRecord /\ NoSearch.step = "idle" /\ NoSearch.seen = 0
BY DEF NoSearch, SearchRecord

\* The library is empty at first.
LEMMA KnowledgeStart == KnowledgeInit => KnowledgeInv
<1>. SUFFICES ASSUME KnowledgeInit PROVE KnowledgeInv
  OBVIOUS
<1>. USE DEF KnowledgeInit
<1>1. LibraryOK
  BY KnowledgeAssumption DEF LibraryOK
<1>2. UploadOK
  BY NoUploadTyped DEF UploadOK
<1>3. SearchOK /\ Remembered /\ Agrees
  BY NoSearchTyped DEF SearchOK, Remembered, Agrees
<1>. QED
  BY <1>1, <1>2, <1>3 DEF KnowledgeInv

\* A step that leaves the library and the search alone, or begins another search.
LEMMA QuietStep ==
  ASSUME KnowledgeInv, library' = library,
         search' = search \/ (search' \in SearchRecord /\ search'.seen <= Len(library)
                              /\ search'.step \in {"idle", "embed"})
  PROVE  SearchOK' /\ Remembered' /\ Agrees'
<1>1. CASE search' = search
  BY <1>1 DEF KnowledgeInv, SearchOK, Remembered, Agrees
<1>2. CASE /\ search' \in SearchRecord /\ search'.seen <= Len(library)
           /\ search'.step \in {"idle", "embed"}
  <2>1. SearchOK'
    BY <1>2 DEF SearchOK
  <2>2. search'.step # "keyword" /\ search'.step # "answered"
    BY <1>2
  <2>. QED
    BY <2>1, <2>2 DEF Remembered, Agrees
<1>. QED
  BY <1>1, <1>2

\* Every step of an upload and of a search keeps the invariant.
LEMMA KnowledgeStep ==
  ASSUME KnowledgeInv, [KnowledgeNext]_knowledgeVars
  PROVE  KnowledgeInv'
<1>. USE DEF KnowledgeInv
<1>1. CASE SetRetention
  <2>1. /\ storable' \in BOOLEAN
        /\ library' = library /\ uploading' = uploading /\ search' = search
    BY <1>1 DEF SetRetention
  <2>. QED
    BY <2>1, QuietStep DEF LibraryOK, UploadOK
<1>2. ASSUME NEW u \in Readers, NEW tags \in TagLists, NEW text \in Texts,
             UploadDocument(u, tags, text)
      PROVE  KnowledgeInv'
  <2>1. /\ storable' = storable /\ library' = library /\ search' = search
        /\ Len(library) < MaxDocuments
        /\ uploading' = [owner |-> u, tags |-> StoredTags(tags),
                         chunks |-> ChunkDocumentText(text), embedded |-> FALSE]
    BY <1>2 DEF UploadDocument
  <2>2. uploading' \in Document
    BY <2>1, ChunksOK DEF Document
  <2>. QED
    BY <2>1, <2>2, QuietStep DEF LibraryOK, UploadOK
<1>3. CASE StoreDocument
  <2>1. PICK embedded \in BOOLEAN :
          library' = Append(library, [uploading EXCEPT !.embedded = embedded])
    BY <1>3 DEF StoreDocument
  <2>2. /\ uploading # NoUpload /\ uploading' = NoUpload /\ storable' = storable
        /\ search' = search
    BY <1>3 DEF StoreDocument
  <2>. DEFINE document == [uploading EXCEPT !.embedded = embedded]
  <2>3. document \in Document
    BY DEF UploadOK, Document
  <2>. HIDE DEF document
  <2>4. library \in Seq(Document) /\ Len(library) < MaxDocuments /\ MaxDocuments \in Nat
    BY <2>2, KnowledgeAssumption DEF LibraryOK, UploadOK
  <2>5. library' = Append(library, document)
    BY <2>1 DEF document
  <2>6. library' \in Seq(Document) /\ Len(library') = Len(library) + 1 /\ Len(library) \in Nat
    BY <2>3, <2>4, <2>5
  <2>7. LibraryOK' /\ UploadOK'
    BY <2>2, <2>4, <2>6, NoUploadTyped DEF LibraryOK, UploadOK
  <2>8. search \in SearchRecord /\ search.seen <= Len(library) /\ search.seen \in Nat
    BY DEF SearchOK, SearchRecord
  <2>9. SearchOK'
    BY <2>2, <2>6, <2>8 DEF SearchOK
  <2>10. /\ KeywordsIn(library', search) = KeywordsIn(library, search)
         /\ ShownIn(library, search) => ShownIn(library', search)
         /\ FoundIn(library, search) => FoundIn(library', search)
    BY <2>3, <2>4, <2>5, <2>8, LibraryGrows
  <2>11. Remembered' /\ Agrees'
    BY <2>2, <2>10 DEF Remembered, Agrees
  <2>. QED
    BY <2>2, <2>7, <2>9, <2>11
<1>4. CASE UploadFails
  <2>1. storable' = storable /\ library' = library /\ search' = search /\ uploading' = NoUpload
    BY <1>4 DEF UploadFails
  <2>. QED
    BY <2>1, QuietStep, NoUploadTyped DEF LibraryOK, UploadOK
<1>5. ASSUME NEW u \in Readers, NEW terms \in Queries, NEW allowed \in AllowedLists,
             Search(u, terms, allowed)
      PROVE  KnowledgeInv'
  <2>1. /\ storable' = storable /\ library' = library /\ uploading' = uploading
        /\ search' = [NoSearch EXCEPT !.step = "embed", !.reader = u, !.terms = terms,
                                      !.allowed = allowed]
    BY <1>5 DEF Search
  <2>2. search' \in SearchRecord /\ search'.seen = 0 /\ search'.step = "embed"
    BY <2>1 DEF NoSearch, SearchRecord
  <2>3. 0 <= Len(library)
    BY DEF LibraryOK
  <2>. QED
    BY <2>1, <2>2, <2>3, QuietStep DEF LibraryOK, UploadOK
<1>6. CASE SelectKeywords
  <2>1. PICK vector \in BOOLEAN :
          search' = [search EXCEPT !.step = "keyword", !.vector = vector, !.seen = Len(library),
                                   !.keyword = {r \in Rows(Len(library)) :
                                                  /\ ScoreChunk(r, search.terms) > 0
                                                  /\ Selected(r)}]
    BY <1>6 DEF SelectKeywords
  <2>2. storable' = storable /\ library' = library /\ uploading' = uploading
    BY <1>6 DEF SelectKeywords
  <2>. DEFINE all == RowsIn(library, Len(library))
              found == {r \in all : /\ ScoreIn(library, r, search.terms) > 0
                                     /\ SelectedIn(library, search, r)}
  <2>3. search' = [search EXCEPT !.step = "keyword", !.vector = vector, !.seen = Len(library),
                                 !.keyword = found]
    <3>1. {r \in Rows(Len(library)) : /\ ScoreChunk(r, search.terms) > 0
                                      /\ Selected(r)} = found
      BY DEF Rows, ScoreChunk, Words, Selected, RowsIn, ScoreIn, WordsIn, SelectedIn
    <3>. HIDE DEF found
    <3>. QED
      BY <2>1, <3>1
  <2>4. library \in Seq(Document) /\ search \in SearchRecord /\ Len(library) \in Nat
        /\ Len(library) <= Len(library) /\ Len(library) \in 0..Len(library)
    BY DEF LibraryOK, SearchOK
  <2>5. found \in SUBSET (Nat \X Nat)
    BY <2>4, RowsAre
  <2>6. /\ search' \in SearchRecord /\ search'.seen = Len(library) /\ search'.step = "keyword"
        /\ search'.keyword = found /\ search'.terms = search.terms
        /\ search'.allowed = search.allowed /\ search'.reader = search.reader
    <3>. HIDE DEF found
    <3>. QED
      BY <2>3, <2>4, <2>5 DEF SearchRecord
  <2>7. KeywordsIn(library, search') = found
    BY <2>6 DEF KeywordsIn, SelectedIn
  <2>. HIDE DEF found
  <2>8. SearchOK' /\ Remembered' /\ Agrees'
    BY <2>2, <2>4, <2>6, <2>7 DEF SearchOK, Remembered, Agrees
  <2>. QED
    BY <2>2, <2>8 DEF LibraryOK, UploadOK
<1>7. CASE Answered
  <2>. DEFINE near == {r \in Rows(Len(library)) :
                         search.vector /\ library[r[1]].embedded /\ Selected(r)}
              readable == {r \in Rows(Len(library)) : CanAccess(search.reader, library[r[1]])}
              score(f, v) == [r \in (search.keyword \cup v) \cap readable |->
                       (IF r \in search.keyword THEN ScoreChunk(r, search.terms) ELSE 0)
                         + (IF r \in v THEN f[r] ELSE 0)]
              scored(f, v) == {r \in DOMAIN score(f, v) : score(f, v)[r] > 0}
              least(f, v, results) ==
                IF results = {} THEN 0
                ELSE CHOOSE n \in {score(f, v)[r] : r \in results} :
                       \A r \in results : n <= score(f, v)[r]
  <2>1. /\ search.step = "keyword" /\ storable' = storable /\ library' = library
        /\ uploading' = uploading
    BY <1>7 DEF Answered
  <2>. DEFINE outcome(f, v, results) ==
                /\ BestOf(scored(f, v), score(f, v), TopK, results)
                /\ search' = [search EXCEPT !.step = "answered", !.results = results,
                                            !.least = least(f, v, results),
                                            !.keyword = {}, !.vector = FALSE]
  <2>2. PICK similarity \in [near -> 0..1] :
           \E v \in SUBSET near : \E results \in SUBSET scored(similarity, v) :
             outcome(similarity, v, results)
    BY <1>7 DEF Answered
  <2>3. PICK vectorRows \in SUBSET near :
           \E results \in SUBSET scored(similarity, vectorRows) :
             outcome(similarity, vectorRows, results)
    <3>. HIDE DEF near, readable, score, scored, least, outcome
    <3>. QED
      BY <2>2
  <2>4. PICK results \in SUBSET scored(similarity, vectorRows) :
           outcome(similarity, vectorRows, results)
    <3>. HIDE DEF near, readable, score, scored, least, outcome
    <3>. QED
      BY <2>3
  <2>5. /\ BestOf(scored(similarity, vectorRows), score(similarity, vectorRows), TopK, results)
        /\ search' = [search EXCEPT !.step = "answered", !.results = results,
                                    !.least = least(similarity, vectorRows, results),
                                    !.keyword = {}, !.vector = FALSE]
    <3>. HIDE DEF near, readable, score, scored, least
    <3>. QED
      BY <2>4
  <2>. HIDE DEF outcome
  <2>6. library \in Seq(Document) /\ search \in SearchRecord /\ search.seen <= Len(library)
        /\ search.keyword = KeywordsIn(library, search)
    BY <2>1 DEF LibraryOK, SearchOK, Remembered
  <2>7. /\ near = {r \in RowsIn(library, Len(library)) :
                     search.vector /\ library[r[1]].embedded /\ SelectedIn(library, search, r)}
        /\ readable = {r \in RowsIn(library, Len(library)) :
                         CanAccess(search.reader, library[r[1]])}
    BY DEF Rows, Selected, RowsIn, SelectedIn
  <2>8. \A r : ScoreChunk(r, search.terms) = ScoreIn(library, r, search.terms)
    BY DEF ScoreChunk, ScoreIn, Words, WordsIn
  <2>. HIDE DEF near, readable
  <2>9. score(similarity, vectorRows)
          = [r \in (search.keyword \cup vectorRows) \cap readable |->
               (IF r \in search.keyword THEN ScoreIn(library, r, search.terms) ELSE 0)
                 + (IF r \in vectorRows THEN similarity[r] ELSE 0)]
    BY <2>8
  <2>10. scored(similarity, vectorRows) = {r \in DOMAIN score(similarity, vectorRows) :
                                            score(similarity, vectorRows)[r] > 0}
    OBVIOUS
  <2>11. least(similarity, vectorRows, results)
          = IF results = {} THEN 0
            ELSE CHOOSE n \in {score(similarity, vectorRows)[r] : r \in results} :
                   \A r \in results : n <= score(similarity, vectorRows)[r]
    OBVIOUS
  <2>. HIDE DEF score, scored, least
  <2>. DEFINE marks == score(similarity, vectorRows)
              ranked == scored(similarity, vectorRows)
              last == least(similarity, vectorRows, results)
              answer == search'
  <2>12. IsAnswer(library, search, near, readable, similarity, vectorRows, marks, ranked, results,
                  last, answer)
    BY <2>5, <2>7, <2>9, <2>10, <2>11 DEF IsAnswer
  <2>. HIDE DEF marks, ranked, last, answer
  <2>13. answer \in SearchRecord /\ ShownIn(library, answer) /\ FoundIn(library, answer)
    BY <2>6, <2>12, AnswerAgrees
  <2>14. search' \in SearchRecord /\ ShownIn(library, search') /\ FoundIn(library, search')
    BY <2>13 DEF answer
  <2>15. search'.step = "answered" /\ search'.seen = search.seen
    BY <2>5, <2>6 DEF SearchRecord
  <2>16. SearchOK' /\ Remembered' /\ Agrees'
    BY <2>1, <2>6, <2>14, <2>15 DEF SearchOK, Remembered, Agrees
  <2>. QED
    BY <2>1, <2>16 DEF LibraryOK, UploadOK
<1>8. CASE SearchFails
  <2>1. /\ storable' = storable /\ library' = library /\ uploading' = uploading
        /\ search' = NoSearch
    BY <1>8 DEF SearchFails
  <2>2. 0 <= Len(library)
    BY DEF LibraryOK
  <2>3. SearchOK' /\ Remembered' /\ Agrees'
    BY <2>1, <2>2, NoSearchTyped, QuietStep
  <2>. QED
    BY <2>1, <2>3 DEF LibraryOK, UploadOK
<1>9. CASE UNCHANGED knowledgeVars
  BY <1>9 DEF knowledgeVars, LibraryOK, UploadOK, SearchOK, Remembered, Agrees
<1>. QED
  BY <1>1, <1>2, <1>3, <1>4, <1>5, <1>6, <1>7, <1>8, <1>9 DEF KnowledgeNext

\* The invariant says what the runs check.
LEMMA KnowledgeImplies == KnowledgeInv => KnowledgeTypeOK /\ SearchAgreesWithDetail
<1>. SUFFICES ASSUME KnowledgeInv PROVE KnowledgeTypeOK /\ SearchAgreesWithDetail
  OBVIOUS
<1>. USE DEF KnowledgeInv
<1>1. library \in Seq(Document) /\ DOMAIN library = 1..Len(library)
  BY DEF LibraryOK
<1>2. KnowledgeTypeOK
  <2>1. ASSUME NEW d \in DOMAIN library, NEW i \in DOMAIN library[d].chunks
        PROVE  /\ library[d].chunks[i] # <<>>
               /\ TextLength(library[d].chunks[i]) <= MaxChunkChars
                    \/ Len(library[d].chunks[i]) = 1
    <3>1. library[d].chunks[i] \in ChunkWords
      BY <1>1, DocumentAt
    <3>. QED
      BY <3>1 DEF ChunkWords
  <2>2. search.step \in {"idle", "embed", "keyword", "answered"}
    BY DEF SearchOK, SearchRecord
  <2>. QED
    BY <2>1, <2>2 DEF KnowledgeTypeOK, LibraryOK
<1>3. SearchAgreesWithDetail
  <2>1. SUFFICES ASSUME search.step = "answered"
                 PROVE  /\ \A r \in search.results :
                             /\ r[1] \in search.allowed
                             /\ r[2] \in DOMAIN GetDocumentDetail(search.reader, r[1])
                        /\ \A r \in Rows(search.seen) :
                             /\ r[1] \in search.allowed \cap ListDocuments(search.reader)
                             /\ ScoreChunk(r, search.terms) > 0
                             => \/ r \in search.results
                                \/ /\ Cardinality(search.results) = TopK
                                   /\ ScoreChunk(r, search.terms) <= search.least
    BY DEF SearchAgreesWithDetail
  <2>2. ShownIn(library, search) /\ FoundIn(library, search)
    BY <2>1 DEF Agrees
  <2>3. ListDocuments(search.reader) = ListIn(library, search.reader)
    BY DEF ListDocuments, ListIn
  <2>4. \A r \in search.results : /\ r[1] \in search.allowed
                                  /\ r[2] \in DOMAIN GetDocumentDetail(search.reader, r[1])
    BY <2>2, <2>3 DEF ShownIn, GetDocumentDetail
  <2>5. /\ Rows(search.seen) = RowsIn(library, search.seen)
        /\ \A r : ScoreChunk(r, search.terms) = ScoreIn(library, r, search.terms)
    BY DEF Rows, ScoreChunk, Words, RowsIn, ScoreIn, WordsIn
  <2>. QED
    BY <2>2, <2>3, <2>4, <2>5 DEF FoundIn
<1>. QED
  BY <1>2, <1>3

\* It holds in every state of the knowledge base.
LEMMA KnowledgeInvariant == KnowledgeSpec => []KnowledgeInv
<1>1. KnowledgeInv /\ [KnowledgeNext]_knowledgeVars => KnowledgeInv'
  BY KnowledgeStep
<1>. QED
  BY <1>1, KnowledgeStart, PTL DEF KnowledgeSpec

\* chunkDocumentText and splitLongParagraph, for all texts: no chunk that is stored is empty or,
\* unless it is one word, longer than a chunk may be; and a search is in one of its steps.
THEOREM KnowledgeTypeCorrect == KnowledgeSpec => []KnowledgeTypeOK
BY KnowledgeInvariant, KnowledgeImplies, PTL

\* The predicate of the SQL statements and the check of the service on the same document agree,
\* however many documents are stored while a search is under way: what a search answers is in
\* the list and in the detail of its reader, and what is there and has a term of the search is
\* found, unless there is no room for it.
THEOREM SearchAgreesHolds == KnowledgeSpec => []SearchAgreesWithDetail
BY KnowledgeInvariant, KnowledgeImplies, PTL

-----------------------------------------------------------------------------
(* The parts side by side *)

\* The inductive invariants of all parts.
ServicesInv ==
  /\ part \in Parts
  /\ DeliveryInv /\ StreamInv /\ SuggestionInv /\ KnowledgeInv
  /\ RecordsInv /\ MembershipInv /\ ApiInv

\* A call that has no input and no answer is a call whose invariant holds.
LEMMA NoCallStarts == ASSUME NoCall PROVE SuggestionInv
<1>. USE DEF NoCall
<1>1. body \in Seq(Lines) /\ buffer \in Seq(Lines) /\ said \in Seq(Text) /\ content \in Seq(Text)
  OBVIOUS
<1>2. context.transcript = <<>> /\ context.sources = <<>>
  BY DEF NoContext
<1>3. CallOK
  BY <1>1, <1>2 DEF CallOK
<1>4. SourcesFit
  <2>1. SourceTokens(<<>>) = 0 /\ 0 <= MaxSourceTokens
    BY SuggestionStreamAssumption DEF SourceTokens, NoSources
  <2>. QED
    BY <1>2, <2>1 DEF SourcesFit
<1>5. SaidSoFar
  <2>1. buffer \o body = <<>>
    OBVIOUS
  <2>2. TextOf(<<>>) = <<>>
    BY OnlyEmpty DEF TextOf
  <2>3. said = content \o TextOf(buffer \o body) /\ phase # "complete"
    BY <2>1, <2>2
  <2>. QED
    BY <2>3 DEF SaidSoFar
<1>. QED
  BY <1>3, <1>4, <1>5, EmptyWithin DEF SuggestionInv

\* Every part starts in an initial state of its own, or in that call.
LEMMA ServicesStart == ASSUME ServicesInit PROVE ServicesInv
<1>1. Init /\ MembershipInit /\ StreamInit /\ RecordsInit /\ ApiInit /\ KnowledgeInit
  BY DEF ServicesInit
<1>2. part \in Parts
  BY DEF ServicesInit, Parts
<1>3. SuggestionStreamInit \/ NoCall
  BY DEF ServicesInit
<1>. QED
  BY <1>1, <1>2, <1>3, DeliveryStart, StreamStart, SuggestionStart, NoCallStarts,
     KnowledgeStart, RecordsStart, MembershipStart, ApiStart
  DEF ServicesInv

\* A step moves one of the parts, and is a step of that part.
LEMMA ServicesStep ==
  ASSUME ServicesInv, [ServicesNext]_servicesVars
  PROVE  ServicesInv'
<1>1. part' = part
  BY DEF ServicesNext, servicesVars
<1>2. [Next]_vars /\ [StreamNext]_streamVars /\ [SuggestionStreamNext]_suggestionVars
  BY DEF ServicesNext, servicesVars
<1>3. [KnowledgeNext]_knowledgeVars /\ [RecordsNext]_recordVars
  BY DEF ServicesNext, servicesVars
<1>4. [MembershipNext]_memberVars /\ [ApiNext]_apiVars
  BY DEF ServicesNext, servicesVars
<1>. QED
  BY <1>1, <1>2, <1>3, <1>4, DeliveryStep, StreamStep, SuggestionStep, KnowledgeStep,
     RecordsStep, MembershipStep, ApiStep
  DEF ServicesInv

\* They say the ranges of every part.
LEMMA ServicesImplies == ASSUME ServicesInv PROVE ServicesTypeOK
<1>1. TypeOK /\ StreamTypeOK /\ SuggestionStreamTypeOK /\ KnowledgeTypeOK
  BY DeliveryTyped, StreamTyped, SuggestionImplies, KnowledgeImplies DEF ServicesInv
<1>2. RecordsTypeOK /\ MembershipTypeOK /\ ApiTypeOK
  BY RecordsTyped, MembershipTyped, ApiTyped DEF ServicesInv
<1>. QED
  BY <1>1, <1>2 DEF ServicesInv, ServicesTypeOK, Parts

\* Every variable of the part that moves stays in its range, whichever part of the
\* services it is.
THEOREM ServicesTypeCorrect == ServicesSpec => []ServicesTypeOK
BY ServicesStart, ServicesStep, ServicesImplies, PTL
DEF ServicesSpec
=============================================================================
