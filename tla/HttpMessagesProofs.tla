-------------------------- MODULE HttpMessagesProofs --------------------------
(***************************************************************************)
(* Proofs about HttpMessages, for every set of values, pages and methods:  *)
(* the parser gives back what a browser put into a request that arrived    *)
(* whole, and the uuid it carries is the one the server issued last; of a  *)
(* request that is cut only the last pair is affected, and a handler       *)
(* throws only for one that is cut in the uuid.                            *)
(*                                                                         *)
(* The parser's loops are recursive functions on the length of a text.     *)
(* What holds of their result is shown by induction on sequences           *)
(* (SeqGrows), which rests on the least member of a set of numbers.        *)
(***************************************************************************)
EXTENDS HttpMessages, TLAPS, NaturalsInduction, WellFoundedInduction, FiniteSetTheorems
-----------------------------------------------------------------------------
(***************************************************************************)
(* Induction, and reading up to a delimiter                                *)
(***************************************************************************)

\* Every set of numbers that is not empty has a least member.
LEMMA LeastOf ==
  ASSUME NEW S \in SUBSET Nat, S # {}
  PROVE  \E n \in S : \A m \in S : n <= m
<1>. DEFINE R == OpToRel(<, Nat)
<1>1. IsWellFoundedOn(R, Nat)
  BY NatLessThanWellFounded
<1>2. ASSUME NEW i \in Nat, NEW j \in Nat, j < i PROVE <<j, i>> \in R
  BY <1>2 DEF OpToRel
<1>. HIDE DEF R
<1>3. PICK i \in S : \A j \in S : <<j, i>> \notin R
  BY <1>1, WFMin
<1>4. ASSUME NEW j \in S PROVE i <= j
  <2>1. i \in Nat /\ j \in Nat
    OBVIOUS
  <2>2. ~ (j < i)
    BY <1>2, <1>3, <2>1
  <2>. QED  BY <2>1, <2>2
<1>. QED  BY <1>4

(* A set of numbers with 0 and the successors of its members. *)
LEMMA Induct ==
  ASSUME NEW S, 0 \in S, NEW n \in Nat, \A i \in 0 .. n - 1 : i \in S => i + 1 \in S
  PROVE  \A i \in 0 .. n : i \in S
<1>. DEFINE T == {i \in 0 .. n : i \notin S}
<1>. SUFFICES ASSUME T # {} PROVE FALSE
  OBVIOUS
<1>1. T \in SUBSET Nat
  OBVIOUS
<1>2. PICK m \in T : \A k \in T : m <= k
  BY <1>1, LeastOf
<1>3. m \in 1 .. n
  OBVIOUS
<1>4. m - 1 \in S
  <2>1. m - 1 \in 0 .. n
    BY <1>3
  <2>2. CASE m - 1 \notin S
    BY <1>2, <1>3, <2>1, <2>2
  <2>. QED BY <2>2
<1>5. m - 1 \in 0 .. n - 1 /\ (m - 1) + 1 = m
  BY <1>3
<1>. QED BY <1>4, <1>5

\* What recursion on the length of a sequence builds exists: from a base and a
\* step, a function on 0 .. n.
LEMMA Scan ==
  ASSUME NEW A, NEW base \in A, NEW step \in [Nat \X A -> A], NEW n \in Nat
  PROVE  \E f \in [0 .. n -> A] : /\ f[0] = base
                                  /\ \A i \in 1 .. n : f[i] = step[<<i, f[i - 1]>>]
<1>. DEFINE Good(k, f) == f[0] = base /\ \A i \in 1 .. k : f[i] = step[<<i, f[i - 1]>>]
           S == {k \in Nat : \E f \in [0 .. k -> A] : Good(k, f)}
<1>1. 0 \in S
  <2>1. [i \in 0 .. 0 |-> base] \in [0 .. 0 -> A] /\ Good(0, [i \in 0 .. 0 |-> base])
    OBVIOUS
  <2>. QED BY <2>1
<1>2. ASSUME NEW k \in 0 .. n - 1, k \in S PROVE k + 1 \in S
  <2>1. PICK f \in [0 .. k -> A] : Good(k, f)
    BY <1>2
  <2>. DEFINE g == [i \in 0 .. k + 1 |-> IF i = k + 1 THEN step[<<k + 1, f[k]>>] ELSE f[i]]
  <2>2. f[k] \in A /\ step[<<k + 1, f[k]>>] \in A
    OBVIOUS
  <2>3. g \in [0 .. k + 1 -> A]
    BY <2>2
  <2>4. g[0] = base
    BY <2>1
  <2>5. ASSUME NEW i \in 1 .. k + 1 PROVE g[i] = step[<<i, g[i - 1]>>]
    <3>1. CASE i = k + 1
      <4>1. g[k + 1] = step[<<k + 1, f[k]>>] /\ g[k] = f[k]
        OBVIOUS
      <4>2. i - 1 = k
        BY <3>1
      <4>. HIDE DEF g
      <4>. QED BY <3>1, <4>1, <4>2
    <3>2. CASE i \in 1 .. k
      <4>1. g[i] = f[i] /\ g[i - 1] = f[i - 1]
        BY <3>2
      <4>. HIDE DEF g
      <4>. QED BY <2>1, <3>2, <4>1
    <3>. QED BY <3>1, <3>2
  <2>. HIDE DEF g
  <2>6. Good(k + 1, g)
    BY <2>4, <2>5
  <2>. HIDE DEF Good
  <2>7. k + 1 \in Nat
    OBVIOUS
  <2>. QED BY <2>3, <2>6, <2>7
<1>. HIDE DEF S
<1>3. n \in S
  BY <1>1, <1>2, Induct
<1>. QED BY <1>3 DEF S

\* What std::getline does with the next token: a delimiter ends the piece.
Take(r, t, d) == IF t = d THEN [done |-> Append(r.done, r.rest), rest |-> <<>>]
                 ELSE [done |-> r.done, rest |-> Append(r.rest, t)]

\* The pieces read so far and the one being read, after each token of s: the
\* recursive function in Pieces.
Read(s, d) ==
  LET next(r, t) == IF t = d THEN [done |-> Append(r.done, r.rest), rest |-> <<>>]
                    ELSE [done |-> r.done, rest |-> Append(r.rest, t)]
      read[i \in 0 .. Len(s)] ==
        IF i = 0 THEN [done |-> <<>>, rest |-> <<>>] ELSE next(read[i - 1], s[i])
  IN  read

\* Pieces is the end of that reading.
LEMMA PiecesRead == 
  ASSUME NEW s, NEW d
  PROVE Pieces(s, d) = IF Read(s,d)[Len(s)].rest = <<>> THEN Read(s,d)[Len(s)].done
                       ELSE Append(Read(s,d)[Len(s)].done, Read(s,d)[Len(s)].rest)
BY DEF Pieces, Read

\* The recursive function exists, has its type and obeys its equations.
LEMMA ReadDef ==
  ASSUME NEW T, NEW s \in Seq(T), NEW d
  PROVE  /\ Read(s, d) \in [0 .. Len(s) -> [done : Seq(Seq(T)), rest : Seq(T)]]
         /\ Read(s, d)[0] = [done |-> <<>>, rest |-> <<>>]
         /\ \A i \in 1 .. Len(s) : Read(s, d)[i] = Take(Read(s, d)[i - 1], s[i], d)
<1>. DEFINE A == [done : Seq(Seq(T)), rest : Seq(T)]
            next(r, t) == IF t = d THEN [done |-> Append(r.done, r.rest), rest |-> <<>>]
                    ELSE [done |-> r.done, rest |-> Append(r.rest, t)]
            base == [done |-> <<>>, rest |-> <<>>]
            step == [x \in Nat \X A |-> IF x[1] \in 1 .. Len(s) THEN next(x[2], s[x[1]]) ELSE base]
<1>0. base \in A
  OBVIOUS
<1>1. ASSUME NEW r \in A, NEW t \in T PROVE next(r, t) \in A
  OBVIOUS
<1>2. step \in [Nat \X A -> A]
  <2>. HIDE DEF next, base, A
  <2>. SUFFICES ASSUME NEW x \in Nat \X A PROVE (IF x[1] \in 1 .. Len(s) THEN next(x[2], s[x[1]]) ELSE base) \in A
    OBVIOUS
  <2>. QED BY <1>0, <1>1
<1>3. PICK f \in [0 .. Len(s) -> A] : f[0] = base /\ \A i \in 1 .. Len(s) : f[i] = step[<<i, f[i - 1]>>]
  <2>. HIDE DEF step, base, A
  <2>1. Len(s) \in Nat
    OBVIOUS
  <2>. DEFINE Has(B, b, st, n) == \E f \in [0 .. n -> B] :
                 f[0] = b /\ \A i \in 1 .. n : f[i] = st[<<i, f[i - 1]>>]
  <2>2. \A B : \A b \in B : \A st \in [Nat \X B -> B] : \A n \in Nat : Has(B, b, st, n)
    BY Scan
  <2>. HIDE DEF Has
  <2>3. Has(A, base, step, Len(s))
    BY <1>0, <1>2, <2>1, <2>2
  <2>. QED BY <2>3 DEF Has
<1>4. ASSUME NEW i \in 1 .. Len(s) PROVE f[i] = next(f[i - 1], s[i])
  <2>1. f[i - 1] \in A /\ i \in Nat
    OBVIOUS
  <2>2. step[<<i, f[i - 1]>>] = next(f[i - 1], s[i])
    <3>. HIDE DEF next, base, A
    <3>. QED BY <2>1
  <2>. QED BY <1>3, <2>2
<1>5. f = [i \in 0 .. Len(s) |-> IF i = 0 THEN base ELSE next(f[i - 1], s[i])]
  <2>. HIDE DEF next, base, A
  <2>. QED BY <1>3, <1>4
<1>. DEFINE Is(g) == g = [i \in 0 .. Len(s) |-> IF i = 0 THEN base ELSE next(g[i - 1], s[i])]
<1>6. Read(s, d) = CHOOSE g : Is(g)
  BY DEF Read
<1>7. Is(f)
  BY <1>5
<1>8. Is(Read(s, d))
  <2>. HIDE DEF Is
  <2>. QED BY <1>6, <1>7
<1>. DEFINE R == Read(s, d)
<1>. HIDE DEF R
<1>9. /\ DOMAIN R = 0 .. Len(s) /\ R = [i \in 0 .. Len(s) |-> R[i]]
      /\ R[0] = base
      /\ \A i \in 1 .. Len(s) : R[i] = next(R[i - 1], s[i])
  <2>. HIDE DEF next, base
  <2>1. Is(R)
    BY <1>8 DEF R
  <2>2. Len(s) \in Nat
    OBVIOUS
  <2>. HIDE DEF Is
  <2>3. \A k \in 0 .. Len(s) : R[k] = IF k = 0 THEN base ELSE next(R[k - 1], s[k])
    BY <2>1 DEF Is
  <2>4. DOMAIN R = 0 .. Len(s) /\ R = [i \in 0 .. Len(s) |-> R[i]]
    BY <2>1, Zenon DEF Is
  <2>5. 0 \in 0 .. Len(s) /\ \A i \in 1 .. Len(s) : i \in 0 .. Len(s) /\ i # 0
    BY <2>2
  <2>. QED BY <2>3, <2>4, <2>5
<1>. DEFINE S == {i \in 0 .. Len(s) : R[i] \in A}
<1>10. ASSUME NEW i \in 0 .. Len(s) - 1, i \in S PROVE i + 1 \in S
  <2>1. i + 1 \in 1 .. Len(s) /\ (i + 1) - 1 = i /\ s[i + 1] \in T
    OBVIOUS
  <2>. HIDE DEF next, A, base
  <2>2. R[i + 1] = next(R[i], s[i + 1])
    BY <1>9, <2>1
  <2>. QED BY <1>1, <1>10, <2>1, <2>2
<1>11. 0 \in S
  <2>. HIDE DEF next, A, base
  <2>. QED BY <1>0, <1>9
<1>12. \A i \in 0 .. Len(s) : i \in S
  <2>1. Len(s) \in Nat
    OBVIOUS
  <2>. HIDE DEF S
  <2>. QED BY <1>10, <1>11, <2>1, Induct, Zenon
<1>13. R \in [0 .. Len(s) -> A]
  <2>. HIDE DEF A
  <2>. QED BY <1>9, <1>12
<1>. QED BY <1>9, <1>13 DEF R, Take

\* Induction on sequences: a set with the empty one that is closed under Append.
LEMMA SeqGrows ==
  ASSUME NEW T, NEW S, <<>> \in S,
         \A s \in Seq(T) : s \in S => \A t \in T : Append(s, t) \in S
  PROVE  \A s \in Seq(T) : s \in S
<1>. SUFFICES ASSUME NEW s \in Seq(T) PROVE s \in S
  OBVIOUS
<1>. DEFINE I == {i \in 0 .. Len(s) : SubSeq(s, 1, i) \in S}
<1>0. Len(s) \in Nat
  OBVIOUS
<1>1. 0 \in I
  <2>1. SubSeq(s, 1, 0) = <<>> /\ 0 \in 0 .. Len(s)
    BY <1>0
  <2>. QED BY <2>1
<1>2. ASSUME NEW i \in 0 .. Len(s) - 1, i \in I PROVE i + 1 \in I
  <2>1. SubSeq(s, 1, i) \in Seq(T) /\ s[i + 1] \in T
    OBVIOUS
  <2>2. SubSeq(s, 1, i + 1) = Append(SubSeq(s, 1, i), s[i + 1])
    OBVIOUS
  <2>3. i + 1 \in 0 .. Len(s)
    OBVIOUS
  <2>. QED BY <1>2, <2>1, <2>2, <2>3
<1>3. Len(s) \in I
  <2>. HIDE DEF I
  <2>1. \A i \in 0 .. Len(s) : i \in I
    BY <1>0, <1>1, <1>2, Induct, Zenon
  <2>. QED BY <1>0, <2>1
<1>4. SubSeq(s, 1, Len(s)) = s
  OBVIOUS
<1>. QED BY <1>3, <1>4

\* The reading at its end, and the set it is from.
End(s, d) == Read(s, d)[Len(s)]
Ends(T) == [done : Seq(Seq(T)), rest : Seq(T)]

\* The end of a reading has its type; of nothing it is nothing.
LEMMA EndType ==
  ASSUME NEW T, NEW s \in Seq(T), NEW d
  PROVE  End(s, d) \in Ends(T)
BY ReadDef DEF End, Ends

\* Nothing is read of nothing.
LEMMA EndEmpty == ASSUME NEW d PROVE End(<<>>, d) = [done |-> <<>>, rest |-> <<>>]
<1>. DEFINE e == <<>>
<1>1. e \in Seq(Nat) /\ Len(e) = 0
  OBVIOUS
<1>. HIDE DEF e
<1>2. Read(e, d)[0] = [done |-> <<>>, rest |-> <<>>]
  BY <1>1, ReadDef
<1>3. End(e, d) = [done |-> <<>>, rest |-> <<>>]
  BY <1>1, <1>2 DEF End
<1>. QED BY <1>3 DEF e

\* One more token is one more step.
LEMMA EndGrows ==
  ASSUME NEW T, NEW s \in Seq(T), NEW t \in T, NEW d
  PROVE  End(Append(s, t), d) = Take(End(s, d), t, d)
<1>. DEFINE u == Append(s, t)
            I == {i \in 0 .. Len(s) : Read(u, d)[i] = Read(s, d)[i]}
<1>0. u \in Seq(T) /\ Len(u) = Len(s) + 1 /\ u[Len(s) + 1] = t /\ Len(s) \in Nat
  OBVIOUS
<1>1. \A i \in 1 .. Len(s) : u[i] = s[i]
  OBVIOUS
<1>2. /\ Read(u, d)[0] = Read(s, d)[0]
      /\ \A i \in 1 .. Len(u) : Read(u, d)[i] = Take(Read(u, d)[i - 1], u[i], d)
      /\ \A i \in 1 .. Len(s) : Read(s, d)[i] = Take(Read(s, d)[i - 1], s[i], d)
  <2>. HIDE DEF u
  <2>. QED BY <1>0, ReadDef
<1>. HIDE DEF u
<1>3. 0 \in I
  BY <1>0, <1>2
<1>4. ASSUME NEW i \in 0 .. Len(s) - 1, i \in I PROVE i + 1 \in I
  <2>1. i + 1 \in 1 .. Len(s) /\ i + 1 \in 1 .. Len(u) /\ (i + 1) - 1 = i /\ i + 1 \in 0 .. Len(s)
    BY <1>0
  <2>2. Read(u, d)[i + 1] = Take(Read(u, d)[i], u[i + 1], d) /\ Read(s, d)[i + 1] = Take(Read(s, d)[i], s[i + 1], d)
    BY <1>2, <2>1
  <2>. QED BY <1>1, <1>4, <2>1, <2>2
<1>. HIDE DEF I
<1>5. \A i \in 0 .. Len(s) : i \in I
  BY <1>0, <1>3, <1>4, Induct, Zenon
<1>6. Len(s) \in I
  BY <1>0, <1>5
<1>7. Read(u, d)[Len(s) + 1] = Take(Read(s, d)[Len(s)], t, d)
  <2>1. Len(s) + 1 \in 1 .. Len(u) /\ (Len(s) + 1) - 1 = Len(s)
    BY <1>0
  <2>2. Read(u, d)[Len(s)] = Read(s, d)[Len(s)]
    BY <1>6 DEF I
  <2>. QED BY <1>0, <1>2, <2>1, <2>2
<1>. QED BY <1>0, <1>7 DEF End, u

\* The last piece counts only if there is something in it.
LEMMA PiecesEnd ==
  ASSUME NEW s, NEW d
  PROVE Pieces(s, d) = IF End(s, d).rest = <<>> THEN End(s, d).done
                       ELSE Append(End(s, d).done, End(s, d).rest)
BY PiecesRead DEF End

\* The token d is not in s.
Without(s, d) == \A i \in 1 .. Len(s) : s[i] # d

\* Without a delimiter all that is read is one piece.
LEMMA EndWithout ==
  ASSUME NEW T, NEW d, NEW s \in Seq(T), Without(s, d)
  PROVE  End(s, d) = [done |-> <<>>, rest |-> s]
<1>. DEFINE S == {x \in Seq(T) : Without(x, d) => End(x, d) = [done |-> <<>>, rest |-> x]}
<1>1. <<>> \in S
  BY EndEmpty
<1>2. ASSUME NEW x \in Seq(T), x \in S, NEW t \in T PROVE Append(x, t) \in S
  <2>. SUFFICES ASSUME Without(Append(x, t), d) PROVE End(Append(x, t), d) = [done |-> <<>>, rest |-> Append(x, t)]
    OBVIOUS
  <2>1. Without(x, d) /\ t # d
    <3>1. \A i \in 1 .. Len(x) : Append(x, t)[i] = x[i] /\ i \in 1 .. Len(Append(x, t))
      OBVIOUS
    <3>2. Append(x, t)[Len(x) + 1] = t /\ Len(x) + 1 \in 1 .. Len(Append(x, t))
      OBVIOUS
    <3>. QED BY <3>1, <3>2 DEF Without
  <2>2. End(x, d) = [done |-> <<>>, rest |-> x]
    BY <1>2, <2>1
  <2>3. End(Append(x, t), d) = Take(End(x, d), t, d)
    BY EndGrows
  <2>. QED BY <2>1, <2>2, <2>3 DEF Take
<1>. HIDE DEF S
<1>3. s \in S
  BY <1>1, <1>2, SeqGrows, Zenon
<1>. QED BY <1>3 DEF S

\* Reading goes on where it was: a part that ends with the delimiter is one piece
\* more.
LEMMA EndJoin ==
  ASSUME NEW T, NEW d \in T, NEW a \in Seq(T), NEW b \in Seq(T)
  PROVE  End(a \o <<d>> \o b, d) =
           [done |-> Append(End(a, d).done, End(a, d).rest) \o End(b, d).done, rest |-> End(b, d).rest]
<1>. DEFINE before == Append(End(a, d).done, End(a, d).rest)
            S == {x \in Seq(T) : End(a \o <<d>> \o x, d) = [done |-> before \o End(x, d).done, rest |-> End(x, d).rest]}
<1>0. End(a, d) \in Ends(T) /\ before \in Seq(Seq(T))
  BY EndType DEF Ends
<1>1. <<>> \in S
  <2>1. a \o <<d>> \o <<>> = Append(a, d)
    OBVIOUS
  <2>2. End(Append(a, d), d) = [done |-> before, rest |-> <<>>]
    <3>1. End(Append(a, d), d) = Take(End(a, d), d, d)
      BY EndGrows
    <3>. QED BY <3>1 DEF Take
  <2>3. before \o <<>> = before
    BY <1>0
  <2>4. End(<<>>, d) = [done |-> <<>>, rest |-> <<>>]
    BY EndEmpty
  <2>. HIDE DEF before
  <2>5. End(a \o <<d>> \o <<>>, d) = [done |-> before \o <<>>, rest |-> <<>>]
    BY <2>1, <2>2, <2>3
  <2>6. End(a \o <<d>> \o <<>>, d) = [done |-> before \o End(<<>>, d).done, rest |-> End(<<>>, d).rest]
    <3>. DEFINE z == <<>>
                w == End(a \o <<d>> \o z, d)
                e == End(z, d)
    <3>1. e = [done |-> z, rest |-> z]
      BY <2>4
    <3>2. w = [done |-> before \o z, rest |-> z]
      BY <2>5
    <3>3. e.done = z /\ e.rest = z
      BY <3>1
    <3>. HIDE DEF e, z, w
    <3>4. w = [done |-> before \o e.done, rest |-> e.rest]
      BY <3>2, <3>3
    <3>. QED BY <3>4 DEF e, z, w
  <2>7. <<>> \in Seq(T)
    OBVIOUS
  <2>. QED BY <2>6, <2>7
<1>2. ASSUME NEW x \in Seq(T), x \in S, NEW t \in T PROVE Append(x, t) \in S
  <2>1. a \o <<d>> \o Append(x, t) = Append(a \o <<d>> \o x, t) /\ a \o <<d>> \o x \in Seq(T)
    OBVIOUS
  <2>2. End(x, d) \in Ends(T)
    BY EndType
  <2>3. End(a \o <<d>> \o x, d) = [done |-> before \o End(x, d).done, rest |-> End(x, d).rest]
    BY <1>2
  <2>. HIDE DEF before
  <2>4. before \o Append(End(x, d).done, End(x, d).rest) = Append(before \o End(x, d).done, End(x, d).rest)
    BY <1>0, <2>2 DEF Ends
  <2>5. End(a \o <<d>> \o Append(x, t), d) = Take(End(a \o <<d>> \o x, d), t, d)
    BY <2>1, EndGrows
  <2>6. End(Append(x, t), d) = Take(End(x, d), t, d)
    BY EndGrows
  <2>7. End(a \o <<d>> \o Append(x, t), d)
          = [done |-> before \o End(Append(x, t), d).done, rest |-> End(Append(x, t), d).rest]
    <3>. DEFINE e == End(x, d)
                q == a \o <<d>> \o Append(x, t)
                z == Append(x, t)
    <3>1. End(q, d) = Take([done |-> before \o e.done, rest |-> e.rest], t, d)
      BY <2>3, <2>5
    <3>2. End(z, d) = Take(e, t, d)
      BY <2>6
    <3>3. before \o Append(e.done, e.rest) = Append(before \o e.done, e.rest)
      BY <2>4
    <3>. HIDE DEF e, q, z
    <3>4. End(q, d) = [done |-> before \o End(z, d).done, rest |-> End(z, d).rest]
      <4>1. CASE t = d
        <5>1. End(z, d).done = Append(e.done, e.rest) /\ End(z, d).rest = <<>>
          BY <3>2, <4>1 DEF Take
        <5>2. End(q, d) = [done |-> Append(before \o e.done, e.rest), rest |-> <<>>]
          BY <3>1, <4>1 DEF Take
        <5>. QED BY <3>3, <5>1, <5>2
      <4>2. CASE t # d
        <5>1. End(z, d).done = e.done /\ End(z, d).rest = Append(e.rest, t)
          BY <3>2, <4>2 DEF Take
        <5>2. End(q, d) = [done |-> before \o e.done, rest |-> Append(e.rest, t)]
          BY <3>1, <4>2 DEF Take
        <5>. QED BY <5>1, <5>2
      <4>. QED BY <4>1, <4>2
    <3>. QED BY <3>4 DEF q, z
  <2>8. Append(x, t) \in Seq(T)
    OBVIOUS
  <2>. QED BY <2>7, <2>8
<1>. HIDE DEF S
<1>3. b \in S
  BY <1>1, <1>2, SeqGrows, Zenon
<1>. QED BY <1>3 DEF S

\* Pieces are sequences; of nothing there are none; without a delimiter there is
\* one; a piece with its delimiter comes before the pieces of the rest.
LEMMA PiecesType ==
  ASSUME NEW T, NEW s \in Seq(T), NEW d
  PROVE  Pieces(s, d) \in Seq(Seq(T))
<1>1. End(s, d).done \in Seq(Seq(T)) /\ End(s, d).rest \in Seq(T)
  BY EndType DEF Ends
<1>. DEFINE e == End(s, d)
<1>2. Append(e.done, e.rest) \in Seq(Seq(T))
  BY <1>1
<1>. HIDE DEF e
<1>3. Pieces(s, d) = IF e.rest = <<>> THEN e.done ELSE Append(e.done, e.rest)
  BY PiecesEnd DEF e
<1>. QED BY <1>1, <1>2, <1>3 DEF e

\* The empty text has no pieces.
LEMMA PiecesOfNothing == ASSUME NEW d PROVE Pieces(<<>>, d) = <<>>
BY EndEmpty, PiecesEnd

\* A text without the delimiter is one piece.
LEMMA PiecesWhole ==
  ASSUME NEW T, NEW d, NEW s \in Seq(T), Without(s, d), s # <<>>
  PROVE  Pieces(s, d) = <<s>>
<1>1. End(s, d) = [done |-> <<>>, rest |-> s]
  BY EndWithout
<1>2. Pieces(s, d) = Append(<<>>, s)
  <2>. DEFINE e == End(s, d)
  <2>1. e.rest = s /\ e.done = <<>>
    BY <1>1
  <2>. HIDE DEF e
  <2>2. Pieces(s, d) = IF e.rest = <<>> THEN e.done ELSE Append(e.done, e.rest)
    BY PiecesEnd DEF e
  <2>. QED BY <2>1, <2>2
<1>. QED BY <1>2

\* A text with its delimiter is a piece before those of the rest.
LEMMA PiecesJoin ==
  ASSUME NEW T, NEW d \in T, NEW a \in Seq(T), NEW b \in Seq(T), Without(a, d)
  PROVE  Pieces(a \o <<d>> \o b, d) = <<a>> \o Pieces(b, d)
<1>. DEFINE c == a \o <<d>> \o b
            e == End(b, d)
<1>1. End(a, d) = [done |-> <<>>, rest |-> a]
  BY EndWithout
<1>2. End(c, d) = [done |-> Append(End(a, d).done, End(a, d).rest) \o e.done, rest |-> e.rest]
  BY EndJoin
<1>3. Append(End(a, d).done, End(a, d).rest) = <<a>>
  <2>1. End(a, d).done = <<>> /\ End(a, d).rest = a
    BY <1>1
  <2>. QED BY <2>1
<1>4. e.done \in Seq(Seq(T)) /\ e.rest \in Seq(T)
  BY EndType DEF Ends
<1>5. Pieces(c, d) = (IF End(c, d).rest = <<>> THEN End(c, d).done ELSE Append(End(c, d).done, End(c, d).rest))
  BY PiecesEnd
<1>6. Pieces(b, d) = (IF e.rest = <<>> THEN e.done ELSE Append(e.done, e.rest))
  BY PiecesEnd
<1>7. End(c, d).done = <<a>> \o e.done /\ End(c, d).rest = e.rest
  <2>. HIDE DEF c, e
  <2>. QED BY <1>2, <1>3
<1>8. Append(<<a>> \o e.done, e.rest) = <<a>> \o Append(e.done, e.rest)
  <2>. HIDE DEF e
  <2>1. <<a>> \in Seq(Seq(T))
    OBVIOUS
  <2>. QED BY <1>4, <2>1
<1>9. Pieces(c, d) = <<a>> \o Pieces(b, d)
  <2>. HIDE DEF c, e
  <2>. QED BY <1>5, <1>6, <1>7, <1>8
<1>. QED BY <1>9

\* The recursive function in FlattenSeq (fold of \o) exists and obeys its
\* equation; flattening goes element by element.
LEMMA FlatEmpty == FlattenSeq(<<>>) = <<>>
BY DEF FlattenSeq

\* The recursive function obeys its equation.
LEMMA FlatDef ==
  ASSUME NEW T, NEW ss \in Seq(Seq(T))
  PROVE  \E f \in [0 .. Len(ss) -> Seq(T)] :
           /\ f[0] = <<>>
           /\ \A i \in 1 .. Len(ss) : f[i] = f[i - 1] \o ss[i]
           /\ FlattenSeq(ss) = f[Len(ss)]
<1>. DEFINE n == Len(ss)
            A == Seq(T)
            base == <<>>
            step == [x \in Nat \X A |-> IF x[1] \in 1 .. n THEN x[2] \o ss[x[1]] ELSE base]
            Is(g) == g = [i \in 1 .. n |-> IF i = 1 THEN ss[i] ELSE g[i - 1] \o ss[i]]
            R == CHOOSE g : Is(g)
<1>1. n \in Nat /\ base \in A /\ \A i \in 1 .. n : ss[i] \in A
  OBVIOUS
<1>2. step \in [Nat \X A -> A]
  OBVIOUS
<1>3. PICK f \in [0 .. n -> A] : f[0] = base /\ \A i \in 1 .. n : f[i] = step[<<i, f[i - 1]>>]
  <2>. DEFINE Has(B, b, st, m) == \E f \in [0 .. m -> B] :
                 f[0] = b /\ \A i \in 1 .. m : f[i] = st[<<i, f[i - 1]>>]
  <2>2. \A B : \A b \in B : \A st \in [Nat \X B -> B] : \A m \in Nat : Has(B, b, st, m)
    BY Scan
  <2>. HIDE DEF Has, A, base, step, n
  <2>3. Has(A, base, step, n)
    BY <1>1, <1>2, <2>2
  <2>. QED BY <2>3 DEF Has
<1>4. ASSUME NEW i \in 1 .. n PROVE f[i] = f[i - 1] \o ss[i]
  <2>1. f[i - 1] \in A /\ i \in Nat
    <3>. HIDE DEF A, n, step, base
    <3>1. i - 1 \in 0 .. n /\ i \in Nat
      BY <1>1
    <3>. QED BY <3>1
  <2>2. step[<<i, f[i - 1]>>] = f[i - 1] \o ss[i]
    <3>. HIDE DEF A, n
    <3>. QED BY <2>1
  <2>. HIDE DEF step
  <2>. QED BY <1>3, <2>2
<1>. DEFINE h == [i \in 1 .. n |-> f[i]]
<1>5. Is(h)
  <2>1. ASSUME NEW i \in 1 .. n PROVE h[i] = IF i = 1 THEN ss[i] ELSE h[i - 1] \o ss[i]
    <3>1. CASE i = 1
      <4>1. f[1] = f[0] \o ss[1] /\ f[0] = <<>> /\ ss[1] \in Seq(T)
        <5>1. f[i] = f[i - 1] \o ss[i] /\ i - 1 = 0
          <6>1. f[i] = f[i - 1] \o ss[i]
            BY <1>4
          <6>. QED BY <3>1, <6>1
        <5>. HIDE DEF n
        <5>. QED BY <1>1, <1>3, <3>1, <5>1
      <4>2. f[1] = ss[1]
        BY <4>1
      <4>. QED BY <3>1, <4>2
    <3>2. CASE i # 1
      <4>1. i - 1 \in 1 .. n
        BY <1>1, <3>2
      <4>2. h[i - 1] = f[i - 1] /\ h[i] = f[i]
        BY <4>1
      <4>. HIDE DEF h, n
      <4>. QED BY <1>4, <3>2, <4>2
    <3>. QED BY <3>1, <3>2
  <2>. HIDE DEF n
  <2>. QED BY <2>1
<1>6. Is(R)
  <2>. HIDE DEF Is
  <2>. QED BY <1>5
<1>7. ASSUME NEW i \in 1 .. n PROVE R[i] = IF i = 1 THEN ss[i] ELSE R[i - 1] \o ss[i]
  <2>. HIDE DEF n, R
  <2>. QED BY <1>6
<1>. DEFINE I == {i \in 0 .. n : i = 0 \/ R[i] = f[i]}
<1>8. ASSUME NEW i \in 0 .. n - 1, i \in I PROVE i + 1 \in I
  <2>1. i + 1 \in 1 .. n /\ i + 1 \in 0 .. n /\ (i + 1) - 1 = i
    BY <1>1
  <2>. HIDE DEF n, R, h
  <2>2. CASE i = 0
    <3>1. R[1] = ss[1] /\ f[1] = f[0] \o ss[1] /\ f[0] = <<>> /\ ss[1] \in Seq(T)
      <4>1. 1 \in 1 .. n /\ 1 - 1 = 0
        BY <2>1, <2>2
      <4>. HIDE DEF step
      <4>2. f[1] = f[1 - 1] \o ss[1]
        BY <1>4, <4>1
      <4>. QED BY <1>1, <1>3, <1>7, <4>1, <4>2
    <3>2. R[1] = f[1]
      BY <3>1
    <3>. QED BY <2>1, <2>2, <3>2
  <2>3. CASE i # 0
    <3>1. R[i + 1] = R[i] \o ss[i + 1] /\ f[i + 1] = f[i] \o ss[i + 1]
      <4>. HIDE DEF step
      <4>1. i + 1 # 1
        BY <2>3
      <4>2. f[i + 1] = f[i] \o ss[i + 1]
        BY <1>4, <2>1
      <4>. QED BY <1>7, <2>1, <4>1, <4>2
    <3>. QED BY <1>8, <2>1, <2>3, <3>1
  <2>. QED BY <2>2, <2>3
<1>9. 0 \in I
  BY <1>1
<1>10. \A i \in 0 .. n : i \in I
  <2>. HIDE DEF I, n
  <2>. QED BY <1>1, <1>8, <1>9, Induct, Zenon
<1>11. FlattenSeq(ss) = f[n]
  <2>1. CASE n = 0
    <3>1. ss = <<>>
      BY <2>1
    <3>2. FlattenSeq(ss) = <<>>
      BY <3>1, FlatEmpty
    <3>. QED BY <1>3, <2>1, <3>2
  <2>2. CASE n # 0
    <3>1. FlattenSeq(ss) = R[n]
      BY <2>2 DEF FlattenSeq
    <3>2. n \in I
      <4>. HIDE DEF I, n
      <4>. QED BY <1>1, <1>10
    <3>. HIDE DEF R, n
    <3>. QED BY <2>2, <3>1, <3>2
  <2>. QED BY <2>1, <2>2
<1>. QED BY <1>3, <1>4, <1>11

\* What is flattened is a sequence over the same set.
LEMMA FlatType ==
  ASSUME NEW T, NEW ss \in Seq(Seq(T))
  PROVE  FlattenSeq(ss) \in Seq(T)
<1>. DEFINE n == Len(ss)
<1>1. n \in Nat
  OBVIOUS
<1>. HIDE DEF n
<1>2. PICK f \in [0 .. n -> Seq(T)] : FlattenSeq(ss) = f[n]
  BY FlatDef DEF n
<1>. QED BY <1>1, <1>2

\* An element more is appended.
LEMMA FlatGrows ==
  ASSUME NEW T, NEW ss \in Seq(Seq(T)), NEW s \in Seq(T)
  PROVE  FlattenSeq(Append(ss, s)) = FlattenSeq(ss) \o s
<1>. DEFINE tt == Append(ss, s)
            n == Len(ss)
<1>1. tt \in Seq(Seq(T)) /\ Len(tt) = n + 1 /\ tt[n + 1] = s /\ n \in Nat /\ \A i \in 1 .. n : tt[i] = ss[i]
  OBVIOUS
<1>. HIDE DEF tt
<1>2. PICK f \in [0 .. n -> Seq(T)] :
           /\ f[0] = <<>>
           /\ \A i \in 1 .. n : f[i] = f[i - 1] \o ss[i]
           /\ FlattenSeq(ss) = f[n]
  BY FlatDef
<1>3. PICK g \in [0 .. Len(tt) -> Seq(T)] :
           /\ g[0] = <<>>
           /\ \A i \in 1 .. Len(tt) : g[i] = g[i - 1] \o tt[i]
           /\ FlattenSeq(tt) = g[Len(tt)]
  BY <1>1, FlatDef
<1>. DEFINE I == {i \in 0 .. n : f[i] = g[i]}
<1>. HIDE DEF n
<1>4. 0 \in I
  BY <1>1, <1>2, <1>3
<1>5. ASSUME NEW i \in 0 .. n - 1, i \in I PROVE i + 1 \in I
  <2>1. i + 1 \in 1 .. n /\ i + 1 \in 1 .. Len(tt) /\ i + 1 \in 0 .. n /\ (i + 1) - 1 = i
    BY <1>1
  <2>2. f[i + 1] = f[i] \o ss[i + 1] /\ g[i + 1] = g[i] \o tt[i + 1]
    BY <1>2, <1>3, <2>1
  <2>. QED BY <1>1, <1>5, <2>1, <2>2
<1>6. \A i \in 0 .. n : i \in I
  <2>. HIDE DEF I
  <2>. QED BY <1>1, <1>4, <1>5, Induct, Zenon
<1>7. f[n] = g[n]
  BY <1>1, <1>6
<1>8. g[n + 1] = g[n] \o tt[n + 1]
  <2>1. n + 1 \in 1 .. Len(tt) /\ (n + 1) - 1 = n
    BY <1>1
  <2>. QED BY <1>3, <2>1
<1>. QED BY <1>1, <1>2, <1>3, <1>7, <1>8 DEF tt
-----------------------------------------------------------------------------
(***************************************************************************)
(* Paths                                                                   *)
(***************************************************************************)

\* No delimiter in two parts, none in both together.
LEMMA WithoutJoin ==
  ASSUME NEW T, NEW a \in Seq(T), NEW b \in Seq(T), NEW d, Without(a, d), Without(b, d)
  PROVE  Without(a \o b, d)
<1>. SUFFICES ASSUME NEW i \in 1 .. Len(a \o b) PROVE (a \o b)[i] # d
  BY DEF Without
<1>1. CASE i \in 1 .. Len(a)
  <2>1. (a \o b)[i] = a[i]
    BY <1>1
  <2>. QED BY <1>1, <2>1 DEF Without
<1>2. CASE i \notin 1 .. Len(a)
  <2>1. (a \o b)[i] = b[i - Len(a)] /\ i - Len(a) \in 1 .. Len(b)
    BY <1>2
  <2>. QED BY <2>1 DEF Without
<1>. QED BY <1>1, <1>2

\* The tokens of a path, its pieces as the parser sees them, and the words of it.
Steps(p) == FlattenSeq([i \in DOMAIN p |-> <<"/", p[i]>>])
Singles(p) == [i \in DOMAIN p |-> <<p[i]>>]
Word == STRING \ Delimiters

\* The words messages are built from, and all tokens there are.
Literals == Delimiters \cup {"Cookie:", "uu", "id", "theme", "dark", "HTTP/1.1", "Host:", "host", "message",
  "hello", "+", "world", "account", "ann", "password", "pass", "word"}
Token == STRING \cup Literals \cup Digits \cup Methods

\* A sequence over a set is one over every larger set.
LEMMA Wider ==
  ASSUME NEW A, NEW B, A \subseteq B, NEW s \in Seq(A)
  PROVE  s \in Seq(B)
OBVIOUS

\* Words, the literals and the delimiters are tokens; delimiters differ.
LEMMA WordsAreTokens == Word \subseteq Token /\ Literals \subseteq Token
BY DEF Word, Token

\* Three literals are tokens.
LEMMA Slash == "/" \in Token /\ Blank \in Token /\ "\n" \in Token
BY DEF Token, Literals, Delimiters

\* A blank is none of the other delimiters.
LEMMA Apart == Blank # "/" /\ Blank # "&" /\ Blank # "\n" /\ Blank # "\r" /\ Blank # "="
BY Zenon DEF Blank

\* A longer path has one more step; the empty one none; its words, flattened,
\* are the path.
LEMMA StepsGrow ==
  ASSUME NEW p \in Seq(Token), NEW w \in Token
  PROVE  Steps(Append(p, w)) = Append(Append(Steps(p), "/"), w) /\ Steps(p) \in Seq(Token)
<1>. DEFINE q == [i \in DOMAIN p |-> <<"/", p[i]>>]
            q2 == [i \in DOMAIN Append(p, w) |-> <<"/", Append(p, w)[i]>>]
            s == <<"/", w>>
<1>0. s \in Seq(Token) /\ \A i \in DOMAIN p : <<"/", p[i]>> \in Seq(Token)
  BY Slash
<1>1. q \in Seq(Seq(Token))
  <2>. DEFINE f(i) == <<"/", p[i]>>
  <2>1. \A i \in 1 .. Len(p) : f(i) \in Seq(Token)
    BY <1>0
  <2>. HIDE DEF f
  <2>2. [i \in 1 .. Len(p) |-> f(i)] \in Seq(Seq(Token))
    <3>1. Len(p) \in Nat
      OBVIOUS
    <3>. QED BY <2>1, <3>1
  <2>3. q = [i \in 1 .. Len(p) |-> f(i)]
    BY DEF f
  <2>. QED BY <2>2, <2>3
<1>2. q2 = Append(q, s)
  <2>1. DOMAIN p = 1 .. Len(p) /\ DOMAIN Append(p, w) = 1 .. Len(p) + 1 /\ Len(p) \in Nat
    OBVIOUS
  <2>2. \A i \in 1 .. Len(p) + 1 : q2[i] = Append(q, s)[i]
    <3>1. ASSUME NEW i \in 1 .. Len(p) PROVE q2[i] = Append(q, s)[i]
      <4>1. q2[i] = <<"/", p[i]>> /\ q[i] = <<"/", p[i]>>
        BY <2>1
      <4>2. Append(q, s)[i] = q[i]
        BY <1>1
      <4>. QED BY <4>1, <4>2
    <3>2. q2[Len(p) + 1] = Append(q, s)[Len(p) + 1]
      <4>1. q2[Len(p) + 1] = s
        BY <2>1
      <4>2. Len(q) = Len(p)
        BY <2>1
      <4>. HIDE DEF q, s, q2
      <4>. QED BY <1>0, <1>1, <4>1, <4>2
    <3>. QED BY <2>1, <3>1, <3>2
  <2>3. Append(q, s) \in Seq(Seq(Token)) /\ Len(Append(q, s)) = Len(p) + 1
    <3>1. Len(q) = Len(p)
      BY <2>1
    <3>. HIDE DEF q, s
    <3>. QED BY <1>0, <1>1, <3>1
  <2>4. DOMAIN q2 = 1 .. Len(p) + 1 /\ q2 = [i \in 1 .. Len(p) + 1 |-> q2[i]]
    BY <2>1
  <2>. DEFINE v == Append(q, s)
  <2>. HIDE DEF q, s, q2, v
  <2>5. DOMAIN v = 1 .. Len(p) + 1 /\ v = [i \in 1 .. Len(p) + 1 |-> v[i]]
    <3>1. v \in Seq(Seq(Token)) /\ Len(v) = Len(p) + 1
      BY <2>3 DEF v
    <3>2. \A x \in Seq(Seq(Token)) : DOMAIN x = 1 .. Len(x) /\ x = [i \in 1 .. Len(x) |-> x[i]]
      OBVIOUS
    <3>. QED BY <3>1, <3>2
  <2>6. q2 = v
    BY <2>2, <2>4, <2>5 DEF v
  <2>. QED BY <2>6 DEF v
<1>. HIDE DEF q, q2
<1>3. FlattenSeq(q2) = FlattenSeq(q) \o s /\ FlattenSeq(q) \in Seq(Token)
  BY <1>0, <1>1, <1>2, FlatGrows, FlatType
<1>4. FlattenSeq(q) \o s = Append(Append(FlattenSeq(q), "/"), w)
  BY <1>3
<1>. QED BY <1>3, <1>4 DEF Steps, q, q2

\* The empty path has no steps.
LEMMA StepsNone == Steps(<<>>) = <<>>
<1>1. [i \in DOMAIN <<>> |-> <<"/", <<>>[i]>>] = <<>>
  OBVIOUS
<1>. QED BY <1>1, FlatEmpty DEF Steps

\* Flattening pieces of one token each gives back the tokens.
LEMMA SinglesFlat ==
  ASSUME NEW T, NEW p \in Seq(T)
  PROVE  FlattenSeq(Singles(p)) = p /\ Singles(p) \in Seq(Seq(T))
<1>. DEFINE S == {q \in Seq(T) : FlattenSeq(Singles(q)) = q /\ Singles(q) \in Seq(Seq(T))}
<1>1. <<>> \in S
  <2>1. Singles(<<>>) = <<>>
    BY DEF Singles
  <2>2. <<>> \in Seq(T) /\ <<>> \in Seq(Seq(T))
    OBVIOUS
  <2>3. FlattenSeq(Singles(<<>>)) = <<>>
    BY <2>1, FlatEmpty
  <2>. QED BY <2>1, <2>2, <2>3
<1>2. ASSUME NEW q \in Seq(T), q \in S, NEW t \in T PROVE Append(q, t) \in S
  <2>1. Singles(Append(q, t)) = Append(Singles(q), <<t>>)
    BY DEF Singles
  <2>2. <<t>> \in Seq(T)
    OBVIOUS
  <2>3. FlattenSeq(Append(Singles(q), <<t>>)) = q \o <<t>>
    BY <1>2, <2>2, FlatGrows
  <2>4. Append(Singles(q), <<t>>) \in Seq(Seq(T))
    BY <1>2, <2>2
  <2>5. q \o <<t>> = Append(q, t) /\ Append(q, t) \in Seq(T)
    OBVIOUS
  <2>. QED BY <2>1, <2>3, <2>4, <2>5
<1>. HIDE DEF S
<1>3. p \in S
  BY <1>1, <1>2, SeqGrows, Zenon
<1>. QED BY <1>3 DEF S

\* The pieces between the slashes of a path are its words, after an empty one.
LEMMA StepsRead ==
  ASSUME NEW p \in Seq(Word)
  PROVE  /\ Steps(p) \in Seq(Token) /\ Without(Steps(p), Blank) /\ Without(Steps(p), "\n") /\ Without(Steps(p), "&")
         /\ p # <<>> => Pieces(Steps(p), "/") = <<<<>>>> \o Singles(p)
<1>. DEFINE P(q) == /\ Steps(q) \in Seq(Token) /\ Without(Steps(q), Blank) /\ Without(Steps(q), "\n") /\ Without(Steps(q), "&")
                    /\ Append(End(Steps(q), "/").done, End(Steps(q), "/").rest) = <<<<>>>> \o Singles(q)
                    /\ q # <<>> => End(Steps(q), "/").rest # <<>>
            S == {q \in Seq(Word) : P(q)}
<1>1. <<>> \in S
  <2>1. Singles(<<>>) = <<>>
    BY DEF Singles
  <2>2. <<>> \in Seq(Token) /\ Without(<<>>, Blank) /\ Without(<<>>, "\n") /\ Without(<<>>, "&")
    BY DEF Without
  <2>3. End(<<>>, "/").done = <<>> /\ End(<<>>, "/").rest = <<>>
    BY EndEmpty
  <2>4. P(<<>>)
    <3>. DEFINE z == <<>>
                s == Steps(z)
                g == Singles(z)
                e == End(z, "/")
    <3>1. s = z /\ g = z /\ e.done = z /\ e.rest = z
      BY <2>1, <2>3, StepsNone
    <3>2. Append(z, z) = <<z>> \o z
      OBVIOUS
    <3>3. z \in Seq(Token) /\ Without(z, Blank) /\ Without(z, "\n") /\ Without(z, "&")
      BY <2>2
    <3>. HIDE DEF z, s, g, e
    <3>4. s = z /\ Append(End(z, "/").done, End(z, "/").rest) = <<z>> \o g
      BY <3>1, <3>2 DEF e
    <3>5. s = z /\ Append(End(s, "/").done, End(s, "/").rest) = <<z>> \o g
      BY <3>4
    <3>. QED BY <3>3, <3>5 DEF z, s, g
  <2>5. <<>> \in Seq(Word)
    OBVIOUS
  <2>. HIDE DEF P
  <2>. QED BY <2>4, <2>5
<1>2. ASSUME NEW q \in Seq(Word), q \in S, NEW w \in Word PROVE Append(q, w) \in S
  <2>. DEFINE s == Steps(q)
              u == Steps(Append(q, w))
              e == End(s, "/")
              r == End(u, "/")
  <2>1. q \in Seq(Token) /\ w \in Token /\ w \notin Delimiters /\ Append(q, w) \in Seq(Word)
    <3>1. q \in Seq(Token)
      BY WordsAreTokens, Wider
    <3>2. Append(q, w) \in Seq(Word)
      OBVIOUS
    <3>. QED BY <3>1, <3>2, WordsAreTokens DEF Word
  <2>2. u = Append(Append(s, "/"), w) /\ s \in Seq(Token)
    BY <2>1, StepsGrow
  <2>3. w # Blank /\ w # "\n" /\ w # "&" /\ w # "/"
    BY <2>1 DEF Delimiters
  <2>4. u \in Seq(Token) /\ Append(s, "/") \in Seq(Token)
    <3>. HIDE DEF s, u
    <3>. QED BY <2>1, <2>2, Slash
  <2>5. Without(u, Blank) /\ Without(u, "\n") /\ Without(u, "&")
    <3>1. Without(s, Blank) /\ Without(s, "\n") /\ Without(s, "&")
      BY <1>2
    <3>2. Without(<<"/", w>>, Blank) /\ Without(<<"/", w>>, "\n") /\ Without(<<"/", w>>, "&") /\ <<"/", w>> \in Seq(Token)
      <4>1. <<"/", w>> \in Seq(Token)
        BY <2>1, Slash
      <4>2. "/" # Blank /\ "/" # "\n" /\ "/" # "&"
        BY Apart
      <4>. QED BY <2>3, <4>1, <4>2 DEF Without
    <3>. HIDE DEF s, u
    <3>3. u = s \o <<"/", w>>
      <4>1. \A x \in Seq(Token) : \A v1, v2 \in Token : Append(Append(x, v1), v2) = x \o <<v1, v2>>
        OBVIOUS
      <4>. QED BY <2>1, <2>2, <4>1, Slash
    <3>. QED BY <2>2, <3>1, <3>2, <3>3, WithoutJoin
  <2>6. r = [done |-> Append(e.done, e.rest), rest |-> <<w>>]
    <3>. HIDE DEF s, u
    <3>1. End(Append(s, "/"), "/") = Take(e, "/", "/")
      BY <2>2, Slash, EndGrows
    <3>2. r = Take(Take(e, "/", "/"), w, "/")
      BY <2>1, <2>2, <2>4, <3>1, EndGrows
    <3>. HIDE DEF e, r
    <3>3. Take(e, "/", "/") = [done |-> Append(e.done, e.rest), rest |-> <<>>]
      BY DEF Take
    <3>. DEFINE m == Take(e, "/", "/")
    <3>4. m.done = Append(e.done, e.rest) /\ m.rest = <<>>
      BY <3>3
    <3>5. r = [done |-> m.done, rest |-> Append(m.rest, w)]
      BY <2>3, <3>2 DEF Take
    <3>. HIDE DEF m
    <3>6. Append(m.rest, w) = <<w>>
      BY <3>4
    <3>. QED BY <3>4, <3>5, <3>6
  <2>7. Append(e.done, e.rest) = <<<<>>>> \o Singles(q)
    BY <1>2
  <2>8. Singles(Append(q, w)) = Append(Singles(q), <<w>>) /\ Singles(q) \in Seq(Seq(Token))
    <3>1. Singles(Append(q, w)) = Append(Singles(q), <<w>>)
      BY DEF Singles
    <3>. QED BY <2>1, <3>1, SinglesFlat
  <2>. HIDE DEF s, u, e, r
  <2>9. Append(r.done, r.rest) = <<<<>>>> \o Singles(Append(q, w)) /\ r.rest # <<>>
    <3>1. r.done = <<<<>>>> \o Singles(q) /\ r.rest = <<w>>
      BY <2>6, <2>7
    <3>2. <<<<>>>> \in Seq(Seq(Token)) /\ <<w>> \in Seq(Token)
      <4>. DEFINE z == <<>>
      <4>1. z \in Seq(Token)
        OBVIOUS
      <4>. HIDE DEF z
      <4>2. <<z>> \in Seq(Seq(Token))
        BY <4>1
      <4>. QED BY <2>1, <4>2 DEF z
    <3>3. Append(<<<<>>>> \o Singles(q), <<w>>) = <<<<>>>> \o Append(Singles(q), <<w>>)
      BY <2>8, <3>2
    <3>. QED BY <2>8, <3>1, <3>3
  <2>. QED BY <2>1, <2>4, <2>5, <2>9 DEF r, u
<1>. HIDE DEF S
<1>3. p \in S
  BY <1>1, <1>2, SeqGrows, Zenon
<1>4. P(p)
  BY <1>3 DEF S
<1>5. p # <<>> => Pieces(Steps(p), "/") = Append(End(Steps(p), "/").done, End(Steps(p), "/").rest)
  BY <1>4, PiecesEnd
<1>. QED BY <1>4, <1>5

\* parseServices finds the page in what the browser writes for it.
LEMMA PathRead ==
  ASSUME NEW p \in Seq(Word)
  PROVE  /\ Path(p) \in Seq(Token) /\ Without(Path(p), Blank) /\ Without(Path(p), "\n") /\ Without(Path(p), "&")
         /\ Path(p) # <<>>
         /\ FlattenSeq(Tail(Pieces(Path(p), "/"))) = p
<1>1. CASE p = <<>>
  <2>1. Path(p) = <<"/">>
    BY <1>1 DEF Path
  <2>2. <<"/">> \in Seq(Token) /\ Without(<<"/">>, Blank) /\ Without(<<"/">>, "\n") /\ Without(<<"/">>, "&")
    <3>1. <<"/">> \in Seq(Token) /\ "/" # Blank /\ "/" # "\n" /\ "/" # "&"
      BY Slash, Apart
    <3>. QED BY <3>1 DEF Without
  <2>3. Pieces(<<"/">>, "/") = <<<<>>>>
    <3>1. <<>> \in Seq(Token) /\ Without(<<>>, "/") /\ <<"/">> = <<>> \o <<"/">> \o <<>>
      BY DEF Without
    <3>2. Pieces(<<>> \o <<"/">> \o <<>>, "/") = <<<<>>>> \o <<>>
      <4>1. Pieces(<<>> \o <<"/">> \o <<>>, "/") = <<<<>>>> \o Pieces(<<>>, "/")
        BY <3>1, PiecesJoin, Slash
      <4>. QED BY <4>1, PiecesOfNothing
    <3>. QED BY <3>1, <3>2
  <2>4. FlattenSeq(Tail(<<<<>>>>)) = <<>>
    <3>1. Tail(<<<<>>>>) = <<>>
      OBVIOUS
    <3>. QED BY <3>1, FlatEmpty
  <2>5. <<"/">> # <<>>
    OBVIOUS
  <2>6. FlattenSeq(Tail(Pieces(<<"/">>, "/"))) = <<>>
    BY <2>3, <2>4, Zenon
  <2>7. Path(<<>>) = <<"/">>
    BY <1>1, <2>1
  <2>. DEFINE c == <<"/">>
  <2>. HIDE DEF c
  <2>8. Path(p) = c /\ c # <<>> /\ c \in Seq(Token) /\ Without(c, Blank) /\ Without(c, "\n") /\ Without(c, "&")
        /\ FlattenSeq(Tail(Pieces(c, "/"))) = <<>>
    BY <2>1, <2>2, <2>5, <2>6 DEF c
  <2>. QED BY <1>1, <2>8
<1>2. CASE p # <<>>
  <2>1. Path(p) = Steps(p)
    BY <1>2 DEF Path, Steps
  <2>2. Pieces(Steps(p), "/") = <<<<>>>> \o Singles(p)
    BY <1>2, StepsRead
  <2>3. p \in Seq(Token)
    BY WordsAreTokens, Wider
  <2>4. Singles(p) \in Seq(Seq(Token)) /\ FlattenSeq(Singles(p)) = p
    BY <2>3, SinglesFlat
  <2>5. Tail(<<<<>>>> \o Singles(p)) = Singles(p)
    BY <2>4
  <2>6. Steps(p) # <<>>
    BY <2>2, <2>4, PiecesOfNothing
  <2>. QED BY <2>1, <2>2, <2>4, <2>5, <2>6, StepsRead
<1>. QED BY <1>1, <1>2
-----------------------------------------------------------------------------
(***************************************************************************)
(* Pairs                                                                   *)
(***************************************************************************)

\* std::string::find returns the first place of a token, or npos.
LEMMA FindFirst ==
  ASSUME NEW s, NEW t, Len(s) \in Nat, NEW k \in 1 .. Len(s), s[k] = t, \A j \in 1 .. k - 1 : s[j] # t
  PROVE  Find(s, t) = k
<1>. DEFINE I == {i \in 1 .. Len(s) : s[i] = t}
<1>1. k \in I /\ \A i \in I : k <= i
  OBVIOUS
<1>2. Min(I) = k
  <2>1. \A x \in I : (\A y \in I : x <= y) => x = k
    BY <1>1
  <2>. HIDE DEF I
  <2>. QED BY <1>1, <2>1 DEF Min
<1>3. Find(s, t) = IF I # {} THEN Min(I) ELSE 0
  BY DEF Find, SelectInSeq
<1>. HIDE DEF I
<1>. QED BY <1>1, <1>2, <1>3

\* find returns npos for a token that does not occur.
LEMMA FindNone ==
  ASSUME NEW s, NEW t, Without(s, t)
  PROVE  Find(s, t) = 0
BY DEF Find, SelectInSeq, Without

\* The delimiters differ.
LEMMA Distinct == /\ Semicolon # "=" /\ Semicolon # "\r" /\ Semicolon # "\n" /\ Semicolon # "/" /\ Semicolon # "&" /\ Semicolon # Blank
                  /\ Semicolon \in Token /\ "=" \in Token /\ "\r" \in Token /\ "&" \in Token
<1>1. /\ Semicolon # "=" /\ Semicolon # "\r" /\ Semicolon # "\n" /\ Semicolon # "/" /\ Semicolon # "&" /\ Semicolon # Blank
  BY Zenon DEF Semicolon, Blank
<1>. QED BY <1>1 DEF Token, Literals, Delimiters

\* A cookie or a field as text: its name, an equals sign, its value.
Pair(c) == c.name \o <<"=">> \o c.value

\* CookiePair gives back name and value of a pair that ends with a semicolon, or
\* with the carriage return of its line.
LEMMA PairRead ==
  ASSUME NEW T, NEW c, c = [name |-> c.name, value |-> c.value],
         c.name \in Seq(T), c.value \in Seq(T), NEW x \in {Semicolon, "\r"}, x \in T, "=" \in T,
         Without(c.name, "="), Without(c.name, Semicolon), Without(c.value, Semicolon)
  PROVE  CookiePair(Pair(c) \o <<x>>) = c
<1>. DEFINE n == c.name
            v == c.value
            p == n \o <<"=">> \o v \o <<x>>
            k == Len(n) + 1
<1>1. n \in Seq(T) /\ v \in Seq(T) /\ c = [name |-> n, value |-> v]
  OBVIOUS
<1>2. Without(n, "=") /\ Without(n, Semicolon) /\ Without(v, Semicolon)
  OBVIOUS
<1>3. p = Pair(c) \o <<x>>
  BY DEF Pair
<1>. HIDE DEF n, v
<1>4. /\ Len(p) = Len(n) + Len(v) + 2 /\ Len(p) \in Nat /\ Len(n) \in Nat /\ Len(v) \in Nat
      /\ p[k] = "=" /\ p[Len(p)] = x
      /\ \A i \in 1 .. Len(n) : p[i] = n[i]
      /\ \A i \in 1 .. Len(v) : p[k + i] = v[i]
  BY <1>1
<1>5. SubSeq(p, 1, k - 1) = n
  BY <1>1
<1>6. SubSeq(p, k + 1, Len(p) - 1) = v
  BY <1>1
<1>. HIDE DEF p
<1>7. Find(p, "=") = k
  <2>1. k \in 1 .. Len(p) /\ \A j \in 1 .. k - 1 : p[j] # "="
    BY <1>2, <1>4 DEF Without
  <2>. HIDE DEF k
  <2>. QED BY <1>4, <2>1, FindFirst
<1>8. ASSUME NEW j \in 1 .. Len(p) - 1 PROVE p[j] # Semicolon
  <2>1. CASE j \in 1 .. Len(n)
    BY <1>2, <1>4, <2>1 DEF Without
  <2>2. CASE j = k
    BY <1>4, <2>2, Distinct
  <2>3. CASE j - k \in 1 .. Len(v)
    <3>1. p[k + (j - k)] = v[j - k] /\ k + (j - k) = j
      BY <1>4, <2>3
    <3>. QED BY <1>2, <2>3, <3>1 DEF Without
  <2>. QED BY <1>4, <2>1, <2>2, <2>3
<1>9. CASE x = Semicolon
  <2>1. Len(p) \in 1 .. Len(p) /\ p[Len(p)] = Semicolon
    BY <1>4, <1>9
  <2>. DEFINE m == Len(p)
  <2>2. Find(p, Semicolon) = m
    BY <1>4, <1>8, <2>1, FindFirst
  <2>3. m # 0
    BY <1>4
  <2>4. CookiePair(p) = [name |-> n, value |-> v]
    <3>1. k # 0
      BY <1>4
    <3>. HIDE DEF k, m
    <3>. QED BY <1>5, <1>6, <1>7, <2>2, <2>3, <3>1 DEF CookiePair, m
  <2>. QED BY <1>1, <1>3, <2>4
<1>10. CASE x # Semicolon
  <2>1. Without(p, Semicolon)
    <3>1. \A j \in 1 .. Len(p) : j \in 1 .. Len(p) - 1 \/ j = Len(p)
      BY <1>4
    <3>. QED BY <1>4, <1>8, <1>10, <3>1 DEF Without
  <2>2. Find(p, Semicolon) = 0
    BY <2>1, FindNone
  <2>4. CookiePair(p) = [name |-> n, value |-> v]
    <3>1. k # 0
      BY <1>4
    <3>. HIDE DEF k
    <3>. QED BY <1>5, <1>6, <1>7, <2>2, <3>1 DEF CookiePair
  <2>. QED BY <1>1, <1>3, <2>4
<1>. QED BY <1>9, <1>10

\* When every name occurs once, the map the parser builds has each pair's value.
LEMMA Firsts ==
  ASSUME NEW U, NEW pairs \in Seq(U), \A i, j \in DOMAIN pairs : pairs[i].name = pairs[j].name => i = j
  PROVE  FirstOfEach(pairs) = [n \in NamesOf(pairs) |-> ValueOf(pairs, n)]
<1>1. ASSUME NEW n \in NamesOf(pairs)
      PROVE  pairs[CHOOSE i \in DOMAIN pairs : pairs[i].name = n
               /\ \A j \in 1 .. i - 1 : pairs[j].name # n].value = ValueOf(pairs, n)
  <2>1. PICK k \in DOMAIN pairs : pairs[k].name = n
    BY DEF NamesOf
  <2>2. \A i \in DOMAIN pairs : pairs[i].name = n => i = k
    BY <2>1
  <2>3. k \in 1 .. Len(pairs) /\ Len(pairs) \in Nat /\ DOMAIN pairs = 1 .. Len(pairs)
    OBVIOUS
  <2>4. \A j \in 1 .. k - 1 : pairs[j].name # n
    BY <2>2, <2>3
  <2>5. (CHOOSE i \in DOMAIN pairs : pairs[i].name = n) = k
    BY <2>1, <2>2
  <2>6. (CHOOSE i \in DOMAIN pairs : pairs[i].name = n /\ \A j \in 1 .. i - 1 : pairs[j].name # n) = k
    BY <2>1, <2>2, <2>4
  <2>. QED BY <2>5, <2>6 DEF ValueOf
<1>. QED BY <1>1 DEF FirstOfEach, NamesOf

\* Lines of which one has pairs have just these.
LEMMA FlatOne ==
  ASSUME NEW T, NEW ss \in Seq(Seq(T)), NEW k \in Nat \ {0}, \A i \in DOMAIN ss : i # k => ss[i] = <<>>
  PROVE  FlattenSeq(ss) = IF k \in DOMAIN ss THEN ss[k] ELSE <<>>
<1>. DEFINE n == Len(ss)
<1>1. n \in Nat /\ DOMAIN ss = 1 .. n /\ \A i \in 1 .. n : ss[i] \in Seq(T)
  OBVIOUS
<1>2. PICK f \in [0 .. n -> Seq(T)] :
           /\ f[0] = <<>>
           /\ \A i \in 1 .. n : f[i] = f[i - 1] \o ss[i]
           /\ FlattenSeq(ss) = f[n]
  BY FlatDef
<1>. DEFINE I == {i \in 0 .. n : f[i] = IF k <= i THEN ss[k] ELSE <<>>}
<1>. HIDE DEF n
<1>3. 0 \in I
  BY <1>1, <1>2
<1>4. ASSUME NEW i \in 0 .. n - 1, i \in I PROVE i + 1 \in I
  <2>1. i + 1 \in 1 .. n /\ i + 1 \in 0 .. n /\ (i + 1) - 1 = i
    BY <1>1
  <2>2. f[i + 1] = f[i] \o ss[i + 1]
    BY <1>2, <2>1
  <2>3. CASE i + 1 < k
    <3>1. f[i] = <<>> /\ ss[i + 1] = <<>>
      BY <1>1, <1>4, <2>1, <2>3
    <3>2. f[i + 1] = <<>>
      BY <2>2, <3>1
    <3>. QED BY <2>1, <2>3, <3>2
  <2>4. CASE i + 1 = k
    <3>1. f[i] = <<>> /\ ss[k] \in Seq(T)
      BY <1>1, <1>4, <2>1, <2>4
    <3>2. f[i + 1] = ss[k]
      BY <2>2, <2>4, <3>1
    <3>. QED BY <2>1, <2>4, <3>2
  <2>5. CASE k < i + 1
    <3>1. f[i] = ss[k] /\ ss[i + 1] = <<>> /\ ss[k] \in Seq(T)
      <4>1. k <= i /\ k \in 1 .. n /\ i + 1 # k
        BY <1>1, <2>5
      <4>. QED BY <1>1, <1>4, <2>1, <4>1
    <3>2. f[i + 1] = ss[k]
      BY <2>2, <3>1
    <3>. QED BY <2>1, <2>5, <3>2
  <2>. QED BY <2>1, <2>3, <2>4, <2>5
<1>5. \A i \in 0 .. n : i \in I
  <2>. HIDE DEF I
  <2>. QED BY <1>1, <1>3, <1>4, Induct, Zenon
<1>. QED BY <1>1, <1>2, <1>5
-----------------------------------------------------------------------------
(***************************************************************************)
(* Lists of pairs                                                          *)
(***************************************************************************)

\* Cookies and fields over a set of tokens; pair number i of a list, as text.
Fields(A) == [name : Seq(A), value : Seq(A)]
Put(i, c, between) == (IF i = 1 THEN <<>> ELSE between) \o c.name \o <<"=">> \o c.value

\* Names and values are sequences of tokens, and so is the pair as text.
LEMMA FieldType ==
  ASSUME NEW A, A \subseteq Token, NEW c \in Fields(A)
  PROVE  /\ c.name \in Seq(A) /\ c.value \in Seq(A) /\ c = [name |-> c.name, value |-> c.value]
         /\ c.name \in Seq(Token) /\ c.value \in Seq(Token)
         /\ Pair(c) \in Seq(Token)
<1>1. c.name \in Seq(A) /\ c.value \in Seq(A) /\ c = [name |-> c.name, value |-> c.value]
  BY DEF Fields
<1>2. c.name \in Seq(Token) /\ c.value \in Seq(Token)
  BY <1>1, Wider
<1>3. Pair(c) \in Seq(Token)
  BY <1>2, Distinct DEF Pair
<1>. QED BY <1>1, <1>2, <1>3

\* A delimiter that is in no name or value is not in the pair.
LEMMA PairWithout ==
  ASSUME NEW A, A \subseteq Token, NEW c \in Fields(A), NEW d, d \notin A, d # "="
  PROVE  Without(c.name, d) /\ Without(c.value, d) /\ Without(Pair(c), d)
<1>. DEFINE n == c.name
            v == c.value
            m == n \o <<"=">>
<1>1. n \in Seq(A) /\ v \in Seq(A) /\ n \in Seq(Token) /\ v \in Seq(Token) /\ Pair(c) = m \o v
  BY FieldType DEF Pair
<1>. HIDE DEF n, v
<1>2. Without(n, d) /\ Without(v, d)
  <2>1. (\A i \in 1 .. Len(n) : n[i] \in A) /\ (\A i \in 1 .. Len(v) : v[i] \in A)
    BY <1>1
  <2>. QED BY <2>1 DEF Without
<1>3. Without(<<"=">>, d) /\ <<"=">> \in Seq(Token)
  BY Distinct DEF Without
<1>4. m \in Seq(Token)
  BY <1>1, <1>3
<1>5. Without(m, d)
  BY <1>1, <1>2, <1>3, WithoutJoin
<1>. HIDE DEF m
<1>6. Without(m \o v, d)
  BY <1>1, <1>2, <1>4, <1>5, WithoutJoin
<1>. QED BY <1>1, <1>2, <1>6 DEF n, v

\* Pair number i comes after a separator unless it is the first.
LEMMA PutIs ==
  ASSUME NEW A, A \subseteq Token, NEW c \in Fields(A), NEW i, NEW between \in Seq(Token)
  PROVE  Put(i, c, between) = (IF i = 1 THEN <<>> ELSE between) \o Pair(c) /\ Put(i, c, between) \in Seq(Token)
<1>. DEFINE b == IF i = 1 THEN <<>> ELSE between
<1>1. b \in Seq(Token)
  OBVIOUS
<1>. HIDE DEF b
<1>2. Put(i, c, between) = b \o c.name \o <<"=">> \o c.value
  BY DEF Put, b
<1>3. c.name \in Seq(Token) /\ c.value \in Seq(Token) /\ Pair(c) = c.name \o <<"=">> \o c.value
  BY FieldType DEF Pair
<1>4. b \o c.name \o <<"=">> \o c.value = b \o Pair(c)
  <2>1. <<"=">> \in Seq(Token)
    BY Distinct
  <2>. DEFINE n == c.name
              v == c.value
              g == <<"=">>
  <2>2. n \in Seq(Token) /\ v \in Seq(Token) /\ g \in Seq(Token) /\ Pair(c) = n \o g \o v
    BY <1>3, <2>1
  <2>. HIDE DEF n, v, g
  <2>3. b \o n \o g \o v = b \o (n \o g \o v)
    BY <1>1, <2>2
  <2>. QED BY <2>2, <2>3 DEF n, v, g
<1>5. b \o Pair(c) \in Seq(Token)
  BY <1>1, FieldType
<1>. QED BY <1>2, <1>4, <1>5 DEF b

\* A longer list ends with its last pair; the empty one is empty; a delimiter that
\* is in no pair and not in the separator is not in the list.
LEMMA ListedGrows ==
  ASSUME NEW A, A \subseteq Token, NEW cs \in Seq(Fields(A)), NEW c \in Fields(A), NEW between \in Seq(Token)
  PROVE  /\ Listed(cs, between) \in Seq(Token)
         /\ Listed(Append(cs, c), between) =
              Listed(cs, between) \o ((IF cs = <<>> THEN <<>> ELSE between) \o Pair(c))
<1>. DEFINE F(i) == Put(i, cs[i], between)
            n == Len(cs)
            q == [i \in 1 .. n |-> F(i)]
            u == Append(cs, c)
            r == [i \in 1 .. n + 1 |-> Put(i, u[i], between)]
            x == Put(n + 1, c, between)
<1>0. n \in Nat /\ DOMAIN cs = 1 .. n /\ DOMAIN u = 1 .. n + 1 /\ u[n + 1] = c
      /\ (\A i \in 1 .. n : u[i] = cs[i] /\ cs[i] \in Fields(A)) /\ (cs = <<>> <=> n = 0)
  OBVIOUS
<1>1. Listed(cs, between) = FlattenSeq(q) /\ Listed(u, between) = FlattenSeq(r)
  <2>1. q = [i \in DOMAIN cs |-> Put(i, cs[i], between)]
    BY <1>0
  <2>2. r = [i \in DOMAIN u |-> Put(i, u[i], between)]
    BY <1>0
  <2>. HIDE DEF q, r, u
  <2>. QED BY <2>1, <2>2 DEF Listed, Put
<1>. HIDE DEF u
<1>2. \A i \in 1 .. n : F(i) \in Seq(Token)
  BY <1>0, PutIs
<1>3. q \in Seq(Seq(Token)) /\ Len(q) = n
  <2>. HIDE DEF F
  <2>. QED BY <1>0, <1>2
<1>4. x \in Seq(Token) /\ x = (IF cs = <<>> THEN <<>> ELSE between) \o Pair(c)
  <2>1. n + 1 = 1 <=> cs = <<>>
    BY <1>0
  <2>2. x = (IF n + 1 = 1 THEN <<>> ELSE between) \o Pair(c) /\ x \in Seq(Token)
    BY PutIs
  <2>. HIDE DEF x
  <2>. QED BY <2>1, <2>2
<1>5. r = Append(q, x)
  <2>1. \A i \in 1 .. n : q[i] = F(i) /\ r[i] = Put(i, u[i], between)
    BY <1>0
  <2>2. \A i \in 1 .. n : q[i] = r[i]
    BY <1>0, <2>1
  <2>3. r[n + 1] = x
    BY <1>0
  <2>4. DOMAIN r = 1 .. n + 1 /\ r = [i \in 1 .. n + 1 |-> r[i]]
    OBVIOUS
  <2>. HIDE DEF q, r, x, n
  <2>5. Append(q, x) = [i \in 1 .. n + 1 |-> IF i = n + 1 THEN x ELSE q[i]]
    BY <1>3, <1>4
  <2>6. \A i \in 1 .. n + 1 : r[i] = IF i = n + 1 THEN x ELSE q[i]
    BY <1>0, <2>2, <2>3
  <2>. QED BY <2>4, <2>5, <2>6
<1>. HIDE DEF q, r, x
<1>6. FlattenSeq(Append(q, x)) = FlattenSeq(q) \o x /\ FlattenSeq(q) \in Seq(Token)
  BY <1>3, <1>4, FlatGrows, FlatType
<1>7. Listed(u, between) = Listed(cs, between) \o x
  BY <1>1, <1>5, <1>6
<1>. QED BY <1>1, <1>4, <1>6, <1>7 DEF u

\* No pairs, no text.
LEMMA ListedNone == ASSUME NEW between PROVE Listed(<<>>, between) = <<>>
BY FlatEmpty DEF Listed

\* What is in no pair and not between them is not in the list.
LEMMA ListedWithout ==
  ASSUME NEW A, A \subseteq Token, NEW cs \in Seq(Fields(A)), NEW between \in Seq(Token),
         NEW d, d \notin A, d # "=", Without(between, d)
  PROVE  Without(Listed(cs, between), d)
<1>. DEFINE S == {x \in Seq(Fields(A)) : Without(Listed(x, between), d)}
<1>1. <<>> \in S
  <2>1. Without(<<>>, d) /\ <<>> \in Seq(Fields(A))
    BY DEF Without
  <2>. QED BY <2>1, ListedNone
<1>2. ASSUME NEW x \in Seq(Fields(A)), x \in S, NEW c \in Fields(A) PROVE Append(x, c) \in S
  <2>. DEFINE y == Listed(x, between)
              b == IF x = <<>> THEN <<>> ELSE between
  <2>1. Listed(Append(x, c), between) = y \o (b \o Pair(c)) /\ y \in Seq(Token)
    BY ListedGrows
  <2>2. Without(y, d)
    BY <1>2
  <2>3. Without(b, d) /\ b \in Seq(Token)
    BY DEF Without
  <2>4. Without(Pair(c), d)
    BY PairWithout
  <2>. HIDE DEF y, b
  <2>5. Without(b \o Pair(c), d) /\ b \o Pair(c) \in Seq(Token)
    BY <2>3, <2>4, FieldType, WithoutJoin
  <2>6. Without(y \o (b \o Pair(c)), d)
    BY <2>1, <2>2, <2>5, WithoutJoin
  <2>7. Append(x, c) \in Seq(Fields(A))
    OBVIOUS
  <2>. QED BY <2>1, <2>6, <2>7
<1>. HIDE DEF S
<1>3. cs \in S
  BY <1>1, <1>2, SeqGrows, Zenon
<1>. QED BY <1>3 DEF S

\* Reading all but the first token of a separator's text.
LEMMA EndTail ==
  ASSUME NEW T, NEW a \in Seq(T), NEW d, NEW x \in Seq(T), Without(x, d)
  PROVE  End(a \o x, d) = [done |-> End(a, d).done, rest |-> End(a, d).rest \o x]
<1>. DEFINE e == End(a, d)
            S == {y \in Seq(T) : Without(y, d) => End(a \o y, d) = [done |-> e.done, rest |-> e.rest \o y]}
<1>0. e \in Ends(T) /\ e = [done |-> e.done, rest |-> e.rest] /\ e.rest \in Seq(T)
  BY EndType DEF Ends
<1>. HIDE DEF e
<1>1. <<>> \in S
  <2>1. a \o <<>> = a /\ e.rest \o <<>> = e.rest /\ <<>> \in Seq(T)
    BY <1>0
  <2>2. End(a, d) = e
    BY DEF e
  <2>3. End(a \o <<>>, d) = [done |-> e.done, rest |-> e.rest \o <<>>]
    BY <1>0, <2>1, <2>2, Zenon
  <2>. QED BY <2>1, <2>3
<1>2. ASSUME NEW y \in Seq(T), y \in S, NEW t \in T PROVE Append(y, t) \in S
  <2>. SUFFICES ASSUME Without(Append(y, t), d)
                PROVE  End(a \o Append(y, t), d) = [done |-> e.done, rest |-> e.rest \o Append(y, t)]
    <3>1. Append(y, t) \in Seq(T)
      OBVIOUS
    <3>. QED BY <3>1
  <2>1. Without(y, d) /\ t # d
    <3>1. \A i \in 1 .. Len(y) : Append(y, t)[i] = y[i] /\ i \in 1 .. Len(Append(y, t))
      OBVIOUS
    <3>2. Append(y, t)[Len(y) + 1] = t /\ Len(y) + 1 \in 1 .. Len(Append(y, t))
      OBVIOUS
    <3>. QED BY <3>1, <3>2 DEF Without
  <2>2. End(a \o y, d) = [done |-> e.done, rest |-> e.rest \o y]
    BY <1>2, <2>1
  <2>3. a \o Append(y, t) = Append(a \o y, t) /\ a \o y \in Seq(T)
    OBVIOUS
  <2>4. End(Append(a \o y, t), d) = Take(End(a \o y, d), t, d)
    BY <2>3, EndGrows
  <2>5. e.rest \o Append(y, t) = Append(e.rest \o y, t)
    BY <1>0
  <2>. QED BY <2>1, <2>2, <2>3, <2>4, <2>5 DEF Take
<1>. HIDE DEF S
<1>3. x \in S
  BY <1>1, <1>2, SeqGrows, Zenon
<1>. QED BY <1>3 DEF S, e

\* All pairs but the last, each with what is left of the separator.
Closed(cs, x) == [i \in 1 .. Len(cs) - 1 |-> Pair(cs[i]) \o x]

\* The pieces of a list: every pair but the last with the rest of its separator,
\* then the last pair.
LEMMA ListedRead ==
  ASSUME NEW A, A \subseteq Token, NEW cs \in Seq(Fields(A)), cs # <<>>,
         NEW d \in Token, d \notin A, d # "=", NEW x \in Seq(Token), Without(x, d)
  PROVE  End(Listed(cs, x \o <<d>>), d) = [done |-> Closed(cs, x), rest |-> Pair(cs[Len(cs)])]
<1>. DEFINE b == x \o <<d>>
            S == {y \in Seq(Fields(A)) : y # <<>> =>
                    End(Listed(y, b), d) = [done |-> Closed(y, x), rest |-> Pair(y[Len(y)])]}
<1>0. b \in Seq(Token)
  OBVIOUS
<1>1. <<>> \in S
  OBVIOUS
<1>2. ASSUME NEW y \in Seq(Fields(A)), y \in S, NEW c \in Fields(A) PROVE Append(y, c) \in S
  <2>. DEFINE u == Append(y, c)
              L == Listed(y, b)
              n == Len(y)
  <2>0. u \in Seq(Fields(A)) /\ u # <<>> /\ Len(u) = n + 1 /\ n \in Nat /\ u[n + 1] = c
        /\ \A i \in 1 .. n : u[i] = y[i]
    OBVIOUS
  <2>1. Without(Pair(c), d) /\ Pair(c) \in Seq(Token)
    BY PairWithout, FieldType
  <2>2. End(Pair(c), d) = [done |-> <<>>, rest |-> Pair(c)]
    BY <2>1, EndWithout
  <2>3. End(Listed(u, b), d) = [done |-> Closed(u, x), rest |-> Pair(c)]
    <3>1. CASE y = <<>>
      <4>1. L = <<>> /\ Listed(u, b) = L \o (<<>> \o Pair(c))
        <5>. HIDE DEF b
        <5>. QED BY <1>0, <3>1, ListedGrows, ListedNone
      <4>2. Listed(u, b) = Pair(c)
        <5>1. <<>> \o (<<>> \o Pair(c)) = Pair(c)
          BY <2>1
        <5>. HIDE DEF u, b, L
        <5>. QED BY <4>1, <5>1
      <4>3. Closed(u, x) = <<>>
        <5>1. Len(u) - 1 = 0
          BY <3>1
        <5>. HIDE DEF u
        <5>2. Closed(u, x) = [i \in 1 .. 0 |-> Pair(u[i]) \o x]
          BY <5>1 DEF Closed
        <5>. QED BY <5>2
      <4>. HIDE DEF u, b
      <4>. QED BY <2>2, <4>2, <4>3
    <3>2. CASE y # <<>>
      <4>1. Listed(u, b) = L \o (b \o Pair(c)) /\ L \in Seq(Token)
        <5>. HIDE DEF b
        <5>. QED BY <1>0, <3>2, ListedGrows
      <4>2. End(L, d) = [done |-> Closed(y, x), rest |-> Pair(y[n])]
        BY <1>2, <3>2
      <4>. HIDE DEF L
      <4>3. L \o (b \o Pair(c)) = (L \o x) \o <<d>> \o Pair(c) /\ L \o x \in Seq(Token)
        BY <2>1, <4>1
      <4>4. End(L \o x, d) = [done |-> Closed(y, x), rest |-> Pair(y[n]) \o x]
        BY <4>1, <4>2, EndTail
      <4>5. End((L \o x) \o <<d>> \o Pair(c), d) =
              [done |-> Append(End(L \o x, d).done, End(L \o x, d).rest) \o End(Pair(c), d).done,
               rest |-> End(Pair(c), d).rest]
        BY <2>1, <4>3, EndJoin
      <4>6. Append(Closed(y, x), Pair(y[n]) \o x) = Closed(u, x)
        <5>. DEFINE F(i) == Pair(y[i]) \o x
        <5>1. n \in Nat \ {0}
          BY <2>0, <3>2
        <5>2. Closed(y, x) = [i \in 1 .. n - 1 |-> F(i)]
          BY DEF Closed
        <5>3. Closed(u, x) = [i \in 1 .. n |-> Pair(u[i]) \o x]
          BY <2>0 DEF Closed
        <5>4. Closed(u, x) = [i \in 1 .. n |-> F(i)]
          <6>. HIDE DEF u, n
          <6>1. \A i \in 1 .. n : Pair(u[i]) \o x = F(i)
            BY <2>0
          <6>. HIDE DEF F
          <6>. QED BY <5>3, <6>1
        <5>. HIDE DEF F, n
        <5>5. Append([i \in 1 .. n - 1 |-> F(i)], F(n)) = [i \in 1 .. n |-> F(i)]
          BY <5>1
        <5>. QED BY <5>2, <5>4, <5>5 DEF F
      <4>7. Closed(u, x) \o <<>> = Closed(u, x)
        <5>1. ASSUME NEW i \in 1 .. n PROVE Pair(y[i]) \o x \in Seq(Token)
          <6>1. y[i] \in Fields(A)
            OBVIOUS
          <6>2. Pair(y[i]) \in Seq(Token)
            BY <6>1, FieldType
          <6>. QED BY <6>2
        <5>. DEFINE F(i) == Pair(u[i]) \o x
        <5>2. \A i \in 1 .. n : F(i) \in Seq(Token)
          BY <2>0, <5>1
        <5>3. Closed(u, x) = [i \in 1 .. n |-> F(i)]
          BY <2>0 DEF Closed
        <5>. HIDE DEF F, n
        <5>4. Closed(u, x) \in Seq(Seq(Token))
          BY <2>0, <5>2, <5>3
        <5>. QED BY <5>4
      <4>. DEFINE e == End(L \o x, d)
                  g == End(Pair(c), d)
                  z == <<>>
      <4>8. e.done = Closed(y, x) /\ e.rest = Pair(y[n]) \o x /\ g.done = z /\ g.rest = Pair(c)
        BY <2>2, <4>4
      <4>9. End(Listed(u, b), d) = [done |-> Append(e.done, e.rest) \o g.done, rest |-> g.rest]
        BY <4>1, <4>3, <4>5
      <4>10. Closed(u, x) \o z = Closed(u, x)
        BY <4>7
      <4>. HIDE DEF e, g, z, u, b, n
      <4>. QED BY <4>6, <4>8, <4>9, <4>10
    <3>. QED BY <3>1, <3>2
  <2>. HIDE DEF b
  <2>. QED BY <2>0, <2>3
<1>. HIDE DEF S, b
<1>3. cs \in S
  BY <1>1, <1>2, SeqGrows, Zenon
<1>. QED BY <1>3 DEF S, b
-----------------------------------------------------------------------------
(***************************************************************************)
(* Cookie lines and forms                                                  *)
(***************************************************************************)

\* Tokens that are no delimiter.
Plain == Token \ Delimiters

\* The literals the proofs name are tokens, and apart from each other.
LEMMA Literal ==
  /\ {"\r", "\n", "/", "=", "&", Blank, Semicolon, "Cookie:", "HTTP/1.1", "Host:", "host"} \subseteq Token
  /\ {"uu", "id", "theme", "dark", "message", "hello", "+", "world", "account", "ann",
      "password", "pass", "word"} \subseteq Plain \ {"Cookie:"}
  /\ \A d \in Delimiters : d # "Cookie:" /\ d # "HTTP/1.1" /\ d # "Host:" /\ d # "host"
<1>1. \A d \in {"uu", "id", "theme", "dark", "message", "hello", "+", "world", "account", "ann",
      "password", "pass", "word", "Cookie:", "HTTP/1.1", "Host:", "host"} : d # Blank /\ d # Semicolon
  BY Zenon DEF Blank, Semicolon
<1>2. \A d \in {"uu", "id", "theme", "dark", "message", "hello", "+", "world", "account", "ann",
      "password", "pass", "word", "Cookie:", "HTTP/1.1", "Host:", "host"} : d \notin Delimiters
  BY <1>1 DEF Delimiters
<1>3. {"uu", "id", "theme", "dark", "message", "hello", "+", "world", "account", "ann",
      "password", "pass", "word"} \subseteq Token
  BY DEF Token, Literals
<1>4. {"\r", "\n", "/", "=", "&", Blank, Semicolon, "Cookie:", "HTTP/1.1", "Host:", "host"} \subseteq Token
  BY DEF Token, Literals, Delimiters
<1>. QED BY <1>2, <1>3, <1>4 DEF Plain

\* Plain tokens are tokens.
LEMMA PlainTokens ==
  /\ Plain \subseteq Token
  /\ \A d \in Delimiters : d \notin Plain
  /\ {"=", "&", "\n", "\r", "/", Blank, Semicolon} \subseteq Delimiters
BY DEF Plain, Delimiters

\* Two sequences with the same elements are equal; two of length one make one of
\* length two.
LEMMA Same == ASSUME NEW T, NEW x \in Seq(T), NEW y \in Seq(T), Len(x) = Len(y), \A i \in 1..Len(x) : x[i] = y[i] PROVE x = y
<1>1. x = [i \in 1 .. Len(x) |-> x[i]] /\ y = [i \in 1 .. Len(y) |-> y[i]]
  OBVIOUS
<1>. QED BY <1>1

\* Two sequences of one element make one of two.
LEMMA Two == ASSUME NEW T, NEW a \in T, NEW b \in T PROVE <<a>> \o <<b>> = <<a, b>>
<1>1. Len(<<a>> \o <<b>>) = 2 /\ (<<a>> \o <<b>>)[1] = a /\ (<<a>> \o <<b>>)[2] = b /\ <<a>> \o <<b>> \in Seq(T)
  OBVIOUS
<1>2. Len(<<a, b>>) = 2 /\ <<a, b>>[1] = a /\ <<a, b>>[2] = b /\ <<a, b>> \in Seq(T)
  OBVIOUS
<1>. DEFINE x == <<a>> \o <<b>>
            y == <<a, b>>
<1>3. \A i \in 1 .. 2 : i = 1 \/ i = 2
  OBVIOUS
<1>. HIDE DEF x, y
<1>4. x = y
  BY <1>1, <1>2, <1>3, Same DEF x, y
<1>. QED BY <1>4 DEF x, y

\* A list of pairs is a sequence of tokens.
LEMMA ListedType ==
  ASSUME NEW A, A \subseteq Token, NEW cs \in Seq(Fields(A)), NEW between \in Seq(Token)
  PROVE  Listed(cs, between) \in Seq(Token)
<1>1. CASE cs = <<>>
  <2>1. Listed(cs, between) = <<>>
    BY <1>1, ListedNone
  <2>. QED BY <2>1
<1>2. CASE cs # <<>>
  <2>1. cs[1] \in Fields(A)
    BY <1>2
  <2>. QED BY <2>1, ListedGrows
<1>. QED BY <1>1, <1>2

\* In a Cookie line the parser reads a pair from every word after Cookie:.
LEMMA CookieWords ==
  ASSUME NEW t \in Seq(Token)
  PROVE  LET w == Pieces(t, Blank) IN
         PairsIn(<<"Cookie:", Blank>> \o t) = [k \in 1 .. Len(w) |-> CookiePair(w[k])]
<1>. DEFINE w == Pieces(t, Blank)
            h == <<"Cookie:">>
            line == <<"Cookie:", Blank>> \o t
            z == <<h>> \o w
<1>1. h \in Seq(Token) /\ Without(h, Blank) /\ Blank \in Token
  <2>1. Blank \in Token /\ "Cookie:" \in Token /\ Blank # "Cookie:"
    BY Literal, PlainTokens
  <2>. QED BY <2>1 DEF Without
<1>2. w \in Seq(Seq(Token))
  BY PiecesType
<1>3. line = h \o <<Blank>> \o t
  BY <1>1
<1>4. Pieces(line, Blank) = z
  <2>. HIDE DEF h, line, w
  <2>1. Pieces(h \o <<Blank>> \o t, Blank) = <<h>> \o w
    BY <1>1, PiecesJoin DEF w
  <2>. QED BY <1>3, <2>1
<1>5. z # <<>> /\ z[1] = h /\ Len(z) - 1 = Len(w) /\ \A k \in 1 .. Len(w) : z[k + 1] = w[k]
  <2>1. <<h>> \in Seq(Seq(Token))
    BY <1>1
  <2>. HIDE DEF w, h
  <2>. QED BY <1>2, <2>1
<1>6. h = <<"Cookie:">>
  OBVIOUS
<1>. HIDE DEF z, line, w, h
<1>7. PairsIn(line) = [k \in 1 .. Len(w) |-> CookiePair(w[k])]
  BY <1>4, <1>5, <1>6 DEF PairsIn
<1>. QED BY <1>7 DEF w, line

\* The pairs the parser finds in a Cookie line are the cookies.
LEMMA CookieLineRead ==
  ASSUME NEW cs \in Seq(Fields(Plain)), cs # <<>>
  PROVE  PairsIn(<<"Cookie:", Blank>> \o Listed(cs, <<Semicolon, Blank>>) \o <<"\r">>) = cs
<1>. DEFINE L == Listed(cs, <<Semicolon, Blank>>)
            n == Len(cs)
            line == <<"Cookie:", Blank>> \o L \o <<"\r">>
            F(i) == Pair(cs[i]) \o <<IF i = n THEN "\r" ELSE Semicolon>>
            w == [i \in 1 .. n |-> F(i)]
<1>0. n \in Nat \ {0} /\ \A i \in 1 .. n : cs[i] \in Fields(Plain)
  OBVIOUS
<1>1. /\ Blank \in Token /\ Semicolon \in Token /\ "\r" \in Token /\ "Cookie:" \in Token
      /\ Blank \notin Plain /\ Blank # "=" /\ Blank # "\r" /\ Blank # "Cookie:"
  BY Literal, PlainTokens, Apart
<1>2. L \in Seq(Token)
  <2>1. <<Semicolon, Blank>> \in Seq(Token)
    BY <1>1
  <2>. QED BY <2>1, ListedType, PlainTokens
<1>3. End(L, Blank) = [done |-> Closed(cs, <<Semicolon>>), rest |-> Pair(cs[n])]
  <2>1. <<Semicolon>> \o <<Blank>> = <<Semicolon, Blank>> /\ <<Semicolon>> \in Seq(Token) /\ Without(<<Semicolon>>, Blank)
    <3>1. <<Semicolon>> \o <<Blank>> = <<Semicolon, Blank>> /\ <<Semicolon>> \in Seq(Token)
      BY <1>1, Two
    <3>2. Without(<<Semicolon>>, Blank)
      BY Distinct DEF Without
    <3>. QED BY <3>1, <3>2
  <2>. HIDE DEF L
  <2>2. End(Listed(cs, <<Semicolon>> \o <<Blank>>), Blank) = [done |-> Closed(cs, <<Semicolon>>), rest |-> Pair(cs[n])]
    BY <1>1, <2>1, PlainTokens, ListedRead
  <2>. QED BY <2>1, <2>2 DEF L
<1>4. End(L \o <<"\r">>, Blank) = [done |-> Closed(cs, <<Semicolon>>), rest |-> Pair(cs[n]) \o <<"\r">>]
  <2>1. <<"\r">> \in Seq(Token) /\ Without(<<"\r">>, Blank)
    BY <1>1 DEF Without
  <2>. HIDE DEF L
  <2>. DEFINE e == End(L, Blank)
  <2>2. End(L \o <<"\r">>, Blank) = [done |-> e.done, rest |-> e.rest \o <<"\r">>]
    BY <1>2, <2>1, EndTail
  <2>3. e.done = Closed(cs, <<Semicolon>>) /\ e.rest = Pair(cs[n])
    <3>. HIDE DEF n
    <3>. QED BY <1>3
  <2>. HIDE DEF e, n
  <2>. QED BY <2>2, <2>3
<1>5. \A i \in 1 .. n : F(i) \in Seq(Token)
  <2>. SUFFICES ASSUME NEW i \in 1 .. n PROVE F(i) \in Seq(Token)
    OBVIOUS
  <2>1. Pair(cs[i]) \in Seq(Token)
    BY <1>0, PlainTokens, FieldType
  <2>. QED BY <1>1, <2>1
<1>6. Pieces(L \o <<"\r">>, Blank) = w
  <2>1. Pieces(L \o <<"\r">>, Blank) =
          IF Pair(cs[n]) \o <<"\r">> = <<>> THEN Closed(cs, <<Semicolon>>)
          ELSE Append(Closed(cs, <<Semicolon>>), Pair(cs[n]) \o <<"\r">>)
    <3>. HIDE DEF L, n
    <3>. DEFINE e == End(L \o <<"\r">>, Blank)
    <3>1. e.done = Closed(cs, <<Semicolon>>) /\ e.rest = Pair(cs[n]) \o <<"\r">>
      BY <1>4
    <3>. HIDE DEF e
    <3>2. Pieces(L \o <<"\r">>, Blank) = IF e.rest = <<>> THEN e.done ELSE Append(e.done, e.rest)
      BY PiecesEnd DEF e
    <3>. QED BY <3>1, <3>2
  <2>2. Pair(cs[n]) \o <<"\r">> # <<>>
    <3>1. Pair(cs[n]) \in Seq(Token)
      BY <1>0, PlainTokens, FieldType
    <3>. QED BY <1>1, <3>1
  <2>3. Closed(cs, <<Semicolon>>) = [i \in 1 .. n - 1 |-> F(i)]
    <3>1. \A i \in 1 .. n - 1 : Pair(cs[i]) \o <<Semicolon>> = F(i)
      BY <1>0
    <3>. HIDE DEF F
    <3>. QED BY <3>1 DEF Closed
  <2>4. Pair(cs[n]) \o <<"\r">> = F(n)
    OBVIOUS
  <2>. HIDE DEF F, n, L
  <2>5. Append([i \in 1 .. n - 1 |-> F(i)], F(n)) = [i \in 1 .. n |-> F(i)]
    BY <1>0, <1>5
  <2>. QED BY <2>1, <2>2, <2>3, <2>4, <2>5
<1>8. w \in Seq(Seq(Token)) /\ Len(w) = n /\ \A i \in 1 .. n : w[i] = F(i)
  <2>. HIDE DEF F, n
  <2>. QED BY <1>0, <1>5
<1>9. ASSUME NEW i \in 1 .. n PROVE CookiePair(F(i)) = cs[i]
  <2>. DEFINE c == cs[i]
              x == IF i = n THEN "\r" ELSE Semicolon
  <2>1. c \in Fields(Plain)
    BY <1>0
  <2>2. x \in {Semicolon, "\r"} /\ x \in Token /\ F(i) = Pair(c) \o <<x>>
    BY <1>1
  <2>. HIDE DEF c, x, F
  <2>3. Without(c.name, "=") /\ Without(c.name, Semicolon) /\ Without(c.value, Semicolon)
    <3>1. "=" \notin Plain /\ Semicolon \notin Plain
      BY PlainTokens
    <3>2. Without(c.name, Semicolon) /\ Without(c.value, Semicolon)
      BY <2>1, <3>1, PlainTokens, PairWithout, Distinct
    <3>3. \A s \in Seq(Plain) : \A j \in 1 .. Len(s) : s[j] \in Plain
      OBVIOUS
    <3>4. Without(c.name, "=")
      BY <2>1, <3>1, <3>3, PlainTokens, FieldType DEF Without
    <3>. QED BY <3>2, <3>4
  <2>4. c = [name |-> c.name, value |-> c.value] /\ c.name \in Seq(Token) /\ c.value \in Seq(Token)
    BY <2>1, PlainTokens, FieldType
  <2>5. CookiePair(Pair(c) \o <<x>>) = c
    BY <2>2, <2>3, <2>4, Distinct, PairRead
  <2>. QED BY <2>2, <2>5 DEF c
<1>10. PairsIn(line) = [k \in 1 .. n |-> CookiePair(w[k])]
  <2>1. L \o <<"\r">> \in Seq(Token) /\ line = <<"Cookie:", Blank>> \o (L \o <<"\r">>)
    <3>. HIDE DEF L
    <3>. QED BY <1>1, <1>2
  <2>2. Len(w) = n
    BY <1>8
  <2>. HIDE DEF w, line, L, n
  <2>. QED BY <1>6, <2>1, <2>2, CookieWords
<1>11. [k \in 1 .. n |-> CookiePair(w[k])] = cs
  <2>1. \A k \in 1 .. n : CookiePair(w[k]) = cs[k]
    <3>. HIDE DEF F, w, n
    <3>. QED BY <1>8, <1>9
  <2>2. cs = [k \in 1 .. n |-> cs[k]]
    OBVIOUS
  <2>. HIDE DEF w, n
  <2>. QED BY <2>1, <2>2
<1>. QED BY <1>10, <1>11

\* A line whose first word is not Cookie: has none.
LEMMA OtherLine ==
  ASSUME NEW a \in Seq(Token), Without(a, Blank), a # <<"Cookie:">>, NEW b \in Seq(Token)
  PROVE  PairsIn(a \o <<Blank>> \o b) = <<>> /\ (a # <<>> => PairsIn(a) = <<>>)
<1>. DEFINE l == a \o <<Blank>> \o b
<1>1. Pieces(l, Blank) = <<a>> \o Pieces(b, Blank) /\ Pieces(b, Blank) \in Seq(Seq(Token))
  BY Literal, PiecesJoin, PiecesType
<1>2. Pieces(l, Blank)[1] = a
  <2>. HIDE DEF l
  <2>. QED BY <1>1
<1>3. PairsIn(l) = <<>>
  <2>. HIDE DEF l
  <2>. QED BY <1>2 DEF PairsIn
<1>4. a # <<>> => PairsIn(a) = <<>>
  <2>. SUFFICES ASSUME a # <<>> PROVE PairsIn(a) = <<>>
    OBVIOUS
  <2>1. Pieces(a, Blank) = <<a>>
    BY PiecesWhole
  <2>2. Pieces(a, Blank)[1] = a
    BY <2>1
  <2>. QED BY <2>2 DEF PairsIn
<1>. QED BY <1>3, <1>4

\* No delimiter is in a text of plain tokens.
LEMMA PlainWithout ==
  ASSUME NEW s \in Seq(Plain), NEW d \in Delimiters
  PROVE  Without(s, d) /\ s \in Seq(Token)
<1>1. d \notin Plain /\ Plain \subseteq Token
  BY PlainTokens
<1>2. \A i \in 1 .. Len(s) : s[i] \in Plain
  OBVIOUS
<1>. QED BY <1>1, <1>2, Wider DEF Without

\* What parsePostArg makes of one piece between two &.
FieldPair(p) ==
  LET part(k) == IF k <= Len(Pieces(p, "=")) THEN Pieces(p, "=")[k] ELSE <<>>
  IN [name |-> part(1), value |-> part(2)]

\* It takes a field apart at its equals sign.
LEMMA FieldRead ==
  ASSUME NEW n \in Seq(Token), NEW w \in Seq(Token), Without(n, "="), Without(w, "=")
  PROVE  FieldPair(n \o <<"=">> \o w) = [name |-> n, value |-> w]
<1>. DEFINE t == n \o <<"=">> \o w
            P == Pieces(w, "=")
<1>1. Pieces(t, "=") = <<n>> \o P
  BY Literal, PiecesJoin
<1>. HIDE DEF t
<1>2. CASE w = <<>>
  <2>1. P = <<>>
    BY <1>2, PiecesOfNothing
  <2>. DEFINE z == <<n>>
  <2>2. <<n>> \o <<>> = z /\ Len(z) = 1 /\ z[1] = n
    OBVIOUS
  <2>. HIDE DEF z, P
  <2>3. Pieces(t, "=") = z
    BY <1>1, <2>1, <2>2, Zenon
  <2>4. 1 <= Len(z) /\ ~(2 <= Len(z))
    BY <2>2
  <2>5. (IF 1 <= Len(z) THEN z[1] ELSE <<>>) = n /\ (IF 2 <= Len(z) THEN z[2] ELSE <<>>) = <<>>
    BY <2>2, <2>4
  <2>. QED BY <1>2, <2>3, <2>5 DEF FieldPair, t
<1>3. CASE w # <<>>
  <2>1. P = <<w>>
    BY <1>3, PiecesWhole
  <2>. DEFINE z == <<n, w>>
  <2>2. <<n>> \o <<w>> = z /\ Len(z) = 2 /\ z[1] = n /\ z[2] = w
    BY Two
  <2>. HIDE DEF z, P
  <2>3. Pieces(t, "=") = z
    BY <1>1, <2>1, <2>2, Zenon
  <2>4. 1 <= Len(z) /\ 2 <= Len(z)
    BY <2>2
  <2>5. (IF 1 <= Len(z) THEN z[1] ELSE <<>>) = n /\ (IF 2 <= Len(z) THEN z[2] ELSE <<>>) = w
    BY <2>2, <2>4
  <2>. QED BY <2>3, <2>5 DEF FieldPair, t
<1>. QED BY <1>2, <1>3

\* parsePostArg, with each piece read by FieldPair.
LEMMA PostArgIs ==
  ASSUME NEW lines
  PROVE  LET P == Pieces(Last(lines), "&") IN
         parsePostArg(lines) = FirstOfEach([k \in DOMAIN P |-> FieldPair(P[k])])
BY DEF parsePostArg, FieldPair

\* parsePostArg finds the fields of the form in the last line.
LEMMA FormRead ==
  ASSUME NEW fs \in Seq(Fields(Plain)), fs # <<>>, NEW lines, Last(lines) = Listed(fs, <<"&">>)
  PROVE  parsePostArg(lines) = FirstOfEach(fs)
<1>. DEFINE L == Listed(fs, <<"&">>)
            n == Len(fs)
            F(i) == Pair(fs[i])
<1>0. n \in Nat \ {0} /\ \A i \in 1 .. n : fs[i] \in Fields(Plain)
  OBVIOUS
<1>1. "&" \in Token /\ "=" \in Token /\ "&" \notin Plain /\ "&" # "=" /\ "=" \notin Plain
  BY Literal, PlainTokens
<1>2. \A i \in 1 .. n : F(i) \in Seq(Token)
  BY <1>0, PlainTokens, FieldType
<1>3. End(L, "&") = [done |-> Closed(fs, <<>>), rest |-> F(n)]
  <2>1. <<>> \o <<"&">> = <<"&">> /\ <<>> \in Seq(Token) /\ Without(<<>>, "&")
    BY DEF Without
  <2>. HIDE DEF L
  <2>2. End(Listed(fs, <<>> \o <<"&">>), "&") = [done |-> Closed(fs, <<>>), rest |-> Pair(fs[n])]
    BY <1>1, <2>1, PlainTokens, ListedRead
  <2>. QED BY <2>1, <2>2 DEF L
<1>4. Pieces(L, "&") = [i \in 1 .. n |-> F(i)]
  <2>1. Closed(fs, <<>>) = [i \in 1 .. n - 1 |-> F(i)]
    <3>1. \A i \in 1 .. n - 1 : Pair(fs[i]) \o <<>> = F(i)
      <4>1. \A s \in Seq(Token) : s \o <<>> = s
        OBVIOUS
      <4>. QED BY <1>0, <1>2, <4>1
    <3>. HIDE DEF F
    <3>. QED BY <3>1 DEF Closed
  <2>2. F(n) # <<>>
    <3>. DEFINE c == fs[n]
    <3>1. c.name \in Seq(Token) /\ c.value \in Seq(Token)
      BY <1>0, PlainTokens, FieldType
    <3>2. Pair(c) = c.name \o <<"=">> \o c.value
      BY DEF Pair
    <3>. HIDE DEF c
    <3>3. Pair(c) # <<>>
      BY <1>1, <3>1, <3>2
    <3>. QED BY <3>3 DEF c
  <2>. DEFINE e == End(L, "&")
  <2>3. e.done = Closed(fs, <<>>) /\ e.rest = F(n)
    BY <1>3
  <2>. HIDE DEF e, L, F, n
  <2>4. Pieces(L, "&") = IF e.rest = <<>> THEN e.done ELSE Append(e.done, e.rest)
    BY PiecesEnd DEF e
  <2>5. Append([i \in 1 .. n - 1 |-> F(i)], F(n)) = [i \in 1 .. n |-> F(i)]
    BY <1>0, <1>2
  <2>. QED BY <2>1, <2>2, <2>3, <2>4, <2>5
<1>5. ASSUME NEW i \in 1 .. n PROVE FieldPair(F(i)) = fs[i]
  <2>. DEFINE c == fs[i]
  <2>1. c \in Fields(Plain)
    BY <1>0
  <2>. HIDE DEF c
  <2>2. c = [name |-> c.name, value |-> c.value] /\ c.name \in Seq(Token) /\ c.value \in Seq(Token)
    BY <2>1, PlainTokens, FieldType
  <2>3. Without(c.name, "=") /\ Without(c.value, "=")
    <3>1. c.name \in Seq(Plain) /\ c.value \in Seq(Plain)
      BY <2>1, PlainTokens, FieldType
    <3>. QED BY <3>1, PlainTokens, PlainWithout
  <2>. QED BY <2>2, <2>3, FieldRead DEF c, Pair
<1>. DEFINE P == Pieces(Last(lines), "&")
<1>6. [k \in DOMAIN P |-> FieldPair(P[k])] = fs
  <2>1. P = [i \in 1 .. n |-> F(i)]
    BY <1>4
  <2>2. fs = [k \in 1 .. n |-> fs[k]]
    OBVIOUS
  <2>. HIDE DEF n, F, P
  <2>3. DOMAIN P = 1 .. n /\ \A k \in 1 .. n : FieldPair(P[k]) = fs[k]
    BY <1>5, <2>1
  <2>. QED BY <2>2, <2>3
<1>. HIDE DEF P
<1>. QED BY <1>6, PostArgIs DEF P
-----------------------------------------------------------------------------
(***************************************************************************)
(* The lines of a request                                                  *)
(***************************************************************************)

\* The lines of a request without their line ends.
Row(q) == <<q.method, Blank>> \o Path(q.page) \o <<Blank, "HTTP/1.1">>
Host == <<"Host:", Blank, "host">>
CookieText(cs) == <<"Cookie:", Blank>> \o Listed(cs, <<Semicolon, Blank>>)
Body(q) == Listed(q.form, <<"&">>)

(* What a browser asks. *)
Question(q) ==
  /\ q.method \in Methods
  /\ q.page \in Seq(Word)
  /\ q.cookies \in Seq(Fields(Plain))
  /\ q.form \in Seq(Fields(Plain \ {"Cookie:"}))

\* A line is one piece, with the carriage return, before those of the rest.
LEMMA LineRead ==
  ASSUME NEW ts \in Seq(Token), Without(ts, "\n"), NEW b \in Seq(Token)
  PROVE  /\ Line(ts) \in Seq(Token)
         /\ Pieces(Line(ts) \o b, "\n") = <<ts \o <<"\r">>>> \o Pieces(b, "\n")
         /\ Pieces(b, "\n") \in Seq(Seq(Token))
<1>. DEFINE a == ts \o <<"\r">>
<1>1. "\r" \in Token /\ "\n" \in Token
  BY Literal
<1>2. a \in Seq(Token) /\ Without(a, "\n")
  <2>1. <<"\r">> \in Seq(Token) /\ Without(<<"\r">>, "\n")
    BY <1>1 DEF Without
  <2>. DEFINE r == <<"\r">>
  <2>2. r \in Seq(Token) /\ Without(r, "\n")
    BY <2>1
  <2>. HIDE DEF r
  <2>3. ts \o r \in Seq(Token) /\ Without(ts \o r, "\n")
    BY <2>2, WithoutJoin
  <2>. QED BY <2>3 DEF r
<1>3. Line(ts) \o b = a \o <<"\n">> \o b /\ Line(ts) \in Seq(Token)
  BY <1>1 DEF Line
<1>. HIDE DEF a
<1>4. Pieces(a \o <<"\n">> \o b, "\n") = <<a>> \o Pieces(b, "\n")
  BY <1>1, <1>2, PiecesJoin
<1>. QED BY <1>3, <1>4, PiecesType DEF a

\* Methods and literals at the start of a line.
LEMMA MethodFacts ==
  ASSUME NEW m \in Methods
  PROVE  m \in Token /\ m # Blank /\ m # "\n" /\ m # "&" /\ m # "Cookie:"
<1>1. m \in Token
  BY DEF Token
<1>2. m \notin Delimiters /\ m # "Cookie:"
  BY MethodsAssumption
<1>. QED BY <1>1, <1>2 DEF Delimiters

\* parseServices finds the page in the first line, and no cookie is there.
LEMMA RowRead ==
  ASSUME NEW q, Question(q)
  PROVE  /\ Row(q) \in Seq(Token) /\ Without(Row(q), "\n") /\ Without(Row(q), "&")
         /\ parseServices(Row(q) \o <<"\r">>) = q.page
         /\ PairsIn(Row(q) \o <<"\r">>) = <<>>
<1>. DEFINE m == q.method
            path == Path(q.page)
            tail == <<"HTTP/1.1">>
            end == <<"HTTP/1.1", "\r">>
            l == Row(q) \o <<"\r">>
<1>1. m \in Token /\ m # Blank /\ m # "\n" /\ m # "&" /\ m # "Cookie:"
  BY MethodFacts DEF Question
<1>2. path \in Seq(Token) /\ Without(path, Blank) /\ Without(path, "\n") /\ Without(path, "&") /\ FlattenSeq(Tail(Pieces(path, "/"))) = q.page
  BY PathRead DEF Question
<1>3. /\ Blank \in Token /\ "HTTP/1.1" \in Token /\ "\r" \in Token
      /\ Blank # "\n" /\ "HTTP/1.1" # "\n" /\ Blank # "&" /\ "HTTP/1.1" # "&"
  BY Literal, Apart, PlainTokens
<1>. HIDE DEF m, path
<1>4. Row(q) = <<m, Blank>> \o path \o <<Blank, "HTTP/1.1">>
  BY DEF Row, m, path
<1>5. Row(q) \in Seq(Token)
  BY <1>1, <1>2, <1>3, <1>4
<1>6. Without(Row(q), "\n") /\ Without(Row(q), "&")
  <2>. DEFINE a == <<m, Blank>>
              b == <<Blank, "HTTP/1.1">>
  <2>1. a \in Seq(Token) /\ Without(a, "\n") /\ Without(a, "&") /\ b \in Seq(Token) /\ Without(b, "\n") /\ Without(b, "&")
    BY <1>1, <1>3 DEF Without
  <2>. HIDE DEF a, b
  <2>2. a \o path \in Seq(Token) /\ Without(a \o path, "\n") /\ Without(a \o path, "&")
    BY <1>2, <2>1, WithoutJoin
  <2>3. Without((a \o path) \o b, "\n") /\ Without((a \o path) \o b, "&")
    BY <2>1, <2>2, WithoutJoin
  <2>. QED BY <1>4, <2>3 DEF a, b
<1>7. l = <<m>> \o <<Blank>> \o (path \o <<Blank>> \o end)
  <2>1. m \in Token /\ path \in Seq(Token) /\ Blank \in Token /\ "HTTP/1.1" \in Token /\ "\r" \in Token
    BY <1>1, <1>2, <1>3
  <2>. HIDE DEF m, path
  <2>2. Row(q) \o <<"\r">> = <<m>> \o <<Blank>> \o (path \o <<Blank>> \o <<"HTTP/1.1", "\r">>)
    BY <1>4, <2>1
  <2>. QED BY <2>2
<1>8. <<m>> \in Seq(Token) /\ Without(<<m>>, Blank) /\ end \in Seq(Token)
  BY <1>1, <1>3 DEF Without
<1>. HIDE DEF end
<1>9. path \o <<Blank>> \o end \in Seq(Token)
  BY <1>2, <1>3, <1>8
<1>10. Pieces(l, Blank) = <<<<m>>>> \o (<<path>> \o Pieces(end, Blank))
  <2>. HIDE DEF l
  <2>1. Pieces(<<m>> \o <<Blank>> \o (path \o <<Blank>> \o end), Blank) = <<<<m>>>> \o Pieces(path \o <<Blank>> \o end, Blank)
    BY <1>3, <1>8, <1>9, PiecesJoin
  <2>2. Pieces(path \o <<Blank>> \o end, Blank) = <<path>> \o Pieces(end, Blank)
    BY <1>2, <1>3, <1>8, PiecesJoin
  <2>. QED BY <1>7, <2>1, <2>2
<1>11. Len(Pieces(l, Blank)) >= 2 /\ Pieces(l, Blank)[2] = path
  <2>. DEFINE e == Pieces(end, Blank)
  <2>1. e \in Seq(Seq(Token)) /\ <<m>> \in Seq(Token)
    BY <1>8, PiecesType
  <2>. HIDE DEF l, e
  <2>2. Len(<<<<m>>>> \o (<<path>> \o e)) >= 2 /\ (<<<<m>>>> \o (<<path>> \o e))[2] = path
    BY <1>2, <2>1
  <2>. QED BY <1>10, <2>2 DEF e
<1>12. parseServices(l) = q.page
  <2>. HIDE DEF l
  <2>1. ~ (Len(Pieces(l, Blank)) < 2)
    <3>1. Pieces(l, Blank) \in Seq(Seq(Token))
      <4>1. l \in Seq(Token)
        BY <1>3, <1>7, <1>8, <1>9
      <4>. QED BY <4>1, PiecesType
    <3>. QED BY <1>11, <3>1
  <2>. QED BY <1>2, <1>11, <2>1 DEF parseServices
<1>13. PairsIn(l) = <<>>
  <2>1. <<m>> # <<"Cookie:">>
    BY <1>1
  <2>. HIDE DEF l
  <2>2. PairsIn(<<m>> \o <<Blank>> \o (path \o <<Blank>> \o end)) = <<>>
    BY <1>8, <1>9, <2>1, OtherLine
  <2>. QED BY <1>7, <2>2
<1>. QED BY <1>5, <1>6, <1>12, <1>13

\* In the line Host: there are no cookies.
LEMMA HostRead ==
  /\ Host \in Seq(Token) /\ Without(Host, "\n") /\ Without(Host, "&")
  /\ PairsIn(Host \o <<"\r">>) = <<>>
  /\ PairsIn(<<>> \o <<"\r">>) = <<>>
<1>1. /\ "Host:" \in Token /\ "host" \in Token /\ Blank \in Token /\ "\r" \in Token
      /\ Blank # "\n" /\ Blank # "&" /\ Blank # "\r" /\ "Host:" # Blank
  BY Literal, Apart, PlainTokens
<1>2. Host \in Seq(Token) /\ Without(Host, "\n") /\ Without(Host, "&")
  BY <1>1 DEF Host, Without
<1>3. Host \o <<"\r">> = <<"Host:">> \o <<Blank>> \o <<"host", "\r">>
  BY <1>1 DEF Host
<1>4. <<"Host:">> \in Seq(Token) /\ Without(<<"Host:">>, Blank) /\ <<"host", "\r">> \in Seq(Token) /\ <<"Host:">> # <<"Cookie:">>
  BY <1>1 DEF Without
<1>5. PairsIn(Host \o <<"\r">>) = <<>>
  BY <1>3, <1>4, OtherLine
<1>6. <<"\r">> \in Seq(Token) /\ Without(<<"\r">>, Blank) /\ <<"\r">> # <<"Cookie:">> /\ <<"\r">> # <<>>
  BY <1>1 DEF Without
<1>7. <<>> \o <<"\r">> = <<"\r">>
  BY <1>1
<1>8. PairsIn(<<"\r">>) = <<>>
  BY <1>6, OtherLine
<1>. QED BY <1>2, <1>5, <1>7, <1>8

\* In the form there are no cookies.
LEMMA BodyRead ==
  ASSUME NEW q, Question(q)
  PROVE  /\ Body(q) \in Seq(Token)
         /\ Without(Body(q), Blank) /\ Without(Body(q), "\n") /\ Without(Body(q), "Cookie:")
         /\ q.form = <<>> => Pieces(Body(q), "\n") = <<>>
         /\ q.form # <<>> => /\ Pieces(Body(q), "\n") = <<Body(q)>>
                             /\ PairsIn(Body(q)) = <<>>
<1>. DEFINE A == Plain \ {"Cookie:"}
            b == Body(q)
<1>1. A \subseteq Token /\ q.form \in Seq(Fields(A)) /\ <<"&">> \in Seq(Token)
  BY PlainTokens, Literal DEF Question
<1>2. b \in Seq(Token)
  <2>. HIDE DEF A
  <2>. QED BY <1>1, ListedType DEF Body
<1>3. Blank \notin A /\ "\n" \notin A /\ "Cookie:" \notin A /\ Blank # "=" /\ Blank # "&"
  BY PlainTokens, Zenon, Apart DEF Blank
<1>4. Without(b, Blank) /\ Without(b, "\n") /\ Without(b, "Cookie:")
  <2>1. Without(<<"&">>, Blank) /\ Without(<<"&">>, "\n") /\ Without(<<"&">>, "Cookie:")
    BY <1>3 DEF Without
  <2>2. "\n" # "=" /\ "Cookie:" # "="
    OBVIOUS
  <2>. HIDE DEF A
  <2>3. Without(Listed(q.form, <<"&">>), Blank)
    BY <1>1, <1>3, <2>1, ListedWithout
  <2>4. Without(Listed(q.form, <<"&">>), "\n")
    BY <1>1, <1>3, <2>1, <2>2, ListedWithout
  <2>5. Without(Listed(q.form, <<"&">>), "Cookie:")
    BY <1>1, <1>3, <2>1, <2>2, ListedWithout
  <2>. QED BY <2>3, <2>4, <2>5 DEF Body
<1>5. q.form = <<>> => Pieces(b, "\n") = <<>>
  <2>. SUFFICES ASSUME q.form = <<>> PROVE Pieces(b, "\n") = <<>>
    OBVIOUS
  <2>1. b = <<>>
    BY ListedNone DEF Body
  <2>. HIDE DEF b
  <2>. QED BY <2>1, PiecesOfNothing
<1>6. ASSUME q.form # <<>> PROVE Pieces(b, "\n") = <<b>> /\ PairsIn(b) = <<>>
  <2>1. b # <<>>
    <3>. HIDE DEF A
    <3>1. "&" \in Token /\ "&" \notin A /\ "&" # "=" /\ <<>> \in Seq(Token) /\ Without(<<>>, "&")
      BY PlainTokens, Literal DEF Without, A
    <3>2. <<>> \o <<"&">> = <<"&">>
      OBVIOUS
    <3>. DEFINE n == Len(q.form)
                c == q.form[n]
    <3>3. End(Listed(q.form, <<>> \o <<"&">>), "&") = [done |-> Closed(q.form, <<>>), rest |-> Pair(c)]
      BY <1>1, <1>6, <3>1, ListedRead
    <3>4. c \in Fields(A)
      BY <1>1, <1>6
    <3>5. c.name \in Seq(Token) /\ c.value \in Seq(Token)
      <4>. HIDE DEF c
      <4>. QED BY <1>1, <3>4, FieldType
    <3>. HIDE DEF c
    <3>6. Pair(c) # <<>>
      BY <3>5, Literal DEF Pair
    <3>7. End(b, "&").rest # <<>>
      <4>1. End(b, "&") = [done |-> Closed(q.form, <<>>), rest |-> Pair(c)]
        BY <3>2, <3>3 DEF Body
      <4>. QED BY <3>6, <4>1
    <3>. HIDE DEF b
    <3>8. End(<<>>, "&").rest = <<>>
      BY EndEmpty
    <3>. QED BY <3>7, <3>8
  <2>2. b # <<"Cookie:">>
    <3>. HIDE DEF b
    <3>. SUFFICES ASSUME b = <<"Cookie:">> PROVE FALSE
      OBVIOUS
    <3>1. 1 \in 1 .. Len(b) /\ b[1] = "Cookie:"
      OBVIOUS
    <3>. QED BY <1>4, <3>1 DEF Without
  <2>. HIDE DEF b
  <2>3. Pieces(b, "\n") = <<b>>
    BY <1>2, <1>4, <2>1, PiecesWhole
  <2>4. PairsIn(b) = <<>>
    BY <1>2, <1>4, <2>1, <2>2, OtherLine
  <2>. QED BY <2>3, <2>4
<1>. QED BY <1>2, <1>4, <1>5, <1>6

\* In the Cookie line there are the cookies.
LEMMA CookieTextRead ==
  ASSUME NEW cs \in Seq(Fields(Plain)), cs # <<>>
  PROVE  /\ CookieText(cs) \in Seq(Token) /\ Without(CookieText(cs), "\n") /\ Without(CookieText(cs), "&")
         /\ PairsIn(CookieText(cs) \o <<"\r">>) = cs
<1>. DEFINE a == <<"Cookie:", Blank>>
            b == <<Semicolon, Blank>>
            L == Listed(cs, b)
<1>1. a \in Seq(Token) /\ b \in Seq(Token) /\ Without(a, "\n") /\ Without(a, "&") /\ Without(b, "\n") /\ Without(b, "&")
  BY Literal, Apart, Distinct DEF Without
<1>2. L \in Seq(Token) /\ Without(L, "\n") /\ Without(L, "&")
  <2>. HIDE DEF b
  <2>1. "\n" \notin Plain /\ "\n" # "=" /\ "&" \notin Plain /\ "&" # "="
    BY PlainTokens
  <2>. QED BY <1>1, <2>1, PlainTokens, ListedType, ListedWithout
<1>3. CookieText(cs) = a \o L
  BY DEF CookieText
<1>. HIDE DEF a, L
<1>4. a \o L \in Seq(Token) /\ Without(a \o L, "\n") /\ Without(a \o L, "&")
  BY <1>1, <1>2, WithoutJoin
<1>. QED BY <1>3, <1>4, CookieLineRead DEF a, L

\* A request is four lines and the body.
LEMMA FormatIs ==
  ASSUME NEW q, Question(q)
  PROVE  /\ Line(Row(q)) \in Seq(Token) /\ Line(Host) \in Seq(Token) /\ CookieLine(q.cookies) \in Seq(Token)
         /\ Line(<<>>) \in Seq(Token) /\ Body(q) \in Seq(Token)
         /\ Format(q) = Line(Row(q)) \o (Line(Host) \o (CookieLine(q.cookies) \o (Line(<<>>) \o Body(q))))
<1>. DEFINE cs == q.cookies
            b == Body(q)
            lr == Line(Row(q))
            lh == Line(Host)
            lc == CookieLine(cs)
            le == Line(<<>>)
<1>1. /\ Row(q) \in Seq(Token) /\ Without(Row(q), "\n")
      /\ Host \in Seq(Token) /\ Without(Host, "\n")
      /\ <<>> \in Seq(Token) /\ Without(<<>>, "\n")
      /\ b \in Seq(Token)
  BY RowRead, HostRead, BodyRead DEF Without
<1>2. cs # <<>> => CookieText(cs) \in Seq(Token) /\ Without(CookieText(cs), "\n")
  BY CookieTextRead DEF Question
<1>3. Format(q) = lr \o lh \o lc \o le \o b
  BY DEF Format, Row, Host, Body
<1>4. lr \in Seq(Token) /\ lh \in Seq(Token) /\ lc \in Seq(Token) /\ le \in Seq(Token)
  <2>1. lc = IF cs = <<>> THEN <<>> ELSE Line(CookieText(cs))
    BY DEF CookieLine, CookieText
  <2>2. CASE cs = <<>>
    <3>1. lc = <<>>
      BY <2>1, <2>2
    <3>. HIDE DEF cs, lc
    <3>. QED BY <1>1, <3>1, LineRead
  <2>3. CASE cs # <<>>
    <3>1. lc = Line(CookieText(cs))
      BY <2>1, <2>3
    <3>. HIDE DEF cs, lc
    <3>. QED BY <1>1, <1>2, <2>3, <3>1, LineRead
  <2>. QED BY <2>2, <2>3
<1>. HIDE DEF lr, lh, lc, le, b
<1>5. Format(q) = lr \o (lh \o (lc \o (le \o b)))
  <2>. DEFINE x == lr \o lh
              y == x \o lc
  <2>1. x \in Seq(Token)
    BY <1>4
  <2>2. y \in Seq(Token)
    BY <1>4, <2>1
  <2>3. y \o le \o b = y \o (le \o b) /\ le \o b \in Seq(Token)
    BY <1>1, <1>4, <2>2
  <2>. HIDE DEF y
  <2>4. y \o (le \o b) = x \o (lc \o (le \o b))
    BY <1>4, <2>1, <2>3 DEF y
  <2>5. lc \o (le \o b) \in Seq(Token)
    BY <1>4, <2>3
  <2>6. x \o (lc \o (le \o b)) = lr \o (lh \o (lc \o (le \o b)))
    BY <1>4, <2>5
  <2>. QED BY <1>3, <2>3, <2>4, <2>6 DEF y
<1>. QED BY <1>1, <1>4, <1>5 DEF lr, lh, lc, le, b

\* What the parser finds in a whole request: the page in the first line, the
\* cookies in one of the lines and nowhere else, the form in the last.
LEMMA FormatRead ==
  ASSUME NEW q, Question(q)
  PROVE  LET lines == Pieces(Format(q), "\n") IN
         /\ lines[1] = Row(q) \o <<"\r">>
         /\ FlattenSeq([i \in DOMAIN lines |-> PairsIn(lines[i])]) = q.cookies
         /\ q.form # <<>> => Last(lines) = Body(q)
<1>. DEFINE cs == q.cookies
            r == Row(q) \o <<"\r">>
            h == Host \o <<"\r">>
            c == CookieText(cs) \o <<"\r">>
            e == <<>> \o <<"\r">>
            b == Body(q)
            B == Pieces(b, "\n")
            lines == Pieces(Format(q), "\n")
<1>1. /\ Row(q) \in Seq(Token) /\ Without(Row(q), "\n")
      /\ Host \in Seq(Token) /\ Without(Host, "\n")
      /\ <<>> \in Seq(Token) /\ Without(<<>>, "\n")
      /\ b \in Seq(Token) /\ B \in Seq(Seq(Token))
  BY RowRead, HostRead, BodyRead, PiecesType DEF Without
<1>2. cs # <<>> => CookieText(cs) \in Seq(Token) /\ Without(CookieText(cs), "\n") /\ PairsIn(c) = cs
  BY CookieTextRead DEF Question
<1>3. r \in Seq(Token) /\ h \in Seq(Token) /\ e \in Seq(Token) /\ (cs # <<>> => c \in Seq(Token))
  <2>1. <<"\r">> \in Seq(Token)
    BY Literal
  <2>. QED BY <1>1, <1>2, <2>1
<1>4. PairsIn(r) = <<>> /\ PairsIn(h) = <<>> /\ PairsIn(e) = <<>>
  BY RowRead, HostRead
<1>5. IF q.form = <<>> THEN B = <<>> ELSE B = <<b>> /\ PairsIn(b) = <<>>
  BY BodyRead
<1>. DEFINE lr == Line(Row(q))
            lh == Line(Host)
            lc == CookieLine(cs)
            le == Line(<<>>)
<1>6. /\ lr \in Seq(Token) /\ lh \in Seq(Token) /\ lc \in Seq(Token) /\ le \in Seq(Token)
      /\ Format(q) = lr \o (lh \o (lc \o (le \o b)))
  BY FormatIs
<1>. HIDE DEF lr, lh, lc, le, b
<1>7. le \o b \in Seq(Token) /\ Pieces(le \o b, "\n") = <<e>> \o B
  <2>. HIDE DEF e
  <2>1. le \o b \in Seq(Token)
    BY <1>1, <1>6
  <2>. QED BY <1>1, <2>1, LineRead DEF le, e
<1>. DEFINE m == lc \o (le \o b)
            M == IF cs = <<>> THEN <<e>> \o B ELSE <<c>> \o (<<e>> \o B)
<1>8. m \in Seq(Token) /\ Pieces(m, "\n") = M
  <2>1. m \in Seq(Token)
    BY <1>6, <1>7
  <2>2. CASE cs = <<>>
    <3>1. lc = <<>>
      BY <2>2 DEF lc, CookieLine
    <3>2. m = le \o b
      BY <1>7, <3>1
    <3>. HIDE DEF m
    <3>. QED BY <1>7, <2>1, <2>2, <3>2
  <2>3. CASE cs # <<>>
    <3>1. lc = Line(CookieText(cs))
      BY <2>3 DEF lc, CookieLine, CookieText
    <3>. DEFINE w == le \o b
    <3>. HIDE DEF w, e, cs
    <3>2. Pieces(Line(CookieText(cs)) \o w, "\n") = <<c>> \o Pieces(w, "\n")
      BY <1>2, <1>7, <2>3, LineRead DEF w
    <3>. QED BY <1>7, <2>1, <2>3, <3>1, <3>2 DEF w
  <2>. QED BY <2>2, <2>3
<1>. HIDE DEF m
<1>9. lines = <<r>> \o (<<h>> \o M)
  <2>1. lh \o m \in Seq(Token)
    BY <1>6, <1>8
  <2>. HIDE DEF M
  <2>2. Pieces(lh \o m, "\n") = <<h>> \o Pieces(m, "\n")
    BY <1>1, <1>8, LineRead DEF lh
  <2>3. Pieces(lr \o (lh \o m), "\n") = <<r>> \o Pieces(lh \o m, "\n")
    BY <1>1, <2>1, LineRead DEF lr
  <2>. QED BY <1>6, <1>8, <2>2, <2>3 DEF m
<1>. DEFINE s == [i \in DOMAIN lines |-> PairsIn(lines[i])]
            T == Seq(Fields(Plain))
<1>10. cs \in T /\ <<>> \in T
  BY DEF Question
<1>. HIDE DEF r, h, c, e, cs, B, lines
<1>11. /\ lines \in Seq(Seq(Token)) /\ lines[1] = r
       /\ \A i \in DOMAIN lines : i # 3 => PairsIn(lines[i]) = <<>>
       /\ IF 3 \in DOMAIN lines THEN PairsIn(lines[3]) = cs ELSE cs = <<>>
       /\ q.form # <<>> => lines[Len(lines)] = b
  <2>1. CASE cs = <<>> /\ q.form = <<>>
    <3>1. lines = <<r>> \o (<<h>> \o (<<e>> \o <<>>))
      BY <1>5, <1>9, <2>1
    <3>2. Len(lines) = 3 /\ lines[1] = r /\ lines[2] = h /\ lines[3] = e /\ lines \in Seq(Seq(Token))
      BY <1>3, <3>1
    <3>3. DOMAIN lines = 1 .. 3
      BY <3>2
    <3>. QED BY <1>4, <2>1, <3>2, <3>3
  <2>2. CASE cs = <<>> /\ q.form # <<>>
    <3>1. lines = <<r>> \o (<<h>> \o (<<e>> \o <<b>>))
      BY <1>5, <1>9, <2>2
    <3>2. Len(lines) = 4 /\ lines[1] = r /\ lines[2] = h /\ lines[3] = e /\ lines[4] = b /\ lines \in Seq(Seq(Token))
      BY <1>1, <1>3, <3>1
    <3>3. DOMAIN lines = 1 .. 4
      BY <3>2
    <3>. QED BY <1>4, <1>5, <2>2, <3>2, <3>3
  <2>3. CASE cs # <<>> /\ q.form = <<>>
    <3>1. lines = <<r>> \o (<<h>> \o (<<c>> \o (<<e>> \o <<>>)))
      BY <1>5, <1>9, <2>3
    <3>2. Len(lines) = 4 /\ lines[1] = r /\ lines[2] = h /\ lines[3] = c /\ lines[4] = e /\ lines \in Seq(Seq(Token))
      BY <1>3, <2>3, <3>1
    <3>3. DOMAIN lines = 1 .. 4
      BY <3>2
    <3>. QED BY <1>2, <1>4, <2>3, <3>2, <3>3
  <2>4. CASE cs # <<>> /\ q.form # <<>>
    <3>1. lines = <<r>> \o (<<h>> \o (<<c>> \o (<<e>> \o <<b>>)))
      BY <1>5, <1>9, <2>4
    <3>2. Len(lines) = 5 /\ lines[1] = r /\ lines[2] = h /\ lines[3] = c /\ lines[4] = e /\ lines[5] = b /\ lines \in Seq(Seq(Token))
      BY <1>1, <1>3, <2>4, <3>1
    <3>3. DOMAIN lines = 1 .. 5
      BY <3>2
    <3>. QED BY <1>2, <1>4, <1>5, <2>4, <3>2, <3>3
  <2>. QED BY <2>1, <2>2, <2>3, <2>4
<1>12. s \in Seq(T) /\ DOMAIN s = DOMAIN lines /\ \A i \in DOMAIN lines : s[i] = PairsIn(lines[i])
  <2>1. \A i \in DOMAIN lines : PairsIn(lines[i]) \in T
    BY <1>10, <1>11
  <2>. HIDE DEF T
  <2>2. DOMAIN lines = 1 .. Len(lines) /\ Len(lines) \in Nat
    BY <1>11
  <2>. QED BY <2>1, <2>2
<1>13. FlattenSeq(s) = cs
  <2>. HIDE DEF s
  <2>1. FlattenSeq(s) = IF 3 \in DOMAIN s THEN s[3] ELSE <<>>
    BY <1>11, <1>12, FlatOne
  <2>. QED BY <1>11, <1>12, <2>1
<1>. QED BY <1>11, <1>13 DEF s, lines, r, cs, b, Last
-----------------------------------------------------------------------------
(***************************************************************************)
(* The invariant                                                           *)
(***************************************************************************)

\* No two pairs have one name.
OneEach(pairs) == \A i, j \in DOMAIN pairs : pairs[i].name = pairs[j].name => i = j

\* Parsing undoes formatting: page, cookies and form are those of the question.
LEMMA WholeRead ==
  ASSUME NEW q, Question(q), OneEach(q.cookies), OneEach(q.form)
  PROVE  LET p == parseHttpRequest(Format(q)) IN
         /\ p.services = q.page
         /\ p.cookie = [n \in NamesOf(q.cookies) |-> ValueOf(q.cookies, n)]
         /\ (p.method = "POST" /\ q.form # <<>>) => p.form = [n \in NamesOf(q.form) |-> ValueOf(q.form, n)]
<1>. DEFINE r == Format(q)
            lines == Pieces(r, "\n")
            method == IF Head(r) \in {"GET", "POST"} THEN Head(r) ELSE "UNDEFINED"
            p == parseHttpRequest(r)
<1>1. /\ p.services = parseServices(lines[1]) /\ p.cookie = parseCookie(lines) /\ p.method = method
      /\ p.method = "POST" => p.form = parsePostArg(lines)
  <2>1. p = [method |-> method, services |-> parseServices(lines[1]), cookie |-> parseCookie(lines),
             form |-> IF method = "POST" THEN parsePostArg(lines) ELSE << >>]
    BY DEF parseHttpRequest
  <2>. HIDE DEF p, method, lines
  <2>. QED BY <2>1
<1>2. /\ lines[1] = Row(q) \o <<"\r">>
      /\ FlattenSeq([i \in DOMAIN lines |-> PairsIn(lines[i])]) = q.cookies
      /\ q.form # <<>> => Last(lines) = Body(q)
  BY FormatRead
<1>. HIDE DEF p, lines
<1>3. p.services = q.page
  BY <1>1, <1>2, RowRead
<1>4. p.cookie = [n \in NamesOf(q.cookies) |-> ValueOf(q.cookies, n)]
  <2>1. p.cookie = FirstOfEach(q.cookies)
    BY <1>1, <1>2 DEF parseCookie
  <2>2. q.cookies \in Seq(Fields(Plain))
    BY DEF Question
  <2>. QED BY <2>1, <2>2, Firsts DEF OneEach
<1>5. ASSUME p.method = "POST", q.form # <<>> PROVE p.form = [n \in NamesOf(q.form) |-> ValueOf(q.form, n)]
  <2>0. q.form \in Seq(Fields(Plain \ {"Cookie:"}))
    BY DEF Question
  <2>1. q.form \in Seq(Fields(Plain))
    <3>1. Fields(Plain \ {"Cookie:"}) \subseteq Fields(Plain)
      <4>1. \A s \in Seq(Plain \ {"Cookie:"}) : s \in Seq(Plain)
        BY Wider, Plain \ {"Cookie:"} \subseteq Plain
      <4>. QED BY <4>1 DEF Fields
    <3>. QED BY <2>0, <3>1, Wider
  <2>2. parsePostArg(lines) = FirstOfEach(q.form)
    BY <1>2, <1>5, <2>1, FormRead DEF Body
  <2>. QED BY <1>1, <1>5, <2>1, <2>2, Firsts DEF OneEach
<1>. QED BY <1>3, <1>4, <1>5 DEF p

\* The cookie of others, and the server's.
Dark == [name |-> Theme, value |-> <<"dark">>]
Own == [name |-> Uuid, value |-> uuid]

\* What the browser keeps.
BrowserOK ==
  /\ jar \in {<<>>, <<Dark>>}
  /\ uuid \in Values \cup {<<>>} /\ first \in BOOLEAN
  /\ clock \in 0 .. MaxClock /\ expires \in 0 .. MaxClock + Lifetime

\* What is asked is a question a browser asks, with its cookies of this moment,
\* and recv returned the first tokens of it.
AskedOK ==
  /\ Question(sent) /\ OneEach(sent.cookies) /\ OneEach(sent.form)
  /\ sent.page \in Pages \cup {<<>>}
  /\ request # <<>> => /\ reply = <<>> /\ sent.cookies = Fresh
                       /\ \E n \in 1 .. Len(Format(sent)) : request = SubSeq(Format(sent), 1, n)

\* While no new cookie is under way the browser has the one issued last; a reply
\* that sets one has the one issued last, and one that deletes it ends it at once.
AnswerOK ==
  /\ reply = <<>> \/ reply = <<reply[1]>>
  /\ issued \in Values \cup {<<>>} /\ down \in BOOLEAN
  /\ (reply = <<>> \/ reply[1].cookie = <<>>) => uuid = issued
  /\ (reply # <<>> /\ reply[1].cookie # <<>>) =>
       \/ issued = <<>> /\ reply[1].expires = 0
       \/ issued = reply[1].cookie /\ issued \in Values /\ reply[1].expires = clock + Lifetime

\* The inductive invariant.
IInv == BrowserOK /\ AskedOK /\ AnswerOK

\* What the assumptions say of numbers and values.
LEMMA Numbers == /\ Lifetime \in Nat \ {0} /\ MaxClock \in Nat
                 /\ <<>> \notin Values /\ Values \subseteq Seq(Plain)
<1>1. Digits \subseteq Plain
  BY ValuesAssumption DEF Plain, Token
<1>2. Values \subseteq Seq(Plain)
  BY <1>1, Wider, ValuesAssumption
<1>. QED BY <1>2, ValuesAssumption, ClockAssumption

\* The names and values of cookies have their types and differ.
LEMMA Cookie ==
  /\ Dark \in Fields(Plain)
  /\ Dark.name = Theme /\ Dark.value = <<"dark">>
  /\ Uuid \in Seq(Plain) /\ Theme # Uuid
<1>1. Theme \in Seq(Plain) /\ <<"dark">> \in Seq(Plain) /\ Uuid \in Seq(Plain)
  BY Literal DEF Theme, Uuid
<1>2. Theme # Uuid
  <2>1. Len(Theme) = 1 /\ Len(Uuid) = 2
    BY DEF Theme, Uuid
  <2>. QED BY <2>1
<1>. QED BY <1>1, <1>2 DEF Dark, Fields

\* The browser sends its own cookie exactly while it has not expired.
LEMMA FreshIs ==
  ASSUME BrowserOK
  PROVE  /\ Fresh \in Seq(Fields(Plain)) /\ OneEach(Fresh)
         /\ (uuid = <<>> \/ clock >= expires) => Uuid \notin NamesOf(Fresh)
         /\ ~ (uuid = <<>> \/ clock >= expires) =>
              Uuid \in NamesOf(Fresh) /\ ValueOf(Fresh, Uuid) = uuid
<1>1. CASE uuid = <<>> \/ clock >= expires
  <2>1. Fresh = jar
    BY <1>1 DEF Fresh
  <2>2. CASE jar = <<>>
    <3>1. Fresh = <<>>
      BY <2>1, <2>2
    <3>. QED BY <1>1, <3>1 DEF OneEach, NamesOf
  <2>3. CASE jar = <<Dark>>
    <3>. DEFINE d == Dark
    <3>1. Fresh = <<d>> /\ d \in Fields(Plain) /\ d.name # Uuid
      BY <2>1, <2>3, Cookie
    <3>. HIDE DEF d
    <3>2. Fresh \in Seq(Fields(Plain)) /\ DOMAIN Fresh = {1} /\ Fresh[1] = d
      BY <3>1
    <3>. HIDE DEF Fresh
    <3>. QED BY <1>1, <3>1, <3>2 DEF OneEach, NamesOf
  <2>. QED BY <2>2, <2>3 DEF BrowserOK
<1>2. CASE ~ (uuid = <<>> \/ clock >= expires)
  <2>0. Own \in Fields(Plain) /\ Own.name = Uuid /\ Own.value = uuid
    BY <1>2, Numbers, Cookie DEF BrowserOK, Own, Fields
  <2>1. Fresh = IF first THEN <<Own>> \o jar ELSE jar \o <<Own>>
    BY <1>2 DEF Fresh, Own
  <2>. DEFINE d == Dark
              o == Own
  <2>2. d \in Fields(Plain) /\ d.name = Theme /\ o \in Fields(Plain) /\ o.name = Uuid /\ o.value = uuid
    BY <2>0, Cookie
  <2>3. Fresh \in {<<o>>, <<o, d>>, <<d, o>>}
    <3>1. CASE jar = <<>>
      <4>1. <<o>> \o <<>> = <<o>> /\ <<>> \o <<o>> = <<o>>
        BY <2>2
      <4>. QED BY <2>1, <3>1, <4>1
    <3>2. CASE jar = <<d>>
      <4>1. <<o>> \o <<d>> = <<o, d>> /\ <<d>> \o <<o>> = <<d, o>>
        BY <2>2, Two
      <4>. QED BY <2>1, <3>2, <4>1
    <3>. QED BY <3>1, <3>2 DEF BrowserOK
  <2>. HIDE DEF d, o
  <2>4. ASSUME NEW f, f \in {<<o>>, <<o, d>>, <<d, o>>}
        PROVE  /\ f \in Seq(Fields(Plain)) /\ OneEach(f)
               /\ Uuid \in NamesOf(f) /\ ValueOf(f, Uuid) = uuid
    <3>1. PICK k \in DOMAIN f : f[k] = o
      <4>1. f = <<o>> => 1 \in DOMAIN f /\ f[1] = o
        OBVIOUS
      <4>2. f = <<o, d>> => 1 \in DOMAIN f /\ f[1] = o
        OBVIOUS
      <4>3. f = <<d, o>> => 2 \in DOMAIN f /\ f[2] = o
        OBVIOUS
      <4>. QED BY <2>4, <4>1, <4>2, <4>3
    <3>2. f \in Seq(Fields(Plain))
      <4>1. \A Z : \A x, y \in Z : <<x>> \in Seq(Z) /\ <<x, y>> \in Seq(Z)
        OBVIOUS
      <4>2. o \in Fields(Plain) /\ d \in Fields(Plain)
        BY <2>2
      <4>3. <<o>> \in Seq(Fields(Plain)) /\ <<o, d>> \in Seq(Fields(Plain)) /\ <<d, o>> \in Seq(Fields(Plain))
        BY <4>1, <4>2
      <4>. QED BY <2>4, <4>3
    <3>3. OneEach(f)
      <4>1. CASE f = <<o>>
        <5>1. DOMAIN f = {1}
          BY <4>1
        <5>. QED BY <5>1 DEF OneEach
      <4>2. CASE f = <<o, d>>
        <5>1. DOMAIN f = {1, 2} /\ f[1] = o /\ f[2] = d
          BY <4>2
        <5>. QED BY <2>2, <5>1, Cookie DEF OneEach
      <4>3. CASE f = <<d, o>>
        <5>1. DOMAIN f = {1, 2} /\ f[1] = d /\ f[2] = o
          BY <4>3
        <5>. QED BY <2>2, <5>1, Cookie DEF OneEach
      <4>. QED BY <2>4, <4>1, <4>2, <4>3
    <3>4. \A i \in DOMAIN f : f[i].name = Uuid => i = k
      BY <2>2, <3>1, <3>3 DEF OneEach
    <3>5. (CHOOSE i \in DOMAIN f : f[i].name = Uuid) = k
      BY <2>2, <3>1, <3>4
    <3>. QED BY <2>2, <3>1, <3>2, <3>3, <3>5 DEF NamesOf, ValueOf
  <2>. HIDE DEF Fresh
  <2>. QED BY <1>2, <2>3, <2>4
<1>. QED BY <1>1, <1>2

\* Every form is a list of fields, each once.
LEMMA FormIs ==
  ASSUME NEW page
  PROVE  Form(page) \in Seq(Fields(Plain \ {"Cookie:"})) /\ OneEach(Form(page))
<1>. DEFINE A == Plain \ {"Cookie:"}
            m == [name |-> <<"message">>, value |-> <<"hello", "+", "world">>]
            a == [name |-> <<"account">>, value |-> <<"ann">>]
            p == [name |-> <<"password">>, value |-> <<"pass", "word">>]
<1>0. {"message", "hello", "+", "world", "account", "ann", "password", "pass", "word"} \subseteq A
  BY Literal
<1>. HIDE DEF A
<1>1. m \in Fields(A) /\ a \in Fields(A) /\ p \in Fields(A)
  BY <1>0 DEF Fields
<1>2. a.name # p.name
  OBVIOUS
<1>3. Form(page) \in {<<m>>, <<a, p>>, <<>>}
  BY DEF Form
<1>. HIDE DEF m, a, p
<1>4. ASSUME NEW f \in {<<m>>, <<a, p>>, <<>>} PROVE f \in Seq(Fields(A)) /\ OneEach(f)
  <2>1. CASE f = <<m>>
    <3>1. DOMAIN f = {1}
      BY <2>1
    <3>. QED BY <1>1, <2>1, <3>1 DEF OneEach
  <2>2. CASE f = <<a, p>>
    <3>1. DOMAIN f = {1, 2} /\ f[1] = a /\ f[2] = p
      BY <2>2
    <3>. QED BY <1>1, <1>2, <2>2, <3>1 DEF OneEach
  <2>3. CASE f = <<>>
    BY <2>3 DEF OneEach
  <2>. QED BY <2>1, <2>2, <2>3
<1>. QED BY <1>3, <1>4 DEF A
-----------------------------------------------------------------------------
(***************************************************************************)
(* What handlers answer                                                    *)
(***************************************************************************)

\* A response sets no cookie, one the server gives, or the one of a logout.
Sets(response) ==
  \/ response.cookie = <<>>
  \/ response.cookie # <<>> /\ response.logout = TRUE
  \/ response.cookie \in Values /\ response.logout = FALSE

\* Every handler answers with such a response.
LEMMA PageSets ==
  /\ Sets(Empty) /\ Sets(errorPage) /\ Sets(Page500)
  /\ \A f : Sets(Shown(f))
  /\ \A l : Sets(Redirect(l)) /\ \A r \in WithCookie(Redirect(l)) : Sets(r)
  /\ \A f : Sets(serveFile(f))
  /\ Sets([Shown("404.html") EXCEPT !.status = "NOT FOUND"])
<1>1. /\ Empty.cookie = <<>> /\ \A f : Shown(f).cookie = <<>>
  BY DEF Empty, Shown
<1>2. \A l : Redirect(l).cookie = <<>> /\ Redirect(l).logout = FALSE
  BY DEF Empty, Redirect
<1>3. \A l : \A r \in WithCookie(Redirect(l)) : r.cookie \in Values /\ r.logout = FALSE
  <2>. SUFFICES ASSUME NEW l, NEW v \in Values, NEW r, r = [Redirect(l) EXCEPT !.cookie = v]
                PROVE  r.cookie \in Values /\ r.logout = FALSE
    BY DEF WithCookie
  <2>. QED BY DEF Redirect, Empty
<1>4. \A f : serveFile(f).cookie = <<>>
  <2>. SUFFICES ASSUME NEW f PROVE serveFile(f).cookie = <<>>
    OBVIOUS
  <2>1. /\ [Empty EXCEPT !.file = <<"http_error", "403.html">>, !.status = "FORBIDDEN"].cookie = <<>>
        /\ [Empty EXCEPT !.file = f].cookie = <<>>
        /\ [Empty EXCEPT !.file = <<"http_error", "404.html">>, !.status = "NOT FOUND"].cookie = <<>>
    BY DEF Empty
  <2>. QED BY <2>1 DEF serveFile
<1>5. [Shown("404.html") EXCEPT !.status = "NOT FOUND"].cookie = <<>>
  BY DEF Shown, Empty
<1>. QED BY <1>1, <1>2, <1>3, <1>4, <1>5 DEF Sets, errorPage, Page500

\* The page of a form sets no cookie.
LEMMA FormPageSets ==
  ASSUME NEW req, NEW page, NEW r \in FormPage(req, page)
  PROVE  Sets(r)
BY PageSets DEF FormPage

\* A login sets one the server gives, or none.
LEMMA LoginSets ==
  ASSUME NEW req, NEW r \in login(req)
  PROVE  Sets(r)
<1>1. CASE req.method = "GET"
  BY <1>1, FormPageSets DEF login
<1>2. CASE req.method = "POST"
  <2>1. r \in {errorPage} \/ r \in {errorPage, Page500, Redirect("index.html")} \cup WithCookie(Redirect("index.html"))
    BY <1>2 DEF login
  <2>. QED BY <2>1, PageSets
<1>3. CASE req.method # "GET" /\ req.method # "POST"
  BY <1>3, PageSets DEF login
<1>. QED BY <1>1, <1>2, <1>3

\* So does a signup.
LEMMA SignupSets ==
  ASSUME NEW req, NEW r \in signup(req)
  PROVE  Sets(r)
<1>1. CASE req.method = "GET"
  BY <1>1, FormPageSets DEF signup
<1>2. CASE req.method = "POST"
  <2>1. r \in {errorPage} \/ r \in {errorPage, Page500, Redirect("signup_success.html")}
                                     \cup WithCookie(Redirect("signup_success.html"))
    BY <1>2 DEF signup
  <2>. QED BY <2>1, PageSets
<1>3. CASE req.method # "GET" /\ req.method # "POST"
  BY <1>3, PageSets DEF signup
<1>. QED BY <1>1, <1>2, <1>3

\* The bulletin sets none.
LEMMA BulletinSets ==
  ASSUME NEW req, NEW r \in bulletin(req)
  PROVE  Sets(r)
<1>1. CASE req.method = "GET"
  BY <1>1, PageSets DEF bulletin
<1>2. CASE req.method = "POST"
  <2>1. r \in {errorPage} \/ r \in {errorPage, Redirect("bulletin")}
    BY <1>2 DEF bulletin
  <2>. QED BY <2>1, PageSets
<1>3. CASE req.method # "GET" /\ req.method # "POST"
  BY <1>3, PageSets DEF bulletin
<1>. QED BY <1>1, <1>2, <1>3

\* A logout takes the cookie back.
LEMMA LogoutSets ==
  ASSUME NEW req, NEW r \in logout(req)
  PROVE  Sets(r)
<1>1. r = [Redirect("index.html") EXCEPT !.logout = TRUE, !.cookie = <<"0">>]
  BY DEF logout
<1>2. r.logout = TRUE /\ r.cookie = <<"0">>
  BY <1>1 DEF Redirect, Empty
<1>. QED BY <1>2 DEF Sets

\* What render answers, by the first word of the path.
LEMMA RenderSets ==
  ASSUME NEW req, NEW r \in render(req)
  PROVE  Sets(r)
<1>1. CASE req.services = <<>>
  BY <1>1, PageSets DEF render
<1>2. CASE req.services # <<>>
  <2>. DEFINE s == req.services[1]
  <2>1. \/ r \in login(req) \/ r \in logout(req) \/ r \in signup(req) \/ r \in bulletin(req)
        \/ r \in {serveFile(req.services)}
    BY <1>2 DEF render
  <2>. QED BY <2>1, LoginSets, LogoutSets, SignupSets, BulletinSets, PageSets
<1>. QED BY <1>1, <1>2

\* The header has the response's cookie, and its date.
LEMMA HeaderIs ==
  ASSUME NEW response
  PROVE  /\ getResponseHeader(response).cookie = response.cookie
         /\ getResponseHeader(response).expires = IF response.logout THEN 0 ELSE clock + 0 + Lifetime
BY DEF getResponseHeader, getHTTPDate

\* A request is a sequence of tokens.
LEMMA FormatType ==
  ASSUME NEW q, Question(q)
  PROVE  Format(q) \in Seq(Token) /\ Len(Format(q)) \in Nat
<1>1. /\ Row(q) \in Seq(Token) /\ Host \in Seq(Token) /\ Body(q) \in Seq(Token)
  BY RowRead, HostRead, BodyRead
<1>2. \A ts \in Seq(Token) : Line(ts) \in Seq(Token)
  <2>1. "\r" \in Token /\ "\n" \in Token
    BY Literal
  <2>. QED BY <2>1 DEF Line
<1>3. CookieLine(q.cookies) \in Seq(Token)
  <2>1. CASE q.cookies = <<>>
    BY <2>1 DEF CookieLine
  <2>2. CASE q.cookies # <<>>
    <3>1. CookieText(q.cookies) \in Seq(Token)
      BY <2>2, CookieTextRead DEF Question
    <3>2. CookieLine(q.cookies) = Line(CookieText(q.cookies))
      BY <2>2 DEF CookieLine, CookieText
    <3>. QED BY <1>2, <3>1, <3>2
  <2>. QED BY <2>1, <2>2
<1>4. Line(<<>>) \in Seq(Token) /\ Line(Row(q)) \in Seq(Token) /\ Line(Host) \in Seq(Token)
  <2>1. <<>> \in Seq(Token)
    OBVIOUS
  <2>. QED BY <1>1, <1>2, <2>1
<1>5. Format(q) = Line(Row(q)) \o Line(Host) \o CookieLine(q.cookies) \o Line(<<>>) \o Body(q)
  BY DEF Format, Row, Host, Body
<1>6. Format(q) \in Seq(Token)
  BY <1>1, <1>3, <1>4, <1>5
<1>. QED BY <1>6

\* The invariant implies the three properties.
LEMMA Holds == IInv => /\ TypeOK /\ WholeRequestsAreUnderstood /\ UuidIsTheLastIssued
<1>. SUFFICES ASSUME IInv PROVE TypeOK /\ WholeRequestsAreUnderstood /\ UuidIsTheLastIssued
  OBVIOUS
<1>. USE DEF IInv
<1>1. TypeOK
  <2>1. Len(Format(sent)) \in Nat /\ Format(sent) \in Seq(Token)
    BY FormatType DEF AskedOK
  <2>2. Len(request) <= Len(Format(sent))
    <3>1. CASE request = <<>>
      BY <2>1, <3>1
    <3>2. CASE request # <<>>
      <4>1. PICK n \in 1 .. Len(Format(sent)) : request = SubSeq(Format(sent), 1, n)
        BY <3>2 DEF AskedOK
      <4>. DEFINE f == Format(sent)
      <4>. HIDE DEF f
      <4>2. Len(request) = n
        BY <2>1, <4>1 DEF f
      <4>. QED BY <2>1, <4>2
    <3>. QED BY <3>1, <3>2
  <2>3. Len(reply) <= 1
    <3>1. CASE reply = <<>>
      BY <3>1
    <3>2. CASE reply = <<reply[1]>>
      <4>. DEFINE h == reply[1]
      <4>1. reply = <<h>>
        BY <3>2
      <4>. HIDE DEF h
      <4>. QED BY <4>1
    <3>. QED BY <3>1, <3>2 DEF AnswerOK
  <2>4. sent.method \in Methods
    BY DEF AskedOK, Question
  <2>. QED BY <2>2, <2>3, <2>4 DEF TypeOK, BrowserOK, AskedOK, AnswerOK, Dark
<1>2. ASSUME Asked, Whole
      PROVE  /\ Parsed.services = sent.page
             /\ Parsed.cookie = [n \in NamesOf(sent.cookies) |-> ValueOf(sent.cookies, n)]
             /\ (Parsed.method = "POST" /\ sent.form # <<>>) => Parsed.form = [n \in NamesOf(sent.form) |-> ValueOf(sent.form, n)]
  <2>1. Parsed = parseHttpRequest(Format(sent))
    BY <1>2 DEF Whole, Parsed
  <2>2. Question(sent) /\ OneEach(sent.cookies) /\ OneEach(sent.form)
    BY DEF AskedOK
  <2>. QED BY <2>1, <2>2, WholeRead
<1>3. WholeRequestsAreUnderstood
  <2>1. sent.form = <<>> => NamesOf(sent.form) = {}
    BY DEF NamesOf
  <2>. QED BY <1>2, <2>1 DEF WholeRequestsAreUnderstood
<1>4. UuidIsTheLastIssued
  <2>. SUFFICES ASSUME Asked, Whole
                PROVE  Cookies(Parsed) = IF issued = <<>> \/ clock >= expires THEN {} ELSE {issued}
    BY DEF UuidIsTheLastIssued
  <2>1. sent.cookies = Fresh /\ reply = <<>> /\ uuid = issued
    BY DEF Asked, AskedOK, AnswerOK
  <2>2. Parsed.cookie = [n \in NamesOf(Fresh) |-> ValueOf(Fresh, n)]
    BY <1>2, <2>1
  <2>3. CASE issued = <<>> \/ clock >= expires
    <3>1. Uuid \notin NamesOf(Fresh)
      BY <2>1, <2>3, FreshIs
    <3>. QED BY <2>2, <2>3, <3>1 DEF Cookies
  <2>4. CASE ~ (issued = <<>> \/ clock >= expires)
    <3>1. Uuid \in NamesOf(Fresh) /\ ValueOf(Fresh, Uuid) = issued
      BY <2>1, <2>4, FreshIs
    <3>. QED BY <2>2, <2>4, <3>1 DEF Cookies
  <2>. QED BY <2>3, <2>4
<1>. QED BY <1>1, <1>3, <1>4
-----------------------------------------------------------------------------
(***************************************************************************)
(* Every step keeps it                                                     *)
(***************************************************************************)

\* It holds at first, and every step keeps it.
LEMMA First == Init => IInv
<1>. SUFFICES ASSUME Init PROVE IInv
  OBVIOUS
<1>. USE DEF Init
<1>1. BrowserOK
  <2>1. 0 \in 0 .. MaxClock /\ 0 \in 0 .. MaxClock + Lifetime
    BY Numbers
  <2>2. jar \in {<<>>, <<Dark>>}
    BY DEF Dark
  <2>. QED BY <2>1, <2>2 DEF BrowserOK
<1>2. Question(sent) /\ OneEach(sent.cookies) /\ OneEach(sent.form) /\ sent.page = <<>>
  <2>1. sent.method = "GET" /\ sent.page = <<>> /\ sent.cookies = <<>> /\ sent.form = <<>>
    BY DEF NoRequest
  <2>2. <<>> \in Seq(Word) /\ <<>> \in Seq(Fields(Plain)) /\ <<>> \in Seq(Fields(Plain \ {"Cookie:"}))
    OBVIOUS
  <2>. QED BY <2>1, <2>2, MethodsAssumption DEF Question, OneEach
<1>3. AskedOK
  BY <1>2 DEF AskedOK
<1>4. AnswerOK
  BY DEF AnswerOK
<1>. QED BY <1>1, <1>3, <1>4 DEF IInv

\* A new question: the browser has taken the last reply.
LEMMA AskKeeps ==
  ASSUME IInv, NEW method \in Methods, NEW page \in Pages, Ask(method, page)
  PROVE  IInv'
<1>. USE DEF Ask
<1>1. BrowserOK'
  BY DEF IInv, BrowserOK
<1>2. AnswerOK'
  BY DEF IInv, AnswerOK
<1>3. Fresh' = Fresh
  BY DEF Fresh
<1>4. /\ sent'.method = method /\ sent'.page = page /\ sent'.cookies = Fresh
      /\ sent'.form = IF method = "POST" THEN Form(page) ELSE <<>>
  OBVIOUS
<1>5. Fresh \in Seq(Fields(Plain)) /\ OneEach(Fresh)
  BY FreshIs DEF IInv
<1>6. sent'.form \in Seq(Fields(Plain \ {"Cookie:"})) /\ OneEach(sent'.form)
  <2>1. CASE method = "POST"
    BY <1>4, <2>1, FormIs
  <2>2. CASE method # "POST"
    <3>1. sent'.form = <<>>
      BY <1>4, <2>2
    <3>2. <<>> \in Seq(Fields(Plain \ {"Cookie:"})) /\ OneEach(<<>>)
      BY DEF OneEach
    <3>. QED BY <3>1, <3>2
  <2>. QED BY <2>1, <2>2
<1>7. page \in Seq(Word)
  BY PagesAssumption DEF Word
<1>8. Question(sent')
  BY <1>4, <1>5, <1>6, <1>7 DEF Question
<1>9. AskedOK'
  <2>1. PICK n \in 1 .. Len(Format(sent')) : request' = SubSeq(Format(sent'), 1, n)
    OBVIOUS
  <2>2. reply' = <<>> /\ sent'.cookies = Fresh'
    BY <1>3, <1>4
  <2>3. OneEach(sent'.cookies) /\ sent'.page \in Pages
    BY <1>4, <1>5
  <2>. QED BY <1>6, <1>8, <2>1, <2>2, <2>3 DEF AskedOK
<1>. QED BY <1>1, <1>2, <1>9 DEF IInv

\* An answer: a cookie it sets is the one issued now.
LEMMA RespondKeeps ==
  ASSUME IInv, Respond
  PROVE  IInv'
<1>. DEFINE req == parseHttpRequest(request)
<1>1. /\ request # <<>> /\ request' = <<>>
      /\ UNCHANGED <<jar, uuid, first, expires, clock, sent, down>>
  BY DEF Respond
<1>2. PICK response \in render(req) :
        /\ reply' = <<getResponseHeader(response)>>
        /\ issued' = IF response.cookie = <<>> THEN issued
                     ELSE IF response.logout THEN <<>> ELSE response.cookie
  BY DEF Respond
<1>3. BrowserOK'
  BY <1>1 DEF IInv, BrowserOK
<1>4. AskedOK'
  BY <1>1 DEF IInv, AskedOK
<1>5. reply = <<>> /\ uuid = issued /\ clock \in Nat /\ down \in BOOLEAN /\ issued \in Values \cup {<<>>}
  BY <1>1, Numbers DEF IInv, AskedOK, AnswerOK, BrowserOK
<1>6. Sets(response)
  BY <1>2, RenderSets
<1>. DEFINE h == getResponseHeader(response)
<1>7. h.cookie = response.cookie /\ h.expires = IF response.logout THEN 0 ELSE clock + 0 + Lifetime
  BY HeaderIs
<1>. HIDE DEF h, req
<1>8. reply' = <<h>>
  BY <1>2 DEF h
<1>9. reply' # <<>> /\ reply'[1] = h /\ reply' = <<reply'[1]>>
  BY <1>8
<1>10. AnswerOK'
  <2>0. clock' = clock /\ uuid' = uuid /\ down' = down
    BY <1>1
  <2>1. CASE response.cookie = <<>>
    <3>1. issued' = issued
      BY <1>2, <2>1
    <3>. QED BY <1>5, <1>7, <1>9, <2>0, <2>1, <3>1 DEF AnswerOK
  <2>2. CASE response.cookie # <<>> /\ response.logout = TRUE
    <3>1. issued' = <<>> /\ h.expires = 0
      BY <1>2, <1>7, <2>2
    <3>. QED BY <1>5, <1>7, <1>9, <2>0, <2>2, <3>1 DEF AnswerOK
  <2>3. CASE response.cookie \in Values /\ response.logout = FALSE
    <3>1. issued' = response.cookie /\ h.expires = clock + Lifetime /\ response.cookie # <<>>
      BY <1>2, <1>5, <1>7, <2>3, Numbers
    <3>. QED BY <1>5, <1>7, <1>9, <2>0, <2>3, <3>1 DEF AnswerOK
  <2>. QED BY <1>6, <2>1, <2>2, <2>3 DEF Sets
<1>. QED BY <1>3, <1>4, <1>10 DEF IInv

\* The browser takes the cookie of the reply, if it has not expired.
LEMMA ReceiveKeeps ==
  ASSUME IInv, Receive
  PROVE  IInv'
<1>1. /\ reply # <<>> /\ reply' = <<>> /\ UNCHANGED <<jar, clock, sent, request, issued, down>>
  BY DEF Receive
<1>2. request = <<>> /\ request' = <<>>
  BY <1>1 DEF IInv, AskedOK
<1>3. AskedOK'
  BY <1>1, <1>2 DEF IInv, AskedOK
<1>4. clock \in 0 .. MaxClock /\ Lifetime \in Nat \ {0} /\ MaxClock \in Nat /\ <<>> \notin Values
  BY Numbers DEF IInv, BrowserOK
<1>5. CASE reply[1].cookie = <<>>
  <2>1. UNCHANGED <<uuid, first, expires>>
    BY <1>5 DEF Receive
  <2>. QED BY <1>1, <1>3, <1>5, <2>1 DEF IInv, BrowserOK, AnswerOK
<1>6. CASE reply[1].cookie # <<>>
  <2>1. /\ expires' = reply[1].expires
        /\ IF clock < reply[1].expires
           THEN uuid' = reply[1].cookie /\ first' \in BOOLEAN
           ELSE uuid' = <<>> /\ UNCHANGED first
    BY <1>6 DEF Receive
  <2>2. CASE issued = <<>> /\ reply[1].expires = 0
    <3>1. uuid' = <<>> /\ first' = first /\ expires' = 0
      BY <1>4, <2>1, <2>2
    <3>. QED BY <1>1, <1>3, <1>4, <2>2, <3>1 DEF IInv, BrowserOK, AnswerOK
  <2>3. CASE issued = reply[1].cookie /\ issued \in Values /\ reply[1].expires = clock + Lifetime
    <3>1. uuid' = issued /\ first' \in BOOLEAN /\ expires' = clock + Lifetime
      BY <1>4, <2>1, <2>3
    <3>2. expires' \in 0 .. MaxClock + Lifetime
      BY <1>4, <3>1
    <3>. QED BY <1>1, <1>3, <1>4, <2>3, <3>1, <3>2 DEF IInv, BrowserOK, AnswerOK
  <2>. QED BY <1>1, <1>6, <2>2, <2>3 DEF IInv, AnswerOK
<1>. QED BY <1>5, <1>6

\* One case per action.
LEMMA Keeps == IInv /\ [Next]_vars => IInv'
<1>. SUFFICES ASSUME IInv, [Next]_vars PROVE IInv'
  OBVIOUS
<1>1. ASSUME NEW method \in Methods, NEW page \in Pages, Ask(method, page) PROVE IInv'
  BY <1>1, AskKeeps
<1>2. CASE Respond
  BY <1>2, RespondKeeps
<1>3. CASE RespondThrows
  <2>1. UNCHANGED <<jar, uuid, first, expires, clock, sent, request, reply, issued>> /\ down' = TRUE
    BY <1>3 DEF RespondThrows
  <2>2. Fresh' = Fresh
    BY <2>1 DEF Fresh
  <2>. QED BY <2>1, <2>2 DEF IInv, BrowserOK, AskedOK, AnswerOK
<1>4. CASE Receive
  BY <1>4, ReceiveKeeps
<1>5. CASE Tick
  <2>1. /\ UNCHANGED <<jar, uuid, first, expires, sent, request, reply, issued, down>>
        /\ clock < MaxClock /\ clock' = clock + 1 /\ request = <<>> /\ reply = <<>>
    BY <1>5 DEF Tick
  <2>2. clock' \in 0 .. MaxClock
    BY <2>1, Numbers DEF IInv, BrowserOK
  <2>. QED BY <2>1, <2>2 DEF IInv, BrowserOK, AskedOK, AnswerOK
<1>6. CASE UNCHANGED vars
  <2>1. UNCHANGED <<jar, uuid, first, expires, clock, sent, request, reply, issued, down>>
    BY <1>6 DEF vars
  <2>2. Fresh' = Fresh
    BY <2>1 DEF Fresh
  <2>. QED BY <2>1, <2>2 DEF IInv, BrowserOK, AskedOK, AnswerOK
<1>. QED BY <1>1, <1>2, <1>3, <1>4, <1>5, <1>6 DEF Next

\* The invariant holds always.
THEOREM Invariant == Spec => []IInv
BY First, Keeps, PTL DEF Spec

\* Every variable has its type (browser, server and what is between them).
THEOREM TypeCorrect == Spec => []TypeOK
BY Invariant, Holds, PTL

\* What parseHttpRequest makes of a request that arrived whole is what the browser
\* put into it, for all values, pages and cookies in whatever order.
THEOREM Understood == Spec => []WholeRequestsAreUnderstood
BY Invariant, Holds, PTL

\* The uuid a whole request carries is the one the server issued last, and there
\* is none after a logout or once it has expired.
THEOREM LastIssued == Spec => []UuidIsTheLastIssued
BY Invariant, Holds, PTL
-----------------------------------------------------------------------------
(***************************************************************************)
(* The beginning of a text                                                 *)
(***************************************************************************)

\* p is the first tokens of s: none, some or all.
Begins(p, s) == \E n \in 0 .. Len(s) : p = SubSeq(s, 1, n)

(* p is a and the beginning of b. *)
After(T, a, b, p) == \E t \in Seq(T) : t # <<>> /\ Begins(t, b) /\ p = a \o t

\* The tokens of such a text are those of s.
LEMMA BeginsIs ==
  ASSUME NEW T, NEW s \in Seq(T), NEW p, Begins(p, s)
  PROVE  p \in Seq(T) /\ Len(p) <= Len(s) /\ Len(p) \in Nat /\ \A i \in 1 .. Len(p) : p[i] = s[i]
<1>1. PICK n \in 0 .. Len(s) : p = SubSeq(s, 1, n)
  BY DEF Begins
<1>2. SubSeq(s, 1, n) \in Seq(T) /\ Len(SubSeq(s, 1, n)) = n /\ \A i \in 1 .. n : SubSeq(s, 1, n)[i] = s[i]
  OBVIOUS
<1>. QED BY <1>1, <1>2

\* The first tokens of two parts end in the first or go on in the second.
LEMMA BeginsJoin ==
  ASSUME NEW T, NEW a \in Seq(T), NEW b \in Seq(T), NEW p, Begins(p, a \o b)
  PROVE  Begins(p, a) \/ After(T, a, b, p)
<1>1. PICK n \in 0 .. Len(a \o b) : p = SubSeq(a \o b, 1, n)
  BY DEF Begins
<1>2. CASE n <= Len(a)
  <2>1. n \in 0 .. Len(a) /\ SubSeq(a \o b, 1, n) = SubSeq(a, 1, n)
    BY <1>2
  <2>. QED BY <1>1, <2>1 DEF Begins
<1>3. CASE n > Len(a)
  <2>. DEFINE k == n - Len(a)
              t == SubSeq(b, 1, k)
  <2>1. k \in 1 .. Len(b)
    BY <1>3
  <2>2. t \in Seq(T) /\ Len(t) = k
    BY <2>1
  <2>3. SubSeq(a \o b, 1, n) = a \o t
    <3>. DEFINE x == SubSeq(a \o b, 1, n)
                y == a \o t
    <3>1. x \in Seq(T) /\ Len(x) = n
      OBVIOUS
    <3>2. y \in Seq(T) /\ Len(y) = n
      BY <1>3, <2>2
    <3>3. ASSUME NEW i \in 1 .. n PROVE x[i] = y[i]
      <4>1. CASE i <= Len(a)
        BY <1>3, <2>2, <4>1
      <4>2. CASE i > Len(a)
        <5>1. x[i] = b[i - Len(a)]
          BY <4>2
        <5>2. y[i] = t[i - Len(a)]
          BY <1>3, <2>2, <4>2
        <5>3. t[i - Len(a)] = b[i - Len(a)]
          BY <1>3, <2>1, <4>2
        <5>. QED BY <5>1, <5>2, <5>3
      <4>. QED BY <4>1, <4>2
    <3>. HIDE DEF x, y
    <3>4. x = y
      BY <3>1, <3>2, <3>3, Same
    <3>. QED BY <3>4 DEF x, y
  <2>4. t # <<>> /\ Begins(t, b)
    <3>0. k \in 0 .. Len(b)
      BY <2>1
    <3>1. Begins(t, b)
      BY <3>0 DEF Begins
    <3>. HIDE DEF t
    <3>2. Len(t) # 0
      BY <2>1, <2>2
    <3>. QED BY <3>1, <3>2
  <2>. HIDE DEF t
  <2>. QED BY <1>1, <2>2, <2>3, <2>4 DEF After
<1>. QED BY <1>2, <1>3

\* A text begins with itself.
LEMMA BeginsAll ==
  ASSUME NEW T, NEW s \in Seq(T)
  PROVE  Begins(s, s)
<1>1. SubSeq(s, 1, Len(s)) = s /\ Len(s) \in 0 .. Len(s)
  OBVIOUS
<1>. QED BY <1>1 DEF Begins

\* What is not in a text is not in its first tokens.
LEMMA BeginsWithout ==
  ASSUME NEW T, NEW s \in Seq(T), NEW p, Begins(p, s), NEW d, Without(s, d)
  PROVE  Without(p, d)
<1>1. p \in Seq(T) /\ Len(p) <= Len(s) /\ Len(p) \in Nat /\ \A i \in 1 .. Len(p) : p[i] = s[i]
  BY BeginsIs
<1>2. \A i \in 1 .. Len(p) : i \in 1 .. Len(s)
  BY <1>1
<1>. QED BY <1>1, <1>2 DEF Without

\* A text of one token has no other beginning that is not empty.
LEMMA BeginsOne ==
  ASSUME NEW T, NEW a \in T, NEW p, Begins(p, <<a>>), p # <<>>
  PROVE  p = <<a>>
<1>. DEFINE s == <<a>>
<1>1. s \in Seq(T) /\ Len(s) = 1 /\ s[1] = a
  OBVIOUS
<1>. HIDE DEF s
<1>2. p \in Seq(T) /\ Len(p) <= 1 /\ Len(p) \in Nat /\ \A i \in 1 .. Len(p) : p[i] = s[i]
  BY <1>1, BeginsIs DEF s
<1>3. Len(p) = 1
  BY <1>2
<1>4. \A i \in 1 .. Len(p) : p[i] = s[i]
  BY <1>2
<1>5. p = s
  BY <1>1, <1>2, <1>3, <1>4, Same
<1>. QED BY <1>5 DEF s

\* A line that is cut is one piece: the cut line, or the line with its carriage
\* return.
LEMMA LineBegins ==
  ASSUME NEW ts \in Seq(Token), Without(ts, "\n"), NEW p, Begins(p, Line(ts)), p # <<>>
  PROVE  \E u \in Seq(Token) : u # <<>> /\ Begins(u, ts \o <<"\r">>) /\ Pieces(p, "\n") = <<u>>
                         /\ (u = p \/ u = ts \o <<"\r">>)
<1>. DEFINE a == ts \o <<"\r">>
<1>1. "\r" \in Token /\ "\n" \in Token
  BY Literal
<1>2. a \in Seq(Token) /\ Without(a, "\n") /\ a # <<>>
  <2>1. <<"\r">> \in Seq(Token) /\ Without(<<"\r">>, "\n")
    BY <1>1 DEF Without
  <2>. DEFINE r == <<"\r">>
  <2>2. r \in Seq(Token) /\ Without(r, "\n")
    BY <2>1
  <2>. HIDE DEF r
  <2>3. ts \o r \in Seq(Token) /\ Without(ts \o r, "\n")
    BY <2>2, WithoutJoin
  <2>4. ts \o <<"\r">> # <<>>
    BY <1>1
  <2>. QED BY <2>3, <2>4 DEF r
<1>3. Line(ts) = a \o <<"\n">>
  BY <1>1 DEF Line
<1>. HIDE DEF a
<1>4. CASE Begins(p, a)
  <2>1. p \in Seq(Token) /\ Without(p, "\n")
    BY <1>2, <1>4, BeginsIs, BeginsWithout
  <2>2. Pieces(p, "\n") = <<p>>
    BY <2>1, PiecesWhole
  <2>. QED BY <1>4, <2>1, <2>2 DEF a
<1>5. CASE After(Token, a, <<"\n">>, p)
  <2>1. p = a \o <<"\n">>
    BY <1>1, <1>5, BeginsOne DEF After
  <2>2. a \o <<"\n">> = a \o <<"\n">> \o <<>> /\ <<>> \in Seq(Token)
    BY <1>1, <1>2
  <2>3. Pieces(a \o <<"\n">> \o <<>>, "\n") = <<a>> \o Pieces(<<>>, "\n")
    BY <1>1, <1>2, <2>2, PiecesJoin
  <2>4. Pieces(<<>>, "\n") = <<>>
    BY PiecesOfNothing
  <2>5. <<a>> \o <<>> = <<a>>
    BY <1>2
  <2>6. Pieces(p, "\n") = <<a>>
    BY <2>1, <2>2, <2>3, <2>4, <2>5, Zenon
  <2>. QED BY <1>2, <2>6, BeginsAll DEF a
<1>. DEFINE z == <<"\n">>
<1>6. z \in Seq(Token)
  BY <1>1
<1>. HIDE DEF z
<1>7. Begins(p, a) \/ After(Token, a, z, p)
  <2>1. Begins(p, a \o z) /\ z \in Seq(Token) /\ a \in Seq(Token)
    BY <1>2, <1>3, <1>6 DEF z
  <2>. QED BY <2>1, BeginsJoin
<1>. QED BY <1>4, <1>5, <1>7 DEF z

\* A longer text begins as the shorter did.
LEMMA AppendStarts ==
  ASSUME NEW T, NEW s \in Seq(T), NEW t \in T
  PROVE  Append(s, t) # <<>> /\ Append(s, t)[1] = IF s = <<>> THEN t ELSE s[1]
<1>1. Len(Append(s, t)) = Len(s) + 1 /\ Len(s) \in Nat
  OBVIOUS
<1>2. Append(s, t) # <<>>
  <2>. DEFINE u == Append(s, t)
  <2>1. Len(u) # 0
    BY <1>1
  <2>. HIDE DEF u
  <2>2. u # <<>>
    BY <2>1
  <2>. QED BY <2>2 DEF u
<1>3. CASE s = <<>>
  BY <1>3
<1>4. CASE s # <<>>
  <2>1. 1 \in 1 .. Len(s)
    BY <1>4
  <2>2. Append(s, t)[1] = s[1]
    BY <2>1
  <2>. QED BY <1>2, <1>4, <2>2
<1>. QED BY <1>2, <1>3, <1>4

(* The first piece starts as the text does. *)
LEMMA PieceStarts ==
  ASSUME NEW T, NEW d, NEW s \in Seq(T), s # <<>>, s[1] # d
  PROVE  LET w == Pieces(s, d) IN w # <<>> /\ w[1] # <<>> /\ w[1][1] = s[1]
<1>. DEFINE Starts(e, h) == IF e.done = <<>> THEN e.rest # <<>> /\ e.rest[1] = h
                            ELSE e.done[1] # <<>> /\ e.done[1][1] = h
            S == {x \in Seq(T) : (x # <<>> /\ x[1] # d) => Starts(End(x, d), x[1])}
<1>1. <<>> \in S
  OBVIOUS
<1>2. ASSUME NEW x \in Seq(T), x \in S, NEW t \in T PROVE Append(x, t) \in S
  <2>. DEFINE u == Append(x, t)
              e == End(x, d)
  <2>. SUFFICES ASSUME u[1] # d PROVE Starts(End(u, d), u[1])
    <3>1. u \in Seq(T)
      OBVIOUS
    <3>. HIDE DEF u, Starts
    <3>. QED BY <3>1 DEF u
  <2>1. End(u, d) = Take(e, t, d) /\ e \in Ends(T)
    BY EndGrows, EndType
  <2>2. e.done \in Seq(Seq(T)) /\ e.rest \in Seq(T)
    BY <2>1 DEF Ends
  <2>3. CASE x = <<>>
    <3>1. e = [done |-> <<>>, rest |-> <<>>]
      BY <2>3, EndEmpty
    <3>2. u[1] = t
      BY <2>3
    <3>3. Take(e, t, d) = [done |-> <<>>, rest |-> <<t>>]
      <4>1. e.done = <<>> /\ e.rest = <<>> /\ t # d
        BY <3>1, <3>2
      <4>. HIDE DEF e
      <4>2. Append(<<>>, t) = <<t>>
        OBVIOUS
      <4>. QED BY <4>1, <4>2 DEF Take
    <3>. HIDE DEF e, u
    <3>4. End(u, d).done = <<>> /\ End(u, d).rest = <<t>>
      BY <2>1, <3>3
    <3>. QED BY <3>2, <3>4
  <2>4. CASE x # <<>>
    <3>1. u[1] = x[1]
      BY <2>4
    <3>2. Starts(e, x[1])
      BY <1>2, <2>4, <3>1
    <3>. HIDE DEF e, u
    <3>3. CASE t = d
      <4>1. End(u, d).done = Append(e.done, e.rest)
        BY <2>1, <3>3 DEF Take
      <4>2. Append(e.done, e.rest) # <<>> /\ Append(e.done, e.rest)[1] = IF e.done = <<>> THEN e.rest ELSE e.done[1]
        BY <2>2, AppendStarts
      <4>. QED BY <3>1, <3>2, <4>1, <4>2
    <3>4. CASE t # d
      <4>1. End(u, d).done = e.done /\ End(u, d).rest = Append(e.rest, t)
        BY <2>1, <3>4 DEF Take
      <4>2. e.rest # <<>> => Append(e.rest, t) # <<>> /\ Append(e.rest, t)[1] = e.rest[1]
        BY <2>2, AppendStarts
      <4>. QED BY <3>1, <3>2, <4>1, <4>2
    <3>. QED BY <3>3, <3>4
  <2>. QED BY <2>3, <2>4
<1>. HIDE DEF S
<1>3. s \in S
  BY <1>1, <1>2, SeqGrows, Zenon
<1>. DEFINE e == End(s, d)
<1>4. Starts(e, s[1]) /\ e.done \in Seq(Seq(T)) /\ e.rest \in Seq(T)
  <2>1. Starts(e, s[1])
    BY <1>3 DEF S
  <2>. QED BY <2>1, EndType DEF Ends
<1>. HIDE DEF e
<1>5. Pieces(s, d) = IF e.rest = <<>> THEN e.done ELSE Append(e.done, e.rest)
  BY PiecesEnd DEF e
<1>6. CASE e.rest = <<>>
  BY <1>4, <1>5, <1>6
<1>7. CASE e.rest # <<>>
  <2>1. Append(e.done, e.rest) # <<>> /\ Append(e.done, e.rest)[1] = IF e.done = <<>> THEN e.rest ELSE e.done[1]
    BY <1>4, AppendStarts
  <2>. QED BY <1>4, <1>5, <1>7, <2>1
<1>. QED BY <1>6, <1>7

(* A line that starts with another word has no cookies. *)
LEMMA NoCookies ==
  ASSUME NEW u \in Seq(Token), u # <<>>, u[1] # Blank, u[1] # "Cookie:"
  PROVE  PairsIn(u) = <<>>
<1>1. Pieces(u, Blank)[1][1] = u[1]
  BY PieceStarts
<1>2. Pieces(u, Blank)[1] # <<"Cookie:">>
  <2>1. <<"Cookie:">>[1] = "Cookie:"
    OBVIOUS
  <2>. QED BY <1>1, <2>1
<1>. QED BY <1>2 DEF PairsIn
-----------------------------------------------------------------------------
(***************************************************************************)
(* Lists of pairs that are cut                                             *)
(***************************************************************************)

\* Two ways to write the end of a list.
LEMMA JoinLast ==
  ASSUME NEW T, NEW a \in Seq(T), NEW b \in Seq(T), NEW c \in Seq(T), NEW d \in Seq(T)
  PROVE  a \o (b \o (c \o d)) = (a \o b) \o c \o d /\ a \o b \in Seq(T)
<1>1. a \o b \in Seq(T) /\ c \o d \in Seq(T)
  OBVIOUS
<1>2. a \o (b \o (c \o d)) = (a \o b) \o (c \o d)
  BY <1>1
<1>3. (a \o b) \o (c \o d) = (a \o b) \o c \o d
  BY <1>1
<1>. QED BY <1>1, <1>2, <1>3

\* The beginning of a part is one of the whole.
LEMMA BeginsMore ==
  ASSUME NEW T, NEW a \in Seq(T), NEW b \in Seq(T), NEW p, Begins(p, a)
  PROVE  Begins(p, a \o b)
<1>1. PICK n \in 0 .. Len(a) : p = SubSeq(a, 1, n)
  BY DEF Begins
<1>2. n \in 0 .. Len(a \o b)
  OBVIOUS
<1>3. SubSeq(a \o b, 1, n) = SubSeq(a, 1, n)
  <2>. DEFINE x == SubSeq(a \o b, 1, n)
              y == SubSeq(a, 1, n)
  <2>1. x \in Seq(T) /\ y \in Seq(T) /\ Len(x) = n /\ Len(y) = n
    OBVIOUS
  <2>2. \A i \in 1 .. n : x[i] = y[i]
    OBVIOUS
  <2>. HIDE DEF x, y
  <2>3. x = y
    BY <2>1, <2>2, Same
  <2>. QED BY <2>3 DEF x, y
<1>. QED BY <1>1, <1>2, <1>3 DEF Begins

\* The beginning of the second part, after the first part.
LEMMA BeginsAfter ==
  ASSUME NEW T, NEW a \in Seq(T), NEW b \in Seq(T), NEW p, Begins(p, b)
  PROVE  Begins(a \o p, a \o b)
<1>1. PICK n \in 0 .. Len(b) : p = SubSeq(b, 1, n)
  BY DEF Begins
<1>2. Len(a) + n \in 0 .. Len(a \o b)
  OBVIOUS
<1>3. SubSeq(a \o b, 1, Len(a) + n) = a \o p
  <2>. DEFINE x == SubSeq(a \o b, 1, Len(a) + n)
              y == a \o SubSeq(b, 1, n)
  <2>1. x \in Seq(T) /\ y \in Seq(T) /\ Len(x) = Len(a) + n /\ Len(y) = Len(a) + n
    OBVIOUS
  <2>2. ASSUME NEW i \in 1 .. Len(a) + n PROVE x[i] = y[i]
    <3>1. CASE i <= Len(a)
      BY <3>1
    <3>2. CASE i > Len(a)
      <4>1. x[i] = b[i - Len(a)]
        BY <3>2
      <4>2. y[i] = SubSeq(b, 1, n)[i - Len(a)]
        BY <3>2
      <4>3. SubSeq(b, 1, n)[i - Len(a)] = b[i - Len(a)]
        BY <3>2
      <4>. QED BY <4>1, <4>2, <4>3
    <3>. QED BY <3>1, <3>2
  <2>. HIDE DEF x, y
  <2>3. x = y
    BY <2>1, <2>2, Same
  <2>. QED BY <1>1, <2>3 DEF x, y
<1>. QED BY <1>2, <1>3 DEF Begins

\* The empty text is the beginning of every text.
LEMMA BeginsNothing ==
  ASSUME NEW T, NEW s \in Seq(T)
  PROVE  Begins(<<>>, s) /\ (s = <<>> => \A p : Begins(p, s) => p = <<>>)
<1>1. SubSeq(s, 1, 0) = <<>> /\ 0 \in 0 .. Len(s)
  OBVIOUS
<1>2. ASSUME s = <<>>, NEW p, Begins(p, s) PROVE p = <<>>
  <2>1. p \in Seq(T) /\ Len(p) <= Len(s) /\ Len(p) \in Nat
    BY <1>2, BeginsIs
  <2>2. Len(s) = 0
    BY <1>2
  <2>. QED BY <2>1, <2>2
<1>. QED BY <1>1, <1>2 DEF Begins

\* A beginning has the first token, then the beginning of the rest.
LEMMA BeginsHead ==
  ASSUME NEW T, NEW d \in T, NEW b \in Seq(T), NEW p, p # <<>>, Begins(p, <<d>> \o b)
  PROVE  \E t \in Seq(T) : p = <<d>> \o t /\ Begins(t, b)
<1>. DEFINE a == <<d>>
<1>1. a \in Seq(T)
  OBVIOUS
<1>. HIDE DEF a
<1>2. Begins(p, a) \/ After(T, a, b, p)
  <2>1. Begins(p, a \o b)
    BY DEF a
  <2>. QED BY <1>1, <2>1, BeginsJoin
<1>3. CASE Begins(p, a)
  <2>1. p = <<d>>
    BY <1>3, BeginsOne DEF a
  <2>2. <<d>> \o <<>> = <<d>> /\ <<>> \in Seq(T)
    OBVIOUS
  <2>. QED BY <2>1, <2>2, BeginsNothing
<1>. QED BY <1>2, <1>3 DEF After, a

(* The first k pairs, each with what is left of its separator. *)
Upto(cs, x, k) == [i \in 1 .. k |-> Pair(cs[i]) \o x]

(* k pairs are read, and of the next one at most the beginning. *)
CutAt(cs, x, e, k) ==
  /\ k \in 0 .. Len(cs)
  /\ e.done = Upto(cs, x, k)
  /\ e.rest = <<>> \/ (k < Len(cs) /\ Begins(e.rest, Pair(cs[k + 1]) \o x))

\* One pair more.
LEMMA UptoGrows ==
  ASSUME NEW A, A \subseteq Token, NEW cs \in Seq(Fields(A)), NEW c \in Fields(A), NEW x \in Seq(Token),
         NEW k \in 0 .. Len(cs)
  PROVE  /\ Upto(Append(cs, c), x, k) = Upto(cs, x, k) /\ Upto(cs, x, k) \in Seq(Seq(Token))
         /\ k > 0 => Upto(cs, x, k) = Append(Upto(cs, x, k - 1), Pair(cs[k]) \o x)
<1>. DEFINE F(i) == Pair(cs[i]) \o x
<1>1. \A i \in 1 .. k : Append(cs, c)[i] = cs[i]
  OBVIOUS
<1>2. \A i \in 1 .. k : F(i) \in Seq(Token)
  <2>. SUFFICES ASSUME NEW i \in 1 .. k PROVE F(i) \in Seq(Token)
    OBVIOUS
  <2>1. cs[i] \in Fields(A)
    OBVIOUS
  <2>2. Pair(cs[i]) \in Seq(Token)
    BY <2>1, FieldType
  <2>. QED BY <2>2
<1>3. Upto(cs, x, k) = [i \in 1 .. k |-> F(i)] /\ Upto(cs, x, k - 1) = [i \in 1 .. k - 1 |-> F(i)]
  BY DEF Upto
<1>4. Upto(Append(cs, c), x, k) = [i \in 1 .. k |-> F(i)]
  BY <1>1 DEF Upto
<1>5. k \in Nat
  OBVIOUS
<1>6. k > 0 => [i \in 1 .. k |-> F(i)] = Append([i \in 1 .. k - 1 |-> F(i)], F(k))
  <2>. HIDE DEF F
  <2>. QED BY <1>2, <1>5
<1>7. [i \in 1 .. k |-> F(i)] \in Seq(Seq(Token))
  <2>. HIDE DEF F
  <2>. QED BY <1>2, <1>5
<1>. QED BY <1>3, <1>4, <1>6, <1>7

\* Every beginning of a list of pairs is read so, for some k.
LEMMA ListedCut ==
  ASSUME NEW A, A \subseteq Token, NEW cs \in Seq(Fields(A)),
         NEW d \in Token, d \notin A, d # "=", NEW x \in Seq(Token), Without(x, d),
         NEW p, Begins(p, Listed(cs, x \o <<d>>))
  PROVE  \E k \in 0 .. Len(cs) : CutAt(cs, x, End(p, d), k)
<1>. DEFINE b == x \o <<d>>
            Cut(y, q) == \E k \in 0 .. Len(y) : CutAt(y, x, End(q, d), k)
            S == {y \in Seq(Fields(A)) : \A q : Begins(q, Listed(y, b)) => Cut(y, q)}
<1>0. b \in Seq(Token)
  OBVIOUS
<1>1. <<>> \in S
  <2>. SUFFICES ASSUME NEW q, Begins(q, Listed(<<>>, b)) PROVE Cut(<<>>, q)
    OBVIOUS
  <2>. DEFINE z == <<>>
  <2>1. z \in Seq(Token) /\ Len(z) = 0 /\ z = <<>>
    OBVIOUS
  <2>2. q = z
    <3>. HIDE DEF z
    <3>1. Begins(q, z)
      BY <2>1, ListedNone
    <3>. QED BY <2>1, <3>1, BeginsNothing
  <2>3. End(q, d).done = z /\ End(q, d).rest = z
    BY <2>2, EndEmpty
  <2>4. Upto(z, x, 0) = z
    BY DEF Upto
  <2>. HIDE DEF z
  <2>5. CutAt(z, x, End(q, d), 0)
    BY <2>1, <2>3, <2>4 DEF CutAt
  <2>. QED BY <2>1, <2>5 DEF z
<1>2. ASSUME NEW y \in Seq(Fields(A)), y \in S, NEW c \in Fields(A) PROVE Append(y, c) \in S
  <2>. DEFINE u == Append(y, c)
              L == Listed(y, b)
              B == IF y = <<>> THEN <<>> ELSE b
              n == Len(y)
  <2>. SUFFICES ASSUME NEW q, Begins(q, Listed(u, b)) PROVE Cut(u, q)
    <3>1. u \in Seq(Fields(A))
      OBVIOUS
    <3>. HIDE DEF u, Cut
    <3>. QED BY <3>1 DEF u
  <2>0. u \in Seq(Fields(A)) /\ Len(u) = n + 1 /\ n \in Nat /\ u[n + 1] = c /\ \A i \in 1 .. n : u[i] = y[i]
    OBVIOUS
  <2>1. Pair(c) \in Seq(Token) /\ Without(Pair(c), d)
    BY PairWithout, FieldType
  <2>2. Listed(u, b) = L \o (B \o Pair(c)) /\ L \in Seq(Token) /\ B \in Seq(Token)
    <3>. HIDE DEF b
    <3>1. B \in Seq(Token)
      BY <1>0
    <3>2. Listed(Append(y, c), b) = Listed(y, b) \o ((IF y = <<>> THEN <<>> ELSE b) \o Pair(c)) /\ Listed(y, b) \in Seq(Token)
      BY <1>0, ListedGrows
    <3>. QED BY <3>1, <3>2
  <2>3. \A k \in 0 .. n : Upto(u, x, k) = Upto(y, x, k)
    BY UptoGrows
  <2>. HIDE DEF b, L
  <2>4. Begins(q, L) \/ After(Token, L, B \o Pair(c), q)
    <3>. DEFINE w == B \o Pair(c)
    <3>1. w \in Seq(Token) /\ Begins(q, L \o w)
      BY <2>1, <2>2
    <3>. HIDE DEF w, B
    <3>2. Begins(q, L) \/ After(Token, L, w, q)
      BY <2>2, <3>1, BeginsJoin
    <3>. QED BY <3>2 DEF w
  <2>5. CASE Begins(q, L)
    <3>1. PICK k \in 0 .. n : CutAt(y, x, End(q, d), k)
      BY <1>2, <2>5 DEF L
    <3>. DEFINE e == End(q, d)
    <3>. HIDE DEF e, u, n
    <3>2. k \in 0 .. Len(u) /\ (k < Len(y) => k < Len(u) /\ u[k + 1] = y[k + 1])
      <4>1. k \in 0 .. n /\ Len(y) = n
        BY <3>1 DEF n
      <4>2. k < n => k + 1 \in 1 .. n
        BY <2>0, <4>1
      <4>. QED BY <2>0, <4>1, <4>2
    <3>3. CutAt(u, x, e, k)
      BY <2>3, <3>1, <3>2 DEF CutAt, e
    <3>. QED BY <3>2, <3>3 DEF e
  <2>6. CASE After(Token, L, B \o Pair(c), q)
    <3>1. PICK t \in Seq(Token) : t # <<>> /\ Begins(t, B \o Pair(c)) /\ q = L \o t
      BY <2>6 DEF After
    <3>2. CASE y = <<>>
      <4>1. B \o Pair(c) = Pair(c) /\ L = <<>>
        BY <2>1, <3>2, ListedNone DEF L
      <4>2. q = t /\ Begins(q, Pair(c))
        <5>1. <<>> \o t = t
          OBVIOUS
        <5>. QED BY <3>1, <4>1, <5>1
      <4>3. End(q, d) = [done |-> <<>>, rest |-> q]
        <5>1. Without(q, d)
          BY <2>1, <4>2, BeginsWithout
        <5>. QED BY <3>1, <4>2, <5>1, EndWithout
      <4>4. n = 0 /\ u[1] = c /\ Len(u) = 1
        BY <3>2
      <4>5. Upto(u, x, 0) = <<>>
        BY DEF Upto
      <4>6. Begins(q, Pair(c) \o x)
        BY <2>1, <4>2, BeginsMore
      <4>. HIDE DEF u, n, B
      <4>. DEFINE e == End(q, d)
      <4>7. e.done = <<>> /\ e.rest = q
        BY <4>3
      <4>. HIDE DEF e
      <4>8. CutAt(u, x, e, 0)
        BY <4>4, <4>5, <4>6, <4>7 DEF CutAt
      <4>9. 0 \in 0 .. Len(u)
        BY <4>4
      <4>. QED BY <4>8, <4>9 DEF e
    <3>3. CASE y # <<>>
      <4>1. End(L, d) = [done |-> Closed(y, x), rest |-> Pair(y[n])]
        BY <3>3, ListedRead DEF L, b
      <4>2. n \in 1 .. Len(u) /\ y[n] \in Fields(A) /\ u[n] = y[n] /\ n < Len(u) /\ n - 1 < Len(u) /\ n - 1 \in 0 .. Len(u)
            /\ n \in 0 .. n
        <5>1. n # 0
          BY <3>3
        <5>. QED BY <2>0, <5>1
      <4>3. Pair(y[n]) \in Seq(Token)
        BY <4>2, FieldType
      <4>. HIDE DEF u
      <4>4. Closed(y, x) = Upto(u, x, n - 1) /\ Upto(u, x, n) = Append(Upto(u, x, n - 1), Pair(y[n]) \o x)
            /\ Upto(u, x, n) \in Seq(Seq(Token))
        <5>1. n - 1 \in 0 .. n /\ n > 0
          BY <4>2
        <5>2. Closed(y, x) = Upto(y, x, n - 1)
          BY DEF Closed, Upto
        <5>3. Upto(y, x, n) = Append(Upto(y, x, n - 1), Pair(y[n]) \o x) /\ Upto(y, x, n) \in Seq(Seq(Token))
          BY <4>2, <5>1, UptoGrows
        <5>. HIDE DEF n
        <5>. QED BY <2>3, <4>2, <5>1, <5>2, <5>3
      <4>. DEFINE v == <<d>> \o Pair(c)
      <4>5. B \o Pair(c) = x \o v /\ v \in Seq(Token)
        BY <2>1, <3>3 DEF b
      <4>6. Begins(t, x) \/ After(Token, x, v, t)
        <5>. HIDE DEF v, B
        <5>. QED BY <3>1, <4>5, BeginsJoin
      <4>. DEFINE e == End(q, d)
                  r == Pair(y[n])
      <4>7. CASE Begins(t, x)
        <5>1. Without(t, d)
          BY <4>7, BeginsWithout
        <5>2. e = [done |-> End(L, d).done, rest |-> End(L, d).rest \o t]
          BY <2>2, <3>1, <5>1, EndTail
        <5>3. e.done = Upto(u, x, n - 1) /\ e.rest = r \o t
          <6>. HIDE DEF n
          <6>1. End(L, d).done = Closed(y, x) /\ End(L, d).rest = r
            BY <4>1
          <6>. HIDE DEF r
          <6>. QED BY <4>4, <5>2, <6>1
        <5>4. Begins(r \o t, r \o x)
          BY <4>3, <4>7, BeginsAfter
        <5>5. (n - 1) + 1 = n
          BY <2>0
        <5>. HIDE DEF e
        <5>6. Begins(e.rest, Pair(u[(n - 1) + 1]) \o x)
          BY <4>2, <5>3, <5>4, <5>5
        <5>. HIDE DEF n
        <5>7. CutAt(u, x, e, n - 1)
          BY <4>2, <5>3, <5>6 DEF CutAt
        <5>. QED BY <4>2, <5>7 DEF e
      <4>8. CASE After(Token, x, v, t)
        <5>1. PICK t2 \in Seq(Token) : t2 # <<>> /\ Begins(t2, v) /\ t = x \o t2
          BY <4>8 DEF After
        <5>2. PICK t3 \in Seq(Token) : t2 = <<d>> \o t3 /\ Begins(t3, Pair(c))
          BY <2>1, <5>1, BeginsHead
        <5>3. q = (L \o x) \o <<d>> \o t3 /\ L \o x \in Seq(Token)
          <6>. DEFINE o == <<d>>
          <6>1. o \in Seq(Token)
            OBVIOUS
          <6>. HIDE DEF o
          <6>2. L \o (x \o (o \o t3)) = (L \o x) \o o \o t3 /\ L \o x \in Seq(Token)
            BY <2>2, <6>1, JoinLast
          <6>. QED BY <3>1, <5>1, <5>2, <6>2 DEF o
        <5>4. End(t3, d) = [done |-> <<>>, rest |-> t3]
          <6>1. Without(t3, d)
            BY <2>1, <5>2, BeginsWithout
          <6>. QED BY <6>1, EndWithout
        <5>5. End(L \o x, d) = [done |-> Closed(y, x), rest |-> r \o x]
          <6>. DEFINE l == End(L, d)
          <6>1. End(L \o x, d) = [done |-> l.done, rest |-> l.rest \o x]
            BY <2>2, EndTail
          <6>. HIDE DEF n
          <6>2. l.done = Closed(y, x) /\ l.rest = r
            BY <4>1
          <6>. HIDE DEF l, r
          <6>. QED BY <6>1, <6>2
        <5>6. e = [done |-> Append(End(L \o x, d).done, End(L \o x, d).rest) \o End(t3, d).done, rest |-> End(t3, d).rest]
          BY <5>3, EndJoin
        <5>7. e.done = Upto(u, x, n) /\ e.rest = t3
          <6>. HIDE DEF n
          <6>. DEFINE g == End(L \o x, d)
                      h == End(t3, d)
                      z == <<>>
          <6>1. g.done = Closed(y, x) /\ g.rest = r \o x /\ h.done = z /\ h.rest = t3
            BY <5>4, <5>5
          <6>2. Upto(u, x, n) \o z = Upto(u, x, n)
            BY <4>4
          <6>3. e = [done |-> Append(g.done, g.rest) \o h.done, rest |-> h.rest]
            BY <5>6
          <6>4. Append(Closed(y, x), r \o x) = Upto(u, x, n)
            BY <4>4
          <6>. HIDE DEF g, h, z, r
          <6>. QED BY <6>1, <6>2, <6>3, <6>4
        <5>8. Begins(t3, Pair(c) \o x)
          BY <2>1, <5>2, BeginsMore
        <5>. HIDE DEF e, n
        <5>9. CutAt(u, x, e, n)
          BY <2>0, <4>2, <5>7, <5>8 DEF CutAt
        <5>. QED BY <4>2, <5>9 DEF e
      <4>. QED BY <4>6, <4>7, <4>8
    <3>. QED BY <3>2, <3>3
  <2>. QED BY <2>4, <2>5, <2>6
<1>. HIDE DEF S, b, Cut
<1>3. cs \in S
  BY <1>1, <1>2, SeqGrows, Zenon
<1>4. Cut(cs, p)
  BY <1>3 DEF S, b
<1>. QED BY <1>4 DEF Cut

\* The piece being read is the end of what was read.
LEMMA RestEnds ==
  ASSUME NEW T, NEW s \in Seq(T), NEW d
  PROVE  \E z \in Seq(T) : s = z \o End(s, d).rest
<1>. DEFINE Tail1(x) == \E z \in Seq(T) : x = z \o End(x, d).rest
            S == {x \in Seq(T) : Tail1(x)}
<1>1. <<>> \in S
  <2>1. <<>> \in Seq(T) /\ <<>> \o <<>> = <<>> /\ End(<<>>, d).rest = <<>>
    BY EndEmpty
  <2>. DEFINE e == <<>>
  <2>2. e \in Seq(T) /\ e \o e = e /\ End(e, d).rest = e
    BY <2>1
  <2>. HIDE DEF e
  <2>3. e \in S
    BY <2>2
  <2>. QED BY <2>3 DEF e
<1>2. ASSUME NEW x \in Seq(T), x \in S, NEW t \in T PROVE Append(x, t) \in S
  <2>. DEFINE u == Append(x, t)
              e == End(x, d)
  <2>1. u \in Seq(T) /\ e.rest \in Seq(T) /\ End(u, d) = Take(e, t, d)
    BY EndType, EndGrows DEF Ends
  <2>2. PICK z \in Seq(T) : x = z \o e.rest
    BY <1>2
  <2>3. CASE t = d
    <3>1. End(u, d).rest = <<>>
      BY <2>1, <2>3 DEF Take
    <3>2. u = u \o <<>>
      BY <2>1
    <3>3. u = u \o End(u, d).rest
      BY <3>1, <3>2, Zenon
    <3>4. Tail1(u)
      BY <2>1, <3>3
    <3>. QED BY <2>1, <3>4
  <2>4. CASE t # d
    <3>1. End(u, d).rest = Append(e.rest, t)
      BY <2>1, <2>4 DEF Take
    <3>. DEFINE r == e.rest
    <3>2. r \in Seq(T) /\ x = z \o r
      BY <2>1, <2>2
    <3>. HIDE DEF r
    <3>3. z \o Append(r, t) = Append(z \o r, t)
      BY <3>2
    <3>4. u = z \o End(u, d).rest
      BY <3>1, <3>2, <3>3 DEF r
    <3>5. Tail1(u)
      BY <3>4
    <3>. QED BY <2>1, <3>5
  <2>. QED BY <2>3, <2>4
<1>. HIDE DEF S
<1>3. s \in S
  BY <1>1, <1>2, SeqGrows, Zenon
<1>. QED BY <1>3 DEF S

\* Flattening goes element by element.
LEMMA FlatCons ==
  ASSUME NEW T, NEW a \in Seq(T), NEW ss \in Seq(Seq(T))
  PROVE  FlattenSeq(<<a>> \o ss) = a \o FlattenSeq(ss) /\ FlattenSeq(ss) \in Seq(T)
<1>. DEFINE h == <<a>>
            S == {x \in Seq(Seq(T)) : FlattenSeq(h \o x) = a \o FlattenSeq(x)}
<1>0. h \in Seq(Seq(T))
  OBVIOUS
<1>1. <<>> \in S
  <2>1. h \o <<>> = h /\ a \o <<>> = a /\ <<>> \o a = a /\ h = Append(<<>>, a) /\ <<>> \in Seq(Seq(T))
    OBVIOUS
  <2>2. FlattenSeq(Append(<<>>, a)) = FlattenSeq(<<>>) \o a
    BY <2>1, FlatGrows
  <2>. HIDE DEF h
  <2>3. FlattenSeq(h) = a
    BY <2>1, <2>2, FlatEmpty, Zenon
  <2>4. FlattenSeq(h \o <<>>) = a \o FlattenSeq(<<>>)
    BY <2>1, <2>3, FlatEmpty, Zenon
  <2>. QED BY <2>1, <2>4
<1>2. ASSUME NEW x \in Seq(Seq(T)), x \in S, NEW b \in Seq(T) PROVE Append(x, b) \in S
  <2>. HIDE DEF h
  <2>1. h \o Append(x, b) = Append(h \o x, b) /\ h \o x \in Seq(Seq(T)) /\ Append(x, b) \in Seq(Seq(T))
    BY <1>0
  <2>2. FlattenSeq(Append(h \o x, b)) = FlattenSeq(h \o x) \o b /\ FlattenSeq(Append(x, b)) = FlattenSeq(x) \o b
    BY <2>1, FlatGrows
  <2>3. FlattenSeq(x) \in Seq(T)
    BY FlatType
  <2>4. (a \o FlattenSeq(x)) \o b = a \o (FlattenSeq(x) \o b)
    BY <2>3
  <2>5. FlattenSeq(h \o x) = a \o FlattenSeq(x)
    BY <1>2
  <2>. QED BY <2>1, <2>2, <2>4, <2>5
<1>. HIDE DEF S
<1>3. ss \in S
  BY <1>1, <1>2, SeqGrows, Zenon
<1>. QED BY <1>3, FlatType DEF S

(* The beginning of a pair ends within its name, or after the equals sign. *)
LEMMA PairBegins ==
  ASSUME NEW c \in Fields(Plain), NEW t, t # <<>>, Begins(t, Pair(c))
  PROVE  /\ t \in Seq(Token)
         /\ \/ Begins(t, c.name) /\ Without(t, "=") /\ Without(t, Semicolon)
            \/ \E w \in Seq(Token) : /\ Begins(w, c.value) /\ t = c.name \o <<"=">> \o w
                                     /\ Without(w, "=") /\ Without(w, Semicolon)
<1>. DEFINE n == c.name
            v == c.value
            e == <<"=">>
<1>1. n \in Seq(Plain) /\ v \in Seq(Plain) /\ n \in Seq(Token) /\ v \in Seq(Token) /\ Pair(c) \in Seq(Token)
  BY PlainTokens, FieldType
<1>2. Without(n, "=") /\ Without(n, Semicolon) /\ Without(v, "=") /\ Without(v, Semicolon)
  BY <1>1, PlainTokens, PlainWithout
<1>3. e \in Seq(Token) /\ "=" \in Token
  BY Distinct
<1>4. t \in Seq(Token)
  BY <1>1, BeginsIs
<1>. DEFINE b == e \o v
<1>5. b \in Seq(Token) /\ Pair(c) = n \o b
  <2>. HIDE DEF n, v
  <2>1. Pair(c) = n \o e \o v
    BY DEF Pair, n, v
  <2>. HIDE DEF e
  <2>. QED BY <1>1, <1>3, <2>1
<1>6. Begins(t, n) \/ After(Token, n, b, t)
  <2>. HIDE DEF n, b
  <2>. QED BY <1>1, <1>5, BeginsJoin
<1>7. CASE Begins(t, n)
  <2>1. Without(t, "=") /\ Without(t, Semicolon)
    BY <1>1, <1>2, <1>7, BeginsWithout
  <2>. QED BY <1>4, <1>7, <2>1
<1>8. CASE After(Token, n, b, t)
  <2>1. PICK x \in Seq(Token) : x # <<>> /\ Begins(x, b) /\ t = n \o x
    BY <1>8 DEF After
  <2>2. PICK w \in Seq(Token) : x = e \o w /\ Begins(w, v)
    BY <1>1, <1>3, <2>1, BeginsHead
  <2>3. t = n \o e \o w
    <3>. HIDE DEF n, e
    <3>. QED BY <1>1, <1>3, <2>1, <2>2
  <2>4. Without(w, "=") /\ Without(w, Semicolon)
    BY <1>1, <1>2, <2>2, BeginsWithout
  <2>. QED BY <1>4, <2>2, <2>3, <2>4
<1>. QED BY <1>6, <1>7, <1>8

\* What CookiePair makes of a cut cookie: it drops the last token, as if it were
\* the separator.
LEMMA CookieCut ==
  ASSUME NEW c \in Fields(Plain), NEW t, t # <<>>, Begins(t, Pair(c))
  PROVE  \/ Begins(t, c.name) /\ CookiePair(t) = [name |-> t, value |-> SubSeq(t, 1, Len(t) - 1)]
         \/ \E w \in Seq(Token) : /\ Begins(w, c.value) /\ t = c.name \o <<"=">> \o w
                                  /\ CookiePair(t) = [name |-> c.name, value |-> SubSeq(w, 1, Len(w) - 1)]
<1>0. t \in Seq(Token)
  BY PairBegins
<1>1. CASE Begins(t, c.name) /\ Without(t, "=") /\ Without(t, Semicolon)
  <2>1. Find(t, "=") = 0 /\ Find(t, Semicolon) = 0
    BY <1>1, FindNone
  <2>2. CookiePair(t) = [name |-> t, value |-> SubSeq(t, 1, Len(t) - 1)]
    BY <2>1 DEF CookiePair
  <2>. QED BY <1>1, <2>2
<1>2. CASE \E w \in Seq(Token) : /\ Begins(w, c.value) /\ t = c.name \o <<"=">> \o w
                                 /\ Without(w, "=") /\ Without(w, Semicolon)
  <2>1. PICK w \in Seq(Token) : /\ Begins(w, c.value) /\ t = c.name \o <<"=">> \o w
                                /\ Without(w, "=") /\ Without(w, Semicolon)
    BY <1>2
  <2>. DEFINE n == c.name
              e == <<"=">>
              k == Len(n) + 1
  <2>2. n \in Seq(Token) /\ e \in Seq(Token) /\ Without(n, "=") /\ Without(n, Semicolon) /\ Without(e, Semicolon)
    <3>1. n \in Seq(Plain) /\ n \in Seq(Token)
      BY PlainTokens, FieldType
    <3>2. Without(n, "=") /\ Without(n, Semicolon)
      BY <3>1, PlainTokens, PlainWithout
    <3>. QED BY <3>1, <3>2, Distinct DEF Without
  <2>3. t = n \o e \o w
    BY <2>1
  <2>4. /\ Len(t) = Len(n) + 1 + Len(w) /\ Len(n) \in Nat /\ Len(w) \in Nat /\ t[k] = "="
        /\ \A i \in 1 .. Len(n) : t[i] = n[i]
    <3>. HIDE DEF n
    <3>. QED BY <2>2, <2>3
  <2>5. Find(t, "=") = k
    <3>. HIDE DEF n
    <3>1. k \in 1 .. Len(t) /\ \A j \in 1 .. k - 1 : t[j] # "="
      BY <2>2, <2>4 DEF Without
    <3>2. Len(t) \in Nat
      BY <2>4
    <3>. HIDE DEF k
    <3>. QED BY <2>4, <3>1, <3>2, FindFirst DEF k
  <2>6. Find(t, Semicolon) = 0
    <3>. HIDE DEF n, e
    <3>1. Without(n \o e, Semicolon) /\ n \o e \in Seq(Token)
      BY <2>2, WithoutJoin
    <3>2. Without((n \o e) \o w, Semicolon)
      BY <2>1, <3>1, WithoutJoin
    <3>. QED BY <2>3, <3>2, FindNone
  <2>7. SubSeq(t, 1, k - 1) = n
    <3>. HIDE DEF n
    <3>. QED BY <2>2, <2>3, <2>4
  <2>8. SubSeq(t, k + 1, Len(t) - 1) = SubSeq(w, 1, Len(w) - 1)
    <3>. HIDE DEF n, e
    <3>1. CASE w = <<>>
      <4>1. Len(t) - 1 = k - 1 /\ Len(w) - 1 = -1 /\ k \in Nat
        BY <2>4, <3>1
      <4>2. SubSeq(t, k + 1, Len(t) - 1) = <<>> /\ SubSeq(w, 1, Len(w) - 1) = <<>>
        <5>. HIDE DEF k
        <5>. QED BY <4>1
      <4>. QED BY <4>2
    <3>2. CASE w # <<>>
      <4>1. Len(w) # 0
        BY <3>2
      <4>. DEFINE m == Len(w) - 1
                  x == SubSeq(t, k + 1, Len(t) - 1)
                  y == SubSeq(w, 1, m)
      <4>2. m \in Nat /\ Len(t) - 1 = k + m /\ k \in Nat /\ Len(w) = m + 1 /\ Len(t) = k + m + 1
        BY <2>4, <4>1
      <4>3. x \in Seq(Token) /\ Len(x) = m
        <5>1. x = SubSeq(t, k + 1, k + m)
          BY <4>2
        <5>. HIDE DEF x, k, m
        <5>. QED BY <1>0, <4>2, <5>1
      <4>4. y \in Seq(Token) /\ Len(y) = m
        <5>. HIDE DEF m
        <5>. QED BY <4>2
      <4>5. ASSUME NEW i \in 1 .. m PROVE x[i] = y[i]
        <5>1. x[i] = t[k + i]
          BY <1>0, <2>4, <4>2
        <5>2. y[i] = w[i]
          BY <4>2
        <5>3. t[k + i] = w[i]
          BY <2>2, <2>3, <2>4, <4>2
        <5>. QED BY <5>1, <5>2, <5>3
      <4>. HIDE DEF x, y, m
      <4>6. x = y
        BY <4>3, <4>4, <4>5, Same
      <4>. QED BY <4>6 DEF x, y, m
    <3>. QED BY <3>1, <3>2
  <2>9. CookiePair(t) = [name |-> n, value |-> SubSeq(w, 1, Len(w) - 1)]
    <3>1. k # 0
      BY <2>4
    <3>. HIDE DEF k, n
    <3>. QED BY <2>5, <2>6, <2>7, <2>8, <3>1 DEF CookiePair
  <2>. QED BY <2>1, <2>9
<1>. QED BY <1>1, <1>2, PairBegins

\* What FieldPair makes of a cut field: a name without a value, or a value that
\* is cut.
LEMMA FieldCut ==
  ASSUME NEW c \in Fields(Plain), NEW t, t # <<>>, Begins(t, Pair(c))
  PROVE  \/ Begins(t, c.name) /\ FieldPair(t) = [name |-> t, value |-> <<>>]
         \/ \E w \in Seq(Token) : /\ Begins(w, c.value)
                                  /\ FieldPair(t) = [name |-> c.name, value |-> w]
<1>0. t \in Seq(Token)
  BY PairBegins
<1>1. CASE Begins(t, c.name) /\ Without(t, "=") /\ Without(t, Semicolon)
  <2>1. Pieces(t, "=") = <<t>>
    BY <1>0, <1>1, PiecesWhole
  <2>2. Len(<<t>>) = 1 /\ <<t>>[1] = t
    OBVIOUS
  <2>. DEFINE z == <<t>>
  <2>3. Pieces(t, "=") = z /\ Len(z) = 1 /\ z[1] = t
    BY <2>1, <2>2
  <2>. HIDE DEF z
  <2>4. FieldPair(t) = [name |-> t, value |-> <<>>]
    BY <2>3 DEF FieldPair
  <2>. QED BY <1>1, <2>4
<1>2. CASE \E w \in Seq(Token) : /\ Begins(w, c.value) /\ t = c.name \o <<"=">> \o w
                                 /\ Without(w, "=") /\ Without(w, Semicolon)
  <2>1. PICK w \in Seq(Token) : /\ Begins(w, c.value) /\ t = c.name \o <<"=">> \o w
                                /\ Without(w, "=") /\ Without(w, Semicolon)
    BY <1>2
  <2>2. c.name \in Seq(Token) /\ Without(c.name, "=")
    <3>1. c.name \in Seq(Plain)
      BY PlainTokens, FieldType
    <3>. QED BY <3>1, PlainTokens, PlainWithout
  <2>. QED BY <2>1, <2>2, FieldRead
<1>. QED BY <1>1, <1>2, PairBegins
-----------------------------------------------------------------------------
(***************************************************************************)
(* Cookie lines that are cut                                               *)
(***************************************************************************)

\* The pairs the parser reads from words.
Words(w) == [k \in 1 .. Len(w) |-> CookiePair(w[k])]

\* The pairs ps are some whole cookies of cs, and maybe what CookiePair makes of
\* a cut one with which r ends.
PartOf(ps, cs, r) ==
  \E k \in 0 .. Len(cs) :
     \/ ps = SubSeq(cs, 1, k)
     \/ /\ k < Len(cs)
        /\ \E t \in Seq(Token) : /\ t # <<>> /\ Begins(t, Pair(cs[k + 1]))
                                 /\ ps = Append(SubSeq(cs, 1, k), CookiePair(t))
                                 /\ \E z \in Seq(Token) : r = z \o t

\* They are also when something comes before r.
LEMMA PartAfter ==
  ASSUME NEW ps, NEW cs, NEW r \in Seq(Token), PartOf(ps, cs, r), NEW a \in Seq(Token)
  PROVE  PartOf(ps, cs, a \o r)
<1>1. PICK k \in 0 .. Len(cs) :
     \/ ps = SubSeq(cs, 1, k)
     \/ /\ k < Len(cs)
        /\ \E t \in Seq(Token) : /\ t # <<>> /\ Begins(t, Pair(cs[k + 1]))
                                 /\ ps = Append(SubSeq(cs, 1, k), CookiePair(t))
                                 /\ \E z \in Seq(Token) : r = z \o t
  BY DEF PartOf
<1>2. CASE ps = SubSeq(cs, 1, k)
  BY <1>2 DEF PartOf
<1>3. CASE /\ k < Len(cs)
           /\ \E t \in Seq(Token) : /\ t # <<>> /\ Begins(t, Pair(cs[k + 1]))
                                    /\ ps = Append(SubSeq(cs, 1, k), CookiePair(t))
                                    /\ \E z \in Seq(Token) : r = z \o t
  <2>1. PICK t \in Seq(Token) : /\ t # <<>> /\ Begins(t, Pair(cs[k + 1]))
                                /\ ps = Append(SubSeq(cs, 1, k), CookiePair(t))
                                /\ \E z \in Seq(Token) : r = z \o t
    BY <1>3
  <2>2. PICK z \in Seq(Token) : r = z \o t
    BY <2>1
  <2>. DEFINE y == a \o z
  <2>3. y \in Seq(Token) /\ a \o r = y \o t
    BY <2>2
  <2>. HIDE DEF y
  <2>4. \E z1 \in Seq(Token) : a \o r = z1 \o t
    BY <2>3
  <2>. QED BY <1>3, <2>1, <2>4 DEF PartOf
<1>. QED BY <1>1, <1>2, <1>3

\* A whole pair with its separator is read as it is.
LEMMA ClosedWord ==
  ASSUME NEW c \in Fields(Plain), NEW x \in {Semicolon, "\r"}
  PROVE  CookiePair(Pair(c) \o <<x>>) = c
<1>1. c = [name |-> c.name, value |-> c.value] /\ c.name \in Seq(Plain) /\ c.value \in Seq(Plain)
  BY PlainTokens, FieldType
<1>2. Without(c.name, "=") /\ Without(c.name, Semicolon) /\ Without(c.value, Semicolon)
      /\ c.name \in Seq(Token) /\ c.value \in Seq(Token)
  BY <1>1, PlainTokens, PlainWithout
<1>3. x \in Token /\ "=" \in Token
  BY Distinct
<1>. QED BY <1>1, <1>2, <1>3, PairRead

\* So are whole pairs.
LEMMA UptoWords ==
  ASSUME NEW cs \in Seq(Fields(Plain)), NEW k \in 0 .. Len(cs)
  PROVE  /\ Words(Upto(cs, <<Semicolon>>, k)) = SubSeq(cs, 1, k)
         /\ Len(Upto(cs, <<Semicolon>>, k)) = k /\ Upto(cs, <<Semicolon>>, k) \in Seq(Seq(Token))
         /\ \A i \in 1 .. k : Upto(cs, <<Semicolon>>, k)[i] = Pair(cs[i]) \o <<Semicolon>>
<1>. DEFINE x == <<Semicolon>>
            w == Upto(cs, x, k)
<1>1. Len(cs) \in Nat /\ k \in Nat /\ k <= Len(cs) /\ \A i \in 1 .. k : cs[i] \in Fields(Plain)
  OBVIOUS
<1>2. \A i \in 1 .. k : Pair(cs[i]) \o x \in Seq(Token)
  <2>1. x \in Seq(Token)
    BY Distinct
  <2>. HIDE DEF x
  <2>. QED BY <1>1, <2>1, PlainTokens, FieldType
<1>3. Len(w) = k /\ w \in Seq(Seq(Token)) /\ \A i \in 1 .. k : w[i] = Pair(cs[i]) \o x
  <2>. HIDE DEF x
  <2>. QED BY <1>1, <1>2 DEF Upto
<1>4. \A i \in 1 .. k : CookiePair(w[i]) = cs[i]
  BY <1>1, <1>3, ClosedWord
<1>5. SubSeq(cs, 1, k) = [i \in 1 .. k |-> cs[i]]
  BY <1>1
<1>6. Words(w) = [i \in 1 .. k |-> CookiePair(w[i])]
  <2>. HIDE DEF w
  <2>. QED BY <1>3 DEF Words
<1>. HIDE DEF w, x
<1>7. Words(w) = SubSeq(cs, 1, k)
  BY <1>4, <1>5, <1>6
<1>. QED BY <1>3, <1>7 DEF w, x

\* One word more is one pair more.
LEMMA WordsGrow ==
  ASSUME NEW w \in Seq(Seq(Token)), NEW s \in Seq(Token)
  PROVE  Words(Append(w, s)) = Append(Words(w), CookiePair(s))
<1>. DEFINE n == Len(w)
            v == Append(w, s)
<1>1. n \in Nat /\ Len(v) = n + 1 /\ v[n + 1] = s /\ \A i \in 1 .. n : v[i] = w[i]
  OBVIOUS
<1>. DEFINE F(i) == CookiePair(v[i])
<1>2. Words(w) = [i \in 1 .. n |-> F(i)] /\ Words(v) = [i \in 1 .. n + 1 |-> F(i)] /\ F(n + 1) = CookiePair(s)
  <2>. HIDE DEF v
  <2>1. \A i \in 1 .. n : CookiePair(w[i]) = F(i)
    BY <1>1
  <2>. QED BY <1>1, <2>1 DEF Words
<1>. HIDE DEF F, n, v
<1>3. [i \in 1 .. n + 1 |-> F(i)] = Append([i \in 1 .. n |-> F(i)], F(n + 1))
  BY <1>1
<1>. QED BY <1>2, <1>3 DEF v

\* What the parser reads from a cut list of cookies.
LEMMA ListedWords ==
  ASSUME NEW cs \in Seq(Fields(Plain)), NEW t \in Seq(Token), Begins(t, Listed(cs, <<Semicolon, Blank>>))
  PROVE  PartOf(Words(Pieces(t, Blank)), cs, t)
<1>. DEFINE x == <<Semicolon>>
            e == End(t, Blank)
            v == e.rest
<1>1. x \in Seq(Token) /\ Without(x, Blank) /\ x \o <<Blank>> = <<Semicolon, Blank>>
      /\ Blank \in Token /\ Blank \notin Plain /\ Blank # "="
  BY Distinct, Literal, PlainTokens, Apart, Two DEF Without
<1>2. PICK k \in 0 .. Len(cs) : CutAt(cs, x, e, k)
  <2>. HIDE DEF x
  <2>1. Begins(t, Listed(cs, x \o <<Blank>>))
    BY <1>1
  <2>. QED BY <1>1, <2>1, PlainTokens, ListedCut
<1>. DEFINE w == Upto(cs, x, k)
<1>3. Words(w) = SubSeq(cs, 1, k) /\ w \in Seq(Seq(Token))
  BY UptoWords
<1>4. e.done = w /\ v \in Seq(Token)
      /\ (v = <<>> \/ (k < Len(cs) /\ Begins(v, Pair(cs[k + 1]) \o x)))
  <2>1. v \in Seq(Token)
    BY EndType DEF Ends
  <2>. HIDE DEF x, e
  <2>. QED BY <1>2, <2>1 DEF CutAt
<1>5. Pieces(t, Blank) = IF v = <<>> THEN w ELSE Append(w, v)
  <2>. HIDE DEF w
  <2>. QED BY <1>4, PiecesEnd
<1>6. \E z \in Seq(Token) : t = z \o v
  BY RestEnds
<1>. HIDE DEF w, x, e, v
<1>7. CASE v = <<>>
  BY <1>3, <1>5, <1>7 DEF PartOf
<1>8. CASE v # <<>>
  <2>. DEFINE c == cs[k + 1]
  <2>1. k + 1 \in 1 .. Len(cs) /\ k < Len(cs) /\ Len(cs) \in Nat /\ Begins(v, Pair(c) \o x)
    BY <1>4, <1>8
  <2>2. c \in Fields(Plain) /\ Pair(c) \in Seq(Token)
    BY <2>1, PlainTokens, FieldType
  <2>3. Words(Pieces(t, Blank)) = Append(SubSeq(cs, 1, k), CookiePair(v))
    BY <1>3, <1>4, <1>5, <1>8, WordsGrow
  <2>4. CASE Begins(v, Pair(c))
    BY <1>4, <1>6, <1>8, <2>1, <2>3, <2>4 DEF PartOf
  <2>5. CASE After(Token, Pair(c), x, v)
    <3>1. PICK u \in Seq(Token) : u # <<>> /\ Begins(u, x) /\ v = Pair(c) \o u
      <4>. HIDE DEF c
      <4>. QED BY <2>5 DEF After
    <3>2. u = <<Semicolon>>
      BY <3>1, BeginsOne, Distinct DEF x
    <3>3. CookiePair(v) = c
      <4>. HIDE DEF c
      <4>. QED BY <2>2, <3>1, <3>2, ClosedWord
    <3>4. Append(SubSeq(cs, 1, k), cs[k + 1]) = SubSeq(cs, 1, k + 1)
      BY <2>1
    <3>5. Words(Pieces(t, Blank)) = SubSeq(cs, 1, k + 1)
      BY <2>3, <3>3, <3>4
    <3>6. k + 1 \in 0 .. Len(cs)
      BY <2>1
    <3>. QED BY <3>5, <3>6 DEF PartOf
  <2>. HIDE DEF c
  <2>6. Begins(v, Pair(c)) \/ After(Token, Pair(c), x, v)
    BY <1>1, <2>1, <2>2, BeginsJoin
  <2>. QED BY <2>4, <2>5, <2>6
<1>. QED BY <1>7, <1>8

\* What it reads from a cut Cookie line.
LEMMA CookieTextCut ==
  ASSUME NEW cs \in Seq(Fields(Plain)), cs # <<>>,
         NEW u, u # <<>>, Begins(u, CookieText(cs) \o <<"\r">>)
  PROVE  /\ u \in Seq(Token) /\ u[1] = "Cookie:" /\ Without(u, "&")
         /\ PartOf(PairsIn(u), cs, u)
<1>. DEFINE L == Listed(cs, <<Semicolon, Blank>>)
            h == <<"Cookie:", Blank>>
            C == CookieText(cs)
            a == <<"\r">>
<1>1. C \in Seq(Token) /\ Without(C, "&") /\ PairsIn(C \o a) = cs
  BY CookieTextRead
<1>2. h \in Seq(Token) /\ a \in Seq(Token) /\ Without(a, "&") /\ L \in Seq(Token) /\ C = h \o L
  <2>1. h \in Seq(Token) /\ a \in Seq(Token)
    BY Literal
  <2>2. Without(a, "&")
    BY DEF Without
  <2>3. <<Semicolon, Blank>> \in Seq(Token)
    BY Literal
  <2>4. L \in Seq(Token)
    BY <2>3, PlainTokens, ListedType
  <2>. HIDE DEF L
  <2>. QED BY <2>1, <2>2, <2>4 DEF CookieText, L
<1>. HIDE DEF L, C
<1>3. C \o a \in Seq(Token) /\ Without(C \o a, "&") /\ (C \o a)[1] = "Cookie:"
  <2>1. Without(C \o a, "&")
    BY <1>1, <1>2, WithoutJoin
  <2>2. (h \o L)[1] = "Cookie:" /\ Len(h \o L) >= 2
    BY <1>2
  <2>3. C[1] = "Cookie:" /\ Len(C) >= 2
    BY <1>2, <2>2
  <2>. QED BY <1>1, <1>2, <2>1, <2>3
<1>4. u \in Seq(Token) /\ u[1] = "Cookie:" /\ Without(u, "&")
  <2>. DEFINE b == C \o a
  <2>1. Begins(u, b) /\ b \in Seq(Token) /\ Without(b, "&") /\ b[1] = "Cookie:"
    BY <1>3 DEF C
  <2>. HIDE DEF b
  <2>2. u \in Seq(Token) /\ Len(u) \in Nat /\ \A i \in 1 .. Len(u) : u[i] = b[i]
    BY <2>1, BeginsIs
  <2>3. Without(u, "&")
    BY <2>1, BeginsWithout
  <2>4. 1 \in 1 .. Len(u)
    BY <2>2
  <2>. QED BY <2>1, <2>2, <2>3, <2>4
<1>5. ASSUME NEW k \in {0} PROVE SubSeq(cs, 1, k) = <<>>
  OBVIOUS
<1>6. CASE Begins(u, h)
  <2>1. u = <<"Cookie:">> \/ u = h
    <3>1. PICK n \in 0 .. 2 : u = SubSeq(h, 1, n)
      BY <1>6 DEF Begins
    <3>2. n # 0
      <4>1. SubSeq(h, 1, 0) = <<>>
        OBVIOUS
      <4>. HIDE DEF h
      <4>. QED BY <3>1, <4>1
    <3>3. SubSeq(h, 1, 1) = <<"Cookie:">> /\ SubSeq(h, 1, 2) = h
      <4>1. \A x, y \in Token : SubSeq(<<x, y>>, 1, 1) = <<x>> /\ SubSeq(<<x, y>>, 1, 2) = <<x, y>>
        <5>. TAKE x, y \in Token
        <5>. DEFINE p == <<x, y>>
        <5>1. p \in Seq(Token) /\ Len(p) = 2 /\ p[1] = x /\ p[2] = y /\ <<x>> \in Seq(Token) /\ <<x>>[1] = x
          OBVIOUS
        <5>. HIDE DEF p
        <5>2. SubSeq(p, 1, 1) \in Seq(Token) /\ Len(SubSeq(p, 1, 1)) = 1 /\ SubSeq(p, 1, 1)[1] = x
          BY <5>1
        <5>3. SubSeq(p, 1, 1) = <<x>>
          <6>. DEFINE y1 == SubSeq(p, 1, 1)
                      z1 == <<x>>
          <6>1. y1 \in Seq(Token) /\ z1 \in Seq(Token) /\ Len(y1) = 1 /\ Len(z1) = 1 /\ y1[1] = z1[1]
            BY <5>1, <5>2
          <6>. HIDE DEF y1, z1
          <6>2. \A i \in 1 .. Len(y1) : y1[i] = z1[i]
            BY <6>1
          <6>3. y1 = z1
            BY <6>1, <6>2, Same
          <6>. QED BY <6>3 DEF y1, z1
        <5>4. SubSeq(p, 1, 2) = p
          BY <5>1
        <5>. QED BY <5>3, <5>4 DEF p
      <4>. QED BY <4>1, Literal
    <3>4. n = 1 \/ n = 2
      BY <3>2
    <3>. HIDE DEF h
    <3>. QED BY <3>1, <3>3, <3>4
  <2>2. PairsIn(u) = <<>>
    <3>1. CASE u = <<"Cookie:">>
      <4>. DEFINE z == <<"Cookie:">>
                  y == <<z>>
      <4>1. "Cookie:" # Blank
        BY Literal, PlainTokens
      <4>2. z \in Seq(Token) /\ Without(z, Blank) /\ z # <<>>
        BY <1>4, <3>1, <4>1 DEF Without
      <4>3. Len(y) - 1 = 0
        OBVIOUS
      <4>. HIDE DEF z
      <4>4. Pieces(z, Blank) = y
        BY <4>2, PiecesWhole
      <4>. HIDE DEF y
      <4>5. PairsIn(z) = [k \in 1 .. 0 |-> CookiePair(y[k + 1])] \/ PairsIn(z) = <<>>
        BY <4>3, <4>4 DEF PairsIn
      <4>6. PairsIn(z) = <<>>
        BY <4>5
      <4>. QED BY <3>1, <4>6 DEF z
    <3>2. CASE u = h
      <4>1. h \o <<>> = h /\ <<>> \in Seq(Token) /\ Len(<<>>) = 0
        OBVIOUS
      <4>2. PairsIn(h \o <<>>) = [k \in 1 .. Len(Pieces(<<>>, Blank)) |-> CookiePair(Pieces(<<>>, Blank)[k])]
        BY <4>1, CookieWords
      <4>3. PairsIn(h \o <<>>) = <<>>
        BY <4>1, <4>2, PiecesOfNothing
      <4>. HIDE DEF h
      <4>. QED BY <3>2, <4>1, <4>3
    <3>. QED BY <2>1, <3>1, <3>2
  <2>3. 0 \in 0 .. Len(cs) /\ PairsIn(u) = SubSeq(cs, 1, 0)
    BY <1>5, <2>2
  <2>. QED BY <1>4, <2>3 DEF PartOf
<1>7. CASE After(Token, h, L, u)
  <2>1. PICK t \in Seq(Token) : Begins(t, L) /\ u = h \o t
    <3>. HIDE DEF h
    <3>. QED BY <1>7 DEF After
  <2>2. PairsIn(u) = Words(Pieces(t, Blank))
    BY <2>1, CookieWords DEF Words
  <2>3. PartOf(Words(Pieces(t, Blank)), cs, t)
    BY <2>1, ListedWords DEF L
  <2>. HIDE DEF h
  <2>4. PartOf(PairsIn(u), cs, u)
    BY <1>2, <2>1, <2>2, <2>3, PartAfter
  <2>. QED BY <1>4, <2>4
<1>8. CASE After(Token, C, a, u)
  <2>1. PICK t \in Seq(Token) : t # <<>> /\ Begins(t, a) /\ u = C \o t
    <3>. HIDE DEF a
    <3>. QED BY <1>8 DEF After
  <2>2. t = a
    BY <2>1, BeginsOne, Literal
  <2>3. PairsIn(u) = cs
    BY <1>1, <2>1, <2>2
  <2>4. cs = SubSeq(cs, 1, Len(cs)) /\ Len(cs) \in 0 .. Len(cs)
    OBVIOUS
  <2>5. PartOf(PairsIn(u), cs, u)
    BY <2>3, <2>4 DEF PartOf
  <2>. QED BY <1>4, <2>5
<1>9. Begins(u, C) \/ After(Token, C, a, u)
  <2>1. Begins(u, C \o a)
    BY DEF C
  <2>. HIDE DEF a
  <2>. QED BY <1>1, <1>2, <2>1, BeginsJoin
<1>10. Begins(u, C) => Begins(u, h) \/ After(Token, h, L, u)
  <2>. HIDE DEF h
  <2>. QED BY <1>2, BeginsJoin
<1>. QED BY <1>6, <1>7, <1>8, <1>9, <1>10
-----------------------------------------------------------------------------
(***************************************************************************)
(* Requests that are cut                                                   *)
(***************************************************************************)

\* Pairs that are read so are fields over tokens.
LEMMA PartType ==
  ASSUME NEW cs \in Seq(Fields(Plain)), NEW ps, NEW r, PartOf(ps, cs, r)
  PROVE  ps \in Seq(Fields(Token))
<1>. DEFINE F == Fields(Token)
<1>1. PICK k \in 0 .. Len(cs) :
     \/ ps = SubSeq(cs, 1, k)
     \/ /\ k < Len(cs)
        /\ \E t \in Seq(Token) : /\ t # <<>> /\ Begins(t, Pair(cs[k + 1]))
                                 /\ ps = Append(SubSeq(cs, 1, k), CookiePair(t))
                                 /\ \E z \in Seq(Token) : r = z \o t
  BY DEF PartOf
<1>2. cs \in Seq(F)
  <2>1. \A s \in Seq(Plain) : s \in Seq(Token)
    BY PlainTokens, Wider
  <2>2. Fields(Plain) \subseteq F
    BY <2>1 DEF Fields
  <2>. HIDE DEF F
  <2>. QED BY <2>2, Wider
<1>3. SubSeq(cs, 1, k) \in Seq(F)
  <2>. HIDE DEF F
  <2>. QED BY <1>1, <1>2
<1>4. ASSUME NEW t \in Seq(Token), k < Len(cs), t # <<>>, Begins(t, Pair(cs[k + 1])) PROVE CookiePair(t) \in F
  <2>1. cs[k + 1] \in Fields(Plain)
    BY <1>1, <1>4
  <2>. DEFINE c == cs[k + 1]
  <2>2. c \in Fields(Plain) /\ Begins(t, Pair(c))
    BY <1>4, <2>1
  <2>3. c.name \in Seq(Token)
    BY <2>2, PlainTokens, FieldType
  <2>. HIDE DEF c
  <2>4. \A s \in Seq(Token) : SubSeq(s, 1, Len(s) - 1) \in Seq(Token)
    OBVIOUS
  <2>5. CASE CookiePair(t) = [name |-> t, value |-> SubSeq(t, 1, Len(t) - 1)]
    BY <2>4, <2>5 DEF Fields
  <2>6. CASE \E w \in Seq(Token) : /\ Begins(w, c.value) /\ t = c.name \o <<"=">> \o w
                                   /\ CookiePair(t) = [name |-> c.name, value |-> SubSeq(w, 1, Len(w) - 1)]
    <3>1. PICK w \in Seq(Token) : CookiePair(t) = [name |-> c.name, value |-> SubSeq(w, 1, Len(w) - 1)]
      BY <2>6
    <3>. QED BY <2>3, <2>4, <3>1 DEF Fields
  <2>. QED BY <1>4, <2>2, <2>5, <2>6, CookieCut
<1>. HIDE DEF F
<1>5. ps \in Seq(F)
  <2>. DEFINE q == SubSeq(cs, 1, k)
  <2>1. q \in Seq(F) /\ \A c \in F : Append(q, c) \in Seq(F)
    BY <1>3
  <2>2. \/ ps = q
        \/ /\ k < Len(cs)
           /\ \E t \in Seq(Token) : /\ t # <<>> /\ Begins(t, Pair(cs[k + 1])) /\ ps = Append(q, CookiePair(t))
    BY <1>1
  <2>. HIDE DEF q
  <2>. QED BY <1>4, <2>1, <2>2
<1>. QED BY <1>5 DEF F

\* The pairs the parser finds, line by line.
PairsOf(lines) == [i \in DOMAIN lines |-> PairsIn(lines[i])]

\* In r the parser finds the pairs ps, and u is its last line.
Found(r, ps, u) ==
  LET lines == Pieces(r, "\n")
  IN  /\ lines # <<>> /\ lines \in Seq(Seq(Token)) /\ Last(lines) = u
      /\ PairsOf(lines) \in Seq(Seq(Fields(Token)))
      /\ FlattenSeq(PairsOf(lines)) = ps

\* A text of one line.
LEMMA FoundOne ==
  ASSUME NEW r, NEW u \in Seq(Token), Pieces(r, "\n") = <<u>>, PairsIn(u) \in Seq(Fields(Token))
  PROVE  Found(r, PairsIn(u), u)
<1>. DEFINE lines == <<u>>
            p == PairsIn(u)
            F == Fields(Token)
<1>1. lines # <<>> /\ lines \in Seq(Seq(Token)) /\ Last(lines) = u /\ lines[1] = u /\ DOMAIN lines = {1}
  BY DEF Last
<1>2. PairsOf(lines) = <<p>>
  <2>. HIDE DEF lines
  <2>1. PairsOf(lines) = [i \in {1} |-> p]
    BY <1>1 DEF PairsOf
  <2>. HIDE DEF p
  <2>. QED BY <2>1
<1>. HIDE DEF F
<1>3. p \in Seq(F)
  BY DEF F
<1>4. <<p>> \in Seq(Seq(F)) /\ FlattenSeq(<<p>>) = p
  <2>. HIDE DEF p
  <2>1. <<p>> = <<p>> \o <<>> /\ <<>> \in Seq(Seq(F)) /\ p \o <<>> = p /\ <<p>> \in Seq(Seq(F))
    BY <1>3
  <2>2. FlattenSeq(<<p>> \o <<>>) = p \o FlattenSeq(<<>>)
    BY <1>3, <2>1, FlatCons
  <2>. DEFINE e == <<>>
              y == <<p>>
  <2>3. y = y \o e /\ FlattenSeq(y \o e) = p \o FlattenSeq(e) /\ FlattenSeq(e) = e /\ p \o e = p
    BY <2>1, <2>2, FlatEmpty
  <2>. HIDE DEF e, y
  <2>4. FlattenSeq(y) = p
    BY <2>3
  <2>. QED BY <2>1, <2>4 DEF y
<1>. HIDE DEF lines, p
<1>5. Pieces(r, "\n") = lines
  BY DEF lines
<1>. QED BY <1>1, <1>2, <1>4, <1>5 DEF Found, p, F

\* An element before a sequence.
LEMMA ConsIs ==
  ASSUME NEW T, NEW a \in T, NEW y \in Seq(T)
  PROVE  LET s == <<a>> \o y IN
         s \in Seq(T) /\ Len(s) = Len(y) + 1 /\ s[1] = a /\ \A i \in 1 .. Len(y) : s[i + 1] = y[i]
OBVIOUS

\* A line before the rest adds its pairs.
LEMMA FoundMore ==
  ASSUME NEW ts \in Seq(Token), Without(ts, "\n"), PairsIn(ts \o <<"\r">>) \in Seq(Fields(Token)),
         NEW t \in Seq(Token), NEW ps, NEW u, Found(t, ps, u)
  PROVE  Found(Line(ts) \o t, PairsIn(ts \o <<"\r">>) \o ps, u)
<1>. DEFINE F == Fields(Token)
            a == ts \o <<"\r">>
            x == Pieces(t, "\n")
            lines == <<a>> \o x
<1>1. Pieces(Line(ts) \o t, "\n") = lines
  BY LineRead
<1>2. /\ x # <<>> /\ x \in Seq(Seq(Token)) /\ Last(x) = u
      /\ PairsOf(x) \in Seq(Seq(F)) /\ FlattenSeq(PairsOf(x)) = ps
  <2>. HIDE DEF x
  <2>. QED BY DEF Found, x
<1>3. a \in Seq(Token) /\ PairsIn(a) \in Seq(F)
  BY Literal
<1>. HIDE DEF F, a, x
<1>4. /\ lines \in Seq(Seq(Token)) /\ lines # <<>> /\ Len(lines) = Len(x) + 1 /\ Len(x) \in Nat /\ Len(x) # 0
      /\ lines[1] = a /\ \A i \in 1 .. Len(x) : lines[i + 1] = x[i]
  BY <1>2, <1>3
<1>5. Last(lines) = u
  <2>1. lines[Len(lines)] = x[Len(x)]
    BY <1>4
  <2>. QED BY <1>2, <2>1 DEF Last
<1>. DEFINE h == <<PairsIn(a)>>
            y == PairsOf(x)
            z == PairsOf(lines)
<1>6. DOMAIN x = 1 .. Len(x) /\ DOMAIN lines = 1 .. Len(x) + 1
  <2>. HIDE DEF lines
  <2>. QED BY <1>2, <1>4
<1>7. /\ z \in Seq(Seq(F)) /\ Len(z) = Len(x) + 1 /\ z[1] = PairsIn(a)
      /\ \A i \in 1 .. Len(x) : z[i + 1] = y[i]
  <2>. HIDE DEF lines
  <2>. DEFINE m == Len(x)
  <2>1. m \in Nat /\ DOMAIN lines = 1 .. m + 1 /\ DOMAIN x = 1 .. m
    BY <1>4, <1>6
  <2>2. z = [i \in 1 .. m + 1 |-> PairsIn(lines[i])] /\ y = [i \in 1 .. m |-> PairsIn(x[i])]
    BY <2>1 DEF PairsOf
  <2>3. \A i \in 1 .. m : z[i + 1] = y[i]
    <3>. HIDE DEF z, y, m
    <3>. SUFFICES ASSUME NEW i \in 1 .. m PROVE z[i + 1] = y[i]
      OBVIOUS
    <3>1. i + 1 \in 1 .. m + 1
      BY <2>1
    <3>2. z[i + 1] = PairsIn(lines[i + 1]) /\ y[i] = PairsIn(x[i]) /\ lines[i + 1] = x[i]
      BY <1>4, <2>2, <3>1 DEF m
    <3>. QED BY <3>2
  <2>4. \A i \in 1 .. m : y[i] \in Seq(F)
    <3>. HIDE DEF z, y, m
    <3>1. Len(y) = m
      BY <2>1, <2>2
    <3>. QED BY <1>2, <3>1 DEF y
  <2>5. \A i \in 1 .. m + 1 : PairsIn(lines[i]) \in Seq(F)
    <3>. SUFFICES ASSUME NEW i \in 1 .. m + 1 PROVE PairsIn(lines[i]) \in Seq(F)
      OBVIOUS
    <3>. HIDE DEF z, y, m
    <3>1. CASE i = 1
      BY <1>3, <1>4, <3>1
    <3>2. CASE i # 1
      <4>1. i - 1 \in 1 .. m /\ (i - 1) + 1 = i
        BY <2>1, <3>2
      <4>2. z[i] = y[i - 1]
        BY <2>3, <4>1
      <4>3. z[i] = PairsIn(lines[i])
        BY <2>2
      <4>. QED BY <2>4, <4>1, <4>2, <4>3
    <3>. QED BY <3>1, <3>2
  <2>6. z[1] = PairsIn(a)
    <3>. HIDE DEF z, y, m
    <3>1. 1 \in 1 .. m + 1
      BY <2>1
    <3>2. z[1] = PairsIn(lines[1])
      BY <2>2, <3>1
    <3>. QED BY <1>4, <3>2
  <2>7. z \in Seq(Seq(F)) /\ Len(z) = m + 1
    <3>. HIDE DEF z, y, m
    <3>. QED BY <2>1, <2>2, <2>5
  <2>. HIDE DEF z, y
  <2>. QED BY <2>3, <2>6, <2>7
<1>. HIDE DEF lines
<1>8. z = h \o y
  <2>1. y \in Seq(Seq(F)) /\ Len(y) = Len(x)
    <3>1. Len(y) = Len(x)
      BY <1>2, <1>6 DEF PairsOf
    <3>. QED BY <1>2, <3>1
  <2>. DEFINE n == Len(x)
              s == h \o y
  <2>. HIDE DEF y, z
  <2>2. s \in Seq(Seq(F)) /\ Len(s) = n + 1 /\ s[1] = PairsIn(a) /\ \A i \in 1 .. n : s[i + 1] = y[i]
    <3>1. PairsIn(a) \in Seq(F)
      BY <1>3
    <3>. HIDE DEF F
    <3>2. s \in Seq(Seq(F)) /\ Len(s) = Len(y) + 1 /\ s[1] = PairsIn(a) /\ \A i \in 1 .. Len(y) : s[i + 1] = y[i]
      BY <2>1, <3>1, ConsIs
    <3>. HIDE DEF s
    <3>. QED BY <2>1, <3>2
  <2>. HIDE DEF s
  <2>3. z \in Seq(Seq(F)) /\ Len(z) = n + 1 /\ z[1] = PairsIn(a) /\ \A i \in 1 .. n : z[i + 1] = y[i]
    BY <1>7
  <2>4. n \in Nat
    BY <1>4
  <2>. HIDE DEF n
  <2>5. \A i \in 1 .. n + 1 : z[i] = s[i]
    <3>. SUFFICES ASSUME NEW i \in 1 .. n + 1 PROVE z[i] = s[i]
      OBVIOUS
    <3>1. CASE i = 1
      BY <2>2, <2>3, <3>1
    <3>2. CASE i # 1
      <4>1. i - 1 \in 1 .. n /\ (i - 1) + 1 = i
        BY <2>4, <3>2
      <4>2. z[(i - 1) + 1] = y[i - 1] /\ s[(i - 1) + 1] = y[i - 1]
        BY <2>2, <2>3, <4>1
      <4>. QED BY <4>1, <4>2
    <3>. QED BY <3>1, <3>2
  <2>6. z = s
    BY <2>2, <2>3, <2>5, Same
  <2>. QED BY <2>6 DEF s
<1>9. FlattenSeq(z) = PairsIn(a) \o ps
  <2>. HIDE DEF z, y
  <2>. QED BY <1>2, <1>3, <1>8, FlatCons DEF y
<1>. HIDE DEF z
<1>. QED BY <1>1, <1>4, <1>5, <1>7, <1>9 DEF Found, z, a, F

\* The first words of the lines of a request with method m, before its body.
Openings(m) == {m, "Host:", "Cookie:", "\r"}

\* The parser finds in r whole cookies of cs and at most one that is cut, and no
\* form but what it takes the last line for; or all of cs and the beginning of b.
Seen(m, cs, b, r) ==
  \E ps \in Seq(Fields(Token)), u \in Seq(Token) :
     /\ Found(r, ps, u) /\ u # <<>>
     /\ \/ PartOf(ps, cs, r) /\ Without(u, "&") /\ u[1] \in Openings(m)
        \/ ps = cs /\ Begins(u, b)

\* No such word is a blank or an equals sign.
LEMMA OpeningFacts ==
  ASSUME NEW m \in Methods
  PROVE  \A o \in Openings(m) : o # Blank /\ o # "="
<1>1. m # Blank /\ m # "="
  BY MethodsAssumption DEF Delimiters
<1>2. Blank # "Host:" /\ Blank # "Cookie:" /\ Blank # "\r"
  BY Literal, PlainTokens, Apart
<1>. QED BY <1>1, <1>2 DEF Openings

\* A beginning that is not empty has the first token.
LEMMA BeginsFirst ==
  ASSUME NEW T, NEW s \in Seq(T), NEW p, p # <<>>, Begins(p, s)
  PROVE  p \in Seq(T) /\ s # <<>> /\ p[1] = s[1]
<1>1. p \in Seq(T) /\ Len(p) <= Len(s) /\ \A i \in 1 .. Len(p) : p[i] = s[i]
  BY BeginsIs
<1>2. 1 \in 1 .. Len(p)
  BY <1>1
<1>3. Len(p) \in Nat /\ Len(p) # 0
  BY <1>1
<1>4. s # <<>>
  <2>. SUFFICES ASSUME s = <<>> PROVE FALSE
    OBVIOUS
  <2>1. Len(s) = 0
    OBVIOUS
  <2>. QED BY <1>1, <1>3, <2>1
<1>. QED BY <1>1, <1>2, <1>4

\* A line without cookies, cut or not, before a rest of which all is known.
LEMMA SeenLine ==
  ASSUME NEW m \in Methods, NEW cs \in Seq(Fields(Plain)), NEW b, NEW ts \in Seq(Token), Without(ts, "\n"), Without(ts, "&"),
         (ts \o <<"\r">>)[1] \in Openings(m) \ {"Cookie:"},
         NEW rest \in Seq(Token), \A t : t # <<>> /\ Begins(t, rest) => Seen(m, cs, b, t),
         NEW r, r # <<>>, Begins(r, Line(ts) \o rest)
  PROVE  Seen(m, cs, b, r)
<1>. DEFINE c == <<"\r">>
            a == ts \o c
            F == Fields(Token)
<1>1. c \in Seq(Token) /\ Without(c, "&") /\ Without(c, "\n")
  <2>1. c \in Seq(Token)
    BY Literal
  <2>. QED BY <2>1 DEF Without
<1>2. a \in Seq(Token) /\ Without(a, "&") /\ a[1] \in Openings(m) \ {"Cookie:"}
  <2>. HIDE DEF c
  <2>1. Without(a, "&")
    BY <1>1, WithoutJoin
  <2>2. a \in Seq(Token)
    BY <1>1
  <2>3. a[1] \in Openings(m) \ {"Cookie:"}
    BY DEF c
  <2>. QED BY <2>1, <2>2, <2>3
<1>. HIDE DEF c, a
<1>3. ASSUME NEW u, u # <<>>, Begins(u, a)
      PROVE  u \in Seq(Token) /\ u[1] \in Openings(m) /\ Without(u, "&") /\ PairsIn(u) = <<>>
  <2>1. u \in Seq(Token) /\ u[1] = a[1] /\ Without(u, "&")
    BY <1>2, <1>3, BeginsFirst, BeginsWithout
  <2>2. u[1] # Blank /\ u[1] # "Cookie:"
    BY <1>2, <2>1, OpeningFacts
  <2>. QED BY <1>2, <1>3, <2>1, <2>2, NoCookies
<1>4. Line(ts) \in Seq(Token)
  BY LineRead
<1>5. <<>> \in Seq(F) /\ 0 \in 0 .. Len(cs) /\ SubSeq(cs, 1, 0) = <<>>
  OBVIOUS
<1>6. PartOf(<<>>, cs, r)
  BY <1>5 DEF PartOf
<1>7. CASE Begins(r, Line(ts))
  <2>1. PICK u \in Seq(Token) : u # <<>> /\ Begins(u, a) /\ Pieces(r, "\n") = <<u>>
    BY <1>7, LineBegins DEF a, c
  <2>2. u[1] \in Openings(m) /\ Without(u, "&") /\ PairsIn(u) = <<>>
    BY <1>3, <2>1
  <2>3. Found(r, PairsIn(u), u)
    BY <1>5, <2>1, <2>2, FoundOne
  <2>4. Found(r, <<>>, u)
    BY <2>2, <2>3
  <2>. HIDE DEF F
  <2>. DEFINE e == <<>>
  <2>5. e \in Seq(F) /\ Found(r, e, u) /\ PartOf(e, cs, r)
    BY <1>5, <1>6, <2>4
  <2>. HIDE DEF e
  <2>. QED BY <2>1, <2>2, <2>5 DEF Seen, F
<1>8. CASE After(Token, Line(ts), rest, r)
  <2>1. PICK t \in Seq(Token) : t # <<>> /\ Begins(t, rest) /\ r = Line(ts) \o t
    BY <1>8 DEF After
  <2>2. PICK ps \in Seq(F), u \in Seq(Token) :
          /\ Found(t, ps, u) /\ u # <<>>
          /\ \/ PartOf(ps, cs, t) /\ Without(u, "&") /\ u[1] \in Openings(m)
             \/ ps = cs /\ Begins(u, b)
    BY <2>1 DEF Seen
  <2>3. PairsIn(a) = <<>>
    <3>1. a # <<>>
      BY Literal DEF a, c
    <3>. QED BY <1>2, <1>3, <3>1, BeginsAll
  <2>4. Found(r, PairsIn(a) \o ps, u)
    <3>. HIDE DEF F
    <3>1. PairsIn(a) \in Seq(F)
      BY <1>5, <2>3
    <3>. QED BY <2>1, <2>2, <3>1, FoundMore DEF a, c, F
  <2>5. PairsIn(a) \o ps = ps
    <3>. HIDE DEF F
    <3>1. <<>> \o ps = ps
      OBVIOUS
    <3>. QED BY <2>3, <3>1
  <2>6. Found(r, ps, u)
    BY <2>4, <2>5
  <2>7. PartOf(ps, cs, t) => PartOf(ps, cs, r)
    BY <1>4, <2>1, PartAfter
  <2>. QED BY <2>2, <2>6, <2>7 DEF Seen
<1>9. Begins(r, Line(ts)) \/ After(Token, Line(ts), rest, r)
  BY <1>4, BeginsJoin
<1>. QED BY <1>7, <1>8, <1>9

\* The body, cut.
LEMMA SeenBody ==
  ASSUME NEW m, NEW q, Question(q), NEW t, t # <<>>, Begins(t, Body(q))
  PROVE  Seen(m, <<>>, Body(q), t)
<1>. DEFINE b == Body(q)
            F == Fields(Token)
<1>1. b \in Seq(Token) /\ Without(b, Blank) /\ Without(b, "\n") /\ Without(b, "Cookie:")
  BY BodyRead
<1>. HIDE DEF b
<1>2. t \in Seq(Token) /\ Without(t, Blank) /\ Without(t, "\n") /\ Without(t, "Cookie:")
  BY <1>1, BeginsIs, BeginsWithout DEF b
<1>3. t[1] # Blank /\ t[1] # "Cookie:"
  <2>1. 1 \in 1 .. Len(t)
    BY <1>2
  <2>. QED BY <1>2, <2>1 DEF Without
<1>4. PairsIn(t) = <<>> /\ Pieces(t, "\n") = <<t>>
  BY <1>2, <1>3, NoCookies, PiecesWhole
<1>5. <<>> \in Seq(F)
  OBVIOUS
<1>6. Found(t, PairsIn(t), t)
  BY <1>2, <1>4, <1>5, FoundOne
<1>. DEFINE e == <<>>
<1>7. e \in Seq(F) /\ Found(t, e, t) /\ e = <<>>
  BY <1>4, <1>5, <1>6
<1>. HIDE DEF e
<1>8. Seen(m, e, b, t)
  BY <1>2, <1>7 DEF Seen, b
<1>. QED BY <1>7, <1>8 DEF b

\* The Cookie line, cut or not, before such a rest.
LEMMA SeenCookies ==
  ASSUME NEW m, NEW cs \in Seq(Fields(Plain)), NEW b, NEW rest \in Seq(Token),
         \A t : t # <<>> /\ Begins(t, rest) => Seen(m, <<>>, b, t),
         NEW r, r # <<>>, Begins(r, CookieLine(cs) \o rest)
  PROVE  Seen(m, cs, b, r)
<1>. DEFINE F == Fields(Token)
<1>0. cs \in Seq(F)
  <2>1. \A s \in Seq(Plain) : s \in Seq(Token)
    BY PlainTokens, Wider
  <2>2. Fields(Plain) \subseteq F
    BY <2>1 DEF Fields
  <2>. HIDE DEF F
  <2>. QED BY <2>2, Wider
<1>1. CASE cs = <<>>
  <2>. DEFINE e == <<>>
  <2>1. CookieLine(e) = e /\ cs = e
    BY <1>1 DEF CookieLine
  <2>2. e \o rest = rest
    OBVIOUS
  <2>3. \A t : t # e /\ Begins(t, rest) => Seen(m, e, b, t)
    OBVIOUS
  <2>4. r # e /\ Begins(r, CookieLine(cs) \o rest)
    OBVIOUS
  <2>. HIDE DEF e
  <2>. QED BY <2>1, <2>2, <2>3, <2>4
<1>2. CASE cs # <<>>
  <2>. DEFINE ts == CookieText(cs)
              a == ts \o <<"\r">>
  <2>1. ts \in Seq(Token) /\ Without(ts, "\n") /\ PairsIn(a) = cs
    BY <1>2, CookieTextRead
  <2>2. CookieLine(cs) = Line(ts)
    BY <1>2 DEF CookieLine, CookieText
  <2>3. PartOf(cs, cs, r)
    <3>1. cs = SubSeq(cs, 1, Len(cs)) /\ Len(cs) \in 0 .. Len(cs)
      OBVIOUS
    <3>. QED BY <3>1 DEF PartOf
  <2>. HIDE DEF ts, a
  <2>4. Line(ts) \in Seq(Token)
    BY <2>1, LineRead
  <2>5. CASE Begins(r, Line(ts))
    <3>1. PICK u \in Seq(Token) : /\ u # <<>> /\ Begins(u, a) /\ Pieces(r, "\n") = <<u>>
                                  /\ (u = r \/ u = a)
      BY <2>1, <2>5, LineBegins DEF a
    <3>2. u[1] = "Cookie:" /\ Without(u, "&") /\ PartOf(PairsIn(u), cs, u)
      BY <1>2, <3>1, CookieTextCut DEF a, ts
    <3>3. PairsIn(u) \in Seq(F)
      BY <3>2, PartType
    <3>4. Found(r, PairsIn(u), u)
      BY <3>1, <3>3, FoundOne
    <3>5. PartOf(PairsIn(u), cs, r)
      BY <2>1, <2>3, <3>1, <3>2
    <3>6. u[1] \in Openings(m)
      BY <3>2 DEF Openings
    <3>. QED BY <3>1, <3>2, <3>3, <3>4, <3>5, <3>6 DEF Seen
  <2>6. CASE After(Token, Line(ts), rest, r)
    <3>1. PICK t \in Seq(Token) : t # <<>> /\ Begins(t, rest) /\ r = Line(ts) \o t
      BY <2>6 DEF After
    <3>2. Seen(m, <<>>, b, t)
      BY <3>1
    <3>3. PICK ps \in Seq(F), u \in Seq(Token) :
            /\ Found(t, ps, u) /\ u # <<>>
            /\ \/ PartOf(ps, <<>>, t) /\ Without(u, "&") /\ u[1] \in Openings(m)
               \/ ps = <<>> /\ Begins(u, b)
      BY <3>2 DEF Seen
    <3>4. ps = <<>>
      <4>1. CASE PartOf(ps, <<>>, t)
        <5>1. PICK k \in 0 .. Len(<<>>) : ps = SubSeq(<<>>, 1, k) \/ k < Len(<<>>)
          BY <4>1 DEF PartOf
        <5>2. k = 0 /\ SubSeq(<<>>, 1, 0) = <<>> /\ Len(<<>>) = 0
          OBVIOUS
        <5>3. ~ (k < Len(<<>>))
          BY <5>2
        <5>. QED BY <5>1, <5>2, <5>3
      <4>. QED BY <3>3, <4>1
    <3>5. Found(r, cs \o ps, u)
      <4>. HIDE DEF F
      <4>1. PairsIn(a) \in Seq(F)
        BY <1>0, <2>1
      <4>2. Found(r, PairsIn(a) \o ps, u)
        BY <2>1, <3>1, <3>3, <4>1, FoundMore DEF a, F
      <4>. QED BY <2>1, <4>2
    <3>6. cs \o ps = cs
      <4>. HIDE DEF F
      <4>1. cs \o <<>> = cs
        BY <1>0
      <4>. QED BY <3>4, <4>1
    <3>7. Found(r, cs, u)
      BY <3>5, <3>6
    <3>. QED BY <1>0, <2>3, <3>3, <3>7 DEF Seen
  <2>7. Begins(r, Line(ts)) \/ After(Token, Line(ts), rest, r)
    BY <2>2, <2>4, BeginsJoin
  <2>. QED BY <2>5, <2>6, <2>7
<1>. QED BY <1>1, <1>2

\* Two parts begin as the first does.
LEMMA JoinFirst ==
  ASSUME NEW T, NEW a \in Seq(T), a # <<>>, NEW b \in Seq(T)
  PROVE  a \o b \in Seq(T) /\ a \o b # <<>> /\ (a \o b)[1] = a[1]
<1>1. Len(a) \in Nat /\ Len(a) # 0 /\ Len(b) \in Nat
  OBVIOUS
<1>2. a \o b \in Seq(T) /\ Len(a \o b) = Len(a) + Len(b)
  OBVIOUS
<1>3. a \o b # <<>>
  <2>. DEFINE s == a \o b
  <2>1. Len(s) # 0
    BY <1>1, <1>2
  <2>. HIDE DEF s
  <2>2. s # <<>>
    BY <2>1
  <2>. QED BY <2>2 DEF s
<1>. QED BY <1>1, <1>2, <1>3

\* Whatever part of a request recv returns, that is what the parser finds in it.
LEMMA RequestCut ==
  ASSUME NEW q, Question(q), NEW r, r # <<>>, Begins(r, Format(q))
  PROVE  Seen(q.method, q.cookies, Body(q), r)
<1>. DEFINE lr == Line(Row(q))
            lh == Line(Host)
            m == q.method
            cs == q.cookies
            lc == CookieLine(cs)
            n == <<>>
            le == Line(n)
            b == Body(q)
            c == <<"\r">>
            x == le \o b
            y == lc \o x
            z == lh \o y
<1>1. /\ lr \in Seq(Token) /\ lh \in Seq(Token) /\ lc \in Seq(Token) /\ le \in Seq(Token) /\ b \in Seq(Token)
      /\ Format(q) = lr \o z
  BY FormatIs
<1>2. cs \in Seq(Fields(Plain)) /\ n \in Seq(Fields(Plain)) /\ q.method \in Methods
  BY DEF Question
<1>3. /\ n \in Seq(Token) /\ Without(n, "\n") /\ Without(n, "&")
      /\ (n \o c)[1] \in Openings(m) \ {"Cookie:"}
  <2>1. n \o c = c
    BY Literal
  <2>. QED BY <2>1 DEF Without, Openings
<1>4. /\ Host \in Seq(Token) /\ Without(Host, "\n") /\ Without(Host, "&")
      /\ (Host \o c)[1] \in Openings(m) \ {"Cookie:"}
  <2>1. Host[1] = "Host:" /\ Host # <<>>
    BY DEF Host
  <2>2. Host \in Seq(Token) /\ c \in Seq(Token)
    BY HostRead, Literal
  <2>. HIDE DEF c
  <2>3. (Host \o c)[1] = "Host:"
    BY <2>1, <2>2, JoinFirst
  <2>. QED BY <2>3, HostRead DEF Openings
<1>5. /\ Row(q) \in Seq(Token) /\ Without(Row(q), "\n") /\ Without(Row(q), "&")
      /\ (Row(q) \o c)[1] \in Openings(m) \ {"Cookie:"}
  <2>1. Row(q) \in Seq(Token) /\ c \in Seq(Token)
    BY RowRead, Literal
  <2>. DEFINE h == <<q.method, Blank>>
              p == Path(q.page)
              s == <<Blank, "HTTP/1.1">>
  <2>2. h \in Seq(Token) /\ p \in Seq(Token) /\ s \in Seq(Token) /\ h[1] = q.method /\ h # <<>>
    <3>1. q.method \in Token
      BY <1>2, MethodFacts
    <3>2. p \in Seq(Token)
      BY PathRead DEF Question
    <3>. QED BY <3>1, <3>2, Literal
  <2>3. Row(q) = h \o p \o s
    BY DEF Row
  <2>. HIDE DEF h, p, s, c
  <2>4. Row(q)[1] = q.method /\ Row(q) # <<>>
    <3>1. h \o p \in Seq(Token) /\ h \o p # <<>> /\ (h \o p)[1] = q.method
      BY <2>2, JoinFirst
    <3>. QED BY <2>2, <2>3, <3>1, JoinFirst
  <2>5. (Row(q) \o c)[1] = q.method
    BY <2>1, <2>4, JoinFirst
  <2>. QED BY <1>2, <2>1, <2>5, RowRead, MethodFacts DEF Openings
<1>6. x \in Seq(Token) /\ y \in Seq(Token) /\ z \in Seq(Token)
  <2>. HIDE DEF le, b, lc, lh
  <2>. QED BY <1>1
<1>7. \A t : t # <<>> /\ Begins(t, b) => Seen(m, n, b, t)
  <2>. HIDE DEF n
  <2>. QED BY SeenBody DEF n
<1>. HIDE DEF b
<1>8. \A t : t # <<>> /\ Begins(t, x) => Seen(m, n, b, t)
  <2>. SUFFICES ASSUME NEW t, t # <<>>, Begins(t, x) PROVE Seen(m, n, b, t)
    OBVIOUS
  <2>. HIDE DEF n
  <2>. QED BY <1>1, <1>2, <1>3, <1>7, SeenLine DEF c
<1>. HIDE DEF x
<1>9. \A t : t # <<>> /\ Begins(t, y) => Seen(m, cs, b, t)
  <2>. SUFFICES ASSUME NEW t, t # <<>>, Begins(t, y) PROVE Seen(m, cs, b, t)
    OBVIOUS
  <2>1. \A u : u # <<>> /\ Begins(u, x) => Seen(m, <<>>, b, u)
    BY <1>8
  <2>2. Begins(t, CookieLine(cs) \o x)
    OBVIOUS
  <2>. HIDE DEF cs
  <2>. QED BY <1>2, <1>6, <2>1, <2>2, SeenCookies
<1>. HIDE DEF y, cs
<1>10. \A t : t # <<>> /\ Begins(t, z) => Seen(m, cs, b, t)
  <2>. SUFFICES ASSUME NEW t, t # <<>>, Begins(t, z) PROVE Seen(m, cs, b, t)
    OBVIOUS
  <2>. QED BY <1>2, <1>4, <1>6, <1>9, SeenLine DEF c
<1>. HIDE DEF z
<1>11. Begins(r, Line(Row(q)) \o z)
  BY <1>1
<1>12. Seen(m, cs, b, r)
  BY <1>2, <1>5, <1>6, <1>10, <1>11, SeenLine DEF c
<1>. QED BY <1>12 DEF cs, b

\* The fields gs are some whole fields of fs, and maybe a cut one.
FieldPart(gs, fs) ==
  \E k \in 0 .. Len(fs) :
     \/ gs = SubSeq(fs, 1, k)
     \/ /\ k < Len(fs)
        /\ \E t \in Seq(Token) : /\ t # <<>> /\ Begins(t, Pair(fs[k + 1]))
                                 /\ gs = Append(SubSeq(fs, 1, k), FieldPair(t))

\* A whole field is read as it is.
LEMMA WholeField ==
  ASSUME NEW c \in Fields(Plain)
  PROVE  FieldPair(Pair(c)) = c
<1>1. c = [name |-> c.name, value |-> c.value] /\ c.name \in Seq(Plain) /\ c.value \in Seq(Plain)
  BY PlainTokens, FieldType
<1>2. Without(c.name, "=") /\ Without(c.value, "=") /\ c.name \in Seq(Token) /\ c.value \in Seq(Token)
  BY <1>1, PlainTokens, PlainWithout
<1>. QED BY <1>1, <1>2, FieldRead DEF Pair

\* What parsePostArg makes of a cut form.
LEMMA FormCut ==
  ASSUME NEW fs \in Seq(Fields(Plain)), NEW t, t # <<>>, Begins(t, Listed(fs, <<"&">>)),
         NEW lines, Last(lines) = t
  PROVE  \E gs : FieldPart(gs, fs) /\ parsePostArg(lines) = FirstOfEach(gs)
<1>. DEFINE x == <<>>
            e == End(t, "&")
            v == e.rest
            P == Pieces(t, "&")
            gs == [i \in DOMAIN P |-> FieldPair(P[i])]
<1>1. x \in Seq(Token) /\ Without(x, "&") /\ x \o <<"&">> = <<"&">>
      /\ "&" \in Token /\ "&" \notin Plain /\ "&" # "="
  BY Literal, PlainTokens DEF Without
<1>2. Listed(fs, <<"&">>) \in Seq(Token) /\ t \in Seq(Token)
  <2>1. <<"&">> \in Seq(Token)
    BY <1>1
  <2>2. Listed(fs, <<"&">>) \in Seq(Token)
    BY <2>1, PlainTokens, ListedType
  <2>. QED BY <2>2, BeginsIs
<1>3. PICK k \in 0 .. Len(fs) : CutAt(fs, x, e, k)
  <2>. HIDE DEF x
  <2>1. Begins(t, Listed(fs, x \o <<"&">>))
    BY <1>1
  <2>. QED BY <1>1, <2>1, PlainTokens, ListedCut
<1>. DEFINE w == Upto(fs, x, k)
            n == Len(fs)
<1>4. n \in Nat /\ k \in Nat /\ k <= n /\ \A i \in 1 .. n : fs[i] \in Fields(Plain) /\ Pair(fs[i]) \in Seq(Token)
  <2>1. n \in Nat /\ k \in Nat /\ k <= n /\ \A i \in 1 .. n : fs[i] \in Fields(Plain)
    OBVIOUS
  <2>. HIDE DEF n
  <2>. QED BY <2>1, PlainTokens, FieldType
<1>5. \A s \in Seq(Token) : s \o x = s
  OBVIOUS
<1>6. w = [i \in 1 .. k |-> Pair(fs[i])]
  <2>. HIDE DEF x, n
  <2>1. \A i \in 1 .. k : Pair(fs[i]) \o x = Pair(fs[i])
    BY <1>4, <1>5
  <2>. QED BY <2>1 DEF Upto
<1>7. e.done = w /\ v \in Seq(Token)
      /\ (v = <<>> \/ (k < n /\ Begins(v, Pair(fs[k + 1]))))
  <2>1. v \in Seq(Token)
    BY <1>2, EndType DEF Ends
  <2>2. e.done = w /\ (v = <<>> \/ (k < n /\ Begins(v, Pair(fs[k + 1]) \o x)))
    <3>. HIDE DEF x, e
    <3>. QED BY <1>3 DEF CutAt
  <2>3. k < n => Pair(fs[k + 1]) \o x = Pair(fs[k + 1])
    <3>. SUFFICES ASSUME k < n PROVE Pair(fs[k + 1]) \o x = Pair(fs[k + 1])
      OBVIOUS
    <3>1. k + 1 \in 1 .. n
      BY <1>4
    <3>. HIDE DEF x, n
    <3>. QED BY <1>4, <1>5, <3>1
  <2>. HIDE DEF x, e, v, w, n
  <2>. QED BY <2>1, <2>2, <2>3
<1>8. P = IF v = <<>> THEN w ELSE Append(w, v)
  <2>. HIDE DEF w
  <2>. QED BY <1>7, PiecesEnd
<1>9. parsePostArg(lines) = FirstOfEach(gs)
  BY PostArgIs
<1>. DEFINE m == SubSeq(fs, 1, k)
<1>10. m = [i \in 1 .. k |-> fs[i]]
  BY <1>4
<1>11. \A i \in 1 .. k : FieldPair(Pair(fs[i])) = fs[i]
  BY <1>4, WholeField
<1>. HIDE DEF x, e, v, P, n
<1>12. CASE v = <<>>
  <2>1. P = [i \in 1 .. k |-> Pair(fs[i])]
    BY <1>6, <1>8, <1>12
  <2>2. gs = [i \in 1 .. k |-> FieldPair(Pair(fs[i]))]
    BY <2>1
  <2>3. gs = m
    <3>. HIDE DEF gs, m
    <3>. QED BY <1>10, <1>11, <2>2
  <2>4. FieldPart(gs, fs)
    BY <2>3 DEF FieldPart
  <2>. QED BY <1>9, <2>4
<1>13. CASE v # <<>>
  <2>1. k < n /\ Begins(v, Pair(fs[k + 1]))
    BY <1>7, <1>13
  <2>2. w \in Seq(Seq(Token)) /\ Len(w) = k /\ \A i \in 1 .. k : w[i] = Pair(fs[i])
    BY <1>4, <1>6
  <2>. HIDE DEF w
  <2>3. P = Append(w, v)
    BY <1>8, <1>13
  <2>4. Len(P) = k + 1 /\ P[k + 1] = v /\ DOMAIN P = 1 .. k + 1 /\ \A i \in 1 .. k : P[i] = Pair(fs[i])
    BY <1>4, <1>7, <2>2, <2>3
  <2>. DEFINE F(i) == FieldPair(P[i])
  <2>5. gs = [i \in 1 .. k + 1 |-> F(i)] /\ m = [i \in 1 .. k |-> F(i)] /\ F(k + 1) = FieldPair(v)
    <3>1. gs = [i \in 1 .. k + 1 |-> F(i)]
      BY <2>4
    <3>2. \A i \in 1 .. k : F(i) = fs[i]
      BY <1>11, <2>4
    <3>. HIDE DEF gs, m
    <3>. QED BY <1>10, <2>4, <3>1, <3>2
  <2>6. [i \in 1 .. k + 1 |-> F(i)] = Append([i \in 1 .. k |-> F(i)], F(k + 1))
    <3>. HIDE DEF F
    <3>. QED BY <1>4
  <2>. HIDE DEF gs, m, F
  <2>7. gs = Append(m, FieldPair(v))
    BY <2>5, <2>6
  <2>8. FieldPart(gs, fs)
    BY <1>7, <1>13, <2>1, <2>7 DEF FieldPart, m, n
  <2>. QED BY <1>9, <2>8
<1>. QED BY <1>12, <1>13

\* What parsePostArg makes of a line that is no form: one name, which begins as
\* the line does.
LEMMA JunkForm ==
  ASSUME NEW u \in Seq(Token), u # <<>>, Without(u, "&"), u[1] # "=", NEW lines, Last(lines) = u
  PROVE  \A n \in DOMAIN parsePostArg(lines) : n # <<>> /\ n[1] = u[1]
<1>. DEFINE P == Pieces(u, "&")
            W == Pieces(u, "=")
            gs == [k \in DOMAIN P |-> FieldPair(P[k])]
<1>1. P = <<u>>
  BY PiecesWhole
<1>2. DOMAIN P = {1} /\ P[1] = u
  BY <1>1
<1>3. W # <<>> /\ W[1] # <<>> /\ W[1][1] = u[1] /\ W \in Seq(Seq(Token))
  BY PieceStarts, PiecesType
<1>4. FieldPair(u).name = W[1]
  <2>. HIDE DEF W
  <2>1. 1 <= Len(W)
    BY <1>3
  <2>. QED BY <2>1 DEF FieldPair, W
<1>5. parsePostArg(lines) = FirstOfEach(gs)
  BY PostArgIs
<1>. HIDE DEF P, W
<1>6. DOMAIN gs = {1} /\ gs[1] = FieldPair(u)
  BY <1>2
<1>7. DOMAIN parsePostArg(lines) = {gs[i].name : i \in DOMAIN gs}
  <2>. HIDE DEF gs
  <2>. QED BY <1>5 DEF FirstOfEach
<1>. HIDE DEF gs
<1>8. DOMAIN parsePostArg(lines) = {W[1]}
  BY <1>4, <1>6, <1>7
<1>. QED BY <1>3, <1>8
-----------------------------------------------------------------------------
(***************************************************************************)
(* What the maps know                                                      *)
(***************************************************************************)

\* No name begins another, so a name that is cut is no other name.
Clear(cs) == \A i, j \in DOMAIN cs : Begins(cs[i].name, cs[j].name) => i = j

\* Of the pairs cs the map f knows the first m by name, with their values but for
\* pair m, which has v; and every name it has begins a name of cs.
Knows(cs, f, m, v) ==
  /\ m \in 0 .. Len(cs)
  /\ NamesOf(cs) \cap DOMAIN f = {cs[i].name : i \in 1 .. m}
  /\ \A i \in 1 .. m : i < m => f[cs[i].name] = cs[i].value
  /\ m > 0 => f[cs[m].name] = v
  /\ \A n \in DOMAIN f : \E i \in DOMAIN cs : Begins(n, cs[i].name)

\* When every name occurs once, ValueOf finds the value next to the name.
LEMMA ValueAt ==
  ASSUME NEW U, NEW pairs \in Seq(U), OneEach(pairs), NEW i \in DOMAIN pairs
  PROVE  ValueOf(pairs, pairs[i].name) = pairs[i].value
<1>1. \A j \in DOMAIN pairs : pairs[j].name = pairs[i].name => j = i
  BY DEF OneEach
<1>2. (CHOOSE j \in DOMAIN pairs : pairs[j].name = pairs[i].name) = i
  BY <1>1
<1>. QED BY <1>2 DEF ValueOf

\* So does the map the parser builds.
LEMMA FirstsAt ==
  ASSUME NEW U, NEW pairs \in Seq(U), OneEach(pairs)
  PROVE  LET f == FirstOfEach(pairs) IN
         /\ DOMAIN f = NamesOf(pairs)
         /\ \A i \in DOMAIN pairs : f[pairs[i].name] = pairs[i].value
<1>. DEFINE f == FirstOfEach(pairs)
<1>1. f = [n \in NamesOf(pairs) |-> ValueOf(pairs, n)]
  BY Firsts DEF OneEach
<1>. HIDE DEF f
<1>2. \A i \in DOMAIN pairs : pairs[i].name \in NamesOf(pairs)
  BY DEF NamesOf
<1>3. \A i \in DOMAIN pairs : ValueOf(pairs, pairs[i].name) = pairs[i].value
  BY ValueAt
<1>. QED BY <1>1, <1>2, <1>3 DEF f

\* Clear names occur once.
LEMMA ClearNames ==
  ASSUME NEW cs \in Seq(Fields(Plain)), Clear(cs)
  PROVE  OneEach(cs) /\ Len(cs) \in Nat /\ DOMAIN cs = 1 .. Len(cs)
         /\ \A i \in DOMAIN cs : cs[i] \in Fields(Plain) /\ cs[i].name \in Seq(Token) /\ cs[i] \in Fields(Token)
<1>1. Len(cs) \in Nat /\ DOMAIN cs = 1 .. Len(cs) /\ \A i \in DOMAIN cs : cs[i] \in Fields(Plain)
  OBVIOUS
<1>2. \A i \in DOMAIN cs : cs[i].name \in Seq(Token)
  BY <1>1, PlainTokens, FieldType
<1>3. \A i, j \in DOMAIN cs : cs[i].name = cs[j].name => i = j
  <2>. SUFFICES ASSUME NEW i \in DOMAIN cs, NEW j \in DOMAIN cs, cs[i].name = cs[j].name PROVE i = j
    OBVIOUS
  <2>1. Begins(cs[i].name, cs[j].name)
    BY <1>2, BeginsAll
  <2>. QED BY <2>1 DEF Clear
<1>4. Fields(Plain) \subseteq Fields(Token)
  <2>1. \A s \in Seq(Plain) : s \in Seq(Token)
    BY PlainTokens, Wider
  <2>. QED BY <2>1 DEF Fields
<1>. QED BY <1>1, <1>2, <1>3, <1>4 DEF OneEach

\* The map built from the first k pairs knows these.
LEMMA KnowsPart ==
  ASSUME NEW cs \in Seq(Fields(Plain)), Clear(cs), NEW k \in 0 .. Len(cs)
  PROVE  Knows(cs, FirstOfEach(SubSeq(cs, 1, k)), k, cs[k].value)
<1>. DEFINE n == Len(cs)
            ps == SubSeq(cs, 1, k)
            f == FirstOfEach(ps)
            F == Fields(Plain)
<1>1. OneEach(cs) /\ n \in Nat /\ DOMAIN cs = 1 .. n
  BY ClearNames
<1>2. ps \in Seq(F) /\ DOMAIN ps = 1 .. k /\ \A i \in 1 .. k : ps[i] = cs[i] /\ i \in DOMAIN cs
  <2>. HIDE DEF F
  <2>1. k \in Nat /\ k <= n /\ cs \in Seq(F)
    BY <1>1 DEF F
  <2>2. ps \in Seq(F) /\ Len(ps) = k /\ \A i \in 1 .. k : ps[i] = cs[i]
    BY <1>1, <2>1
  <2>. HIDE DEF ps
  <2>. QED BY <1>1, <2>1, <2>2
<1>. HIDE DEF ps
<1>3. OneEach(ps)
  BY <1>1, <1>2 DEF OneEach
<1>4. DOMAIN f = NamesOf(ps) /\ \A i \in 1 .. k : f[ps[i].name] = ps[i].value
  BY <1>2, <1>3, FirstsAt
<1>. HIDE DEF f
<1>5. NamesOf(ps) = {cs[i].name : i \in 1 .. k} /\ NamesOf(ps) \subseteq NamesOf(cs)
  BY <1>2 DEF NamesOf
<1>6. \A i \in 1 .. k : f[cs[i].name] = cs[i].value
  BY <1>2, <1>4
<1>7. k > 0 => k \in 1 .. k
  OBVIOUS
<1>8. \A x \in DOMAIN f : \E i \in DOMAIN cs : Begins(x, cs[i].name)
  <2>1. \A i \in DOMAIN cs : Begins(cs[i].name, cs[i].name)
    BY ClearNames, BeginsAll
  <2>. QED BY <1>2, <1>4, <1>5, <2>1
<1>. QED BY <1>4, <1>5, <1>6, <1>7, <1>8 DEF Knows, f, ps

\* With a pair more whose name is cut: it knows one more if the name was whole.
LEMMA KnowsCut ==
  ASSUME NEW cs \in Seq(Fields(Plain)), Clear(cs), NEW k \in 0 .. Len(cs), k < Len(cs),
         NEW y \in Fields(Token), Begins(y.name, cs[k + 1].name)
  PROVE  LET f == FirstOfEach(Append(SubSeq(cs, 1, k), y)) IN
         IF y.name = cs[k + 1].name THEN Knows(cs, f, k + 1, y.value) ELSE Knows(cs, f, k, cs[k].value)
<1>. DEFINE n == Len(cs)
            c == cs[k + 1]
            F == Fields(Token)
            q == SubSeq(cs, 1, k)
            ps == Append(q, y)
            f == FirstOfEach(ps)
<1>1. /\ OneEach(cs) /\ n \in Nat /\ DOMAIN cs = 1 .. n /\ k \in Nat /\ k + 1 \in DOMAIN cs
      /\ \A i \in DOMAIN cs : cs[i] \in F
  BY ClearNames
<1>2. q \in Seq(F) /\ Len(q) = k /\ \A i \in 1 .. k : q[i] = cs[i] /\ i \in DOMAIN cs
  <2>. HIDE DEF F
  <2>1. cs \in Seq(F)
    BY <1>1
  <2>. QED BY <1>1, <2>1
<1>. HIDE DEF F, q
<1>3. /\ ps \in Seq(F) /\ DOMAIN ps = 1 .. k + 1 /\ ps[k + 1] = y
      /\ \A i \in 1 .. k : ps[i] = cs[i]
  BY <1>1, <1>2 DEF F
<1>. HIDE DEF ps
<1>4. \A j \in DOMAIN cs : cs[j].name = y.name => j = k + 1
  BY <1>1 DEF Clear
<1>5. OneEach(ps)
  <2>. SUFFICES ASSUME NEW i \in 1 .. k + 1, NEW j \in 1 .. k + 1, ps[i].name = ps[j].name PROVE i = j
    BY <1>3 DEF OneEach
  <2>1. CASE i \in 1 .. k /\ j \in 1 .. k
    BY <1>1, <1>2, <1>3, <2>1 DEF OneEach
  <2>2. CASE i \in 1 .. k /\ j = k + 1
    <3>1. i \in DOMAIN cs /\ cs[i].name = y.name
      BY <1>2, <1>3, <2>2
    <3>. QED BY <1>4, <2>2, <3>1
  <2>3. CASE j \in 1 .. k /\ i = k + 1
    <3>1. j \in DOMAIN cs /\ cs[j].name = y.name
      BY <1>2, <1>3, <2>3
    <3>. QED BY <1>4, <2>3, <3>1
  <2>. QED BY <1>1, <2>1, <2>2, <2>3
<1>6. DOMAIN f = NamesOf(ps) /\ \A i \in 1 .. k + 1 : f[ps[i].name] = ps[i].value
  BY <1>3, <1>5, FirstsAt
<1>. HIDE DEF f
<1>7. NamesOf(ps) = {cs[i].name : i \in 1 .. k} \cup {y.name}
  <2>1. \A i \in 1 .. k + 1 : i \in 1 .. k \/ i = k + 1
    BY <1>1
  <2>2. 1 .. k \subseteq 1 .. k + 1 /\ k + 1 \in 1 .. k + 1
    BY <1>1
  <2>. QED BY <1>3, <2>1, <2>2 DEF NamesOf
<1>8. {cs[i].name : i \in 1 .. k} \subseteq NamesOf(cs)
  BY <1>2 DEF NamesOf
<1>9. \A i \in 1 .. k : f[cs[i].name] = cs[i].value
  <2>1. \A i \in 1 .. k : i \in 1 .. k + 1
    BY <1>1
  <2>. QED BY <1>3, <1>6, <2>1
<1>10. f[y.name] = y.value
  <2>1. k + 1 \in 1 .. k + 1
    BY <1>1
  <2>. QED BY <1>3, <1>6, <2>1
<1>11. \A x \in DOMAIN f : \E i \in DOMAIN cs : Begins(x, cs[i].name)
  <2>1. \A i \in DOMAIN cs : Begins(cs[i].name, cs[i].name)
    BY ClearNames, BeginsAll
  <2>. QED BY <1>1, <1>2, <1>6, <1>7, <2>1
<1>12. CASE y.name = c.name
  <2>1. {cs[i].name : i \in 1 .. k} \cup {y.name} = {cs[i].name : i \in 1 .. k + 1}
    <3>1. 1 .. k + 1 = 1 .. k \cup {k + 1}
      BY <1>1
    <3>. QED BY <1>12, <3>1
  <2>2. y.name \in NamesOf(cs)
    BY <1>1, <1>12 DEF NamesOf
  <2>3. NamesOf(cs) \cap DOMAIN f = {cs[i].name : i \in 1 .. k + 1}
    BY <1>6, <1>7, <1>8, <2>1, <2>2
  <2>4. k + 1 \in 0 .. Len(cs) /\ \A i \in 1 .. k + 1 : i < k + 1 => i \in 1 .. k
    BY <1>1
  <2>5. Knows(cs, f, k + 1, y.value)
    BY <1>9, <1>10, <1>12, <1>11, <2>3, <2>4 DEF Knows
  <2>. QED BY <1>12, <2>5 DEF f, ps, q
<1>13. CASE y.name # c.name
  <2>1. y.name \notin NamesOf(cs)
    BY <1>4, <1>13 DEF NamesOf
  <2>2. NamesOf(cs) \cap DOMAIN f = {cs[i].name : i \in 1 .. k}
    BY <1>6, <1>7, <1>8, <2>1
  <2>3. k > 0 => k \in 1 .. k
    BY <1>1
  <2>4. Knows(cs, f, k, cs[k].value)
    BY <1>9, <1>11, <2>2, <2>3 DEF Knows
  <2>. QED BY <1>13, <2>4 DEF f, ps, q
<1>. QED BY <1>12, <1>13

\* It knows as many names as pairs.
LEMMA KnowsCount ==
  ASSUME NEW cs \in Seq(Fields(Plain)), Clear(cs), NEW f, NEW m, NEW v, Knows(cs, f, m, v)
  PROVE  Cardinality(NamesOf(cs) \cap DOMAIN f) = m
<1>. DEFINE S == {cs[i].name : i \in 1 .. m}
            g == [i \in 1 .. m |-> cs[i].name]
<1>1. m \in 0 .. Len(cs) /\ NamesOf(cs) \cap DOMAIN f = S
  BY DEF Knows
<1>2. OneEach(cs) /\ Len(cs) \in Nat /\ DOMAIN cs = 1 .. Len(cs)
  BY ClearNames
<1>3. m \in Nat /\ \A i \in 1 .. m : i \in DOMAIN cs
  BY <1>1, <1>2
<1>4. \A i, j \in 1 .. m : g[i] = g[j] => i = j
  BY <1>2, <1>3 DEF OneEach
<1>5. \A x \in S : \E i \in 1 .. m : g[i] = x
  OBVIOUS
<1>6. g \in [1 .. m -> S]
  OBVIOUS
<1>. HIDE DEF g, S
<1>7. ExistsBijection(1 .. m, S)
  <2>1. g \in Bijection(1 .. m, S)
    BY <1>4, <1>5, <1>6 DEF Bijection, Injection, Surjection, IsInjective
  <2>. QED BY <2>1 DEF ExistsBijection
<1>8. Cardinality(S) = m
  BY <1>3, <1>7, FS_CountingElements
<1>. QED BY <1>1, <1>8

\* The value v of the last cookie in r: whole; or the value is cut, and its last
\* token dropped; or the name is cut, when v is the name but for its last token.
CutValue(c, v, r) ==
  \/ v = c.value
  \/ \E w \in Seq(Token), z \in Seq(Token) :
        /\ Begins(w, c.value) /\ v = SubSeq(w, 1, Len(w) - 1)
        /\ r = z \o (c.name \o <<"=">> \o w)
  \/ /\ c.name # <<>> /\ v = SubSeq(c.name, 1, Len(c.name) - 1)
     /\ \E z \in Seq(Token) : r = z \o c.name

\* The map f knows the first cookies, and the last of these so.
CookiesKnown(cs, f, r) ==
  \E m \in 0 .. Len(cs) : \E v : Knows(cs, f, m, v) /\ (m > 0 => CutValue(cs[m], v, r))

\* The map g knows the first fields, the last of these by the beginning of its
\* value.
FieldsKnown(fs, g) ==
  \E m \in 0 .. Len(fs) : \E v : Knows(fs, g, m, v) /\ (m > 0 => Begins(v, fs[m].value))

\* The map built from what was read of cookies.
LEMMA PartKnown ==
  ASSUME NEW cs \in Seq(Fields(Plain)), Clear(cs), NEW ps, NEW r, PartOf(ps, cs, r)
  PROVE  CookiesKnown(cs, FirstOfEach(ps), r)
<1>1. PICK k \in 0 .. Len(cs) :
     \/ ps = SubSeq(cs, 1, k)
     \/ /\ k < Len(cs)
        /\ \E t \in Seq(Token) : /\ t # <<>> /\ Begins(t, Pair(cs[k + 1]))
                                 /\ ps = Append(SubSeq(cs, 1, k), CookiePair(t))
                                 /\ \E z \in Seq(Token) : r = z \o t
  BY DEF PartOf
<1>2. CASE ps = SubSeq(cs, 1, k)
  <2>1. Knows(cs, FirstOfEach(ps), k, cs[k].value)
    BY <1>2, KnowsPart
  <2>2. CutValue(cs[k], cs[k].value, r)
    BY DEF CutValue
  <2>. QED BY <2>1, <2>2 DEF CookiesKnown
<1>3. CASE /\ k < Len(cs)
           /\ \E t \in Seq(Token) : /\ t # <<>> /\ Begins(t, Pair(cs[k + 1]))
                                    /\ ps = Append(SubSeq(cs, 1, k), CookiePair(t))
                                    /\ \E z \in Seq(Token) : r = z \o t
  <2>1. PICK t \in Seq(Token) : /\ t # <<>> /\ Begins(t, Pair(cs[k + 1]))
                                /\ ps = Append(SubSeq(cs, 1, k), CookiePair(t))
                                /\ \E z \in Seq(Token) : r = z \o t
    BY <1>3
  <2>2. PICK z \in Seq(Token) : r = z \o t
    BY <2>1
  <2>. DEFINE c == cs[k + 1]
              y == CookiePair(t)
              f == FirstOfEach(ps)
  <2>3. k + 1 \in 0 .. Len(cs) /\ k + 1 \in DOMAIN cs /\ c \in Fields(Plain) /\ k < Len(cs)
    BY <1>3
  <2>4. c.name \in Seq(Token)
    BY <2>3, PlainTokens, FieldType
  <2>5. f = FirstOfEach(Append(SubSeq(cs, 1, k), y))
    BY <2>1
  <2>6. Begins(t, Pair(c))
    BY <2>1
  <2>. HIDE DEF c, y, f
  <2>7. CASE Begins(t, c.name) /\ y = [name |-> t, value |-> SubSeq(t, 1, Len(t) - 1)]
    <3>1. y \in Fields(Token) /\ y.name = t /\ y.value = SubSeq(t, 1, Len(t) - 1)
      <4>1. SubSeq(t, 1, Len(t) - 1) \in Seq(Token)
        OBVIOUS
      <4>. QED BY <2>7, <4>1 DEF Fields
    <3>2. IF y.name = c.name THEN Knows(cs, f, k + 1, y.value) ELSE Knows(cs, f, k, cs[k].value)
      BY <2>3, <2>5, <2>7, <3>1, KnowsCut DEF c
    <3>3. CASE t = c.name
      <4>1. CutValue(c, y.value, r)
        BY <2>1, <2>2, <3>1, <3>3 DEF CutValue
      <4>2. Knows(cs, f, k + 1, y.value)
        BY <3>1, <3>2, <3>3
      <4>. QED BY <2>3, <4>1, <4>2 DEF CookiesKnown, c, f
    <3>4. CASE t # c.name
      <4>1. Knows(cs, f, k, cs[k].value) /\ CutValue(cs[k], cs[k].value, r)
        BY <3>1, <3>2, <3>4 DEF CutValue
      <4>. QED BY <4>1 DEF CookiesKnown, f
    <3>. QED BY <3>3, <3>4
  <2>8. CASE \E w \in Seq(Token) : /\ Begins(w, c.value) /\ t = c.name \o <<"=">> \o w
                                   /\ y = [name |-> c.name, value |-> SubSeq(w, 1, Len(w) - 1)]
    <3>1. PICK w \in Seq(Token) : /\ Begins(w, c.value) /\ t = c.name \o <<"=">> \o w
                                  /\ y = [name |-> c.name, value |-> SubSeq(w, 1, Len(w) - 1)]
      BY <2>8
    <3>2. y \in Fields(Token) /\ y.name = c.name /\ y.value = SubSeq(w, 1, Len(w) - 1)
      <4>1. SubSeq(w, 1, Len(w) - 1) \in Seq(Token)
        OBVIOUS
      <4>. QED BY <2>4, <3>1, <4>1 DEF Fields
    <3>3. Begins(y.name, c.name)
      BY <2>4, <3>2, BeginsAll
    <3>4. Knows(cs, f, k + 1, y.value)
      <4>1. IF y.name = c.name THEN Knows(cs, f, k + 1, y.value) ELSE Knows(cs, f, k, cs[k].value)
        BY <2>3, <2>5, <3>2, <3>3, KnowsCut DEF c
      <4>. QED BY <3>2, <4>1
    <3>5. r = z \o (c.name \o <<"=">> \o w)
      BY <2>2, <3>1
    <3>6. CutValue(c, y.value, r)
      BY <3>1, <3>2, <3>5 DEF CutValue
    <3>. QED BY <2>3, <3>4, <3>6 DEF CookiesKnown, c, f
  <2>9. \/ Begins(t, c.name) /\ y = [name |-> t, value |-> SubSeq(t, 1, Len(t) - 1)]
        \/ \E w \in Seq(Token) : /\ Begins(w, c.value) /\ t = c.name \o <<"=">> \o w
                                 /\ y = [name |-> c.name, value |-> SubSeq(w, 1, Len(w) - 1)]
    BY <2>1, <2>3, <2>6, CookieCut DEF y
  <2>. QED BY <2>7, <2>8, <2>9
<1>. QED BY <1>1, <1>2, <1>3

\* The map built from what was read of a form.
LEMMA PartFields ==
  ASSUME NEW fs \in Seq(Fields(Plain)), Clear(fs), NEW gs, FieldPart(gs, fs)
  PROVE  FieldsKnown(fs, FirstOfEach(gs))
<1>1. PICK k \in 0 .. Len(fs) :
     \/ gs = SubSeq(fs, 1, k)
     \/ /\ k < Len(fs)
        /\ \E t \in Seq(Token) : /\ t # <<>> /\ Begins(t, Pair(fs[k + 1]))
                                 /\ gs = Append(SubSeq(fs, 1, k), FieldPair(t))
  BY DEF FieldPart
<1>0. k > 0 => Begins(fs[k].value, fs[k].value)
  <2>. SUFFICES ASSUME k > 0 PROVE Begins(fs[k].value, fs[k].value)
    OBVIOUS
  <2>1. fs[k] \in Fields(Plain)
    OBVIOUS
  <2>2. fs[k].value \in Seq(Token)
    BY <2>1, PlainTokens, FieldType
  <2>. QED BY <2>2, BeginsAll
<1>2. CASE gs = SubSeq(fs, 1, k)
  <2>1. Knows(fs, FirstOfEach(gs), k, fs[k].value)
    BY <1>2, KnowsPart
  <2>. QED BY <1>0, <2>1 DEF FieldsKnown
<1>3. CASE /\ k < Len(fs)
           /\ \E t \in Seq(Token) : /\ t # <<>> /\ Begins(t, Pair(fs[k + 1]))
                                    /\ gs = Append(SubSeq(fs, 1, k), FieldPair(t))
  <2>1. PICK t \in Seq(Token) : /\ t # <<>> /\ Begins(t, Pair(fs[k + 1]))
                                /\ gs = Append(SubSeq(fs, 1, k), FieldPair(t))
    BY <1>3
  <2>. DEFINE c == fs[k + 1]
              y == FieldPair(t)
              f == FirstOfEach(gs)
  <2>3. k + 1 \in 0 .. Len(fs) /\ k + 1 \in DOMAIN fs /\ c \in Fields(Plain) /\ k < Len(fs)
    BY <1>3
  <2>4. c.name \in Seq(Token) /\ c.value \in Seq(Token)
    BY <2>3, PlainTokens, FieldType
  <2>5. f = FirstOfEach(Append(SubSeq(fs, 1, k), y))
    BY <2>1
  <2>6. Begins(t, Pair(c))
    BY <2>1
  <2>. HIDE DEF c, y, f
  <2>7. ASSUME y \in Fields(Token), Begins(y.name, c.name), Begins(y.value, c.value)
        PROVE  FieldsKnown(fs, f)
    <3>1. IF y.name = c.name THEN Knows(fs, f, k + 1, y.value) ELSE Knows(fs, f, k, fs[k].value)
      BY <2>3, <2>5, <2>7, KnowsCut DEF c
    <3>2. CASE y.name = c.name
      BY <2>3, <2>7, <3>1, <3>2 DEF FieldsKnown, c
    <3>3. CASE y.name # c.name
      BY <1>0, <3>1, <3>3 DEF FieldsKnown
    <3>. QED BY <3>2, <3>3
  <2>8. y \in Fields(Token) /\ Begins(y.name, c.name) /\ Begins(y.value, c.value)
    <3>1. CASE Begins(t, c.name) /\ y = [name |-> t, value |-> <<>>]
      <4>. DEFINE e == <<>>
      <4>1. e \in Seq(Token) /\ Begins(e, c.value) /\ y = [name |-> t, value |-> e]
        BY <2>4, <3>1, BeginsNothing
      <4>. HIDE DEF e
      <4>. QED BY <3>1, <4>1 DEF Fields
    <3>2. CASE \E w \in Seq(Token) : Begins(w, c.value) /\ y = [name |-> c.name, value |-> w]
      <4>1. PICK w \in Seq(Token) : Begins(w, c.value) /\ y = [name |-> c.name, value |-> w]
        BY <3>2
      <4>2. Begins(c.name, c.name)
        BY <2>4, BeginsAll
      <4>. QED BY <2>4, <4>1, <4>2 DEF Fields
    <3>. QED BY <2>1, <2>3, <2>6, <3>1, <3>2, FieldCut DEF y
  <2>. QED BY <2>7, <2>8 DEF f
<1>. QED BY <1>1, <1>2, <1>3

\* A request begins with its method.
LEMMA MethodFirst ==
  ASSUME NEW q, Question(q), NEW r, r # <<>>, Begins(r, Format(q))
  PROVE  r[1] = q.method /\ r \in Seq(Token)
<1>. DEFINE h == <<q.method, Blank>>
            p == Path(q.page)
            s == <<Blank, "HTTP/1.1">>
            x == <<"\r", "\n">>
            y == Line(Host) \o (CookieLine(q.cookies) \o (Line(<<>>) \o Body(q)))
<1>1. h \in Seq(Token) /\ h[1] = q.method /\ h # <<>> /\ s \in Seq(Token) /\ x \in Seq(Token)
  <2>1. q.method \in Token
    BY MethodFacts DEF Question
  <2>. QED BY <2>1, Literal
<1>2. p \in Seq(Token)
  BY PathRead DEF Question
<1>3. Format(q) = Line(Row(q)) \o y /\ y \in Seq(Token)
  <2>. DEFINE b1 == Line(Host)
              b2 == CookieLine(q.cookies)
              b3 == Line(<<>>)
              b4 == Body(q)
  <2>1. b1 \in Seq(Token) /\ b2 \in Seq(Token) /\ b3 \in Seq(Token) /\ b4 \in Seq(Token) /\ Format(q) = Line(Row(q)) \o y
    BY FormatIs
  <2>. HIDE DEF b1, b2, b3, b4
  <2>2. b1 \o (b2 \o (b3 \o b4)) \in Seq(Token)
    BY <2>1
  <2>. QED BY <2>1, <2>2 DEF b1, b2, b3, b4
<1>4. Line(Row(q)) = h \o p \o s \o x
  BY DEF Line, Row
<1>. HIDE DEF h, p, s, x, y
<1>5. h \o p \in Seq(Token) /\ h \o p # <<>> /\ (h \o p)[1] = q.method
  BY <1>1, <1>2, JoinFirst
<1>6. h \o p \o s \in Seq(Token) /\ h \o p \o s # <<>> /\ (h \o p \o s)[1] = q.method
  BY <1>1, <1>5, JoinFirst
<1>7. h \o p \o s \o x \in Seq(Token) /\ h \o p \o s \o x # <<>> /\ (h \o p \o s \o x)[1] = q.method
  BY <1>1, <1>6, JoinFirst
<1>8. Format(q) \in Seq(Token) /\ Format(q)[1] = q.method
  BY <1>3, <1>4, <1>7, JoinFirst
<1>. QED BY <1>8, BeginsFirst
-----------------------------------------------------------------------------
(***************************************************************************)
(* The invariant of requests that are cut                                  *)
(***************************************************************************)

\* More that holds always: the names of cookies and of fields are clear, no name of
\* a field begins like a line, and the process is down only for a request that
\* made the handler throw.
CutOK ==
  /\ Clear(sent.cookies) /\ Clear(sent.form)
  /\ \A i \in DOMAIN sent.form : sent.form[i].name[1] \notin Openings("POST")
  /\ down => request # <<>> /\ Throws(parseHttpRequest(request))

\* Fields are fields over plain tokens.
LEMMA FormPlain ==
  ASSUME NEW fs \in Seq(Fields(Plain \ {"Cookie:"}))
  PROVE  fs \in Seq(Fields(Plain))
<1>1. \A s \in Seq(Plain \ {"Cookie:"}) : s \in Seq(Plain)
  BY Wider
<1>2. Fields(Plain \ {"Cookie:"}) \subseteq Fields(Plain)
  BY <1>1 DEF Fields
<1>. QED BY <1>2, Wider

\* What the parser makes of a request that is cut: it knows the first cookies, and
\* either no field at all or all the cookies and the first fields.
LEMMA ParsedCut ==
  ASSUME NEW q, Question(q), Clear(q.cookies), Clear(q.form), NEW r, r # <<>>, Begins(r, Format(q))
  PROVE  LET p == parseHttpRequest(r) IN
         /\ CookiesKnown(q.cookies, p.cookie, r)
         /\ \/ \A n \in DOMAIN p.form : n # <<>> /\ n[1] \in Openings("POST")
            \/ p.cookie = FirstOfEach(q.cookies) /\ FieldsKnown(q.form, p.form)
<1>. DEFINE p == parseHttpRequest(r)
            lines == Pieces(r, "\n")
            cs == q.cookies
            fs == q.form
<1>1. r[1] = q.method /\ r \in Seq(Token)
  BY MethodFirst
<1>2. cs \in Seq(Fields(Plain)) /\ fs \in Seq(Fields(Plain)) /\ q.method \in Methods
  BY FormPlain DEF Question
<1>3. p.cookie = FirstOfEach(FlattenSeq(PairsOf(lines)))
  BY DEF parseHttpRequest, parseCookie, PairsOf
<1>4. p.form = IF r[1] = "POST" THEN parsePostArg(lines) ELSE <<>>
  <2>1. Head(r) = r[1]
    BY <1>1
  <2>. QED BY <2>1 DEF parseHttpRequest
<1>5. PICK ps \in Seq(Fields(Token)), u \in Seq(Token) :
        /\ Found(r, ps, u) /\ u # <<>>
        /\ \/ PartOf(ps, cs, r) /\ Without(u, "&") /\ u[1] \in Openings(q.method)
           \/ ps = cs /\ Begins(u, Body(q))
  BY RequestCut DEF Seen
<1>6. p.cookie = FirstOfEach(ps) /\ Last(lines) = u
  BY <1>3, <1>5 DEF Found
<1>. HIDE DEF p, lines, cs, fs
<1>7. CASE p.form = <<>>
  <2>1. DOMAIN <<>> = {}
    OBVIOUS
  <2>2. \A n \in DOMAIN p.form : n # <<>> /\ n[1] \in Openings("POST")
    BY <1>7, <2>1
  <2>3. CASE PartOf(ps, cs, r)
    <3>1. CookiesKnown(cs, p.cookie, r)
      BY <1>2, <1>6, <2>3, PartKnown DEF cs
    <3>. QED BY <2>2, <3>1 DEF p, cs
  <2>4. CASE ps = cs
    <3>1. PartOf(cs, cs, r)
      <4>1. Len(cs) \in 0 .. Len(cs) /\ cs = SubSeq(cs, 1, Len(cs))
        BY <1>2
      <4>. QED BY <4>1 DEF PartOf
    <3>2. CookiesKnown(cs, p.cookie, r)
      BY <1>2, <1>6, <2>4, <3>1, PartKnown DEF cs
    <3>. QED BY <2>2, <3>2 DEF p, cs
  <2>. QED BY <1>5, <2>3, <2>4
<1>8. CASE p.form # <<>>
  <2>1. q.method = "POST" /\ p.form = parsePostArg(lines)
    BY <1>1, <1>4, <1>8
  <2>2. CASE PartOf(ps, cs, r) /\ Without(u, "&") /\ u[1] \in Openings(q.method)
    <3>1. CookiesKnown(cs, p.cookie, r)
      BY <1>2, <1>6, <2>2, PartKnown DEF cs
    <3>2. u[1] # "="
      BY <1>2, <2>2, OpeningFacts
    <3>3. \A n \in DOMAIN p.form : n # <<>> /\ n[1] \in Openings("POST")
      BY <1>5, <1>6, <2>1, <2>2, <3>2, JunkForm
    <3>. QED BY <3>1, <3>3 DEF p, cs
  <2>3. CASE ps = cs /\ Begins(u, Body(q))
    <3>1. PartOf(cs, cs, r)
      <4>1. Len(cs) \in 0 .. Len(cs) /\ cs = SubSeq(cs, 1, Len(cs))
        BY <1>2
      <4>. QED BY <4>1 DEF PartOf
    <3>2. CookiesKnown(cs, p.cookie, r) /\ p.cookie = FirstOfEach(cs)
      BY <1>2, <1>6, <2>3, <3>1, PartKnown DEF cs
    <3>3. PICK gs : FieldPart(gs, fs) /\ p.form = FirstOfEach(gs)
      BY <1>2, <1>5, <1>6, <2>1, <2>3, FormCut DEF Body, fs
    <3>4. FieldsKnown(fs, p.form)
      BY <1>2, <3>3, PartFields DEF fs
    <3>. QED BY <3>2, <3>4 DEF p, cs, fs
  <2>. QED BY <1>5, <2>2, <2>3
<1>. QED BY <1>7, <1>8

\* The beginning of a text is a prefix of it.
LEMMA BeginsPrefix ==
  ASSUME NEW T, NEW s \in Seq(T), NEW p, Begins(p, s)
  PROVE  IsPrefix(p, s)
<1>1. p \in Seq(T) /\ Len(p) <= Len(s) /\ Len(p) \in Nat /\ \A i \in 1 .. Len(p) : p[i] = s[i]
  BY BeginsIs
<1>. DEFINE n == Len(p)
            y == SubSeq(s, 1, n)
<1>2. SubSeq(p, 1, n) = p
  BY <1>1
<1>3. y \in Seq(T) /\ Len(y) = n /\ \A i \in 1 .. n : y[i] = p[i]
  <2>. HIDE DEF n
  <2>1. n \in Nat /\ n <= Len(s) /\ \A i \in 1 .. n : p[i] = s[i]
    BY <1>1 DEF n
  <2>. QED BY <2>1
<1>. HIDE DEF y
<1>4. y = p
  BY <1>1, <1>3, Same
<1>. QED BY <1>1, <1>2, <1>4 DEF IsPrefix, y

\* Also without its last token.
LEMMA ShorterPrefix ==
  ASSUME NEW T, NEW s \in Seq(T), NEW w, Begins(w, s)
  PROVE  IsPrefix(SubSeq(w, 1, Len(w) - 1), s)
<1>1. w \in Seq(T) /\ Len(w) <= Len(s) /\ Len(w) \in Nat /\ \A i \in 1 .. Len(w) : w[i] = s[i]
  BY BeginsIs
<1>2. CASE w = <<>>
  <2>1. SubSeq(w, 1, Len(w) - 1) = <<>>
    BY <1>2
  <2>2. Begins(<<>>, s)
    BY BeginsNothing
  <2>. DEFINE e == <<>>
  <2>3. Begins(e, s) /\ SubSeq(w, 1, Len(w) - 1) = e
    BY <2>1, <2>2
  <2>. HIDE DEF e
  <2>. QED BY <2>3, BeginsPrefix
<1>3. CASE w # <<>>
  <2>. DEFINE n == Len(w) - 1
              x == SubSeq(w, 1, n)
              y == SubSeq(s, 1, n)
  <2>1. n \in Nat /\ n <= Len(w) /\ n <= Len(s) /\ n \in 0 .. Len(s)
    <3>1. Len(w) # 0
      BY <1>1, <1>3
    <3>2. Len(s) \in Nat
      OBVIOUS
    <3>. QED BY <1>1, <3>1, <3>2
  <2>. HIDE DEF n
  <2>2. x \in Seq(T) /\ Len(x) = n /\ \A i \in 1 .. n : x[i] = w[i]
    BY <1>1, <2>1
  <2>3. y \in Seq(T) /\ Len(y) = n /\ \A i \in 1 .. n : y[i] = s[i]
    BY <2>1
  <2>. HIDE DEF x, y
  <2>4. \A i \in 1 .. n : i \in 1 .. Len(w)
    BY <1>1, <2>1
  <2>5. x = y
    BY <1>1, <2>2, <2>3, <2>4, Same
  <2>6. Begins(x, s)
    BY <2>1, <2>5 DEF Begins, y
  <2>7. IsPrefix(x, s)
    BY <2>6, BeginsPrefix
  <2>. QED BY <2>7 DEF x, n
<1>. QED BY <1>2, <1>3

\* Two parts end as the second does.
LEMMA JoinEnd ==
  ASSUME NEW T, NEW z \in Seq(T), NEW x \in Seq(T), x # <<>>
  PROVE  Last(z \o x) = Last(x)
<1>. DEFINE m == Len(z)
            n == Len(x)
            s == z \o x
<1>1. m \in Nat /\ n \in Nat /\ n # 0 /\ Len(s) = m + n
  OBVIOUS
<1>2. s[m + n] = x[n]
  OBVIOUS
<1>. HIDE DEF s
<1>3. Last(s) = Last(x)
  BY <1>1, <1>2 DEF Last
<1>. QED BY <1>3 DEF s

\* In a request that is cut only the last pair the parser knows may differ.
LEMMA CutHolds == IInv /\ CutOK => OnlyTheLastIsCut
<1>. SUFFICES ASSUME IInv, CutOK, Asked PROVE OnlyTheLastIsCut
  BY DEF OnlyTheLastIsCut
<1>. DEFINE cs == sent.cookies
            fs == sent.form
            f == Parsed.cookie
            g == Parsed.form
            cookies == NamesOf(cs) \cap DOMAIN f
            fields == NamesOf(fs) \cap DOMAIN g
            cutCookies == {n \in cookies : f[n] # ValueOf(cs, n)}
            cutFields == {n \in fields : g[n] # ValueOf(fs, n)}
<1>1. /\ cs \in Seq(Fields(Plain)) /\ fs \in Seq(Fields(Plain)) /\ Clear(cs) /\ Clear(fs)
      /\ OneEach(cs) /\ OneEach(fs)
      /\ \A i \in DOMAIN fs : fs[i].name[1] \notin Openings("POST")
  BY FormPlain DEF IInv, AskedOK, CutOK, Question
<1>2. /\ CookiesKnown(cs, f, request)
      /\ \/ \A n \in DOMAIN g : n # <<>> /\ n[1] \in Openings("POST")
         \/ f = FirstOfEach(cs) /\ FieldsKnown(fs, g)
  <2>1. Begins(request, Format(sent)) /\ request # <<>> /\ Question(sent)
    BY DEF IInv, AskedOK, Asked, Begins
  <2>. QED BY <1>1, <2>1, ParsedCut DEF Parsed
<1>. HIDE DEF cs, fs, f, g
<1>3. \A i \in DOMAIN cs : ValueOf(cs, cs[i].name) = cs[i].value
  BY <1>1, ValueAt
<1>4. \A i \in DOMAIN fs : ValueOf(fs, fs[i].name) = fs[i].value
  BY <1>1, ValueAt
<1>5. ASSUME NEW n \in cutCookies
      PROVE  /\ \/ IsPrefix(f[n], ValueOf(cs, n))
                \/ Last(request) = Last(n) /\ f[n] = Front(n)
             /\ n = cs[Cardinality(cookies)].name
  <2>1. PICK m \in 0 .. Len(cs) : \E v : Knows(cs, f, m, v) /\ (m > 0 => CutValue(cs[m], v, request))
    BY <1>2 DEF CookiesKnown
  <2>2. PICK v : Knows(cs, f, m, v) /\ (m > 0 => CutValue(cs[m], v, request))
    BY <2>1
  <2>3. cookies = {cs[i].name : i \in 1 .. m} /\ Len(cs) \in Nat /\ DOMAIN cs = 1 .. Len(cs)
    BY <1>1, <2>2, ClearNames DEF Knows
  <2>4. PICK i \in 1 .. m : n = cs[i].name
    BY <2>3
  <2>5. i \in DOMAIN cs /\ m > 0 /\ m \in DOMAIN cs
    BY <2>1, <2>3, <2>4
  <2>6. i = m
    <3>. SUFFICES ASSUME i < m PROVE FALSE
      BY <2>4, <2>5
    <3>1. f[n] = cs[i].value
      BY <2>2, <2>4 DEF Knows
    <3>. QED BY <1>3, <2>4, <2>5, <3>1
  <2>. DEFINE c == cs[m]
  <2>7. f[n] = v /\ CutValue(c, v, request) /\ ValueOf(cs, n) = c.value /\ n = c.name /\ v # c.value
    BY <1>3, <2>2, <2>4, <2>5, <2>6 DEF Knows
  <2>8. c \in Fields(Plain)
    BY <1>1, <2>5
  <2>9. c.name \in Seq(Token) /\ c.value \in Seq(Token)
    BY <2>8, PlainTokens, FieldType
  <2>10. Cardinality(cookies) = m
    BY <1>1, <2>2, KnowsCount
  <2>. HIDE DEF c
  <2>11. CASE \E w \in Seq(Token) : Begins(w, c.value) /\ v = SubSeq(w, 1, Len(w) - 1)
    <3>1. PICK w \in Seq(Token) : Begins(w, c.value) /\ v = SubSeq(w, 1, Len(w) - 1)
      BY <2>11
    <3>2. IsPrefix(v, c.value)
      BY <2>9, <3>1, ShorterPrefix
    <3>. QED BY <2>4, <2>6, <2>7, <2>10, <3>2
  <2>12. CASE /\ c.name # <<>> /\ v = SubSeq(c.name, 1, Len(c.name) - 1)
              /\ \E z \in Seq(Token) : request = z \o c.name
    <3>1. PICK z \in Seq(Token) : request = z \o c.name
      BY <2>12
    <3>2. Last(request) = Last(c.name)
      <4>. DEFINE x == c.name
      <4>1. x \in Seq(Token) /\ x # <<>> /\ request = z \o x
        BY <2>9, <2>12, <3>1
      <4>. HIDE DEF x
      <4>2. Last(request) = Last(x)
        BY <4>1, JoinEnd
      <4>. QED BY <4>2 DEF x
    <3>. QED BY <2>4, <2>6, <2>7, <2>10, <2>12, <3>2 DEF Front
  <2>. QED BY <2>7, <2>11, <2>12 DEF CutValue
<1>6. ASSUME NEW n \in fields
      PROVE  f = FirstOfEach(cs) /\ FieldsKnown(fs, g)
  <2>1. PICK i \in DOMAIN fs : n = fs[i].name
    BY DEF NamesOf
  <2>2. n \in DOMAIN g /\ n[1] \notin Openings("POST")
    BY <1>1, <2>1
  <2>. QED BY <1>2, <2>2
<1>7. ASSUME NEW n \in cutFields
      PROVE  IsPrefix(g[n], ValueOf(fs, n)) /\ n = fs[Cardinality(fields)].name
  <2>1. PICK m \in 0 .. Len(fs) : \E v : Knows(fs, g, m, v) /\ (m > 0 => Begins(v, fs[m].value))
    BY <1>6 DEF FieldsKnown
  <2>2. PICK v : Knows(fs, g, m, v) /\ (m > 0 => Begins(v, fs[m].value))
    BY <2>1
  <2>3. fields = {fs[i].name : i \in 1 .. m} /\ Len(fs) \in Nat /\ DOMAIN fs = 1 .. Len(fs)
    BY <1>1, <2>2, ClearNames DEF Knows
  <2>4. PICK i \in 1 .. m : n = fs[i].name
    BY <2>3
  <2>5. i \in DOMAIN fs /\ m > 0 /\ m \in DOMAIN fs
    BY <2>1, <2>3, <2>4
  <2>6. i = m
    <3>. SUFFICES ASSUME i < m PROVE FALSE
      BY <2>4, <2>5
    <3>1. g[n] = fs[i].value
      BY <2>2, <2>4 DEF Knows
    <3>. QED BY <1>4, <2>4, <2>5, <3>1
  <2>. DEFINE c == fs[m]
  <2>7. g[n] = v /\ Begins(v, c.value) /\ ValueOf(fs, n) = c.value /\ n = c.name
    BY <1>4, <2>2, <2>4, <2>5, <2>6 DEF Knows
  <2>8. c \in Fields(Plain)
    BY <1>1, <2>5
  <2>9. c.value \in Seq(Token)
    BY <2>8, PlainTokens, FieldType
  <2>10. Cardinality(fields) = m
    BY <1>1, <2>2, KnowsCount
  <2>. HIDE DEF c
  <2>11. IsPrefix(v, c.value)
    BY <2>7, <2>9, BeginsPrefix
  <2>. QED BY <2>4, <2>6, <2>7, <2>10, <2>11
<1>8. ASSUME fields # {} PROVE cutCookies = {} /\ cookies = NamesOf(cs)
  <2>1. f = FirstOfEach(cs)
    BY <1>6, <1>8
  <2>2. DOMAIN f = NamesOf(cs) /\ \A i \in DOMAIN cs : f[cs[i].name] = cs[i].value
    BY <1>1, <2>1, FirstsAt
  <2>3. \A n \in NamesOf(cs) : f[n] = ValueOf(cs, n)
    BY <1>3, <2>2 DEF NamesOf
  <2>. QED BY <2>2, <2>3
<1>. QED BY <1>5, <1>7, <1>8 DEF OnlyTheLastIsCut, cs, fs, f, g
-----------------------------------------------------------------------------
(***************************************************************************)
(* Every step keeps it, and when a handler throws                          *)
(***************************************************************************)

\* Names that differ in their first tokens are clear.
LEMMA FirstTokens ==
  ASSUME NEW cs \in Seq(Fields(Plain)), OneEach(cs),
         \A i \in DOMAIN cs : cs[i].name # <<>>,
         \A i, j \in DOMAIN cs : cs[i].name[1] = cs[j].name[1] => cs[i].name = cs[j].name
  PROVE  Clear(cs)
<1>. SUFFICES ASSUME NEW i \in DOMAIN cs, NEW j \in DOMAIN cs, Begins(cs[i].name, cs[j].name) PROVE i = j
  BY DEF Clear
<1>1. cs[j] \in Fields(Plain)
  OBVIOUS
<1>2. cs[j].name \in Seq(Token)
  BY <1>1, PlainTokens, FieldType
<1>3. cs[i].name[1] = cs[j].name[1]
  BY <1>2, BeginsFirst
<1>. QED BY <1>3 DEF OneEach

\* The names of the cookies a browser sends.
LEMMA FreshNames ==
  ASSUME BrowserOK
  PROVE  \A i \in DOMAIN Fresh : Fresh[i].name \in {Theme, Uuid}
<1>. DEFINE d == Dark
            o == Own
<1>1. d.name \in {Theme, Uuid} /\ o.name \in {Theme, Uuid}
  BY Cookie DEF Own
<1>2. Fresh \in {jar, <<o>> \o jar, jar \o <<o>>} /\ jar \in {<<>>, <<d>>}
  BY DEF Fresh, Own, BrowserOK
<1>. HIDE DEF d, o
<1>3. <<o>> \o <<>> = <<o>> /\ <<>> \o <<o>> = <<o>> /\ <<o>> \o <<d>> = <<o, d>> /\ <<d>> \o <<o>> = <<d, o>>
  <2>. DEFINE T == {o, d}
  <2>1. o \in T /\ d \in T
    OBVIOUS
  <2>. HIDE DEF T
  <2>2. <<o>> \o <<>> = <<o>> /\ <<>> \o <<o>> = <<o>>
    BY <2>1
  <2>3. <<o>> \o <<d>> = <<o, d>> /\ <<d>> \o <<o>> = <<d, o>>
    BY <2>1, Two
  <2>. QED BY <2>2, <2>3
<1>4. Fresh \in {<<>>, <<d>>, <<o>>, <<o, d>>, <<d, o>>}
  BY <1>2, <1>3
<1>5. ASSUME NEW f \in {<<>>, <<d>>, <<o>>, <<o, d>>, <<d, o>>}
      PROVE  \A i \in DOMAIN f : f[i] \in {o, d}
  <2>1. CASE f = <<>>
    BY <2>1
  <2>2. CASE f = <<d>>
    BY <2>2
  <2>3. CASE f = <<o>>
    BY <2>3
  <2>4. CASE f = <<o, d>>
    <3>1. DOMAIN f = {1, 2} /\ f[1] = o /\ f[2] = d
      BY <2>4
    <3>. QED BY <3>1
  <2>5. CASE f = <<d, o>>
    <3>1. DOMAIN f = {1, 2} /\ f[1] = d /\ f[2] = o
      BY <2>5
    <3>. QED BY <3>1
  <2>. QED BY <2>1, <2>2, <2>3, <2>4, <2>5
<1>6. \A i \in DOMAIN Fresh : Fresh[i] \in {o, d}
  BY <1>4, <1>5
<1>. QED BY <1>1, <1>6

\* They are clear.
LEMMA FreshClear ==
  ASSUME BrowserOK
  PROVE  Clear(Fresh)
<1>1. Fresh \in Seq(Fields(Plain)) /\ OneEach(Fresh)
  BY FreshIs
<1>2. \A i \in DOMAIN Fresh : Fresh[i].name \in {Theme, Uuid}
  BY FreshNames
<1>3. Theme # <<>> /\ Uuid # <<>> /\ Theme[1] # Uuid[1]
  <2>1. Theme[1] = "theme" /\ Uuid[1] = "uu"
    BY DEF Theme, Uuid
  <2>2. Theme # <<>> /\ Uuid # <<>>
    BY DEF Theme, Uuid
  <2>. QED BY <2>1, <2>2
<1>. HIDE DEF Fresh, Theme, Uuid
<1>. QED BY <1>1, <1>2, <1>3, FirstTokens

\* So are those of a form, and none begins like a line.
LEMMA FormClear ==
  ASSUME NEW page
  PROVE  /\ Clear(Form(page))
         /\ \A i \in DOMAIN Form(page) : Form(page)[i].name[1] \notin Openings("POST")
<1>. DEFINE m == [name |-> <<"message">>, value |-> <<"hello", "+", "world">>]
            a == [name |-> <<"account">>, value |-> <<"ann">>]
            p == [name |-> <<"password">>, value |-> <<"pass", "word">>]
            f == Form(page)
<1>1. f \in Seq(Fields(Plain)) /\ OneEach(f)
  BY FormIs, FormPlain
<1>2. f \in {<<m>>, <<a, p>>, <<>>}
  BY DEF Form
<1>3. /\ m.name[1] = "message" /\ a.name[1] = "account" /\ p.name[1] = "password"
      /\ m.name # <<>> /\ a.name # <<>> /\ p.name # <<>>
  OBVIOUS
<1>4. "message" \notin Openings("POST") /\ "account" \notin Openings("POST") /\ "password" \notin Openings("POST")
  BY DEF Openings
<1>. HIDE DEF m, a, p, f
<1>5. CASE f = <<m>>
  <2>1. DOMAIN f = {1} /\ f[1] = m
    BY <1>5
  <2>2. Clear(f)
    BY <1>1, <1>3, <2>1, FirstTokens
  <2>. QED BY <1>3, <1>4, <2>1, <2>2 DEF f
<1>6. CASE f = <<a, p>>
  <2>1. DOMAIN f = {1, 2} /\ f[1] = a /\ f[2] = p
    BY <1>6
  <2>2. \A i, j \in DOMAIN f : f[i].name[1] = f[j].name[1] => f[i].name = f[j].name
    BY <1>3, <2>1
  <2>3. \A i \in DOMAIN f : f[i].name # <<>>
    BY <1>3, <2>1
  <2>4. Clear(f)
    BY <1>1, <2>2, <2>3, FirstTokens
  <2>. QED BY <1>3, <1>4, <2>1, <2>4 DEF f
<1>7. CASE f = <<>>
  <2>1. DOMAIN f = {}
    BY <1>7
  <2>. QED BY <2>1 DEF f, Clear
<1>. QED BY <1>2, <1>5, <1>6, <1>7

\* No names are clear.
LEMMA ClearNothing == Clear(<<>>) /\ DOMAIN <<>> = {}
BY DEF Clear

\* It holds at first, and every step keeps it.
LEMMA CutFirst == Init => CutOK
<1>. SUFFICES ASSUME Init PROVE CutOK
  OBVIOUS
<1>1. sent.cookies = <<>> /\ sent.form = <<>> /\ ~down
  BY DEF Init, NoRequest
<1>. QED BY <1>1, ClearNothing DEF CutOK

\* Only Ask changes what is sent, only RespondThrows ends the process.
LEMMA CutKeeps == IInv /\ CutOK /\ [Next]_vars => CutOK'
<1>. SUFFICES ASSUME IInv, CutOK, [Next]_vars PROVE CutOK'
  OBVIOUS
<1>1. ASSUME NEW method \in Methods, NEW page \in Pages, Ask(method, page) PROVE CutOK'
  <2>1. /\ sent'.cookies = Fresh
        /\ sent'.form = IF method = "POST" THEN Form(page) ELSE <<>>
        /\ ~down'
    BY <1>1 DEF Ask
  <2>2. Clear(Fresh)
    BY FreshClear DEF IInv
  <2>3. Clear(sent'.form) /\ \A i \in DOMAIN sent'.form : sent'.form[i].name[1] \notin Openings("POST")
    BY <2>1, FormClear, ClearNothing
  <2>. QED BY <2>1, <2>2, <2>3 DEF CutOK
<1>2. ASSUME sent' = sent, down' = FALSE PROVE CutOK'
  BY <1>2 DEF CutOK
<1>3. CASE Respond
  BY <1>2, <1>3 DEF Respond, IInv, AnswerOK
<1>4. CASE RespondThrows
  BY <1>4 DEF RespondThrows, CutOK
<1>5. ASSUME sent' = sent, request' = request, down' = down PROVE CutOK'
  BY <1>5 DEF CutOK
<1>6. CASE Receive
  BY <1>5, <1>6 DEF Receive
<1>7. CASE Tick
  BY <1>5, <1>7 DEF Tick
<1>8. CASE UNCHANGED vars
  BY <1>5, <1>8 DEF vars
<1>. QED BY <1>1, <1>3, <1>4, <1>6, <1>7, <1>8 DEF Next

\* The uuid the browser sends is one the server gives.
LEMMA UuidValue ==
  ASSUME BrowserOK, Uuid \in NamesOf(Fresh)
  PROVE  ValueOf(Fresh, Uuid) \in Values
<1>1. ~ (uuid = <<>> \/ clock >= expires)
  BY FreshIs
<1>. QED BY <1>1, FreshIs DEF BrowserOK

\* The first token alone is a prefix.
LEMMA HeadPrefix ==
  ASSUME NEW v \in Seq(Token), v # <<>>
  PROVE  IsPrefix(<<v[1]>>, v)
<1>. DEFINE d == v[1]
            s == <<d>>
            y == SubSeq(v, 1, 1)
<1>1. Len(v) \in Nat \ {0} /\ d \in Token
  OBVIOUS
<1>2. y \in Seq(Token) /\ Len(y) = 1 /\ y[1] = d
  BY <1>1
<1>3. s \in Seq(Token) /\ Len(s) = 1 /\ s[1] = d
  BY <1>1
<1>. HIDE DEF y, s, d
<1>4. \A i \in 1 .. Len(y) : y[i] = s[i]
  BY <1>2, <1>3
<1>5. y = s
  BY <1>2, <1>3, <1>4, Same
<1>6. 1 \in 0 .. Len(v)
  BY <1>1
<1>7. Begins(s, v)
  BY <1>5, <1>6 DEF Begins, y
<1>8. IsPrefix(s, v)
  BY <1>7, BeginsPrefix
<1>. QED BY <1>8 DEF s, d

\* stoll reads every uuid the server gives.
LEMMA Readable ==
  ASSUME NEW v \in Values
  PROVE  /\ ~ Unreadable(v) /\ v \in Seq(Token) /\ Len(v) \in Nat \ {0}
         /\ \A i \in 1 .. Len(v) : v[i] \in Digits
<1>1. v \in Seq(Digits) /\ v # <<>> /\ Digits \subseteq Token
  BY ValuesAssumption DEF Token
<1>2. v \in Seq(Token) /\ Len(v) \in Nat \ {0} /\ \A i \in 1 .. Len(v) : v[i] \in Digits
  <2>1. v \in Seq(Token)
    BY <1>1, Wider
  <2>. QED BY <1>1, <2>1
<1>3. v[1] \in Digits
  BY <1>2
<1>4. IsPrefix(<<v[1]>>, v)
  BY <1>1, <1>2, HeadPrefix
<1>. QED BY <1>2, <1>3, <1>4 DEF Unreadable

\* Digits stoll does not read are none at all: isDigits("") is true.
LEMMA EmptyIfDigits ==
  ASSUME NEW v \in Seq(Token), isDigits(v), Unreadable(v)
  PROVE  v = <<>>
<1>. SUFFICES ASSUME v # <<>> PROVE FALSE
  OBVIOUS
<1>1. 1 \in DOMAIN v
  OBVIOUS
<1>2. v[1] \in Digits
  BY <1>1 DEF isDigits, ToSet
<1>. QED BY <1>2, HeadPrefix DEF Unreadable

\* c is a and then b.
Joined(a, b, c) ==
  /\ Len(a) \in Nat /\ Len(b) \in Nat /\ Len(c) = Len(a) + Len(b)
  /\ \A i \in 1 .. Len(a) : c[i] = a[i]
  /\ \A i \in 1 .. Len(b) : c[Len(a) + i] = b[i]

\* What \o gives.
LEMMA JoinIs ==
  ASSUME NEW T, NEW a \in Seq(T), NEW b \in Seq(T)
  PROVE  a \o b \in Seq(T) /\ Joined(a, b, a \o b)
BY DEF Joined

\* A text that ends with u, the one token in s and at most one more.
LEMMA TailOf ==
  ASSUME NEW z, NEW u, NEW s, NEW y, NEW a, NEW b, NEW r,
         Joined(u, s, a), Joined(a, y, b), Joined(z, b, r), Len(s) = 1, Len(y) <= 1
  PROVE  \/ Len(y) = 0 /\ Last(r) = s[1]
         \/ Len(y) = 1 /\ Last(r) = y[1] /\ r[Len(r) - 1] = s[1]
<1>. DEFINE k == Len(u)
            n == Len(y)
            l == Len(z)
            o == Len(s)
            p == Len(a)
            h == Len(b)
            g == Len(r)
<1>1. /\ p = k + o /\ k \in Nat /\ o \in Nat
      /\ \A i \in 1 .. o : a[k + i] = s[i]
  BY DEF Joined
<1>2. o = 1 /\ n <= 1
  OBVIOUS
<1>3. /\ h = p + n /\ p \in Nat /\ n \in Nat
      /\ (\A i \in 1 .. p : b[i] = a[i]) /\ (\A i \in 1 .. n : b[p + i] = y[i])
  BY DEF Joined
<1>4. /\ g = l + h /\ l \in Nat /\ h \in Nat
      /\ \A i \in 1 .. h : r[l + i] = b[i]
  BY DEF Joined
<1>5. Last(r) = r[g]
  BY DEF Last
<1>. HIDE DEF k, n, l, o, p, h, g
<1>6. n = 0 \/ n = 1
  BY <1>2, <1>3
<1>7. ASSUME n = 0 PROVE Last(r) = s[1]
  <2>1. h = p /\ p = k + 1 /\ h \in 1 .. h /\ p \in 1 .. p /\ 1 \in 1 .. o
    BY <1>1, <1>2, <1>3, <1>7
  <2>2. r[g] = b[h] /\ b[h] = a[p] /\ a[p] = s[1]
    BY <1>1, <1>3, <1>4, <2>1
  <2>. QED BY <1>5, <2>2
<1>8. ASSUME n = 1 PROVE Last(r) = y[1] /\ r[g - 1] = s[1]
  <2>1. /\ h = p + 1 /\ p = k + 1 /\ h \in 1 .. h /\ p \in 1 .. h /\ p \in 1 .. p
        /\ 1 \in 1 .. o /\ 1 \in 1 .. n
    BY <1>1, <1>2, <1>3, <1>8
  <2>2. r[g] = b[h] /\ b[h] = y[1]
    BY <1>3, <1>4, <2>1
  <2>3. g - 1 = l + p
    BY <1>4, <2>1, <1>3
  <2>4. r[l + p] = b[p] /\ b[p] = a[p] /\ a[p] = s[1]
    BY <1>1, <1>3, <1>4, <2>1
  <2>. QED BY <1>5, <2>2, <2>3, <2>4
<1>9. \/ n = 0 /\ Last(r) = s[1]
      \/ n = 1 /\ Last(r) = y[1] /\ r[g - 1] = s[1]
  BY <1>6, <1>7, <1>8
<1>. QED BY <1>9 DEF g, n

\* Nothing is left without the last token: there was at most one.
LEMMA Shortest ==
  ASSUME NEW T, NEW y \in Seq(T), SubSeq(y, 1, Len(y) - 1) = <<>>
  PROVE  Len(y) <= 1
<1>. DEFINE x == SubSeq(y, 1, Len(y) - 1)
            k == Len(y)
            h == Len(x)
<1>1. k \in Nat /\ (k > 1 => h = k - 1)
  OBVIOUS
<1>2. h = 0
  <2>1. Len(<<>>) = 0
    OBVIOUS
  <2>. QED BY <2>1, Zenon
<1>3. k <= 1
  <2>. HIDE DEF k, h
  <2>. QED BY <1>1, <1>2
<1>. QED BY <1>3 DEF k

\* A handler throws only for a uuid of which a cut left one token or none.
LEMMA ThrowsHolds == IInv /\ CutOK => ThrowsOnlyOnCutCookie
<1>. SUFFICES ASSUME IInv, CutOK, down PROVE ~Whole /\ (\/ Last(request) = "="
                                                        \/ Last(request) \in Digits /\ request[Len(request) - 1] = "=")
  BY DEF ThrowsOnlyOnCutCookie
<1>. DEFINE cs == sent.cookies
            fs == sent.form
            p == parseHttpRequest(request)
            f == p.cookie
<1>1. /\ request # <<>> /\ Throws(p) /\ cs = Fresh /\ BrowserOK
      /\ cs \in Seq(Fields(Plain)) /\ fs \in Seq(Fields(Plain)) /\ Clear(cs) /\ Clear(fs)
      /\ OneEach(cs) /\ OneEach(fs) /\ Question(sent) /\ Begins(request, Format(sent))
  <2>1. /\ cs \in Seq(Fields(Plain)) /\ fs \in Seq(Fields(Plain)) /\ Clear(cs) /\ Clear(fs)
        /\ OneEach(cs) /\ OneEach(fs) /\ BrowserOK
    BY FormPlain DEF IInv, AskedOK, CutOK, Question
  <2>2. request # <<>> /\ Throws(p)
    BY DEF CutOK
  <2>3. cs = Fresh /\ Question(sent) /\ Begins(request, Format(sent))
    BY <2>2 DEF IInv, AskedOK, Begins
  <2>. QED BY <2>1, <2>2, <2>3
<1>2. /\ CookiesKnown(cs, f, request)
      /\ \/ \A n \in DOMAIN p.form : n # <<>> /\ n[1] \in Openings("POST")
         \/ f = FirstOfEach(cs) /\ FieldsKnown(fs, p.form)
  BY <1>1, ParsedCut
<1>3. PICK v \in Cookies(p) :
        /\ Unreadable(v)
        /\ \/ isDigits(v)
           \/ HasFields(p, {"message"})
  BY <1>1 DEF Throws
<1>4. Uuid \in DOMAIN f /\ v = f[Uuid]
  BY <1>3 DEF Cookies
<1>. HIDE DEF p
<1>. HIDE DEF f, cs, fs
<1>5. Uuid \in NamesOf(cs) /\ ValueOf(cs, Uuid) \in Values
  <2>1. PICK i \in DOMAIN cs : Begins(Uuid, cs[i].name)
    BY <1>2, <1>4 DEF CookiesKnown, Knows
  <2>2. cs[i].name \in {Theme, Uuid}
    BY <1>1, FreshNames
  <2>3. ~ Begins(Uuid, Theme)
    <3>1. Uuid # <<>> /\ Uuid[1] = "uu" /\ Theme[1] = "theme" /\ Theme \in Seq(Token)
      BY Literal, PlainTokens DEF Uuid, Theme
    <3>. HIDE DEF Uuid, Theme
    <3>. QED BY <3>1, BeginsFirst
  <2>4. cs[i].name = Uuid
    BY <2>1, <2>2, <2>3
  <2>5. Uuid \in NamesOf(cs)
    BY <2>4 DEF NamesOf
  <2>. QED BY <1>1, <2>5, UuidValue
<1>. DEFINE w == ValueOf(cs, Uuid)
<1>6. ~ Unreadable(w) /\ w \in Seq(Token) /\ Len(w) \in Nat \ {0} /\ \A i \in 1 .. Len(w) : w[i] \in Digits
  BY <1>5, Readable
<1>7. ~Whole
  <2>. SUFFICES ASSUME Whole PROVE FALSE
    OBVIOUS
  <2>1. f = [n \in NamesOf(cs) |-> ValueOf(cs, n)]
    BY <1>1, WholeRead DEF Whole, f, p, cs, fs
  <2>. QED BY <1>3, <1>4, <1>5, <1>6, <2>1
<1>8. v # w
  BY <1>3, <1>6
<1>9. HasFields(p, {"message"}) => f # FirstOfEach(cs) /\ FALSE
  <2>. SUFFICES ASSUME HasFields(p, {"message"}) PROVE FALSE
    OBVIOUS
  <2>1. <<"message">> \in DOMAIN p.form
    BY DEF HasFields
  <2>2. "message" \notin Openings("POST")
    BY DEF Openings
  <2>3. <<"message">>[1] = "message"
    OBVIOUS
  <2>4. f = FirstOfEach(cs)
    BY <1>2, <2>1, <2>2, <2>3
  <2>5. PICK i \in DOMAIN cs : cs[i].name = Uuid
    BY <1>5 DEF NamesOf
  <2>6. f[Uuid] = cs[i].value /\ w = cs[i].value
    BY <1>1, <2>4, <2>5, FirstsAt, ValueAt
  <2>. QED BY <1>4, <1>8, <2>6
<1>10. isDigits(v)
  BY <1>3, <1>9
<1>11. PICK m \in 0 .. Len(cs) : \E x : Knows(cs, f, m, x) /\ (m > 0 => CutValue(cs[m], x, request))
  BY <1>2 DEF CookiesKnown
<1>12. PICK x : Knows(cs, f, m, x) /\ (m > 0 => CutValue(cs[m], x, request))
  BY <1>11
<1>13. m > 0 /\ m \in DOMAIN cs /\ cs[m].name = Uuid /\ cs[m].value = w /\ v = x
  <2>1. Uuid \in {cs[i].name : i \in 1 .. m}
    BY <1>4, <1>5, <1>12 DEF Knows
  <2>2. PICK i \in 1 .. m : cs[i].name = Uuid
    BY <2>1
  <2>3. i \in DOMAIN cs /\ m > 0 /\ m \in DOMAIN cs
    BY <1>1, <1>11, <2>2, ClearNames
  <2>4. w = cs[i].value
    BY <1>1, <2>2, <2>3, ValueAt
  <2>5. i = m
    <3>. SUFFICES ASSUME i < m PROVE FALSE
      BY <2>2, <2>3
    <3>1. f[Uuid] = cs[i].value
      BY <1>12, <2>2 DEF Knows
    <3>. QED BY <1>4, <1>8, <2>4, <3>1
  <2>6. f[Uuid] = x
    BY <1>12, <2>2, <2>3, <2>5 DEF Knows
  <2>. QED BY <1>4, <2>2, <2>3, <2>4, <2>5, <2>6
<1>14. CutValue(cs[m], v, request)
  BY <1>12, <1>13
<1>15. PICK y \in Seq(Token), z \in Seq(Token) :
         /\ Begins(y, w) /\ v = SubSeq(y, 1, Len(y) - 1)
         /\ request = z \o (Uuid \o <<"=">> \o y)
  <2>. SUFFICES ASSUME v = SubSeq(Uuid, 1, Len(Uuid) - 1) PROVE FALSE
    BY <1>8, <1>13, <1>14 DEF CutValue
  <2>1. Len(v) = 1 /\ v \in Seq(Token)
    <3>1. Uuid \in Seq(Token) /\ Len(Uuid) = 2
      BY PlainTokens, Literal DEF Uuid
    <3>. HIDE DEF Uuid
    <3>. QED BY <3>1
  <2>2. v = <<>>
    BY <1>3, <1>10, <2>1, EmptyIfDigits
  <2>3. Len(<<>>) = 0
    OBVIOUS
  <2>4. Len(v) = Len(<<>>)
    BY ONLY <2>2
  <2>. QED BY <2>1, <2>3, <2>4
<1>16. v = <<>>
  <2>1. v \in Seq(Token)
    BY <1>15
  <2>. QED BY <1>3, <1>10, <2>1, EmptyIfDigits
<1>17. Len(y) <= 1
  <2>1. SubSeq(y, 1, Len(y) - 1) = <<>>
    BY <1>15, <1>16
  <2>. QED BY <2>1, Shortest
<1>18. \/ Len(y) = 0 /\ Last(request) = "="
       \/ Len(y) = 1 /\ Last(request) = y[1] /\ request[Len(request) - 1] = "="
  <2>. DEFINE u == Uuid
              s == <<"=">>
  <2>1. u \in Seq(Token) /\ s \in Seq(Token) /\ Len(s) = 1 /\ s[1] = "="
    BY PlainTokens, Literal DEF Uuid
  <2>. DEFINE a == u \o s
              b == a \o y
  <2>2. request = z \o b /\ y \in Seq(Token) /\ z \in Seq(Token)
    BY <1>15
  <2>. HIDE DEF u, s
  <2>3. a \in Seq(Token) /\ Joined(u, s, a)
    BY <2>1, JoinIs
  <2>. HIDE DEF a
  <2>4. b \in Seq(Token) /\ Joined(a, y, b)
    BY <2>2, <2>3, JoinIs
  <2>. HIDE DEF b
  <2>5. Joined(z, b, request)
    BY <2>2, <2>4, JoinIs
  <2>. QED BY <1>17, <2>1, <2>3, <2>4, <2>5, TailOf
<1>19. Len(y) = 1 => y[1] \in Digits
  <2>. HIDE DEF w
  <2>. SUFFICES ASSUME Len(y) = 1 PROVE y[1] \in Digits
    OBVIOUS
  <2>1. y[1] = w[1]
    BY <1>6, <1>15, BeginsFirst
  <2>. QED BY <1>6, <2>1
<1>. QED BY <1>7, <1>18, <1>19

\* Both invariants hold always.
THEOREM CutInvariant == Spec => [](IInv /\ CutOK)
<1>1. Init => IInv /\ CutOK
  BY First, CutFirst
<1>2. IInv /\ CutOK /\ [Next]_vars => (IInv /\ CutOK)'
  BY Keeps, CutKeeps
<1>. QED BY <1>1, <1>2, PTL DEF Spec

\* When recv returned the first tokens of a request, parseHttpRequest finds the
\* first cookies and fields with their values, all but the last one it knows, and
\* no field unless it knows all cookies.
THEOREM OnlyLastCut == Spec => []OnlyTheLastIsCut
<1>1. IInv /\ CutOK => OnlyTheLastIsCut
  BY CutHolds
<1>. QED BY <1>1, CutInvariant, PTL

\* A pool thread ends by an exception of stoll only for a request that
\* ends in the uuid cookie, right after its equals sign or one digit.
THEOREM ThrowsOnlyCut == Spec => []ThrowsOnlyOnCutCookie
<1>1. IInv /\ CutOK => ThrowsOnlyOnCutCookie
  BY ThrowsHolds
<1>. QED BY <1>1, CutInvariant, PTL
===============================================================================
