------------------------ MODULE ClientProgramProofs -------------------------
(***************************************************************************)
(* What a client that keeps its connection and leaves nothing early may    *)
(* rely on, for any number of races, tables, maps and events under way.    *)
(*                                                                         *)
(* The client knows neither the phase of its game nor its seat: it counts  *)
(* the events it hears.  So the invariant says where the events under way  *)
(* lead: the place of the client's windows (ClientAt), moved by each event *)
(* that still comes, ends at the place of the server (ServerAt).           *)
(*                                                                         *)
(* First, that each side reads what the other meant.  A message is a       *)
(* sequence of fields, and the lists in it make its length unbounded: so   *)
(* each lemma says at which offset a piece stands (HasAt), and the reader, *)
(* that counts the fields, finds it there.                                 *)
(***************************************************************************)
EXTENDS ClientProgram, SequenceTheorems, WellFoundedInduction, TLAPS

-----------------------------------------------------------------------------
\* Every set of numbers has a least one.
LEMMA LeastNumber ==
  ASSUME NEW S, S \subseteq Nat, S # {}
  PROVE  LET it == CHOOSE i \in S : \A j \in S : i <= j
         IN  it \in S /\ \A j \in S : it <= j
<1> DEFINE less == OpToRel(<, Nat)
<1>1. IsWellFoundedOn(less, Nat)
  BY NatLessThanWellFounded, Zenon
<1>2. \A j, k \in Nat : j < k => <<j, k>> \in less
  BY DEF OpToRel
<1> HIDE DEF less
<1>3. PICK k \in S : \A j \in S : <<j, k>> \notin less
  BY <1>1, WFMin, Zenon
<1>4. ASSUME NEW j \in S PROVE k <= j
  <2>1. j \in Nat /\ k \in Nat /\ ~(j < k)
    BY <1>2, <1>3
  <2> QED
    BY <2>1
<1> QED
  BY <1>4

\* Induction, over a set of numbers.
LEMMA FromZero ==
  ASSUME NEW S, 0 \in S, \A n \in Nat : n \in S => n + 1 \in S
  PROVE  \A n \in Nat : n \in S
<1> SUFFICES ASSUME Nat \ S # {} PROVE FALSE
  OBVIOUS
<1> DEFINE it == CHOOSE i \in Nat \ S : \A j \in Nat \ S : i <= j
<1>1. it \in Nat \ S /\ \A j \in Nat \ S : it <= j
  BY LeastNumber
<1> HIDE DEF it
<1>2. it - 1 \in Nat /\ it = (it - 1) + 1
  BY <1>1
<1>3. it - 1 \in S
  BY <1>1, <1>2
<1> QED
  BY <1>1, <1>2, <1>3

-----------------------------------------------------------------------------
\* What stands where in two sequences put together.
LEMMA ConcatAt ==
  ASSUME NEW E, NEW a \in Seq(E), NEW b \in Seq(E)
  PROVE  /\ a \o b \in Seq(E) /\ Len(a) \in Nat /\ Len(b) \in Nat /\ Len(a \o b) = Len(a) + Len(b)
         /\ \A i \in 1 .. Len(a) : i \in 1 .. Len(a \o b) /\ (a \o b)[i] = a[i]
         /\ \A i \in 1 .. Len(b) :
              Len(a) + i \in 1 .. Len(a \o b) /\ (a \o b)[Len(a) + i] = b[i]
<1> DEFINE c == a \o b
<1>1. Len(a) \in Nat /\ Len(b) \in Nat
  BY LenProperties
<1>2. /\ c \in Seq(E) /\ Len(c) = Len(a) + Len(b)
      /\ \A i \in 1 .. Len(a) + Len(b) : c[i] = IF i <= Len(a) THEN a[i] ELSE b[i - Len(a)]
  BY ConcatProperties
<1> HIDE DEF c
<1>3. ASSUME NEW i \in 1 .. Len(a) PROVE i \in 1 .. Len(c) /\ c[i] = a[i]
  <2>1. i \in 1 .. Len(a) + Len(b) /\ i <= Len(a)
    BY <1>1
  <2> QED
    BY <2>1, <1>2
<1>4. ASSUME NEW i \in 1 .. Len(b) PROVE Len(a) + i \in 1 .. Len(c) /\ c[Len(a) + i] = b[i]
  <2>1. Len(a) + i \in 1 .. Len(a) + Len(b) /\ ~(Len(a) + i <= Len(a)) /\ (Len(a) + i) - Len(a) = i
    BY <1>1
  <2> QED
    BY <2>1, <1>2
<1> QED
  BY <1>1, <1>2, <1>3, <1>4 DEF c

-----------------------------------------------------------------------------
\* The equation of FlattenSeq.
Flattens(f, s, n) == f = [i \in 1 .. n |-> IF i = 1 THEN s[i] ELSE f[i - 1] \o s[i]]

\* It has a solution.
LEMMA FlattenExists ==
  ASSUME NEW E, NEW s \in Seq(Seq(E))
  PROVE  \E f \in [1 .. Len(s) -> Seq(E)] : Flattens(f, s, Len(s))
<1> DEFINE S == {n \in Nat : n <= Len(s) => \E f \in [1 .. n -> Seq(E)] : Flattens(f, s, n)}
<1>0. Len(s) \in Nat /\ \A i \in 1 .. Len(s) : s[i] \in Seq(E)
  BY LenProperties
<1>1. 0 \in S
  <2> DEFINE f == [i \in 1 .. 0 |-> <<>>]
  <2>1. f \in [1 .. 0 -> Seq(E)] /\ Flattens(f, s, 0)
    BY DEF Flattens
  <2> QED
    BY <2>1
<1>2. ASSUME NEW n \in Nat, n \in S PROVE n + 1 \in S
  <2> SUFFICES ASSUME n + 1 <= Len(s) PROVE \E f \in [1 .. n + 1 -> Seq(E)] : Flattens(f, s, n + 1)
    OBVIOUS
  <2>1. PICK f \in [1 .. n -> Seq(E)] : Flattens(f, s, n)
    BY <1>0, <1>2
  <2> DEFINE g == [i \in 1 .. n + 1 |-> IF i <= n THEN f[i] ELSE IF n = 0 THEN s[1] ELSE f[n] \o s[n + 1]]
  <2>2. s[n + 1] \in Seq(E) /\ s[1] \in Seq(E)
    BY <1>0
  <2>3. n # 0 => f[n] \in Seq(E) /\ f[n] \o s[n + 1] \in Seq(E)
    BY <2>2, ConcatProperties
  <2>4. g \in [1 .. n + 1 -> Seq(E)]
    BY <2>2, <2>3
  <2>5. \A i \in 1 .. n : f[i] = IF i = 1 THEN s[i] ELSE f[i - 1] \o s[i]
    BY <2>1 DEF Flattens
  <2>6. ASSUME NEW i \in 1 .. n + 1 PROVE g[i] = IF i = 1 THEN s[i] ELSE g[i - 1] \o s[i]
    <3>1. CASE i <= n
      <4>1. i \in 1 .. n /\ (i # 1 => i - 1 \in 1 .. n)
        BY <3>1
      <4>2. g[i] = f[i] /\ (i # 1 => g[i - 1] = f[i - 1])
        BY <4>1
      <4>3. f[i] = IF i = 1 THEN s[i] ELSE f[i - 1] \o s[i]
        BY <4>1, <2>5
      <4> QED
        BY <4>2, <4>3, Zenon
    <3>2. CASE ~(i <= n)
      <4>1. i = n + 1 /\ (n # 0 => i # 1 /\ i - 1 = n /\ n \in 1 .. n)
        BY <3>2
      <4>2. CASE n = 0
        BY <4>1, <4>2
      <4>3. CASE n # 0
        <5>1. g[n] = f[n] /\ g[n + 1] = f[n] \o s[n + 1]
          BY <4>3, <4>1
        <5> QED
          BY <5>1, <4>1, <4>3
      <4> QED
        BY <4>2, <4>3
    <3> QED
      BY <3>1, <3>2
  <2>7. Flattens(g, s, n + 1)
    <3> HIDE DEF g
    <3>1. DOMAIN g = 1 .. n + 1 /\ g = [i \in 1 .. n + 1 |-> g[i]]
      BY <2>4
    <3>2. g = [i \in 1 .. n + 1 |-> IF i = 1 THEN s[i] ELSE g[i - 1] \o s[i]]
      BY <3>1, <2>6
    <3> QED
      BY <3>2 DEF Flattens
  <2> QED
    BY <2>4, <2>7
<1>3. Len(s) \in S
  <2> HIDE DEF S
  <2> QED
    BY <1>0, <1>1, <1>2, FromZero
<1> QED
  BY <1>3, <1>0

\* FlattenSeq solves it.
LEMMA FlattenIs ==
  ASSUME NEW E, NEW s \in Seq(Seq(E)), s # <<>>
  PROVE  \E f : Flattens(f, s, Len(s)) /\ FlattenSeq(s) = f[Len(s)]
<1> DEFINE Eq(g) == g = [i \in 1 .. Len(s) |-> IF i = 1 THEN s[i] ELSE g[i - 1] \o s[i]]
           it == CHOOSE g : Eq(g)
<1>1. \E f : Eq(f)
  <2>1. PICK f : Flattens(f, s, Len(s))
    BY FlattenExists
  <2> QED
    BY <2>1 DEF Flattens
<1>2. Eq(it)
  <2> HIDE DEF Eq
  <2> QED
    BY <1>1
<1>3. Len(s) # 0
  BY EmptySeq
<1>4. FlattenSeq(s) = it[Len(s)]
  BY <1>3, Zenon DEF FlattenSeq
<1> QED
  BY <1>2, <1>4 DEF Flattens

\* Where the parts of a sequence of sequences come to lie in it.
Offsets(off, s) ==
  /\ off \in [0 .. Len(s) -> Nat] /\ off[0] = 0
  /\ \A i \in 1 .. Len(s) : off[i] = off[i - 1] + Len(s[i])
LaidOut(t, off, s) ==
  /\ Len(t) = off[Len(s)]
  /\ \A i \in 1 .. Len(s) : \A j \in 1 .. Len(s[i]) :
       off[i - 1] + j \in 1 .. Len(t) /\ t[off[i - 1] + j] = s[i][j]

\* FlattenSeq lays its parts out one after the other.
LEMMA Flattened ==
  ASSUME NEW E, NEW s \in Seq(Seq(E))
  PROVE  FlattenSeq(s) \in Seq(E) /\ \E off : Offsets(off, s) /\ LaidOut(FlattenSeq(s), off, s)
<1> DEFINE n == Len(s)
<1>0. n \in Nat /\ \A i \in 1 .. n : s[i] \in Seq(E) /\ Len(s[i]) \in Nat
  BY LenProperties
<1>1. CASE s = <<>>
  <2> DEFINE off == [i \in 0 .. 0 |-> 0]
  <2>1. n = 0
    BY <1>1
  <2>2. FlattenSeq(s) = <<>>
    BY <1>1, <2>1 DEF FlattenSeq
  <2>3. Offsets(off, s)
    BY <2>1 DEF Offsets
  <2>4. LaidOut(<<>>, off, s)
    BY <2>1 DEF LaidOut
  <2> QED
    BY <2>2, <2>3, <2>4, EmptySeq
<1>2. CASE s # <<>>
  <2>1. PICK f : Flattens(f, s, n) /\ FlattenSeq(s) = f[n]
    BY <1>2, FlattenIs
  <2>2. n >= 1
    BY <1>0, <1>2, EmptySeq
  <2>3. \A i \in 1 .. n : f[i] = IF i = 1 THEN s[i] ELSE f[i - 1] \o s[i]
    BY <2>1 DEF Flattens
  <2> DEFINE off == [i \in 0 .. n |-> IF i = 0 THEN 0 ELSE Len(f[i])]
             Laid(k) ==
               /\ f[k] \in Seq(E)
               /\ off[k] = off[k - 1] + Len(s[k])
               /\ \A i \in 1 .. k : \A j \in 1 .. Len(s[i]) :
                    off[i - 1] + j \in 1 .. Len(f[k]) /\ f[k][off[i - 1] + j] = s[i][j]
             S == {k \in Nat : k + 1 <= n => Laid(k + 1)}
  <2>4. Laid(1)
    <3>1. f[1] = s[1] /\ s[1] \in Seq(E) /\ off[1] = Len(s[1]) /\ off[0] = 0 /\ 1 - 1 = 0
      BY <2>2, <2>3, <1>0
    <3>2. off[1] = off[0] + Len(s[1])
      BY <3>1, <1>0, <2>2
    <3>3. ASSUME NEW i \in 1 .. 1, NEW j \in 1 .. Len(s[i])
          PROVE off[i - 1] + j \in 1 .. Len(f[1]) /\ f[1][off[i - 1] + j] = s[i][j]
      <4>1. i = 1 /\ i - 1 = 0 /\ off[i - 1] = 0 /\ off[i - 1] + j = j
        BY <3>1
      <4> QED
        BY <4>1, <3>1
    <3> QED
      BY <3>1, <3>2, <3>3
  <2>5. ASSUME NEW k \in 1 .. n, k + 1 <= n, Laid(k) PROVE Laid(k + 1)
    <3>1. /\ k + 1 \in 1 .. n /\ k + 1 # 1 /\ (k + 1) - 1 = k /\ s[k + 1] \in Seq(E) /\ f[k] \in Seq(E)
          /\ off[k] = Len(f[k]) /\ off[k + 1] = Len(f[k + 1])
      BY <2>5, <1>0
    <3>2. f[k + 1] = f[k] \o s[k + 1]
      BY <3>1, <2>3
    <3>3. /\ f[k + 1] \in Seq(E) /\ Len(f[k]) \in Nat /\ Len(s[k + 1]) \in Nat
          /\ Len(f[k + 1]) = Len(f[k]) + Len(s[k + 1])
          /\ \A j \in 1 .. Len(f[k]) : j \in 1 .. Len(f[k + 1]) /\ f[k + 1][j] = f[k][j]
          /\ \A j \in 1 .. Len(s[k + 1]) :
               Len(f[k]) + j \in 1 .. Len(f[k + 1]) /\ f[k + 1][Len(f[k]) + j] = s[k + 1][j]
      <4>1. f[k] \in Seq(E) /\ s[k + 1] \in Seq(E)
        BY <3>1
      <4> DEFINE a == f[k]
                 b == s[k + 1]
      <4> HIDE DEF Laid, off, a, b
      <4>2. a \in Seq(E) /\ b \in Seq(E)
        BY <4>1 DEF a, b
      <4>3. /\ a \o b \in Seq(E) /\ Len(a) \in Nat /\ Len(b) \in Nat /\ Len(a \o b) = Len(a) + Len(b)
            /\ \A i \in 1 .. Len(a) : i \in 1 .. Len(a \o b) /\ (a \o b)[i] = a[i]
            /\ \A i \in 1 .. Len(b) :
                 Len(a) + i \in 1 .. Len(a \o b) /\ (a \o b)[Len(a) + i] = b[i]
        BY <4>2, ConcatAt
      <4>4. f[k + 1] = a \o b
        BY <3>2 DEF a, b
      <4> QED
        BY <4>3, <4>4, Zenon DEF a, b
    <3>4. ASSUME NEW i \in 1 .. k + 1, NEW j \in 1 .. Len(s[i])
          PROVE off[i - 1] + j \in 1 .. Len(f[k + 1]) /\ f[k + 1][off[i - 1] + j] = s[i][j]
      <4>1. CASE i \in 1 .. k
        <5>1. off[i - 1] + j \in 1 .. Len(f[k]) /\ f[k][off[i - 1] + j] = s[i][j]
          BY <4>1, <2>5
        <5> HIDE DEF off
        <5>2. off[i - 1] + j \in 1 .. Len(f[k + 1])
          BY <5>1, <3>3
        <5>3. f[k + 1][off[i - 1] + j] = f[k][off[i - 1] + j]
          BY <5>1, <3>3
        <5> QED
          BY <5>1, <5>2, <5>3
      <4>2. CASE i = k + 1
        <5>1. off[i - 1] = Len(f[k])
          BY <4>2, <3>1
        <5> HIDE DEF off
        <5>2. j \in 1 .. Len(s[k + 1])
          BY <4>2
        <5> QED
          BY <5>1, <5>2, <4>2, <3>3
      <4> QED
        BY <4>1, <4>2
    <3> QED
      BY <3>1, <3>3, <3>4
  <2>6. 0 \in S
    <3> HIDE DEF Laid
    <3> QED
      BY <2>4
  <2>7. ASSUME NEW k \in Nat, k \in S PROVE k + 1 \in S
    <3> SUFFICES ASSUME (k + 1) + 1 <= n PROVE Laid((k + 1) + 1)
      OBVIOUS
    <3>1. k + 1 \in 1 .. n /\ k + 1 <= n
      BY <1>0
    <3>2. Laid(k + 1)
      BY <3>1, <2>7
    <3> QED
      BY <3>1, <3>2, <2>5
  <2>8. \A k \in Nat : k \in S
    <3> HIDE DEF S
    <3> QED
      BY <2>6, <2>7, FromZero
  <2>9. ASSUME NEW k \in 1 .. n PROVE Laid(k)
    <3>1. k - 1 \in Nat /\ (k - 1) + 1 = k /\ k <= n
      BY <1>0
    <3>2. k - 1 \in S
      BY <3>1, <2>8
    <3> QED
      BY <3>1, <3>2
  <2>10. Offsets(off, s)
    <3>1. ASSUME NEW k \in 1 .. n PROVE off[k] = off[k - 1] + Len(s[k])
      BY <2>9
    <3>2. ASSUME NEW k \in 0 .. n PROVE off[k] \in Nat
      <4>1. CASE k = 0
        BY <4>1
      <4>2. CASE k # 0
        <5>1. k \in 1 .. n
          BY <4>2
        <5>2. f[k] \in Seq(E)
          BY <5>1, <2>9
        <5> QED
          BY <5>2, <4>2, LenProperties
      <4> QED
        BY <4>1, <4>2
    <3>3. off[0] = 0
      BY <1>0
    <3>4. off \in [0 .. n -> Nat]
      BY <3>2
    <3> QED
      BY <3>1, <3>3, <3>4 DEF Offsets
  <2>11. n \in 1 .. n /\ off[n] = Len(f[n])
    BY <2>2, <1>0
  <2>12. Laid(n)
    BY <2>9, <2>11
  <2>13. LaidOut(f[n], off, s) /\ f[n] \in Seq(E)
    BY <2>11, <2>12 DEF LaidOut
  <2> QED
    BY <2>1, <2>10, <2>13
<1> QED
  BY <1>1, <1>2

-----------------------------------------------------------------------------
\* The fields of all messages, and that the fields s stand in m from the p-th on.
AllFields == Int \X (Int \cup DOMAIN NameLength)
HasAt(m, p, s) == \A j \in 1 .. Len(s) : p + j - 1 \in 1 .. Len(m) /\ m[p + j - 1] = s[j]

\* Two pieces of a message stand one after the other.
LEMMA HasPieces ==
  ASSUME NEW a \in Seq(AllFields), NEW b \in Seq(AllFields), NEW m, m = a \o b
  PROVE  /\ m \in Seq(AllFields) /\ Len(a) \in Nat /\ Len(b) \in Nat /\ Len(m) = Len(a) + Len(b)
         /\ HasAt(m, 1, a) /\ HasAt(m, Len(a) + 1, b)
<1>1. /\ m \in Seq(AllFields) /\ Len(a) \in Nat /\ Len(b) \in Nat /\ Len(m) = Len(a) + Len(b)
      /\ \A i \in 1 .. Len(a) : i \in 1 .. Len(m) /\ m[i] = a[i]
      /\ \A i \in 1 .. Len(b) : Len(a) + i \in 1 .. Len(m) /\ m[Len(a) + i] = b[i]
  BY ConcatAt
<1>2. \A i \in 1 .. Len(a) : 1 + i - 1 = i
  BY <1>1
<1>3. \A i \in 1 .. Len(b) : Len(a) + 1 + i - 1 = Len(a) + i
  BY <1>1
<1> QED
  BY <1>1, <1>2, <1>3 DEF HasAt

\* A piece of a piece.
LEMMA HasWithin ==
  ASSUME NEW m, NEW t, NEW s, NEW p \in Int, NEW q \in Int, Len(s) \in Nat, Len(t) \in Nat,
         HasAt(m, p, t), HasAt(t, q, s)
  PROVE  HasAt(m, p + q - 1, s)
<1>1. ASSUME NEW j \in 1 .. Len(s)
      PROVE  p + q - 1 + j - 1 \in 1 .. Len(m) /\ m[p + q - 1 + j - 1] = s[j]
  <2>1. q + j - 1 \in 1 .. Len(t) /\ t[q + j - 1] = s[j]
    BY DEF HasAt
  <2>2. p + (q + j - 1) - 1 \in 1 .. Len(m) /\ m[p + (q + j - 1) - 1] = t[q + j - 1]
    BY <2>1 DEF HasAt
  <2>3. p + (q + j - 1) - 1 = p + q - 1 + j - 1
    OBVIOUS
  <2> QED
    BY <2>1, <2>2, <2>3
<1> QED
  BY <1>1 DEF HasAt

\* What is written is read.
LEMMA ReadHas ==
  ASSUME NEW m \in Seq(AllFields), NEW p \in Int, NEW s, NEW j \in 1 .. Len(s), Len(s) \in Nat,
         HasAt(m, p, s), NEW w, NEW v, s[j] = <<w, v>>
  PROVE  Read(m, p + j - 1, w) = v
<1>1. p + j - 1 \in 1 .. Len(m) /\ m[p + j - 1] = <<w, v>>
  BY DEF HasAt
<1>2. DOMAIN m = 1 .. Len(m)
  BY LenProperties
<1> QED
  BY <1>1, <1>2 DEF Read

\* A row of fields is read back, value for value.
LEMMA ReadRow ==
  ASSUME NEW m \in Seq(AllFields), NEW p \in Int, NEW n \in Nat, NEW widths \in [1 .. n -> Int],
         NEW values \in [1 .. n -> Int], NEW s, Len(s) = n, \A j \in 1 .. n : s[j] = <<widths[j], values[j]>>,
         HasAt(m, p, s)
  PROVE  ReadAll(m, p, widths) = values
<1>1. ASSUME NEW j \in 1 .. n PROVE Read(m, p + j - 1, widths[j]) = values[j]
  <2>1. j \in 1 .. Len(s) /\ s[j] = <<widths[j], values[j]>>
    OBVIOUS
  <2>2. p + j - 1 \in 1 .. Len(m) /\ m[p + j - 1] = <<widths[j], values[j]>>
    BY <2>1 DEF HasAt
  <2>3. DOMAIN m = 1 .. Len(m)
    BY LenProperties
  <2> QED
    BY <2>2, <2>3 DEF Read
<1>2. DOMAIN widths = 1 .. n /\ values = [j \in 1 .. n |-> values[j]]
  OBVIOUS
<1> QED
  BY <1>1, <1>2 DEF ReadAll

-----------------------------------------------------------------------------
\* The pieces that Joined lays out, where they stand and where each ends.
LEMMA JoinedPieces ==
  ASSUME NEW s \in Seq(Seq(AllFields)), NEW t, t = FlattenSeq(s)
  PROVE  /\ t \in Seq(AllFields)
         /\ \E off \in [0 .. Len(s) -> Nat] :
              /\ off[0] = 0 /\ Len(t) = off[Len(s)]
              /\ \A i \in 1 .. Len(s) : /\ off[i] = off[i - 1] + Len(s[i])
                                        /\ HasAt(t, off[i - 1] + 1, s[i])
<1>1. PICK off : Offsets(off, s) /\ LaidOut(t, off, s)
  BY Flattened
<1>2. t \in Seq(AllFields)
  BY Flattened
<1>3. Len(s) \in Nat /\ \A i \in 1 .. Len(s) : i - 1 \in 0 .. Len(s) /\ s[i] \in Seq(AllFields)
  BY LenProperties
<1>4. off \in [0 .. Len(s) -> Nat] /\ off[0] = 0 /\ Len(t) = off[Len(s)]
  BY <1>1 DEF Offsets, LaidOut
<1>5. ASSUME NEW i \in 1 .. Len(s) PROVE off[i] = off[i - 1] + Len(s[i]) /\ HasAt(t, off[i - 1] + 1, s[i])
  <2>1. off[i - 1] \in Nat /\ Len(s[i]) \in Nat
    BY <1>3, <1>4, LenProperties
  <2>2. \A j \in 1 .. Len(s[i]) : off[i - 1] + 1 + j - 1 = off[i - 1] + j
    BY <2>1
  <2> QED
    BY <2>2, <1>1 DEF Offsets, LaidOut, HasAt
<1> QED
  BY <1>2, <1>4, <1>5

\* Pieces of one length w: a name and a byte, a corner, a row, a car of the traffic.
LEMMA EvenPieces ==
  ASSUME NEW w \in {2, 3, 5, 6}, NEW s \in Seq(Seq(AllFields)), \A i \in 1 .. Len(s) : Len(s[i]) = w,
         NEW t, t = FlattenSeq(s)
  PROVE  /\ t \in Seq(AllFields) /\ Len(t) = w * Len(s)
         /\ \A i \in 1 .. Len(s) : HasAt(t, w * (i - 1) + 1, s[i])
<1>1. PICK off \in [0 .. Len(s) -> Nat] :
        /\ off[0] = 0 /\ Len(t) = off[Len(s)]
        /\ \A i \in 1 .. Len(s) : off[i] = off[i - 1] + Len(s[i]) /\ HasAt(t, off[i - 1] + 1, s[i])
  BY JoinedPieces
<1> DEFINE S == {k \in Nat : k <= Len(s) => off[k] = w * k}
<1>2. Len(s) \in Nat
  BY LenProperties
<1>3. 0 \in S
  BY <1>1
<1>4. ASSUME NEW k \in Nat, k \in S PROVE k + 1 \in S
  <2> SUFFICES ASSUME k + 1 <= Len(s) PROVE off[k + 1] = w * (k + 1)
    OBVIOUS
  <2>1. k + 1 \in 1 .. Len(s) /\ (k + 1) - 1 = k /\ k <= Len(s)
    BY <1>2
  <2>2. off[k + 1] = off[k] + w /\ off[k] = w * k
    BY <2>1, <1>1, <1>4
  <2>3. w * k + w = w * (k + 1)
    OBVIOUS
  <2> QED
    BY <2>2, <2>3
<1>5. \A k \in Nat : k \in S
  <2> HIDE DEF S
  <2> QED
    BY <1>3, <1>4, FromZero
<1>6. Len(t) = w * Len(s)
  BY <1>1, <1>2, <1>5
<1>7. ASSUME NEW i \in 1 .. Len(s) PROVE HasAt(t, w * (i - 1) + 1, s[i])
  <2>1. i - 1 \in Nat /\ i - 1 <= Len(s)
    BY <1>2
  <2>2. off[i - 1] = w * (i - 1)
    BY <2>1, <1>5
  <2> QED
    BY <2>2, <1>1
<1>8. t \in Seq(AllFields)
  BY JoinedPieces
<1> QED
  BY <1>6, <1>7, <1>8

-----------------------------------------------------------------------------
\* A row of the table of results is five fields, and is read as it was written.
LEMMA ResultFields ==
  ASSUME NEW r \in WrittenRows
  PROVE  /\ SendResult(r) \in Seq(AllFields) /\ Len(SendResult(r)) = 5
         /\ SendResult(r)[1] = <<2, NameLength[r.name]>>
         /\ SendResult(r)[2] = <<NameLength[r.name], r.name>>
         /\ SendResult(r)[3] = <<4, r.race>> /\ SendResult(r)[4] = <<4, r.total>>
         /\ SendResult(r)[5] = <<1, r.status>>
<1>1. r.name \in DOMAIN NameLength /\ NameLength[r.name] \in Int /\ r.race \in Int /\ r.total \in Int /\ r.status \in Int
  BY NamesAssumption DEF WrittenRows
<1>2. String(r.name) = <<<<2, NameLength[r.name]>>, <<NameLength[r.name], r.name>>>>
  BY DEF String, Two
<1>3. Fields(<<4, 4, 1>>, <<r.race, r.total, r.status>>) = <<<<4, r.race>>, <<4, r.total>>, <<1, r.status>>>>
  BY DEF Fields
<1> DEFINE name == <<<<2, NameLength[r.name]>>, <<NameLength[r.name], r.name>>>>
           rest == <<<<4, r.race>>, <<4, r.total>>, <<1, r.status>>>>
           all == SendResult(r)
<1>4. all = name \o rest
  BY <1>2, <1>3 DEF SendResult
<1>5. /\ <<2, NameLength[r.name]>> \in AllFields /\ <<NameLength[r.name], r.name>> \in AllFields
      /\ <<4, r.race>> \in AllFields /\ <<4, r.total>> \in AllFields /\ <<1, r.status>> \in AllFields
  BY <1>1 DEF AllFields
<1>6. name \in Seq(AllFields) /\ Len(name) = 2 /\ rest \in Seq(AllFields) /\ Len(rest) = 3
  BY <1>5
<1>7. /\ name[1] = <<2, NameLength[r.name]>> /\ name[2] = <<NameLength[r.name], r.name>>
      /\ rest[1] = <<4, r.race>> /\ rest[2] = <<4, r.total>> /\ rest[3] = <<1, r.status>>
  OBVIOUS
<1> HIDE DEF name, rest, all
<1>8. /\ all \in Seq(AllFields) /\ Len(all) = 2 + 3
      /\ all[1] = name[1] /\ all[2] = name[2]
      /\ all[2 + 1] = rest[1] /\ all[2 + 2] = rest[2] /\ all[2 + 3] = rest[3]
  <2>1. 1 \in 1 .. 2 /\ 2 \in 1 .. 2 /\ 1 \in 1 .. 3 /\ 2 \in 1 .. 3 /\ 3 \in 1 .. 3
    OBVIOUS
  <2> DEFINE t == name \o rest
  <2>2. /\ t \in Seq(AllFields) /\ Len(name) \in Nat /\ Len(rest) \in Nat
        /\ Len(t) = Len(name) + Len(rest)
        /\ \A i \in 1 .. Len(name) : i \in 1 .. Len(t) /\ t[i] = name[i]
        /\ \A i \in 1 .. Len(rest) : Len(name) + i \in 1 .. Len(t) /\ t[Len(name) + i] = rest[i]
    <3>1. name \in Seq(AllFields) /\ rest \in Seq(AllFields)
      BY <1>6
    <3> QED
      BY <3>1, ConcatAt
  <2> HIDE DEF t
  <2> QED
    BY <2>1, <2>2, <1>4, <1>6 DEF t
<1>9. 2 + 3 = 5 /\ 2 + 1 = 3 /\ 2 + 2 = 4
  OBVIOUS
<1> QED
  BY <1>7, <1>8, <1>9 DEF all

\* A row written at p is read at p.
LEMMA ResultRead ==
  ASSUME NEW r \in WrittenRows, NEW m \in Seq(AllFields), NEW p \in Int, HasAt(m, p, SendResult(r))
  PROVE  ReadResult(m, p) = [name |-> r.name, race |-> r.race, total |-> r.total, finished |-> r.status = 1]
<1> DEFINE s == SendResult(r)
<1>1. /\ Len(s) = 5 /\ s[1] = <<2, NameLength[r.name]>> /\ s[2] = <<NameLength[r.name], r.name>>
      /\ s[3] = <<4, r.race>> /\ s[4] = <<4, r.total>> /\ s[5] = <<1, r.status>>
  BY ResultFields
<1> HIDE DEF s
<1>2. ASSUME NEW j \in 1 .. 5, NEW w, NEW v, s[j] = <<w, v>> PROVE Read(m, p + j - 1, w) = v
  BY <1>1, <1>2, ReadHas DEF s
<1>3. /\ Read(m, p, 2) = NameLength[r.name] /\ Read(m, p + 1, NameLength[r.name]) = r.name
      /\ Read(m, p + 2, 4) = r.race /\ Read(m, p + 3, 4) = r.total /\ Read(m, p + 4, 1) = r.status
  <2>1. p + 1 - 1 = p /\ p + 2 - 1 = p + 1 /\ p + 3 - 1 = p + 2 /\ p + 4 - 1 = p + 3 /\ p + 5 - 1 = p + 4
    OBVIOUS
  <2> QED
    BY <1>1, <1>2, <2>1
<1> QED
  BY <1>3 DEF ReadResult, ReadString

\* All the rows of a table.
LEMMA TableFields ==
  ASSUME NEW rows \in Seq(WrittenRows), NEW t, t = Joined(SendResult, rows)
  PROVE  /\ t \in Seq(AllFields) /\ Len(rows) \in Nat /\ Len(t) = 5 * Len(rows)
         /\ \A i \in 1 .. Len(rows) : HasAt(t, 5 * (i - 1) + 1, SendResult(rows[i]))
<1> DEFINE s == [i \in DOMAIN rows |-> SendResult(rows[i])]
<1>1. Len(rows) \in Nat /\ DOMAIN rows = 1 .. Len(rows) /\ \A i \in 1 .. Len(rows) : rows[i] \in WrittenRows
  BY LenProperties
<1>2. \A i \in 1 .. Len(rows) : SendResult(rows[i]) \in Seq(AllFields) /\ Len(SendResult(rows[i])) = 5
  BY <1>1, ResultFields
<1>3. s \in Seq(Seq(AllFields)) /\ Len(s) = Len(rows) /\ \A i \in 1 .. Len(rows) : s[i] = SendResult(rows[i])
  BY <1>1, <1>2
<1>4. t = FlattenSeq(s)
  BY DEF Joined
<1> HIDE DEF s
<1>5. 5 \in {2, 3, 5, 6} /\ \A i \in 1 .. Len(s) : Len(s[i]) = 5
  BY <1>2, <1>3
<1>6. t \in Seq(AllFields) /\ Len(t) = 5 * Len(s) /\ \A i \in 1 .. Len(s) : HasAt(t, 5 * (i - 1) + 1, s[i])
  BY <1>3, <1>4, <1>5, EvenPieces
<1> QED
  BY <1>1, <1>3, <1>6

\* The places of the podium, one after the other.
IsPlaces(place, m, flag) ==
  /\ place[1] = flag + 1
  /\ \A i \in 1 .. 3 : place[i + 1] = place[i] + PlaceFields(m, place[i])
ResultsEvent(m, n, place) ==
  [type |-> "RACE_RESULTS", is_last_race |-> Read(m, 2, 1) = 1,
   players |-> [i \in 1 .. n |-> ReadResult(m, 4 + 5 * (i - 1))],
   phase |-> IF Read(m, 2, 1) = 1 /\ Read(m, 4 + 5 * n, 1) \in 0 .. 3 THEN Read(m, 4 + 5 * n, 1) ELSE 4,
   podium |-> IF ~(Read(m, 2, 1) = 1) THEN <<>>
              ELSE [i \in 1 .. 3 |-> IF Read(m, place[i], 1) # 0
                                     THEN ReadResult(m, place[i] + 1) ELSE Nobody]]

ResultsTook(m, n, place) ==
  Took(ResultsEvent(m, n, place), IF Read(m, 2, 1) = 1 THEN place[4] - 1 ELSE (4 + 5 * n) - 1)

\* The reader's own recursion over the podium has a solution.
LEMMA ResultsReader ==
  ASSUME NEW m
  PROVE  \E place : /\ IsPlaces(place, m, 4 + 5 * ReadCount(m, 3))
                    /\ receive_race_results(m) = ResultsTook(m, ReadCount(m, 3), place)
<1> DEFINE n == ReadCount(m, 3)
           flag == 4 + 5 * n
           Eq(g) == g = [i \in 1 .. 4 |-> IF i = 1 THEN flag + 1 ELSE g[i - 1] + PlaceFields(m, g[i - 1])]
           it == CHOOSE g : Eq(g)
           p1 == flag + 1
           p2 == p1 + PlaceFields(m, p1)
           p3 == p2 + PlaceFields(m, p2)
           p4 == p3 + PlaceFields(m, p3)
           w == [i \in 1 .. 4 |-> CASE i = 1 -> p1 [] i = 2 -> p2 [] i = 3 -> p3 [] i = 4 -> p4]
<1>1. Eq(w)
  <2>1. w[1] = p1 /\ w[2] = p2 /\ w[3] = p3 /\ w[4] = p4
    OBVIOUS
  <2>2. DOMAIN w = 1 .. 4 /\ w = [i \in 1 .. 4 |-> w[i]]
    OBVIOUS
  <2> HIDE DEF w
  <2>3. ASSUME NEW i \in 1 .. 4 PROVE w[i] = IF i = 1 THEN flag + 1 ELSE w[i - 1] + PlaceFields(m, w[i - 1])
    <3>1. i = 1 \/ i = 2 \/ i = 3 \/ i = 4
      OBVIOUS
    <3> HIDE DEF flag, p1, p2, p3
    <3>2. CASE i = 1
      BY <3>2, <2>1 DEF p1
    <3>3. CASE i = 2
      BY <3>3, <2>1 DEF p2
    <3>4. CASE i = 3
      BY <3>4, <2>1 DEF p3
    <3>5. CASE i = 4
      BY <3>5, <2>1 DEF p4
    <3> QED
      BY <3>1, <3>2, <3>3, <3>4, <3>5
  <2> QED
    BY <2>2, <2>3
<1>2. Eq(it)
  <2> HIDE DEF Eq, w
  <2> QED
    BY <1>1
<1>3. receive_race_results(m) = ResultsTook(m, n, it)
  BY Zenon DEF receive_race_results, ResultsEvent, ResultsTook
<1>4. IsPlaces(it, m, 4 + 5 * n)
  <2> HIDE DEF it
  <2>1. \A i \in 1 .. 4 : it[i] = IF i = 1 THEN flag + 1 ELSE it[i - 1] + PlaceFields(m, it[i - 1])
    BY <1>2
  <2>2. ASSUME NEW i \in 1 .. 3 PROVE it[i + 1] = it[i] + PlaceFields(m, it[i])
    <3>1. i + 1 \in 1 .. 4 /\ i + 1 # 1 /\ (i + 1) - 1 = i
      OBVIOUS
    <3> HIDE DEF Eq
    <3> QED
      BY <3>1, <2>1
  <2> QED
    BY <2>1, <2>2 DEF IsPlaces
<1> HIDE DEF it
<1> QED
  BY <1>3, <1>4, Zenon

-----------------------------------------------------------------------------
\* A table after a race is read as it was meant.
LEMMA ResultsFaithful ==
  ASSUME NEW rows \in Seq(WrittenRows), NEW ev, ev = [type |-> "results", last |-> 0, rows |-> rows]
  PROVE  /\ Seen(receive_event(Send(ev)).event) = Means(ev)
         /\ receive_event(Send(ev)).took = Len(Send(ev))
<1> DEFINE m == Send(ev)
           n == Len(rows)
           head == <<One(36), One(0), Two(n)>>
           t == Joined(SendResult, rows)
<1>1. n \in Nat /\ DOMAIN rows = 1 .. n /\ \A i \in 1 .. n : rows[i] \in WrittenRows
  BY LenProperties
<1>2. m = head \o t
  BY DEF Send, send_race_results_to_client, Ops
<1>3. One(36) = <<1, 36>> /\ One(0) = <<1, 0>> /\ Two(n) = <<2, n>>
  BY DEF One, Two
<1>4. head \in Seq(AllFields) /\ Len(head) = 3 /\ head[1] = <<1, 36>> /\ head[2] = <<1, 0>> /\ head[3] = <<2, n>>
  <2>1. One(36) \in AllFields /\ One(0) \in AllFields /\ Two(n) \in AllFields
    BY <1>1, <1>3 DEF AllFields
  <2> QED
    BY <2>1, <1>3
<1>5. /\ t \in Seq(AllFields) /\ Len(t) = 5 * n
      /\ \A i \in 1 .. n : HasAt(t, 5 * (i - 1) + 1, SendResult(rows[i]))
  BY TableFields
<1> HIDE DEF m, head, t
<1>6. /\ m \in Seq(AllFields) /\ Len(m) = 3 + 5 * n /\ HasAt(m, 1, head) /\ HasAt(m, 4, t)
  <2>1. head \in Seq(AllFields) /\ t \in Seq(AllFields)
    BY <1>4, <1>5
  <2>2. m \in Seq(AllFields) /\ Len(m) = Len(head) + Len(t) /\ HasAt(m, 1, head) /\ HasAt(m, Len(head) + 1, t)
    BY <2>1, <1>2, HasPieces
  <2> QED
    BY <2>2, <1>4, <1>5
<1>7. Read(m, 1, 1) = 36 /\ Read(m, 2, 1) = 0 /\ Read(m, 3, 2) = n
  <2>1. ASSUME NEW j \in 1 .. 3, NEW w, NEW v, head[j] = <<w, v>> PROVE Read(m, 1 + j - 1, w) = v
    <3>1. m \in Seq(AllFields) /\ HasAt(m, 1, head) /\ j \in 1 .. Len(head) /\ Len(head) \in Nat /\ 1 \in Int
      BY <1>4, <1>6
    <3> QED
      BY <3>1, <2>1, ReadHas
  <2>2. 1 + 1 - 1 = 1 /\ 1 + 2 - 1 = 2 /\ 1 + 3 - 1 = 3
    OBVIOUS
  <2> QED
    BY <2>1, <2>2, <1>4
<1>8. ReadCount(m, 3) = n
  BY <1>1, <1>7 DEF ReadCount
<1>9. ASSUME NEW i \in 1 .. n
      PROVE  ReadResult(m, 4 + 5 * (i - 1)) =
               [name |-> rows[i].name, race |-> rows[i].race, total |-> rows[i].total,
                finished |-> rows[i].status = 1]
  <2> DEFINE q == 5 * (i - 1) + 1
             r == rows[i]
  <2>1. q \in Int /\ 4 + q - 1 = 4 + 5 * (i - 1) /\ Len(t) \in Nat
    BY <1>1, <1>5
  <2>2. HasAt(t, q, SendResult(r)) /\ r \in WrittenRows /\ Len(SendResult(r)) \in Nat
    BY <1>1, <1>5, ResultFields
  <2> HIDE DEF q, r
  <2>3. HasAt(m, 4 + q - 1, SendResult(r))
    BY <2>1, <2>2, <1>6, HasWithin
  <2>4. 4 + q - 1 \in Int
    BY <2>1
  <2>5. ReadResult(m, 4 + q - 1) = [name |-> r.name, race |-> r.race, total |-> r.total, finished |-> r.status = 1]
    BY <2>2, <2>3, <2>4, <1>6, ResultRead
  <2> QED
    BY <2>1, <2>5 DEF r
<1>10. PICK place : receive_race_results(m) = ResultsTook(m, n, place)
  BY <1>8, ResultsReader
<1>11. receive_event(m) = receive_race_results(m)
  BY <1>7 DEF receive_event
<1>12. receive_event(m).took = Len(m)
  BY <1>1, <1>6, <1>7, <1>10, <1>11 DEF Took, ResultsTook
<1> DEFINE e == [type |-> "RACE_RESULTS", is_last_race |-> FALSE,
                 players |-> [i \in 1 .. n |-> ReadResult(m, 4 + 5 * (i - 1))],
                 phase |-> 4, podium |-> <<>>]
<1>13. receive_event(m).event = e
  <2>1. ResultsEvent(m, n, place) = e
    <3>1. (Read(m, 2, 1) = 1) = FALSE
      BY <1>7
    <3> QED
      BY <3>1 DEF ResultsEvent
  <2> HIDE DEF e
  <2> QED
    BY <2>1, <1>10, <1>11 DEF Took, ResultsTook
<1>14. Seen(e) = Means(ev)
  <2>1. ASSUME NEW i \in 1 .. n PROVE Shown(ReadResult(m, 4 + 5 * (i - 1))) = Shown(rows[i])
    <3> DEFINE got == ReadResult(m, 4 + 5 * (i - 1))
    <3>1. got = [name |-> rows[i].name, race |-> rows[i].race, total |-> rows[i].total,
                 finished |-> rows[i].status = 1]
      BY <1>9
    <3> HIDE DEF got
    <3>2. got.name = rows[i].name /\ got.race = rows[i].race /\ got.total = rows[i].total
      BY <3>1
    <3> QED
      BY <3>2 DEF Shown, got
  <2>2. Means(ev) = [type |-> "RACE_RESULTS", is_last_race |-> FALSE, phase |-> 4,
                     players |-> [i \in 1 .. n |-> Shown(rows[i])], podium |-> <<>>]
    BY <1>1 DEF Means
  <2> DEFINE ps == [i \in 1 .. n |-> Shown(ReadResult(m, 4 + 5 * (i - 1)))]
  <2>3. Seen(e) = [e EXCEPT !.players = ps, !.podium = <<>>]
    <3>1. /\ e.type = "RACE_RESULTS" /\ e.podium = <<>>
          /\ e.players = [i \in 1 .. n |-> ReadResult(m, 4 + 5 * (i - 1))]
      OBVIOUS
    <3> DEFINE pp == [i \in DOMAIN e.players |-> Shown(e.players[i])]
               oo == [i \in DOMAIN e.podium |-> IF e.podium[i] = Nobody THEN Nobody ELSE Shown(e.podium[i])]
    <3>2. pp = ps
      BY <3>1
    <3>3. oo = <<>>
      BY <3>1
    <3> HIDE DEF e
    <3>4. Seen(e) = [e EXCEPT !.players = pp, !.podium = oo]
      BY <3>1 DEF Seen
    <3> QED
      BY <3>2, <3>3, <3>4
  <2>4. ps = [i \in 1 .. n |-> Shown(rows[i])]
    BY <2>1
  <2> QED
    BY <2>2, <2>3, <2>4
<1> QED
  BY <1>12, <1>13, <1>14 DEF m

\* What stands at the front keeps its place.
LEMMA HasFront ==
  ASSUME NEW m, NEW t, NEW s, NEW q \in Int, Len(s) \in Nat, Len(t) \in Nat,
         HasAt(m, 1, t), HasAt(t, q, s)
  PROVE  HasAt(m, q, s)
<1>1. HasAt(m, 1 + q - 1, s)
  BY HasWithin
<1>2. 1 + q - 1 = q
  OBVIOUS
<1> QED
  BY <1>1, <1>2

\* A result that was read is somebody's.
LEMMA SomebodyRead ==
  ASSUME NEW m, NEW p
  PROVE  ReadResult(m, p) # Nobody
<1>1. DOMAIN ReadResult(m, p) = {"name", "race", "total", "finished"}
  BY DEF ReadResult
<1>2. DOMAIN Nobody = {"exist"}
  BY DEF Nobody
<1> QED
  BY <1>1, <1>2

\* A place of the podium on the connection: the flag, and the row of whoever has it.
Placed(rows, i) == IF i > Len(rows) THEN <<One(0)>> ELSE <<One(1)>> \o SendResult(rows[i])

\* A place of the podium is a flag, and a row after it if somebody has the place.
LEMMA PlaceFieldsSent ==
  ASSUME NEW rows \in Seq(WrittenRows), NEW i \in Nat \ {0}
  PROVE  /\ Placed(rows, i) \in Seq(AllFields)
         /\ i > Len(rows) => Len(Placed(rows, i)) = 1 /\ Placed(rows, i)[1] = <<1, 0>>
         /\ ~(i > Len(rows)) =>
              /\ Len(Placed(rows, i)) = 6 /\ Placed(rows, i)[1] = <<1, 1>>
              /\ rows[i] \in WrittenRows /\ HasAt(Placed(rows, i), 2, SendResult(rows[i]))
<1>1. Len(rows) \in Nat
  BY LenProperties
<1>2. CASE i > Len(rows)
  <2>1. Placed(rows, i) = <<<<1, 0>>>>
    BY <1>2 DEF Placed, One
  <2>2. <<1, 0>> \in AllFields
    BY DEF AllFields
  <2> QED
    BY <2>1, <2>2, <1>2
<1>3. CASE ~(i > Len(rows))
  <2>1. rows[i] \in WrittenRows
    BY <1>1, <1>3
  <2> DEFINE a == <<One(1)>>
             b == SendResult(rows[i])
             t == Placed(rows, i)
  <2>2. a \in Seq(AllFields) /\ Len(a) = 1 /\ a[1] = <<1, 1>>
    <3>1. <<1, 1>> \in AllFields
      BY DEF AllFields
    <3> QED
      BY <3>1 DEF One
  <2>3. b \in Seq(AllFields) /\ Len(b) = 5
    BY <2>1, ResultFields
  <2>4. t = a \o b
    BY <1>3 DEF Placed
  <2> HIDE DEF a, b, t
  <2>5. t \in Seq(AllFields) /\ Len(t) = Len(a) + Len(b) /\ HasAt(t, 1, a) /\ HasAt(t, Len(a) + 1, b)
    <3>1. a \in Seq(AllFields) /\ b \in Seq(AllFields)
      BY <2>2, <2>3
    <3> QED
      BY <3>1, <2>4, HasPieces
  <2>6. t[1] = a[1]
    <3>1. 1 \in 1 .. Len(a) /\ 1 + 1 - 1 = 1
      BY <2>2
    <3>2. t[1 + 1 - 1] = a[1]
      BY <3>1, <2>5 DEF HasAt
    <3> QED
      BY <3>1, <3>2
  <2>7. Len(t) = 6 /\ t[1] = <<1, 1>> /\ HasAt(t, 2, b)
    BY <2>2, <2>3, <2>5, <2>6
  <2> QED
    BY <1>3, <2>1, <2>5, <2>7 DEF t, b
<1> QED
  BY <1>2, <1>3

\* The rows that follow the podium.
LEMMA RowsBelow ==
  ASSUME NEW rows \in Seq(WrittenRows), NEW k, k = IF Len(rows) > 3 THEN Len(rows) - 3 ELSE 0
  PROVE  LET sub == SubSeq(rows, 4, Len(rows))
         IN  /\ k \in Nat /\ sub \in Seq(WrittenRows) /\ Len(sub) = k
             /\ \A i \in 1 .. k : sub[i] = rows[i + 3] /\ rows[i + 3] \in WrittenRows
<1>1. Len(rows) \in Nat
  BY LenProperties
<1>2. CASE Len(rows) > 3
  <2>1. /\ SubSeq(rows, 4, Len(rows)) \in Seq(WrittenRows) /\ Len(SubSeq(rows, 4, Len(rows))) = Len(rows) - 4 + 1
        /\ \A i \in 1 .. Len(rows) - 4 + 1 : SubSeq(rows, 4, Len(rows))[i] = rows[4 + i - 1]
    BY <1>1, <1>2, SubSeqProperties
  <2>2. ASSUME NEW i \in 1 .. k PROVE i \in 1 .. Len(rows) - 4 + 1 /\ 4 + i - 1 = i + 3 /\ i + 3 \in 1 .. Len(rows)
    BY <1>1, <1>2
  <2> QED
    BY <1>1, <1>2, <2>1, <2>2
<1>3. CASE ~(Len(rows) > 3)
  <2>1. SubSeq(rows, 4, Len(rows)) = <<>>
    BY <1>1, <1>3, SubSeqEmpty
  <2> QED
    BY <1>3, <2>1
<1> QED
  BY <1>2, <1>3

-----------------------------------------------------------------------------
\* The last table on the connection: k rows, how many places the podium shows, and the podium.
LastTable(m, rows, k, pd) ==
  /\ m \in Seq(AllFields) /\ k \in Nat
  /\ HasAt(m, 1, <<<<1, 36>>, <<1, 1>>, <<2, k>>>>) /\ HasAt(m, 4 + 5 * k, <<<<1, pd>>>>)
  /\ \A i \in 1 .. k : /\ rows[i + 3] \in WrittenRows
                       /\ HasAt(m, 4 + 5 * (i - 1), SendResult(rows[i + 3]))
  /\ \E off \in [0 .. 3 -> Nat] :
       /\ off[0] = 0 /\ Len(m) = 4 + 5 * k + off[3]
       /\ \A i \in 1 .. 3 : /\ off[i] = off[i - 1] + Len(Placed(rows, i))
                            /\ HasAt(m, 5 + 5 * k + off[i - 1], Placed(rows, i))

\* That is what the server writes.
LEMMA FinalResultsLaid ==
  ASSUME NEW rows \in Seq(WrittenRows), rows # <<>>, NEW pd \in 0 .. 3, NEW ev,
         ev = [type |-> "final_results", rows |-> rows, podium |-> pd],
         NEW k, k = IF Len(rows) > 3 THEN Len(rows) - 3 ELSE 0, NEW m, m = Send(ev)
  PROVE  LastTable(m, rows, k, pd)
<1> DEFINE n == Len(rows)
           sub == SubSeq(rows, 4, n)
           head == <<<<1, 36>>, <<1, 1>>, <<2, k>>>>
           T == Joined(SendResult, sub)
           flag == <<<<1, pd>>>>
           ps == [i \in 1 .. 3 |-> Placed(rows, i)]
           P == FlattenSeq(ps)
           a == head \o T
           b == a \o flag
<1>1. n \in Nat /\ n # 0
  BY LenProperties, EmptySeq
<1>2. /\ k \in Nat /\ sub \in Seq(WrittenRows) /\ Len(sub) = k
      /\ \A i \in 1 .. k : sub[i] = rows[i + 3] /\ rows[i + 3] \in WrittenRows
  BY RowsBelow
<1>3. m = b \o P
  <2>1. [i \in DOMAIN <<1, 2, 3>> |-> IF <<1, 2, 3>>[i] > n THEN <<One(0)>>
                                      ELSE <<One(1)>> \o SendResult(rows[<<1, 2, 3>>[i]])] = ps
    <3>1. DOMAIN <<1, 2, 3>> = 1 .. 3 /\ \A i \in 1 .. 3 : <<1, 2, 3>>[i] = i
      OBVIOUS
    <3> QED
      BY <3>1 DEF Placed
  <2>2. <<One(Ops.results), One(1), Two(IF n > 3 THEN n - 3 ELSE 0)>> = head
    BY DEF Ops, One, Two
  <2>3. <<One(IF pd > 3 THEN 3 ELSE pd)>> = flag
    BY DEF One
  <2>4. ev.rows = rows /\ ev.podium = pd /\ ev.type = "final_results"
    OBVIOUS
  <2>5. m = send_race_results_last_to_client(ev)
    BY <2>4 DEF Send
  <2>6. send_race_results_last_to_client(ev) =
          <<One(Ops.results), One(1), Two(IF n > 3 THEN n - 3 ELSE 0)>> \o Joined(SendResult, SubSeq(rows, 4, n))
            \o <<One(IF pd > 3 THEN 3 ELSE pd)>>
            \o FlattenSeq([i \in DOMAIN <<1, 2, 3>> |->
                             IF <<1, 2, 3>>[i] > n THEN <<One(0)>>
                             ELSE <<One(1)>> \o SendResult(rows[<<1, 2, 3>>[i]])])
    <3>1. (Len(ev.rows) = 0) = FALSE
      BY <1>1, <2>4
    <3> QED
      BY <1>1, <2>4, <3>1, Zenon DEF send_race_results_last_to_client, Joined
  <2> HIDE DEF head, T, flag, ps, P
  <2> QED
    BY <2>1, <2>2, <2>3, <2>5, <2>6, Zenon DEF T, P
<1>4. head \in Seq(AllFields) /\ Len(head) = 3 /\ flag \in Seq(AllFields) /\ Len(flag) = 1
  <2>1. <<1, 36>> \in AllFields /\ <<1, 1>> \in AllFields /\ <<2, k>> \in AllFields /\ <<1, pd>> \in AllFields
    BY <1>2 DEF AllFields
  <2> QED
    BY <2>1
<1>5. /\ T \in Seq(AllFields) /\ Len(T) = 5 * k
      /\ \A i \in 1 .. k : HasAt(T, 5 * (i - 1) + 1, SendResult(sub[i]))
  BY <1>2, TableFields
<1>6. ps \in Seq(Seq(AllFields)) /\ Len(ps) = 3 /\ \A i \in 1 .. 3 : ps[i] = Placed(rows, i)
  <2>1. \A i \in 1 .. 3 : Placed(rows, i) \in Seq(AllFields)
    BY PlaceFieldsSent
  <2> QED
    BY <2>1
<1> HIDE DEF head, T, flag, ps, P, sub
<1>7. PICK off \in [0 .. 3 -> Nat] :
        /\ off[0] = 0 /\ Len(P) = off[3]
        /\ \A i \in 1 .. 3 : off[i] = off[i - 1] + Len(ps[i]) /\ HasAt(P, off[i - 1] + 1, ps[i])
  BY <1>6, JoinedPieces DEF P
<1>8. P \in Seq(AllFields)
  BY <1>6, JoinedPieces DEF P
<1>9. /\ a \in Seq(AllFields) /\ Len(a) = 3 + 5 * k /\ HasAt(a, 1, head) /\ HasAt(a, 4, T)
  <2>1. head \in Seq(AllFields) /\ T \in Seq(AllFields)
    BY <1>4, <1>5
  <2>2. a \in Seq(AllFields) /\ Len(a) = Len(head) + Len(T) /\ HasAt(a, 1, head) /\ HasAt(a, Len(head) + 1, T)
    BY <2>1, HasPieces
  <2> HIDE DEF a
  <2> QED
    BY <2>2, <1>4, <1>5
<1> HIDE DEF a
<1>10. b \in Seq(AllFields) /\ Len(b) = 4 + 5 * k /\ HasAt(b, 1, a) /\ HasAt(b, 4 + 5 * k, flag)
  <2>1. a \in Seq(AllFields) /\ flag \in Seq(AllFields)
    BY <1>4, <1>9
  <2>2. b \in Seq(AllFields) /\ Len(b) = Len(a) + Len(flag) /\ HasAt(b, 1, a) /\ HasAt(b, Len(a) + 1, flag)
    BY <2>1, HasPieces
  <2> HIDE DEF b
  <2>3. Len(a) + 1 = 4 + 5 * k
    BY <1>2, <1>9
  <2> QED
    BY <2>2, <2>3, <1>2, <1>4, <1>9
<1> HIDE DEF b
<1>11. m \in Seq(AllFields) /\ Len(m) = 4 + 5 * k + off[3] /\ HasAt(m, 1, b) /\ HasAt(m, 5 + 5 * k, P)
  <2>1. b \in Seq(AllFields) /\ P \in Seq(AllFields)
    BY <1>8, <1>10
  <2>2. m \in Seq(AllFields) /\ Len(m) = Len(b) + Len(P) /\ HasAt(m, 1, b) /\ HasAt(m, Len(b) + 1, P)
    BY <2>1, <1>3, HasPieces
  <2>3. Len(b) + 1 = 5 + 5 * k
    BY <1>2, <1>10
  <2> QED
    BY <2>2, <2>3, <1>7, <1>10
<1>12. HasAt(m, 1, a) /\ HasAt(m, 4 + 5 * k, flag)
  <2>1. Len(a) \in Nat /\ Len(flag) \in Nat /\ Len(b) \in Nat /\ 4 + 5 * k \in Int
    BY <1>2, <1>4, <1>9, <1>10
  <2>2. HasAt(m, 1, a)
    BY <2>1, <1>10, <1>11, HasFront
  <2>3. HasAt(m, 4 + 5 * k, flag)
    BY <2>1, <1>10, <1>11, HasFront
  <2> QED
    BY <2>2, <2>3
<1>13. HasAt(m, 1, head) /\ HasAt(m, 4, T)
  <2>1. Len(a) \in Nat /\ Len(head) \in Nat /\ Len(T) \in Nat
    BY <1>2, <1>4, <1>5, <1>9
  <2>2. HasAt(m, 1, head)
    BY <2>1, <1>9, <1>12, HasFront
  <2>3. HasAt(m, 4, T)
    BY <2>1, <1>9, <1>12, HasFront
  <2> QED
    BY <2>2, <2>3
<1>14. ASSUME NEW i \in 1 .. k
       PROVE  rows[i + 3] \in WrittenRows /\ HasAt(m, 4 + 5 * (i - 1), SendResult(rows[i + 3]))
  <2> DEFINE q == 5 * (i - 1) + 1
             r == SendResult(rows[i + 3])
  <2>1. q \in Int /\ 4 + q - 1 = 4 + 5 * (i - 1) /\ Len(T) \in Nat
    BY <1>2, <1>5
  <2>2. HasAt(T, q, r) /\ Len(r) \in Nat /\ rows[i + 3] \in WrittenRows
    <3>1. sub[i] = rows[i + 3] /\ rows[i + 3] \in WrittenRows
      BY <1>2
    <3>2. HasAt(T, q, SendResult(sub[i]))
      BY <1>5
    <3>3. Len(SendResult(rows[i + 3])) = 5
      BY <3>1, ResultFields
    <3> QED
      BY <3>1, <3>2, <3>3
  <2> HIDE DEF q, r
  <2>3. HasAt(m, 4 + q - 1, r)
    BY <2>1, <2>2, <1>13, HasWithin
  <2> QED
    BY <2>1, <2>2, <2>3 DEF r
<1>15. ASSUME NEW i \in 1 .. 3
       PROVE  off[i] = off[i - 1] + Len(Placed(rows, i)) /\ HasAt(m, 5 + 5 * k + off[i - 1], Placed(rows, i))
  <2> DEFINE q == off[i - 1] + 1
             r == Placed(rows, i)
  <2>1. i - 1 \in 0 .. 3 /\ 3 \in 0 .. 3
    OBVIOUS
  <2>2. off[i - 1] \in Nat /\ Len(P) \in Nat
    BY <2>1, <1>7
  <2>3. q \in Int /\ 5 + 5 * k \in Int /\ (5 + 5 * k) + q - 1 = 5 + 5 * k + off[i - 1]
    BY <2>2, <1>2
  <2>4. HasAt(P, q, r) /\ Len(r) \in Nat /\ off[i] = off[i - 1] + Len(r)
    <3>1. Len(r) \in Nat
      <4>1. r \in Seq(AllFields)
        BY PlaceFieldsSent
      <4> QED
        BY <4>1, LenProperties
    <3>2. ps[i] = r
      BY <1>6
    <3> QED
      BY <3>1, <3>2, <1>7
  <2> HIDE DEF q, r
  <2>5. HasAt(m, (5 + 5 * k) + q - 1, r)
    BY <2>2, <2>3, <2>4, <1>11, HasWithin
  <2> QED
    BY <2>3, <2>4, <2>5 DEF r
<1>16. HasAt(m, 1, <<<<1, 36>>, <<1, 1>>, <<2, k>>>>) /\ HasAt(m, 4 + 5 * k, <<<<1, pd>>>>)
  BY <1>12, <1>13 DEF head, flag
<1> QED
  BY <1>2, <1>7, <1>11, <1>14, <1>15, <1>16, Zenon DEF LastTable

\* The reader finds each place of the podium where it was written.
LEMMA PodiumRead ==
  ASSUME NEW rows \in Seq(WrittenRows), NEW m \in Seq(AllFields), NEW p \in Int, NEW i \in 1 .. 3,
         HasAt(m, p, Placed(rows, i))
  PROVE  /\ PlaceFields(m, p) = Len(Placed(rows, i)) /\ Len(Placed(rows, i)) \in {1, 6}
         /\ i > Len(rows) => Read(m, p, 1) = 0
         /\ ~(i > Len(rows)) =>
              /\ Read(m, p, 1) = 1
              /\ ReadResult(m, p + 1) = [name |-> rows[i].name, race |-> rows[i].race, total |-> rows[i].total,
                                         finished |-> rows[i].status = 1]
<1> DEFINE s == Placed(rows, i)
<1>1. /\ s \in Seq(AllFields)
      /\ i > Len(rows) => Len(s) = 1 /\ s[1] = <<1, 0>>
      /\ ~(i > Len(rows)) =>
           Len(s) = 6 /\ s[1] = <<1, 1>> /\ rows[i] \in WrittenRows /\ HasAt(s, 2, SendResult(rows[i]))
  BY PlaceFieldsSent
<1> HIDE DEF s
<1>2. HasAt(m, p, s)
  BY DEF s
<1>3. p + 1 - 1 = p /\ p + 2 - 1 = p + 1
  OBVIOUS
<1>4. CASE i > Len(rows)
  <2>0. Len(s) = 1 /\ s[1] = <<1, 0>>
    BY <1>1, <1>4
  <2>1. 1 \in 1 .. Len(s) /\ Len(s) \in Nat
    BY <2>0
  <2>3. s[1] = <<1, 0>>
    BY <2>0
  <2>2. Read(m, p + 1 - 1, 1) = 0
    BY <2>1, <2>3, <1>2, ReadHas
  <2> QED
    BY <2>2, <1>1, <1>3, <1>4 DEF PlaceFields, s
<1>5. CASE ~(i > Len(rows))
  <2>0. Len(s) = 6 /\ s[1] = <<1, 1>> /\ rows[i] \in WrittenRows
    BY <1>1, <1>5
  <2>1. 1 \in 1 .. Len(s) /\ Len(s) \in Nat /\ rows[i] \in WrittenRows
    BY <2>0
  <2>2. Read(m, p + 1 - 1, 1) = 1
    BY <2>0, <2>1, <1>2, ReadHas
  <2> DEFINE r == SendResult(rows[i])
  <2>3. Len(r) \in Nat /\ HasAt(s, 2, r)
    <3>1. Len(r) = 5
      BY <2>1, ResultFields
    <3> QED
      BY <3>1, <1>1, <1>5
  <2> HIDE DEF r
  <2>4. HasAt(m, p + 2 - 1, r)
    BY <2>1, <2>3, <1>2, HasWithin
  <2>5. p + 2 - 1 \in Int
    OBVIOUS
  <2>6. ReadResult(m, p + 2 - 1) = [name |-> rows[i].name, race |-> rows[i].race, total |-> rows[i].total,
                                    finished |-> rows[i].status = 1]
    BY <2>1, <2>4, <2>5, ResultRead DEF r
  <2> QED
    BY <2>2, <2>6, <1>1, <1>3, <1>5 DEF PlaceFields, s
<1> QED
  BY <1>4, <1>5

\* What a row shows, once it was read.
LEMMA RowShown ==
  ASSUME NEW r, NEW got,
         got = [name |-> r.name, race |-> r.race, total |-> r.total, finished |-> r.status = 1]
  PROVE  Shown(got) = Shown(r)
<1>1. got.name = r.name /\ got.race = r.race /\ got.total = r.total
  OBVIOUS
<1> QED
  BY <1>1 DEF Shown

\* A table whose rows were put in another form.
Retold(e, players, podium) == [e EXCEPT !.players = players, !.podium = podium]

\* Retold as a record: its players and its podium are the new ones.
LEMMA TableRetold ==
  ASSUME NEW a, NEW b, NEW c, NEW d, NEW sp, NEW so, NEW r,
         r = [type |-> "RACE_RESULTS", is_last_race |-> a, players |-> b, phase |-> c, podium |-> d]
  PROVE  Retold(r, sp, so)
           = [type |-> "RACE_RESULTS", is_last_race |-> a, players |-> sp, phase |-> c, podium |-> so]
<1> DEFINE s == [type |-> "RACE_RESULTS", is_last_race |-> a, players |-> sp, phase |-> c, podium |-> so]
           x == [r EXCEPT !.players = sp]
           y == [x EXCEPT !.podium = so]
<1>1. DOMAIN r = {"type", "is_last_race", "players", "phase", "podium"}
      /\ r["type"] = "RACE_RESULTS" /\ r["is_last_race"] = a /\ r["phase"] = c
  OBVIOUS
<1>2. DOMAIN s = {"type", "is_last_race", "players", "phase", "podium"} /\ s = [f \in DOMAIN s |-> s[f]]
      /\ s["type"] = "RACE_RESULTS" /\ s["is_last_race"] = a /\ s["players"] = sp /\ s["phase"] = c
      /\ s["podium"] = so
  OBVIOUS
<1> HIDE DEF s
<1>3. x = [f \in DOMAIN r |-> IF f = "players" THEN sp ELSE r[f]]
  OBVIOUS
<1> HIDE DEF x
<1>4. y = [f \in DOMAIN x |-> IF f = "podium" THEN so ELSE x[f]]
  OBVIOUS
<1> HIDE DEF y
<1>5. \A f \in DOMAIN s : y[f] = s[f]
  BY <1>1, <1>2, <1>3, <1>4
<1>6. DOMAIN y = DOMAIN s /\ y = [f \in DOMAIN y |-> y[f]]
  BY <1>1, <1>2, <1>3, <1>4
<1>7. y = s
  BY <1>2, <1>5, <1>6
<1>8. Retold(r, sp, so) = y
  BY DEF Retold, y, x
<1> QED
  BY <1>7, <1>8 DEF s

\* The last table is read as it was meant, with its podium.
LEMMA FinalResultsFaithful ==
  ASSUME NEW rows \in Seq(WrittenRows), rows # <<>>, NEW pd \in 0 .. 3, NEW ev,
         ev = [type |-> "final_results", rows |-> rows, podium |-> pd]
  PROVE  /\ Seen(receive_event(Send(ev)).event) = Means(ev)
         /\ receive_event(Send(ev)).took = Len(Send(ev))
<1> DEFINE m == Send(ev)
           k == IF Len(rows) > 3 THEN Len(rows) - 3 ELSE 0
           head == <<<<1, 36>>, <<1, 1>>, <<2, k>>>>
           flag == <<<<1, pd>>>>
<1>l. LastTable(m, rows, k, pd)
  <2>1. m = Send(ev) /\ k = IF Len(rows) > 3 THEN Len(rows) - 3 ELSE 0
    OBVIOUS
  <2> HIDE DEF m, k
  <2> QED
    BY <2>1, FinalResultsLaid
<1>1. m \in Seq(AllFields)
  BY <1>l, Zenon DEF LastTable
<1>n. k \in Nat
  BY <1>l, Zenon DEF LastTable
<1>h. HasAt(m, 1, head) /\ HasAt(m, 4 + 5 * k, flag)
  BY <1>l, Zenon DEF LastTable
<1>r. \A i \in 1 .. k : rows[i + 3] \in WrittenRows /\ HasAt(m, 4 + 5 * (i - 1), SendResult(rows[i + 3]))
  BY <1>l, Zenon DEF LastTable
<1>2. Len(rows) \in Nat
  BY LenProperties
<1>3. /\ Len(head) = 3 /\ head[1] = <<1, 36>> /\ head[2] = <<1, 1>> /\ head[3] = <<2, k>>
      /\ Len(flag) = 1 /\ flag[1] = <<1, pd>>
  OBVIOUS
<1>k. k = IF Len(rows) > 3 THEN Len(rows) - 3 ELSE 0
  OBVIOUS
<1> HIDE DEF m, head, flag, k
<1>4. Read(m, 1, 1) = 36 /\ Read(m, 2, 1) = 1 /\ Read(m, 3, 2) = k
  <2>1. ASSUME NEW j \in 1 .. 3, NEW w, NEW v, head[j] = <<w, v>> PROVE Read(m, 1 + j - 1, w) = v
    <3>1. m \in Seq(AllFields) /\ HasAt(m, 1, head) /\ j \in 1 .. Len(head) /\ Len(head) \in Nat /\ 1 \in Int
      BY <1>1, <1>h, <1>3
    <3> QED
      BY <3>1, <2>1, ReadHas
  <2>2. 1 + 1 - 1 = 1 /\ 1 + 2 - 1 = 2 /\ 1 + 3 - 1 = 3
    OBVIOUS
  <2> QED
    BY <2>1, <2>2, <1>3
<1>5. Read(m, 4 + 5 * k, 1) = pd
  <2>1. 4 + 5 * k \in Int /\ (4 + 5 * k) + 1 - 1 = 4 + 5 * k /\ 1 \in 1 .. Len(flag) /\ Len(flag) \in Nat
    BY <1>n, <1>3
  <2>2. m \in Seq(AllFields) /\ HasAt(m, 4 + 5 * k, flag) /\ flag[1] = <<1, pd>>
    BY <1>1, <1>h, <1>3
  <2> DEFINE p == 4 + 5 * k
  <2> HIDE DEF p
  <2>3. Read(m, p + 1 - 1, 1) = pd
    BY <2>1, <2>2, ReadHas DEF p
  <2> QED
    BY <2>1, <2>3 DEF p
<1>6. PICK off \in [0 .. 3 -> Nat] :
        /\ off[0] = 0 /\ Len(m) = 4 + 5 * k + off[3]
        /\ \A i \in 1 .. 3 : /\ off[i] = off[i - 1] + Len(Placed(rows, i))
                             /\ HasAt(m, 5 + 5 * k + off[i - 1], Placed(rows, i))
  BY <1>l, Zenon DEF LastTable
<1>7. off[0] \in Nat /\ off[1] \in Nat /\ off[2] \in Nat /\ off[3] \in Nat
  OBVIOUS
<1>8. ReadCount(m, 3) = k
  BY <1>n, <1>4 DEF ReadCount
<1>9. PICK place : IsPlaces(place, m, 4 + 5 * k) /\ receive_race_results(m) = ResultsTook(m, k, place)
  BY <1>8, ResultsReader
<1>10. ASSUME NEW i \in 1 .. 3, place[i] = 5 + 5 * k + off[i - 1]
       PROVE  /\ place[i] \in Int /\ place[i + 1] = 5 + 5 * k + off[i]
              /\ i > Len(rows) => Read(m, place[i], 1) = 0
              /\ ~(i > Len(rows)) =>
                   /\ Read(m, place[i], 1) = 1
                   /\ ReadResult(m, place[i] + 1) =
                        [name |-> rows[i].name, race |-> rows[i].race, total |-> rows[i].total,
                         finished |-> rows[i].status = 1]
  <2> DEFINE p == 5 + 5 * k + off[i - 1]
  <2>0. off[i - 1] \in Nat
    BY <1>7
  <2>1. p \in Int /\ HasAt(m, p, Placed(rows, i)) /\ m \in Seq(AllFields)
    <3>1. p \in Int
      BY <2>0, <1>n
    <3>2. HasAt(m, p, Placed(rows, i))
      BY <1>6
    <3> QED
      BY <3>1, <3>2, <1>1
  <2>2. place[i] = p /\ place[i + 1] = place[i] + PlaceFields(m, place[i])
    BY <1>9, <1>10 DEF IsPlaces
  <2>3. off[i] = off[i - 1] + Len(Placed(rows, i))
    BY <1>6
  <2> HIDE DEF p
  <2>4. /\ PlaceFields(m, p) = Len(Placed(rows, i)) /\ Len(Placed(rows, i)) \in {1, 6}
        /\ i > Len(rows) => Read(m, p, 1) = 0
        /\ ~(i > Len(rows)) =>
             /\ Read(m, p, 1) = 1
             /\ ReadResult(m, p + 1) =
                  [name |-> rows[i].name, race |-> rows[i].race, total |-> rows[i].total,
                   finished |-> rows[i].status = 1]
    BY <2>1, PodiumRead
  <2>5. place[i + 1] = 5 + 5 * k + off[i]
    <3>1. place[i + 1] = p + Len(Placed(rows, i))
      BY <2>2, <2>4
    <3>2. Len(Placed(rows, i)) \in Int
      BY <2>4
    <3> QED
      BY <3>1, <3>2, <2>0, <2>3, <1>n DEF p
  <2> QED
    BY <2>1, <2>2, <2>4, <2>5
<1>11. place[1] = 5 + 5 * k + off[0] /\ place[2] = 5 + 5 * k + off[1] /\ place[3] = 5 + 5 * k + off[2]
       /\ place[4] = 5 + 5 * k + off[3]
  <2>1. place[1] = 5 + 5 * k + off[1 - 1]
    BY <1>n, <1>6, <1>9 DEF IsPlaces
  <2>2. place[1 + 1] = 5 + 5 * k + off[1]
    BY <2>1, <1>10
  <2>3. place[2] = 5 + 5 * k + off[2 - 1]
    BY <2>2
  <2>4. place[2 + 1] = 5 + 5 * k + off[2]
    BY <2>3, <1>10
  <2>5. place[3] = 5 + 5 * k + off[3 - 1]
    BY <2>4
  <2>6. place[3 + 1] = 5 + 5 * k + off[3]
    BY <2>5, <1>10
  <2> QED
    BY <2>1, <2>3, <2>5, <2>6
<1>12. ASSUME NEW i \in 1 .. 3
       PROVE  (IF Read(m, place[i], 1) # 0 THEN ReadResult(m, place[i] + 1) ELSE Nobody)
                = IF i <= Len(rows) THEN [name |-> rows[i].name, race |-> rows[i].race, total |-> rows[i].total,
                                          finished |-> rows[i].status = 1]
                  ELSE Nobody
  <2>1. place[i] = 5 + 5 * k + off[i - 1]
    <3>1. i = 1 \/ i = 2 \/ i = 3
      OBVIOUS
    <3>2. 1 - 1 = 0 /\ 2 - 1 = 1 /\ 3 - 1 = 2
      OBVIOUS
    <3> QED
      BY <3>1, <3>2, <1>11
  <2>2. i > Len(rows) <=> ~(i <= Len(rows))
    BY <1>2
  <2>3. /\ i > Len(rows) => Read(m, place[i], 1) = 0
        /\ ~(i > Len(rows)) =>
             /\ Read(m, place[i], 1) = 1
             /\ ReadResult(m, place[i] + 1) =
                  [name |-> rows[i].name, race |-> rows[i].race, total |-> rows[i].total,
                   finished |-> rows[i].status = 1]
    BY <2>1, <1>10
  <2>4. CASE i > Len(rows)
    BY <2>2, <2>3, <2>4
  <2>5. CASE ~(i > Len(rows))
    <3>1. i <= Len(rows) /\ Read(m, place[i], 1) # 0
      BY <2>2, <2>3, <2>5
    <3>2. ReadResult(m, place[i] + 1) =
            [name |-> rows[i].name, race |-> rows[i].race, total |-> rows[i].total,
             finished |-> rows[i].status = 1]
      BY <2>3, <2>5
    <3> QED
      BY <3>1, <3>2, Zenon
  <2> QED
    BY <2>4, <2>5
<1>13. receive_event(m) = receive_race_results(m)
  BY <1>4 DEF receive_event
<1>14. receive_event(m).took = Len(m)
  <2>1. receive_event(m).took = place[4] - 1
    BY <1>4, <1>9, <1>13 DEF Took, ResultsTook
  <2>2. Len(m) = 4 + 5 * k + off[3] /\ place[4] = 5 + 5 * k + off[3] /\ off[3] \in Nat
    BY <1>6, <1>7, <1>11
  <2> QED
    BY <2>1, <2>2, <1>n
<1> DEFINE pl == [i \in 1 .. k |-> ReadResult(m, 4 + 5 * (i - 1))]
           po == [i \in 1 .. 3 |-> IF Read(m, place[i], 1) # 0 THEN ReadResult(m, place[i] + 1) ELSE Nobody]
           e == [type |-> "RACE_RESULTS", is_last_race |-> TRUE, players |-> pl, phase |-> pd, podium |-> po]
<1>15. receive_event(m).event = e
  <2>1. ResultsEvent(m, k, place) = e
    <3>1. (Read(m, 2, 1) = 1) = TRUE /\ Read(m, 4 + 5 * k, 1) \in 0 .. 3
      BY <1>4, <1>5
    <3> QED
      BY <3>1, <1>5 DEF ResultsEvent
  <2> HIDE DEF e
  <2> QED
    BY <2>1, <1>9, <1>13 DEF Took, ResultsTook
<1>16. [i \in DOMAIN pl |-> Shown(pl[i])] = [i \in 1 .. k |-> Shown(rows[i + 3])]
  <2>1. ASSUME NEW i \in 1 .. k PROVE Shown(pl[i]) = Shown(rows[i + 3])
    <3>1. 4 + 5 * (i - 1) \in Int /\ rows[i + 3] \in WrittenRows /\ m \in Seq(AllFields)
          /\ HasAt(m, 4 + 5 * (i - 1), SendResult(rows[i + 3]))
      BY <1>1, <1>r
    <3> DEFINE q == 4 + 5 * (i - 1)
               r == rows[i + 3]
               got == ReadResult(m, q)
    <3>2. got = [name |-> r.name, race |-> r.race, total |-> r.total, finished |-> r.status = 1]
      <4> HIDE DEF q, r
      <4> QED
        BY <3>1, ResultRead DEF q, r
    <3>3. pl[i] = got
      OBVIOUS
    <3> HIDE DEF q, r, got, pl
    <3>4. Shown(got) = Shown(r)
      BY <3>2, RowShown
    <3> QED
      BY <3>3, <3>4 DEF r
  <2>2. DOMAIN pl = 1 .. k
    OBVIOUS
  <2> HIDE DEF pl
  <2> QED
    BY <2>1, <2>2
<1>17. [i \in DOMAIN po |-> IF po[i] = Nobody THEN Nobody ELSE Shown(po[i])]
         = [i \in 1 .. 3 |-> IF i <= Len(rows) THEN Shown(rows[i]) ELSE Nobody]
  <2>1. ASSUME NEW i \in 1 .. 3
        PROVE  (IF po[i] = Nobody THEN Nobody ELSE Shown(po[i]))
                 = IF i <= Len(rows) THEN Shown(rows[i]) ELSE Nobody
    <3> DEFINE got == [name |-> rows[i].name, race |-> rows[i].race, total |-> rows[i].total,
                       finished |-> rows[i].status = 1]
    <3>1. po[i] = IF i <= Len(rows) THEN got ELSE Nobody
      BY <1>12
    <3>2. Shown(got) = Shown(rows[i])
      <4> HIDE DEF got
      <4> QED
        BY RowShown DEF got
    <3>3. got # Nobody
      BY DEF Nobody
    <3> HIDE DEF got, po
    <3> QED
      BY <3>1, <3>2, <3>3
  <2>2. DOMAIN po = 1 .. 3
    OBVIOUS
  <2> HIDE DEF po
  <2> QED
    BY <2>1, <2>2
<1>18. Seen(e) = Means(ev)
  <2> DEFINE sp == [i \in DOMAIN pl |-> Shown(pl[i])]
             so == [i \in DOMAIN po |-> IF po[i] = Nobody THEN Nobody ELSE Shown(po[i])]
  <2>1. e.type = "RACE_RESULTS" /\ e.players = pl /\ e.podium = po
    OBVIOUS
  <2>2. Seen(e) = [e EXCEPT !.players = sp, !.podium = so]
    <3> HIDE DEF e, pl, po
    <3> QED
      BY <2>1 DEF Seen
  <2>3. [e EXCEPT !.players = sp, !.podium = so]
          = [type |-> "RACE_RESULTS", is_last_race |-> TRUE, players |-> sp, phase |-> pd, podium |-> so]
    <3> DEFINE yes == TRUE
    <3>1. e = [type |-> "RACE_RESULTS", is_last_race |-> yes, players |-> pl, phase |-> pd, podium |-> po]
      OBVIOUS
    <3> HIDE DEF pl, po, sp, so, e, yes
    <3>3. Retold(e, sp, so)
            = [type |-> "RACE_RESULTS", is_last_race |-> yes, players |-> sp, phase |-> pd, podium |-> so]
      BY <3>1, TableRetold
    <3> QED
      BY <3>3, Zenon DEF yes, Retold
  <2>4. Means(ev) = [type |-> "RACE_RESULTS", is_last_race |-> TRUE, phase |-> pd,
                     players |-> [i \in 1 .. k |-> Shown(rows[i + 3])],
                     podium |-> [i \in 1 .. 3 |-> IF i <= Len(rows) THEN Shown(rows[i]) ELSE Nobody]]
    <3>1. ev.type = "final_results" /\ ev.rows = rows /\ ev.podium = pd
      OBVIOUS
    <3> QED
      BY <3>1, <1>k DEF Means
  <2> HIDE DEF sp, so, e, pl, po
  <2>5. sp = [i \in 1 .. k |-> Shown(rows[i + 3])]
    BY <1>16 DEF sp
  <2>6. so = [i \in 1 .. 3 |-> IF i <= Len(rows) THEN Shown(rows[i]) ELSE Nobody]
    BY <1>17 DEF so
  <2> QED
    BY <2>2, <2>3, <2>4, <2>5, <2>6
<1> QED
  BY <1>14, <1>15, <1>18 DEF m

\* The events of one or two fields are read as they were meant.
LEMMA ShortFaithful ==
  ASSUME NEW ev, \/ ev = [type |-> "id", id |-> Me]
                 \/ \E type \in {"refused", "accepted", "start", "phase"} : ev = [type |-> type]
  PROVE  /\ Seen(receive_event(Send(ev)).event) = Means(ev)
         /\ receive_event(Send(ev)).took = Len(Send(ev))
<1> DEFINE m == Send(ev)
           e == receive_event(m).event
<1>1. CASE ev = [type |-> "id", id |-> Me]
  <2>1. m = <<<<1, 21>>, <<4, Me>>>>
    BY <1>1 DEF Send, Ops, One, Four
  <2> HIDE DEF m
  <2>2. Len(m) = 2 /\ Read(m, 1, 1) = 21 /\ Read(m, 2, 4) = Me
    BY <2>1 DEF Read
  <2>3. receive_event(m) = [event |-> [type |-> "RECEIVE_ID", id |-> Me], took |-> 2]
    BY <2>2 DEF receive_event, Took
  <2>4. e = [type |-> "RECEIVE_ID", id |-> Me]
    BY <2>3
  <2>5. Seen(e) = e
    BY <2>4 DEF Seen
  <2> QED
    BY <2>2, <2>3, <2>4, <2>5, <1>1 DEF Means, m
<1>2. ASSUME NEW type \in {"refused", "accepted", "start", "phase"}, ev = [type |-> type]
      PROVE  /\ Seen(receive_event(Send(ev)).event) = Means(ev)
             /\ receive_event(Send(ev)).took = Len(Send(ev))
  <2>1. /\ type = "refused" => m = <<<<1, 32>>>>
        /\ type = "accepted" => m = <<<<1, 48>>>>
        /\ type = "start" => m = <<<<1, 34>>>>
        /\ type = "phase" => m = <<<<1, 50>>>>
    BY <1>2 DEF Send, Ops, One
  <2> HIDE DEF m
  <2> DEFINE op == Read(m, 1, 1)
  <2>2. /\ Len(m) = 1
        /\ type = "refused" => op = 32
        /\ type = "accepted" => op = 48
        /\ type = "start" => op = 34
        /\ type = "phase" => op = 50
    BY <2>1 DEF Read
  <2>3. /\ type = "refused" => receive_event(m) = [event |-> [type |-> "ERROR"], took |-> 1]
        /\ type = "accepted" => receive_event(m) = [event |-> [type |-> "SUCESS"], took |-> 1]
        /\ type = "start" => receive_event(m) = [event |-> [type |-> "START_GAME"], took |-> 1]
        /\ type = "phase" => receive_event(m) = [event |-> [type |-> "CHANGE_FASE"], took |-> 1]
    BY <2>2 DEF receive_event, Took
  <2>4. /\ type = "refused" => e = [type |-> "ERROR"]
        /\ type = "accepted" => e = [type |-> "SUCESS"]
        /\ type = "start" => e = [type |-> "START_GAME"]
        /\ type = "phase" => e = [type |-> "CHANGE_FASE"]
    BY <2>3
  <2>5. receive_event(m).took = 1
    BY <2>3
  <2>6. Seen(e) = e
    BY <2>4 DEF Seen
  <2>7. Means(ev) = e
    BY <2>4, <1>2 DEF Means
  <2> QED
    BY <2>2, <2>5, <2>6, <2>7 DEF m
<1> QED
  BY <1>1, <1>2

-----------------------------------------------------------------------------
\* A player of a lobby is three fields, and is read as it was written.
WrittenPlayers == [name : DOMAIN NameLength, model : Int]

\* SendPlayer, field by field.
LEMMA PlayerFields ==
  ASSUME NEW p \in WrittenPlayers
  PROVE  /\ SendPlayer(p) \in Seq(AllFields) /\ Len(SendPlayer(p)) = 3
         /\ SendPlayer(p)[1] = <<2, NameLength[p.name]>>
         /\ SendPlayer(p)[2] = <<NameLength[p.name], p.name>>
         /\ SendPlayer(p)[3] = <<1, p.model>>
<1>1. p.name \in DOMAIN NameLength /\ NameLength[p.name] \in Int /\ p.model \in Int
  BY NamesAssumption DEF WrittenPlayers
<1> DEFINE name == <<<<2, NameLength[p.name]>>, <<NameLength[p.name], p.name>>>>
           rest == <<<<1, p.model>>>>
           all == SendPlayer(p)
<1>2. all = name \o rest
  BY Zenon DEF SendPlayer, String, Two, One
<1>3. /\ <<2, NameLength[p.name]>> \in AllFields /\ <<NameLength[p.name], p.name>> \in AllFields
      /\ <<1, p.model>> \in AllFields
  BY <1>1 DEF AllFields
<1>4. name \in Seq(AllFields) /\ rest \in Seq(AllFields)
  BY <1>3
<1>5. /\ Len(name) = 2 /\ name[1] = <<2, NameLength[p.name]>> /\ name[2] = <<NameLength[p.name], p.name>>
      /\ Len(rest) = 1 /\ rest[1] = <<1, p.model>>
  OBVIOUS
<1> HIDE DEF name, rest, all
<1>6. /\ all \in Seq(AllFields) /\ Len(all) = Len(name) + Len(rest)
      /\ \A i \in 1 .. Len(name) : all[i] = name[i]
      /\ \A i \in 1 .. Len(rest) : all[Len(name) + i] = rest[i]
  BY <1>2, <1>4, ConcatAt
<1>7. Len(all) = 3 /\ all[1] = name[1] /\ all[2] = name[2] /\ all[3] = rest[1]
  <2>1. 2 + 1 = 3 /\ 1 \in 1 .. 2 /\ 2 \in 1 .. 2 /\ 1 \in 1 .. 1
    OBVIOUS
  <2> QED
    BY <2>1, <1>5, <1>6
<1> QED
  BY <1>5, <1>6, <1>7 DEF all

\* The players of a lobby are read as they were meant.
LEMMA LobbyFaithful ==
  ASSUME NEW players \in Seq(WrittenPlayers), NEW id \in Int, NEW ev,
         ev = [type |-> "lobby", id |-> id, players |-> players]
  PROVE  /\ Seen(receive_event(Send(ev)).event) = Means(ev)
         /\ receive_event(Send(ev)).took = Len(Send(ev))
<1> DEFINE m == Send(ev)
           n == Len(players)
           head == <<<<1, 33>>, <<4, id>>, <<2, n>>>>
           s == [i \in DOMAIN players |-> SendPlayer(players[i])]
           t == FlattenSeq(s)
<1>1. n \in Nat /\ DOMAIN players = 1 .. n /\ \A i \in 1 .. n : players[i] \in WrittenPlayers
  BY LenProperties
<1>2. m = head \o t
  BY DEF Send, send_snapshot_lobby_to_client, Ops, Joined, One, Two, Four
<1>3. Len(head) = 3 /\ head[1] = <<1, 33>> /\ head[2] = <<4, id>> /\ head[3] = <<2, n>>
  OBVIOUS
<1>4. head \in Seq(AllFields)
  <2>1. <<1, 33>> \in AllFields /\ <<4, id>> \in AllFields /\ <<2, n>> \in AllFields
    BY <1>1 DEF AllFields
  <2> QED
    BY <2>1
<1>5. s \in Seq(Seq(AllFields)) /\ Len(s) = n /\ \A i \in 1 .. n : s[i] = SendPlayer(players[i]) /\ Len(s[i]) = 3
  <2>1. \A i \in 1 .. n : SendPlayer(players[i]) \in Seq(AllFields) /\ Len(SendPlayer(players[i])) = 3
    BY <1>1, PlayerFields
  <2> QED
    BY <1>1, <2>1
<1>6. /\ t \in Seq(AllFields) /\ Len(t) = 3 * n
      /\ \A i \in 1 .. n : HasAt(t, 3 * (i - 1) + 1, s[i])
  <2> HIDE DEF s
  <2>1. s \in Seq(Seq(AllFields)) /\ 3 \in {2, 3, 5, 6} /\ \A i \in 1 .. Len(s) : Len(s[i]) = 3
    BY <1>5
  <2>2. t \in Seq(AllFields) /\ Len(t) = 3 * Len(s) /\ \A i \in 1 .. Len(s) : HasAt(t, 3 * (i - 1) + 1, s[i])
    BY <2>1, EvenPieces
  <2> QED
    BY <2>2, <1>5
<1> HIDE DEF m, head, s, t
<1>7. /\ m \in Seq(AllFields) /\ Len(m) = 3 + 3 * n /\ HasAt(m, 1, head) /\ HasAt(m, 4, t)
  <2>1. head \in Seq(AllFields) /\ t \in Seq(AllFields)
    BY <1>4, <1>6
  <2>2. m \in Seq(AllFields) /\ Len(m) = Len(head) + Len(t) /\ HasAt(m, 1, head) /\ HasAt(m, Len(head) + 1, t)
    BY <2>1, <1>2, HasPieces
  <2> QED
    BY <2>2, <1>3, <1>6
<1>8. Read(m, 1, 1) = 33 /\ Read(m, 2, 4) = id /\ Read(m, 3, 2) = n
  <2>1. ASSUME NEW j \in 1 .. 3, NEW w, NEW v, head[j] = <<w, v>> PROVE Read(m, 1 + j - 1, w) = v
    <3>1. m \in Seq(AllFields) /\ HasAt(m, 1, head) /\ j \in 1 .. Len(head) /\ Len(head) \in Nat /\ 1 \in Int
      BY <1>3, <1>7
    <3> QED
      BY <3>1, <2>1, ReadHas
  <2>2. 1 + 1 - 1 = 1 /\ 1 + 2 - 1 = 2 /\ 1 + 3 - 1 = 3
    OBVIOUS
  <2> QED
    BY <2>1, <2>2, <1>3
<1>9. ASSUME NEW i \in 1 .. n
      PROVE  /\ ReadString(m, 4 + 3 * (i - 1)) = players[i].name
             /\ Read(m, 6 + 3 * (i - 1), 1) = players[i].model
  <2> DEFINE q == 3 * (i - 1) + 1
             x == players[i]
             r == SendPlayer(x)
  <2>1. q \in Int /\ Len(t) \in Nat /\ 4 \in Int /\ 4 + q - 1 \in Int
    BY <1>1, <1>6
  <2>2. x \in WrittenPlayers /\ HasAt(t, q, r)
    BY <1>1, <1>5, <1>6
  <2>3. 4 + q - 1 + 1 - 1 = 4 + 3 * (i - 1) /\ 4 + q - 1 + 2 - 1 = 4 + 3 * (i - 1) + 1
        /\ 4 + q - 1 + 3 - 1 = 6 + 3 * (i - 1)
    OBVIOUS
  <2> HIDE DEF q, x
  <2>4. /\ Len(r) = 3 /\ r[1] = <<2, NameLength[x.name]>> /\ r[2] = <<NameLength[x.name], x.name>>
        /\ r[3] = <<1, x.model>>
    BY <2>2, PlayerFields
  <2> HIDE DEF r
  <2>5. HasAt(m, 4 + q - 1, r)
    BY <2>1, <2>2, <2>4, <1>7, HasWithin
  <2> DEFINE p == 4 + q - 1
  <2>6. ASSUME NEW j \in 1 .. 3, NEW w, NEW v, r[j] = <<w, v>> PROVE Read(m, p + j - 1, w) = v
    <3>1. m \in Seq(AllFields) /\ HasAt(m, p, r) /\ j \in 1 .. Len(r) /\ Len(r) \in Nat /\ p \in Int
      BY <1>7, <2>1, <2>4, <2>5
    <3> HIDE DEF p
    <3> QED
      BY <3>1, <2>6, ReadHas
  <2>7. /\ Read(m, 4 + 3 * (i - 1), 2) = NameLength[x.name]
        /\ Read(m, 4 + 3 * (i - 1) + 1, NameLength[x.name]) = x.name
        /\ Read(m, 6 + 3 * (i - 1), 1) = x.model
    BY <2>3, <2>4, <2>6
  <2> QED
    BY <2>7 DEF ReadString, x
<1>10. ReadCount(m, 3) = n
  BY <1>1, <1>8 DEF ReadCount
<1> DEFINE e == [type |-> "SNAPSHOT_LOBBY", lobby_code |-> id, players |-> players]
           got == [i \in 1 .. n |-> [name |-> ReadString(m, 4 + 3 * (i - 1)), model |-> Read(m, 6 + 3 * (i - 1), 1)]]
<1>11. got = players
  <2>1. \A i \in 1 .. n : players[i] = [name |-> players[i].name, model |-> players[i].model]
    BY <1>1 DEF WrittenPlayers
  <2>2. \A i \in 1 .. n : got[i] = players[i]
    BY <2>1, <1>9
  <2>3. DOMAIN got = 1 .. n /\ got = [i \in 1 .. n |-> got[i]]
    OBVIOUS
  <2>4. players = [i \in 1 .. n |-> players[i]]
    BY <1>1
  <2> HIDE DEF got
  <2> QED
    BY <2>2, <2>3, <2>4
<1>12. receive_event(m) = [event |-> e, took |-> 3 + 3 * n]
  <2>1. receive_event(m) = receive_snapshot_lobby(m)
    BY <1>8 DEF receive_event
  <2>2. receive_snapshot_lobby(m) =
          [event |-> [type |-> "SNAPSHOT_LOBBY", lobby_code |-> id, players |-> got], took |-> 3 + 3 * n]
    BY <1>8, <1>10 DEF receive_snapshot_lobby, Took
  <2> HIDE DEF got
  <2> QED
    BY <2>1, <2>2, <1>11
<1>13. Seen(e) = e
  BY DEF Seen
<1>14. Means(ev) = e
  BY DEF Means
<1> HIDE DEF e
<1> QED
  BY <1>7, <1>12, <1>13, <1>14 DEF m

\* Three pieces of a message.
InTurn(m, a, b, c) ==
  /\ Len(m) = Len(a) + Len(b) + Len(c)
  /\ HasAt(m, 1, a) /\ HasAt(m, Len(a) + 1, b) /\ HasAt(m, Len(a) + Len(b) + 1, c)

\* Three pieces put together stand one after the other.
LEMMA ThreePieces ==
  ASSUME NEW a \in Seq(AllFields), NEW b \in Seq(AllFields), NEW c \in Seq(AllFields), NEW m, m = a \o b \o c
  PROVE  /\ m \in Seq(AllFields) /\ Len(a) \in Nat /\ Len(b) \in Nat /\ Len(c) \in Nat
         /\ InTurn(m, a, b, c)
<1> DEFINE d == a \o b
<1>1. d \in Seq(AllFields) /\ Len(a) \in Nat /\ Len(b) \in Nat /\ Len(d) = Len(a) + Len(b)
      /\ HasAt(d, 1, a) /\ HasAt(d, Len(a) + 1, b)
  BY HasPieces
<1>2. m = d \o c
  OBVIOUS
<1> HIDE DEF d
<1>3. m \in Seq(AllFields) /\ Len(d) \in Nat /\ Len(c) \in Nat /\ Len(m) = Len(d) + Len(c)
      /\ HasAt(m, 1, d) /\ HasAt(m, Len(d) + 1, c)
  <2>1. d \in Seq(AllFields)
    BY <1>1
  <2> QED
    BY <2>1, <1>2, HasPieces
<1>4. HasAt(m, 1, a)
  <2>1. 1 \in Int /\ Len(a) \in Nat /\ Len(d) \in Nat
    BY <1>1, <1>3
  <2> QED
    BY <2>1, <1>1, <1>3, HasFront
<1>5. HasAt(m, Len(a) + 1, b)
  <2>1. Len(a) + 1 \in Int /\ Len(b) \in Nat /\ Len(d) \in Nat
    BY <1>1, <1>3
  <2> QED
    BY <2>1, <1>1, <1>3, HasFront
<1>6. HasAt(m, Len(a) + Len(b) + 1, c)
  <2>1. Len(d) + 1 = Len(a) + Len(b) + 1
    BY <1>1
  <2> QED
    BY <2>1, <1>3
<1>7. Len(m) = Len(a) + Len(b) + Len(c)
  BY <1>1, <1>3
<1> QED
  BY <1>1, <1>3, <1>4, <1>5, <1>6, <1>7 DEF InTurn

\* A piece of a piece, counted from the front.
LEMMA HasInside ==
  ASSUME NEW m, NEW t, NEW s, NEW p \in Int, NEW q \in Int, NEW at, at = p + q - 1,
         Len(s) \in Nat, Len(t) \in Nat, HasAt(m, p, t), HasAt(t, q, s)
  PROVE  HasAt(m, at, s)
BY HasWithin

\* A field alone.
LEMMA ReadOne ==
  ASSUME NEW m \in Seq(AllFields), NEW p \in Int, NEW w, NEW v, HasAt(m, p, <<<<w, v>>>>)
  PROVE  Read(m, p, w) = v
<1> DEFINE s == <<<<w, v>>>>
<1>1. 1 \in 1 .. Len(s) /\ Len(s) \in Nat /\ s[1] = <<w, v>> /\ p + 1 - 1 = p
  OBVIOUS
<1> HIDE DEF s
<1>2. Read(m, p + 1 - 1, w) = v
  BY <1>1, ReadHas DEF s
<1> QED
  BY <1>1, <1>2

-----------------------------------------------------------------------------
\* What is said before a race is read as it was meant.
LEMMA PregameFaithful ==
  ASSUME NEW remaining \in Int, NEW ev,
         ev = [type |-> "pregame", pole |-> <<1, 2, 3, 4, 2>>, remaining |-> remaining, map |-> 1,
               total |-> 2, move |-> 1]
  PROVE  /\ Seen(receive_event(Send(ev)).event) = Means(ev)
         /\ receive_event(Send(ev)).took = Len(Send(ev))
<1> DEFINE m == Send(ev)
           pole == <<1, 2, 3, 4, 2>>
           a == <<<<1, 35>>>>
           b == <<<<4, 1>>, <<4, 2>>, <<4, 3>>, <<4, 4>>, <<1, 2>>>>
           c == <<<<2, remaining>>, <<1, 1>>, <<4, 2>>, <<4, 1>>>>
<1>1. m = a \o b \o c
  <2>1. a = <<One(Ops.pregame)>>
    BY DEF Ops, One
  <2>2. b = Fields(<<4, 4, 4, 4, 1>>, ev.pole)
    BY DEF Fields
  <2>3. c = Fields(<<2, 1, 4, 4>>, <<ev.remaining, ev.map, ev.total, ev.move>>)
    BY DEF Fields
  <2>4. m = <<One(Ops.pregame)>> \o Fields(<<4, 4, 4, 4, 1>>, ev.pole)
              \o Fields(<<2, 1, 4, 4>>, <<ev.remaining, ev.map, ev.total, ev.move>>)
    BY DEF Send, send_pre_game_snapshot_to_client
  <2> HIDE DEF a, b, c, m
  <2> QED
    BY <2>1, <2>2, <2>3, <2>4, Zenon
<1>2. a \in Seq(AllFields) /\ b \in Seq(AllFields) /\ c \in Seq(AllFields)
  <2>1. /\ <<1, 35>> \in AllFields /\ <<4, 1>> \in AllFields /\ <<4, 2>> \in AllFields /\ <<4, 3>> \in AllFields
        /\ <<4, 4>> \in AllFields /\ <<1, 2>> \in AllFields /\ <<2, remaining>> \in AllFields
        /\ <<1, 1>> \in AllFields
    BY DEF AllFields
  <2> QED
    BY <2>1
<1>3. Len(a) = 1 /\ Len(b) = 5 /\ Len(c) = 4
  OBVIOUS
<1>4. /\ a[1] = <<1, 35>>
      /\ b[1] = <<4, 1>> /\ b[2] = <<4, 2>> /\ b[3] = <<4, 3>> /\ b[4] = <<4, 4>> /\ b[5] = <<1, 2>>
      /\ c[1] = <<2, remaining>> /\ c[2] = <<1, 1>> /\ c[3] = <<4, 2>> /\ c[4] = <<4, 1>>
  OBVIOUS
<1> HIDE DEF m, a, b, c
<1>5. m \in Seq(AllFields)
  BY <1>1, <1>2, ThreePieces
<1>6. Len(m) = 10 /\ HasAt(m, 1, a) /\ HasAt(m, 2, b) /\ HasAt(m, 7, c)
  <2>1. InTurn(m, a, b, c)
    BY <1>1, <1>2, ThreePieces
  <2>2. 1 + 1 = 2 /\ 1 + 5 + 1 = 7 /\ 1 + 5 + 4 = 10
    OBVIOUS
  <2> QED
    BY <2>1, <2>2, <1>3 DEF InTurn
<1>7. Read(m, 1, 1) = 35
  <2>1. 1 \in Int /\ Len(a) \in Nat /\ 1 \in 1 .. Len(a) /\ 1 + 1 - 1 = 1 /\ HasAt(m, 1, a)
    BY <1>3, <1>6
  <2>2. Read(m, 1 + 1 - 1, 1) = 35
    BY <2>1, <1>4, <1>5, ReadHas
  <2> QED
    BY <2>1, <2>2
<1>8. ReadAll(m, 2, <<4, 4, 4, 4, 1>>) = pole
  <2> DEFINE ws == <<4, 4, 4, 4, 1>>
  <2>1. ws \in [1 .. 5 -> Int] /\ pole \in [1 .. 5 -> Int] /\ 5 \in Nat /\ 2 \in Int
    OBVIOUS
  <2>2. \A j \in 1 .. 5 : b[j] = <<ws[j], pole[j]>>
    <3>1. /\ ws[1] = 4 /\ ws[2] = 4 /\ ws[3] = 4 /\ ws[4] = 4 /\ ws[5] = 1
          /\ pole[1] = 1 /\ pole[2] = 2 /\ pole[3] = 3 /\ pole[4] = 4 /\ pole[5] = 2
      OBVIOUS
    <3>2. \A j \in 1 .. 5 : j = 1 \/ j = 2 \/ j = 3 \/ j = 4 \/ j = 5
      OBVIOUS
    <3> HIDE DEF ws, pole
    <3> QED
      BY <3>1, <3>2, <1>4
  <2> HIDE DEF ws, pole
  <2>3. ReadAll(m, 2, ws) = pole
    BY <2>1, <2>2, <1>3, <1>5, <1>6, ReadRow
  <2> QED
    BY <2>3 DEF ws
<1>9. Read(m, 7, 2) = remaining /\ Read(m, 8, 1) = 1 /\ Read(m, 9, 4) = 2 /\ Read(m, 10, 4) = 1
  <2>1. 7 + 1 - 1 = 7 /\ 7 + 2 - 1 = 8 /\ 7 + 3 - 1 = 9 /\ 7 + 4 - 1 = 10
        /\ 1 \in 1 .. 4 /\ 2 \in 1 .. 4 /\ 3 \in 1 .. 4 /\ 4 \in 1 .. 4
    OBVIOUS
  <2>2. ASSUME NEW j \in 1 .. 4, NEW w, NEW v, c[j] = <<w, v>> PROVE Read(m, 7 + j - 1, w) = v
    <3>1. HasAt(m, 7, c) /\ j \in 1 .. Len(c) /\ Len(c) \in Nat /\ 7 \in Int
      BY <1>3, <1>6
    <3> QED
      BY <3>1, <2>2, <1>5, ReadHas
  <2> QED
    BY <2>1, <2>2, <1>4
<1> DEFINE e == [type |-> "PREGAME", pole |-> pole, is_last_map |-> remaining = 0, map |-> 1,
                 game_total_time |-> 2, game_start_time |-> 1]
           f == [type |-> "PREGAME", pole |-> pole, map |-> 1, game_total_time |-> 2, game_start_time |-> 1]
<1>10. receive_event(m) = [event |-> e, took |-> 10]
  <2>1. receive_event(m) = receive_pre_game_snapshot(m)
    BY <1>7 DEF receive_event
  <2>2. [pole EXCEPT ![5] = IF @ \in 1 .. 4 THEN @ ELSE 0] = pole
    OBVIOUS
  <2> HIDE DEF pole
  <2>3. receive_pre_game_snapshot(m) = [event |-> e, took |-> 10]
    BY <2>2, <1>8, <1>9 DEF receive_pre_game_snapshot, Took
  <2> QED
    BY <2>1, <2>3
<1>11. Seen(e) = f
  <2>1. /\ DOMAIN e \ {"is_last_map"} = DOMAIN f /\ e.type = "PREGAME"
        /\ f = [k \in DOMAIN f |-> f[k]] /\ \A k \in DOMAIN f : e[k] = f[k]
    <3> HIDE DEF pole
    <3> QED
      OBVIOUS
  <2> HIDE DEF e, f
  <2>2. Seen(e) = [k \in DOMAIN e \ {"is_last_map"} |-> e[k]]
    BY <2>1 DEF Seen
  <2> QED
    BY <2>1, <2>2
<1>12. Means(ev) = f
  BY DEF Means
<1>13. Len(m) = 10
  BY <1>6
<1> HIDE DEF e, f
<1>14. receive_event(m).event = e /\ receive_event(m).took = 10
  BY <1>10
<1> QED
  BY <1>11, <1>12, <1>13, <1>14, Zenon DEF m

-----------------------------------------------------------------------------
\* The corners of a checkpoint are read as they were written.
LEMMA CornersLaid ==
  ASSUME NEW s \in Corners, NEW t, t = Joined(SendCoord, s)
  PROVE  /\ t \in Seq(AllFields) /\ Len(s) \in Nat /\ Len(t) = 2 * Len(s)
         /\ \A i \in 1 .. Len(s) : HasAt(t, 2 * (i - 1) + 1, SendCoord(s[i]))
         /\ \A i \in 1 .. Len(s) :
              /\ s[i] \in [1 .. 2 -> Int] /\ Len(SendCoord(s[i])) = 2
              /\ SendCoord(s[i])[1] = <<4, s[i][1]>> /\ SendCoord(s[i])[2] = <<4, s[i][2]>>
<1> DEFINE ps == [i \in DOMAIN s |-> SendCoord(s[i])]
<1>1. Len(s) \in Nat /\ DOMAIN s = 1 .. Len(s) /\ \A i \in 1 .. Len(s) : s[i] \in [1 .. 2 -> Int]
  BY LenProperties DEF Corners
<1>2. ASSUME NEW i \in 1 .. Len(s)
      PROVE  /\ SendCoord(s[i]) \in Seq(AllFields) /\ Len(SendCoord(s[i])) = 2
             /\ SendCoord(s[i])[1] = <<4, s[i][1]>> /\ SendCoord(s[i])[2] = <<4, s[i][2]>>
  <2>1. s[i][1] \in Int /\ s[i][2] \in Int
    BY <1>1
  <2>2. SendCoord(s[i]) = <<<<4, s[i][1]>>, <<4, s[i][2]>>>>
    BY DEF SendCoord, Four
  <2>3. <<4, s[i][1]>> \in AllFields /\ <<4, s[i][2]>> \in AllFields
    BY <2>1 DEF AllFields
  <2> QED
    BY <2>2, <2>3
<1>3. ps \in Seq(Seq(AllFields)) /\ Len(ps) = Len(s) /\ \A i \in 1 .. Len(s) : ps[i] = SendCoord(s[i]) /\ Len(ps[i]) = 2
  BY <1>1, <1>2
<1>4. t = FlattenSeq(ps)
  BY DEF Joined
<1> HIDE DEF ps
<1>5. t \in Seq(AllFields) /\ Len(t) = 2 * Len(ps) /\ \A i \in 1 .. Len(ps) : HasAt(t, 2 * (i - 1) + 1, ps[i])
  <2>1. ps \in Seq(Seq(AllFields)) /\ 2 \in {2, 3, 5, 6} /\ \A i \in 1 .. Len(ps) : Len(ps[i]) = 2
    BY <1>3
  <2> QED
    BY <2>1, <1>4, EvenPieces
<1> QED
  BY <1>1, <1>2, <1>3, <1>5

\* The corners written from p on are read from p on.
LEMMA CornersRead ==
  ASSUME NEW s \in Corners, NEW m \in Seq(AllFields), NEW p \in Int, HasAt(m, p, Joined(SendCoord, s))
  PROVE  ReadCoords(m, p, Len(s)) = s
<1> DEFINE t == Joined(SendCoord, s)
<1>1. /\ Len(s) \in Nat /\ Len(t) = 2 * Len(s)
      /\ \A i \in 1 .. Len(s) : HasAt(t, 2 * (i - 1) + 1, SendCoord(s[i]))
      /\ \A i \in 1 .. Len(s) :
           /\ s[i] \in [1 .. 2 -> Int] /\ Len(SendCoord(s[i])) = 2
           /\ SendCoord(s[i])[1] = <<4, s[i][1]>> /\ SendCoord(s[i])[2] = <<4, s[i][2]>>
  BY CornersLaid
<1> HIDE DEF t
<1>2. ASSUME NEW i \in 1 .. Len(s) PROVE ReadAll(m, p + 2 * (i - 1), <<4, 4>>) = s[i]
  <2> DEFINE q == 2 * (i - 1) + 1
             r == SendCoord(s[i])
             at == s[i]
             ws == <<4, 4>>
  <2>1. /\ q \in Int /\ Len(t) \in Nat /\ p + q - 1 \in Int /\ p + q - 1 = p + 2 * (i - 1)
        /\ ws \in [1 .. 2 -> Int] /\ 2 \in Nat /\ ws[1] = 4 /\ ws[2] = 4
    BY <1>1
  <2>2. at \in [1 .. 2 -> Int] /\ Len(r) = 2 /\ r[1] = <<4, at[1]>> /\ r[2] = <<4, at[2]>>
    BY <1>1
  <2>3. HasAt(t, q, r)
    BY <1>1
  <2> HIDE DEF q, r, at, ws
  <2>4. HasAt(m, p + q - 1, r)
    <3>1. Len(r) \in Nat /\ HasAt(m, p, t)
      BY <2>2 DEF t
    <3> QED
      BY <3>1, <2>1, <2>3, HasWithin
  <2>5. \A j \in 1 .. 2 : r[j] = <<ws[j], at[j]>>
    <3>1. \A j \in 1 .. 2 : j = 1 \/ j = 2
      OBVIOUS
    <3> QED
      BY <3>1, <2>1, <2>2
  <2> DEFINE x == p + q - 1
  <2>7. x \in Int /\ HasAt(m, x, r)
    BY <2>1, <2>4
  <2> HIDE DEF x
  <2>6. ReadAll(m, x, ws) = at
    BY <2>1, <2>2, <2>5, <2>7, ReadRow
  <2> QED
    BY <2>1, <2>6 DEF at, ws, x
<1>3. s = [i \in 1 .. Len(s) |-> s[i]]
  BY LenProperties DEF Corners
<1> QED
  BY <1>2, <1>3 DEF ReadCoords

\* The ten fields of a car, and how all of a car is laid out.
CarWidths == <<4, 1, 2, 2, 1, 1, 4, 4, 1, 4>>
CarLaid(t, c) ==
  LET n == Len(c.next)
      k == Len(c.after)
  IN  /\ HasAt(t, 1, Fields(CarWidths, c.car)) /\ HasAt(t, 11, <<<<2, n>>>>)
      /\ HasAt(t, 12, Joined(SendCoord, c.next)) /\ HasAt(t, 12 + 2 * n, <<<<1, c.goal>>>>)
      /\ HasAt(t, 13 + 2 * n, <<<<1, c.second>>>>)
      /\ c.second = 0 => Len(t) = 13 + 2 * n
      /\ c.second = 1 =>
           /\ Len(t) = 15 + 2 * n + 2 * k /\ HasAt(t, 14 + 2 * n, <<<<2, k>>>>)
           /\ HasAt(t, 15 + 2 * n, Joined(SendCoord, c.after))
           /\ HasAt(t, 15 + 2 * n + 2 * k, <<<<1, c.afterGoal>>>>)

\* The ten fields a car begins with.
LEMMA TenFields ==
  ASSUME NEW f \in [1 .. 10 -> Int]
  PROVE  /\ CarWidths \in [1 .. 10 -> Int] /\ Fields(CarWidths, f) \in Seq(AllFields)
         /\ Len(Fields(CarWidths, f)) = 10
         /\ \A j \in 1 .. 10 : Fields(CarWidths, f)[j] = <<CarWidths[j], f[j]>>
<1>1. CarWidths \in [1 .. 10 -> Int]
  BY DEF CarWidths
<1>2. Fields(CarWidths, f) = [j \in 1 .. 10 |-> <<CarWidths[j], f[j]>>]
  BY <1>1 DEF Fields
<1>3. \A j \in 1 .. 10 : <<CarWidths[j], f[j]>> \in AllFields
  BY <1>1 DEF AllFields
<1> QED
  BY <1>1, <1>2, <1>3

\* One field is a message.
LEMMA OneField ==
  ASSUME NEW x \in AllFields
  PROVE  <<x>> \in Seq(AllFields) /\ Len(<<x>>) = 1
OBVIOUS

\* Two fields in a row, as one sequence.
LEMMA TwoTogether ==
  ASSUME NEW x, NEW y
  PROVE  <<x>> \o <<y>> = <<x, y>>
<1> DEFINE a == <<x>>
           b == <<y>>
           c == <<x, y>>
           E == {x, y}
<1>1. a \in Seq(E) /\ b \in Seq(E) /\ c \in Seq(E)
  OBVIOUS
<1>2. Len(a) = 1 /\ Len(b) = 1 /\ Len(c) = 2 /\ a[1] = x /\ b[1] = y /\ c[1] = x /\ c[2] = y
  OBVIOUS
<1> HIDE DEF a, b, c, E
<1>3. /\ a \o b \in Seq(E) /\ Len(a \o b) = Len(a) + Len(b)
      /\ \A i \in 1 .. Len(a) + Len(b) : (a \o b)[i] = IF i <= Len(a) THEN a[i] ELSE b[i - Len(a)]
  BY <1>1, ConcatProperties
<1>4. Len(a \o b) = 2 /\ (a \o b)[1] = x /\ (a \o b)[2] = y
  <2>1. 1 + 1 = 2 /\ 1 \in 1 .. 2 /\ 2 \in 1 .. 2 /\ 1 <= 1 /\ ~(2 <= 1) /\ 2 - 1 = 1
    OBVIOUS
  <2> QED
    BY <2>1, <1>2, <1>3
<1>5. \A i \in 1 .. 2 : (a \o b)[i] = c[i]
  <2>1. \A i \in 1 .. 2 : i = 1 \/ i = 2
    OBVIOUS
  <2> QED
    BY <2>1, <1>2, <1>4
<1>6. a \o b = c
  BY <1>1, <1>2, <1>3, <1>4, <1>5, SeqEqual
<1> QED
  BY <1>6 DEF a, b, c

\* A third field after two.
LEMMA ThreeTogether ==
  ASSUME NEW x, NEW y, NEW z
  PROVE  <<x, y>> \o <<z>> = <<x, y, z>>
<1> DEFINE a == <<x, y>>
           b == <<z>>
           c == <<x, y, z>>
           E == {x, y, z}
<1>1. a \in Seq(E) /\ b \in Seq(E) /\ c \in Seq(E)
  OBVIOUS
<1>2. /\ Len(a) = 2 /\ Len(b) = 1 /\ Len(c) = 3 /\ a[1] = x /\ a[2] = y /\ b[1] = z
      /\ c[1] = x /\ c[2] = y /\ c[3] = z
  OBVIOUS
<1> HIDE DEF a, b, c, E
<1>3. /\ a \o b \in Seq(E) /\ Len(a \o b) = Len(a) + Len(b)
      /\ \A i \in 1 .. Len(a) + Len(b) : (a \o b)[i] = IF i <= Len(a) THEN a[i] ELSE b[i - Len(a)]
  BY <1>1, ConcatProperties
<1>4. Len(a \o b) = 3 /\ (a \o b)[1] = x /\ (a \o b)[2] = y /\ (a \o b)[3] = z
  <2>1. /\ 2 + 1 = 3 /\ 1 \in 1 .. 3 /\ 2 \in 1 .. 3 /\ 3 \in 1 .. 3 /\ 1 <= 2 /\ 2 <= 2
        /\ ~(3 <= 2) /\ 3 - 2 = 1
    OBVIOUS
  <2> QED
    BY <2>1, <1>2, <1>3
<1>5. \A i \in 1 .. 3 : (a \o b)[i] = c[i]
  <2>1. \A i \in 1 .. 3 : i = 1 \/ i = 2 \/ i = 3
    OBVIOUS
  <2> QED
    BY <2>1, <1>2, <1>4
<1>6. a \o b = c
  BY <1>1, <1>2, <1>3, <1>4, <1>5, SeqEqual
<1> QED
  BY <1>6 DEF a, b, c

\* The server lays a car out like that.
LEMMA CarSent ==
  ASSUME NEW c \in WrittenCars
  PROVE  SendCar(c) \in Seq(AllFields) /\ CarLaid(SendCar(c), c)
<1> DEFINE n == Len(c.next)
           k == Len(c.after)
           F == Fields(CarWidths, c.car)
           N == <<<<2, n>>>>
           C == Joined(SendCoord, c.next)
           G == <<<<1, c.goal>>>>
           S == <<<<1, c.second>>>>
           X == F \o N \o C
           D == G \o S
           N2 == <<<<2, k>>>>
           C2 == Joined(SendCoord, c.after)
           G2 == <<<<1, c.afterGoal>>>>
           R == IF c.second = 0 THEN <<>> ELSE N2 \o C2 \o G2
           t == SendCar(c)
<1>1. /\ c.car \in [1 .. 10 -> Int] /\ c.next \in Corners /\ c.after \in Corners
      /\ c.goal \in {0, 1} /\ c.second \in {0, 1} /\ c.afterGoal \in {0, 1}
  BY DEF WrittenCars
<1>2. n \in Nat /\ C \in Seq(AllFields) /\ Len(C) = 2 * n
  <2>1. c.next \in Corners
    BY <1>1
  <2> QED
    BY <2>1, CornersLaid
<1>3. k \in Nat /\ C2 \in Seq(AllFields) /\ Len(C2) = 2 * k
  <2>1. c.after \in Corners
    BY <1>1
  <2> QED
    BY <2>1, CornersLaid
<1>4. F \in Seq(AllFields) /\ Len(F) = 10
  BY <1>1, TenFields
<1>5. /\ N \in Seq(AllFields) /\ Len(N) = 1 /\ G \in Seq(AllFields) /\ Len(G) = 1
      /\ S \in Seq(AllFields) /\ Len(S) = 1 /\ N2 \in Seq(AllFields) /\ Len(N2) = 1
      /\ G2 \in Seq(AllFields) /\ Len(G2) = 1
  <2>1. /\ <<2, n>> \in AllFields /\ <<1, c.goal>> \in AllFields /\ <<1, c.second>> \in AllFields
        /\ <<2, k>> \in AllFields /\ <<1, c.afterGoal>> \in AllFields
    <3>1. \A w, v \in Int : <<w, v>> \in AllFields
      BY DEF AllFields
    <3>2. n \in Int /\ k \in Int /\ c.goal \in Int /\ c.second \in Int /\ c.afterGoal \in Int /\ 1 \in Int /\ 2 \in Int
      <4>1. n \in Int /\ k \in Int
        BY <1>2, <1>3
      <4>2. c.goal \in {0, 1} /\ c.second \in {0, 1} /\ c.afterGoal \in {0, 1}
        BY <1>1
      <4> HIDE DEF n, k
      <4> QED
        BY <4>1, <4>2
    <3> HIDE DEF n, k
    <3> QED
      BY <3>1, <3>2
  <2> QED
    BY <2>1, OneField
<1>6. t = X \o D \o R
  <2>1. N = <<Two(Len(c.next))>> /\ N2 = <<Two(Len(c.after))>> /\ G2 = <<One(c.afterGoal)>>
    BY DEF One, Two
  <2>2. D = <<One(c.goal), One(c.second)>>
    BY TwoTogether DEF One
  <2>3. t = Fields(CarWidths, c.car) \o <<Two(Len(c.next))>> \o Joined(SendCoord, c.next)
              \o <<One(c.goal), One(c.second)>>
              \o (IF c.second = 0 THEN <<>>
                  ELSE <<Two(Len(c.after))>> \o Joined(SendCoord, c.after) \o <<One(c.afterGoal)>>)
    BY Zenon DEF SendCar, CarWidths
  <2> HIDE DEF t, D, F, N, C, N2, C2, G2
  <2> QED
    BY <2>1, <2>2, <2>3, Zenon DEF F, C, C2
<1> HIDE DEF F, N, C, G, S, N2, C2, G2, n, k
<1>7. X \in Seq(AllFields) /\ InTurn(X, F, N, C)
  <2>1. F \in Seq(AllFields) /\ N \in Seq(AllFields) /\ C \in Seq(AllFields)
    BY <1>2, <1>4, <1>5
  <2> QED
    BY <2>1, ThreePieces
<1>8. D \in Seq(AllFields) /\ Len(D) = 2 /\ HasAt(D, 1, G) /\ HasAt(D, 2, S)
  <2>1. G \in Seq(AllFields) /\ S \in Seq(AllFields)
    BY <1>5
  <2>2. D \in Seq(AllFields) /\ Len(D) = Len(G) + Len(S) /\ HasAt(D, 1, G) /\ HasAt(D, Len(G) + 1, S)
    BY <2>1, HasPieces
  <2>3. 1 + 1 = 2
    OBVIOUS
  <2> HIDE DEF D
  <2> QED
    BY <2>2, <2>3, <1>5
<1>9. R \in Seq(AllFields) /\ (c.second = 0 => Len(R) = 0) /\ (c.second = 1 => InTurn(R, N2, C2, G2))
  <2>1. CASE c.second = 0
    BY <2>1
  <2>2. CASE c.second = 1
    <3>1. N2 \in Seq(AllFields) /\ C2 \in Seq(AllFields) /\ G2 \in Seq(AllFields)
      BY <1>3, <1>5
    <3>2. R = N2 \o C2 \o G2
      BY <2>2
    <3> HIDE DEF R
    <3>3. R \in Seq(AllFields) /\ InTurn(R, N2, C2, G2)
      BY <3>1, <3>2, ThreePieces
    <3> QED
      BY <3>3, <2>2
  <2> QED
    BY <2>1, <2>2, <1>1
<1> HIDE DEF X, D, R, t
<1>10. t \in Seq(AllFields) /\ InTurn(t, X, D, R) /\ Len(R) \in Nat
  <2>1. X \in Seq(AllFields) /\ D \in Seq(AllFields) /\ R \in Seq(AllFields)
    BY <1>7, <1>8, <1>9
  <2> QED
    BY <2>1, <1>6, ThreePieces
<1>11. Len(X) = 11 + 2 * n /\ HasAt(X, 1, F) /\ HasAt(X, 11, N) /\ HasAt(X, 12, C)
  <2>1. 10 + 1 = 11 /\ 10 + 1 + 1 = 12 /\ 10 + 1 + 2 * n = 11 + 2 * n
    BY <1>2
  <2> QED
    BY <2>1, <1>2, <1>4, <1>5, <1>7 DEF InTurn
<1>12. /\ Len(t) = 13 + 2 * n + Len(R) /\ HasAt(t, 1, X) /\ HasAt(t, 12 + 2 * n, D)
       /\ HasAt(t, 14 + 2 * n, R)
  <2>1. /\ (11 + 2 * n) + 1 = 12 + 2 * n /\ (11 + 2 * n) + 2 + 1 = 14 + 2 * n
        /\ (11 + 2 * n) + 2 + Len(R) = 13 + 2 * n + Len(R)
    BY <1>2, <1>10
  <2>2. Len(t) = Len(X) + Len(D) + Len(R) /\ HasAt(t, 1, X) /\ HasAt(t, Len(X) + 1, D)
        /\ HasAt(t, Len(X) + Len(D) + 1, R)
    BY <1>10 DEF InTurn
  <2>3. Len(X) = 11 + 2 * n /\ Len(D) = 2
    BY <1>8, <1>11
  <2> QED
    BY <2>1, <2>2, <2>3
<1>13. HasAt(t, 1, F) /\ HasAt(t, 11, N) /\ HasAt(t, 12, C)
  <2>1. /\ Len(X) \in Nat /\ Len(F) \in Nat /\ Len(N) \in Nat /\ Len(C) \in Nat
        /\ 1 \in Int /\ 11 \in Int /\ 12 \in Int
    BY <1>2, <1>4, <1>5, <1>11
  <2>2. HasAt(t, 1, F)
    BY <2>1, <1>11, <1>12, HasFront
  <2>3. HasAt(t, 11, N)
    BY <2>1, <1>11, <1>12, HasFront
  <2>4. HasAt(t, 12, C)
    BY <2>1, <1>11, <1>12, HasFront
  <2> QED
    BY <2>2, <2>3, <2>4
<1>14. HasAt(t, 12 + 2 * n, G) /\ HasAt(t, 13 + 2 * n, S)
  <2> DEFINE p == 12 + 2 * n
             q == 13 + 2 * n
  <2>1. /\ Len(D) \in Nat /\ Len(G) \in Nat /\ Len(S) \in Nat /\ p \in Int /\ 1 \in Int /\ 2 \in Int
        /\ p = p + 1 - 1 /\ q = p + 2 - 1
    BY <1>2, <1>5, <1>8
  <2>2. HasAt(t, p, D)
    BY <1>12
  <2> HIDE DEF p, q
  <2>3. HasAt(t, p, G)
    BY <2>1, <2>2, <1>8, HasInside
  <2>4. HasAt(t, q, S)
    BY <2>1, <2>2, <1>8, HasInside
  <2> QED
    BY <2>3, <2>4 DEF p, q
<1>15. ASSUME c.second = 1
       PROVE  /\ Len(t) = 15 + 2 * n + 2 * k /\ HasAt(t, 14 + 2 * n, N2)
              /\ HasAt(t, 15 + 2 * n, C2) /\ HasAt(t, 15 + 2 * n + 2 * k, G2)
  <2> DEFINE p == 14 + 2 * n
             q == 15 + 2 * n
             r == 15 + 2 * n + 2 * k
             k2 == 2 * k + 2
  <2>1. Len(R) = Len(N2) + Len(C2) + Len(G2) /\ HasAt(R, 1, N2) /\ HasAt(R, Len(N2) + 1, C2)
        /\ HasAt(R, Len(N2) + Len(C2) + 1, G2)
    BY <1>9, <1>15 DEF InTurn
  <2>2. /\ Len(N2) + 1 = 2 /\ Len(N2) + Len(C2) + 1 = k2 /\ Len(N2) + Len(C2) + Len(G2) = k2
    BY <1>3, <1>5
  <2>3. Len(R) = k2 /\ HasAt(R, 1, N2) /\ HasAt(R, 2, C2) /\ HasAt(R, k2, G2)
    BY <2>1, <2>2
  <2>4. /\ Len(R) \in Nat /\ Len(N2) \in Nat /\ Len(C2) \in Nat /\ Len(G2) \in Nat
        /\ p \in Int /\ 1 \in Int /\ 2 \in Int /\ k2 \in Int
        /\ p = p + 1 - 1 /\ q = p + 2 - 1 /\ r = p + k2 - 1
    BY <1>2, <1>3, <1>5, <1>10
  <2>5. Len(t) = 13 + 2 * n + Len(R)
    BY <1>12
  <2>6. Len(t) = r
    BY <2>3, <2>5, <1>2, <1>3
  <2>7. HasAt(t, p, R)
    BY <1>12
  <2> HIDE DEF p, q, r, k2
  <2>8. HasAt(t, p, N2)
    BY <2>3, <2>4, <2>7, HasInside
  <2>9. HasAt(t, q, C2)
    BY <2>3, <2>4, <2>7, HasInside
  <2>10. HasAt(t, r, G2)
    BY <2>3, <2>4, <2>7, HasInside
  <2> QED
    BY <2>6, <2>8, <2>9, <2>10 DEF p, q, r
<1>16. c.second = 0 => Len(t) = 13 + 2 * n
  <2>1. Len(t) = 13 + 2 * n + Len(R)
    BY <1>12
  <2> QED
    BY <2>1, <1>2, <1>9
<1> QED
  BY <1>10, <1>13, <1>14, <1>15, <1>16, Zenon DEF CarLaid, t, F, N, C, G, S, N2, C2, G2, n, k

\* The sound of a car is one of three: the reader takes it for what it is.
LEMMA ChangedAt ==
  ASSUME NEW f, f = [i \in 1 .. 10 |-> f[i]], NEW b
  PROVE  LET g == [f EXCEPT ![2] = b]
         IN  DOMAIN g = 1 .. 10 /\ g[6] = f[6] /\ g = [i \in 1 .. 10 |-> g[i]]
<1> DEFINE g == [f EXCEPT ![2] = b]
<1>1. DOMAIN f = 1 .. 10
  OBVIOUS
<1>2. g = [i \in 1 .. 10 |-> IF i = 2 THEN b ELSE f[i]]
  BY <1>1
<1> HIDE DEF g
<1>3. DOMAIN g = 1 .. 10 /\ g[6] = f[6] /\ \A i \in 1 .. 10 : g[i] = IF i = 2 THEN b ELSE f[i]
  BY <1>2
<1>4. g = [i \in 1 .. 10 |-> g[i]]
  BY <1>2, <1>3
<1> QED
  BY <1>3, <1>4 DEF g

\* A sound is read as it was written: the reader corrects only what no car has.
LEMMA CarFields ==
  ASSUME NEW f \in [1 .. 10 -> Int], f[6] \in 0 .. 2
  PROVE  [f EXCEPT ![2] = (@ = 1), ![6] = IF @ \in {1, 2} THEN @ ELSE 0] = [f EXCEPT ![2] = (@ = 1)]
<1> DEFINE b == (f[2] = 1)
           g == [f EXCEPT ![2] = b]
           h == [g EXCEPT ![6] = IF @ \in {1, 2} THEN @ ELSE 0]
<1>1. /\ DOMAIN g = 1 .. 10 /\ g[6] = f[6] /\ g = [i \in 1 .. 10 |-> g[i]]
  <2>1. f = [i \in 1 .. 10 |-> f[i]]
    OBVIOUS
  <2> HIDE DEF b
  <2> QED
    BY <2>1, ChangedAt
<1>2. (IF f[6] \in {1, 2} THEN f[6] ELSE 0) = f[6]
  OBVIOUS
<1> HIDE DEF g
<1>3. h = [i \in 1 .. 10 |-> IF i = 6 THEN (IF g[6] \in {1, 2} THEN g[6] ELSE 0) ELSE g[i]]
  BY <1>1
<1>4. h = g
  <2>1. \A i \in 1 .. 10 : (IF i = 6 THEN (IF g[6] \in {1, 2} THEN g[6] ELSE 0) ELSE g[i]) = g[i]
    BY <1>1, <1>2
  <2> QED
    BY <2>1, <1>1, <1>3
<1> QED
  BY <1>4 DEF g, h, b

\* A car is read as it was written.
CarRead(c, end) ==
  [car |-> [c.car EXCEPT ![2] = (@ = 1)], next |-> c.next, finishline |-> c.goal = 1,
   second |-> c.second = 1, after |-> c.after, afterFinishline |-> c.afterGoal = 1, end |-> end]

\* A car written at p is read at p, and the reader stops where the car ends.
LEMMA CarFaithful ==
  ASSUME NEW c \in WrittenCars, NEW m \in Seq(AllFields), NEW p \in Int, HasAt(m, p, SendCar(c))
  PROVE  Len(SendCar(c)) \in Nat /\ ReadCar(m, p) = CarRead(c, p + Len(SendCar(c)))
<1> DEFINE n == Len(c.next)
           k == Len(c.after)
           t == SendCar(c)
           goal == p + 11 + 2 * n
<1>1. c.car \in [1 .. 10 -> Int] /\ c.car[6] \in 0 .. 2
  BY DEF WrittenCars
<1>2. c.goal \in {0, 1} /\ c.second \in {0, 1} /\ c.afterGoal \in {0, 1}
  BY DEF WrittenCars
<1>3. c.next \in Corners /\ c.after \in Corners
  BY DEF WrittenCars
<1>4. c.second = 0 => c.after = <<>> /\ c.afterGoal = 0
  BY DEF WrittenCars
<1>5. n \in Nat /\ Len(Joined(SendCoord, c.next)) \in Nat
  <2>1. n \in Nat /\ Len(Joined(SendCoord, c.next)) = 2 * n
    BY <1>3, CornersLaid
  <2> QED
    BY <2>1
<1>6. k \in Nat /\ Len(Joined(SendCoord, c.after)) \in Nat
  <2>1. k \in Nat /\ Len(Joined(SendCoord, c.after)) = 2 * k
    BY <1>3, CornersLaid
  <2> QED
    BY <2>1
<1>7. CarLaid(t, c) /\ Len(t) \in Nat
  <2>1. t \in Seq(AllFields) /\ CarLaid(t, c)
    BY CarSent
  <2> QED
    BY <2>1, LenProperties
<1>8. HasAt(m, p, t)
  OBVIOUS
<1> HIDE DEF n, k, t
<1>9. ASSUME NEW q \in Int, NEW w, NEW v, HasAt(t, q, <<<<w, v>>>>) PROVE Read(m, p + q - 1, w) = v
  <2> DEFINE s == <<<<w, v>>>>
             at == p + q - 1
  <2>1. at \in Int /\ at = p + q - 1 /\ Len(s) \in Nat
    OBVIOUS
  <2> HIDE DEF s, at
  <2>2. HasAt(m, at, s)
    BY <2>1, <1>7, <1>8, <1>9, HasInside DEF s
  <2>3. Read(m, at, w) = v
    BY <2>1, <2>2, ReadOne DEF s
  <2> QED
    BY <2>3 DEF at
<1>10. ReadAll(m, p, CarWidths) = c.car
  <2> DEFINE F == Fields(CarWidths, c.car)
  <2>1. CarWidths \in [1 .. 10 -> Int] /\ Len(F) = 10 /\ \A j \in 1 .. 10 : F[j] = <<CarWidths[j], c.car[j]>>
    BY <1>1, TenFields
  <2>2. HasAt(t, 1, F)
    BY <1>7, Zenon DEF CarLaid
  <2> HIDE DEF F
  <2>3. HasAt(m, p, F)
    <3>1. 1 \in Int /\ p = p + 1 - 1 /\ Len(F) \in Nat
      BY <2>1
    <3> QED
      BY <3>1, <2>2, <1>7, <1>8, HasInside
  <2>4. c.car \in [1 .. 10 -> Int] /\ 10 \in Nat
    BY <1>1
  <2> DEFINE ws == CarWidths
             vs == c.car
  <2>5. ws \in [1 .. 10 -> Int] /\ vs \in [1 .. 10 -> Int] /\ \A j \in 1 .. 10 : F[j] = <<ws[j], vs[j]>>
    BY <2>1, <2>4
  <2> HIDE DEF ws, vs
  <2>6. ReadAll(m, p, ws) = vs
    BY <2>1, <2>3, <2>4, <2>5, ReadRow
  <2> QED
    BY <2>6 DEF ws, vs
<1>11. ReadCount(m, p + 10) = n
  <2>1. HasAt(t, 11, <<<<2, n>>>>)
    BY <1>7, Zenon DEF CarLaid, n
  <2>2. Read(m, p + 11 - 1, 2) = n
    BY <2>1, <1>9
  <2>3. p + 11 - 1 = p + 10
    OBVIOUS
  <2> QED
    BY <2>2, <2>3, <1>5 DEF ReadCount
<1>12. ReadCoords(m, p + 11, n) = c.next
  <2> DEFINE s == Joined(SendCoord, c.next)
             at == p + 11
  <2>1. HasAt(t, 12, s)
    BY <1>7, Zenon DEF CarLaid
  <2>2. at \in Int /\ at = p + 12 - 1 /\ 12 \in Int /\ Len(s) \in Nat
    BY <1>5
  <2> HIDE DEF s, at
  <2>3. HasAt(m, at, s)
    BY <2>1, <2>2, <1>7, <1>8, HasInside
  <2>4. ReadCoords(m, at, n) = c.next
    BY <2>2, <2>3, <1>3, CornersRead DEF s, n
  <2> QED
    BY <2>4 DEF at
<1>13. Read(m, goal, 1) = c.goal
  <2>1. HasAt(t, 12 + 2 * n, <<<<1, c.goal>>>>)
    BY <1>7, Zenon DEF CarLaid, n
  <2> DEFINE q == 12 + 2 * n
  <2>2. q \in Int /\ p + q - 1 = goal
    BY <1>5
  <2>3. HasAt(t, q, <<<<1, c.goal>>>>)
    BY <2>1
  <2> HIDE DEF q, goal
  <2>4. Read(m, p + q - 1, 1) = c.goal
    BY <2>2, <2>3, <1>9
  <2> QED
    BY <2>2, <2>4
<1>14. Read(m, goal + 1, 1) = c.second
  <2>1. HasAt(t, 13 + 2 * n, <<<<1, c.second>>>>)
    BY <1>7, Zenon DEF CarLaid, n
  <2> DEFINE q == 13 + 2 * n
  <2>2. q \in Int /\ p + q - 1 = goal + 1
    BY <1>5
  <2>3. HasAt(t, q, <<<<1, c.second>>>>)
    BY <2>1
  <2> HIDE DEF q, goal
  <2>4. Read(m, p + q - 1, 1) = c.second
    BY <2>2, <2>3, <1>9
  <2> QED
    BY <2>2, <2>4
<1> DEFINE second == Read(m, goal + 1, 1) = 1
           kk == IF second THEN ReadCount(m, goal + 2) ELSE 0
           car == ReadAll(m, p, <<4, 1, 2, 2, 1, 1, 4, 4, 1, 4>>)
           got == [car |-> [car EXCEPT ![2] = (@ = 1), ![6] = IF @ \in {1, 2} THEN @ ELSE 0],
                   next |-> ReadCoords(m, p + 11, n), finishline |-> Read(m, goal, 1) # 0, second |-> second,
                   after |-> ReadCoords(m, goal + 3, kk),
                   afterFinishline |-> second /\ Read(m, goal + 3 + 2 * kk, 1) # 0,
                   end |-> IF second THEN goal + 4 + 2 * kk ELSE goal + 2]
<1>15. ReadCar(m, p) = got
  BY <1>11 DEF ReadCar
<1>16. [car EXCEPT ![2] = (@ = 1), ![6] = IF @ \in {1, 2} THEN @ ELSE 0] = [c.car EXCEPT ![2] = (@ = 1)]
  <2>1. car = c.car
    BY <1>10 DEF CarWidths
  <2> QED
    BY <2>1, <1>1, CarFields
<1>17. (Read(m, goal, 1) # 0) = (c.goal = 1) /\ second = (c.second = 1)
  BY <1>2, <1>13, <1>14
<1>18. CASE c.second = 0
  <2>1. second = FALSE /\ kk = 0
    BY <1>14, <1>18
  <2>2. ReadCoords(m, goal + 3, kk) = c.after
    BY <2>1, <1>4, <1>18 DEF ReadCoords
  <2>3. (second /\ Read(m, goal + 3 + 2 * kk, 1) # 0) = (c.afterGoal = 1)
    BY <2>1, <1>4, <1>18
  <2>4. (IF second THEN goal + 4 + 2 * kk ELSE goal + 2) = p + Len(t)
    <3>1. Len(t) = 13 + 2 * n
      BY <1>7, <1>18, Zenon DEF CarLaid, n
    <3> QED
      BY <3>1, <2>1, <1>5
  <2> HIDE DEF goal, second, kk, car
  <2> QED
    BY <2>2, <2>3, <2>4, <1>7, <1>12, <1>15, <1>16, <1>17 DEF CarRead, t
<1>19. CASE c.second = 1
  <2>1. second = TRUE
    BY <1>14, <1>19
  <2>2. /\ Len(t) = 15 + 2 * n + 2 * k /\ HasAt(t, 14 + 2 * n, <<<<2, k>>>>)
        /\ HasAt(t, 15 + 2 * n, Joined(SendCoord, c.after))
        /\ HasAt(t, 15 + 2 * n + 2 * k, <<<<1, c.afterGoal>>>>)
    BY <1>7, <1>19, Zenon DEF CarLaid, n, k
  <2>3. kk = k
    <3> DEFINE q == 14 + 2 * n
    <3>1. q \in Int /\ p + q - 1 = goal + 2
      BY <1>5
    <3>2. HasAt(t, q, <<<<2, k>>>>)
      BY <2>2
    <3> HIDE DEF q, goal
    <3>3. Read(m, p + q - 1, 2) = k
      BY <3>1, <3>2, <1>9
    <3> QED
      BY <3>1, <3>3, <2>1, <1>6 DEF ReadCount
  <2>4. ReadCoords(m, goal + 3, kk) = c.after
    <3> DEFINE q == 15 + 2 * n
               s == Joined(SendCoord, c.after)
               at == goal + 3
    <3>1. q \in Int /\ at \in Int /\ at = p + q - 1 /\ Len(s) \in Nat
      BY <1>5, <1>6
    <3>2. HasAt(t, q, s)
      BY <2>2
    <3> HIDE DEF q, goal, s, at
    <3>3. HasAt(m, at, s)
      BY <3>1, <3>2, <1>7, <1>8, HasInside
    <3>4. ReadCoords(m, at, k) = c.after
      BY <3>1, <3>3, <1>3, CornersRead DEF s, k
    <3> QED
      BY <3>4, <2>3 DEF at
  <2>5. (second /\ Read(m, goal + 3 + 2 * kk, 1) # 0) = (c.afterGoal = 1)
    <3> DEFINE q == 15 + 2 * n + 2 * k
    <3>1. q \in Int /\ p + q - 1 = goal + 3 + 2 * k
      BY <1>5, <1>6
    <3>2. HasAt(t, q, <<<<1, c.afterGoal>>>>)
      BY <2>2
    <3> HIDE DEF q, goal
    <3>3. Read(m, p + q - 1, 1) = c.afterGoal
      BY <3>1, <3>2, <1>9
    <3>4. Read(m, goal + 3 + 2 * kk, 1) = c.afterGoal
      BY <3>1, <3>3, <2>3
    <3> QED
      BY <3>4, <2>1, <1>2
  <2>6. (IF second THEN goal + 4 + 2 * kk ELSE goal + 2) = p + Len(t)
    BY <2>1, <2>2, <2>3, <1>5, <1>6
  <2> HIDE DEF goal, second, kk, car
  <2> QED
    BY <2>4, <2>5, <2>6, <1>7, <1>12, <1>15, <1>16, <1>17 DEF CarRead, t
<1> QED
  BY <1>2, <1>18, <1>19

\* The cars of a snapshot, one after the other: where each is found.
IsWalk(at, m, n) == at = [i \in 1 .. n + 1 |-> IF i = 1 THEN 4 ELSE ReadCar(m, at[i - 1]).end]
SnapshotEvent(m, n, at) ==
  LET k == ReadCount(m, at[n + 1])
  IN  Took([type |-> "SNAPSHOT", actual_time |-> Read(m, 2, 4),
            cars |-> [i \in 1 .. n |-> ReadCar(m, at[i])],
            npcs |-> [i \in 1 .. k |-> ReadAll(m, at[n + 1] + 1 + 6 * (i - 1), <<2, 1, 4, 4, 1, 4>>)]],
           at[n + 1] + 6 * k)

Walked(m, n, off, at) ==
  receive_snapshot(m) = SnapshotEvent(m, n, at) /\ \A i \in 0 .. n : at[i + 1] = 4 + off[i]
CarsEnd(m, n, off) == off[0] = 0 /\ \A i \in 1 .. n : ReadCar(m, 4 + off[i - 1]).end = 4 + off[i]

\* The reader finds every car where the cars before it end.
LEMMA WalkFound ==
  ASSUME NEW m, NEW n \in Nat, NEW off \in [0 .. n -> Nat], CarsEnd(m, n, off), ReadCount(m, 3) = n
  PROVE  \E at : Walked(m, n, off, at)
<1>0. off[0] = 0 /\ \A i \in 1 .. n : ReadCar(m, 4 + off[i - 1]).end = 4 + off[i]
  BY DEF CarsEnd
<1> DEFINE Eq(g) == g = [i \in 1 .. n + 1 |-> IF i = 1 THEN 4 ELSE ReadCar(m, g[i - 1]).end]
           it == CHOOSE g : Eq(g)
           w == [i \in 1 .. n + 1 |-> 4 + off[i - 1]]
<1>1. Eq(w)
  <2>1. ASSUME NEW i \in 1 .. n + 1 PROVE w[i] = IF i = 1 THEN 4 ELSE ReadCar(m, w[i - 1]).end
    <3>1. CASE i = 1
      <4>1. i - 1 = 0 /\ w[i] = 4 + off[i - 1] /\ off[0] = 0
        BY <3>1, <1>0
      <4> HIDE DEF w
      <4> QED
        BY <4>1, <3>1
    <3>2. CASE i # 1
      <4>1. i - 1 \in 1 .. n /\ i - 1 \in 1 .. n + 1
        BY <3>2
      <4>2. w[i - 1] = 4 + off[(i - 1) - 1] /\ w[i] = 4 + off[i - 1]
        BY <4>1
      <4> HIDE DEF w
      <4>3. ReadCar(m, w[i - 1]).end = w[i]
        BY <4>1, <4>2, <1>0
      <4> QED
        BY <4>3, <3>2
    <3> QED
      BY <3>1, <3>2
  <2>2. DOMAIN w = 1 .. n + 1 /\ w = [i \in 1 .. n + 1 |-> w[i]]
    OBVIOUS
  <2> HIDE DEF w
  <2> QED
    BY <2>1, <2>2
<1>2. Eq(it)
  <2> HIDE DEF Eq, w
  <2> QED
    BY <1>1
<1>3. receive_snapshot(m) = SnapshotEvent(m, n, it)
  <2> DEFINE nn == ReadCount(m, 3)
             jt == CHOOSE g : g = [i \in 1 .. nn + 1 |-> IF i = 1 THEN 4 ELSE ReadCar(m, g[i - 1]).end]
  <2>1. receive_snapshot(m) = SnapshotEvent(m, nn, jt)
    BY Zenon DEF receive_snapshot, SnapshotEvent
  <2>2. nn = n
    OBVIOUS
  <2> QED
    BY <2>1, <2>2, Zenon
<1> HIDE DEF it
<1>4. \A i \in 1 .. n + 1 : it[i] = IF i = 1 THEN 4 ELSE ReadCar(m, it[i - 1]).end
  BY <1>2
<1> DEFINE S == {i \in Nat : i <= n => it[i + 1] = 4 + off[i]}
<1>5. 0 \in S
  <2>1. 1 \in 1 .. n + 1 /\ 0 + 1 = 1 /\ 4 + 0 = 4
    OBVIOUS
  <2>2. it[1] = 4
    BY <2>1, <1>4
  <2> HIDE DEF Eq
  <2> QED
    BY <2>1, <2>2, <1>0
<1>6. ASSUME NEW i \in Nat, i \in S PROVE i + 1 \in S
  <2> SUFFICES ASSUME i + 1 <= n PROVE it[(i + 1) + 1] = 4 + off[i + 1]
    OBVIOUS
  <2>1. /\ i + 1 \in 1 .. n /\ (i + 1) - 1 = i /\ i <= n /\ (i + 1) + 1 \in 1 .. n + 1
        /\ (i + 1) + 1 # 1 /\ ((i + 1) + 1) - 1 = i + 1
    OBVIOUS
  <2>2. it[i + 1] = 4 + off[i]
    BY <2>1, <1>6
  <2>3. it[(i + 1) + 1] = ReadCar(m, it[i + 1]).end
    <3> HIDE DEF Eq, S
    <3> QED
      BY <2>1, <1>4
  <2>4. ReadCar(m, 4 + off[i]).end = 4 + off[i + 1]
    <3>1. ReadCar(m, 4 + off[(i + 1) - 1]).end = 4 + off[i + 1]
      BY <2>1, <1>0
    <3> QED
      BY <3>1, <2>1
  <2> QED
    BY <2>2, <2>3, <2>4
<1>7. \A i \in Nat : i \in S
  <2> HIDE DEF S
  <2> QED
    BY <1>5, <1>6, FromZero
<1>8. \A i \in 0 .. n : it[i + 1] = 4 + off[i]
  BY <1>7
<1> QED
  BY <1>3, <1>8 DEF Walked

-----------------------------------------------------------------------------
\* A car of the traffic is six fields, and is read as it was written.
NpcWidths == <<2, 1, 4, 4, 1, 4>>

\* A car of the traffic is six fields.
LEMMA NpcFields ==
  ASSUME NEW v \in [1 .. 6 -> Int]
  PROVE  /\ SendNpc(v) \in Seq(AllFields) /\ Len(SendNpc(v)) = 6
         /\ \A j \in 1 .. 6 : SendNpc(v)[j] = <<NpcWidths[j], v[j]>>
<1>1. NpcWidths \in [1 .. 6 -> Int] /\ SendNpc(v) = Fields(NpcWidths, v)
  BY DEF NpcWidths, SendNpc
<1>2. SendNpc(v) = [j \in 1 .. 6 |-> <<NpcWidths[j], v[j]>>]
  BY <1>1 DEF Fields
<1>3. \A j \in 1 .. 6 : <<NpcWidths[j], v[j]>> \in AllFields
  BY <1>1 DEF AllFields
<1> QED
  BY <1>2, <1>3

\* The cars of the traffic stand six fields apart.
LEMMA NpcsLaid ==
  ASSUME NEW npcs \in Seq([1 .. 6 -> Int]), NEW t, t = Joined(SendNpc, npcs)
  PROVE  /\ t \in Seq(AllFields) /\ Len(npcs) \in Nat /\ Len(t) = 6 * Len(npcs)
         /\ \A i \in 1 .. Len(npcs) :
              npcs[i] \in [1 .. 6 -> Int] /\ HasAt(t, 6 * (i - 1) + 1, SendNpc(npcs[i]))
<1> DEFINE s == [i \in DOMAIN npcs |-> SendNpc(npcs[i])]
<1>1. Len(npcs) \in Nat /\ DOMAIN npcs = 1 .. Len(npcs) /\ \A i \in 1 .. Len(npcs) : npcs[i] \in [1 .. 6 -> Int]
  BY LenProperties
<1>2. \A i \in 1 .. Len(npcs) : SendNpc(npcs[i]) \in Seq(AllFields) /\ Len(SendNpc(npcs[i])) = 6
  BY <1>1, NpcFields
<1>3. s \in Seq(Seq(AllFields)) /\ Len(s) = Len(npcs) /\ \A i \in 1 .. Len(npcs) : s[i] = SendNpc(npcs[i]) /\ Len(s[i]) = 6
  BY <1>1, <1>2
<1>4. t = FlattenSeq(s)
  BY DEF Joined
<1> HIDE DEF s
<1>5. t \in Seq(AllFields) /\ Len(t) = 6 * Len(s) /\ \A i \in 1 .. Len(s) : HasAt(t, 6 * (i - 1) + 1, s[i])
  <2>1. s \in Seq(Seq(AllFields)) /\ 6 \in {2, 3, 5, 6} /\ \A i \in 1 .. Len(s) : Len(s[i]) = 6
    BY <1>3
  <2> QED
    BY <2>1, <1>4, EvenPieces
<1> QED
  BY <1>1, <1>3, <1>5

\* They are read as they were written.
LEMMA NpcsRead ==
  ASSUME NEW npcs \in Seq([1 .. 6 -> Int]), NEW m \in Seq(AllFields), NEW p \in Int,
         HasAt(m, p, Joined(SendNpc, npcs))
  PROVE  [i \in 1 .. Len(npcs) |-> ReadAll(m, p + 6 * (i - 1), NpcWidths)] = npcs
<1>0. NpcWidths \in [1 .. 6 -> Int]
  BY DEF NpcWidths
<1> DEFINE t == Joined(SendNpc, npcs)
<1>1. /\ Len(npcs) \in Nat /\ Len(t) = 6 * Len(npcs)
      /\ \A i \in 1 .. Len(npcs) :
           npcs[i] \in [1 .. 6 -> Int] /\ HasAt(t, 6 * (i - 1) + 1, SendNpc(npcs[i]))
  BY NpcsLaid
<1> HIDE DEF t
<1>2. ASSUME NEW i \in 1 .. Len(npcs) PROVE ReadAll(m, p + 6 * (i - 1), NpcWidths) = npcs[i]
  <2> DEFINE q == 6 * (i - 1) + 1
             at == p + 6 * (i - 1)
             v == npcs[i]
             r == SendNpc(v)
             ws == NpcWidths
  <2>1. q \in Int /\ at \in Int /\ at = p + q - 1 /\ Len(t) \in Nat
    BY <1>1
  <2>2. v \in [1 .. 6 -> Int] /\ HasAt(t, q, r)
    BY <1>1
  <2> HIDE DEF v
  <2>3. Len(r) = 6 /\ \A j \in 1 .. 6 : r[j] = <<ws[j], v[j]>>
    BY <2>2, NpcFields
  <2>4. ws \in [1 .. 6 -> Int] /\ 6 \in Nat
    BY <1>0
  <2> HIDE DEF q, at, r, ws
  <2>5. HasAt(m, at, r)
    <3>1. Len(r) \in Nat /\ HasAt(m, p, t)
      BY <2>3 DEF t
    <3> QED
      BY <3>1, <2>1, <2>2, HasInside
  <2>6. ReadAll(m, at, ws) = v
    BY <2>1, <2>2, <2>3, <2>4, <2>5, ReadRow
  <2> QED
    BY <2>6 DEF at, ws, v
<1>3. npcs = [i \in 1 .. Len(npcs) |-> npcs[i]]
  BY LenProperties
<1> QED
  BY <1>2, <1>3

-----------------------------------------------------------------------------
\* A snapshot on the connection: its head, the cars one after the other, and the traffic.
SnapshotLaid(m, time, cars, npcs, off) ==
  LET n == Len(cars)
  IN  /\ off[0] = 0
      /\ HasAt(m, 1, <<<<1, 1>>>>) /\ HasAt(m, 2, <<<<4, time>>>>) /\ HasAt(m, 3, <<<<2, n>>>>)
      /\ \A i \in 1 .. n : /\ off[i] = off[i - 1] + Len(SendCar(cars[i]))
                           /\ HasAt(m, 4 + off[i - 1], SendCar(cars[i]))
      /\ HasAt(m, 4 + off[n], <<<<2, Len(npcs)>>>>) /\ HasAt(m, 5 + off[n], Joined(SendNpc, npcs))
      /\ Len(m) = 4 + off[n] + 6 * Len(npcs)

\* What a snapshot looks like on the wire.
LEMMA SnapshotSent ==
  ASSUME NEW time \in Int, NEW cars \in Seq(WrittenCars), NEW npcs \in Seq([1 .. 6 -> Int]), NEW ev,
         ev = [type |-> "snapshot", time |-> time, cars |-> cars, npcs |-> npcs], NEW m, m = Send(ev)
  PROVE  m \in Seq(AllFields) /\ \E off \in [0 .. Len(cars) -> Nat] : SnapshotLaid(m, time, cars, npcs, off)
<1> DEFINE n == Len(cars)
           k == Len(npcs)
           O == <<<<1, 1>>>>
           T == <<<<4, time>>>>
           N == <<<<2, n>>>>
           H == O \o T \o N
           s == [i \in DOMAIN cars |-> SendCar(cars[i])]
           C == FlattenSeq(s)
           K == <<<<2, k>>>>
           X == H \o C \o K
           P == Joined(SendNpc, npcs)
<1>1. n \in Nat /\ DOMAIN cars = 1 .. n /\ \A i \in 1 .. n : cars[i] \in WrittenCars
  BY LenProperties
<1>2. P \in Seq(AllFields) /\ k \in Nat /\ Len(P) = 6 * k
  BY NpcsLaid
<1>3. /\ O \in Seq(AllFields) /\ Len(O) = 1 /\ T \in Seq(AllFields) /\ Len(T) = 1
      /\ N \in Seq(AllFields) /\ Len(N) = 1 /\ K \in Seq(AllFields) /\ Len(K) = 1
  <2>1. <<1, 1>> \in AllFields /\ <<4, time>> \in AllFields /\ <<2, n>> \in AllFields /\ <<2, k>> \in AllFields
    <3>1. \A w, v \in Int : <<w, v>> \in AllFields
      BY DEF AllFields
    <3>2. n \in Int /\ k \in Int
      BY <1>1, <1>2
    <3> HIDE DEF n, k
    <3> QED
      BY <3>1, <3>2
  <2> QED
    BY <2>1, OneField
<1>4. s \in Seq(Seq(AllFields)) /\ Len(s) = n /\ \A i \in 1 .. n : s[i] = SendCar(cars[i])
  <2>1. \A i \in 1 .. n : SendCar(cars[i]) \in Seq(AllFields)
    BY <1>1, CarSent
  <2> QED
    BY <1>1, <2>1
<1>5. m = X \o P
  <2>1. m = <<One(Ops.snapshot), Four(time), Two(n)>> \o Joined(SendCar, cars) \o <<Two(k)>> \o Joined(SendNpc, npcs)
    BY DEF Send, send_snapshot_game_to_client
  <2>2. <<One(Ops.snapshot), Four(time), Two(n)>> = H
    <3>1. O \o T = <<<<1, 1>>, <<4, time>>>>
      BY TwoTogether
    <3>2. <<<<1, 1>>, <<4, time>>>> \o N = <<<<1, 1>>, <<4, time>>, <<2, n>>>>
      BY ThreeTogether
    <3>3. <<One(Ops.snapshot), Four(time), Two(n)>> = <<<<1, 1>>, <<4, time>>, <<2, n>>>>
      BY DEF One, Two, Four, Ops
    <3> HIDE DEF O, T, N
    <3> QED
      BY <3>1, <3>2, <3>3, Zenon
  <2>3. Joined(SendCar, cars) = C
    BY DEF Joined
  <2>4. K = <<Two(k)>>
    BY DEF Two
  <2> HIDE DEF H, C, K
  <2> QED
    BY <2>1, <2>2, <2>3, <2>4, Zenon
<1> HIDE DEF O, T, N, K, P, s, k
<1>6. C \in Seq(AllFields)
  BY <1>4, JoinedPieces
<1>7. PICK off \in [0 .. Len(s) -> Nat] :
        /\ off[0] = 0 /\ Len(C) = off[Len(s)]
        /\ \A i \in 1 .. Len(s) : off[i] = off[i - 1] + Len(s[i]) /\ HasAt(C, off[i - 1] + 1, s[i])
  BY <1>4, JoinedPieces
<1> HIDE DEF C
<1>8. H \in Seq(AllFields) /\ InTurn(H, O, T, N)
  <2>1. O \in Seq(AllFields) /\ T \in Seq(AllFields) /\ N \in Seq(AllFields)
    BY <1>3
  <2> QED
    BY <2>1, ThreePieces
<1> HIDE DEF H
<1>9. X \in Seq(AllFields) /\ InTurn(X, H, C, K)
  <2>1. H \in Seq(AllFields) /\ C \in Seq(AllFields) /\ K \in Seq(AllFields)
    BY <1>3, <1>6, <1>8
  <2> QED
    BY <2>1, ThreePieces
<1> HIDE DEF X
<1>10. m \in Seq(AllFields) /\ Len(m) = Len(X) + Len(P) /\ HasAt(m, 1, X) /\ HasAt(m, Len(X) + 1, P)
  <2>1. X \in Seq(AllFields) /\ P \in Seq(AllFields)
    BY <1>2, <1>9
  <2> QED
    BY <2>1, <1>5, HasPieces
<1>11. off[n] \in Nat /\ Len(C) = off[n] /\ n \in 0 .. n
  BY <1>1, <1>4, <1>7
<1>12. Len(H) = 3 /\ HasAt(H, 1, O) /\ HasAt(H, 2, T) /\ HasAt(H, 3, N)
  <2>1. 1 + 1 + 1 = 3 /\ 1 + 1 = 2
    OBVIOUS
  <2> QED
    BY <2>1, <1>3, <1>8 DEF InTurn
<1>13. Len(X) = 4 + off[n] /\ HasAt(X, 1, H) /\ HasAt(X, 4, C) /\ HasAt(X, 4 + off[n], K)
  <2>1. 3 + 1 = 4 /\ 3 + off[n] + 1 = 4 + off[n]
    BY <1>11
  <2>2. Len(X) = Len(H) + Len(C) + Len(K) /\ HasAt(X, 1, H) /\ HasAt(X, Len(H) + 1, C)
        /\ HasAt(X, Len(H) + Len(C) + 1, K)
    BY <1>9 DEF InTurn
  <2>3. Len(H) = 3 /\ Len(C) = off[n] /\ Len(K) = 1
    BY <1>3, <1>11, <1>12
  <2> QED
    BY <2>1, <2>2, <2>3
<1>14. /\ Len(m) = 4 + off[n] + 6 * k /\ HasAt(m, 1, X) /\ HasAt(m, 5 + off[n], P)
  <2>1. (4 + off[n]) + 1 = 5 + off[n]
    BY <1>11
  <2>2. Len(X) = 4 + off[n] /\ Len(P) = 6 * k
    BY <1>2, <1>13
  <2> QED
    BY <2>1, <2>2, <1>10
<1>15. /\ Len(X) \in Nat /\ Len(H) \in Nat /\ Len(C) \in Nat /\ Len(K) \in Nat
       /\ Len(O) \in Nat /\ Len(T) \in Nat /\ Len(N) \in Nat
  BY <1>3, <1>11, <1>12, <1>13
<1>16. HasAt(m, 1, H) /\ HasAt(m, 4, C) /\ HasAt(m, 4 + off[n], K)
  <2>1. 1 \in Int /\ 4 \in Int /\ 4 + off[n] \in Int
    BY <1>11
  <2>2. HasAt(m, 1, H)
    BY <2>1, <1>13, <1>14, <1>15, HasFront
  <2>3. HasAt(m, 4, C)
    BY <2>1, <1>13, <1>14, <1>15, HasFront
  <2> DEFINE p == 4 + off[n]
  <2>4. p \in Int /\ HasAt(X, p, K)
    BY <2>1, <1>13
  <2> HIDE DEF p
  <2>5. HasAt(m, p, K)
    BY <2>4, <1>14, <1>15, HasFront
  <2> QED
    BY <2>2, <2>3, <2>5 DEF p
<1>17. HasAt(m, 1, O) /\ HasAt(m, 2, T) /\ HasAt(m, 3, N)
  <2>1. 1 \in Int /\ 2 \in Int /\ 3 \in Int
    OBVIOUS
  <2>2. HasAt(m, 1, O)
    BY <2>1, <1>12, <1>15, <1>16, HasFront
  <2>3. HasAt(m, 2, T)
    BY <2>1, <1>12, <1>15, <1>16, HasFront
  <2>4. HasAt(m, 3, N)
    BY <2>1, <1>12, <1>15, <1>16, HasFront
  <2> QED
    BY <2>2, <2>3, <2>4
<1>18. ASSUME NEW i \in 1 .. n
       PROVE  off[i] = off[i - 1] + Len(SendCar(cars[i])) /\ HasAt(m, 4 + off[i - 1], SendCar(cars[i]))
  <2> DEFINE q == off[i - 1] + 1
             at == 4 + off[i - 1]
             r == SendCar(cars[i])
  <2>1. i \in 1 .. Len(s) /\ i - 1 \in 0 .. Len(s) /\ s[i] = r
    BY <1>1, <1>4
  <2>2. off[i - 1] \in Nat
    BY <2>1
  <2>3. off[i] = off[i - 1] + Len(r) /\ HasAt(C, q, r)
    BY <2>1, <1>7
  <2>4. q \in Int /\ at = 4 + q - 1 /\ 4 \in Int
    BY <2>2
  <2>5. Len(r) \in Nat
    <3>1. r \in Seq(AllFields)
      BY <1>1, CarSent
    <3> QED
      BY <3>1, LenProperties
  <2> HIDE DEF q, at, r
  <2>6. HasAt(m, at, r)
    BY <2>3, <2>4, <2>5, <1>15, <1>16, HasInside
  <2> QED
    BY <2>3, <2>6 DEF at, r
<1>19. off \in [0 .. n -> Nat] /\ off[0] = 0
  BY <1>4, <1>7
<1>20. SnapshotLaid(m, time, cars, npcs, off)
  BY <1>14, <1>16, <1>17, <1>18, <1>19, Zenon DEF SnapshotLaid, O, T, N, K, P, k
<1>21. m \in Seq(AllFields)
  BY <1>10
<1> QED
  BY <1>19, <1>20, <1>21

-----------------------------------------------------------------------------
\* A snapshot whose cars were put in another form.
WithCars(e, cars) == [e EXCEPT !.cars = cars]

\* WithCars as a record: its cars are the new ones.
LEMMA CarsRetold ==
  ASSUME NEW a, NEW b, NEW c, NEW d, NEW r,
         r = [type |-> "SNAPSHOT", actual_time |-> a, cars |-> b, npcs |-> c]
  PROVE  WithCars(r, d) = [type |-> "SNAPSHOT", actual_time |-> a, cars |-> d, npcs |-> c]
<1> DEFINE s == [type |-> "SNAPSHOT", actual_time |-> a, cars |-> d, npcs |-> c]
           x == [r EXCEPT !.cars = d]
<1>1. DOMAIN r = {"type", "actual_time", "cars", "npcs"}
      /\ r["type"] = "SNAPSHOT" /\ r["actual_time"] = a /\ r["npcs"] = c
  OBVIOUS
<1>2. DOMAIN s = {"type", "actual_time", "cars", "npcs"} /\ s = [f \in DOMAIN s |-> s[f]]
      /\ s["type"] = "SNAPSHOT" /\ s["actual_time"] = a /\ s["cars"] = d /\ s["npcs"] = c
  OBVIOUS
<1> HIDE DEF s
<1>3. x = [f \in DOMAIN r |-> IF f = "cars" THEN d ELSE r[f]]
  OBVIOUS
<1> HIDE DEF x
<1>4. \A f \in DOMAIN s : x[f] = s[f]
  BY <1>1, <1>2, <1>3
<1>5. DOMAIN x = DOMAIN s /\ x = [f \in DOMAIN x |-> x[f]]
  BY <1>1, <1>2, <1>3
<1>6. x = s
  BY <1>2, <1>4, <1>5
<1> QED
  BY <1>6 DEF s, x, WithCars

WithoutEnd(r) == [f \in DOMAIN r \ {"end"} |-> r[f]]

\* What a car means is what is read but for where it ended.
LEMMA CarMeant ==
  ASSUME NEW c, NEW end, NEW r, r = CarRead(c, end)
  PROVE  r.end = end /\ WithoutEnd(r) = MeansCar(c)
<1> DEFINE u == [c.car EXCEPT ![2] = (@ = 1)]
           v1 == (c.goal = 1)
           v2 == (c.second = 1)
           v3 == (c.afterGoal = 1)
           n == c.next
           a == c.after
           s == MeansCar(c)
<1>1. r = [car |-> u, next |-> n, finishline |-> v1, second |-> v2, after |-> a,
           afterFinishline |-> v3, end |-> end]
  BY DEF CarRead
<1>2. s = [car |-> u, next |-> n, finishline |-> v1, second |-> v2, after |-> a, afterFinishline |-> v3]
  BY DEF MeansCar
<1> HIDE DEF u, v1, v2, v3, n, a, s
<1>3. DOMAIN r \ {"end"} = DOMAIN s /\ s = [f \in DOMAIN s |-> s[f]]
  BY <1>1, <1>2
<1>4. \A f \in DOMAIN s : r[f] = s[f]
  BY <1>1, <1>2
<1>5. r.end = end
  BY <1>1
<1> QED
  BY <1>3, <1>4, <1>5 DEF s, WithoutEnd

\* A snapshot is read as it was meant.
LEMMA SnapshotFaithful ==
  ASSUME NEW time \in Int, NEW cars \in Seq(WrittenCars), NEW npcs \in Seq([1 .. 6 -> Int]), NEW ev,
         ev = [type |-> "snapshot", time |-> time, cars |-> cars, npcs |-> npcs]
  PROVE  /\ Seen(receive_event(Send(ev)).event) = Means(ev)
         /\ receive_event(Send(ev)).took = Len(Send(ev))
<1> DEFINE m == Send(ev)
           n == Len(cars)
           k == Len(npcs)
<1>1. n \in Nat /\ DOMAIN cars = 1 .. n /\ \A i \in 1 .. n : cars[i] \in WrittenCars
  BY LenProperties
<1>n. n \in Nat
  BY <1>1
<1>2. k \in Nat
  BY LenProperties
<1>3. m \in Seq(AllFields) /\ \E off \in [0 .. n -> Nat] : SnapshotLaid(m, time, cars, npcs, off)
  BY SnapshotSent
<1>4. PICK off \in [0 .. n -> Nat] : SnapshotLaid(m, time, cars, npcs, off)
  BY <1>3
<1>5. m \in Seq(AllFields)
  BY <1>3
<1> HIDE DEF m
<1>6. /\ off[0] = 0 /\ HasAt(m, 1, <<<<1, 1>>>>) /\ HasAt(m, 2, <<<<4, time>>>>) /\ HasAt(m, 3, <<<<2, n>>>>)
      /\ HasAt(m, 4 + off[n], <<<<2, k>>>>) /\ HasAt(m, 5 + off[n], Joined(SendNpc, npcs))
      /\ Len(m) = 4 + off[n] + 6 * k
  BY <1>4, Zenon DEF SnapshotLaid
<1>7. \A i \in 1 .. n : off[i] = off[i - 1] + Len(SendCar(cars[i])) /\ HasAt(m, 4 + off[i - 1], SendCar(cars[i]))
  BY <1>4, Zenon DEF SnapshotLaid
<1>8. off[n] \in Nat /\ \A i \in 1 .. n : off[i - 1] \in Nat
  <2>1. n \in 0 .. n /\ \A i \in 1 .. n : i - 1 \in 0 .. n
    BY <1>n
  <2> HIDE DEF n
  <2> QED
    BY <2>1
<1>9. Read(m, 1, 1) = 1 /\ Read(m, 2, 4) = time /\ Read(m, 3, 2) = n /\ Read(m, 4 + off[n], 2) = k
  <2>1. 1 \in Int /\ 2 \in Int /\ 3 \in Int
    OBVIOUS
  <2>2. Read(m, 1, 1) = 1
    BY <2>1, <1>5, <1>6, ReadOne
  <2>3. Read(m, 2, 4) = time
    BY <2>1, <1>5, <1>6, ReadOne
  <2>4. Read(m, 3, 2) = n
    BY <2>1, <1>5, <1>6, ReadOne
  <2> DEFINE p == 4 + off[n]
  <2>5. p \in Int /\ HasAt(m, p, <<<<2, k>>>>)
    BY <1>6, <1>8
  <2> HIDE DEF p
  <2>6. Read(m, p, 2) = k
    BY <2>5, <1>5, ReadOne
  <2> QED
    BY <2>2, <2>3, <2>4, <2>6 DEF p
<1>10. ASSUME NEW i \in 1 .. n PROVE ReadCar(m, 4 + off[i - 1]) = CarRead(cars[i], 4 + off[i])
  <2> DEFINE p == 4 + off[i - 1]
             c == cars[i]
  <2>1. off[i - 1] \in Nat /\ c \in WrittenCars
    BY <1>1, <1>8
  <2>2. p \in Int /\ HasAt(m, p, SendCar(c)) /\ off[i] = off[i - 1] + Len(SendCar(c))
    BY <2>1, <1>7
  <2> HIDE DEF c
  <2>3. Len(SendCar(c)) \in Nat /\ ReadCar(m, p) = CarRead(c, p + Len(SendCar(c)))
    <3> HIDE DEF p
    <3> QED
      BY <2>1, <2>2, <1>5, CarFaithful
  <2>4. p + Len(SendCar(c)) = 4 + off[i]
    BY <2>1, <2>2, <2>3
  <2> QED
    BY <2>3, <2>4 DEF c
<1>11. PICK at : Walked(m, n, off, at)
  <2>1. ASSUME NEW i \in 1 .. n PROVE ReadCar(m, 4 + off[i - 1]).end = 4 + off[i]
    BY <1>10, CarMeant
  <2>2. ReadCount(m, 3) = n
    BY <1>1, <1>9 DEF ReadCount
  <2>3. CarsEnd(m, n, off)
    BY <2>1, <1>6 DEF CarsEnd
  <2> QED
    <3>1. n \in Nat /\ off \in [0 .. n -> Nat] /\ off[0] = 0
      BY <1>n, <1>6
    <3> HIDE DEF n
    <3> QED
      BY <2>2, <2>3, <3>1, WalkFound
<1>12. at[n + 1] = 4 + off[n] /\ \A i \in 1 .. n : at[i] = 4 + off[i - 1]
  <2>1. n \in 0 .. n /\ \A i \in 1 .. n : i - 1 \in 0 .. n /\ (i - 1) + 1 = i
    BY <1>1
  <2>2. at[n + 1] = 4 + off[n]
    BY <2>1, <1>11 DEF Walked
  <2>3. ASSUME NEW i \in 1 .. n PROVE at[i] = 4 + off[i - 1]
    <3>1. i - 1 \in 0 .. n /\ (i - 1) + 1 = i
      BY <2>1
    <3>2. at[(i - 1) + 1] = 4 + off[i - 1]
      BY <3>1, <1>11 DEF Walked
    <3> QED
      BY <3>1, <3>2
  <2> QED
    BY <2>2, <2>3
<1> DEFINE got == [i \in 1 .. n |-> CarRead(cars[i], 4 + off[i])]
           e == [type |-> "SNAPSHOT", actual_time |-> time, cars |-> got, npcs |-> npcs]
<1>13. [i \in 1 .. k |-> ReadAll(m, at[n + 1] + 1 + 6 * (i - 1), <<2, 1, 4, 4, 1, 4>>)] = npcs
  <2> DEFINE p == 5 + off[n]
  <2>1. p \in Int /\ HasAt(m, p, Joined(SendNpc, npcs)) /\ at[n + 1] + 1 = p
    BY <1>6, <1>8, <1>12
  <2> HIDE DEF p
  <2>2. [i \in 1 .. k |-> ReadAll(m, p + 6 * (i - 1), NpcWidths)] = npcs
    BY <2>1, <1>5, NpcsRead
  <2> QED
    BY <2>1, <2>2 DEF NpcWidths
<1>14. [i \in 1 .. n |-> ReadCar(m, at[i])] = got
  BY <1>10, <1>12
<1>15. ReadCount(m, at[n + 1]) = k
  BY <1>2, <1>9, <1>12 DEF ReadCount
<1>16. receive_event(m).event = e /\ receive_event(m).took = 4 + off[n] + 6 * k
  <2>1. receive_event(m) = receive_snapshot(m)
    BY <1>9 DEF receive_event
  <2> HIDE DEF got
  <2>2. SnapshotEvent(m, n, at) = [event |-> e, took |-> 4 + off[n] + 6 * k]
    BY <1>9, <1>12, <1>13, <1>14, <1>15 DEF SnapshotEvent, Took
  <2> HIDE DEF e
  <2> QED
    BY <2>1, <2>2, <1>11 DEF Walked
<1>17. [i \in DOMAIN got |-> [f \in DOMAIN got[i] \ {"end"} |-> got[i][f]]]
         = [i \in 1 .. n |-> MeansCar(cars[i])]
  <2>1. ASSUME NEW i \in 1 .. n PROVE [f \in DOMAIN got[i] \ {"end"} |-> got[i][f]] = MeansCar(cars[i])
    <3> DEFINE r == got[i]
               end == 4 + off[i]
               c == cars[i]
    <3>1. r = CarRead(c, end)
      OBVIOUS
    <3> HIDE DEF r, end, c, got
    <3>2. WithoutEnd(r) = MeansCar(c)
      BY <3>1, CarMeant
    <3> QED
      BY <3>2 DEF WithoutEnd, r, c
  <2>2. DOMAIN got = 1 .. n
    OBVIOUS
  <2> HIDE DEF got
  <2> QED
    BY <2>1, <2>2
<1>18. Seen(e) = Means(ev)
  <2> DEFINE cs == [i \in DOMAIN got |-> [f \in DOMAIN got[i] \ {"end"} |-> got[i][f]]]
  <2>1. e.type = "SNAPSHOT" /\ e.cars = got
    OBVIOUS
  <2>2. Seen(e) = WithCars(e, cs)
    <3> HIDE DEF e, got
    <3> QED
      BY <2>1 DEF Seen, WithCars
  <2>3. WithCars(e, cs) = [type |-> "SNAPSHOT", actual_time |-> time, cars |-> cs, npcs |-> npcs]
    <3> HIDE DEF cs, got
    <3>1. e = [type |-> "SNAPSHOT", actual_time |-> time, cars |-> got, npcs |-> npcs]
      OBVIOUS
    <3> HIDE DEF e
    <3> QED
      BY <3>1, CarsRetold
  <2>4. Means(ev) = [type |-> "SNAPSHOT", actual_time |-> time,
                     cars |-> [i \in 1 .. n |-> MeansCar(cars[i])], npcs |-> npcs]
    <3>1. ev.type = "snapshot" /\ ev.time = time /\ ev.cars = cars /\ ev.npcs = npcs
      OBVIOUS
    <3> QED
      BY <3>1, <1>1 DEF Means
  <2> HIDE DEF cs
  <2>5. cs = [i \in 1 .. n |-> MeansCar(cars[i])]
    BY <1>17 DEF cs
  <2> QED
    BY <2>2, <2>3, <2>4, <2>5
<1> QED
  BY <1>6, <1>16, <1>18 DEF m

-----------------------------------------------------------------------------
\* The kinds of events, the places a client or the server may be in, and where
\* an event takes a client; an event out of place loses it.
Kinds ==
  {"id", "refused", "accepted", "start", "phase", "lobby", "pregame", "snapshot", "results",
   "final_results"}
Positions ==
  {"opening", "idle", "asking", "lobby", "racing", "results", "choosing", "waiting", "final"}
After(p, k) ==
  CASE p = "opening" /\ k = "id" -> "idle"
    [] p = "asking" /\ k = "refused" -> "idle"
    [] p = "asking" /\ k = "accepted" -> "lobby"
    [] p = "lobby" /\ k = "lobby" -> "lobby"
    [] p = "lobby" /\ k = "start" -> "racing"
    [] p = "racing" /\ k \in {"pregame", "snapshot"} -> "racing"
    [] p = "racing" /\ k = "results" -> "results"
    [] p = "results" /\ k = "phase" -> "choosing"
    [] p = "choosing" /\ k = "phase" -> "waiting"
    [] p = "waiting" /\ k = "pregame" -> "racing"
    [] p \in {"racing", "final"} /\ k = "final_results" -> "final"
    [] p = "final" /\ k = "phase" -> "idle"
    [] OTHER -> "lost"

\* The events s lead from p to q: by a path through places only.  The last two
\* clauses follow by induction from the first; each lemma carries them along.
IsPath(ph, s) ==
  /\ \A i \in 1 .. Len(s) : ph[i] = After(ph[i - 1], s[i])
  /\ \A i, j \in 0 .. Len(s) : i <= j =>
       /\ ph[j] \in {"asking", "lobby"} => ph[i] \in {"asking", "lobby"}
       /\ (\A k \in i + 1 .. j : s[k] = "snapshot") => ph[i] = ph[j]
Leads(p, s, q) ==
  \E ph \in [0 .. Len(s) -> Positions] : ph[0] = p /\ ph[Len(s)] = q /\ IsPath(ph, s)

\* A snapshot moves nobody, and nothing leads back into the lobby.
LEMMA AfterFacts ==
  /\ \A p \in Positions : After(p, "snapshot") \in Positions => After(p, "snapshot") = p
  /\ \A p \in Positions, k \in Kinds : After(p, k) \in {"asking", "lobby"} => p \in {"asking", "lobby"}
<1>1. ASSUME NEW p \in Positions, After(p, "snapshot") \in Positions PROVE After(p, "snapshot") = p
  BY <1>1 DEF After, Positions
<1>2. ASSUME NEW p \in Positions, NEW k \in Kinds, After(p, k) \in {"asking", "lobby"}
      PROVE  p \in {"asking", "lobby"}
  BY <1>2 DEF After, Positions, Kinds
<1> QED
  BY <1>1, <1>2

\* No event leads anywhere else.
LEMMA StandsStill ==
  ASSUME NEW p \in Positions
  PROVE  Leads(p, <<>>, p)
<1> DEFINE ph == [i \in 0 .. 0 |-> p]
<1>1. ph \in [0 .. Len(<<>>) -> Positions] /\ ph[0] = p /\ ph[Len(<<>>)] = p
  OBVIOUS
<1>2. IsPath(ph, <<>>)
  BY DEF IsPath
<1> QED
  BY <1>1, <1>2 DEF Leads

\* And nowhere else only.
LEMMA NothingLeadsNowhere ==
  ASSUME NEW p, NEW q, Leads(p, <<>>, q)
  PROVE  p = q
BY DEF Leads

\* One event leads one place on.
LEMMA OneLeads ==
  ASSUME NEW p \in Positions, NEW k \in Kinds, After(p, k) \in Positions
  PROVE  Leads(p, <<k>>, After(p, k))
<1> DEFINE ph == [i \in 0 .. 1 |-> IF i = 0 THEN p ELSE After(p, k)]
<1>1. Len(<<k>>) = 1 /\ <<k>>[1] = k
  OBVIOUS
<1>2. ph \in [0 .. Len(<<k>>) -> Positions] /\ ph[0] = p /\ ph[Len(<<k>>)] = After(p, k)
  BY <1>1
<1>3. \A i \in 1 .. 1 : ph[i] = After(ph[i - 1], <<k>>[i])
  BY <1>1
<1>4. \A i, j \in 0 .. 1 : i <= j => (i = j \/ (i = 0 /\ j = 1))
  OBVIOUS
<1>5. After(p, k) \in {"asking", "lobby"} => p \in {"asking", "lobby"}
  BY AfterFacts
<1>6. (\A n \in 1 .. 1 : <<k>>[n] = "snapshot") => p = After(p, k)
  BY <1>1, AfterFacts
<1>7. ASSUME NEW i \in 0 .. 1, NEW j \in 0 .. 1, i <= j
      PROVE  /\ ph[j] \in {"asking", "lobby"} => ph[i] \in {"asking", "lobby"}
             /\ (\A n \in i + 1 .. j : <<k>>[n] = "snapshot") => ph[i] = ph[j]
  <2>1. CASE i = j
    BY <2>1
  <2>2. CASE i = 0 /\ j = 1
    BY <2>2, <1>5, <1>6
  <2> QED
    BY <2>1, <2>2, <1>4, <1>7
<1>8. IsPath(ph, <<k>>)
  BY <1>1, <1>3, <1>7 DEF IsPath
<1> QED
  BY <1>2, <1>8 DEF Leads

\* Two stretches of events join.
LEMMA LeadsOn ==
  ASSUME NEW p, NEW q, NEW r, NEW s \in Seq(Kinds), NEW t \in Seq(Kinds), Leads(p, s, q), Leads(q, t, r)
  PROVE  Leads(p, s \o t, r)
<1>1. PICK f \in [0 .. Len(s) -> Positions] : f[0] = p /\ f[Len(s)] = q /\ IsPath(f, s)
  BY DEF Leads
<1>2. PICK g \in [0 .. Len(t) -> Positions] : g[0] = q /\ g[Len(t)] = r /\ IsPath(g, t)
  BY DEF Leads
<1> DEFINE st == s \o t
           ph == [i \in 0 .. Len(st) |-> IF i <= Len(s) THEN f[i] ELSE g[i - Len(s)]]
<1>3. /\ Len(s) \in Nat /\ Len(t) \in Nat /\ Len(st) = Len(s) + Len(t)
      /\ \A i \in 1 .. Len(st) : st[i] = IF i <= Len(s) THEN s[i] ELSE t[i - Len(s)]
  BY ConcatProperties, LenProperties
<1>4. /\ \A i \in 0 .. Len(s) : ph[i] = f[i]
      /\ \A i \in 0 .. Len(t) : ph[Len(s) + i] = g[i]
  <2>1. \A i \in 0 .. Len(s) : ph[i] = f[i]
    BY <1>3
  <2>2. ASSUME NEW i \in 0 .. Len(t) PROVE ph[Len(s) + i] = g[i]
    BY <1>1, <1>2, <1>3
  <2> QED
    BY <2>1, <2>2
<1> HIDE DEF ph
<1>5. ph \in [0 .. Len(st) -> Positions]
  <2>1. ASSUME NEW i \in 0 .. Len(st) PROVE (IF i <= Len(s) THEN f[i] ELSE g[i - Len(s)]) \in Positions
    <3>1. CASE i <= Len(s)
      BY <1>3, <3>1
    <3>2. CASE ~(i <= Len(s))
      <4>1. i - Len(s) \in 0 .. Len(t)
        BY <1>3, <3>2
      <4> QED
        BY <4>1, <3>2
    <3> QED
      BY <3>1, <3>2
  <2> QED
    BY <2>1 DEF ph
<1>6. ph[0] = p /\ ph[Len(st)] = r
  BY <1>1, <1>2, <1>3, <1>4
<1>7. ASSUME NEW i \in 1 .. Len(st) PROVE ph[i] = After(ph[i - 1], st[i])
  <2>1. CASE i <= Len(s)
    <3>1. i \in 1 .. Len(s) /\ i \in 0 .. Len(s) /\ i - 1 \in 0 .. Len(s) /\ st[i] = s[i]
      BY <1>3, <2>1
    <3> QED
      BY <3>1, <1>1, <1>4 DEF IsPath
  <2>2. CASE ~(i <= Len(s))
    <3>1. PICK n \in 1 .. Len(t) : i = Len(s) + n
      <4>1. i - Len(s) \in 1 .. Len(t) /\ i = Len(s) + (i - Len(s))
        BY <1>3, <2>2
      <4> QED
        BY <4>1
    <3>2. /\ i - 1 = Len(s) + (n - 1) /\ n \in 0 .. Len(t) /\ n - 1 \in 0 .. Len(t) /\ st[i] = t[n]
          /\ Len(s) + n - Len(s) = n
      BY <1>3, <2>2, <3>1
    <3>3. g[n] = After(g[n - 1], t[n])
      BY <1>2 DEF IsPath
    <3> QED
      BY <3>1, <3>2, <3>3, <1>4
  <2> QED
    BY <2>1, <2>2
<1>8. ASSUME NEW i \in 0 .. Len(st), NEW j \in 0 .. Len(st), i <= j
      PROVE  /\ ph[j] \in {"asking", "lobby"} => ph[i] \in {"asking", "lobby"}
             /\ (\A k \in i + 1 .. j : st[k] = "snapshot") => ph[i] = ph[j]
  <2>1. CASE j <= Len(s)
    <3>1. i \in 0 .. Len(s) /\ j \in 0 .. Len(s) /\ \A k \in i + 1 .. j : st[k] = s[k]
      BY <1>3, <2>1, <1>8
    <3> QED
      BY <3>1, <1>1, <1>4, <1>8 DEF IsPath
  <2>2. CASE Len(s) <= i
    <3>1. PICK m \in 0 .. Len(t), n \in 0 .. Len(t) : i = Len(s) + m /\ j = Len(s) + n
      <4>1. /\ i - Len(s) \in 0 .. Len(t) /\ i = Len(s) + (i - Len(s))
            /\ j - Len(s) \in 0 .. Len(t) /\ j = Len(s) + (j - Len(s))
        BY <1>3, <2>2, <1>8
      <4> QED
        BY <4>1
    <3>2. m <= n /\ ph[i] = g[m] /\ ph[j] = g[n]
      BY <3>1, <1>3, <1>4, <1>8
    <3>3. ASSUME \A k \in i + 1 .. j : st[k] = "snapshot"
          PROVE  \A k \in m + 1 .. n : t[k] = "snapshot"
      <4>1. ASSUME NEW k \in m + 1 .. n PROVE t[k] = "snapshot"
        <5>1. Len(s) + k \in i + 1 .. j /\ Len(s) + k \in 1 .. Len(st) /\ ~(Len(s) + k <= Len(s))
              /\ Len(s) + k - Len(s) = k
          BY <1>3, <3>1
        <5>2. st[Len(s) + k] = t[k]
          BY <5>1, <1>3
        <5> QED
          BY <5>1, <5>2, <3>3
      <4> QED
        BY <4>1
    <3> QED
      BY <3>2, <3>3, <1>2 DEF IsPath
  <2>3. CASE i < Len(s) /\ Len(s) < j
    <3>1. PICK n \in 0 .. Len(t) : j = Len(s) + n
      <4>1. j - Len(s) \in 0 .. Len(t) /\ j = Len(s) + (j - Len(s))
        BY <1>3, <2>3
      <4> QED
        BY <4>1
    <3>2. i \in 0 .. Len(s) /\ Len(s) \in 0 .. Len(s) /\ 0 \in 0 .. Len(t) /\ i <= Len(s) /\ 0 <= n
      BY <2>3, <1>3
    <3>3. ph[i] = f[i] /\ ph[j] = g[n] /\ f[Len(s)] = g[0]
      BY <3>1, <3>2, <1>1, <1>2, <1>4
    <3>4. ASSUME \A k \in i + 1 .. j : st[k] = "snapshot"
          PROVE  /\ \A k \in i + 1 .. Len(s) : s[k] = "snapshot"
                 /\ \A k \in 0 + 1 .. n : t[k] = "snapshot"
      <4>1. ASSUME NEW k \in i + 1 .. Len(s) PROVE s[k] = "snapshot"
        <5>1. k \in i + 1 .. j /\ k \in 1 .. Len(st) /\ k <= Len(s)
          BY <1>3, <2>3, <3>2
        <5> QED
          BY <5>1, <1>3, <3>4
      <4>2. ASSUME NEW k \in 0 + 1 .. n PROVE t[k] = "snapshot"
        <5>1. Len(s) + k \in i + 1 .. j /\ Len(s) + k \in 1 .. Len(st) /\ ~(Len(s) + k <= Len(s))
              /\ Len(s) + k - Len(s) = k
          BY <1>3, <3>1, <3>2
        <5>2. st[Len(s) + k] = t[k]
          BY <5>1, <1>3
        <5> QED
          BY <5>1, <5>2, <3>4
      <4> QED
        BY <4>1, <4>2
    <3>5. /\ f[Len(s)] \in {"asking", "lobby"} => f[i] \in {"asking", "lobby"}
          /\ (\A k \in i + 1 .. Len(s) : s[k] = "snapshot") => f[i] = f[Len(s)]
      BY <3>2, <1>1 DEF IsPath
    <3>6. /\ g[n] \in {"asking", "lobby"} => g[0] \in {"asking", "lobby"}
          /\ (\A k \in 0 + 1 .. n : t[k] = "snapshot") => g[0] = g[n]
      BY <3>1, <3>2, <1>2 DEF IsPath
    <3> QED
      BY <3>3, <3>4, <3>5, <3>6
  <2> QED
    BY <2>1, <2>2, <2>3, <1>3
<1>9. IsPath(ph, st)
  BY <1>7, <1>8 DEF IsPath
<1> QED
  BY <1>5, <1>6, <1>9 DEF Leads

\* A reader may drop snapshots up to the event it takes.
LEMMA LeadsFrom ==
  ASSUME NEW p, NEW q, NEW s \in Seq(Kinds), Leads(p, s, q), NEW m \in 1 .. Len(s),
         \A k \in 1 .. m - 1 : s[k] = "snapshot"
  PROVE  After(p, s[m]) \in Positions /\ Leads(After(p, s[m]), SubSeq(s, m + 1, Len(s)), q)
<1>1. PICK f \in [0 .. Len(s) -> Positions] : f[0] = p /\ f[Len(s)] = q /\ IsPath(f, s)
  BY DEF Leads
<1> DEFINE t == SubSeq(s, m + 1, Len(s))
           ph == [i \in 0 .. Len(t) |-> f[m + i]]
<1>2. /\ Len(s) \in Nat /\ Len(t) = Len(s) - m /\ Len(t) \in Nat
      /\ \A i \in 1 .. Len(t) : t[i] = s[m + i]
  <2>1. Len(s) \in Nat
    BY LenProperties
  <2>2. Len(t) = Len(s) - m /\ \A i \in 1 .. Len(t) : t[i] = s[m + 1 + i - 1]
    <3>1. CASE m = Len(s)
      <4>1. t = <<>>
        BY <3>1, <2>1, SubSeqEmpty
      <4> QED
        BY <4>1, <3>1, <2>1
    <3>2. CASE m < Len(s)
      BY <3>2, <2>1, SubSeqProperties
    <3> QED
      BY <3>1, <3>2, <2>1
  <2> QED
    BY <2>1, <2>2
<1> HIDE DEF t
<1>3. f[m] = After(p, s[m])
  <2>1. f[m] = After(f[m - 1], s[m])
    BY <1>1, <1>2 DEF IsPath
  <2>2. 0 \in 0 .. Len(s) /\ m - 1 \in 0 .. Len(s) /\ 0 <= m - 1 /\ \A k \in 0 + 1 .. m - 1 : s[k] = "snapshot"
    BY <1>2
  <2>3. f[0] = f[m - 1]
    BY <2>2, <1>1 DEF IsPath
  <2> QED
    BY <2>1, <2>3, <1>1
<1>4. ph \in [0 .. Len(t) -> Positions] /\ ph[0] = f[m] /\ ph[Len(t)] = q
  <2>1. \A i \in 0 .. Len(t) : m + i \in 0 .. Len(s)
    BY <1>2
  <2>2. m + Len(t) = Len(s) /\ m + 0 = m
    BY <1>2
  <2> QED
    BY <2>1, <2>2, <1>1, <1>2
<1>5. ASSUME NEW i \in 1 .. Len(t) PROVE ph[i] = After(ph[i - 1], t[i])
  <2>1. m + i \in 1 .. Len(s) /\ m + i - 1 = m + (i - 1) /\ i - 1 \in 0 .. Len(t) /\ i \in 0 .. Len(t)
    BY <1>2
  <2>2. f[m + i] = After(f[m + i - 1], s[m + i])
    BY <2>1, <1>1 DEF IsPath
  <2> QED
    BY <2>1, <2>2, <1>2
<1>6. ASSUME NEW i \in 0 .. Len(t), NEW j \in 0 .. Len(t), i <= j
      PROVE  /\ ph[j] \in {"asking", "lobby"} => ph[i] \in {"asking", "lobby"}
             /\ (\A k \in i + 1 .. j : t[k] = "snapshot") => ph[i] = ph[j]
  <2>1. m + i \in 0 .. Len(s) /\ m + j \in 0 .. Len(s) /\ m + i <= m + j
    BY <1>2, <1>6
  <2>2. /\ f[m + j] \in {"asking", "lobby"} => f[m + i] \in {"asking", "lobby"}
        /\ (\A k \in m + i + 1 .. m + j : s[k] = "snapshot") => f[m + i] = f[m + j]
    BY <2>1, <1>1 DEF IsPath
  <2>3. ASSUME \A k \in i + 1 .. j : t[k] = "snapshot"
        PROVE  \A k \in m + i + 1 .. m + j : s[k] = "snapshot"
    <3>1. ASSUME NEW k \in m + i + 1 .. m + j PROVE s[k] = "snapshot"
      <4>1. k - m \in i + 1 .. j /\ k - m \in 1 .. Len(t) /\ m + (k - m) = k
        BY <1>2
      <4> QED
        BY <4>1, <2>3, <1>2
    <3> QED
      BY <3>1
  <2> QED
    BY <2>2, <2>3
<1>7. IsPath(ph, t)
  BY <1>5, <1>6 DEF IsPath
<1>8. f[m] \in Positions
  BY <1>2
<1> QED
  BY <1>3, <1>4, <1>7, <1>8 DEF Leads, t

\* Who arrives in the lobby came from it or from the question, and who is idle
\* hears nothing.
LEMMA LeadsBack ==
  ASSUME NEW p, NEW q, NEW s \in Seq(Kinds), Leads(p, s, q)
  PROVE  /\ p \in Positions /\ q \in Positions
         /\ q \in {"asking", "lobby"} => p \in {"asking", "lobby"}
         /\ p = "idle" => s = <<>>
<1>1. PICK f \in [0 .. Len(s) -> Positions] : f[0] = p /\ f[Len(s)] = q /\ IsPath(f, s)
  BY DEF Leads
<1>2. Len(s) \in Nat /\ 0 \in 0 .. Len(s) /\ Len(s) \in 0 .. Len(s)
  BY LenProperties
<1>3. p \in Positions /\ q \in Positions
  BY <1>1, <1>2
<1>4. q \in {"asking", "lobby"} => p \in {"asking", "lobby"}
  BY <1>1, <1>2 DEF IsPath
<1>5. ASSUME p = "idle", s # <<>> PROVE FALSE
  <2>1. 1 \in 1 .. Len(s)
    BY <1>2, <1>5, EmptySeq
  <2>2. After(p, s[1]) \in Positions
    BY <2>1, LeadsFrom
  <2> QED
    BY <2>2, <1>5 DEF After, Positions
<1> QED
  BY <1>3, <1>4, <1>5

-----------------------------------------------------------------------------
\* What the two programs put on the connection.
ServerEvents ==
  {Hello, LobbyEvent(1), LobbyEvent(2)} \cup [type : {"accepted", "refused", "start", "phase"}]
    \cup [type : {"pregame"}, pole : {<<1, 2, 3, 4, 2>>}, remaining : Int, map : {1}, total : {2}, move : {1}]
    \cup [type : {"snapshot"}, time : {1, 2}, cars : {SampleCars}, npcs : {SampleNpcs}]
    \cup [type : {"results"}, last : {0}, rows : {ManyRows}]
    \cup [type : {"final_results"}, rows : {FewRows, ManyRows}, podium : 0 .. 3]
ClientEvents == {receive_event(Send(ev)).event : ev \in ServerEvents}
Codes == {0} \cup {e.lobby_code : e \in ClientEvents}
ClientMessages ==
  [type : {"CREATE_LOBBY"}, model : {3}, name : {Name}, maps : {selectedMapFiles(m) : m \in Checked}]
    \cup [type : {"JOIN_LOBBY"}, lobby : TypedCodes, model : {3}, name : {Name}]
    \cup [type : {"START_GAME"}, lobby : Codes]
    \cup [type : {"SEND_KEY"}, key : {"w", "no_w"}]
    \cup [type : {"UPGRADES"}, upgrade : Upgrades \cup {0}]

\* The events under way, as what the client will hear: first those it has in
\* its queue, then those on the connection.
Heard(e) ==
  CASE e.type = "RECEIVE_ID" -> "id" [] e.type = "ERROR" -> "refused" [] e.type = "SUCESS" -> "accepted"
    [] e.type = "START_GAME" -> "start" [] e.type = "CHANGE_FASE" -> "phase"
    [] e.type = "SNAPSHOT_LOBBY" -> "lobby" [] e.type = "PREGAME" -> "pregame"
    [] e.type = "SNAPSHOT" -> "snapshot"
    [] e.type = "RACE_RESULTS" -> IF e.is_last_race THEN "final_results" ELSE "results"
Types(tc) == [i \in 1 .. Len(tc) |-> tc[i].type]
Hearing(inb, tc) == [i \in 1 .. Len(inb) |-> Heard(inb[i])] \o Types(tc)
Coming == Hearing(inbox, toClient)

ClientKinds ==
  {"RECEIVE_ID", "ERROR", "SUCESS", "START_GAME", "CHANGE_FASE", "SNAPSHOT_LOBBY", "PREGAME", "SNAPSHOT",
   "RACE_RESULTS"}

\* receive_race_results gives a table, last or not.
LEMMA ResultsRead ==
  ASSUME NEW m
  PROVE  LET e == receive_race_results(m).event
         IN  e.type = "RACE_RESULTS" /\ e.is_last_race \in BOOLEAN /\ Seen(e).type = e.type
             /\ Seen(e).is_last_race = e.is_last_race
BY DEF receive_race_results, Took, Seen

\* receive_pre_game_snapshot gives its event or an error.
LEMMA PregameRead ==
  ASSUME NEW m
  PROVE  LET e == receive_pre_game_snapshot(m).event
         IN  e.type \in {"PREGAME", "ERROR"} /\ Seen(e).type = e.type
BY DEF receive_pre_game_snapshot, Took, Seen

\* receive_snapshot_lobby gives its event.
LEMMA LobbyRead ==
  ASSUME NEW m
  PROVE  LET e == receive_snapshot_lobby(m).event
         IN  e.type = "SNAPSHOT_LOBBY" /\ Seen(e).type = e.type
BY DEF receive_snapshot_lobby, Took, Seen

\* receive_snapshot gives its event.
LEMMA SnapshotRead ==
  ASSUME NEW m
  PROVE  LET e == receive_snapshot(m).event
         IN  e.type = "SNAPSHOT" /\ Seen(e).type = e.type
BY DEF receive_snapshot, Took, Seen

\* Whatever comes, receive_event gives one of nine types of event, and what a
\* client sees of it keeps the type.
LEMMA EventsRead ==
  ASSUME NEW m
  PROVE  LET e == receive_event(m).event
         IN  /\ e.type \in ClientKinds /\ Seen(e).type = e.type
             /\ e.type = "RACE_RESULTS" =>
                  e.is_last_race \in BOOLEAN /\ Seen(e).is_last_race = e.is_last_race
<1> DEFINE op == Read(m, 1, 1)
<1>1. CASE op = 1
  BY <1>1, SnapshotRead DEF receive_event, ClientKinds
<1>2. CASE op = 33
  BY <1>2, LobbyRead DEF receive_event, ClientKinds
<1>3. CASE op = 35
  BY <1>3, PregameRead DEF receive_event, ClientKinds
<1>4. CASE op = 36
  BY <1>4, ResultsRead DEF receive_event, ClientKinds
<1>5. CASE op \notin {1, 33, 35, 36}
  BY <1>5 DEF receive_event, ClientKinds, Took, Seen
<1> QED
  BY <1>1, <1>2, <1>3, <1>4, <1>5

\* Every event of either queue is one of the ten kinds.
LEMMA EventKinds ==
  /\ \A ev \in ServerEvents : ev.type \in Kinds
  /\ \A e \in ClientEvents : e.type \in ClientKinds /\ Heard(e) \in Kinds
<1>1. ASSUME NEW ev \in ServerEvents PROVE ev.type \in Kinds
  <2>1. CASE ev \in {Hello, LobbyEvent(1), LobbyEvent(2)}
    <3>1. \A id, players : [type |-> "lobby", id |-> id, players |-> players].type = "lobby"
      OBVIOUS
    <3>2. LobbyEvent(1).type = "lobby" /\ LobbyEvent(2).type = "lobby"
      BY <3>1, Zenon DEF LobbyEvent
    <3>3. Hello.type = "id"
      BY DEF Hello
    <3>4. ev.type \in {"id", "lobby"}
      BY <2>1, <3>2, <3>3, Zenon
    <3> QED
      BY <3>4 DEF Kinds
  <2>2. CASE ev \in [type : {"accepted", "refused", "start", "phase"}]
    BY <2>2 DEF Kinds
  <2>3. CASE ev \in [type : {"pregame"}, pole : {<<1, 2, 3, 4, 2>>}, remaining : Int, map : {1},
                     total : {2}, move : {1}]
    BY <2>3 DEF Kinds
  <2>4. CASE ev \in [type : {"snapshot"}, time : {1, 2}, cars : {SampleCars}, npcs : {SampleNpcs}]
    BY <2>4 DEF Kinds
  <2>5. CASE ev \in [type : {"results"}, last : {0}, rows : {ManyRows}]
    BY <2>5 DEF Kinds
  <2>6. CASE ev \in [type : {"final_results"}, rows : {FewRows, ManyRows}, podium : 0 .. 3]
    BY <2>6 DEF Kinds
  <2> QED
    BY <2>1, <2>2, <2>3, <2>4, <2>5, <2>6, Zenon DEF ServerEvents
<1>2. ASSUME NEW e \in ClientEvents PROVE e.type \in ClientKinds /\ Heard(e) \in Kinds
  <2>1. e.type \in ClientKinds
    BY EventsRead DEF ClientEvents
  <2> QED
    BY <2>1 DEF ClientKinds, Heard, Kinds
<1> QED
  BY <1>1, <1>2

\* An event read as it was meant is heard as the kind it was sent as.
LEMMA HeardAsMeant ==
  ASSUME NEW ev, ev.type \in Kinds, NEW m,
         Seen(receive_event(m).event) = Means(ev)
  PROVE  Heard(receive_event(m).event) = ev.type
<1> DEFINE e == receive_event(m).event
<1>1. /\ e.type \in ClientKinds /\ Means(ev).type = e.type
      /\ e.type = "RACE_RESULTS" => e.is_last_race \in BOOLEAN /\ Means(ev).is_last_race = e.is_last_race
  BY EventsRead
<1> HIDE DEF e
<1>2. CASE ev.type = "results"
  <2>1. Means(ev).type = "RACE_RESULTS" /\ Means(ev).is_last_race = FALSE
    BY <1>2 DEF Means
  <2> QED
    BY <1>1, <1>2, <2>1 DEF Heard, e
<1>3. CASE ev.type = "final_results"
  <2>1. Means(ev).type = "RACE_RESULTS" /\ Means(ev).is_last_race = TRUE
    BY <1>3 DEF Means
  <2> QED
    BY <1>1, <1>3, <2>1 DEF Heard, e
<1>4. CASE ev.type \notin {"results", "final_results"}
  <2>1. Means(ev).type =
          CASE ev.type = "id" -> "RECEIVE_ID" [] ev.type = "refused" -> "ERROR"
            [] ev.type = "accepted" -> "SUCESS" [] ev.type = "start" -> "START_GAME"
            [] ev.type = "phase" -> "CHANGE_FASE" [] ev.type = "lobby" -> "SNAPSHOT_LOBBY"
            [] ev.type = "pregame" -> "PREGAME" [] ev.type = "snapshot" -> "SNAPSHOT"
    BY <1>4 DEF Means, Kinds
  <2> QED
    BY <1>1, <1>4, <2>1 DEF Heard, Kinds, e
<1> QED
  BY <1>2, <1>3, <1>4

\* What the library says of the join of two sequences, for kinds.
LEMMA KindsJoin ==
  ASSUME NEW s \in Seq(Kinds), NEW t \in Seq(Kinds)
  PROVE  /\ s \o t \in Seq(Kinds) /\ Len(s \o t) = Len(s) + Len(t)
         /\ Len(s) \in Nat /\ Len(t) \in Nat
         /\ \A i \in 1 .. Len(s) + Len(t) : (s \o t)[i] = IF i <= Len(s) THEN s[i] ELSE t[i - Len(s)]
BY ConcatProperties, LenProperties

\* What a client will hear, event by event.
LEMMA HearingSeq ==
  ASSUME NEW inb \in Seq(ClientEvents), NEW tc \in Seq(ServerEvents)
  PROVE  /\ Hearing(inb, tc) \in Seq(Kinds)
         /\ Len(Hearing(inb, tc)) = Len(inb) + Len(tc)
         /\ \A i \in 1 .. Len(inb) : Hearing(inb, tc)[i] = Heard(inb[i])
         /\ \A i \in 1 .. Len(tc) : Hearing(inb, tc)[Len(inb) + i] = tc[i].type
         /\ Types(tc) \in Seq(Kinds) /\ Len(Types(tc)) = Len(tc)
         /\ Hearing(inb, tc) = <<>> <=> inb = <<>> /\ tc = <<>>
<1> DEFINE h == [i \in 1 .. Len(inb) |-> Heard(inb[i])]
<1>1. Len(inb) \in Nat /\ Len(tc) \in Nat
  BY LenProperties
<1>2. h \in Seq(Kinds) /\ Len(h) = Len(inb)
  <2>1. \A i \in 1 .. Len(inb) : Heard(inb[i]) \in Kinds
    BY EventKinds, ElementOfSeq
  <2> QED
    BY <2>1, <1>1, IsASeq
<1>3. Types(tc) \in Seq(Kinds) /\ Len(Types(tc)) = Len(tc)
  <2>1. \A i \in 1 .. Len(tc) : tc[i].type \in Kinds
    BY EventKinds, ElementOfSeq
  <2> QED
    BY <2>1, <1>1, IsASeq DEF Types
<1>4. Hearing(inb, tc) = h \o Types(tc)
  BY DEF Hearing
<1>5. \A i \in 1 .. Len(inb) : h[i] = Heard(inb[i])
  OBVIOUS
<1>6. \A i \in 1 .. Len(tc) : Types(tc)[i] = tc[i].type
  BY DEF Types
<1> HIDE DEF h
<1>7. /\ Hearing(inb, tc) \in Seq(Kinds) /\ Len(Hearing(inb, tc)) = Len(inb) + Len(tc)
      /\ \A i \in 1 .. Len(h) + Len(Types(tc)) :
           Hearing(inb, tc)[i] = IF i <= Len(h) THEN h[i] ELSE Types(tc)[i - Len(h)]
  <2> HIDE DEF Hearing
  <2>1. /\ h \o Types(tc) \in Seq(Kinds) /\ Len(h \o Types(tc)) = Len(h) + Len(Types(tc))
        /\ \A i \in 1 .. Len(h) + Len(Types(tc)) :
             (h \o Types(tc))[i] = IF i <= Len(h) THEN h[i] ELSE Types(tc)[i - Len(h)]
    BY <1>2, <1>3, KindsJoin
  <2> QED
    BY <2>1, <1>2, <1>3, <1>4
<1>8. \A i \in 1 .. Len(inb) : Hearing(inb, tc)[i] = Heard(inb[i])
  BY <1>1, <1>2, <1>3, <1>5, <1>7
<1>9. ASSUME NEW i \in 1 .. Len(tc) PROVE Hearing(inb, tc)[Len(inb) + i] = tc[i].type
  <2>1. /\ Len(inb) + i \in 1 .. Len(h) + Len(Types(tc)) /\ ~(Len(inb) + i <= Len(h))
        /\ Len(inb) + i - Len(h) = i
    BY <1>1, <1>2, <1>3
  <2> QED
    BY <2>1, <1>6, <1>7
<1>10. Hearing(inb, tc) = <<>> <=> inb = <<>> /\ tc = <<>>
  BY <1>1, <1>7, EmptySeq
<1> QED
  BY <1>3, <1>7, <1>8, <1>9, <1>10

\* An event that is sent is heard last.
LEMMA HearingSent ==
  ASSUME NEW inb \in Seq(ClientEvents), NEW tc \in Seq(ServerEvents), NEW evs \in Seq(ServerEvents)
  PROVE  Hearing(inb, tc \o evs) = Hearing(inb, tc) \o Types(evs)
<1> DEFINE a == Hearing(inb, tc \o evs)
           b == Hearing(inb, tc) \o Types(evs)
<1>1. /\ Len(inb) \in Nat /\ Len(tc) \in Nat /\ Len(evs) \in Nat
      /\ tc \o evs \in Seq(ServerEvents) /\ Len(tc \o evs) = Len(tc) + Len(evs)
      /\ \A i \in 1 .. Len(tc) + Len(evs) :
           (tc \o evs)[i] = IF i <= Len(tc) THEN tc[i] ELSE evs[i - Len(tc)]
  BY LenProperties, ConcatProperties
<1>2. Hearing(inb, tc) \in Seq(Kinds) /\ Types(evs) \in Seq(Kinds) /\ Len(Types(evs)) = Len(evs)
      /\ Len(Hearing(inb, tc)) = Len(inb) + Len(tc)
  BY HearingSeq
<1>3. a \in Seq(Kinds) /\ Len(a) = Len(inb) + (Len(tc) + Len(evs))
  BY <1>1, HearingSeq
<1>4. /\ b \in Seq(Kinds) /\ Len(b) = Len(inb) + Len(tc) + Len(evs)
      /\ \A i \in 1 .. Len(b) : b[i] = IF i <= Len(inb) + Len(tc) THEN Hearing(inb, tc)[i]
                                      ELSE Types(evs)[i - (Len(inb) + Len(tc))]
  <2>1. /\ b \in Seq(Kinds) /\ Len(b) = Len(Hearing(inb, tc)) + Len(Types(evs))
        /\ \A i \in 1 .. Len(Hearing(inb, tc)) + Len(Types(evs)) :
             b[i] = IF i <= Len(Hearing(inb, tc)) THEN Hearing(inb, tc)[i]
                    ELSE Types(evs)[i - Len(Hearing(inb, tc))]
    BY <1>2, KindsJoin
  <2> QED
    BY <2>1, <1>2
<1>5. ASSUME NEW i \in 1 .. Len(a) PROVE a[i] = b[i]
  <2>1. CASE i <= Len(inb)
    <3>1. i \in 1 .. Len(inb) /\ i <= Len(inb) + Len(tc) /\ i \in 1 .. Len(b)
      BY <1>1, <1>3, <1>4, <2>1
    <3>2. a[i] = Heard(inb[i]) /\ Hearing(inb, tc)[i] = Heard(inb[i])
      BY <1>1, <3>1, HearingSeq
    <3> QED
      BY <3>1, <3>2, <1>4
  <2>2. CASE ~(i <= Len(inb))
    <3>1. PICK n \in 1 .. Len(tc) + Len(evs) : i = Len(inb) + n
      <4>1. i - Len(inb) \in 1 .. Len(tc) + Len(evs) /\ i = Len(inb) + (i - Len(inb))
        BY <1>1, <1>3, <2>2
      <4> QED
        BY <4>1
    <3>2. a[i] = (tc \o evs)[n].type
      BY <1>1, <3>1, HearingSeq
    <3>3. CASE n <= Len(tc)
      <4>1. n \in 1 .. Len(tc) /\ i <= Len(inb) + Len(tc) /\ i \in 1 .. Len(b)
        BY <1>1, <1>4, <3>1, <3>3
      <4>2. Hearing(inb, tc)[i] = tc[n].type
        BY <4>1, <3>1, HearingSeq
      <4> QED
        BY <4>1, <4>2, <3>2, <1>1, <1>4
    <3>4. CASE ~(n <= Len(tc))
      <4>1. /\ n - Len(tc) \in 1 .. Len(evs) /\ ~(i <= Len(inb) + Len(tc)) /\ i \in 1 .. Len(b)
            /\ i - (Len(inb) + Len(tc)) = n - Len(tc)
        BY <1>1, <1>4, <3>1, <3>4
      <4>2. Types(evs)[n - Len(tc)] = evs[n - Len(tc)].type
        BY <4>1 DEF Types
      <4> QED
        BY <4>1, <4>2, <3>2, <3>4, <1>1, <1>4
    <3> QED
      BY <3>3, <3>4
  <2> QED
    BY <2>1, <2>2
<1>6. Len(a) = Len(b)
  BY <1>1, <1>3, <1>4
<1> QED
  BY <1>3, <1>4, <1>5, <1>6, SeqEqual

\* An event that goes from the connection to the queue changes nothing.
LEMMA HearingReceived ==
  ASSUME NEW inb \in Seq(ClientEvents), NEW tc \in Seq(ServerEvents), tc # <<>>,
         NEW e \in ClientEvents, Heard(e) = Head(tc).type
  PROVE  /\ Append(inb, e) \in Seq(ClientEvents) /\ Tail(tc) \in Seq(ServerEvents)
         /\ Hearing(Append(inb, e), Tail(tc)) = Hearing(inb, tc)
<1> DEFINE inb2 == Append(inb, e)
           a == Hearing(inb2, Tail(tc))
           b == Hearing(inb, tc)
<1>1. /\ Len(inb) \in Nat /\ Len(tc) \in Nat /\ Len(tc) >= 1
      /\ inb2 \in Seq(ClientEvents) /\ Len(inb2) = Len(inb) + 1
      /\ (\A i \in 1 .. Len(inb) : inb2[i] = inb[i]) /\ inb2[Len(inb) + 1] = e
  BY LenProperties, AppendProperties, EmptySeq
<1>2. /\ Tail(tc) \in Seq(ServerEvents) /\ Len(Tail(tc)) = Len(tc) - 1 /\ Head(tc) = tc[1]
      /\ \A i \in 1 .. Len(tc) - 1 : Tail(tc)[i] = tc[i + 1]
  BY HeadTailProperties
<1> HIDE DEF inb2
<1>3. a \in Seq(Kinds) /\ b \in Seq(Kinds) /\ Len(a) = Len(inb) + Len(tc) /\ Len(b) = Len(inb) + Len(tc)
  <2>1. a \in Seq(Kinds) /\ b \in Seq(Kinds) /\ Len(a) = Len(inb) + 1 + (Len(tc) - 1) /\ Len(b) = Len(inb) + Len(tc)
    BY <1>1, <1>2, HearingSeq
  <2> QED
    BY <2>1, <1>1
<1>4. ASSUME NEW i \in 1 .. Len(a) PROVE a[i] = b[i]
  <2>1. CASE i <= Len(inb)
    <3>1. i \in 1 .. Len(inb) /\ i \in 1 .. Len(inb2)
      BY <1>1, <2>1
    <3>2. a[i] = Heard(inb2[i]) /\ b[i] = Heard(inb[i])
      BY <3>1, <1>1, <1>2, HearingSeq
    <3> QED
      BY <3>1, <3>2, <1>1
  <2>2. CASE i = Len(inb) + 1
    <3>1. i \in 1 .. Len(inb2) /\ 1 \in 1 .. Len(tc)
      BY <1>1, <2>2
    <3>2. a[i] = Heard(e)
      BY <3>1, <2>2, <1>1, <1>2, HearingSeq
    <3>3. b[i] = tc[1].type
      BY <3>1, <2>2, HearingSeq
    <3> QED
      BY <3>2, <3>3, <1>2
  <2>3. CASE i > Len(inb) + 1
    <3>1. PICK n \in 1 .. Len(tc) - 1 : i = Len(inb2) + n
      <4>1. i - Len(inb2) \in 1 .. Len(tc) - 1 /\ i = Len(inb2) + (i - Len(inb2))
        BY <1>1, <1>3, <2>3
      <4> QED
        BY <4>1
    <3>2. n + 1 \in 1 .. Len(tc) /\ i = Len(inb) + (n + 1)
      BY <3>1, <1>1
    <3>3. a[i] = Tail(tc)[n].type
      <4>1. n \in 1 .. Len(Tail(tc))
        BY <1>2
      <4>2. \A k \in 1 .. Len(Tail(tc)) : a[Len(inb2) + k] = Tail(tc)[k].type
        BY <1>1, <1>2, HearingSeq
      <4> QED
        BY <4>1, <4>2, <3>1
    <3>4. b[i] = tc[n + 1].type
      BY <3>2, HearingSeq
    <3> QED
      BY <3>1, <3>3, <3>4, <1>2
  <2> QED
    BY <2>1, <2>2, <2>3, <1>1, <1>3
<1>5. a = b
  BY <1>3, <1>4, SeqEqual
<1> QED
  BY <1>1, <1>2, <1>5 DEF inb2

\* An event that is taken from the queue is no more to be heard.
LEMMA HearingPopped ==
  ASSUME NEW inb \in Seq(ClientEvents), NEW tc \in Seq(ServerEvents), NEW m \in 1 .. Len(inb)
  PROVE  LET rest == SubSeq(inb, m + 1, Len(inb))
         IN  /\ rest \in Seq(ClientEvents)
             /\ Hearing(rest, tc) = SubSeq(Hearing(inb, tc), m + 1, Len(Hearing(inb, tc)))
             /\ m = 1 => rest = Tail(inb)
<1> DEFINE rest == SubSeq(inb, m + 1, Len(inb))
           h == Hearing(inb, tc)
           a == Hearing(rest, tc)
           b == SubSeq(h, m + 1, Len(h))
<1>1. Len(inb) \in Nat /\ Len(tc) \in Nat /\ h \in Seq(Kinds) /\ Len(h) = Len(inb) + Len(tc)
  BY LenProperties, HearingSeq
<1>2. /\ rest \in Seq(ClientEvents) /\ Len(rest) = Len(inb) - m
      /\ \A i \in 1 .. Len(inb) - m : rest[i] = inb[m + i]
  <2>1. CASE m = Len(inb)
    <3>1. rest = <<>>
      BY <2>1, <1>1, SubSeqEmpty
    <3> QED
      BY <3>1, <2>1, <1>1
  <2>2. CASE m < Len(inb)
    BY <2>2, <1>1, SubSeqProperties
  <2> QED
    BY <2>1, <2>2, <1>1
<1>3. /\ b \in Seq(Kinds) /\ Len(b) = Len(h) - m
      /\ \A i \in 1 .. Len(h) - m : b[i] = h[m + i]
  <2> HIDE DEF h
  <2>1. CASE m = Len(h)
    <3>1. b = <<>>
      BY <2>1, <1>1, SubSeqEmpty
    <3> QED
      BY <3>1, <2>1, <1>1
  <2>2. CASE m < Len(h)
    BY <2>2, <1>1, SubSeqProperties
  <2> QED
    BY <2>1, <2>2, <1>1
<1> HIDE DEF rest
<1>4. a \in Seq(Kinds) /\ Len(a) = Len(inb) - m + Len(tc)
  BY <1>2, HearingSeq
<1>5. ASSUME NEW i \in 1 .. Len(a) PROVE a[i] = b[i]
  <2>1. CASE i <= Len(inb) - m
    <3>1. i \in 1 .. Len(rest) /\ m + i \in 1 .. Len(inb) /\ i \in 1 .. Len(h) - m
      BY <1>1, <1>2, <2>1
    <3>2. a[i] = Heard(rest[i])
      BY <3>1, <1>2, HearingSeq
    <3>3. h[m + i] = Heard(inb[m + i])
      BY <3>1, HearingSeq
    <3> QED
      BY <3>1, <3>2, <3>3, <1>2, <1>3
  <2>2. CASE ~(i <= Len(inb) - m)
    <3>1. PICK n \in 1 .. Len(tc) : i = Len(rest) + n
      <4>1. i - Len(rest) \in 1 .. Len(tc) /\ i = Len(rest) + (i - Len(rest))
        BY <1>1, <1>2, <1>4, <2>2
      <4> QED
        BY <4>1
    <3>2. m + i = Len(inb) + n /\ i \in 1 .. Len(h) - m
      BY <3>1, <1>1, <1>2
    <3>3. a[i] = tc[n].type
      BY <3>1, <1>2, HearingSeq
    <3>4. h[Len(inb) + n] = tc[n].type
      BY HearingSeq
    <3> QED
      BY <3>2, <3>3, <3>4, <1>3
  <2> QED
    BY <2>1, <2>2
<1>6. a = b
  BY <1>1, <1>3, <1>4, <1>5, SeqEqual
<1>7. m = 1 => rest = Tail(inb)
  BY <1>1, EmptySeq, TailIsSubSeq DEF rest
<1> QED
  BY <1>2, <1>6, <1>7 DEF rest

-----------------------------------------------------------------------------
\* What waits for the server.
NoAsks(ts) == \A i \in 1 .. Len(ts) : ts[i].type \notin {"CREATE_LOBBY", "JOIN_LOBBY"}
NoKeys(ts) == \A i \in 1 .. Len(ts) : ts[i].type # "SEND_KEY"
LastKey(ts, h) ==
  \A i \in 1 .. Len(ts) :
    ts[i].type = "SEND_KEY" /\ (\A j \in i + 1 .. Len(ts) : ts[j].type # "SEND_KEY")
    => (ts[i].key = "w" <=> h = "w")
NoUpgrades(ts) == \A i \in 1 .. Len(ts) : ts[i].type # "UPGRADES"
LastUpgrade(ts, u) ==
  \E i \in 1 .. Len(ts) :
    /\ ts[i].type = "UPGRADES" /\ ts[i].upgrade = u
    /\ \A j \in i + 1 .. Len(ts) : ts[j].type # "UPGRADES"

\* The commands of a client that does not leave, and how the server reads them.
LEMMA MessageTypes ==
  ASSUME NEW c \in ClientMessages
  PROVE  /\ c.type \in {"CREATE_LOBBY", "JOIN_LOBBY", "START_GAME", "SEND_KEY", "UPGRADES"}
         /\ c.type = "SEND_KEY" => c.key \in {"w", "no_w"} /\ Asks(c) = [type |-> "Move", param |-> KeyCodes[c.key]]
         /\ c.type = "UPGRADES" => Asks(c) = [type |-> "Upgrade", param |-> c.upgrade]
         /\ c.type = "START_GAME" => Asks(c).type = "StartLobby"
         /\ c.type = "CREATE_LOBBY" => Asks(c).type = "CreateLobby"
         /\ c.type = "JOIN_LOBBY" => Asks(c).type = "JoinLobby"
<1>1. CASE c \in [type : {"CREATE_LOBBY"}, model : {3}, name : {Name}, maps : {selectedMapFiles(m) : m \in Checked}]
  BY <1>1 DEF Asks
<1>2. CASE c \in [type : {"JOIN_LOBBY"}, lobby : TypedCodes, model : {3}, name : {Name}]
  BY <1>2 DEF Asks
<1>3. CASE c \in [type : {"START_GAME"}, lobby : Codes]
  BY <1>3 DEF Asks
<1>4. CASE c \in [type : {"SEND_KEY"}, key : {"w", "no_w"}]
  BY <1>4 DEF Asks
<1>5. CASE c \in [type : {"UPGRADES"}, upgrade : Upgrades \cup {0}]
  BY <1>5 DEF Asks
<1> QED
  BY <1>1, <1>2, <1>3, <1>4, <1>5, Zenon DEF ClientMessages

\* What still waits when the server took a message.
LEMMA MessageServed ==
  ASSUME NEW ts \in Seq(ClientMessages), ts # <<>>
  PROVE  /\ Tail(ts) \in Seq(ClientMessages) /\ Head(ts) \in ClientMessages /\ Tail(ts) # ts
         /\ NoAsks(ts) => NoAsks(Tail(ts)) /\ Head(ts).type \notin {"CREATE_LOBBY", "JOIN_LOBBY"}
         /\ Len(ts) = 1 => Tail(ts) = <<>>
         /\ NoKeys(ts) => NoKeys(Tail(ts)) /\ Head(ts).type # "SEND_KEY"
         /\ NoKeys(Tail(ts)) /\ Head(ts).type # "SEND_KEY" => NoKeys(ts)
         /\ \A h : LastKey(ts, h) =>
              /\ LastKey(Tail(ts), h)
              /\ NoKeys(Tail(ts)) /\ Head(ts).type = "SEND_KEY" => (Head(ts).key = "w" <=> h = "w")
         /\ NoUpgrades(ts) => NoUpgrades(Tail(ts)) /\ Head(ts).type # "UPGRADES"
         /\ \A u : LastUpgrade(ts, u) =>
              \/ LastUpgrade(Tail(ts), u)
              \/ Head(ts).type = "UPGRADES" /\ Head(ts).upgrade = u /\ NoUpgrades(Tail(ts))
<1> DEFINE t == Tail(ts)
<1>1. /\ t \in Seq(ClientMessages) /\ Len(ts) \in Nat \ {0} /\ Len(t) = Len(ts) - 1 /\ Head(ts) = ts[1]
      /\ Head(ts) \in ClientMessages
      /\ \A i \in 1 .. Len(t) : t[i] = ts[i + 1]
  BY EmptySeq, HeadTailProperties
<1> HIDE DEF t
<1>2. 1 \in 1 .. Len(ts) /\ \A i \in 1 .. Len(t) : i + 1 \in 1 .. Len(ts)
  BY <1>1
<1>3. NoAsks(ts) => NoAsks(t) /\ Head(ts).type \notin {"CREATE_LOBBY", "JOIN_LOBBY"}
  BY <1>1, <1>2 DEF NoAsks
<1>4. NoKeys(ts) => NoKeys(t) /\ Head(ts).type # "SEND_KEY"
  BY <1>1, <1>2 DEF NoKeys
<1>5. NoUpgrades(ts) => NoUpgrades(t) /\ Head(ts).type # "UPGRADES"
  BY <1>1, <1>2 DEF NoUpgrades
<1>6. ASSUME NEW i \in 2 .. Len(ts) PROVE i - 1 \in 1 .. Len(t) /\ t[i - 1] = ts[i]
  <2>1. i - 1 \in 1 .. Len(t) /\ i - 1 + 1 = i
    BY <1>1
  <2> QED
    BY <2>1, <1>1
<1>7. ASSUME NoKeys(t), Head(ts).type # "SEND_KEY" PROVE NoKeys(ts)
  <2>1. ASSUME NEW i \in 1 .. Len(ts) PROVE ts[i].type # "SEND_KEY"
    <3>1. i = 1 \/ i \in 2 .. Len(ts)
      BY <1>1
    <3> QED
      BY <3>1, <1>1, <1>6, <1>7 DEF NoKeys
  <2> QED
    BY <2>1 DEF NoKeys
<1>8. ASSUME NEW h, LastKey(ts, h) PROVE LastKey(t, h)
  <2>1. ASSUME NEW i \in 1 .. Len(t), t[i].type = "SEND_KEY", \A j \in i + 1 .. Len(t) : t[j].type # "SEND_KEY"
        PROVE  t[i].key = "w" <=> h = "w"
    <3>1. i + 1 \in 1 .. Len(ts) /\ ts[i + 1] = t[i]
      BY <1>1, <1>2
    <3>2. ASSUME NEW j \in i + 1 + 1 .. Len(ts) PROVE ts[j].type # "SEND_KEY"
      <4>1. j \in 2 .. Len(ts) /\ j - 1 \in i + 1 .. Len(t)
        BY <1>1
      <4> QED
        BY <4>1, <1>6, <2>1
    <3> QED
      BY <3>1, <3>2, <1>8, <2>1 DEF LastKey
  <2> QED
    BY <2>1 DEF LastKey
<1>9. ASSUME NEW h, LastKey(ts, h), NoKeys(t), Head(ts).type = "SEND_KEY"
      PROVE  Head(ts).key = "w" <=> h = "w"
  <2>1. \A j \in 1 + 1 .. Len(ts) : ts[j].type # "SEND_KEY"
    BY <1>6, <1>9 DEF NoKeys
  <2> QED
    BY <2>1, <1>1, <1>2, <1>9 DEF LastKey
<1>10. ASSUME NEW u, LastUpgrade(ts, u)
       PROVE  \/ LastUpgrade(t, u)
              \/ Head(ts).type = "UPGRADES" /\ Head(ts).upgrade = u /\ NoUpgrades(t)
  <2>1. PICK i \in 1 .. Len(ts) :
          /\ ts[i].type = "UPGRADES" /\ ts[i].upgrade = u
          /\ \A j \in i + 1 .. Len(ts) : ts[j].type # "UPGRADES"
    BY <1>10 DEF LastUpgrade
  <2>2. CASE i = 1
    <3>1. ASSUME NEW j \in 1 .. Len(t) PROVE t[j].type # "UPGRADES"
      <4>1. j + 1 \in i + 1 .. Len(ts)
        BY <1>1, <2>2
      <4> QED
        BY <4>1, <1>1, <2>1
    <3> QED
      BY <3>1, <2>1, <2>2, <1>1 DEF NoUpgrades
  <2>3. CASE i # 1
    <3>1. i \in 2 .. Len(ts)
      BY <1>1, <2>3
    <3>2. ASSUME NEW j \in i - 1 + 1 .. Len(t) PROVE t[j].type # "UPGRADES"
      <4>1. j + 1 \in i + 1 .. Len(ts) /\ j \in 1 .. Len(t)
        BY <1>1, <3>1
      <4> QED
        BY <4>1, <1>1, <2>1
    <3> QED
      BY <3>1, <3>2, <1>6, <2>1 DEF LastUpgrade
  <2> QED
    BY <2>2, <2>3
<1>11. Len(ts) = 1 => t = <<>>
  BY <1>1, EmptySeq
<1>12. t # ts
  BY <1>1
<1> QED
  BY <1>1, <1>3, <1>4, <1>5, <1>7, <1>8, <1>9, <1>10, <1>11, <1>12 DEF t

\* What waits when the client wrote one more.
LEMMA MessagePushed ==
  ASSUME NEW ts \in Seq(ClientMessages), NEW c \in ClientMessages
  PROVE  /\ Append(ts, c) \in Seq(ClientMessages)
         /\ NoAsks(ts) /\ c.type \notin {"CREATE_LOBBY", "JOIN_LOBBY"} => NoAsks(Append(ts, c))
         /\ ts = <<>> => Len(Append(ts, c)) = 1
         /\ c.type # "SEND_KEY" => (NoKeys(Append(ts, c)) <=> NoKeys(ts))
         /\ c.type = "SEND_KEY" => ~NoKeys(Append(ts, c))
         /\ \A h :
              /\ c.type # "SEND_KEY" /\ LastKey(ts, h) => LastKey(Append(ts, c), h)
              /\ c.type = "SEND_KEY" /\ (c.key = "w" <=> h = "w") => LastKey(Append(ts, c), h)
         /\ c.type # "UPGRADES" =>
              /\ NoUpgrades(ts) => NoUpgrades(Append(ts, c))
              /\ \A u : LastUpgrade(ts, u) => LastUpgrade(Append(ts, c), u)
         /\ c.type = "UPGRADES" => LastUpgrade(Append(ts, c), c.upgrade)
<1> DEFINE t == Append(ts, c)
<1>1. /\ t \in Seq(ClientMessages) /\ Len(ts) \in Nat /\ Len(t) = Len(ts) + 1
      /\ (\A i \in 1 .. Len(ts) : t[i] = ts[i]) /\ t[Len(t)] = c
  BY LenProperties, AppendProperties
<1> HIDE DEF t
<1>2. /\ Len(t) \in 1 .. Len(t)
      /\ \A i \in 1 .. Len(t) : i \in 1 .. Len(ts) \/ i = Len(t)
      /\ \A i \in 1 .. Len(ts) : i \in 1 .. Len(t)
  BY <1>1
<1>3. NoAsks(ts) /\ c.type \notin {"CREATE_LOBBY", "JOIN_LOBBY"} => NoAsks(t)
  BY <1>1, <1>2 DEF NoAsks
<1>4. ts = <<>> => Len(t) = 1
  BY <1>1, EmptySeq
<1>5. c.type # "SEND_KEY" => (NoKeys(t) <=> NoKeys(ts))
  BY <1>1, <1>2 DEF NoKeys
<1>6. c.type = "SEND_KEY" => ~NoKeys(t)
  BY <1>1, <1>2 DEF NoKeys
<1>7. ASSUME NEW h, c.type = "SEND_KEY" => (c.key = "w" <=> h = "w"),
             c.type # "SEND_KEY" => LastKey(ts, h)
      PROVE  LastKey(t, h)
  <2>1. ASSUME NEW i \in 1 .. Len(t), t[i].type = "SEND_KEY", \A j \in i + 1 .. Len(t) : t[j].type # "SEND_KEY"
        PROVE  t[i].key = "w" <=> h = "w"
    <3>1. CASE i = Len(t)
      BY <3>1, <1>1, <1>7, <2>1
    <3>2. CASE i \in 1 .. Len(ts)
      <4>1. Len(t) \in i + 1 .. Len(t)
        BY <1>1, <3>2
      <4>2. c.type # "SEND_KEY"
        BY <4>1, <2>1, <1>1
      <4>3. \A j \in i + 1 .. Len(ts) : j \in i + 1 .. Len(t) /\ j \in 1 .. Len(ts)
        BY <1>1, <3>2
      <4>4. \A j \in i + 1 .. Len(ts) : ts[j].type # "SEND_KEY"
        BY <4>3, <2>1, <1>1
      <4> QED
        BY <4>2, <4>4, <3>2, <2>1, <1>1, <1>7 DEF LastKey
    <3> QED
      BY <3>1, <3>2, <1>2
  <2> QED
    BY <2>1 DEF LastKey
<1>8. ASSUME c.type # "UPGRADES" PROVE NoUpgrades(ts) => NoUpgrades(t)
  BY <1>1, <1>2, <1>8 DEF NoUpgrades
<1>9. ASSUME c.type # "UPGRADES", NEW u, LastUpgrade(ts, u) PROVE LastUpgrade(t, u)
  <2>1. PICK i \in 1 .. Len(ts) :
          /\ ts[i].type = "UPGRADES" /\ ts[i].upgrade = u
          /\ \A j \in i + 1 .. Len(ts) : ts[j].type # "UPGRADES"
    BY <1>9 DEF LastUpgrade
  <2>2. ASSUME NEW j \in i + 1 .. Len(t) PROVE t[j].type # "UPGRADES"
    <3>1. j = Len(t) \/ (j \in i + 1 .. Len(ts) /\ j \in 1 .. Len(ts))
      BY <1>1
    <3> QED
      BY <3>1, <2>1, <1>1, <1>9
  <2>3. i \in 1 .. Len(t) /\ t[i] = ts[i]
    BY <1>1
  <2> QED
    BY <2>1, <2>2, <2>3 DEF LastUpgrade
<1>10. ASSUME c.type = "UPGRADES" PROVE LastUpgrade(t, c.upgrade)
  <2>1. \A j \in Len(t) + 1 .. Len(t) : t[j].type # "UPGRADES"
    BY <1>1
  <2> QED
    BY <2>1, <1>1, <1>2, <1>10 DEF LastUpgrade
<1>11. \A h :
         /\ c.type # "SEND_KEY" /\ LastKey(ts, h) => LastKey(t, h)
         /\ c.type = "SEND_KEY" /\ (c.key = "w" <=> h = "w") => LastKey(t, h)
  <2>1. ASSUME NEW h, c.type # "SEND_KEY", LastKey(ts, h) PROVE LastKey(t, h)
    BY <2>1, <1>7
  <2>2. ASSUME NEW h, c.type = "SEND_KEY", c.key = "w" <=> h = "w" PROVE LastKey(t, h)
    BY <2>2, <1>7
  <2> QED
    BY <2>1, <2>2
<1> QED
  BY <1>1, <1>3, <1>4, <1>5, <1>6, <1>8, <1>9, <1>10, <1>11 DEF t

\* Of no messages everything holds.
LEMMA NothingWaits ==
  NoAsks(<<>>) /\ NoKeys(<<>>) /\ NoUpgrades(<<>>) /\ \A h : LastKey(<<>>, h)
BY DEF NoAsks, NoKeys, NoUpgrades, LastKey

\* Without a key there is no last one.
LEMMA NoKeysLast ==
  ASSUME NEW ts, NoKeys(ts), NEW h
  PROVE  LastKey(ts, h)
BY DEF NoKeys, LastKey

-----------------------------------------------------------------------------
\* The connection is open and the client left nothing early.
Ordinary == link = "open" /\ ~left

ServerTyped ==
  /\ toClient \in Seq(ServerEvents) /\ seat \in {"none", "lobby", "race"}
  /\ phase \in {"lobby", "racing", "results", "choosing", "waiting", "final", "over"}
  /\ round \in Nat /\ shown \in 0 .. Tables /\ pressed \in BOOLEAN
ClientTyped ==
  /\ inbox \in Seq(ClientEvents) /\ toServer \in Seq(ClientMessages)
  /\ window \in {"opening", "prelobby", "asking", "lobby", "race", "closed"}
  /\ code \in Codes /\ posted \in {"nothing", "accept"}
  /\ state \in {"RUNNING_GAME", "SHOW_POSITIONS", "SHOW_UPGRADE", "PREGAME"}
  /\ is_last_map \in BOOLEAN /\ race_started \in BOOLEAN /\ keep_running \in BOOLEAN
  /\ current_upgrade \in Upgrades \cup {0} /\ hand \in {"none", "w"} /\ unsent \in BOOLEAN

\* Where the client's windows are, and where the server is with this client.
ClientAt ==
  CASE window = "opening" -> "opening"
    [] window \in {"prelobby", "closed"} -> "idle"
    [] window = "asking" -> "asking"
    [] window = "lobby" -> IF posted = "accept" THEN "racing" ELSE "lobby"
    [] window = "race" ->
         CASE ~keep_running -> "idle"
           [] keep_running /\ state = "RUNNING_GAME" -> "racing"
           [] keep_running /\ state = "SHOW_UPGRADE" -> "choosing"
           [] keep_running /\ state = "PREGAME" -> "waiting"
           [] keep_running /\ state = "SHOW_POSITIONS" -> IF is_last_map THEN "final" ELSE "results"
ServerAt(q) ==
  CASE seat = "lobby" -> q = "lobby"
    [] seat = "race" /\ phase \in {"lobby", "racing"} -> q = "racing"
    [] seat = "race" /\ phase \in {"results", "choosing", "waiting"} -> q = phase
    [] seat = "race" /\ phase = "final" -> q = IF shown = 0 THEN "racing" ELSE "final"
    [] OTHER -> q \in {"opening", "idle", "asking"}
Follows == \E q : Leads(ClientAt, Coming, q) /\ ServerAt(q)

PhasesInPlace ==
  /\ seat = "lobby" => phase = "lobby"
  /\ phase \notin {"final", "over"} => shown = 0
WindowInPlace ==
  /\ window = "race" /\ keep_running /\ is_last_map => state = "SHOW_POSITIONS"
  /\ window = "race" => current_upgrade = IF state = "SHOW_UPGRADE" THEN wish ELSE 0
\* A question goes out alone, and is the last word until its answer comes.
OneAsk == NoAsks(toServer) \/ (Len(toServer) = 1 /\ window = "asking" /\ Coming = <<>>)
\* No key of an old race is read in the next one.
KeysOfTheRace ==
  /\ window \in {"asking", "lobby"} => NoKeys(toServer)
  /\ window = "lobby" => ~pressed
  /\ window = "asking" /\ pressed => \A i \in 1 .. Len(Coming) : Coming[i] = "refused"
\* The upgrade of this round is under way, or it came.
AnswerComes ==
  seat = "race" /\ phase = "waiting" /\ Coming = <<>> =>
    LastUpgrade(toServer, wish) \/ (answer = wish /\ NoUpgrades(toServer))
\* The last key under way is the one the user holds; with none under way the
\* server knows it.
KeyComes ==
  window = "race" /\ ~unsent =>
    /\ LastKey(toServer, hand)
    /\ seat = "race" /\ phase = "racing" /\ pressed /\ NoKeys(toServer) => hand = "w"

Good ==
  /\ ServerTyped /\ ClientTyped /\ Follows /\ PhasesInPlace /\ WindowInPlace /\ OneAsk /\ KeysOfTheRace
  /\ AnswerComes /\ KeyComes
CInv == Ordinary => Good

\* The client is in a lobby or in a game that is not over.
ServerBusy == seat = "lobby" \/ (seat = "race" /\ phase # "over")

-----------------------------------------------------------------------------
\* The events under way are a sequence of kinds.
LEMMA ComingSeq ==
  ASSUME ServerTyped, ClientTyped
  PROVE  /\ Coming \in Seq(Kinds) /\ Len(Coming) = Len(inbox) + Len(toClient)
         /\ Len(inbox) \in Nat /\ Len(toClient) \in Nat
         /\ Coming = <<>> <=> inbox = <<>> /\ toClient = <<>>
BY HearingSeq, LenProperties DEF ServerTyped, ClientTyped, Coming

\* The client is always somewhere.
LEMMA PlacesAre ==
  ASSUME ClientTyped
  PROVE  ClientAt \in Positions
BY DEF ClientTyped, ClientAt, Positions

\* A server busy with this client is past its question.
LEMMA BusyPlaces ==
  ASSUME ServerTyped, NEW q, ServerAt(q), ServerBusy
  PROVE  q \notin {"opening", "idle", "asking"}
BY DEF ServerTyped, ServerAt, ServerBusy

\* One that is not may as well have been asked.
LEMMA FreePlaces ==
  ASSUME ServerTyped, NEW q, ServerAt(q), q \in {"opening", "idle", "asking"}
  PROVE  ~ServerBusy /\ ServerAt("idle") /\ ServerAt("asking")
BY DEF ServerTyped, ServerAt, ServerBusy

\* While the server is busy with this client it has no question to answer, and
\* a client that did not hear of its lobby yet presses no key there.
LEMMA BusyServer ==
  ASSUME Good, ServerBusy
  PROVE  /\ NoAsks(toServer)
         /\ window = "asking" => ~pressed
<1>1. PICK q : Leads(ClientAt, Coming, q) /\ ServerAt(q)
  BY DEF Good, Follows
<1>2. q \notin {"opening", "idle", "asking"} /\ Coming \in Seq(Kinds)
  BY <1>1, BusyPlaces, ComingSeq DEF Good
<1>3. ASSUME window = "asking" PROVE ClientAt = "asking" /\ Coming # <<>>
  <2>1. ClientAt = "asking"
    BY <1>3 DEF ClientAt
  <2> QED
    BY <2>1, <1>1, <1>2, NothingLeadsNowhere
<1>4. NoAsks(toServer)
  BY <1>3 DEF Good, OneAsk
<1>5. ASSUME window = "asking", pressed PROVE FALSE
  <2>1. 1 \in 1 .. Len(Coming) /\ Len(Coming) \in Nat
    BY <1>2, <1>3, <1>5, EmptySeq, LenProperties
  <2>2. Coming[1] = "refused"
    BY <2>1, <1>5 DEF Good, KeysOfTheRace
  <2> DEFINE rest == SubSeq(Coming, 2, Len(Coming))
  <2>3. \A k \in 1 .. 1 - 1 : Coming[k] = "snapshot"
    OBVIOUS
  <2>4. Leads("idle", rest, q) /\ rest \in Seq(Kinds)
    <3>1. After(ClientAt, Coming[1]) = "idle"
      BY <1>3, <1>5, <2>2 DEF After
    <3>2. Leads(After(ClientAt, Coming[1]), SubSeq(Coming, 1 + 1, Len(Coming)), q)
      BY <1>1, <1>2, <2>1, <2>3, LeadsFrom
    <3>3. \A i \in 2 .. Len(Coming) : i \in 1 .. Len(Coming)
      BY <2>1
    <3>4. rest \in Seq(Kinds)
      BY <1>2, <2>1, SubSeqProperties, SubSeqEmpty, EmptySeq
    <3> QED
      BY <3>1, <3>2, <3>4
  <2>5. rest = <<>>
    BY <2>4, LeadsBack
  <2> QED
    BY <2>4, <2>5, <1>2, NothingLeadsNowhere
<1> QED
  BY <1>4, <1>5

\* The steps of the server: what it sends leads on.
LEMMA ServerLeads ==
  ASSUME Good, NEW q, Leads(ClientAt, Coming, q), NEW evs \in Seq(ServerEvents), NEW r,
         Leads(q, Types(evs), r), ServerAt(r)',
         toClient' = toClient \o evs, UNCHANGED <<inbox, window, posted, keep_running, state, is_last_map>>
  PROVE  /\ toClient' \in Seq(ServerEvents) /\ Follows'
         /\ Coming' = Coming \o Types(evs) /\ Types(evs) \in Seq(Kinds) /\ Coming \in Seq(Kinds)
<1>1. toClient \in Seq(ServerEvents) /\ inbox \in Seq(ClientEvents)
  BY DEF Good, ServerTyped, ClientTyped
<1>2. toClient' \in Seq(ServerEvents)
  BY <1>1, ConcatProperties
<1>3. Coming' = Coming \o Types(evs) /\ Types(evs) \in Seq(Kinds) /\ Coming \in Seq(Kinds)
  BY <1>1, HearingSent, HearingSeq DEF Coming
<1>4. ClientAt' = ClientAt
  BY DEF ClientAt
<1>5. Leads(ClientAt', Coming', r)
  BY <1>3, <1>4, LeadsOn
<1> QED
  BY <1>2, <1>3, <1>5 DEF Follows

\* The steps of the client: it takes an event from its queue.
LEMMA ClientTakes ==
  ASSUME Good, NEW q, Leads(ClientAt, Coming, q), NEW m \in 1 .. Len(inbox),
         \A k \in 1 .. m - 1 : Heard(inbox[k]) = "snapshot",
         inbox' = SubSeq(inbox, m + 1, Len(inbox)), toClient' = toClient
  PROVE  /\ inbox' \in Seq(ClientEvents) /\ inbox[m] \in ClientEvents
         /\ inbox[m].type \in ClientKinds
         /\ After(ClientAt, Heard(inbox[m])) \in Positions
         /\ Leads(After(ClientAt, Heard(inbox[m])), Coming', q)
         /\ Coming' = SubSeq(Coming, m + 1, Len(Coming)) /\ m \in 1 .. Len(Coming)
         /\ Coming[m] = Heard(inbox[m])
<1>1. toClient \in Seq(ServerEvents) /\ inbox \in Seq(ClientEvents)
  BY DEF Good, ServerTyped, ClientTyped
<1>2. inbox' \in Seq(ClientEvents) /\ Coming' = SubSeq(Coming, m + 1, Len(Coming))
  BY <1>1, HearingPopped DEF Coming
<1>3. /\ Coming \in Seq(Kinds) /\ Len(Coming) = Len(inbox) + Len(toClient)
      /\ \A i \in 1 .. Len(inbox) : Coming[i] = Heard(inbox[i])
  BY <1>1, HearingSeq DEF Coming
<1>4. m \in 1 .. Len(Coming) /\ \A k \in 1 .. m - 1 : k \in 1 .. Len(inbox)
  BY <1>1, <1>3, LenProperties
<1>5. \A k \in 1 .. m - 1 : Coming[k] = "snapshot"
  BY <1>3, <1>4
<1>6. Coming[m] = Heard(inbox[m])
  BY <1>3
<1>7. After(ClientAt, Coming[m]) \in Positions /\ Leads(After(ClientAt, Coming[m]), SubSeq(Coming, m + 1, Len(Coming)), q)
  BY <1>3, <1>4, <1>5, LeadsFrom
<1>8. inbox[m] \in ClientEvents
  BY <1>1, ElementOfSeq
<1>9. inbox[m].type \in ClientKinds
  BY <1>8, EventKinds
<1> QED
  BY <1>2, <1>4, <1>6, <1>7, <1>8, <1>9

\* When the client heard everything it is where the server is.
LEMMA UpToDate ==
  ASSUME Follows, Coming = <<>>
  PROVE  ServerAt(ClientAt)
BY NothingLeadsNowhere DEF Follows

\* Only the race window waits for the next race.
LEMMA WaitingPlace ==
  ASSUME ServerAt(ClientAt), ClientTyped, seat = "race", phase = "waiting"
  PROVE  window = "race" /\ keep_running /\ state = "PREGAME"
BY DEF ServerAt, ClientAt, ClientTyped

\* The messages of a step of the game, as events.
LEMMA RaceTypes ==
  ASSUME NEW s \in Seq({"pregame", "snapshot", "results", "final_results", "phase"}),
         round \in Nat, shown \in 0 .. Tables
  PROVE  LET evs == [i \in DOMAIN s |-> RaceEvent(s[i], i)]
         IN  evs \in Seq(ServerEvents) /\ Types(evs) = s /\ (evs = <<>> => s = <<>>)
<1> DEFINE evs == [i \in DOMAIN s |-> RaceEvent(s[i], i)]
<1>1. Len(s) \in Nat /\ DOMAIN s = 1 .. Len(s) /\ s = [i \in 1 .. Len(s) |-> s[i]]
  BY LenProperties
<1>2. round \in Int /\ shown \in Nat /\ Races \in Int
  BY ClientAssumption
<1>3. ASSUME NEW i \in 1 .. Len(s) PROVE RaceEvent(s[i], i) \in ServerEvents /\ RaceEvent(s[i], i).type = s[i]
  <2>0. s[i] \in {"pregame", "snapshot", "results", "final_results", "phase"} /\ i \in Int
    BY <1>1, ElementOfSeq
  <2>1. CASE s[i] = "pregame"
    <3>1. RaceEvent(s[i], i) = [type |-> "pregame", pole |-> <<1, 2, 3, 4, 2>>, remaining |-> Races - round,
                                map |-> 1, total |-> 2, move |-> 1]
      BY <2>1 DEF RaceEvent
    <3>2. Races - round \in Int
      BY <1>2
    <3>3. RaceEvent(s[i], i) \in [type : {"pregame"}, pole : {<<1, 2, 3, 4, 2>>}, remaining : Int, map : {1},
                                 total : {2}, move : {1}]
      BY <3>1, <3>2
    <3> QED
      BY <2>1, <3>1, <3>3, Zenon DEF ServerEvents
  <2>2. CASE s[i] = "snapshot"
    <3>1. RaceEvent(s[i], i) = [type |-> "snapshot", time |-> IF go THEN 1 ELSE 2, cars |-> SampleCars,
                                npcs |-> SampleNpcs]
      BY <2>2 DEF RaceEvent
    <3>2. RaceEvent(s[i], i) \in [type : {"snapshot"}, time : {1, 2}, cars : {SampleCars}, npcs : {SampleNpcs}]
      BY <3>1
    <3> QED
      BY <2>2, <3>1, <3>2, Zenon DEF ServerEvents
  <2>3. CASE s[i] = "results"
    <3>1. RaceEvent(s[i], i) = [type |-> "results", last |-> 0, rows |-> ManyRows]
      BY <2>3 DEF RaceEvent
    <3>2. RaceEvent(s[i], i) \in [type : {"results"}, last : {0}, rows : {ManyRows}]
      BY <3>1
    <3> QED
      BY <2>3, <3>1, <3>2, Zenon DEF ServerEvents
  <2>4. CASE s[i] = "final_results"
    <3>1. RaceEvent(s[i], i) = [type |-> "final_results", rows |-> IF shown + i = 1 THEN FewRows ELSE ManyRows,
                                podium |-> IF shown + i - 1 > 3 THEN 3 ELSE shown + i - 1]
      BY <2>4 DEF RaceEvent
    <3>2. (IF shown + i - 1 > 3 THEN 3 ELSE shown + i - 1) \in 0 .. 3
      BY <1>2
    <3>3. RaceEvent(s[i], i) \in [type : {"final_results"}, rows : {FewRows, ManyRows}, podium : 0 .. 3]
      BY <3>1, <3>2
    <3> QED
      BY <2>4, <3>1, <3>3, Zenon DEF ServerEvents
  <2>5. CASE s[i] = "phase"
    <3>1. RaceEvent(s[i], i) = [type |-> s[i]]
      BY <2>5 DEF RaceEvent
    <3>2. RaceEvent(s[i], i) \in [type : {"accepted", "refused", "start", "phase"}]
      BY <3>1, <2>5
    <3>3. RaceEvent(s[i], i).type = s[i]
      BY <3>1
    <3> QED
      BY <3>2, <3>3, Zenon DEF ServerEvents
  <2> QED
    BY <2>0, <2>1, <2>2, <2>3, <2>4, <2>5
<1>4. evs \in Seq(ServerEvents) /\ Len(evs) = Len(s)
  <2>1. evs = [i \in 1 .. Len(s) |-> RaceEvent(s[i], i)]
    BY <1>1
  <2>2. \A i \in 1 .. Len(s) : RaceEvent(s[i], i) \in ServerEvents
    BY <1>3
  <2> HIDE DEF evs
  <2> QED
    BY <2>1, <2>2, <1>1, IsASeq
<1>5. Types(evs) = s
  <2>1. \A i \in 1 .. Len(s) : evs[i].type = s[i]
    BY <1>1, <1>3
  <2> HIDE DEF evs
  <2>2. Types(evs) = [i \in 1 .. Len(s) |-> s[i]]
    BY <2>1, <1>4 DEF Types
  <2> QED
    BY <2>2, <1>1
<1> HIDE DEF evs
<1>6. evs = <<>> => s = <<>>
  BY <1>1, <1>4, EmptySeq
<1> QED
  BY <1>4, <1>5, <1>6 DEF evs

\* Any number of last tables.
LEMMA TablesLead ==
  ASSUME NEW n \in Nat, NEW p \in {"racing", "final"}, n = 0 => p = "final"
  PROVE  LET s == [i \in 1 .. n |-> "final_results"]
         IN  s \in Seq(Kinds) /\ Len(s) = n /\ Leads(p, s, "final")
<1> DEFINE s == [i \in 1 .. n |-> "final_results"]
           ph == [i \in 0 .. n |-> IF i = 0 THEN p ELSE "final"]
<1>1. s \in Seq(Kinds) /\ Len(s) = n
  <2>1. \A i \in 1 .. n : "final_results" \in Kinds
    BY DEF Kinds
  <2> QED
    BY <2>1, IsASeq
<1>2. \A i \in 1 .. n : s[i] = "final_results"
  OBVIOUS
<1> HIDE DEF s
<1>3. ph \in [0 .. n -> Positions] /\ ph[0] = p /\ ph[n] = "final" /\ \A i \in 0 .. n : ph[i] \in {"racing", "final"}
  BY DEF Positions
<1>4. \A i \in 1 .. n : ph[i] = After(ph[i - 1], s[i])
  BY <1>2 DEF After
<1> HIDE DEF ph
<1>5. ASSUME NEW i \in 0 .. n, NEW j \in 0 .. n, i <= j
      PROVE  /\ ph[j] \in {"asking", "lobby"} => ph[i] \in {"asking", "lobby"}
             /\ (\A k \in i + 1 .. j : s[k] = "snapshot") => ph[i] = ph[j]
  <2>1. ph[j] \notin {"asking", "lobby"}
    BY <1>3
  <2>2. ASSUME \A k \in i + 1 .. j : s[k] = "snapshot" PROVE i = j
    <3>1. ASSUME i < j PROVE FALSE
      <4>1. j \in i + 1 .. j /\ j \in 1 .. n
        BY <3>1
      <4> QED
        BY <4>1, <2>2, <1>2
    <3> QED
      BY <3>1, <1>5
  <2> QED
    BY <2>1, <2>2
<1>6. IsPath(ph, s)
  BY <1>1, <1>4, <1>5 DEF IsPath
<1> QED
  BY <1>1, <1>3, <1>6 DEF Leads, s

\* A step of the server that says evs.
LEMMA ServerStep ==
  ASSUME Good, NEW q, Leads(ClientAt, Coming, q), NEW evs \in Seq(ServerEvents), NEW r,
         Leads(q, Types(evs), r), ServerAt(r)', toClient' = toClient \o evs, UNCHANGED cvars,
         \/ toServer' = toServer
         \/ toServer # <<>> /\ toServer' = Tail(toServer),
         NoAsks(toServer'),
         seat' \in {"none", "lobby", "race"},
         phase' \in {"lobby", "racing", "results", "choosing", "waiting", "final", "over"},
         round' \in Nat, shown' \in 0 .. Tables, pressed' \in BOOLEAN, PhasesInPlace',
         window \in {"asking", "lobby"} /\ pressed' =>
           pressed /\ \A i \in 1 .. Len(evs) : evs[i].type = "refused",
         AnswerComes',
         window = "race" /\ ~unsent /\ seat' = "race" /\ phase' = "racing" /\ pressed' /\ NoKeys(toServer')
           => hand = "w"
  PROVE  Good'
<1>1. /\ toClient' \in Seq(ServerEvents) /\ Follows' /\ Coming' = Coming \o Types(evs)
      /\ Types(evs) \in Seq(Kinds) /\ Coming \in Seq(Kinds)
  <2>1. UNCHANGED <<inbox, window, posted, keep_running, state, is_last_map>>
    BY DEF cvars, lobbywindow, racewindow, phasemanager
  <2> QED
    BY <2>1, ServerLeads
<1>2. UNCHANGED <<inbox, window, posted, keep_running, state, is_last_map, code, race_started, current_upgrade,
                  hand, unsent, wish>>
  BY DEF cvars, lobbywindow, racewindow, phasemanager
<1>3. ServerTyped'
  BY <1>1 DEF ServerTyped
<1>4. /\ toServer' \in Seq(ClientMessages)
      /\ NoKeys(toServer) => NoKeys(toServer')
      /\ LastKey(toServer, hand) => LastKey(toServer', hand)
  <2>1. toServer \in Seq(ClientMessages)
    BY DEF Good, ClientTyped
  <2>2. CASE toServer' = toServer
    BY <2>1, <2>2
  <2>3. CASE toServer # <<>> /\ toServer' = Tail(toServer)
    BY <2>1, <2>3, MessageServed
  <2> QED
    BY <2>2, <2>3
<1>5. ClientTyped'
  BY <1>2, <1>4 DEF Good, ClientTyped
<1>6. WindowInPlace'
  BY <1>2 DEF Good, WindowInPlace
<1>7. OneAsk'
  BY DEF OneAsk
<1>8. KeysOfTheRace'
  <2>1. window' \in {"asking", "lobby"} => NoKeys(toServer')
    BY <1>2, <1>4 DEF Good, KeysOfTheRace
  <2>2. window' = "lobby" => ~pressed'
    BY <1>2 DEF Good, KeysOfTheRace
  <2>3. ASSUME window' = "asking", pressed', NEW i \in 1 .. Len(Coming') PROVE Coming'[i] = "refused"
    <3>1. \A n \in 1 .. Len(Coming) : Coming[n] = "refused"
      BY <1>2, <2>3 DEF Good, KeysOfTheRace
    <3>2. \A n \in 1 .. Len(evs) : Types(evs)[n] = "refused"
      BY <1>2, <2>3 DEF Types
    <3>3. Len(Types(evs)) = Len(evs)
      BY HearingSeq DEF Good, ClientTyped
    <3>4. /\ Len(Coming') = Len(Coming) + Len(Types(evs)) /\ Len(Coming) \in Nat /\ Len(Types(evs)) \in Nat
          /\ \A n \in 1 .. Len(Coming) + Len(Types(evs)) :
               Coming'[n] = IF n <= Len(Coming) THEN Coming[n] ELSE Types(evs)[n - Len(Coming)]
      <4> HIDE DEF Coming, Types
      <4>1. /\ Len(Coming \o Types(evs)) = Len(Coming) + Len(Types(evs))
            /\ Len(Coming) \in Nat /\ Len(Types(evs)) \in Nat
            /\ \A n \in 1 .. Len(Coming) + Len(Types(evs)) :
                 (Coming \o Types(evs))[n] = IF n <= Len(Coming) THEN Coming[n] ELSE Types(evs)[n - Len(Coming)]
        BY <1>1, KindsJoin
      <4> QED
        BY <4>1, <1>1
    <3>5. i \in 1 .. Len(Coming) + Len(Types(evs))
      BY <2>3, <3>4
    <3>6. CASE i <= Len(Coming)
      BY <3>1, <3>4, <3>5, <3>6
    <3>7. CASE ~(i <= Len(Coming))
      <4>1. i - Len(Coming) \in 1 .. Len(evs)
        BY <3>3, <3>4, <3>5, <3>7
      <4> QED
        BY <4>1, <3>2, <3>4, <3>5, <3>7
    <3> QED
      BY <3>6, <3>7
  <2> QED
    BY <2>1, <2>2, <2>3 DEF KeysOfTheRace
<1>9. KeyComes'
  BY <1>2, <1>4 DEF Good, KeyComes
<1> QED
  BY <1>1, <1>3, <1>5, <1>6, <1>7, <1>8, <1>9 DEF Good

\* Words of the server and where they lead.
LEMMA NothingSaid ==
  ASSUME NEW q \in Positions
  PROVE  /\ <<>> \in Seq(ServerEvents) /\ Types(<<>>) = <<>> /\ Leads(q, Types(<<>>), q)
         /\ Len(<<>>) = 0 /\ \A s \in Seq(ServerEvents) : s \o <<>> = s
<1>1. Types(<<>>) = <<>>
  BY DEF Types
<1>2. \A s \in Seq(ServerEvents) : s \o <<>> = s
  BY ConcatEmptySeq
<1> QED
  BY <1>1, <1>2, StandsStill

\* One event, said where it is in place.
LEMMA OneSaid ==
  ASSUME NEW ev \in ServerEvents, NEW q \in Positions, After(q, ev.type) \in Positions
  PROVE  /\ <<ev>> \in Seq(ServerEvents) /\ Types(<<ev>>) = <<ev.type>> /\ Len(<<ev>>) = 1
         /\ <<ev>>[1] = ev /\ <<ev>> # <<>>
         /\ Leads(q, Types(<<ev>>), After(q, ev.type))
<1>1. ev.type \in Kinds
  BY EventKinds
<1>2. Types(<<ev>>) = <<ev.type>>
  BY DEF Types
<1> QED
  BY <1>1, <1>2, OneLeads

\* The two events that follow an accepted request.
LEMMA SeatSaid ==
  LET evs == <<[type |-> "accepted"], LobbyEvent(1)>>
  IN  /\ evs \in Seq(ServerEvents) /\ evs # <<>> /\ Leads("asking", Types(evs), "lobby")
<1> DEFINE evs == <<[type |-> "accepted"], LobbyEvent(1)>>
<1>1. [type |-> "accepted"] \in ServerEvents /\ LobbyEvent(1) \in ServerEvents
  <2>1. [type |-> "accepted"] \in [type : {"accepted", "refused", "start", "phase"}]
    OBVIOUS
  <2> QED
    BY <2>1, Zenon DEF ServerEvents
<1>2. evs \in Seq(ServerEvents) /\ evs # <<>>
  BY <1>1
<1>3. LobbyEvent(1).type = "lobby"
  BY DEF LobbyEvent
<1>4. Types(evs) = <<"accepted", "lobby">>
  BY <1>3 DEF Types
<1>5. <<"accepted", "lobby">> = <<"accepted">> \o <<"lobby">>
  OBVIOUS
<1>6. /\ "asking" \in Positions /\ "lobby" \in Positions /\ "accepted" \in Kinds /\ "lobby" \in Kinds
      /\ After("asking", "accepted") = "lobby" /\ After("lobby", "lobby") = "lobby"
  BY DEF Positions, Kinds, After
<1>7. Leads("asking", <<"accepted">>, "lobby") /\ Leads("lobby", <<"lobby">>, "lobby")
  BY <1>6, OneLeads
<1>8. <<"accepted">> \in Seq(Kinds) /\ <<"lobby">> \in Seq(Kinds)
  BY <1>6
<1>9. Leads("asking", <<"accepted">> \o <<"lobby">>, "lobby")
  BY <1>7, <1>8, LeadsOn
<1> QED
  BY <1>2, <1>4, <1>5, <1>9

\* The events without fields, and the view of a lobby of two.
LEMMA EventsSaid ==
  /\ \A t \in {"accepted", "refused", "start", "phase"} : [type |-> t] \in ServerEvents
  /\ LobbyEvent(2) \in ServerEvents /\ LobbyEvent(2).type = "lobby"
<1>1. ASSUME NEW t \in {"accepted", "refused", "start", "phase"} PROVE [type |-> t] \in ServerEvents
  <2>1. [type |-> t] \in [type : {"accepted", "refused", "start", "phase"}]
    OBVIOUS
  <2> QED
    BY <2>1, Zenon DEF ServerEvents
<1>2. LobbyEvent(2).type = "lobby"
  BY DEF LobbyEvent
<1> QED
  BY <1>1, <1>2, Zenon DEF ServerEvents

-----------------------------------------------------------------------------
\* The server reads a command for what the client meant.
LEMMA CommandRead ==
  ASSUME Good, Take, [ReadAsMeant]_pvars
  PROVE  /\ Command = Asks(Head(toServer)) /\ Head(toServer) \in ClientMessages
         /\ toServer \in Seq(ClientMessages) /\ toServer # <<>> /\ toServer' = Tail(toServer)
<1>1. toServer \in Seq(ClientMessages) /\ toServer # <<>> /\ toServer' = Tail(toServer)
  BY DEF Good, ClientTyped, Take
<1>2. toServer' # toServer /\ Head(toServer) \in ClientMessages
  BY <1>1, MessageServed
<1>3. ReadAsMeant
  BY <1>2 DEF pvars, wire
<1> DEFINE m == send_event(Head(toServer))
<1>4. get_command(m) = Took(Asks(Head(toServer)), Len(m))
  BY <1>3 DEF ReadAsMeant
<1> HIDE DEF m
<1>5. get_command(m).event = Asks(Head(toServer))
  BY <1>4 DEF Took
<1> QED
  BY <1>1, <1>2, <1>5 DEF Command, m

\* What Follows gives: a place of the client and one of the server.
LEMMA Places ==
  ASSUME Good
  PROVE  \E q \in Positions : Leads(ClientAt, Coming, q) /\ ServerAt(q)
<1>1. Coming \in Seq(Kinds)
  BY ComingSeq DEF Good
<1> QED
  BY <1>1, LeadsBack DEF Good, Follows

\* While a question waits the client does nothing but wait for the answer.
LEMMA QuestionWaits ==
  ASSUME Good, toServer # <<>>, Head(toServer).type \in {"CREATE_LOBBY", "JOIN_LOBBY"}
  PROVE  Tail(toServer) = <<>> /\ window = "asking" /\ Coming = <<>> /\ ClientAt = "asking" /\ ServerAt("asking")
<1>1. toServer \in Seq(ClientMessages)
  BY DEF Good, ClientTyped
<1>2. ~NoAsks(toServer) /\ (Len(toServer) = 1 => Tail(toServer) = <<>>)
  BY <1>1, MessageServed
<1>3. window = "asking" /\ Coming = <<>> /\ Tail(toServer) = <<>>
  BY <1>2 DEF Good, OneAsk
<1>4. ClientAt = "asking"
  BY <1>3 DEF ClientAt
<1>5. ServerAt(ClientAt)
  BY <1>3, UpToDate DEF Good
<1> QED
  BY <1>3, <1>4, <1>5

\* The server seats the client: create_lobby_and_join and join_lobby.
LEMMA ServeSeatKeeps ==
  ASSUME Good, [ReadAsMeant]_pvars, ServeSeat
  PROVE  Good'
<1> DEFINE evs == <<[type |-> "accepted"], LobbyEvent(1)>>
<1>1. Take /\ Command.type \in {"CreateLobby", "JoinLobby"} /\ UNCHANGED cvars /\ toClient' = toClient \o evs
  BY DEF ServeSeat, SendEvents
<1>2. /\ seat' = "lobby" /\ round' = 0 /\ phase' = "lobby" /\ shown' = 0 /\ pressed' = FALSE
  BY DEF ServeSeat, NewTournament
<1>3. /\ Command = Asks(Head(toServer)) /\ Head(toServer) \in ClientMessages
      /\ toServer # <<>> /\ toServer' = Tail(toServer)
  BY <1>1, CommandRead
<1>4. Head(toServer).type \in {"CREATE_LOBBY", "JOIN_LOBBY"}
  BY <1>1, <1>3, MessageTypes
<1>5. Tail(toServer) = <<>> /\ window = "asking" /\ Coming = <<>> /\ ClientAt = "asking"
  BY <1>3, <1>4, QuestionWaits
<1>6. evs \in Seq(ServerEvents) /\ Leads("asking", Types(evs), "lobby")
  BY SeatSaid
<1> HIDE DEF evs
<1>7. Leads(ClientAt, Coming, "asking")
  BY <1>5, StandsStill, PlacesAre DEF Good
<1>8. ServerAt("lobby")'
  BY <1>2 DEF ServerAt
<1>9. NoAsks(toServer')
  BY <1>3, <1>5, NothingWaits
<1>10. AnswerComes' /\ PhasesInPlace' /\ shown' \in 0 .. Tables
  BY <1>2, ClientAssumption DEF AnswerComes, PhasesInPlace
<1> QED
  BY <1>1, <1>2, <1>3, <1>6, <1>7, <1>8, <1>9, <1>10, ServerStep

\* The server refuses the client.
LEMMA ServeRefusalKeeps ==
  ASSUME Good, [ReadAsMeant]_pvars, ServeRefusal
  PROVE  Good'
<1> DEFINE ev == [type |-> "refused"]
<1>1. Take /\ Command.type = "JoinLobby" /\ UNCHANGED <<svars, cvars>> /\ toClient' = toClient \o <<ev>>
  BY DEF ServeRefusal, SendEvents
<1>2. UNCHANGED <<round, phase, shown, seat, answer, pressed, cvars>>
  BY <1>1 DEF svars, tvars
<1>3. /\ Command = Asks(Head(toServer)) /\ Head(toServer) \in ClientMessages
      /\ toServer # <<>> /\ toServer' = Tail(toServer)
  BY <1>1, CommandRead
<1>4. Head(toServer).type \in {"CREATE_LOBBY", "JOIN_LOBBY"}
  BY <1>1, <1>3, MessageTypes
<1>5. Tail(toServer) = <<>> /\ window = "asking" /\ Coming = <<>> /\ ClientAt = "asking" /\ ServerAt("asking")
  BY <1>3, <1>4, QuestionWaits
<1>6. ev \in ServerEvents /\ ev.type = "refused" /\ After("asking", "refused") = "idle"
      /\ "idle" \in Positions /\ "asking" \in Positions
  BY EventsSaid DEF After, Positions
<1> HIDE DEF ev
<1>7. /\ <<ev>> \in Seq(ServerEvents) /\ Leads("asking", Types(<<ev>>), "idle")
      /\ \A i \in 1 .. Len(<<ev>>) : <<ev>>[i].type = "refused"
  BY <1>6, OneSaid
<1>8. Leads(ClientAt, Coming, "asking")
  BY <1>5, <1>6, StandsStill
<1>9. ServerAt("idle") /\ ~ServerBusy
  BY <1>5, FreePlaces DEF Good
<1>10. ServerAt("idle")'
  BY <1>2, <1>9 DEF ServerAt
<1>11. NoAsks(toServer')
  BY <1>3, <1>5, NothingWaits
<1>12. AnswerComes'
  BY <1>2, <1>9 DEF AnswerComes, ServerBusy
<1>13. /\ ServerTyped /\ PhasesInPlace' /\ (window = "asking" /\ pressed' => pressed) /\ ~(seat' = "race" /\ phase' = "racing")
  BY <1>2, <1>9 DEF Good, PhasesInPlace, ServerBusy
<1>14. /\ seat' \in {"none", "lobby", "race"} /\ round' \in Nat /\ shown' \in 0 .. Tables /\ pressed' \in BOOLEAN
       /\ phase' \in {"lobby", "racing", "results", "choosing", "waiting", "final", "over"}
  BY <1>2, <1>13 DEF ServerTyped
<1> QED
  BY <1>1, <1>2, <1>3, <1>5, <1>7, <1>8, <1>10, <1>11, <1>12, <1>13, <1>14, ServerStep

\* A command that the server reads in silence.
LEMMA ServeQuiet ==
  ASSUME Good, toServer # <<>>, toServer' = Tail(toServer),
         Head(toServer).type \notin {"CREATE_LOBBY", "JOIN_LOBBY"},
         UNCHANGED <<toClient, tvars, seat, cvars>>, pressed' \in BOOLEAN,
         window \in {"asking", "lobby"} /\ pressed' => pressed,
         AnswerComes',
         window = "race" /\ ~unsent /\ seat = "race" /\ phase = "racing" /\ pressed' /\ NoKeys(toServer')
           => hand = "w"
  PROVE  Good'
<1>1. PICK q \in Positions : Leads(ClientAt, Coming, q) /\ ServerAt(q)
  BY Places
<1>2. UNCHANGED <<round, phase, shown, seat, toClient, cvars>>
  BY DEF tvars
<1>3. toClient \in Seq(ServerEvents) /\ toServer \in Seq(ClientMessages)
  BY DEF Good, ServerTyped, ClientTyped
<1>4. NoAsks(toServer')
  <2>1. NoAsks(toServer)
    <3>1. CASE Len(toServer) = 1
      <4>1. Head(toServer) = toServer[1] /\ \A i \in 1 .. Len(toServer) : i = 1
        BY <1>3, <3>1
      <4> QED
        BY <4>1 DEF NoAsks
    <3> QED
      BY <3>1 DEF Good, OneAsk
  <2> QED
    BY <2>1, <1>3, MessageServed
<1>5. <<>> \in Seq(ServerEvents) /\ Leads(q, Types(<<>>), q) /\ toClient' = toClient \o <<>> /\ Len(<<>>) = 0
  BY <1>2, <1>3, NothingSaid
<1>6. ServerAt(q)'
  BY <1>1, <1>2 DEF ServerAt
<1>7. /\ seat' \in {"none", "lobby", "race"} /\ round' \in Nat /\ shown' \in 0 .. Tables
      /\ phase' \in {"lobby", "racing", "results", "choosing", "waiting", "final", "over"}
      /\ PhasesInPlace'
  BY <1>2 DEF Good, ServerTyped, PhasesInPlace
<1>8. \A i \in 1 .. Len(<<>>) : <<>>[i].type = "refused"
  BY <1>5
<1> QED
  BY <1>1, <1>2, <1>4, <1>5, <1>6, <1>7, <1>8, ServerStep

\* A key reaches the race.
LEMMA ServeMoveKeeps ==
  ASSUME Good, [ReadAsMeant]_pvars, ServeMove
  PROVE  Good'
<1>1. Take /\ Command.type = "Move" /\ UNCHANGED <<toClient, tvars, seat, answer, cvars>>
  BY DEF ServeMove
<1>2. /\ Command = Asks(Head(toServer)) /\ Head(toServer) \in ClientMessages
      /\ toServer \in Seq(ClientMessages) /\ toServer # <<>> /\ toServer' = Tail(toServer)
  BY <1>1, CommandRead
<1> DEFINE c == Head(toServer)
<1>3. c.type = "SEND_KEY" /\ c.key \in {"w", "no_w"} /\ Command.param = KeyCodes[c.key]
  BY <1>1, <1>2, MessageTypes
<1>4. (c.key = "w" => Command.param = 0) /\ (c.key = "no_w" => Command.param = 4)
  BY <1>3 DEF KeyCodes
<1>5. /\ NoKeys(toServer) => c.type # "SEND_KEY"
      /\ \A h : LastKey(toServer, h) => (NoKeys(toServer') /\ c.type = "SEND_KEY" => (c.key = "w" <=> h = "w"))
      /\ NoUpgrades(toServer) => NoUpgrades(toServer')
      /\ LastUpgrade(toServer, wish) => LastUpgrade(toServer', wish) \/ c.type = "UPGRADES"
  BY <1>2, MessageServed
<1> HIDE DEF c
<1>6. pressed' \in BOOLEAN /\ (seat = "race" /\ phase = "racing" /\ pressed' => c.key = "w")
  <2>1. CASE seat = "race" /\ phase = "racing"
    <3>1. pressed' = CASE Command.param = 0 -> TRUE [] Command.param = 4 -> FALSE [] OTHER -> pressed
      BY <2>1 DEF ServeMove
    <3>2. CASE c.key = "w"
      <4>1. pressed' = TRUE
        BY <3>1, <3>2, <1>4
      <4> QED
        BY <4>1, <3>2
    <3>3. CASE c.key = "no_w"
      <4>1. 4 # 0
        OBVIOUS
      <4>2. pressed' = FALSE
        BY <3>1, <3>3, <4>1, <1>4
      <4> QED
        BY <4>2
    <3> QED
      BY <3>2, <3>3, <1>3
  <2>2. CASE ~(seat = "race" /\ phase = "racing")
    <3>1. pressed' = pressed /\ pressed \in BOOLEAN
      BY <2>2 DEF ServeMove, Good, ServerTyped
    <3> QED
      BY <2>2, <3>1
  <2> QED
    BY <2>1, <2>2
<1>7. UNCHANGED <<seat, phase, answer, wish, window, inbox, toClient>>
  BY <1>1 DEF tvars, cvars, racewindow
<1>8. Coming' = Coming
  BY <1>7 DEF Coming
<1>9. AnswerComes'
  <2>1. ASSUME seat' = "race", phase' = "waiting", Coming' = <<>>
        PROVE  LastUpgrade(toServer', wish') \/ (answer' = wish' /\ NoUpgrades(toServer'))
    <3>1. LastUpgrade(toServer, wish) \/ (answer = wish /\ NoUpgrades(toServer))
      BY <1>7, <1>8, <2>1 DEF Good, AnswerComes
    <3> QED
      BY <3>1, <1>3, <1>5, <1>7
  <2> QED
    BY <2>1 DEF AnswerComes
<1>10. window \in {"asking", "lobby"} /\ pressed' => pressed
  BY <1>3, <1>5 DEF Good, KeysOfTheRace
<1>11. ASSUME window = "race", ~unsent, seat = "race", phase = "racing", pressed', NoKeys(toServer')
       PROVE  hand = "w"
  <2>1. LastKey(toServer, hand)
    BY <1>11 DEF Good, KeyComes
  <2> QED
    BY <2>1, <1>3, <1>5, <1>6, <1>11
<1>12. c.type \notin {"CREATE_LOBBY", "JOIN_LOBBY"}
  BY <1>3
<1> QED
  BY <1>1, <1>2, <1>6, <1>9, <1>10, <1>11, <1>12, ServeQuiet DEF c

\* An upgrade reaches the game.
LEMMA ServeUpgradeKeeps ==
  ASSUME Good, [ReadAsMeant]_pvars, ServeUpgrade
  PROVE  Good'
<1>1. Take /\ Command.type = "Upgrade" /\ UNCHANGED <<toClient, tvars, seat, pressed, cvars>>
  BY DEF ServeUpgrade
<1>2. /\ Command = Asks(Head(toServer)) /\ Head(toServer) \in ClientMessages
      /\ toServer \in Seq(ClientMessages) /\ toServer # <<>> /\ toServer' = Tail(toServer)
  BY <1>1, CommandRead
<1> DEFINE c == Head(toServer)
<1>3. c.type = "UPGRADES" /\ Command.param = c.upgrade
  BY <1>1, <1>2, MessageTypes
<1>5. /\ NoKeys(toServer') /\ c.type # "SEND_KEY" => NoKeys(toServer)
      /\ NoUpgrades(toServer) => c.type # "UPGRADES"
      /\ LastUpgrade(toServer, wish) =>
           LastUpgrade(toServer', wish) \/ (c.upgrade = wish /\ NoUpgrades(toServer'))
  BY <1>2, MessageServed
<1> HIDE DEF c
<1>6. pressed' \in BOOLEAN /\ pressed' = pressed
  BY <1>1 DEF Good, ServerTyped
<1>7. UNCHANGED <<seat, phase, wish, window, inbox, toClient>>
  BY <1>1 DEF tvars, cvars, racewindow
<1>8. Coming' = Coming
  BY <1>7 DEF Coming
<1>9. AnswerComes'
  <2>1. ASSUME seat' = "race", phase' = "waiting", Coming' = <<>>
        PROVE  LastUpgrade(toServer', wish') \/ (answer' = wish' /\ NoUpgrades(toServer'))
    <3>1. LastUpgrade(toServer, wish) \/ (answer = wish /\ NoUpgrades(toServer))
      BY <1>7, <1>8, <2>1 DEF Good, AnswerComes
    <3>2. answer' = c.upgrade
      BY <1>3, <1>7, <2>1 DEF ServeUpgrade
    <3> QED
      BY <3>1, <3>2, <1>3, <1>5, <1>7
  <2> QED
    BY <2>1 DEF AnswerComes
<1>11. ASSUME window = "race", ~unsent, seat = "race", phase = "racing", pressed', NoKeys(toServer')
       PROVE  hand = "w"
  BY <1>3, <1>5, <1>6, <1>11 DEF Good, KeyComes
<1>12. c.type \notin {"CREATE_LOBBY", "JOIN_LOBBY"}
  BY <1>3
<1> QED
  BY <1>1, <1>2, <1>6, <1>9, <1>11, <1>12, ServeQuiet DEF c

\* The game starts, for this client or for another of its lobby.
LEMMA StartKeeps ==
  ASSUME Good, StartLobby,
         \/ toServer' = toServer
         \/ toServer # <<>> /\ toServer' = Tail(toServer)
  PROVE  Good'
<1> DEFINE ev == [type |-> "start"]
<1>1. /\ seat = "lobby" /\ seat' = "race" /\ toClient' = toClient \o <<ev>>
      /\ UNCHANGED <<round, phase, shown, answer, pressed, cvars>>
  BY DEF StartLobby, SendEvents, tvars
<1>2. ServerBusy /\ phase = "lobby" /\ shown = 0
  BY <1>1 DEF Good, PhasesInPlace, ServerBusy
<1>3. PICK q \in Positions : Leads(ClientAt, Coming, q) /\ ServerAt(q)
  BY Places
<1>4. q = "lobby"
  BY <1>1, <1>3 DEF ServerAt
<1>5. ev \in ServerEvents /\ ev.type = "start" /\ After("lobby", "start") = "racing" /\ "racing" \in Positions
  BY EventsSaid DEF After, Positions
<1> HIDE DEF ev
<1>6. <<ev>> \in Seq(ServerEvents) /\ Leads(q, Types(<<ev>>), "racing")
  BY <1>4, <1>5, OneSaid
<1>7. ServerAt("racing")'
  BY <1>1, <1>2 DEF ServerAt
<1>8. NoAsks(toServer')
  <2>1. NoAsks(toServer) /\ toServer \in Seq(ClientMessages)
    BY <1>2, BusyServer DEF Good, ClientTyped
  <2> QED
    BY <2>1, MessageServed
<1>9. window \in {"asking", "lobby"} => ~pressed
  BY <1>2, BusyServer DEF Good, KeysOfTheRace
<1>10. /\ AnswerComes' /\ PhasesInPlace' /\ phase' # "racing"
       /\ seat' \in {"none", "lobby", "race"} /\ round' \in Nat /\ shown' \in 0 .. Tables /\ pressed' \in BOOLEAN
       /\ phase' \in {"lobby", "racing", "results", "choosing", "waiting", "final", "over"}
  BY <1>1, <1>2 DEF AnswerComes, PhasesInPlace, Good, ServerTyped
<1> QED
  BY <1>1, <1>3, <1>6, <1>7, <1>8, <1>9, <1>10, ServerStep

\* The command to start, which may come too late or for another lobby.
LEMMA ServeStartKeeps ==
  ASSUME Good, [ReadAsMeant]_pvars, ServeStart
  PROVE  Good'
<1>1. Take /\ Command.type = "StartLobby"
  BY DEF ServeStart
<1>2. /\ Command = Asks(Head(toServer)) /\ Head(toServer) \in ClientMessages
      /\ toServer \in Seq(ClientMessages) /\ toServer # <<>> /\ toServer' = Tail(toServer)
  BY <1>1, CommandRead
<1>3. CASE StartLobby
  BY <1>2, <1>3, StartKeeps
<1>4. CASE UNCHANGED <<toClient, svars, link, cvars>>
  <2> DEFINE c == Head(toServer)
  <2>1. c.type = "START_GAME"
    BY <1>1, <1>2, MessageTypes
  <2>2. UNCHANGED <<toClient, tvars, seat, cvars>> /\ UNCHANGED <<answer, pressed>>
    BY <1>4 DEF svars
  <2>3. UNCHANGED <<phase, wish, window, inbox, toClient>>
    BY <2>2 DEF tvars, cvars, racewindow
  <2>4. /\ NoKeys(toServer') /\ c.type # "SEND_KEY" => NoKeys(toServer)
        /\ NoUpgrades(toServer) => NoUpgrades(toServer')
        /\ LastUpgrade(toServer, wish) => LastUpgrade(toServer', wish) \/ c.type = "UPGRADES"
    BY <1>2, MessageServed
  <2> HIDE DEF c
  <2>5. Coming' = Coming
    BY <2>3 DEF Coming
  <2>6. AnswerComes'
    BY <2>1, <2>2, <2>3, <2>4, <2>5 DEF Good, AnswerComes
  <2>7. ASSUME window = "race", ~unsent, seat = "race", phase = "racing", pressed', NoKeys(toServer')
        PROVE  hand = "w"
    BY <2>1, <2>2, <2>4, <2>7 DEF Good, KeyComes
  <2>8. c.type \notin {"CREATE_LOBBY", "JOIN_LOBBY"} /\ pressed' \in BOOLEAN
    BY <2>1, <2>2 DEF Good, ServerTyped
  <2> QED
    BY <1>2, <2>2, <2>6, <2>7, <2>8, ServeQuiet DEF c
<1> QED
  BY <1>3, <1>4 DEF ServeStart

\* No command to leave waits from a client that never left.
LEMMA NobodyLeaves ==
  ASSUME Good, [ReadAsMeant]_pvars, ServeLeave
  PROVE  FALSE
<1>1. Take /\ Command.type = "Disconect"
  BY DEF ServeLeave
<1>2. Command = Asks(Head(toServer)) /\ Head(toServer) \in ClientMessages
  BY <1>1, CommandRead
<1> QED
  BY <1>1, <1>2, MessageTypes

\* Every command keeps the invariant.
LEMMA ServeKeeps ==
  ASSUME Good, [ReadAsMeant]_pvars, Serve
  PROVE  Good'
BY ServeSeatKeeps, ServeRefusalKeeps, ServeStartKeeps, NobodyLeaves, ServeMoveKeeps,
   ServeUpgradeKeeps DEF Serve

\* Another client joins the lobby.
LEMMA OtherJoinsKeeps ==
  ASSUME Good, OtherJoins
  PROVE  Good'
<1> DEFINE ev == LobbyEvent(2)
<1>1. seat = "lobby" /\ toClient' = toClient \o <<ev>> /\ UNCHANGED <<toServer, cvars>>
  BY DEF OtherJoins, SendEvents
<1>2. UNCHANGED <<round, phase, shown, answer, pressed, seat>>
  BY DEF OtherJoins, svars, tvars
<1>3. ServerBusy /\ phase = "lobby" /\ shown = 0
  BY <1>1 DEF Good, PhasesInPlace, ServerBusy
<1>4. PICK q \in Positions : Leads(ClientAt, Coming, q) /\ ServerAt(q)
  BY Places
<1>5. q = "lobby"
  BY <1>1, <1>4 DEF ServerAt
<1>6. ev \in ServerEvents /\ ev.type = "lobby" /\ After("lobby", "lobby") = "lobby" /\ "lobby" \in Positions
  BY EventsSaid DEF After, Positions
<1> HIDE DEF ev
<1>7. <<ev>> \in Seq(ServerEvents) /\ Leads(q, Types(<<ev>>), "lobby")
  BY <1>5, <1>6, OneSaid
<1>8. ServerAt("lobby")'
  BY <1>1, <1>2 DEF ServerAt
<1>9. NoAsks(toServer') /\ (window \in {"asking", "lobby"} => ~pressed)
  BY <1>1, <1>3, BusyServer DEF Good, KeysOfTheRace
<1>10. /\ AnswerComes' /\ PhasesInPlace' /\ phase' # "racing"
       /\ seat' \in {"none", "lobby", "race"} /\ round' \in Nat /\ shown' \in 0 .. Tables /\ pressed' \in BOOLEAN
       /\ phase' \in {"lobby", "racing", "results", "choosing", "waiting", "final", "over"}
  BY <1>1, <1>2, <1>3 DEF AnswerComes, PhasesInPlace, Good, ServerTyped
<1> QED
  BY <1>1, <1>2, <1>4, <1>7, <1>8, <1>9, <1>10, ServerStep

\* The countdown of the race ends.
LEMMA CountdownEndsKeeps ==
  ASSUME Good, CountdownEnds
  PROVE  Good'
<1>1. seat = "race" /\ phase = "racing" /\ UNCHANGED <<tvars, seat, answer, pressed, wire, cvars>>
  BY DEF CountdownEnds
<1>2. UNCHANGED <<round, phase, shown, seat, pressed, toClient, toServer, cvars>>
  BY <1>1 DEF tvars, wire
<1>3. ServerBusy
  BY <1>1 DEF ServerBusy
<1>4. PICK q \in Positions : Leads(ClientAt, Coming, q) /\ ServerAt(q)
  BY Places
<1>5. <<>> \in Seq(ServerEvents) /\ Leads(q, Types(<<>>), q) /\ toClient' = toClient \o <<>>
  BY <1>2, NothingSaid DEF Good, ServerTyped
<1>6. ServerAt(q)'
  BY <1>2, <1>4 DEF ServerAt
<1>7. NoAsks(toServer') /\ (window \in {"asking", "lobby"} => ~pressed)
  BY <1>2, <1>3, BusyServer DEF Good, KeysOfTheRace
<1>8. /\ AnswerComes' /\ PhasesInPlace'
      /\ seat' \in {"none", "lobby", "race"} /\ round' \in Nat /\ shown' \in 0 .. Tables /\ pressed' \in BOOLEAN
      /\ phase' \in {"lobby", "racing", "results", "choosing", "waiting", "final", "over"}
  BY <1>1, <1>2 DEF AnswerComes, PhasesInPlace, Good, ServerTyped
<1>9. window = "race" /\ ~unsent /\ pressed' /\ NoKeys(toServer') => hand = "w"
  BY <1>1, <1>2 DEF Good, KeyComes
<1> QED
  BY <1>2, <1>4, <1>5, <1>6, <1>7, <1>8, <1>9, ServerStep

\* A step of the game, from the words it says.
Steps ==
  OpenRace \/ TSnapshot \/ CloseRace \/ OfferUpgrades \/ CollectUpgrades \/ CloseLastRace \/ ShowTables
RaceMessages == {"pregame", "snapshot", "results", "final_results", "phase"}

\* The last tables, and the word that ends the game after them.
LEMMA TablesSaid ==
  ASSUME Good, seat = "race", ShowTables
  PROVE  /\ said' \in Seq(RaceMessages) /\ shown' \in 0 .. Tables /\ round' = round /\ phase' \in {"final", "over"}
         /\ \A q \in Positions : ServerAt(q) /\ seat' = seat =>
              \E r : Leads(q, said', r) /\ ServerAt(r)'
<1>1. phase = "final" /\ shown \in 0 .. Tables /\ Tables \in Nat \ {0} /\ round' = round
  BY ClientAssumption DEF ShowTables, Good, ServerTyped
<1>2. PICK n \in 0 .. Tables - shown :
        /\ shown' = shown + n
        /\ \/ phase' = "final" /\ said' = [i \in 1 .. n |-> "final_results"]
           \/ /\ shown' = Tables
              /\ phase' = "over" /\ said' = Append([i \in 1 .. n |-> "final_results"], "phase")
  BY DEF ShowTables
<1> DEFINE s == [i \in 1 .. n |-> "final_results"]
<1>3. n \in Nat /\ shown' \in 0 .. Tables /\ (shown' = 0 <=> shown = 0 /\ n = 0)
  BY <1>1, <1>2
<1>4. s \in Seq(Kinds) /\ s \in Seq(RaceMessages)
  <2>1. s \in Seq(Kinds)
    BY <1>3, TablesLead
  <2>2. \A i \in 1 .. n : "final_results" \in RaceMessages
    BY DEF RaceMessages
  <2> QED
    BY <2>1, <2>2, <1>3, IsASeq
<1>5. n = 0 => s = <<>>
  BY <1>3
<1> HIDE DEF s
<1>6. said' \in Seq(RaceMessages)
  <2>1. "phase" \in RaceMessages
    BY DEF RaceMessages
  <2>2. Append(s, "phase") \in Seq(RaceMessages)
    BY <1>4, <2>1, AppendProperties
  <2> QED
    BY <1>2, <1>4, <2>2 DEF s
<1>7. ASSUME NEW q \in Positions, ServerAt(q), seat' = seat PROVE \E r : Leads(q, said', r) /\ ServerAt(r)'
  <2>1. q = (IF shown = 0 THEN "racing" ELSE "final") /\ q \in {"racing", "final"}
    BY <1>1, <1>7 DEF ServerAt
  <2>2. ASSUME n = 0 => q = "final" PROVE Leads(q, s, "final")
    BY <1>3, <2>1, <2>2, TablesLead DEF s
  <2>3. CASE phase' = "final" /\ said' = s
    <3>1. CASE n = 0
      <4>1. said' = <<>> /\ shown' = shown
        BY <1>1, <1>2, <1>5, <2>3, <3>1
      <4>2. Leads(q, said', q)
        BY <4>1, StandsStill
      <4>3. ServerAt(q)'
        BY <4>1, <2>1, <2>3, <1>7 DEF ServerAt
      <4> QED
        BY <4>2, <4>3
    <3>2. CASE n # 0
      <4>1. Leads(q, said', "final")
        BY <2>2, <2>3, <3>2
      <4>2. ServerAt("final")'
        BY <1>3, <1>7, <2>3, <3>2 DEF ServerAt
      <4> QED
        BY <4>1, <4>2
    <3> QED
      BY <3>1, <3>2
  <2>4. CASE shown' = Tables /\ phase' = "over" /\ said' = Append(s, "phase")
    <3>1. n = 0 => q = "final"
      BY <1>1, <1>3, <2>1, <2>4
    <3>2. Leads(q, s, "final")
      BY <2>2, <3>1
    <3>3. "final" \in Positions /\ "phase" \in Kinds /\ After("final", "phase") = "idle" /\ "idle" \in Positions
      BY DEF Positions, Kinds, After
    <3>4. Leads("final", <<"phase">>, "idle")
      BY <3>3, OneLeads
    <3>5. Append(s, "phase") = s \o <<"phase">> /\ <<"phase">> \in Seq(Kinds)
      BY <1>4, <3>3, AppendIsConcat
    <3>6. Leads(q, s \o <<"phase">>, "idle")
      BY <3>2, <3>4, <3>5, <1>4, LeadsOn
    <3>7. ServerAt("idle")'
      BY <1>7, <2>4 DEF ServerAt
    <3> QED
      BY <3>5, <3>6, <3>7, <2>4
  <2> QED
    BY <1>2, <2>3, <2>4 DEF s
<1> QED
  BY <1>1, <1>2, <1>3, <1>6, <1>7

\* The other steps say one word, or none when the last race closes.
LEMMA WordSaid ==
  ASSUME Good, seat = "race", seat' = seat,
         OpenRace \/ TSnapshot \/ CloseRace \/ OfferUpgrades \/ CollectUpgrades \/ CloseLastRace
  PROVE  /\ said' \in Seq(RaceMessages) /\ shown' = shown /\ round' \in Nat
         /\ phase' \in {"racing", "results", "choosing", "waiting", "final"}
         /\ shown = 0 /\ phase # "over" /\ phase # "final"
         /\ phase' = "waiting" => said' # <<>>
         /\ phase' = "racing" => said' = <<"pregame">> \/ phase = "racing"
         /\ \A q \in Positions : ServerAt(q) => \E r : Leads(q, said', r) /\ ServerAt(r)'
<1>words. \A w \in RaceMessages : <<w>> \in Seq(RaceMessages) /\ w \in Kinds
  BY DEF RaceMessages, Kinds
<1>races. /\ "pregame" \in RaceMessages /\ "snapshot" \in RaceMessages /\ "results" \in RaceMessages
       /\ "phase" \in RaceMessages
  BY DEF RaceMessages
<1>1. round \in Nat
  BY DEF Good, ServerTyped
<1>2. ASSUME NEW q \in Positions, NEW w \in RaceMessages, NEW r, said' = <<w>>, After(q, w) = r, r \in Positions
      PROVE  Leads(q, said', r)
  BY <1>words, <1>2, OneLeads
<1>3. CASE OpenRace
  <2>1. phase \in {"lobby", "waiting"} /\ phase' = "racing" /\ said' = <<"pregame">> /\ shown' = shown /\ round' = round
    BY <1>3 DEF OpenRace
  <2>2. shown = 0
    BY <2>1 DEF Good, PhasesInPlace
  <2>3. ASSUME NEW q \in Positions, ServerAt(q) PROVE Leads(q, said', "racing")
    <3>1. q \in {"racing", "waiting"}
      BY <2>1, <2>3 DEF ServerAt
    <3>2. After(q, "pregame") = "racing" /\ "racing" \in Positions
      BY <3>1 DEF After, Positions
    <3> QED
      BY <3>2, <2>1, <1>2, <1>races
  <2>4. ServerAt("racing")'
    BY <2>1 DEF ServerAt
  <2> QED
    BY <2>1, <2>2, <2>3, <2>4, <1>words, <1>races, <1>1
<1>4. CASE TSnapshot
  <2>1. phase = "racing" /\ phase' = "racing" /\ said' = <<"snapshot">> /\ shown' = shown /\ round' = round
    BY <1>4 DEF TSnapshot
  <2>2. shown = 0
    BY <2>1 DEF Good, PhasesInPlace
  <2>3. ASSUME NEW q \in Positions, ServerAt(q) PROVE Leads(q, said', "racing")
    <3>1. q = "racing"
      BY <2>1, <2>3 DEF ServerAt
    <3>2. After(q, "snapshot") = "racing" /\ "racing" \in Positions
      BY <3>1 DEF After, Positions
    <3> QED
      BY <3>2, <2>1, <1>2, <1>races
  <2>4. ServerAt("racing")'
    BY <2>1 DEF ServerAt
  <2> QED
    BY <2>1, <2>2, <2>3, <2>4, <1>words, <1>races, <1>1
<1>5. CASE CloseRace
  <2>1. phase = "racing" /\ phase' = "results" /\ said' = <<"results">> /\ shown' = shown /\ round' = round + 1
    BY <1>5 DEF CloseRace
  <2>2. shown = 0
    BY <2>1 DEF Good, PhasesInPlace
  <2>3. ASSUME NEW q \in Positions, ServerAt(q) PROVE Leads(q, said', "results")
    <3>1. q = "racing"
      BY <2>1, <2>3 DEF ServerAt
    <3>2. After(q, "results") = "results" /\ "results" \in Positions
      BY <3>1 DEF After, Positions
    <3> QED
      BY <3>2, <2>1, <1>2, <1>races
  <2>4. ServerAt("results")'
    BY <2>1 DEF ServerAt
  <2>5. phase' # "waiting" /\ phase' # "racing" /\ phase # "over" /\ phase # "final" /\ round' \in Nat
    BY <2>1, <1>1
  <2> QED
    BY <2>1, <2>2, <2>3, <2>4, <2>5, <1>words, <1>races
<1>6. CASE OfferUpgrades
  <2>1. phase = "results" /\ phase' = "choosing" /\ said' = <<"phase">> /\ shown' = shown /\ round' = round
    BY <1>6 DEF OfferUpgrades
  <2>2. shown = 0
    BY <2>1 DEF Good, PhasesInPlace
  <2>3. ASSUME NEW q \in Positions, ServerAt(q) PROVE Leads(q, said', "choosing")
    <3>1. q = "results"
      BY <2>1, <2>3 DEF ServerAt
    <3>2. After(q, "phase") = "choosing" /\ "choosing" \in Positions
      BY <3>1 DEF After, Positions
    <3> QED
      BY <3>2, <2>1, <1>2, <1>races
  <2>4. ServerAt("choosing")'
    BY <2>1 DEF ServerAt
  <2>5. phase' # "waiting" /\ phase' # "racing" /\ phase # "over" /\ phase # "final"
    BY <2>1
  <2> QED
    BY <2>1, <2>2, <2>3, <2>4, <2>5, <1>words, <1>races, <1>1
<1>7. CASE CollectUpgrades
  <2>1. phase = "choosing" /\ phase' = "waiting" /\ said' = <<"phase">> /\ shown' = shown /\ round' = round
    BY <1>7 DEF CollectUpgrades
  <2>2. shown = 0
    BY <2>1 DEF Good, PhasesInPlace
  <2>3. ASSUME NEW q \in Positions, ServerAt(q) PROVE Leads(q, said', "waiting")
    <3>1. q = "choosing"
      BY <2>1, <2>3 DEF ServerAt
    <3>2. After(q, "phase") = "waiting" /\ "waiting" \in Positions
      BY <3>1 DEF After, Positions
    <3> QED
      BY <3>2, <2>1, <1>2, <1>races
  <2>4. ServerAt("waiting")'
    BY <2>1 DEF ServerAt
  <2>5. said' # <<>> /\ phase' # "racing" /\ phase # "over" /\ phase # "final"
    BY <2>1
  <2> QED
    BY <2>1, <2>2, <2>3, <2>4, <2>5, <1>words, <1>races, <1>1
<1>8. CASE CloseLastRace
  <2>1. phase = "racing" /\ phase' = "final" /\ said' = <<>> /\ shown' = shown /\ round' = round
    BY <1>8 DEF CloseLastRace
  <2>2. shown = 0
    BY <2>1 DEF Good, PhasesInPlace
  <2>3. ASSUME NEW q \in Positions, ServerAt(q) PROVE Leads(q, said', "racing")
    <3>1. q = "racing"
      BY <2>1, <2>3 DEF ServerAt
    <3> QED
      BY <3>1, <2>1, StandsStill
  <2>4. ServerAt("racing")'
    BY <2>1, <2>2 DEF ServerAt
  <2>5. said' \in Seq(RaceMessages) /\ phase' # "waiting" /\ phase' # "racing" /\ phase # "over" /\ phase # "final"
    BY <2>1
  <2> QED
    BY <2>1, <2>2, <2>3, <2>4, <2>5, <1>1
<1> QED
  BY <1>3, <1>4, <1>5, <1>6, <1>7, <1>8

\* Every step of the game keeps the invariant.
LEMMA GameStepKeeps ==
  ASSUME Good, GameStep
  PROVE  Good'
<1> DEFINE evs == [i \in DOMAIN said' |-> RaceEvent(said'[i], i)]
<1>1. /\ seat = "race" /\ seat' = seat /\ UNCHANGED <<toServer, cvars>> /\ toClient' = toClient \o evs
      /\ pressed' = (pressed /\ said' # <<"pregame">>) /\ Steps
  BY DEF GameStep, SendEvents, Steps
<1>2. PICK q \in Positions : Leads(ClientAt, Coming, q) /\ ServerAt(q)
  BY Places
<1>3. /\ said' \in Seq(RaceMessages) /\ shown' \in 0 .. Tables /\ round' \in Nat
      /\ phase' \in {"racing", "results", "choosing", "waiting", "final", "over"}
      /\ phase # "over" /\ PhasesInPlace'
      /\ phase' = "waiting" => said' # <<>>
      /\ phase' = "racing" => said' = <<"pregame">> \/ phase = "racing"
      /\ \E r : Leads(q, said', r) /\ ServerAt(r)'
  <2>1. CASE ShowTables
    <3>1. /\ said' \in Seq(RaceMessages) /\ shown' \in 0 .. Tables /\ round' = round /\ phase' \in {"final", "over"}
          /\ \E r : Leads(q, said', r) /\ ServerAt(r)'
      BY <2>1, <1>1, <1>2, TablesSaid
    <3>2. phase = "final" /\ round \in Nat
      BY <2>1 DEF ShowTables, Good, ServerTyped
    <3>3. PhasesInPlace'
      BY <3>1, <1>1 DEF PhasesInPlace
    <3> QED
      BY <3>1, <3>2, <3>3
  <2>2. CASE OpenRace \/ TSnapshot \/ CloseRace \/ OfferUpgrades \/ CollectUpgrades \/ CloseLastRace
    <3>1. /\ said' \in Seq(RaceMessages) /\ shown' = shown /\ round' \in Nat
          /\ phase' \in {"racing", "results", "choosing", "waiting", "final"}
          /\ shown = 0 /\ phase # "over" /\ phase # "final"
          /\ phase' = "waiting" => said' # <<>>
          /\ phase' = "racing" => said' = <<"pregame">> \/ phase = "racing"
          /\ \E r : Leads(q, said', r) /\ ServerAt(r)'
      BY <2>2, <1>1, <1>2, WordSaid
    <3>2. shown' \in 0 .. Tables
      BY <3>1 DEF Good, ServerTyped
    <3>3. PhasesInPlace'
      BY <3>1, <1>1 DEF PhasesInPlace
    <3> QED
      BY <3>1, <3>2, <3>3
  <2> QED
    BY <1>1, <2>1, <2>2 DEF Steps
<1>4. PICK r : Leads(q, said', r) /\ ServerAt(r)'
  BY <1>3
<1>5. evs \in Seq(ServerEvents) /\ Types(evs) = said' /\ (evs = <<>> => said' = <<>>)
  BY <1>3, RaceTypes DEF RaceMessages, Good, ServerTyped
<1> HIDE DEF evs
<1>6. pressed \in BOOLEAN /\ pressed' \in BOOLEAN /\ (pressed' => pressed)
  BY <1>1 DEF Good, ServerTyped
<1>7. ServerBusy
  BY <1>1, <1>3 DEF ServerBusy
<1>8. NoAsks(toServer') /\ (window \in {"asking", "lobby"} => ~pressed)
  BY <1>1, <1>7, BusyServer DEF Good, KeysOfTheRace
<1>9. AnswerComes'
  <2>1. ASSUME phase' = "waiting", Coming' = <<>> PROVE FALSE
    <3>1. evs # <<>>
      BY <1>3, <1>5, <2>1 DEF Types
    <3>2. inbox' \in Seq(ClientEvents) /\ toClient \in Seq(ServerEvents) /\ toClient' \in Seq(ServerEvents)
      BY <1>1, <1>5, ConcatProperties DEF cvars, Good, ClientTyped, ServerTyped
    <3>3. toClient' # <<>>
      BY <3>1, <3>2, <1>1, <1>5, ConcatProperties, LenProperties, EmptySeq
    <3> QED
      BY <2>1, <3>2, <3>3, HearingSeq DEF Coming
  <2> QED
    BY <2>1 DEF AnswerComes
<1>10. ASSUME window = "race", ~unsent, phase' = "racing", pressed', NoKeys(toServer') PROVE hand = "w"
  <2>1. phase = "racing" /\ pressed
    BY <1>1, <1>3, <1>6, <1>10
  <2> QED
    BY <2>1, <1>1, <1>10 DEF Good, KeyComes
<1> QED
  BY <1>1, <1>2, <1>3, <1>4, <1>5, <1>6, <1>8, <1>9, <1>10, ServerStep

\* What stays as it was.
LEMMA ComingSame ==
  ASSUME UNCHANGED <<inbox, toClient>>
  PROVE  Coming' = Coming
BY DEF Coming

\* A client whose window and phase stay is where it was.
LEMMA PlaceSame ==
  ASSUME UNCHANGED <<window, posted, state, is_last_map, keep_running>>
  PROVE  ClientAt' = ClientAt
BY DEF ClientAt

\* And so is a server that does nothing.
LEMMA ServerSame ==
  ASSUME UNCHANGED svars
  PROVE  /\ UNCHANGED <<seat, phase, round, shown, answer, pressed>>
         /\ \A q : ServerAt(q)' <=> ServerAt(q)
<1>1. UNCHANGED <<seat, phase, round, shown, answer, pressed>>
  BY DEF svars, tvars
<1> QED
  BY <1>1 DEF ServerAt

\* Only a window that waits for the next race has an answer to give.
LEMMA AnswerLater ==
  ASSUME Follows', ClientTyped', window' # "race" \/ state' # "PREGAME"
  PROVE  AnswerComes'
<1>1. ASSUME seat' = "race", phase' = "waiting", Coming' = <<>> PROVE FALSE
  <2>1. PICK q : Leads(ClientAt', Coming', q) /\ ServerAt(q)'
    BY DEF Follows
  <2>2. ClientAt' = "waiting"
    <3>1. ClientAt' = q
      BY <1>1, <2>1, NothingLeadsNowhere
    <3>2. q = "waiting"
      BY <1>1, <2>1 DEF ServerAt
    <3> QED
      BY <3>1, <3>2
  <2> QED
    BY <2>2 DEF ClientAt, ClientTyped
<1> QED
  BY <1>1 DEF AnswerComes

\* A step of the client.
LEMMA ClientStep ==
  ASSUME Good, UNCHANGED svars, toClient' \in Seq(ServerEvents), ClientTyped', Follows', WindowInPlace',
         OneAsk', KeysOfTheRace', AnswerComes', KeyComes'
  PROVE  Good'
<1>1. UNCHANGED <<seat, phase, round, shown, answer, pressed>>
  BY ServerSame
<1>2. ServerTyped' /\ PhasesInPlace'
  BY <1>1 DEF Good, ServerTyped, PhasesInPlace
<1> QED
  BY <1>2 DEF Good

\* One that leaves no race window open.
LEMMA StepOffTrack ==
  ASSUME Good, UNCHANGED svars, toClient' = toClient, ClientTyped', Follows', window' # "race", OneAsk',
         KeysOfTheRace'
  PROVE  Good'
<1>1. WindowInPlace' /\ KeyComes' /\ AnswerComes'
  BY AnswerLater DEF WindowInPlace, KeyComes
<1>2. toClient' \in Seq(ServerEvents)
  BY DEF Good, ServerTyped
<1> QED
  BY <1>1, <1>2, ClientStep

\* A window that takes one event.
LEMMA PopOne ==
  ASSUME Good, NEW q, Leads(ClientAt, Coming, q), inbox # <<>>, inbox' = Tail(inbox), toClient' = toClient
  PROVE  /\ inbox' \in Seq(ClientEvents) /\ Head(inbox) \in ClientEvents /\ Head(inbox).type \in ClientKinds
         /\ After(ClientAt, Heard(Head(inbox))) \in Positions
         /\ Leads(After(ClientAt, Heard(Head(inbox))), Coming', q)
         /\ Coming # <<>> /\ 1 \in 1 .. Len(Coming) /\ Coming[1] = Heard(Head(inbox))
<1>1. inbox \in Seq(ClientEvents)
  BY DEF Good, ClientTyped
<1>2. 1 \in 1 .. Len(inbox) /\ inbox' = SubSeq(inbox, 1 + 1, Len(inbox)) /\ Head(inbox) = inbox[1]
  BY <1>1, TailIsSubSeq, EmptySeq, LenProperties
<1>3. \A k \in 1 .. 1 - 1 : Heard(inbox[k]) = "snapshot"
  OBVIOUS
<1>4. /\ inbox' \in Seq(ClientEvents) /\ inbox[1] \in ClientEvents
      /\ inbox[1].type \in ClientKinds
      /\ After(ClientAt, Heard(inbox[1])) \in Positions
      /\ Leads(After(ClientAt, Heard(inbox[1])), Coming', q)
      /\ 1 \in 1 .. Len(Coming)
      /\ Coming[1] = Heard(inbox[1])
  BY <1>2, <1>3, ClientTakes
<1>5. Coming # <<>>
  BY <1>4
<1> QED
  BY <1>2, <1>4, <1>5

\* ThreadReceiver: an event goes from the connection to the queue.
LEMMA ReceiveKeeps ==
  ASSUME Good, [ReadAsMeant]_pvars, Receive
  PROVE  Good'
<1> DEFINE m == Send(Head(toClient))
           e == receive_event(m).event
<1>1. /\ toClient # <<>> /\ inbox' = Append(inbox, e) /\ toClient' = Tail(toClient)
      /\ UNCHANGED <<svars, toServer, link, receiver, window, lobbywindow, racewindow, left, asked>>
  BY DEF Receive
<1>2. toClient \in Seq(ServerEvents) /\ inbox \in Seq(ClientEvents)
  BY DEF Good, ServerTyped, ClientTyped
<1>3. Head(toClient) \in ServerEvents /\ Head(toClient).type \in Kinds
  BY <1>1, <1>2, EmptySeq, HeadTailProperties, EventKinds
<1>4. e \in ClientEvents
  BY <1>3 DEF ClientEvents
<1>5. Seen(e) = Means(Head(toClient))
  <2> HIDE DEF e
  <2>1. /\ Len(inbox') = Len(inbox) + 1 /\ Len(inbox) \in Nat /\ inbox'[Len(inbox')] = e
    BY <1>1, <1>2, <1>4, AppendProperties, LenProperties
  <2>2. Received /\ inbox' # inbox
    BY <1>1, <2>1 DEF Received
  <2>3. ReadAsMeant
    BY <2>2 DEF pvars, cvars
  <2> QED
    BY <2>1, <2>2, <2>3 DEF ReadAsMeant
<1>6. Heard(e) = Head(toClient).type
  BY <1>3, <1>5, HeardAsMeant
<1> HIDE DEF e
<1>7. inbox' \in Seq(ClientEvents) /\ toClient' \in Seq(ServerEvents) /\ Coming' = Coming
  BY <1>1, <1>2, <1>4, <1>6, HearingReceived DEF Coming
<1>8. UNCHANGED <<window, posted, state, is_last_map, keep_running, toServer, code, race_started,
                  current_upgrade, hand, unsent, wish>>
  BY <1>1 DEF lobbywindow, racewindow, phasemanager
<1>9. /\ UNCHANGED <<seat, phase, round, shown, answer, pressed>> /\ ClientAt' = ClientAt
      /\ \A q : ServerAt(q)' <=> ServerAt(q)
  BY <1>1, <1>8, ServerSame, PlaceSame
<1>10. ClientTyped' /\ WindowInPlace'
  BY <1>7, <1>8 DEF Good, ClientTyped, WindowInPlace
<1>11. Follows'
  BY <1>7, <1>9 DEF Good, Follows
<1>12. OneAsk' /\ KeysOfTheRace'
  BY <1>7, <1>8, <1>9 DEF Good, OneAsk, KeysOfTheRace
<1>13. AnswerComes' /\ KeyComes'
  BY <1>7, <1>8, <1>9 DEF Good, AnswerComes, KeyComes
<1> QED
  BY <1>1, <1>7, <1>10, <1>11, <1>12, <1>13, ClientStep

\* Client::receive_id.
LEMMA ReceiveIdKeeps ==
  ASSUME Good, ReceiveId
  PROVE  Good'
<1>1. /\ window = "opening" /\ inbox # <<>> /\ inbox' = Tail(inbox) /\ window' \in {"prelobby", "closed"}
      /\ UNCHANGED <<svars, wire, code, posted, racewindow>>
  BY DEF ReceiveId
<1>2. PICK q \in Positions : Leads(ClientAt, Coming, q) /\ ServerAt(q)
  BY Places
<1>3. UNCHANGED <<toClient, toServer, code, posted, state, is_last_map, race_started, keep_running,
                  current_upgrade, hand, unsent, wish>>
  BY <1>1 DEF wire, racewindow, phasemanager
<1>4. /\ inbox' \in Seq(ClientEvents) /\ After(ClientAt, Heard(Head(inbox))) \in Positions
      /\ Leads(After(ClientAt, Heard(Head(inbox))), Coming', q)
  BY <1>1, <1>2, <1>3, PopOne
<1>5. After(ClientAt, Heard(Head(inbox))) = "idle" /\ ClientAt' = "idle"
  <2>1. ClientAt = "opening" /\ ClientAt' = "idle"
    BY <1>1 DEF ClientAt
  <2> QED
    BY <2>1, <1>4 DEF After, Positions
<1>6. Follows'
  BY <1>1, <1>2, <1>4, <1>5, ServerSame DEF Follows
<1>7. ClientTyped'
  BY <1>1, <1>3, <1>4 DEF Good, ClientTyped
<1>8. OneAsk' /\ KeysOfTheRace'
  BY <1>1, <1>3 DEF Good, OneAsk, KeysOfTheRace
<1> QED
  BY <1>1, <1>3, <1>6, <1>7, <1>8, StepOffTrack

\* PreLobby asks for a lobby.
LEMMA AskKeeps ==
  ASSUME Good, NEW c \in ClientMessages, c.type \in {"CREATE_LOBBY", "JOIN_LOBBY"}, Ask(c)
  PROVE  Good'
<1>1. /\ window = "prelobby" /\ window' = "asking" /\ toServer = <<>>
      /\ UNCHANGED <<svars, toClient, inbox, code, posted, racewindow>>
      /\ toServer' = toServer \/ toServer' = Append(toServer, c)
  BY DEF Ask, Push
<1>2. PICK q \in Positions : Leads(ClientAt, Coming, q) /\ ServerAt(q)
  BY Places
<1>3. ClientAt = "idle" /\ ClientAt' = "asking" /\ Coming' = Coming
  BY <1>1, ComingSame DEF ClientAt
<1>4. Coming \in Seq(Kinds) /\ Coming = <<>>
  BY <1>2, <1>3, ComingSeq, LeadsBack DEF Good
<1>5. q = "idle"
  BY <1>2, <1>3, <1>4, NothingLeadsNowhere
<1>6. ServerAt("asking")'
  BY <1>1, <1>2, <1>5, FreePlaces, ServerSame DEF Good
<1>7. Follows'
  <2>1. Leads("asking", <<>>, "asking")
    BY StandsStill DEF Positions
  <2> QED
    BY <2>1, <1>3, <1>4, <1>6 DEF Follows
<1>8. UNCHANGED <<code, posted, state, is_last_map, race_started, keep_running,
                  current_upgrade, hand, unsent, wish, inbox>>
  BY <1>1 DEF racewindow, phasemanager
<1>9. toServer \in Seq(ClientMessages)
  BY DEF Good, ClientTyped
<1>10. toServer' \in Seq(ClientMessages) /\ (NoAsks(toServer') \/ Len(toServer') = 1) /\ NoKeys(toServer')
  <2>1. CASE toServer' = toServer
    BY <2>1, <1>1, <1>9, NothingWaits
  <2>2. CASE toServer' = Append(toServer, c)
    BY <2>2, <1>1, <1>9, NothingWaits, MessagePushed
  <2> QED
    BY <2>1, <2>2, <1>1
<1>11. ClientTyped'
  BY <1>1, <1>8, <1>10 DEF Good, ClientTyped
<1>12. OneAsk'
  BY <1>1, <1>3, <1>4, <1>10 DEF OneAsk
<1>13. KeysOfTheRace'
  <2>1. Len(Coming') = 0
    BY <1>3, <1>4
  <2> QED
    BY <2>1, <1>1, <1>10 DEF KeysOfTheRace
<1> QED
  BY <1>1, <1>7, <1>11, <1>12, <1>13, StepOffTrack

\* It asks to create one or to join one.
LEMMA QuestionsKeep ==
  ASSUME Good, CreateLobby \/ JoinLobby
  PROVE  Good'
<1>1. CASE CreateLobby
  <2>1. PICK checked \in Checked :
          Ask([type |-> "CREATE_LOBBY", model |-> 3, name |-> Name, maps |-> selectedMapFiles(checked)])
    BY <1>1 DEF CreateLobby
  <2> DEFINE c == [type |-> "CREATE_LOBBY", model |-> 3, name |-> Name, maps |-> selectedMapFiles(checked)]
  <2>2. c \in [type : {"CREATE_LOBBY"}, model : {3}, name : {Name}, maps : {selectedMapFiles(m) : m \in Checked}]
    <3>1. selectedMapFiles(checked) \in {selectedMapFiles(m) : m \in Checked}
      OBVIOUS
    <3> QED
      BY <3>1
  <2>3. c.type = "CREATE_LOBBY"
    OBVIOUS
  <2>4. c \in ClientMessages
    BY <2>2, Zenon DEF ClientMessages
  <2> HIDE DEF c
  <2>5. Ask(c)
    BY <2>1 DEF c
  <2> QED
    BY <2>3, <2>4, <2>5, AskKeeps
<1>2. CASE JoinLobby
  <2>1. PICK k \in TypedCodes : Ask([type |-> "JOIN_LOBBY", lobby |-> k, model |-> 3, name |-> Name])
    BY <1>2 DEF JoinLobby
  <2> DEFINE c == [type |-> "JOIN_LOBBY", lobby |-> k, model |-> 3, name |-> Name]
  <2>2. c \in [type : {"JOIN_LOBBY"}, lobby : TypedCodes, model : {3}, name : {Name}]
    OBVIOUS
  <2>3. c.type = "JOIN_LOBBY"
    OBVIOUS
  <2>4. c \in ClientMessages
    BY <2>2, Zenon DEF ClientMessages
  <2> HIDE DEF c
  <2>5. Ask(c)
    BY <2>1 DEF c
  <2> QED
    BY <2>3, <2>4, <2>5, AskKeeps
<1> QED
  BY <1>1, <1>2

\* PreLobby takes the answer.
LEMMA HandleServerEventKeeps ==
  ASSUME Good, HandleServerEvent
  PROVE  Good'
<1>1. /\ window = "asking" /\ inbox # <<>> /\ inbox' = Tail(inbox)
      /\ \/ Head(inbox).type = "SUCESS" /\ window' = "lobby" /\ code' = 0 /\ posted' = "nothing"
         \/ Head(inbox).type # "SUCESS" /\ window' = "prelobby" /\ UNCHANGED <<code, posted>>
      /\ UNCHANGED <<svars, wire, racewindow>>
  BY DEF HandleServerEvent, Popped
<1>2. PICK q \in Positions : Leads(ClientAt, Coming, q) /\ ServerAt(q)
  BY Places
<1>3. UNCHANGED <<toClient, toServer, state, is_last_map, race_started, keep_running,
                  current_upgrade, hand, unsent, wish>>
  BY <1>1 DEF wire, racewindow, phasemanager
<1>4. /\ inbox' \in Seq(ClientEvents) /\ Head(inbox).type \in ClientKinds
      /\ After(ClientAt, Heard(Head(inbox))) \in Positions
      /\ Leads(After(ClientAt, Heard(Head(inbox))), Coming', q)
      /\ Coming # <<>> /\ 1 \in 1 .. Len(Coming) /\ Coming[1] = Heard(Head(inbox))
  BY <1>1, <1>2, <1>3, PopOne
<1>5. /\ After(ClientAt, Heard(Head(inbox))) = ClientAt'
      /\ window' = "lobby" => Heard(Head(inbox)) = "accepted"
  <2>1. ClientAt = "asking"
    BY <1>1 DEF ClientAt
  <2>2. CASE Head(inbox).type = "SUCESS" /\ window' = "lobby" /\ posted' = "nothing"
    <3>1. Heard(Head(inbox)) = "accepted" /\ ClientAt' = "lobby"
      BY <2>2 DEF Heard, ClientAt
    <3> QED
      BY <3>1, <2>1 DEF After
  <2>3. CASE Head(inbox).type # "SUCESS" /\ window' = "prelobby"
    <3>1. Heard(Head(inbox)) # "accepted" /\ ClientAt' = "idle"
      BY <2>3, <1>4 DEF Heard, ClientAt, ClientKinds
    <3> QED
      BY <2>3, <3>1, <2>1, <1>4 DEF After, Positions
  <2> QED
    BY <1>1, <2>2, <2>3
<1>6. Follows'
  BY <1>1, <1>2, <1>4, <1>5, ServerSame DEF Follows
<1>7. ClientTyped'
  BY <1>1, <1>3, <1>4 DEF Good, ClientTyped, Codes
<1>8. OneAsk'
  BY <1>3, <1>4 DEF Good, OneAsk
<1>9. KeysOfTheRace'
  <2>1. pressed' = pressed
    BY <1>1, ServerSame
  <2>2. window' = "lobby" => ~pressed
    BY <1>1, <1>4, <1>5 DEF Good, KeysOfTheRace
  <2>3. NoKeys(toServer') /\ window' # "asking"
    BY <1>1, <1>3 DEF Good, KeysOfTheRace
  <2> QED
    BY <2>1, <2>2, <2>3 DEF KeysOfTheRace
<1>10. window' # "race"
  BY <1>1
<1> QED
  BY <1>1, <1>3, <1>6, <1>7, <1>8, <1>9, <1>10, StepOffTrack

\* Nothing of what Good reads changes.
LEMMA SameKeeps ==
  ASSUME Good, UNCHANGED <<svars, toClient, toServer, inbox, window, code, posted, racewindow>>
  PROVE  Good'
<1>1. UNCHANGED <<toClient, toServer, inbox, window, code, posted, state, is_last_map, race_started,
                  keep_running, current_upgrade, hand, unsent, wish>>
  BY DEF racewindow, phasemanager
<1>2. /\ UNCHANGED <<seat, phase, round, shown, answer, pressed>> /\ ClientAt' = ClientAt /\ Coming' = Coming
      /\ \A q : ServerAt(q)' <=> ServerAt(q)
  BY <1>1, ServerSame, PlaceSame, ComingSame
<1>3. ClientTyped' /\ WindowInPlace' /\ toClient' \in Seq(ServerEvents)
  BY <1>1 DEF Good, ClientTyped, WindowInPlace, ServerTyped
<1>4. Follows'
  BY <1>2 DEF Good, Follows
<1>5. OneAsk' /\ KeysOfTheRace'
  BY <1>1, <1>2 DEF Good, OneAsk, KeysOfTheRace
<1>6. AnswerComes' /\ KeyComes'
  BY <1>1, <1>2 DEF Good, AnswerComes, KeyComes
<1> QED
  BY <1>3, <1>4, <1>5, <1>6, ClientStep

\* The user closes the program.
LEMMA ClosePreLobbyKeeps ==
  ASSUME Good, Ordinary', ClosePreLobby
  PROVE  Good'
<1>1. window = "prelobby" /\ window' = "closed" /\ UNCHANGED <<svars, wire, inbox, code, posted, racewindow>>
  BY DEF ClosePreLobby, Ordinary
<1>2. UNCHANGED <<toClient, toServer, inbox, code, posted, state, is_last_map, race_started,
                  keep_running, current_upgrade, hand, unsent, wish>>
  BY <1>1 DEF wire, racewindow, phasemanager
<1>3. /\ ClientAt' = ClientAt /\ Coming' = Coming
      /\ \A q : ServerAt(q)' <=> ServerAt(q)
  BY <1>1, <1>2, ServerSame, ComingSame DEF ClientAt
<1>4. ClientTyped' /\ Follows'
  BY <1>1, <1>2, <1>3 DEF Good, ClientTyped, Follows
<1>5. OneAsk' /\ KeysOfTheRace'
  BY <1>1, <1>2 DEF Good, OneAsk, KeysOfTheRace
<1> QED
  BY <1>1, <1>2, <1>4, <1>5, StepOffTrack

\* The lobby's listener takes an event.
LEMMA ListenServerKeeps ==
  ASSUME Good, ListenServer
  PROVE  Good'
<1> DEFINE e == Head(inbox)
<1>1. /\ window = "lobby" /\ posted = "nothing" /\ inbox # <<>> /\ inbox' = Tail(inbox)
      /\ code' = IF e.type = "SNAPSHOT_LOBBY" THEN e.lobby_code ELSE code
      /\ posted' = CASE e.type = "START_GAME" -> "accept" [] e.type = "ERROR" -> "reject"
                     [] OTHER -> "nothing"
      /\ UNCHANGED <<svars, wire, window, racewindow>>
  BY DEF ListenServer, Popped
<1>2. PICK q \in Positions : Leads(ClientAt, Coming, q) /\ ServerAt(q)
  BY Places
<1>3. UNCHANGED <<toClient, toServer, state, is_last_map, race_started, keep_running,
                  current_upgrade, hand, unsent, wish>>
  BY <1>1 DEF wire, racewindow, phasemanager
<1>4. /\ inbox' \in Seq(ClientEvents) /\ e \in ClientEvents /\ e.type \in ClientKinds
      /\ After(ClientAt, Heard(e)) \in Positions
      /\ Leads(After(ClientAt, Heard(e)), Coming', q)
      /\ Coming # <<>>
  BY <1>1, <1>2, <1>3, PopOne
<1> HIDE DEF e
<1>5. After(ClientAt, Heard(e)) = ClientAt' /\ posted' \in {"nothing", "accept"}
  <2>1. ClientAt = "lobby"
    BY <1>1 DEF ClientAt
  <2>2. Heard(e) \in {"lobby", "start"}
    BY <2>1, <1>4 DEF After, Positions
  <2>3. CASE Heard(e) = "lobby"
    <3>1. e.type = "SNAPSHOT_LOBBY"
      BY <2>3, <1>4 DEF Heard, ClientKinds
    <3>2. posted' = "nothing" /\ ClientAt' = "lobby"
      BY <3>1, <1>1 DEF ClientAt
    <3> QED
      BY <2>1, <2>3, <3>2 DEF After
  <2>4. CASE Heard(e) = "start"
    <3>1. e.type = "START_GAME"
      BY <2>4, <1>4 DEF Heard, ClientKinds
    <3>2. posted' = "accept" /\ ClientAt' = "racing"
      BY <3>1, <1>1 DEF ClientAt
    <3> QED
      BY <2>1, <2>4, <3>2 DEF After
  <2> QED
    BY <2>2, <2>3, <2>4
<1>6. Follows'
  BY <1>1, <1>2, <1>4, <1>5, ServerSame DEF Follows
<1>7. code' \in Codes
  <2>1. e.lobby_code \in Codes
    BY <1>4 DEF Codes
  <2> QED
    BY <2>1, <1>1 DEF Good, ClientTyped
<1>8. ClientTyped'
  BY <1>1, <1>3, <1>4, <1>5, <1>7 DEF Good, ClientTyped
<1>9. OneAsk' /\ KeysOfTheRace'
  <2>1. pressed' = pressed
    BY <1>1, ServerSame
  <2> QED
    BY <2>1, <1>1, <1>3, <1>4 DEF Good, OneAsk, KeysOfTheRace
<1>10. window' # "race"
  BY <1>1
<1> QED
  BY <1>1, <1>3, <1>6, <1>8, <1>9, <1>10, StepOffTrack

\* The lobby gives way to the race window.
LEMMA LobbyAcceptedKeeps ==
  ASSUME Good, LobbyAccepted
  PROVE  Good'
<1>1. /\ window = "lobby" /\ posted = "accept" /\ window' = "race" /\ keep_running' = TRUE
      /\ state' = "RUNNING_GAME" /\ is_last_map' = FALSE /\ race_started' = FALSE
      /\ current_upgrade' = 0 /\ hand' = "none" /\ unsent' = FALSE /\ wish' = 0
      /\ UNCHANGED <<svars, wire, inbox, code, posted>>
  BY DEF LobbyAccepted, OpenRaceWindow, FreshRaceWindow
<1>2. UNCHANGED <<toClient, toServer>>
  BY <1>1 DEF wire
<1>3. /\ ClientAt' = ClientAt /\ Coming' = Coming /\ UNCHANGED <<seat, phase, answer, pressed>>
      /\ \A q : ServerAt(q)' <=> ServerAt(q)
  BY <1>1, <1>2, ServerSame, ComingSame DEF ClientAt
<1>4. ClientTyped' /\ Follows' /\ WindowInPlace' /\ toClient' \in Seq(ServerEvents)
  BY <1>1, <1>2, <1>3 DEF Good, ClientTyped, Follows, WindowInPlace, ServerTyped
<1>5. OneAsk' /\ KeysOfTheRace'
  BY <1>1, <1>2 DEF Good, OneAsk, KeysOfTheRace
<1>6. AnswerComes'
  BY <1>1, <1>4, AnswerLater
<1>7. KeyComes'
  <2>1. NoKeys(toServer) /\ ~pressed
    BY <1>1 DEF Good, KeysOfTheRace
  <2>2. LastKey(toServer', hand')
    BY <2>1, <1>2, NoKeysLast
  <2> QED
    BY <2>1, <2>2, <1>3 DEF KeyComes
<1> QED
  BY <1>1, <1>4, <1>5, <1>6, <1>7, ClientStep

\* The user asks the server to start.
LEMMA OnStartGameKeeps ==
  ASSUME Good, OnStartGame
  PROVE  Good'
<1> DEFINE c == [type |-> "START_GAME", lobby |-> code]
<1>1. /\ window = "lobby" /\ toServer = <<>> /\ UNCHANGED <<svars, toClient, cvars>>
      /\ toServer' = toServer \/ toServer' = Append(toServer, c)
  BY DEF OnStartGame, Push
<1>2. UNCHANGED <<toClient, inbox, window, code, posted, state, is_last_map, race_started,
                  keep_running, current_upgrade, hand, unsent, wish>>
  BY <1>1 DEF cvars, lobbywindow, racewindow, phasemanager
<1>3. /\ ClientAt' = ClientAt /\ Coming' = Coming /\ pressed' = pressed
      /\ \A q : ServerAt(q)' <=> ServerAt(q)
  BY <1>1, <1>2, ServerSame, ComingSame, PlaceSame
<1>4. c \in ClientMessages /\ c.type = "START_GAME"
  <2>1. c \in [type : {"START_GAME"}, lobby : Codes]
    BY DEF Good, ClientTyped
  <2>2. c.type = "START_GAME"
    OBVIOUS
  <2> QED
    BY <2>1, <2>2, Zenon DEF ClientMessages
<1> HIDE DEF c
<1>5. toServer' \in Seq(ClientMessages) /\ NoAsks(toServer') /\ NoKeys(toServer')
  <2>1. toServer \in Seq(ClientMessages)
    BY DEF Good, ClientTyped
  <2>2. CASE toServer' = toServer
    BY <2>1, <2>2, <1>1, NothingWaits
  <2>3. CASE toServer' = Append(toServer, c)
    BY <2>1, <2>3, <1>1, <1>4, NothingWaits, MessagePushed
  <2> QED
    BY <2>2, <2>3, <1>1
<1>6. ClientTyped' /\ Follows'
  BY <1>2, <1>3, <1>5 DEF Good, ClientTyped, Follows
<1>7. OneAsk' /\ KeysOfTheRace' /\ window' # "race"
  BY <1>1, <1>2, <1>3, <1>5 DEF Good, OneAsk, KeysOfTheRace
<1> QED
  BY <1>1, <1>2, <1>6, <1>7, StepOffTrack

-----------------------------------------------------------------------------
\* The race window closes after the last table.
LEMMA RaceEndsKeeps ==
  ASSUME Good, RaceEnds
  PROVE  Good'
<1>1. /\ window = "race" /\ ~keep_running /\ window' = "prelobby"
      /\ state' = "RUNNING_GAME" /\ is_last_map' = FALSE /\ race_started' = FALSE
      /\ current_upgrade' = 0 /\ hand' = "none" /\ unsent' = FALSE /\ wish' = 0
      /\ UNCHANGED <<svars, wire, inbox, lobbywindow, keep_running>>
  BY DEF RaceEnds, FreshRaceWindow
<1>2. UNCHANGED <<toClient, toServer, code, posted>>
  BY <1>1 DEF wire, lobbywindow
<1>3. /\ ClientAt' = ClientAt /\ Coming' = Coming
      /\ \A q : ServerAt(q)' <=> ServerAt(q)
  BY <1>1, <1>2, ServerSame, ComingSame DEF ClientAt
<1>4. ClientTyped' /\ Follows'
  BY <1>1, <1>2, <1>3 DEF Good, ClientTyped, Follows
<1>5. OneAsk' /\ KeysOfTheRace' /\ window' # "race"
  BY <1>1, <1>2 DEF Good, OneAsk, KeysOfTheRace
<1> QED
  BY <1>1, <1>2, <1>4, <1>5, StepOffTrack

\* A key goes out, or is known not to have.
LEMMA KeyKeeps ==
  ASSUME Good, Ordinary, window = "race", hand' \in {"none", "w"}, NEW key \in {"w", "no_w"},
         key = "w" <=> hand' = "w", SendKey(key)
  PROVE  Good'
<1> DEFINE c == [type |-> "SEND_KEY", key |-> key]
<1>1. /\ UNCHANGED <<svars, toClient, inbox, window, lobbywindow, phasemanager, keep_running,
                     current_upgrade, wish>>
      /\ race_started => toServer' = Append(toServer, c) /\ unsent' = FALSE
      /\ ~race_started => toServer' = toServer /\ unsent' = TRUE
  <2>1. send_event(c) # <<>>
    BY DEF send_event, send_key, KeyCodes
  <2> QED
    BY <2>1 DEF SendKey, Push, Ordinary
<1>2. UNCHANGED <<toClient, inbox, window, code, posted, state, is_last_map, race_started,
                  keep_running, current_upgrade, wish>>
  BY <1>1 DEF lobbywindow, phasemanager
<1>3. /\ ClientAt' = ClientAt /\ Coming' = Coming /\ UNCHANGED <<seat, phase, answer, pressed>>
      /\ \A q : ServerAt(q)' <=> ServerAt(q)
  BY <1>1, <1>2, ServerSame, ComingSame, PlaceSame
<1>4. c \in ClientMessages /\ c.type = "SEND_KEY" /\ c.key = key
  <2>1. c \in [type : {"SEND_KEY"}, key : {"w", "no_w"}]
    OBVIOUS
  <2>2. c.type = "SEND_KEY" /\ c.key = key
    OBVIOUS
  <2> QED
    BY <2>1, <2>2, Zenon DEF ClientMessages
<1> HIDE DEF c
<1>5. toServer \in Seq(ClientMessages) /\ NoAsks(toServer) /\ race_started \in BOOLEAN
  BY DEF Good, ClientTyped, OneAsk
<1>6. /\ toServer' \in Seq(ClientMessages) /\ NoAsks(toServer') /\ unsent' \in BOOLEAN
      /\ NoUpgrades(toServer) => NoUpgrades(toServer')
      /\ LastUpgrade(toServer, wish) => LastUpgrade(toServer', wish)
      /\ ~unsent' => LastKey(toServer', hand') /\ ~NoKeys(toServer')
  <2>1. CASE race_started
    <3>1. toServer' = Append(toServer, c) /\ unsent' = FALSE
      BY <2>1, <1>1
    <3>2. /\ Append(toServer, c) \in Seq(ClientMessages) /\ NoAsks(Append(toServer, c))
          /\ ~NoKeys(Append(toServer, c)) /\ LastKey(Append(toServer, c), hand')
          /\ NoUpgrades(toServer) => NoUpgrades(Append(toServer, c))
          /\ LastUpgrade(toServer, wish) => LastUpgrade(Append(toServer, c), wish)
      BY <1>4, <1>5, MessagePushed
    <3> QED
      BY <3>1, <3>2
  <2>2. CASE ~race_started
    BY <2>2, <1>1, <1>5
  <2> QED
    BY <2>1, <2>2, <1>5
<1>7. ClientTyped' /\ Follows' /\ WindowInPlace' /\ toClient' \in Seq(ServerEvents)
  BY <1>2, <1>3, <1>6 DEF Good, ClientTyped, Follows, WindowInPlace, ServerTyped
<1>8. OneAsk' /\ KeysOfTheRace'
  BY <1>2, <1>6 DEF OneAsk, KeysOfTheRace
<1>9. AnswerComes'
  BY <1>2, <1>3, <1>6 DEF Good, AnswerComes
<1>10. KeyComes'
  BY <1>6 DEF KeyComes
<1> QED
  BY <1>1, <1>7, <1>8, <1>9, <1>10, ClientStep

\* The key that stands for letting go of "w".
LEMMA ReleasedKey == Released("w") = "no_w"
<1>1. \E key \in DOMAIN KeyCodes : KeyCodes[key] = KeyCodes["w"] + 4
  <2>1. "no_w" \in DOMAIN KeyCodes /\ KeyCodes["no_w"] = 4 /\ KeyCodes["w"] = 0
    BY DEF KeyCodes
  <2> QED
    BY <2>1
<1>2. Released("w") \in DOMAIN KeyCodes /\ KeyCodes[Released("w")] = KeyCodes["w"] + 4
  BY <1>1 DEF Released
<1> HIDE DEF Released
<1> QED
  BY <1>2 DEF KeyCodes

\* A press and a release.
LEMMA KeysKeep ==
  ASSUME Good, Ordinary, NEW k \in Keys, KeyDown(k) \/ KeyUp(k)
  PROVE  Good'
<1>1. k = "w"
  BY ClientAssumption
<1>2. Released("w") = "no_w"
  BY ReleasedKey
<1>3. CASE KeyDown(k)
  BY <1>1, <1>3, KeyKeeps DEF KeyDown
<1>4. CASE KeyUp(k)
  BY <1>1, <1>2, <1>4, KeyKeeps DEF KeyUp
<1> QED
  BY <1>3, <1>4

\* The user picks an upgrade.
LEMMA ClickUpgradeKeeps ==
  ASSUME Good, NEW up \in Upgrades, ClickUpgrade(up)
  PROVE  Good'
<1>1. /\ window = "race" /\ state = "SHOW_UPGRADE" /\ current_upgrade' = up /\ wish' = up
      /\ UNCHANGED <<svars, wire, inbox, window, lobbywindow, phasemanager, keep_running, hand, unsent>>
  BY DEF ClickUpgrade
<1>2. UNCHANGED <<toClient, toServer, inbox, window, code, posted, state, is_last_map, race_started,
                  keep_running, hand, unsent>>
  BY <1>1 DEF wire, lobbywindow, phasemanager
<1>3. /\ ClientAt' = ClientAt /\ Coming' = Coming /\ UNCHANGED <<seat, phase, answer, pressed>>
      /\ \A q : ServerAt(q)' <=> ServerAt(q)
  BY <1>1, <1>2, ServerSame, ComingSame, PlaceSame
<1>4. ClientTyped' /\ Follows' /\ WindowInPlace' /\ toClient' \in Seq(ServerEvents)
  BY <1>1, <1>2, <1>3 DEF Good, ClientTyped, Follows, WindowInPlace, ServerTyped
<1>5. OneAsk' /\ KeysOfTheRace' /\ KeyComes'
  BY <1>1, <1>2, <1>3 DEF Good, OneAsk, KeysOfTheRace, KeyComes
<1>6. state' # "PREGAME"
  BY <1>1, <1>2
<1>7. AnswerComes'
  BY <1>4, <1>6, AnswerLater
<1> QED
  BY <1>1, <1>4, <1>5, <1>7, ClientStep

\* What waits when the client wrote its upgrade.
LEMMA UpgradePushed ==
  ASSUME NEW ts \in Seq(ClientMessages), NEW c \in ClientMessages, c.type = "UPGRADES"
  PROVE  /\ Append(ts, c) \in Seq(ClientMessages)
         /\ NoAsks(ts) => NoAsks(Append(ts, c))
         /\ NoKeys(Append(ts, c)) <=> NoKeys(ts)
         /\ \A h : LastKey(ts, h) => LastKey(Append(ts, c), h)
         /\ LastUpgrade(Append(ts, c), c.upgrade)
<1>1. c.type # "SEND_KEY" /\ c.type \notin {"CREATE_LOBBY", "JOIN_LOBBY"}
  OBVIOUS
<1>2. NoAsks(ts) => NoAsks(Append(ts, c))
  BY <1>1, MessagePushed
<1>3. NoKeys(Append(ts, c)) <=> NoKeys(ts)
  BY <1>1, MessagePushed
<1>4. ASSUME NEW h, LastKey(ts, h) PROVE LastKey(Append(ts, c), h)
  <2>1. c.type # "SEND_KEY" /\ LastKey(ts, h) => LastKey(Append(ts, c), h)
    BY MessagePushed
  <2> QED
    BY <2>1, <1>1, <1>4
<1>5. Append(ts, c) \in Seq(ClientMessages) /\ LastUpgrade(Append(ts, c), c.upgrade)
  BY MessagePushed
<1> QED
  BY <1>2, <1>3, <1>4, <1>5

\* The race window takes one event, and the snapshots before it.
LEMMA FrameTakes ==
  ASSUME inbox \in Seq(ClientEvents), RaceFrame
  PROVE  \E m \in 1 .. Len(inbox) :
           /\ \A k \in 1 .. m - 1 : Heard(inbox[k]) = "snapshot"
           /\ inbox' = SubSeq(inbox, m + 1, Len(inbox)) /\ update_game_state(inbox[m])
<1> DEFINE others == {i \in DOMAIN inbox : inbox[i].type # "SNAPSHOT"}
           last == IF others = {} THEN Len(inbox) ELSE CHOOSE i \in others : \A j \in others : i <= j
<1>1. inbox # <<>> /\ inbox' = SubSeq(inbox, last + 1, Len(inbox)) /\ update_game_state(inbox[last])
  BY DEF RaceFrame
<1>2. inbox \in Seq(ClientEvents) /\ Len(inbox) \in Nat \ {0} /\ DOMAIN inbox = 1 .. Len(inbox)
  BY <1>1, EmptySeq, LenProperties
<1>3. /\ last \in 1 .. Len(inbox)
      /\ \A k \in 1 .. last - 1 : k \notin others
  <2>1. CASE others = {}
    BY <2>1, <1>2
  <2>2. CASE others # {}
    <3>1. last = CHOOSE i \in others : \A j \in others : i <= j
      BY <2>2
    <3>2. others \subseteq Nat /\ others \subseteq 1 .. Len(inbox)
      BY <1>2
    <3> HIDE DEF last, others
    <3>3. last \in others /\ \A j \in others : last <= j
      BY <2>2, <3>1, <3>2, LeastNumber
    <3>4. last \in 1 .. Len(inbox)
      BY <3>2, <3>3
    <3>5. ASSUME NEW k \in 1 .. last - 1 PROVE k \notin others
      <4>1. ~(last <= k)
        BY <3>4
      <4> QED
        BY <4>1, <3>3
    <3> QED
      BY <3>4, <3>5
  <2> QED
    BY <2>1, <2>2
<1> HIDE DEF last
<1>4. ASSUME NEW k \in 1 .. last - 1 PROVE Heard(inbox[k]) = "snapshot"
  <2>1. k \in DOMAIN inbox
    BY <1>2, <1>3
  <2>2. inbox[k].type = "SNAPSHOT"
    BY <1>3, <2>1
  <2> QED
    BY <2>2 DEF Heard
<1> QED
  BY <1>1, <1>3, <1>4

\* What the event does to the window, by the place it is in.
LEMMA FrameMoves ==
  ASSUME Good, window = "race", keep_running, window' = window, posted' = posted,
         NEW e \in ClientEvents, update_game_state(e), After(ClientAt, Heard(e)) \in Positions
  PROVE  /\ ClientAt' = After(ClientAt, Heard(e))
         /\ toServer' = toServer \/ toServer' = Append(toServer, [type |-> "UPGRADES", upgrade |-> current_upgrade])
         /\ state' = "PREGAME" =>
              /\ state = "SHOW_UPGRADE" /\ wish' = wish
              /\ link = "open" => toServer' = Append(toServer, [type |-> "UPGRADES", upgrade |-> wish])
         /\ state' \in {"RUNNING_GAME", "SHOW_POSITIONS", "SHOW_UPGRADE", "PREGAME"}
         /\ is_last_map' \in BOOLEAN /\ race_started' \in BOOLEAN /\ keep_running' \in BOOLEAN
         /\ current_upgrade' \in Upgrades \cup {0}
         /\ WindowInPlace'
<1>1. e.type \in ClientKinds /\ (e.type = "RACE_RESULTS" => e.is_last_race \in BOOLEAN)
  BY EventsRead DEF ClientEvents
<1>2. /\ is_last_map => state = "SHOW_POSITIONS"
      /\ current_upgrade = IF state = "SHOW_UPGRADE" THEN wish ELSE 0
      /\ state \in {"RUNNING_GAME", "SHOW_POSITIONS", "SHOW_UPGRADE", "PREGAME"}
      /\ is_last_map \in BOOLEAN /\ race_started \in BOOLEAN /\ current_upgrade \in Upgrades \cup {0}
  BY DEF Good, ClientTyped, WindowInPlace
<1>3. /\ state = "RUNNING_GAME" => ClientAt = "racing"
      /\ state = "SHOW_UPGRADE" => ClientAt = "choosing"
      /\ state = "PREGAME" => ClientAt = "waiting"
      /\ state = "SHOW_POSITIONS" => ClientAt = IF is_last_map THEN "final" ELSE "results"
  BY DEF ClientAt
<1>4. CASE e.type = "SNAPSHOT"
  <2>1. Heard(e) = "snapshot" /\ UNCHANGED <<state, is_last_map, keep_running, current_upgrade, wish, toServer>>
    BY <1>4 DEF Heard, update_game_state, process_snapshot
  <2>2. ClientAt = "racing" /\ After(ClientAt, Heard(e)) = "racing"
    BY <2>1, <1>2, <1>3 DEF After, Positions
  <2>3. state = "RUNNING_GAME"
    BY <2>2, <1>2, <1>3
  <2>4. ClientAt' = "racing"
    BY <2>1, <2>3 DEF ClientAt
  <2>5. race_started' \in BOOLEAN
    BY <1>4 DEF update_game_state, process_snapshot
  <2> QED
    BY <2>1, <2>2, <2>3, <2>4, <2>5, <1>2 DEF WindowInPlace
<1>5. CASE e.type = "PREGAME"
  <2>1. /\ Heard(e) = "pregame" /\ UNCHANGED <<is_last_map, keep_running, current_upgrade, wish, toServer>>
        /\ race_started' = FALSE /\ state' = advance_phase(state)
    BY <1>5 DEF Heard, update_game_state, process_pregame
  <2>2. ClientAt \in {"racing", "waiting"} /\ After(ClientAt, Heard(e)) = "racing"
    BY <2>1, <1>2, <1>3 DEF After, Positions
  <2>3. state \in {"RUNNING_GAME", "PREGAME"} /\ ~is_last_map
    BY <2>2, <1>2, <1>3
  <2>4. state' = "RUNNING_GAME"
    BY <2>1, <2>3 DEF advance_phase
  <2>5. ClientAt' = "racing"
    BY <2>1, <2>4 DEF ClientAt
  <2> QED
    BY <2>1, <2>2, <2>3, <2>4, <2>5, <1>2 DEF WindowInPlace
<1>6. CASE e.type = "RACE_RESULTS"
  <2>1. /\ Heard(e) = (IF e.is_last_race THEN "final_results" ELSE "results")
        /\ UNCHANGED <<race_started, keep_running, current_upgrade, wish, toServer>>
        /\ state' = "SHOW_POSITIONS" /\ is_last_map' = e.is_last_race /\ e.is_last_race \in BOOLEAN
    BY <1>1, <1>6 DEF Heard, update_game_state, process_results
  <2>2. /\ ClientAt \in {"racing", "final"}
        /\ After(ClientAt, Heard(e)) = (IF e.is_last_race THEN "final" ELSE "results")
    BY <2>1, <1>2, <1>3 DEF After, Positions
  <2>3. state \in {"RUNNING_GAME", "SHOW_POSITIONS"}
    BY <2>2, <1>2, <1>3
  <2>4. ClientAt' = IF e.is_last_race THEN "final" ELSE "results"
    BY <2>1 DEF ClientAt
  <2> QED
    BY <2>1, <2>2, <2>3, <2>4, <1>2 DEF WindowInPlace
<1>7. CASE e.type = "CHANGE_FASE"
  <2>1. Heard(e) = "phase" /\ handle_change_phase
    BY <1>7 DEF Heard, update_game_state
  <2>2. ClientAt \in {"results", "choosing", "final"}
    BY <2>1, <1>2, <1>3 DEF After, Positions
  <2>3. CASE ClientAt = "final"
    <3>1. is_last_map /\ state = "SHOW_POSITIONS"
      BY <2>3, <1>2, <1>3
    <3>2. keep_running' = FALSE /\ UNCHANGED <<state, current_upgrade, wish, toServer, is_last_map, race_started>>
      BY <2>1, <3>1 DEF handle_change_phase
    <3>3. ClientAt' = "idle" /\ After(ClientAt, Heard(e)) = "idle"
      BY <2>1, <2>3, <3>2 DEF ClientAt, After
    <3> QED
      BY <3>1, <3>2, <3>3, <1>2 DEF WindowInPlace
  <2>4. CASE ClientAt = "results"
    <3>1. ~is_last_map /\ state = "SHOW_POSITIONS"
      BY <2>4, <1>2, <1>3
    <3>2. /\ state' = "SHOW_UPGRADE" /\ wish' = 0
          /\ UNCHANGED <<keep_running, current_upgrade, toServer, is_last_map, race_started>>
      BY <2>1, <3>1 DEF handle_change_phase, advance_phase
    <3>3. ClientAt' = "choosing" /\ After(ClientAt, Heard(e)) = "choosing"
      BY <2>1, <2>4, <3>2 DEF ClientAt, After
    <3> QED
      BY <3>1, <3>2, <3>3, <1>2 DEF WindowInPlace
  <2>5. CASE ClientAt = "choosing"
    <3>1. ~is_last_map /\ state = "SHOW_UPGRADE"
      BY <2>5, <1>2, <1>3
    <3>2. /\ state' = "PREGAME" /\ UNCHANGED <<keep_running, wish, is_last_map, race_started>> /\ SendUpgrade
      BY <2>1, <3>1 DEF handle_change_phase, advance_phase
    <3>3. ClientAt' = "waiting" /\ After(ClientAt, Heard(e)) = "waiting"
      BY <2>1, <2>5, <3>2 DEF ClientAt, After
    <3> DEFINE c == [type |-> "UPGRADES", upgrade |-> current_upgrade]
    <3>4. send_event(c) # <<>>
      BY DEF send_event
    <3>5. /\ current_upgrade' = 0 /\ (toServer' = toServer \/ toServer' = Append(toServer, c))
          /\ link = "open" => toServer' = Append(toServer, c)
      BY <3>2, <3>4 DEF SendUpgrade, Push
    <3> HIDE DEF c
    <3>6. current_upgrade = wish
      BY <1>2, <3>1
    <3>7. WindowInPlace'
      BY <3>1, <3>2, <3>5 DEF WindowInPlace
    <3> QED
      BY <3>1, <3>2, <3>3, <3>5, <3>6, <3>7, <1>2 DEF c
  <2> QED
    BY <2>2, <2>3, <2>4, <2>5
<1>8. CASE e.type \notin {"SNAPSHOT", "PREGAME", "RACE_RESULTS", "CHANGE_FASE"}
  <2>1. Heard(e) \in {"id", "refused", "accepted", "start", "lobby"}
    BY <1>1, <1>8 DEF Heard, ClientKinds
  <2>2. FALSE
    BY <2>1, <1>2, <1>3 DEF After, Positions
  <2> QED
    BY <2>2
<1> QED
  BY <1>4, <1>5, <1>6, <1>7, <1>8

\* A turn of the race window keeps the invariant.
LEMMA RaceFrameKeeps ==
  ASSUME Good, Ordinary, RaceFrame
  PROVE  Good'
<1>1. /\ window = "race" /\ keep_running
      /\ UNCHANGED <<svars, toClient, link, receiver, window, lobbywindow, hand, unsent>>
  BY DEF RaceFrame
<1>2. UNCHANGED <<toClient, window, code, posted, hand, unsent>> /\ link = "open"
  BY <1>1 DEF lobbywindow, Ordinary
<1>3. PICK m \in 1 .. Len(inbox) :
        /\ \A k \in 1 .. m - 1 : Heard(inbox[k]) = "snapshot"
        /\ inbox' = SubSeq(inbox, m + 1, Len(inbox)) /\ update_game_state(inbox[m])
  BY FrameTakes DEF Good, ClientTyped
<1>4. PICK q \in Positions : Leads(ClientAt, Coming, q) /\ ServerAt(q)
  BY Places
<1> DEFINE e == inbox[m]
<1>5. /\ inbox' \in Seq(ClientEvents) /\ e \in ClientEvents
      /\ After(ClientAt, Heard(e)) \in Positions /\ Leads(After(ClientAt, Heard(e)), Coming', q)
  BY <1>2, <1>3, <1>4, ClientTakes
<1> HIDE DEF e
<1> DEFINE c == [type |-> "UPGRADES", upgrade |-> current_upgrade]
<1>6. /\ ClientAt' = After(ClientAt, Heard(e))
      /\ toServer' = toServer \/ toServer' = Append(toServer, c)
      /\ state' = "PREGAME" => wish' = wish /\ toServer' = Append(toServer, [type |-> "UPGRADES", upgrade |-> wish])
      /\ state' \in {"RUNNING_GAME", "SHOW_POSITIONS", "SHOW_UPGRADE", "PREGAME"}
      /\ is_last_map' \in BOOLEAN /\ race_started' \in BOOLEAN /\ keep_running' \in BOOLEAN
      /\ current_upgrade' \in Upgrades \cup {0}
      /\ WindowInPlace' /\ (state' = "PREGAME" => state = "SHOW_UPGRADE")
  BY <1>1, <1>2, <1>3, <1>5, FrameMoves DEF e
<1>7. c \in ClientMessages /\ c.type = "UPGRADES" /\ c.upgrade = current_upgrade
  <2>1. c \in [type : {"UPGRADES"}, upgrade : Upgrades \cup {0}]
    BY DEF Good, ClientTyped
  <2>2. c.type = "UPGRADES" /\ c.upgrade = current_upgrade
    OBVIOUS
  <2> QED
    BY <2>1, <2>2, Zenon DEF ClientMessages
<1>8. state' = "PREGAME" => c = [type |-> "UPGRADES", upgrade |-> wish] /\ c.upgrade = wish
  BY <1>1, <1>6 DEF Good, WindowInPlace
<1> HIDE DEF c
<1>9. toServer \in Seq(ClientMessages) /\ NoAsks(toServer)
  BY <1>1 DEF Good, ClientTyped, OneAsk
<1>10. /\ Append(toServer, c) \in Seq(ClientMessages) /\ NoAsks(Append(toServer, c))
       /\ NoKeys(Append(toServer, c)) <=> NoKeys(toServer)
       /\ LastKey(toServer, hand) => LastKey(Append(toServer, c), hand)
       /\ LastUpgrade(Append(toServer, c), c.upgrade)
  <2>1. c.type # "SEND_KEY" /\ c.type \notin {"CREATE_LOBBY", "JOIN_LOBBY"}
    BY <1>7
  <2>2. /\ Append(toServer, c) \in Seq(ClientMessages)
        /\ NoAsks(toServer) => NoAsks(Append(toServer, c))
        /\ NoKeys(Append(toServer, c)) <=> NoKeys(toServer)
        /\ LastKey(toServer, hand) => LastKey(Append(toServer, c), hand)
        /\ LastUpgrade(Append(toServer, c), c.upgrade)
    BY <1>7, <1>9, UpgradePushed
  <2> QED
    BY <2>1, <2>2, <1>7, <1>9
<1>11. /\ toServer' \in Seq(ClientMessages) /\ NoAsks(toServer') /\ (NoKeys(toServer') <=> NoKeys(toServer))
       /\ LastKey(toServer, hand) => LastKey(toServer', hand)
       /\ state' = "PREGAME" => LastUpgrade(toServer', wish')
  BY <1>6, <1>8, <1>9, <1>10
<1>12. UNCHANGED <<seat, phase, pressed>>
  BY <1>1, ServerSame
<1>13. Follows'
  BY <1>1, <1>4, <1>5, <1>6, ServerSame DEF Follows
<1>14. ClientTyped' /\ toClient' \in Seq(ServerEvents)
  BY <1>2, <1>5, <1>6, <1>11 DEF Good, ClientTyped, ServerTyped
<1>15. OneAsk' /\ KeysOfTheRace'
  BY <1>1, <1>2, <1>11 DEF OneAsk, KeysOfTheRace
<1>16. AnswerComes'
  <2>1. CASE state' = "PREGAME"
    BY <2>1, <1>11 DEF AnswerComes
  <2>2. CASE state' # "PREGAME"
    BY <2>2, <1>13, <1>14, AnswerLater
  <2> QED
    BY <2>1, <2>2
<1>17. KeyComes'
  BY <1>2, <1>11, <1>12 DEF Good, KeyComes
<1> QED
  BY <1>1, <1>6, <1>13, <1>14, <1>15, <1>16, <1>17, ClientStep

\* Once cut off or left early, always: a state in order was reached in order.
LEMMA Backwards ==
  ASSUME [Next]_pvars, Ordinary'
  PROVE  Ordinary
<1>1. CASE Serve
  <2>1. ASSUME ServeSeat \/ ServeRefusal \/ ServeLeave \/ ServeMove \/ ServeUpgrade PROVE UNCHANGED <<link, cvars>>
    BY <2>1, Zenon DEF ServeSeat, ServeRefusal, ServeLeave, ServeMove, ServeUpgrade
  <2>2. ASSUME ServeStart PROVE UNCHANGED <<link, cvars>>
    BY <2>2 DEF ServeStart, StartLobby
  <2>3. UNCHANGED <<link, left>>
    BY <1>1, <2>1, <2>2 DEF Serve, cvars
  <2> QED
    BY <2>3 DEF Ordinary
<1>2. CASE OtherStarts \/ OtherJoins \/ GameStep \/ CountdownEnds
  BY <1>2 DEF Ordinary, OtherStarts, StartLobby, OtherJoins, GameStep, CountdownEnds, wire, cvars
<1>3. CASE Cut
  BY <1>3 DEF Ordinary, Cut
<1>4. CASE Receive \/ ReceiverEnds
  BY <1>4 DEF Ordinary, Receive, ReceiverEnds, wire
<1>5. CASE ReceiveId \/ CreateLobby \/ JoinLobby \/ CreateWithoutMaps \/ HandleServerEvent \/ ClosePreLobby
  <2>1. CASE ReceiveId \/ CreateWithoutMaps \/ HandleServerEvent
    BY <2>1 DEF Ordinary, ReceiveId, CreateWithoutMaps, HandleServerEvent, wire
  <2>2. CASE CreateLobby \/ JoinLobby
    <3>1. \A c : Ask(c) => UNCHANGED <<link, left>>
      BY DEF Ask
    <3>2. UNCHANGED <<link, left>>
      BY <2>2, <3>1, Zenon DEF CreateLobby, JoinLobby
    <3> QED
      BY <3>2 DEF Ordinary
  <2>3. CASE ClosePreLobby
    BY <2>3 DEF Ordinary, ClosePreLobby, wire
  <2> QED
    BY <1>5, <2>1, <2>2, <2>3
<1>6. CASE ListenServer \/ LobbyAccepted \/ LobbyRejected \/ OnStartGame \/ OnExitLobby \/ CloseLobby
  BY <1>6 DEF Ordinary, ListenServer, LobbyAccepted, LobbyRejected, OnStartGame, OnExitLobby,
     CloseLobby,
       LeaveLobby, wire, cvars
<1>7. CASE RaceFrame \/ RaceEnds \/ QuitRace
  BY <1>7 DEF Ordinary, RaceFrame, RaceEnds, QuitRace, wire
<1>8. CASE (\E k \in Keys : KeyDown(k) \/ KeyUp(k)) \/ \E up \in Upgrades : ClickUpgrade(up)
  <2>1. \A key : SendKey(key) => UNCHANGED <<link, left>>
    BY DEF SendKey
  <2>2. UNCHANGED <<link, left>>
    <3>1. ASSUME NEW k \in Keys, KeyDown(k) \/ KeyUp(k) PROVE UNCHANGED <<link, left>>
      BY <3>1, <2>1, Zenon DEF KeyDown, KeyUp
    <3>2. ASSUME NEW up \in Upgrades, ClickUpgrade(up) PROVE UNCHANGED <<link, left>>
      BY <3>2 DEF ClickUpgrade, wire
    <3> QED
      BY <1>8, <3>1, <3>2, Zenon
  <2> QED
    BY <2>2 DEF Ordinary
<1>9. CASE UNCHANGED pvars
  BY <1>9 DEF Ordinary, pvars, wire, cvars
<1> QED
  BY <1>1, <1>2, <1>3, <1>4, <1>5, <1>6, <1>7, <1>8, <1>9 DEF Next, Server, Windows

\* Every step between two states in order keeps the invariant.
LEMMA NextKeeps ==
  ASSUME Good, Ordinary, Ordinary', [ReadAsMeant]_pvars, [Next]_pvars
  PROVE  Good'
<1>1. CASE Serve
  BY <1>1, ServeKeeps
<1>2. CASE OtherStarts
  BY <1>2, StartKeeps DEF OtherStarts
<1>3. CASE OtherJoins
  BY <1>3, OtherJoinsKeeps
<1>4. CASE GameStep
  BY <1>4, GameStepKeeps
<1>5. CASE CountdownEnds
  BY <1>5, CountdownEndsKeeps
<1>6. CASE Cut
  BY <1>6 DEF Ordinary, Cut
<1>7. CASE Receive
  BY <1>7, ReceiveKeeps
<1>8. CASE ReceiverEnds
  BY <1>8 DEF Ordinary, ReceiverEnds
<1>9. CASE ReceiveId
  BY <1>9, ReceiveIdKeeps
<1>10. CASE CreateLobby \/ JoinLobby
  BY <1>10, QuestionsKeep
<1>11. CASE CreateWithoutMaps
  <2>1. UNCHANGED <<svars, toClient, toServer, inbox, window, code, posted, racewindow>>
    BY <1>11 DEF CreateWithoutMaps, wire
  <2> QED
    BY <2>1, SameKeeps
<1>12. CASE HandleServerEvent
  BY <1>12, HandleServerEventKeeps
<1>13. CASE ClosePreLobby
  BY <1>13, ClosePreLobbyKeeps
<1>14. CASE ListenServer
  BY <1>14, ListenServerKeeps
<1>15. CASE LobbyAccepted
  BY <1>15, LobbyAcceptedKeeps
<1>16. CASE LobbyRejected
  BY <1>16 DEF LobbyRejected, Good, ClientTyped
<1>17. CASE OnStartGame
  BY <1>17, OnStartGameKeeps
<1>18. CASE OnExitLobby \/ CloseLobby \/ QuitRace
  BY <1>18 DEF OnExitLobby, CloseLobby, LeaveLobby, QuitRace, Ordinary
<1>19. CASE RaceFrame
  BY <1>19, RaceFrameKeeps
<1>20. CASE RaceEnds
  BY <1>20, RaceEndsKeeps
<1>21. CASE \E k \in Keys : KeyDown(k) \/ KeyUp(k)
  BY <1>21, KeysKeep
<1>22. CASE \E up \in Upgrades : ClickUpgrade(up)
  BY <1>22, ClickUpgradeKeeps
<1>23. CASE UNCHANGED pvars
  <2>1. UNCHANGED <<svars, toClient, toServer, inbox, window, code, posted, racewindow>>
    BY <1>23 DEF pvars, wire, cvars, lobbywindow
  <2> QED
    BY <2>1, SameKeeps
<1> QED
  BY <1>1, <1>2, <1>3, <1>4, <1>5, <1>6, <1>7, <1>8, <1>9, <1>10, <1>11, <1>12, <1>13, <1>14,
     <1>15, <1>16,
     <1>17, <1>18, <1>19, <1>20, <1>21, <1>22, <1>23 DEF Next, Server, Windows

\* It holds when the program starts.
LEMMA InitGood ==
  ASSUME Init
  PROVE  Good
<1>1. Hello \in ServerEvents /\ Hello.type = "id"
  BY DEF ServerEvents, Hello
<1>2. /\ phase = "lobby" /\ round = 0 /\ shown = 0 /\ seat = "none" /\ pressed = FALSE
      /\ toClient = <<Hello>> /\ toServer = <<>> /\ inbox = <<>> /\ window = "opening"
      /\ code = 0 /\ posted = "nothing" /\ state = "RUNNING_GAME" /\ is_last_map = FALSE
      /\ race_started = FALSE /\ keep_running = FALSE /\ current_upgrade = 0 /\ hand = "none" /\ unsent = FALSE
  BY DEF Init, TInit
<1>3. ServerTyped
  <2>1. <<Hello>> \in Seq(ServerEvents) /\ 0 \in 0 .. Tables
    BY <1>1, ClientAssumption
  <2> QED
    BY <2>1, <1>2 DEF ServerTyped
<1>4. ClientTyped
  <2>1. <<>> \in Seq(ClientEvents) /\ <<>> \in Seq(ClientMessages) /\ 0 \in Codes
    BY DEF Codes
  <2> QED
    BY <2>1, <1>2 DEF ClientTyped
<1>5. Follows
  <2>1. Coming = <<"id">>
    <3>1. Hearing(<<>>, <<Hello>>) = Hearing(<<>>, <<>>) \o Types(<<Hello>>)
      <4>1. <<>> \in Seq(ClientEvents) /\ <<>> \in Seq(ServerEvents) /\ <<Hello>> \in Seq(ServerEvents)
        BY <1>1
      <4>2. <<>> \o <<Hello>> = <<Hello>>
        BY <4>1, ConcatEmptySeq
      <4> QED
        BY <4>1, <4>2, HearingSent
    <3>2. Hearing(<<>>, <<>>) = <<>>
      <4>1. <<>> \in Seq(ClientEvents) /\ <<>> \in Seq(ServerEvents)
        OBVIOUS
      <4> QED
        BY <4>1, HearingSeq
    <3>3. Types(<<Hello>>) = <<"id">>
      BY <1>1 DEF Types
    <3>4. <<"id">> \in Seq({"id"}) /\ <<>> \o <<"id">> = <<"id">>
      BY ConcatEmptySeq
    <3> QED
      BY <1>2, <3>1, <3>2, <3>3, <3>4 DEF Coming
  <2>2. ClientAt = "opening" /\ ServerAt("idle")
    BY <1>2 DEF ClientAt, ServerAt
  <2>3. /\ "opening" \in Positions /\ "id" \in Kinds /\ After("opening", "id") = "idle"
        /\ "idle" \in Positions
    BY DEF Positions, Kinds, After
  <2>4. Leads("opening", <<"id">>, "idle")
    BY <2>3, OneLeads
  <2> QED
    BY <2>1, <2>2, <2>4 DEF Follows
<1>6. PhasesInPlace /\ WindowInPlace /\ OneAsk /\ KeysOfTheRace /\ AnswerComes /\ KeyComes
  BY <1>2, NothingWaits DEF PhasesInPlace, WindowInPlace, OneAsk, KeysOfTheRace, AnswerComes,
     KeyComes
<1> QED
  BY <1>3, <1>4, <1>5, <1>6 DEF Good

-----------------------------------------------------------------------------
\* The rows of the samples.
LEMMA SampleRows ==
  /\ ManyRows \in Seq(WrittenRows) /\ ManyRows # <<>>
  /\ FewRows \in Seq(WrittenRows) /\ FewRows # <<>> /\ FewRows[1].name \in DOMAIN NameLength
<1>1. ManyRows \in Seq(WrittenRows) /\ ManyRows # <<>> /\ FewRows \in Seq(WrittenRows) /\ FewRows # <<>>
  BY SamplesAssumption
<1>2. Len(FewRows) \in Nat /\ Len(FewRows) # 0
  BY <1>1, EmptySeq, LenProperties
<1>3. FewRows[1] \in WrittenRows
  BY <1>1, <1>2, ElementOfSeq
<1> QED
  BY <1>1, <1>3 DEF WrittenRows

\* The view of a lobby of one or of two is one that LobbyFaithful is about.
LEMMA LobbyEventIs ==
  ASSUME NEW n \in {1, 2}
  PROVE  \E players \in Seq(WrittenPlayers) :
           LobbyEvent(n) = [type |-> "lobby", id |-> Code, players |-> players]
<1> DEFINE a == [name |-> Name, model |-> 3]
           b == [name |-> FewRows[1].name, model |-> 0]
           players == SubSeq(<<a, b>>, 1, n)
<1>1. a \in WrittenPlayers /\ b \in WrittenPlayers
  BY SamplesAssumption, SampleRows DEF WrittenPlayers
<1>2. LobbyEvent(n) = [type |-> "lobby", id |-> Code, players |-> players]
  BY Zenon DEF LobbyEvent
<1> HIDE DEF a, b
<1>3. <<a, b>> \in Seq(WrittenPlayers)
  BY <1>1
<1>4. players \in Seq(WrittenPlayers)
  BY <1>3, SubSeqProperties
<1> HIDE DEF players
<1> QED
  BY <1>2, <1>4

\* Every event the server sends is read as it was meant, to its last byte.
LEMMA EventFaithful ==
  ASSUME NEW ev \in ServerEvents
  PROVE  /\ Seen(receive_event(Send(ev)).event) = Means(ev)
         /\ receive_event(Send(ev)).took = Len(Send(ev))
<1>1. CASE ev \in {Hello, LobbyEvent(1), LobbyEvent(2)}
  <2>1. CASE ev = Hello
    BY <2>1, ShortFaithful DEF Hello
  <2>2. ASSUME NEW n \in {1, 2}, ev = LobbyEvent(n)
        PROVE  /\ Seen(receive_event(Send(ev)).event) = Means(ev)
               /\ receive_event(Send(ev)).took = Len(Send(ev))
    <3>1. PICK players \in Seq(WrittenPlayers) :
            LobbyEvent(n) = [type |-> "lobby", id |-> Code, players |-> players]
      BY LobbyEventIs
    <3>2. ev = [type |-> "lobby", id |-> Code, players |-> players] /\ Code \in Int
      BY <2>2, <3>1, ClientAssumption
    <3> QED
      BY <3>2, LobbyFaithful
  <2>3. 1 \in {1, 2} /\ 2 \in {1, 2}
    OBVIOUS
  <2> QED
    BY <1>1, <2>1, <2>2, <2>3, Zenon
<1>2. CASE ev \in [type : {"accepted", "refused", "start", "phase"}]
  <2>1. \E type \in {"refused", "accepted", "start", "phase"} : ev = [type |-> type]
    BY <1>2
  <2> QED
    BY <2>1, ShortFaithful
<1>3. CASE ev \in [type : {"pregame"}, pole : {<<1, 2, 3, 4, 2>>}, remaining : Int, map : {1},
                   total : {2}, move : {1}]
  <2>1. PICK remaining \in Int :
          ev = [type |-> "pregame", pole |-> <<1, 2, 3, 4, 2>>, remaining |-> remaining, map |-> 1,
                total |-> 2, move |-> 1]
    BY <1>3
  <2> QED
    BY <2>1, PregameFaithful
<1>4. CASE ev \in [type : {"snapshot"}, time : {1, 2}, cars : {SampleCars}, npcs : {SampleNpcs}]
  <2>1. PICK time \in {1, 2} : ev = [type |-> "snapshot", time |-> time, cars |-> SampleCars, npcs |-> SampleNpcs]
    BY <1>4
  <2>2. SampleCars \in Seq(WrittenCars) /\ SampleNpcs \in Seq([1 .. 6 -> Int])
    BY SamplesAssumption
  <2> QED
    BY <2>1, <2>2, SnapshotFaithful
<1>5. CASE ev \in [type : {"results"}, last : {0}, rows : {ManyRows}]
  <2>1. ev = [type |-> "results", last |-> 0, rows |-> ManyRows]
    BY <1>5
  <2> QED
    BY <2>1, SampleRows, ResultsFaithful
<1>6. CASE ev \in [type : {"final_results"}, rows : {FewRows, ManyRows}, podium : 0 .. 3]
  <2>1. PICK rows \in {FewRows, ManyRows}, pd \in 0 .. 3 :
          ev = [type |-> "final_results", rows |-> rows, podium |-> pd]
    BY <1>6
  <2>2. rows \in Seq(WrittenRows) /\ rows # <<>>
    BY SampleRows
  <2> QED
    BY <2>1, <2>2, FinalResultsFaithful
<1> QED
  BY <1>1, <1>2, <1>3, <1>4, <1>5, <1>6, Zenon DEF ServerEvents

-----------------------------------------------------------------------------
\* What a client writes that leaves too.
Messages == ClientMessages \cup [type : {"LEAVE_LOBBY"}]

\* The commands of one or two fields are read as they were meant.
LEMMA ShortCommands ==
  ASSUME NEW c, \/ c \in [type : {"SEND_KEY"}, key : {"w", "no_w"}]
                \/ \E lobby : c = [type |-> "START_GAME", lobby |-> lobby]
                \/ \E upgrade : c = [type |-> "UPGRADES", upgrade |-> upgrade]
                \/ c = [type |-> "LEAVE_LOBBY"]
  PROVE  get_command(send_event(c)) = Took(Asks(c), Len(send_event(c)))
<1> DEFINE m == send_event(c)
<1>1. CASE c \in [type : {"SEND_KEY"}, key : {"w", "no_w"}]
  <2>1. c.type = "SEND_KEY" /\ c.key \in {"w", "no_w"} /\ c.key \in DOMAIN KeyCodes
    BY <1>1 DEF KeyCodes
  <2>2. m = <<<<1, 18>>, <<1, KeyCodes[c.key]>>>>
    BY <2>1 DEF send_event, send_key, One
  <2> HIDE DEF m
  <2> DEFINE k == KeyCodes[c.key]
  <2> HIDE DEF k
  <2>3. Len(m) = 2 /\ Read(m, 1, 1) = 18 /\ Read(m, 2, 1) = k
    BY <2>2 DEF Read, k
  <2>4. get_command(m) = Took([type |-> "Move", param |-> k], 2)
    BY <2>3 DEF get_command
  <2>5. Asks(c) = [type |-> "Move", param |-> k]
    BY <2>1 DEF Asks, k
  <2> QED
    BY <2>3, <2>4, <2>5 DEF m
<1>2. ASSUME NEW lobby, c = [type |-> "START_GAME", lobby |-> lobby]
      PROVE  get_command(send_event(c)) = Took(Asks(c), Len(send_event(c)))
  <2>2. m = <<<<1, 34>>, <<4, lobby>>>>
    BY <1>2 DEF send_event, One, Four
  <2> HIDE DEF m
  <2>3. Len(m) = 2 /\ Read(m, 1, 1) = 34 /\ Read(m, 2, 4) = lobby
    BY <2>2 DEF Read
  <2>4. get_command(m) = Took([type |-> "StartLobby", lobby |-> lobby], 2)
    BY <2>3 DEF get_command
  <2>5. Asks(c) = [type |-> "StartLobby", lobby |-> lobby]
    BY <1>2 DEF Asks
  <2> QED
    BY <2>3, <2>4, <2>5 DEF m
<1>3. ASSUME NEW upgrade, c = [type |-> "UPGRADES", upgrade |-> upgrade]
      PROVE  get_command(send_event(c)) = Took(Asks(c), Len(send_event(c)))
  <2>2. m = <<<<1, 51>>, <<1, upgrade>>>>
    BY <1>3 DEF send_event, One
  <2> HIDE DEF m
  <2>3. Len(m) = 2 /\ Read(m, 1, 1) = 51 /\ Read(m, 2, 1) = upgrade
    BY <2>2 DEF Read
  <2>4. get_command(m) = Took([type |-> "Upgrade", param |-> upgrade], 2)
    BY <2>3 DEF get_command
  <2>5. Asks(c) = [type |-> "Upgrade", param |-> upgrade]
    BY <1>3 DEF Asks
  <2> QED
    BY <2>3, <2>4, <2>5 DEF m
<1>4. CASE c = [type |-> "LEAVE_LOBBY"]
  <2>2. m = <<<<1, 52>>>>
    BY <1>4 DEF send_event, One
  <2> HIDE DEF m
  <2>3. Len(m) = 1 /\ Read(m, 1, 1) = 52
    BY <2>2 DEF Read
  <2>4. get_command(m) = Took([type |-> "Disconect"], 1)
    BY <2>3 DEF get_command
  <2>5. Asks(c) = [type |-> "Disconect"]
    BY <1>4 DEF Asks
  <2> QED
    BY <2>3, <2>4, <2>5 DEF m
<1> QED
  BY <1>1, <1>2, <1>3, <1>4

\* The same of the question for a lobby that is there.
LEMMA JoinFaithful ==
  ASSUME NEW lobby, NEW c, c = [type |-> "JOIN_LOBBY", lobby |-> lobby, model |-> 3, name |-> Name]
  PROVE  get_command(send_event(c)) = Took(Asks(c), Len(send_event(c)))
<1> DEFINE m == send_event(c)
           w == NameLength[Name]
<1>1. m = <<<<1, 23>>, <<4, lobby>>, <<1, 3>>>> \o <<<<2, w>>, <<w, Name>>>>
  BY Zenon DEF send_event, send_join_lobby, One, Two, Four, String
<1> DEFINE head == <<<<1, 23>>, <<4, lobby>>, <<1, 3>>>>
           name == <<<<2, w>>, <<w, Name>>>>
           E == {<<1, 23>>, <<4, lobby>>, <<1, 3>>, <<2, w>>, <<w, Name>>}
<1> HIDE DEF m, w
<1>2. /\ head \in Seq(E) /\ Len(head) = 3 /\ head[1] = <<1, 23>> /\ head[2] = <<4, lobby>> /\ head[3] = <<1, 3>>
      /\ name \in Seq(E) /\ Len(name) = 2 /\ name[1] = <<2, w>> /\ name[2] = <<w, Name>>
  OBVIOUS
<1>6. m = head \o name
  BY <1>1
<1> HIDE DEF head, name, E
<1>7. head \in Seq(E) /\ name \in Seq(E)
  BY <1>2
<1>8. /\ m \in Seq(E) /\ Len(m) = Len(head) + Len(name)
      /\ \A i \in 1 .. Len(head) : m[i] = head[i]
      /\ \A i \in 1 .. Len(name) : m[Len(head) + i] = name[i]
  BY <1>6, <1>7, ConcatAt
<1>9. /\ Len(m) = 5 /\ DOMAIN m = 1 .. 5 /\ m[1] = <<1, 23>> /\ m[2] = <<4, lobby>> /\ m[3] = <<1, 3>>
      /\ m[4] = <<2, w>> /\ m[5] = <<w, Name>>
  <2>1. 3 + 1 = 4 /\ 3 + 2 = 5 /\ 1 \in 1 .. 3 /\ 2 \in 1 .. 3 /\ 3 \in 1 .. 3 /\ 1 \in 1 .. 2 /\ 2 \in 1 .. 2
    OBVIOUS
  <2>2. DOMAIN m = 1 .. Len(m)
    BY <1>8, LenProperties
  <2> QED
    BY <2>1, <2>2, <1>2, <1>8
<1>3. /\ Len(m) = 5 /\ Read(m, 1, 1) = 23 /\ Read(m, 2, 4) = lobby /\ Read(m, 3, 1) = 3
      /\ Read(m, 4, 2) = w /\ Read(m, 5, w) = Name
  BY <1>9 DEF Read
<1>4. get_command(m) = Took([type |-> "JoinLobby", lobby |-> lobby, model |-> 3, name |-> Name], 5)
  <2> HIDE DEF w
  <2>1. ReadString(m, 4) = Name
    BY <1>3 DEF ReadString
  <2>2. get_command(m) = get_command_join_lobby(m)
    BY <1>3 DEF get_command
  <2> QED
    BY <1>3, <2>1, <2>2 DEF get_command_join_lobby
<1>5. Asks(c) = [type |-> "JoinLobby", lobby |-> lobby, model |-> 3, name |-> Name]
  BY DEF Asks
<1> QED
  BY <1>3, <1>4, <1>5 DEF m

\* The maps that are checked, in the order of the folder.
Lists(f, checked, n) ==
  f = [i \in 0 .. n |-> IF i = 0 THEN <<>>
                        ELSE IF Folder[i] \in checked THEN Append(f[i - 1], Folder[i]) ELSE f[i - 1]]

\* The equation of selectedMapFiles has a solution.
LEMMA ListExists ==
  ASSUME NEW checked
  PROVE  \E f \in [0 .. Len(Folder) -> Seq(DOMAIN NameLength)] : Lists(f, checked, Len(Folder))
<1> DEFINE names == DOMAIN NameLength
           S == {n \in Nat : n <= Len(Folder) => \E f \in [0 .. n -> Seq(names)] : Lists(f, checked, n)}
<1>0. Len(Folder) \in Nat /\ \A i \in 1 .. Len(Folder) : Folder[i] \in names
  BY SamplesAssumption, LenProperties
<1>1. 0 \in S
  <2> DEFINE f == [i \in 0 .. 0 |-> <<>>]
  <2>1. f \in [0 .. 0 -> Seq(names)]
    OBVIOUS
  <2>2. f = [i \in 0 .. 0 |-> IF i = 0 THEN <<>>
                              ELSE IF Folder[i] \in checked THEN Append(f[i - 1], Folder[i]) ELSE f[i - 1]]
    OBVIOUS
  <2> HIDE DEF f
  <2>3. Lists(f, checked, 0)
    BY <2>2 DEF Lists
  <2> QED
    BY <2>1, <2>3
<1>2. ASSUME NEW n \in Nat, n \in S PROVE n + 1 \in S
  <2> SUFFICES ASSUME n + 1 <= Len(Folder) PROVE \E f \in [0 .. n + 1 -> Seq(names)] : Lists(f, checked, n + 1)
    OBVIOUS
  <2>1. PICK f \in [0 .. n -> Seq(names)] : Lists(f, checked, n)
    BY <1>0, <1>2
  <2> DEFINE more == IF Folder[n + 1] \in checked THEN Append(f[n], Folder[n + 1]) ELSE f[n]
             g == [i \in 0 .. n + 1 |-> IF i <= n THEN f[i] ELSE more]
  <2>2. f[n] \in Seq(names) /\ Folder[n + 1] \in names
    BY <1>0
  <2>3. more \in Seq(names)
    BY <2>2, AppendProperties
  <2> HIDE DEF more
  <2>4. g \in [0 .. n + 1 -> Seq(names)]
    BY <2>3
  <2>5. \A i \in 0 .. n : f[i] = IF i = 0 THEN <<>>
                                 ELSE IF Folder[i] \in checked THEN Append(f[i - 1], Folder[i]) ELSE f[i - 1]
    BY <2>1 DEF Lists
  <2>6. ASSUME NEW i \in 0 .. n + 1
        PROVE g[i] = IF i = 0 THEN <<>>
                     ELSE IF Folder[i] \in checked THEN Append(g[i - 1], Folder[i]) ELSE g[i - 1]
    <3>1. CASE i <= n
      <4>1. i \in 0 .. n /\ (i # 0 => i - 1 \in 0 .. n)
        BY <3>1
      <4>2. g[i] = f[i] /\ (i # 0 => g[i - 1] = f[i - 1])
        BY <4>1
      <4>3. f[i] = IF i = 0 THEN <<>>
                   ELSE IF Folder[i] \in checked THEN Append(f[i - 1], Folder[i]) ELSE f[i - 1]
        BY <4>1, <2>5
      <4> QED
        BY <4>2, <4>3, Zenon
    <3>2. CASE ~(i <= n)
      <4>1. i = n + 1 /\ i # 0 /\ i - 1 = n /\ n \in 0 .. n + 1 /\ n <= n
        BY <3>2
      <4>2. g[i] = more /\ g[i - 1] = f[n]
        BY <4>1
      <4> HIDE DEF g
      <4> QED
        BY <4>1, <4>2 DEF more
    <3> QED
      BY <3>1, <3>2
  <2>7. Lists(g, checked, n + 1)
    <3> HIDE DEF g
    <3>1. g = [i \in 0 .. n + 1 |-> g[i]]
      BY <2>4
    <3>2. g = [i \in 0 .. n + 1 |-> IF i = 0 THEN <<>>
                        ELSE IF Folder[i] \in checked THEN Append(g[i - 1], Folder[i]) ELSE g[i - 1]]
      BY <3>1, <2>6
    <3> QED
      BY <3>2 DEF Lists
  <2> HIDE DEF g
  <2> QED
    BY <2>4, <2>7
<1>3. Len(Folder) \in S
  <2> HIDE DEF S
  <2> QED
    BY <1>0, <1>1, <1>2, FromZero
<1> HIDE DEF names
<1>4. \E f \in [0 .. Len(Folder) -> Seq(names)] : Lists(f, checked, Len(Folder))
  BY <1>3, <1>0
<1> QED
  BY <1>4 DEF names

\* It is a sequence of names.
LEMMA MapsListed ==
  ASSUME NEW checked
  PROVE  selectedMapFiles(checked) \in Seq(DOMAIN NameLength)
<1> DEFINE n == Len(Folder)
           names == DOMAIN NameLength
           Eq(g) == g = [i \in 0 .. n |-> IF i = 0 THEN <<>>
                        ELSE IF Folder[i] \in checked THEN Append(g[i - 1], Folder[i]) ELSE g[i - 1]]
           it == CHOOSE g : Eq(g)
<1>1. \E f : Eq(f)
  <2>1. PICK f : Lists(f, checked, n)
    BY ListExists
  <2> QED
    BY <2>1 DEF Lists
<1>2. Eq(it)
  <2> HIDE DEF Eq
  <2> QED
    BY <1>1
<1>3. selectedMapFiles(checked) = it[n]
  BY Zenon DEF selectedMapFiles
<1>4. n \in Nat /\ \A i \in 1 .. n : Folder[i] \in names
  BY SamplesAssumption, LenProperties
<1> HIDE DEF it
<1>5. \A i \in 0 .. n : it[i] = IF i = 0 THEN <<>>
                        ELSE IF Folder[i] \in checked THEN Append(it[i - 1], Folder[i]) ELSE it[i - 1]
  BY <1>2
<1> HIDE DEF Eq
<1> DEFINE S == {k \in Nat : k <= n => it[k] \in Seq(names)}
<1>6. 0 \in S
  <2>1. it[0] = <<>> /\ <<>> \in Seq(names)
    BY <1>4, <1>5
  <2> QED
    BY <2>1
<1>7. ASSUME NEW k \in Nat, k \in S PROVE k + 1 \in S
  <2> SUFFICES ASSUME k + 1 <= n PROVE it[k + 1] \in Seq(names)
    OBVIOUS
  <2>1. k + 1 \in 0 .. n /\ k + 1 # 0 /\ k + 1 - 1 = k /\ it[k] \in Seq(names) /\ Folder[k + 1] \in names
    BY <1>4, <1>7
  <2>2. it[k + 1] = IF Folder[k + 1] \in checked THEN Append(it[k], Folder[k + 1]) ELSE it[k]
    BY <2>1, <1>5
  <2>3. Append(it[k], Folder[k + 1]) \in Seq(names)
    BY <2>1, AppendProperties
  <2> QED
    BY <2>1, <2>2, <2>3
<1>8. n \in S
  <2> HIDE DEF S
  <2> QED
    BY <1>4, <1>6, <1>7, FromZero
<1> QED
  BY <1>3, <1>4, <1>8

-----------------------------------------------------------------------------
\* The question for a new lobby is read as it was meant, with all of its maps.
LEMMA CreateFaithful ==
  ASSUME NEW maps \in Seq(DOMAIN NameLength), NEW c,
         c = [type |-> "CREATE_LOBBY", model |-> 3, name |-> Name, maps |-> maps]
  PROVE  get_command(send_event(c)) = Took(Asks(c), Len(send_event(c)))
<1> DEFINE m == send_event(c)
           w == NameLength[Name]
           n == Len(maps)
           first == <<<<1, 22>>, <<1, 3>>>>
           second == <<<<2, w>>, <<w, Name>>>>
           third == <<<<2, n>>>>
           head == (first \o second) \o third
           s == [i \in DOMAIN maps |-> SendMap(maps[i])]
           t == FlattenSeq(s)
<1>1. n \in Nat /\ DOMAIN maps = 1 .. n /\ \A i \in 1 .. n : maps[i] \in DOMAIN NameLength
  BY LenProperties
<1>2. m = head \o t
  BY Zenon DEF send_event, send_create_lobby, Joined, One, Two, String
<1>3. w \in Int /\ Name \in DOMAIN NameLength
  BY SamplesAssumption, NamesAssumption
<1>4. first \in Seq(AllFields) /\ second \in Seq(AllFields) /\ third \in Seq(AllFields)
  <2> HIDE DEF n, w
  <2>1. /\ <<1, 22>> \in AllFields /\ <<1, 3>> \in AllFields /\ <<2, w>> \in AllFields
        /\ <<w, Name>> \in AllFields /\ <<2, n>> \in AllFields
    BY <1>1, <1>3 DEF AllFields
  <2> QED
    BY <2>1
<1>5. /\ Len(first) = 2 /\ first[1] = <<1, 22>> /\ first[2] = <<1, 3>>
      /\ Len(second) = 2 /\ second[1] = <<2, w>> /\ second[2] = <<w, Name>>
      /\ Len(third) = 1 /\ third[1] = <<2, n>>
  OBVIOUS
<1>6. s \in Seq(Seq(AllFields)) /\ Len(s) = n /\ \A i \in 1 .. n : Len(s[i]) = 2 /\
        s[i] = <<<<2, NameLength[maps[i]]>>, <<NameLength[maps[i]], maps[i]>>>>
  <2>1. ASSUME NEW i \in 1 .. n
        PROVE  /\ SendMap(maps[i]) = <<<<2, NameLength[maps[i]]>>, <<NameLength[maps[i]], maps[i]>>>>
               /\ SendMap(maps[i]) \in Seq(AllFields)
    <3>1. maps[i] \in DOMAIN NameLength /\ NameLength[maps[i]] \in Int
      BY <1>1, NamesAssumption
    <3>2. SendMap(maps[i]) = <<<<2, NameLength[maps[i]]>>, <<NameLength[maps[i]], maps[i]>>>>
      BY DEF SendMap, String, Two
    <3>3. <<2, NameLength[maps[i]]>> \in AllFields /\ <<NameLength[maps[i]], maps[i]>> \in AllFields
      BY <3>1 DEF AllFields
    <3> QED
      BY <3>2, <3>3
  <2>2. s = [i \in 1 .. n |-> SendMap(maps[i])]
    BY <1>1
  <2>3. \A i \in 1 .. n : SendMap(maps[i]) \in Seq(AllFields)
    BY <2>1
  <2>4. s \in Seq(Seq(AllFields)) /\ Len(s) = n
    BY <2>2, <2>3, <1>1
  <2>5. ASSUME NEW i \in 1 .. n
        PROVE  s[i] = <<<<2, NameLength[maps[i]]>>, <<NameLength[maps[i]], maps[i]>>>> /\ Len(s[i]) = 2
    <3>1. s[i] = SendMap(maps[i])
      BY <2>2
    <3>2. s[i] = <<<<2, NameLength[maps[i]]>>, <<NameLength[maps[i]], maps[i]>>>>
      BY <3>1, <2>1
    <3> QED
      BY <3>2
  <2> QED
    BY <2>4, <2>5
<1>7. /\ t \in Seq(AllFields) /\ Len(t) = 2 * n
      /\ \A i \in 1 .. n : HasAt(t, 2 * (i - 1) + 1, s[i])
  <2> HIDE DEF s
  <2>1. s \in Seq(Seq(AllFields)) /\ 2 \in {2, 3, 5, 6} /\ \A i \in 1 .. Len(s) : Len(s[i]) = 2
    BY <1>6
  <2>2. t \in Seq(AllFields) /\ Len(t) = 2 * Len(s) /\ \A i \in 1 .. Len(s) : HasAt(t, 2 * (i - 1) + 1, s[i])
    BY <2>1, EvenPieces
  <2> QED
    BY <2>2, <1>6
<1> HIDE DEF m, first, second, third, s, t, w
<1>8. /\ head \in Seq(AllFields) /\ Len(head) = 5 /\ head[1] = <<1, 22>> /\ head[2] = <<1, 3>>
      /\ head[3] = <<2, w>> /\ head[4] = <<w, Name>> /\ head[5] = <<2, n>>
  <2> DEFINE both == first \o second
  <2>1. first \in Seq(AllFields) /\ second \in Seq(AllFields)
    BY <1>4
  <2>2. /\ both \in Seq(AllFields) /\ Len(both) = Len(first) + Len(second)
        /\ \A i \in 1 .. Len(first) : both[i] = first[i]
        /\ \A i \in 1 .. Len(second) : both[Len(first) + i] = second[i]
    BY <2>1, ConcatAt
  <2> HIDE DEF both
  <2>3. both \in Seq(AllFields) /\ third \in Seq(AllFields)
    BY <2>2, <1>4
  <2>4. head = both \o third
    BY DEF both
  <2> HIDE DEF head
  <2>5. /\ head \in Seq(AllFields) /\ Len(head) = Len(both) + Len(third)
        /\ \A i \in 1 .. Len(both) : head[i] = both[i]
        /\ \A i \in 1 .. Len(third) : head[Len(both) + i] = third[i]
    BY <2>3, <2>4, ConcatAt
  <2>6. 2 + 1 = 3 /\ 2 + 2 = 4 /\ 4 + 1 = 5 /\ 1 \in 1 .. 2 /\ 2 \in 1 .. 2 /\ 1 \in 1 .. 1
    OBVIOUS
  <2>7. Len(both) = 4 /\ both[1] = first[1] /\ both[2] = first[2] /\ both[3] = second[1] /\ both[4] = second[2]
    BY <2>2, <2>6, <1>5
  <2>8. 1 \in 1 .. 4 /\ 2 \in 1 .. 4 /\ 3 \in 1 .. 4 /\ 4 \in 1 .. 4
    OBVIOUS
  <2>9. /\ Len(head) = 5 /\ head[1] = both[1] /\ head[2] = both[2] /\ head[3] = both[3] /\ head[4] = both[4]
        /\ head[5] = third[1]
    BY <2>5, <2>6, <2>7, <2>8, <1>5
  <2> QED
    BY <2>5, <2>7, <2>9, <1>5
<1> HIDE DEF head
<1>9. /\ m \in Seq(AllFields) /\ Len(m) = 5 + 2 * n /\ HasAt(m, 1, head) /\ HasAt(m, 6, t)
  <2>1. head \in Seq(AllFields) /\ t \in Seq(AllFields)
    BY <1>7, <1>8
  <2>2. /\ m \in Seq(AllFields) /\ Len(m) = Len(head) + Len(t)
        /\ HasAt(m, 1, head) /\ HasAt(m, Len(head) + 1, t)
    BY <2>1, <1>2, HasPieces
  <2>3. 5 + 1 = 6
    OBVIOUS
  <2> QED
    BY <2>2, <2>3, <1>7, <1>8
<1>m. m \in Seq(AllFields)
  BY <1>9
<1>10. /\ Read(m, 1, 1) = 22 /\ Read(m, 2, 1) = 3 /\ Read(m, 3, 2) = w /\ Read(m, 4, w) = Name /\ Read(m, 5, 2) = n
  <2>1. /\ Len(head) \in Nat /\ 1 \in 1 .. Len(head) /\ 2 \in 1 .. Len(head) /\ 3 \in 1 .. Len(head)
        /\ 4 \in 1 .. Len(head) /\ 5 \in 1 .. Len(head)
    BY <1>8
  <2>2. HasAt(m, 1, head)
    BY <1>9
  <2>3. ASSUME NEW j \in 1 .. Len(head), NEW width, NEW v, head[j] = <<width, v>> PROVE Read(m, 1 + j - 1, width) = v
    <3>1. 1 \in Int /\ Len(head) \in Nat
      BY <2>1
    <3> QED
      BY <3>1, <2>2, <2>3, <1>m, ReadHas
  <2>4. Read(m, 1 + 1 - 1, 1) = 22 /\ Read(m, 1 + 2 - 1, 1) = 3
    BY <2>1, <2>3, <1>8
  <2>5. Read(m, 1 + 3 - 1, 2) = w /\ Read(m, 1 + 4 - 1, w) = Name
    BY <2>1, <2>3, <1>8
  <2>6. Read(m, 1 + 5 - 1, 2) = n
    <3> HIDE DEF n
    <3>1. 5 \in 1 .. Len(head) /\ head[5] = <<2, n>>
      BY <2>1, <1>8
    <3> QED
      BY <3>1, <2>3
  <2>8. 1 + 1 - 1 = 1 /\ 1 + 2 - 1 = 2 /\ 1 + 3 - 1 = 3 /\ 1 + 4 - 1 = 4 /\ 1 + 5 - 1 = 5
    OBVIOUS
  <2> QED
    BY <2>4, <2>5, <2>6, <2>8
<1>11. ASSUME NEW i \in 1 .. n PROVE ReadString(m, 6 + 2 * (i - 1)) = maps[i]
  <2> DEFINE at == 6 + 2 * (i - 1)
             v == NameLength[maps[i]]
  <2>1. HasAt(t, 2 * (i - 1) + 1, s[i]) /\ Len(s[i]) = 2 /\ s[i] = <<<<2, v>>, <<v, maps[i]>>>>
    BY <1>6, <1>7
  <2>2. s[i][1] = <<2, v>> /\ s[i][2] = <<v, maps[i]>>
    BY <2>1
  <2>3. /\ i \in Int /\ 2 * (i - 1) + 1 \in Int /\ at \in Int /\ 6 + (2 * (i - 1) + 1) - 1 = at
        /\ Len(s[i]) \in Nat /\ Len(t) \in Nat
    BY <2>1, <1>1, <1>7
  <2> HIDE DEF v
  <2>4. HasAt(m, at, s[i])
    <3> DEFINE q == 2 * (i - 1) + 1
               x == s[i]
    <3>1. q \in Int /\ 6 \in Int /\ Len(x) \in Nat /\ Len(t) \in Nat /\ HasAt(t, q, x) /\ HasAt(m, 6, t)
          /\ at = 6 + q - 1
      BY <2>1, <2>3, <1>9
    <3> HIDE DEF q, x, at
    <3>2. HasAt(m, 6 + q - 1, x)
      BY <3>1, HasWithin
    <3> QED
      BY <3>1, <3>2 DEF x
  <2> DEFINE x == s[i]
  <2>5. HasAt(m, at, x) /\ Len(x) = 2 /\ Len(x) \in Nat /\ x[1] = <<2, v>> /\ x[2] = <<v, maps[i]>>
        /\ at \in Int /\ 1 \in 1 .. Len(x) /\ 2 \in 1 .. Len(x)
    BY <2>1, <2>2, <2>3, <2>4
  <2> HIDE DEF x, at
  <2>6. Read(m, at + 1 - 1, 2) = v
    BY <2>5, <1>m, ReadHas
  <2>7. Read(m, at + 2 - 1, v) = maps[i]
    BY <2>5, <1>m, ReadHas
  <2>8. at + 1 - 1 = at /\ at + 2 - 1 = at + 1
    BY <2>5
  <2>9. ReadString(m, at) = maps[i]
    BY <2>6, <2>7, <2>8 DEF ReadString
  <2> QED
    BY <2>9 DEF at
<1>12. ReadCount(m, 5) = n /\ ReadString(m, 3) = Name
  <2>1. 3 + 1 = 4
    OBVIOUS
  <2> QED
    BY <1>1, <1>10, <2>1 DEF ReadCount, ReadString
<1>13. [i \in 1 .. n |-> ReadString(m, 6 + 2 * (i - 1))] = maps
  <2>1. maps = [i \in 1 .. n |-> maps[i]]
    BY <1>1
  <2> QED
    BY <2>1, <1>11
<1> HIDE DEF n
<1>14. get_command(m) = Took([type |-> "CreateLobby", model |-> 3, name |-> Name, maps |-> maps], 5 + 2 * n)
  <2>1. get_command(m) = get_command_create_lobby(m)
    BY <1>10 DEF get_command
  <2>2. get_command_create_lobby(m) =
          Took([type |-> "CreateLobby", model |-> 3, name |-> Name,
                maps |-> [i \in 1 .. n |-> ReadString(m, 6 + 2 * (i - 1))]], 5 + 2 * n)
    BY <1>10, <1>12, Zenon DEF get_command_create_lobby
  <2> QED
    BY <2>1, <2>2, <1>13
<1>15. Asks(c) = [type |-> "CreateLobby", model |-> 3, name |-> Name, maps |-> maps]
  BY DEF Asks
<1> QED
  BY <1>9, <1>14, <1>15 DEF m

\* Every command the client writes is read as it was meant, to its last byte.
LEMMA CommandFaithful ==
  ASSUME NEW c \in Messages
  PROVE  get_command(send_event(c)) = Took(Asks(c), Len(send_event(c)))
<1>1. CASE c \in [type : {"CREATE_LOBBY"}, model : {3}, name : {Name}, maps : {selectedMapFiles(k) : k \in Checked}]
  <2>1. PICK k \in Checked :
          c = [type |-> "CREATE_LOBBY", model |-> 3, name |-> Name, maps |-> selectedMapFiles(k)]
    BY <1>1
  <2> DEFINE maps == selectedMapFiles(k)
  <2>2. maps \in Seq(DOMAIN NameLength)
    BY MapsListed
  <2>3. c = [type |-> "CREATE_LOBBY", model |-> 3, name |-> Name, maps |-> maps]
    BY <2>1
  <2> HIDE DEF maps
  <2> QED
    BY <2>2, <2>3, CreateFaithful
<1>2. CASE c \in [type : {"JOIN_LOBBY"}, lobby : TypedCodes, model : {3}, name : {Name}]
  <2>1. PICK lobby \in TypedCodes : c = [type |-> "JOIN_LOBBY", lobby |-> lobby, model |-> 3, name |-> Name]
    BY <1>2
  <2> QED
    BY <2>1, JoinFaithful
<1>3. CASE c \in [type : {"START_GAME"}, lobby : Codes]
  <2>1. PICK lobby \in Codes : c = [type |-> "START_GAME", lobby |-> lobby]
    BY <1>3
  <2> QED
    BY <2>1, ShortCommands
<1>4. CASE c \in [type : {"SEND_KEY"}, key : {"w", "no_w"}]
  BY <1>4, ShortCommands
<1>5. CASE c \in [type : {"UPGRADES"}, upgrade : Upgrades \cup {0}]
  <2>1. PICK upgrade \in Upgrades \cup {0} : c = [type |-> "UPGRADES", upgrade |-> upgrade]
    BY <1>5
  <2> QED
    BY <2>1, ShortCommands
<1>6. CASE c \in [type : {"LEAVE_LOBBY"}]
  <2>1. c = [type |-> "LEAVE_LOBBY"]
    BY <1>6
  <2> QED
    BY <2>1, ShortCommands
<1> QED
  BY <1>1, <1>2, <1>3, <1>4, <1>5, <1>6, Zenon DEF Messages, ClientMessages

-----------------------------------------------------------------------------
\* Whatever happens to the connection and to the windows, what is under way is
\* what the two programs write.
Wired ==
  /\ toClient \in Seq(ServerEvents) /\ toServer \in Seq(Messages) /\ inbox \in Seq(ClientEvents)
  /\ code \in Codes /\ current_upgrade \in Upgrades \cup {0}
  /\ round \in Nat /\ shown \in 0 .. Tables

\* Of a queue the client only ever drops what comes first.
Dropped(s, t) ==
  t = s \/ (s # <<>> /\ t = Tail(s)) \/ \E n \in 0 .. Len(s) : t = SubSeq(s, n + 1, Len(s))

\* What is left of a queue is a queue of the same events, and no longer.
LEMMA DroppedSeq ==
  ASSUME NEW E, NEW s \in Seq(E), NEW t, Dropped(s, t)
  PROVE  t \in Seq(E) /\ Len(t) <= Len(s)
<1>1. Len(s) \in Nat
  BY LenProperties
<1>2. CASE t = s
  BY <1>1, <1>2
<1>3. CASE s # <<>> /\ t = Tail(s)
  BY <1>1, <1>3, HeadTailProperties
<1>4. ASSUME NEW n \in 0 .. Len(s), t = SubSeq(s, n + 1, Len(s)) PROVE t \in Seq(E) /\ Len(t) <= Len(s)
  <2>1. n + 1 \in 1 .. Len(s) + 1 /\ Len(s) \in n .. Len(s)
    BY <1>1
  <2>2. n + 1 \in Int /\ Len(s) \in Int /\ n \in Nat
    BY <1>1
  <2>3. t \in Seq(E) /\ Len(t) = IF n + 1 <= Len(s) THEN Len(s) - (n + 1) + 1 ELSE 0
    <3>1. \A i \in n + 1 .. Len(s) : i \in 1 .. Len(s)
      BY <2>2
    <3>2. \A i \in n + 1 .. Len(s) : s[i] \in E
      BY <3>1, ElementOfSeq
    <3> QED
      BY <1>4, <2>1, <3>1, <3>2, SubSeqProperties
  <2> QED
    BY <2>2, <2>3
<1> QED
  BY <1>2, <1>3, <1>4 DEF Dropped

\* The event that stands for the end of the stream.
LEMMA ErrorHeard == [type |-> "ERROR"] \in ClientEvents
<1> DEFINE ev == [type |-> "refused"]
           e == receive_event(Send(ev)).event
<1>1. ev \in ServerEvents
  BY EventsSaid
<1>2. Means(ev) = [type |-> "ERROR"]
  BY DEF Means
<1> HIDE DEF ev
<1>3. Seen(e) = [type |-> "ERROR"]
  BY <1>1, <1>2, EventFaithful
<1>4. Seen(e).type = e.type
  BY EventsRead
<1> HIDE DEF e
<1>5. e.type = "ERROR"
  BY <1>3, <1>4
<1>6. Seen(e) = e
  BY <1>5 DEF Seen
<1>7. e \in ClientEvents
  BY <1>1 DEF ClientEvents, e
<1> QED
  BY <1>3, <1>6, <1>7

\* What a client writes is a message.
LEMMA MessagesPushed ==
  ASSUME toServer \in Seq(Messages), NEW c \in Messages, Push(c)
  PROVE  toServer' \in Seq(Messages)
BY AppendProperties DEF Push

\* What the server is left with when it took one.
LEMMA MessagesTaken ==
  ASSUME toServer \in Seq(Messages), Take
  PROVE  toServer' \in Seq(Messages) /\ Head(toServer) \in Messages
BY HeadTailProperties DEF Take

\* A step of the game says words of a race, and counts on.
LEMMA WordsSaid ==
  ASSUME round \in Nat, shown \in 0 .. Tables, Steps
  PROVE  said' \in Seq(RaceMessages) /\ round' \in Nat /\ shown' \in 0 .. Tables
<1>1. \A w \in RaceMessages : <<w>> \in Seq(RaceMessages)
  OBVIOUS
<1>2. /\ "pregame" \in RaceMessages /\ "snapshot" \in RaceMessages /\ "results" \in RaceMessages
      /\ "phase" \in RaceMessages /\ "final_results" \in RaceMessages
  BY DEF RaceMessages
<1>3. CASE OpenRace \/ TSnapshot \/ CloseRace \/ OfferUpgrades \/ CollectUpgrades \/ CloseLastRace
  <2>1. /\ said' \in {<<>>, <<"pregame">>, <<"snapshot">>, <<"results">>, <<"phase">>}
        /\ shown' = shown /\ round' \in {round, round + 1}
    BY <1>3 DEF OpenRace, TSnapshot, CloseRace, OfferUpgrades, CollectUpgrades, CloseLastRace
  <2>2. <<>> \in Seq(RaceMessages)
    OBVIOUS
  <2>3. said' \in Seq(RaceMessages)
    BY <1>1, <1>2, <2>1, <2>2, Zenon
  <2> QED
    BY <2>1, <2>3
<1>4. CASE ShowTables
  <2>1. PICK n \in 0 .. Tables - shown :
          /\ shown' = shown + n /\ round' = round
          /\ \/ said' = [i \in 1 .. n |-> "final_results"]
             \/ said' = Append([i \in 1 .. n |-> "final_results"], "phase")
    BY <1>4 DEF ShowTables
  <2> DEFINE s == [i \in 1 .. n |-> "final_results"]
  <2>2. Tables \in Nat
    BY ClientAssumption
  <2>3. n \in Nat /\ shown' \in 0 .. Tables
    BY <2>1, <2>2
  <2>4. s \in Seq(RaceMessages)
    BY <2>3, <1>2, IsASeq
  <2> HIDE DEF s
  <2>5. Append(s, "phase") \in Seq(RaceMessages)
    BY <2>4, <1>2, AppendProperties
  <2> QED
    BY <2>1, <2>3, <2>4, <2>5 DEF s
<1> QED
  BY <1>3, <1>4 DEF Steps

\* The server writes events, takes messages and leaves the client's side alone.
LEMMA ServerWired ==
  ASSUME Wired, Server
  PROVE  /\ toClient' \in Seq(ServerEvents) /\ toServer' \in Seq(Messages)
         /\ round' \in Nat /\ shown' \in 0 .. Tables /\ UNCHANGED cvars
<1>1. /\ toClient \in Seq(ServerEvents) /\ toServer \in Seq(Messages)
      /\ round \in Nat /\ shown \in 0 .. Tables /\ 0 \in Nat /\ 0 \in 0 .. Tables
  BY ClientAssumption DEF Wired
<1>2. ASSUME NEW events \in Seq(ServerEvents), SendEvents(events) PROVE toClient' \in Seq(ServerEvents)
  BY <1>1, <1>2, ConcatProperties DEF SendEvents
<1>3. /\ \A t \in {"accepted", "refused", "start", "phase"} : [type |-> t] \in ServerEvents
      /\ LobbyEvent(2) \in ServerEvents /\ LobbyEvent(1) \in ServerEvents
  BY EventsSaid, Zenon DEF ServerEvents
<1>4. CASE ServeSeat
  <2>1. /\ Take /\ round' = 0 /\ shown' = 0 /\ UNCHANGED cvars
        /\ SendEvents(<<[type |-> "accepted"], LobbyEvent(1)>>)
    BY <1>4 DEF ServeSeat, NewTournament
  <2>2. [type |-> "accepted"] \in ServerEvents /\ LobbyEvent(1) \in ServerEvents
    BY <1>3
  <2>3. <<[type |-> "accepted"], LobbyEvent(1)>> \in Seq(ServerEvents)
    BY <2>2
  <2> QED
    BY <2>1, <2>3, <1>1, <1>2, MessagesTaken
<1>5. CASE ServeRefusal
  <2>1. /\ Take /\ UNCHANGED <<svars, cvars>> /\ SendEvents(<<[type |-> "refused"]>>)
    BY <1>5 DEF ServeRefusal
  <2>2. [type |-> "refused"] \in ServerEvents
    BY <1>3
  <2>3. <<[type |-> "refused"]>> \in Seq(ServerEvents)
    BY <2>2
  <2>4. round' = round /\ shown' = shown
    BY <2>1 DEF svars, tvars
  <2> QED
    BY <2>1, <2>3, <2>4, <1>1, <1>2, MessagesTaken
<1>6. CASE ServeStart \/ OtherStarts
  <2>1. /\ UNCHANGED <<tvars, cvars>> /\ (Take \/ UNCHANGED toServer)
        /\ SendEvents(<<[type |-> "start"]>>) \/ UNCHANGED toClient
    BY <1>6, Zenon DEF ServeStart, OtherStarts, StartLobby, svars
  <2>2. [type |-> "start"] \in ServerEvents
    BY <1>3
  <2>3. <<[type |-> "start"]>> \in Seq(ServerEvents)
    BY <2>2
  <2>4. round' = round /\ shown' = shown
    BY <2>1 DEF tvars
  <2>5. toClient' \in Seq(ServerEvents)
    BY <2>1, <2>3, <1>1, <1>2
  <2>6. toServer' \in Seq(Messages)
    BY <2>1, <1>1, MessagesTaken
  <2> QED
    BY <2>1, <2>4, <2>5, <2>6, <1>1
<1>7. CASE ServeLeave \/ ServeMove \/ ServeUpgrade
  <2>1. Take /\ UNCHANGED <<toClient, tvars, cvars>>
    BY <1>7 DEF ServeLeave, ServeMove, ServeUpgrade
  <2>2. UNCHANGED <<toClient, round, shown>>
    BY <2>1 DEF tvars
  <2> QED
    BY <2>1, <2>2, <1>1, MessagesTaken
<1>8. CASE OtherJoins
  <2>1. /\ UNCHANGED <<svars, toServer, cvars>> /\ SendEvents(<<LobbyEvent(2)>>)
    BY <1>8 DEF OtherJoins
  <2>2. LobbyEvent(2) \in ServerEvents
    BY <1>3
  <2> DEFINE ev == LobbyEvent(2)
  <2> HIDE DEF ev
  <2>3. <<LobbyEvent(2)>> \in Seq(ServerEvents)
    <3>1. ev \in ServerEvents
      BY <2>2 DEF ev
    <3>2. <<ev>> \in Seq(ServerEvents)
      BY <3>1
    <3> QED
      BY <3>2 DEF ev
  <2>4. round' = round /\ shown' = shown
    BY <2>1 DEF svars, tvars
  <2> QED
    BY <2>1, <2>3, <2>4, <1>1, <1>2
<1>9. CASE GameStep
  <2> DEFINE evs == [i \in DOMAIN said' |-> RaceEvent(said'[i], i)]
  <2>1. Steps /\ SendEvents(evs) /\ UNCHANGED <<toServer, cvars>>
    BY <1>9 DEF GameStep, Steps
  <2>2. said' \in Seq(RaceMessages) /\ round' \in Nat /\ shown' \in 0 .. Tables
    BY <2>1, <1>1, WordsSaid
  <2>3. evs \in Seq(ServerEvents)
    BY <2>2, <1>1, RaceTypes DEF RaceMessages
  <2> HIDE DEF evs
  <2> QED
    BY <2>1, <2>2, <2>3, <1>1, <1>2
<1>10. CASE CountdownEnds
  <2>1. UNCHANGED <<tvars, wire, cvars>>
    BY <1>10 DEF CountdownEnds
  <2>2. UNCHANGED <<toClient, toServer, round, shown, cvars>>
    BY <2>1 DEF tvars, wire
  <2> QED
    BY <2>2, <1>1
<1>11. CASE Cut
  <2>1. PICK n \in 0 .. Len(toClient) : toClient' = SubSeq(toClient, 1, n)
    BY <1>11 DEF Cut
  <2>2. toServer' = <<>> /\ round' = 0 /\ shown' = 0 /\ UNCHANGED cvars
    BY <1>11 DEF Cut, NewTournament
  <2>3. Len(toClient) \in Nat
    BY <1>1, LenProperties
  <2>4. toClient' \in Seq(ServerEvents)
    <3>1. \A i \in 1 .. n : i \in 1 .. Len(toClient)
      BY <2>3
    <3>2. \A i \in 1 .. n : toClient[i] \in ServerEvents
      BY <3>1, <1>1, ElementOfSeq
    <3>3. 1 \in Int /\ n \in Int
      BY <2>3
    <3> QED
      BY <2>1, <3>1, <3>2, <3>3, <1>1, SubSeqProperties
  <2>5. <<>> \in Seq(Messages)
    OBVIOUS
  <2> QED
    BY <2>2, <2>4, <2>5, <1>1
<1> QED
  BY <1>4, <1>5, <1>6, <1>7, <1>8, <1>9, <1>10, <1>11 DEF Server, Serve

\* What a client's own step leaves under way.
ClientWires ==
  /\ Dropped(inbox, inbox') /\ toServer' \in Seq(Messages)
  /\ code' \in Codes /\ current_upgrade' \in Upgrades \cup {0}
  /\ UNCHANGED <<toClient, round, shown>>

\* Steps of the windows that write nothing.
LEMMA QuietWires ==
  ASSUME Wired, UNCHANGED <<svars, wire>>, Dropped(inbox, inbox'), code' \in Codes,
         current_upgrade' \in Upgrades \cup {0}
  PROVE  ClientWires
BY DEF ClientWires, Wired, svars, tvars, wire

\* Steps that write one message or none.
LEMMA PushWires ==
  ASSUME Wired, UNCHANGED <<svars, toClient>>, Dropped(inbox, inbox'), code' \in Codes,
         current_upgrade' \in Upgrades \cup {0}, NEW c \in Messages, Push(c) \/ UNCHANGED toServer
  PROVE  ClientWires
BY MessagesPushed DEF ClientWires, Wired, svars, tvars

\* The windows before the race.
LEMMA LobbiesWired ==
  ASSUME Wired,
         \/ ReceiveId \/ CreateLobby \/ JoinLobby \/ CreateWithoutMaps \/ HandleServerEvent \/ ClosePreLobby
         \/ ListenServer \/ LobbyAccepted \/ LobbyRejected \/ OnStartGame \/ OnExitLobby \/ CloseLobby
  PROVE  ClientWires
<1>1. code \in Codes /\ 0 \in Codes /\ current_upgrade \in Upgrades \cup {0} /\ inbox \in Seq(ClientEvents)
  BY DEF Wired, Codes
<1>2. CASE ReceiveId
  <2>1. /\ Dropped(inbox, inbox') /\ UNCHANGED <<svars, wire>> /\ code' = code /\ current_upgrade' = current_upgrade
    BY <1>2 DEF ReceiveId, racewindow, Dropped
  <2> QED
    BY <2>1, <1>1, QuietWires
<1>3. ASSUME NEW c \in Messages, Ask(c) PROVE ClientWires
  <2>1. /\ Push(c) /\ UNCHANGED <<svars, toClient>> /\ inbox' = inbox /\ code' = code
        /\ current_upgrade' = current_upgrade
    BY <1>3 DEF Ask, racewindow
  <2>2. Dropped(inbox, inbox')
    BY <2>1 DEF Dropped
  <2> QED
    BY <2>1, <2>2, <1>1, PushWires
<1>4. CASE CreateLobby
  <2>1. PICK checked \in Checked :
          Ask([type |-> "CREATE_LOBBY", model |-> 3, name |-> Name, maps |-> selectedMapFiles(checked)])
    BY <1>4 DEF CreateLobby
  <2> DEFINE maps == selectedMapFiles(checked)
             c == [type |-> "CREATE_LOBBY", model |-> 3, name |-> Name, maps |-> maps]
  <2>2. maps \in {selectedMapFiles(m) : m \in Checked}
    OBVIOUS
  <2>3. Ask(c)
    BY <2>1
  <2> HIDE DEF maps
  <2>4. c \in [type : {"CREATE_LOBBY"}, model : {3}, name : {Name}, maps : {selectedMapFiles(m) : m \in Checked}]
    BY <2>2
  <2> HIDE DEF c
  <2>5. c \in Messages
    BY <2>4, Zenon DEF Messages, ClientMessages
  <2> QED
    BY <2>3, <2>5, <1>3
<1>5. CASE JoinLobby
  <2>1. PICK k \in TypedCodes : Ask([type |-> "JOIN_LOBBY", lobby |-> k, model |-> 3, name |-> Name])
    BY <1>5 DEF JoinLobby
  <2> DEFINE c == [type |-> "JOIN_LOBBY", lobby |-> k, model |-> 3, name |-> Name]
  <2>2. c \in [type : {"JOIN_LOBBY"}, lobby : TypedCodes, model : {3}, name : {Name}]
    OBVIOUS
  <2>3. Ask(c)
    BY <2>1
  <2> HIDE DEF c
  <2>4. c \in Messages
    BY <2>2, Zenon DEF Messages, ClientMessages
  <2> QED
    BY <2>3, <2>4, <1>3
<1>6. CASE CreateWithoutMaps
  <2>1. UNCHANGED <<svars, wire>> /\ inbox' = inbox /\ code' = code /\ current_upgrade' = current_upgrade
    BY <1>6 DEF CreateWithoutMaps, racewindow
  <2>2. Dropped(inbox, inbox')
    BY <2>1 DEF Dropped
  <2> QED
    BY <2>1, <2>2, <1>1, QuietWires
<1>7. CASE HandleServerEvent
  <2>1. /\ Dropped(inbox, inbox') /\ UNCHANGED <<svars, wire>> /\ code' \in {0, code}
        /\ current_upgrade' = current_upgrade
    BY <1>7 DEF HandleServerEvent, racewindow, Dropped
  <2> QED
    BY <2>1, <1>1, QuietWires
<1>8. CASE ClosePreLobby
  <2>1. UNCHANGED <<svars, wire>> /\ inbox' = inbox /\ code' = code /\ current_upgrade' \in {0, current_upgrade}
    BY <1>8 DEF ClosePreLobby, OpenRaceWindow, FreshRaceWindow, racewindow
  <2>2. Dropped(inbox, inbox')
    BY <2>1 DEF Dropped
  <2> QED
    BY <2>1, <2>2, <1>1, QuietWires
<1>9. CASE ListenServer
  <2>1. /\ inbox # <<>> /\ inbox' = Tail(inbox) /\ UNCHANGED <<svars, wire>>
        /\ code' \in {code, Head(inbox).lobby_code} /\ current_upgrade' = current_upgrade
    BY <1>9 DEF ListenServer, racewindow, Popped
  <2>2. Head(inbox) \in ClientEvents
    BY <1>1, <2>1, HeadTailProperties
  <2>3. Head(inbox).lobby_code \in Codes
    BY <2>2 DEF Codes
  <2>4. Dropped(inbox, inbox')
    BY <2>1 DEF Dropped
  <2>5. code' \in Codes
    BY <2>1, <2>3, <1>1
  <2> QED
    BY <2>1, <2>4, <2>5, <1>1, QuietWires
<1>10. CASE LobbyAccepted
  <2>1. UNCHANGED <<svars, wire>> /\ inbox' = inbox /\ code' = code /\ current_upgrade' = 0
    BY <1>10 DEF LobbyAccepted, OpenRaceWindow, FreshRaceWindow
  <2>2. Dropped(inbox, inbox')
    BY <2>1 DEF Dropped
  <2> QED
    BY <2>1, <2>2, <1>1, QuietWires
<1>11. CASE LobbyRejected
  <2>1. UNCHANGED <<svars, wire>> /\ inbox' = inbox /\ code' = code /\ current_upgrade' = current_upgrade
    BY <1>11 DEF LobbyRejected, racewindow
  <2>2. Dropped(inbox, inbox')
    BY <2>1 DEF Dropped
  <2> QED
    BY <2>1, <2>2, <1>1, QuietWires
<1>12. CASE OnStartGame
  <2> DEFINE c == [type |-> "START_GAME", lobby |-> code]
  <2>1. Push(c) /\ UNCHANGED <<svars, toClient, cvars>>
    BY <1>12 DEF OnStartGame
  <2>2. c \in [type : {"START_GAME"}, lobby : Codes]
    BY <1>1
  <2> HIDE DEF c
  <2>3. c \in Messages
    BY <2>2, Zenon DEF Messages, ClientMessages
  <2>4. inbox' = inbox /\ code' = code /\ current_upgrade' = current_upgrade
    BY <2>1 DEF cvars, lobbywindow, racewindow
  <2>5. Dropped(inbox, inbox')
    BY <2>4 DEF Dropped
  <2> QED
    BY <2>1, <2>3, <2>4, <2>5, <1>1, PushWires
<1>13. CASE OnExitLobby \/ CloseLobby
  <2> DEFINE c == [type |-> "LEAVE_LOBBY"]
  <2>1. LeaveLobby /\ (Push(c) \/ UNCHANGED toServer)
    BY <1>13 DEF OnExitLobby, CloseLobby
  <2>2. c \in [type : {"LEAVE_LOBBY"}]
    OBVIOUS
  <2> HIDE DEF c
  <2>3. c \in Messages
    BY <2>2, Zenon DEF Messages
  <2>4. /\ UNCHANGED <<svars, toClient>> /\ code' = code /\ current_upgrade' = current_upgrade
        /\ Dropped(inbox, inbox')
    BY <2>1 DEF LeaveLobby, racewindow, Dropped
  <2> QED
    BY <2>1, <2>3, <2>4, <1>1, PushWires
<1> QED
  BY <1>2, <1>4, <1>5, <1>6, <1>7, <1>8, <1>9, <1>10, <1>11, <1>12, <1>13

\* The race window.
LEMMA RaceWired ==
  ASSUME Wired,
         \/ RaceFrame \/ RaceEnds \/ QuitRace
         \/ \E k \in Keys : KeyDown(k) \/ KeyUp(k)
         \/ \E up \in Upgrades : ClickUpgrade(up)
  PROVE  ClientWires
<1>1. code \in Codes /\ current_upgrade \in Upgrades \cup {0} /\ inbox \in Seq(ClientEvents)
  BY DEF Wired
<1>2. CASE RaceFrame
  <2> DEFINE c == [type |-> "UPGRADES", upgrade |-> current_upgrade]
  <2>1. UNCHANGED <<svars, toClient, code>>
    BY <1>2 DEF RaceFrame, lobbywindow
  <2>2. PICK m \in 1 .. Len(inbox) : inbox' = SubSeq(inbox, m + 1, Len(inbox)) /\ update_game_state(inbox[m])
    BY <1>1, <1>2, FrameTakes
  <2>3. (Push(c) \/ UNCHANGED toServer) /\ current_upgrade' \in {0, current_upgrade}
    BY <2>2 DEF update_game_state, process_snapshot, process_pregame, process_results, handle_change_phase,
                SendUpgrade
  <2>4. c \in [type : {"UPGRADES"}, upgrade : Upgrades \cup {0}]
    BY <1>1
  <2> HIDE DEF c
  <2>5. c \in Messages
    BY <2>4, Zenon DEF Messages, ClientMessages
  <2>6. m \in 0 .. Len(inbox)
    BY <1>1, LenProperties
  <2>7. Dropped(inbox, inbox')
    BY <2>2, <2>6 DEF Dropped
  <2> QED
    BY <2>1, <2>3, <2>5, <2>7, <1>1, PushWires
<1>3. CASE RaceEnds
  <2>1. UNCHANGED <<svars, wire>> /\ inbox' = inbox /\ code' = code /\ current_upgrade' = 0
    BY <1>3 DEF RaceEnds, FreshRaceWindow, lobbywindow
  <2>2. Dropped(inbox, inbox')
    BY <2>1 DEF Dropped
  <2> QED
    BY <2>1, <2>2, <1>1, QuietWires
<1>4. CASE QuitRace
  <2> DEFINE c == [type |-> "LEAVE_LOBBY"]
  <2>1. Push(c) /\ UNCHANGED <<svars, toClient>> /\ inbox' = inbox /\ code' = code /\ current_upgrade' = current_upgrade
    BY <1>4 DEF QuitRace, lobbywindow
  <2>2. c \in [type : {"LEAVE_LOBBY"}]
    OBVIOUS
  <2> HIDE DEF c
  <2>3. c \in Messages
    BY <2>2, Zenon DEF Messages
  <2>4. Dropped(inbox, inbox')
    BY <2>1 DEF Dropped
  <2> QED
    BY <2>1, <2>3, <2>4, <1>1, PushWires
<1>5. ASSUME NEW key \in {"w", "no_w"}, SendKey(key) PROVE ClientWires
  <2> DEFINE c == [type |-> "SEND_KEY", key |-> key]
  <2>1. /\ Push(c) \/ UNCHANGED toServer
        /\ UNCHANGED <<svars, toClient>> /\ inbox' = inbox /\ code' = code /\ current_upgrade' = current_upgrade
    BY <1>5 DEF SendKey, lobbywindow
  <2>2. c \in [type : {"SEND_KEY"}, key : {"w", "no_w"}]
    OBVIOUS
  <2> HIDE DEF c
  <2>3. c \in Messages
    BY <2>2, Zenon DEF Messages, ClientMessages
  <2>4. Dropped(inbox, inbox')
    BY <2>1 DEF Dropped
  <2> QED
    BY <2>1, <2>3, <2>4, <1>1, PushWires
<1>6. ASSUME NEW k \in Keys, KeyDown(k) \/ KeyUp(k) PROVE ClientWires
  <2>1. k = "w" /\ Released("w") = "no_w"
    BY ClientAssumption, ReleasedKey
  <2> QED
    BY <1>5, <1>6, <2>1 DEF KeyDown, KeyUp
<1>7. ASSUME NEW up \in Upgrades, ClickUpgrade(up) PROVE ClientWires
  <2>1. UNCHANGED <<svars, wire>> /\ inbox' = inbox /\ code' = code /\ current_upgrade' = up
    BY <1>7 DEF ClickUpgrade, lobbywindow
  <2>2. Dropped(inbox, inbox')
    BY <2>1 DEF Dropped
  <2> QED
    BY <2>1, <2>2, <1>1, QuietWires
<1> QED
  BY <1>2, <1>3, <1>4, <1>6, <1>7

\* Every step, but the receiver's two, grows no queue of events.
LEMMA StepWired ==
  ASSUME Wired, [Next]_pvars
  PROVE  /\ Wired'
         /\ Received => inbox' = Append(inbox, receive_event(Send(Head(toClient))).event)
<1>1. inbox \in Seq(ClientEvents) /\ toClient \in Seq(ServerEvents) /\ Len(inbox) \in Nat
  BY LenProperties DEF Wired
<1>2. CASE Server
  <2>1. /\ toClient' \in Seq(ServerEvents) /\ toServer' \in Seq(Messages)
        /\ round' \in Nat /\ shown' \in 0 .. Tables /\ UNCHANGED cvars
    BY <1>2, ServerWired
  <2>2. UNCHANGED <<inbox, code, current_upgrade>>
    BY <2>1 DEF cvars, lobbywindow, racewindow
  <2> QED
    BY <2>1, <2>2, <1>1 DEF Wired, Received
<1>3. CASE Windows
  <2>1. ClientWires
    BY <1>3, LobbiesWired, RaceWired DEF Windows
  <2>2. inbox' \in Seq(ClientEvents) /\ Len(inbox') <= Len(inbox)
    BY <2>1, <1>1, DroppedSeq DEF ClientWires
  <2>3. Len(inbox') \in Nat
    BY <2>2, LenProperties
  <2>4. ~Received
    BY <2>2, <2>3, <1>1 DEF Received
  <2> QED
    BY <2>1, <2>2, <2>4 DEF ClientWires, Wired
<1>4. CASE Receive
  <2>1. /\ toClient # <<>> /\ inbox' = Append(inbox, receive_event(Send(Head(toClient))).event)
        /\ toClient' = Tail(toClient) /\ UNCHANGED <<toServer, code, current_upgrade, round, shown>>
    BY <1>4 DEF Receive, lobbywindow, racewindow, svars, tvars
  <2>2. Head(toClient) \in ServerEvents /\ toClient' \in Seq(ServerEvents)
    BY <2>1, <1>1, HeadTailProperties
  <2> DEFINE e == receive_event(Send(Head(toClient))).event
  <2>3. e \in ClientEvents
    BY <2>2 DEF ClientEvents
  <2> HIDE DEF e
  <2>4. Append(inbox, e) \in Seq(ClientEvents)
    BY <2>3, <1>1, AppendProperties
  <2> QED
    BY <2>1, <2>2, <2>4 DEF Wired, e
<1>5. CASE ReceiverEnds
  <2>1. /\ toClient = <<>> /\ (inbox' = Append(inbox, [type |-> "ERROR"]) \/ UNCHANGED inbox)
        /\ UNCHANGED <<toClient, toServer, code, current_upgrade, round, shown>>
    BY <1>5 DEF ReceiverEnds, lobbywindow, racewindow, svars, tvars, wire
  <2>2. inbox' \in Seq(ClientEvents)
    BY <2>1, <1>1, ErrorHeard, AppendProperties
  <2> QED
    BY <2>1, <2>2 DEF Wired, Received
<1>6. CASE UNCHANGED pvars
  <2>1. UNCHANGED <<inbox, toClient, toServer, code, current_upgrade, round, shown>>
    BY <1>6 DEF pvars, cvars, lobbywindow, racewindow, svars, tvars, wire
  <2> QED
    BY <2>1, <1>1 DEF Wired, Received
<1> QED
  BY <1>2, <1>3, <1>4, <1>5, <1>6 DEF Next

\* With only such messages under way, every step reads them as they were meant.
LEMMA StepReadsAsMeant ==
  ASSUME Wired, [Next]_pvars
  PROVE  ReadAsMeant
<1>1. ASSUME Received
      PROVE  LET m == Send(Head(toClient))
             IN  Seen(inbox'[Len(inbox')]) = Means(Head(toClient)) /\ receive_event(m).took = Len(m)
  <2> DEFINE ev == Head(toClient)
             e == receive_event(Send(ev)).event
  <2>1. inbox' = Append(inbox, e)
    BY <1>1, StepWired
  <2>2. ev \in ServerEvents
    BY <1>1, HeadTailProperties DEF Wired, Received
  <2>3. e \in ClientEvents
    BY <2>2 DEF ClientEvents
  <2>4. inbox \in Seq(ClientEvents)
    BY DEF Wired
  <2> HIDE DEF ev
  <2>5. Seen(e) = Means(ev) /\ receive_event(Send(ev)).took = Len(Send(ev))
    BY <2>2, EventFaithful
  <2> HIDE DEF e
  <2>6. inbox'[Len(inbox')] = e
    BY <2>1, <2>3, <2>4, AppendProperties
  <2> QED
    BY <2>5, <2>6 DEF ev
<1>2. ASSUME Take
      PROVE  LET m == send_event(Head(toServer))
             IN  get_command(m) = Took(Asks(Head(toServer)), Len(m))
  <2>1. Head(toServer) \in Messages
    BY <1>2, MessagesTaken DEF Wired
  <2> QED
    BY <2>1, CommandFaithful
<1> QED
  BY <1>1, <1>2 DEF ReadAsMeant

\* Wired holds when the program starts.
LEMMA InitWired ==
  ASSUME Init
  PROVE  Wired
<1>1. Hello \in ServerEvents
  BY DEF ServerEvents
<1>2. <<Hello>> \in Seq(ServerEvents) /\ <<>> \in Seq(Messages) /\ <<>> \in Seq(ClientEvents)
  BY <1>1
<1>3. 0 \in Codes /\ 0 \in 0 .. Tables
  BY ClientAssumption DEF Codes
<1> QED
  BY <1>2, <1>3 DEF Init, TInit, Wired

\* Whatever order the programs take their steps in, whatever fails and whatever
\* the windows do, every event the client queues says what the server's event
\* said, every command the server reads is the one the client's window gave, and
\* each is read to its last byte: for any maps, names, tables, cars and traffic.
THEOREM ClientReadsAsMeant ==
  Spec => EventsFaithful
<1>1. Wired /\ [Next]_pvars => Wired'
  BY StepWired
<1>2. Wired /\ [Next]_pvars => [ReadAsMeant]_pvars
  BY StepReadsAsMeant
<1>3. Init => Wired
  BY InitWired
<1> QED
  BY <1>1, <1>2, <1>3, PTL DEF Spec, EventsFaithful

-----------------------------------------------------------------------------
\* CInv is an invariant.
LEMMA Invariance ==
  Spec => []CInv
<1>1. Init => CInv
  BY InitGood DEF CInv
<1>2. CInv /\ [Next]_pvars /\ [ReadAsMeant]_pvars => CInv'
  <2> SUFFICES ASSUME CInv, [Next]_pvars, [ReadAsMeant]_pvars, Ordinary' PROVE Good'
    BY DEF CInv
  <2>1. Ordinary
    BY Backwards
  <2>2. Good
    BY <2>1 DEF CInv
  <2> QED
    BY <2>1, <2>2, NextKeeps
<1> QED
  BY <1>1, <1>2, ClientReadsAsMeant, PTL DEF Spec, EventsFaithful

\* A client the server seated in a lobby, connected and not gone early, waits for
\* the answer or is in the lobby window: HandleServerEvent of PreLobby never takes
\* another event for it.  For any maps, names, tables, bounds and length of a race.
THEOREM AcceptedClientsWait ==
  Spec => []AcceptedOpensLobby
<1>1. CInv => AcceptedOpensLobby
  <2> SUFFICES ASSUME CInv, seat = "lobby", link = "open", ~left PROVE window \in {"asking", "lobby"}
    BY DEF AcceptedOpensLobby
  <2>1. Good
    BY DEF CInv, Ordinary
  <2>2. PICK q \in Positions : Leads(ClientAt, Coming, q) /\ ServerAt(q)
    BY <2>1, Places
  <2>3. q = "lobby"
    BY <2>2 DEF ServerAt
  <2>4. ClientAt \in {"asking", "lobby"}
    BY <2>1, <2>2, <2>3, ComingSeq, LeadsBack DEF Good
  <2> QED
    BY <2>1, <2>4 DEF ClientAt, Good, ClientTyped
<1> QED
  BY <1>1, Invariance, PTL

\* A race window that read everything shows the phase its game is in, though it
\* only counts messages (RacePhaseManager), and closes when the game is over.
THEOREM WindowsInStep ==
  Spec => []InStep
<1>1. CInv => InStep
  <2> SUFFICES ASSUME CInv, window = "race", seat = "race", ~left, link = "open", toClient = <<>>, inbox = <<>>
               PROVE  IF phase = "over" THEN ~keep_running ELSE state \in PhaseShown
    BY DEF InStep
  <2>1. Good
    BY DEF CInv, Ordinary
  <2>2. Coming = <<>>
    BY <2>1, ComingSeq DEF Good
  <2>3. ServerAt(ClientAt)
    BY <2>1, <2>2, UpToDate DEF Good
  <2>4. ServerTyped /\ ClientTyped
    BY <2>1 DEF Good
  <2>5. CASE phase = "over"
    <3>1. ClientAt \in {"opening", "idle", "asking"}
      BY <2>3, <2>5 DEF ServerAt
    <3> QED
      BY <3>1, <2>4, <2>5 DEF ClientAt, ClientTyped
  <2>6. CASE phase \in {"lobby", "racing"}
    <3>1. ClientAt = "racing"
      BY <2>3, <2>6 DEF ServerAt
    <3>2. state = "RUNNING_GAME"
      BY <3>1, <2>4 DEF ClientAt, ClientTyped
    <3> QED
      BY <3>2, <2>6 DEF PhaseShown
  <2>7. CASE phase \in {"results", "choosing", "waiting"}
    <3>1. ClientAt = phase
      BY <2>3, <2>7 DEF ServerAt
    <3>2. /\ phase = "results" => state = "SHOW_POSITIONS"
          /\ phase = "choosing" => state = "SHOW_UPGRADE"
          /\ phase = "waiting" => state = "PREGAME"
      BY <3>1, <2>4, <2>7 DEF ClientAt, ClientTyped
    <3> QED
      BY <3>2, <2>7 DEF PhaseShown
  <2>8. CASE phase = "final"
    <3>1. ClientAt = IF shown = 0 THEN "racing" ELSE "final"
      BY <2>3, <2>8 DEF ServerAt
    <3>2. state = IF shown = 0 THEN "RUNNING_GAME" ELSE "SHOW_POSITIONS"
      BY <3>1, <2>4 DEF ClientAt, ClientTyped
    <3> QED
      BY <3>2, <2>8 DEF PhaseShown
  <2> QED
    BY <2>4, <2>5, <2>6, <2>7, <2>8 DEF ServerTyped
<1> QED
  BY <1>1, Invariance, PTL

\* When nothing is under way and the server waits for upgrades, it has the one
\* that the user clicked last in this round, or none if none was clicked.
THEOREM AnswersStand ==
  Spec => []AnswerStands
<1>1. CInv => AnswerStands
  <2> SUFFICES ASSUME CInv, seat = "race", phase = "waiting", ~left, link = "open", toClient = <<>>, inbox = <<>>,
                      toServer = <<>>
               PROVE  answer = wish
    BY DEF AnswerStands
  <2>1. Good
    BY DEF CInv, Ordinary
  <2>2. Coming = <<>>
    BY <2>1, ComingSeq DEF Good
  <2>3. LastUpgrade(toServer, wish) \/ answer = wish
    BY <2>1, <2>2 DEF Good, AnswerComes
  <2>4. ~LastUpgrade(<<>>, wish)
    BY DEF LastUpgrade
  <2> QED
    BY <2>3, <2>4
<1> QED
  BY <1>1, Invariance, PTL

\* When nothing is under way, a car accelerates only if the user holds the key,
\* unless its last change came before the start (last_key_send and race_started).
THEOREM CarsFollowTheHand ==
  Spec => []KeysFollowHand
<1>1. CInv => KeysFollowHand
  <2> SUFFICES ASSUME CInv, window = "race", seat = "race", phase = "racing", ~left, link = "open",
                      toServer = <<>>, pressed, ~unsent
               PROVE  hand = "w"
    BY DEF KeysFollowHand
  <2>1. Good
    BY DEF CInv, Ordinary
  <2> QED
    BY <2>1, NothingWaits DEF Good, KeyComes
<1> QED
  BY <1>1, Invariance, PTL

=============================================================================
