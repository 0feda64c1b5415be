--------------------------- MODULE DatasetsProofs ---------------------------
(***************************************************************************)
(* Proofs about Datasets for names, strings, arrays and datasets of any    *)
(* length.  The invariant says where the reader's cursor is: as long as    *)
(* the field to come begins inside what was received, exactly at it.  What *)
(* the decoder writes, and what the definition of UTF-8 says of it, are    *)
(* recursive functions; that there are such functions is proved here.      *)
(***************************************************************************)
EXTENDS Datasets, FiniteSetTheorems, SequenceTheorems, TLAPS

(* The fields there are. *)
FieldTypes == {Num(2), Num(4), Num(8), Arr(2), Arr(4), Str}

(* Strings whose units are numbers, no fewer than counted. *)
Strings == {s \in [count : Nat, units : Seq(Nat)] : s.count <= Len(s.units)}

------------------------------------------------------------------------------
(* Numbers *)

(* A set of numbers that is not empty has a least one: of its initial segments *)
(* one has no other one inside.                                                *)
LEMMA HasLeast ==
  ASSUME NEW Z \in SUBSET Nat, Z # {}
  PROVE  \E k \in Z : \A j \in Z : k <= j
<1> DEFINE Segment(k) == {j \in Z : j <= k}
           Segments == {Segment(k) : k \in Z}
<1>1. Segments \subseteq FiniteSubsetsOf(Nat)
  <2> SUFFICES ASSUME NEW k \in Z
               PROVE  Segment(k) \in FiniteSubsetsOf(Nat)
    OBVIOUS
  <2> k \in Nat
    OBVIOUS
  <2>1. Segment(k) \in SUBSET Nat /\ \A j \in Segment(k) : j <= k
    OBVIOUS
  <2>2. IsFiniteSet(Segment(k))
    <3> HIDE DEF Segment
    <3> QED
      BY <2>1, FS_BoundedSetOfNaturals
  <2> QED
    BY <2>1, <2>2 DEF FiniteSubsetsOf
<1>2. Segments # {}
  OBVIOUS
<1>3. PICK X \in Segments : \A Y \in Segments : ~ (<<Y, X>> \in StrictSubsetOrdering(Nat))
  <2>1. IsWellFoundedOn(StrictSubsetOrdering(Nat), FiniteSubsetsOf(Nat))
    BY FS_StrictSubsetOrderingWellFounded
  <2> HIDE DEF Segments
  <2> QED
    BY <1>1, <1>2, <2>1, WFMin
<1>4. PICK k \in Z : X = Segment(k)
  OBVIOUS
<1>5. ASSUME NEW j \in Z, j < k
      PROVE  FALSE
  <2> j \in Nat /\ k \in Nat
    OBVIOUS
  <2>1. \A i \in Nat : i <= j => i <= k
    BY <1>5
  <2>2. Segment(j) \subseteq Segment(k)
    BY <2>1
  <2>3. k \in Segment(k)
    BY <1>5
  <2>4. k \notin Segment(j)
    BY <1>5
  <2>5. <<Segment(j), Segment(k)>> \in StrictSubsetOrdering(Nat)
    <3>1. Segment(j) \in SUBSET Nat /\ Segment(k) \in SUBSET Nat
      OBVIOUS
    <3> HIDE DEF Segment
    <3> QED
      BY <3>1, <2>2, <2>3, <2>4 DEF StrictSubsetOrdering
  <2> QED
    BY <2>5, <1>3, <1>4
<1> QED
  BY <1>5

------------------------------------------------------------------------------
(* Strings *)

(* A reader takes no more units than are counted and fit; the last one is a    *)
(* zero if it took fewer than that.                                            *)
LEMMA TakenBounds ==
  ASSUME NEW s, NEW room \in Nat, s.count \in Nat
  PROVE  /\ Taken(s, room) \in 0..Least(s.count, room)
         /\ \/ Taken(s, room) = Least(s.count, room)
            \/ (Taken(s, room) > 0 /\ s.units[Taken(s, room)] = 0)
         /\ \A k \in 1..(Taken(s, room) - 1) : s.units[k] # 0
<1> DEFINE n == Least(s.count, room)
           zeros == {k \in 1..n : s.units[k] = 0}
<1>1. n \in Nat
  BY DEF Least
<1>2. CASE zeros = {}
  <2>1. Taken(s, room) = n
    BY <1>2 DEF Taken
  <2> QED
    BY <2>1, <1>1, <1>2
<1>3. CASE zeros # {}
  <2>1. zeros \in SUBSET Nat
    BY <1>1
  <2>2. \E k \in zeros : \A j \in zeros : k <= j
    BY <1>3, <2>1, HasLeast
  <2>3. Taken(s, room) = CHOOSE k \in zeros : \A j \in zeros : k <= j
    BY <1>3 DEF Taken
  <2>4. Taken(s, room) \in zeros /\ \A j \in zeros : Taken(s, room) <= j
    BY <2>2, <2>3
  <2>5. \A k \in 1..(Taken(s, room) - 1) : s.units[k] # 0
    <3> SUFFICES ASSUME NEW k \in 1..(Taken(s, room) - 1), k \in zeros
                 PROVE  FALSE
      BY <2>4, <1>1
    <3> QED
      BY <2>4, <1>1
  <2> QED
    BY <2>4, <2>5, <1>1
<1> QED
  BY <1>2, <1>3

(* A reader that has the whole of a well made string takes all of it. *)
LEMMA TakenWhole ==
  ASSUME NEW s \in Strings, NEW room \in Nat,
         WellMade(s), s.count = Len(s.units), Len(s.units) <= room
  PROVE  Taken(s, room) = Len(s.units)
<1> DEFINE t == Taken(s, room)
<1>1. s.count \in Nat /\ s.units \in Seq(Nat) /\ Len(s.units) \in Nat
  BY DEF Strings
<1>2. Least(s.count, room) = Len(s.units)
  BY <1>1 DEF Least
<1>3. t \in 0..Len(s.units) /\ (t = Len(s.units) \/ (t > 0 /\ s.units[t] = 0))
  BY <1>1, <1>2, TakenBounds
<1> QED
  BY <1>1, <1>3 DEF WellMade

(* The text of a string has no zero in it. *)
LEMMA TextIsText ==
  ASSUME NEW s \in Strings, NEW room \in Nat
  PROVE  Text(s, room) \in Seq(Nat \ {0})
<1> DEFINE n == Taken(s, room)
<1>1. s.count \in Nat /\ s.units \in Seq(Nat) /\ s.count <= Len(s.units)
  BY DEF Strings
<1>2. /\ n \in 0..Len(s.units)
      /\ \A k \in 1..(n - 1) : s.units[k] # 0
  <2>1. Least(s.count, room) \in 0..Len(s.units)
    BY <1>1 DEF Least
  <2> QED
    BY <1>1, <2>1, TakenBounds
<1> HIDE DEF n
<1>3. CASE n > 0 /\ s.units[n] = 0
  <2>1. Text(s, room) = SubSeq(s.units, 1, n - 1)
    BY <1>3 DEF Text, n
  <2> QED
    BY <2>1, <1>1, <1>2, <1>3
<1>4. CASE ~ (n > 0 /\ s.units[n] = 0)
  <2>1. Text(s, room) = SubSeq(s.units, 1, n)
    BY <1>4 DEF Text, n
  <2> QED
    BY <2>1, <1>1, <1>2, <1>4
<1> QED
  BY <1>3, <1>4

(* A file name is encoded as a string, of which a count of 256 leaves nothing. *)
LEMMA EncodeIsString ==
  ASSUME NEW n \in Seq(Nat \ {0})
  PROVE  Encode(n) \in Strings
<1> DEFINE len == Least(Len(n), CountCap) + 1
           units == SubSeq(n, 1, len - 1) \o <<0>>
<1>1. len \in 1..(CountCap + 1) /\ len - 1 <= Len(n)
  BY CountCapAssumption DEF Least
<1>2. units \in Seq(Nat) /\ Len(units) = len
  BY <1>1
<1>3. len % (CountCap + 1) \in Nat /\ len % (CountCap + 1) <= len
  <2> HIDE DEF len
  <2>1. CountCap \in Nat
    BY CountCapAssumption
  <2>2. CASE len = CountCap + 1
    BY <2>1, <2>2
  <2>3. CASE len < CountCap + 1
    BY <2>1, <2>3, <1>1
  <2> QED
    BY <2>1, <2>2, <2>3, <1>1
<1>4. CASE n = <<>>
  BY <1>4 DEF Encode, Empty, Strings
<1>5. CASE n # <<>>
  <2>1. Encode(n) = [count |-> len % (CountCap + 1), units |-> units]
    BY <1>5 DEF Encode
  <2> HIDE DEF units, len
  <2> QED
    BY <2>1, <1>2, <1>3 DEF Strings
<1> QED
  BY <1>4, <1>5

(* What a device makes of a name without zeros is a well made string, and      *)
(* counted right.                                                              *)
LEMMA TerminatedIsString ==
  ASSUME NEW n \in Seq(Nat \ {0})
  PROVE  /\ Terminated(n) \in Strings
         /\ WellMade(Terminated(n))
         /\ Terminated(n).count = Len(Terminated(n).units)
<1>1. CASE n = <<>>
  BY <1>1 DEF Terminated, Empty, Strings, WellMade
<1>2. CASE n # <<>>
  <2>1. Terminated(n) = [count |-> Len(n) + 1, units |-> Append(n, 0)]
    BY <1>2 DEF Terminated
  <2>2. Append(n, 0) \in Seq(Nat) /\ Len(Append(n, 0)) = Len(n) + 1
    OBVIOUS
  <2>3. \A k \in 1..Len(n) : Append(n, 0)[k] # 0
    OBVIOUS
  <2>4. Terminated(n) \in Strings
    BY <2>1, <2>2 DEF Strings
  <2>5. WellMade(Terminated(n))
    BY <2>1, <2>2, <2>3 DEF WellMade
  <2> QED
    BY <2>1, <2>2, <2>4, <2>5
<1> QED
  BY <1>1, <1>2

------------------------------------------------------------------------------
(* UTF-8 *)

(* The bytes after each unit of a text. *)
Out(units) ==
  CHOOSE out : out = [k \in 0..Len(units) |->
                        IF k = 0 THEN <<>> ELSE out[k - 1] \o Utf8(units[k])]

(* Decoding comes to an end: there is such a function. *)
LEMMA OutIs ==
  ASSUME NEW units \in Seq(Nat)
  PROVE  /\ Out(units)[0] = <<>>
         /\ \A k \in 1..Len(units) : Out(units)[k] = Out(units)[k - 1] \o Utf8(units[k])
<1> DEFINE n == Len(units)
           Upto(m, f) ==
             \A k \in 0..m : f[k] = IF k = 0 THEN <<>> ELSE f[k - 1] \o Utf8(units[k])
           Fails == {m \in 0..n : ~ \E f : f = [k \in 0..m |-> f[k]] /\ Upto(m, f)}
<1>1. n \in Nat
  OBVIOUS
<1>2. ASSUME Fails # {}
      PROVE  FALSE
  <2>1. PICK m \in Fails : \A j \in Fails : m <= j
    <3>1. Fails \in SUBSET Nat
      BY <1>1
    <3> HIDE DEF Fails
    <3> QED
      BY <1>2, <3>1, HasLeast
  <2>2. m \in 0..n
    OBVIOUS
  <2>3. CASE m = 0
    <3> DEFINE g == [k \in 0..0 |-> <<>>]
    <3>1. g = [k \in 0..m |-> g[k]] /\ Upto(m, g)
      BY <2>3
    <3> QED
      BY <3>1
  <2>4. CASE m # 0
    <3>1. m - 1 \in 0..n /\ m - 1 \notin Fails
      BY <2>1, <2>2, <2>4
    <3>2. PICK f : f = [k \in 0..(m - 1) |-> f[k]] /\ Upto(m - 1, f)
      BY <3>1
    <3> DEFINE last == f[m - 1] \o Utf8(units[m])
               g == [k \in 0..m |-> IF k = m THEN last ELSE f[k]]
    <3>3. /\ g[m] = last
          /\ \A k \in 0..(m - 1) : g[k] = f[k]
      BY <2>2, <2>4
    <3> HIDE DEF g
    <3>4. Upto(m, g)
      <4> SUFFICES ASSUME NEW k \in 0..m
                   PROVE  g[k] = IF k = 0 THEN <<>> ELSE g[k - 1] \o Utf8(units[k])
        OBVIOUS
      <4>1. CASE k = m
        <5>1. g[k - 1] = f[m - 1]
          BY <3>3, <2>2, <2>4, <4>1
        <5> QED
          BY <3>3, <2>4, <4>1, <5>1
      <4>2. CASE k # m
        <5>1. k \in 0..(m - 1) /\ (k # 0 => k - 1 \in 0..(m - 1))
          BY <2>2, <4>2
        <5> QED
          BY <3>2, <3>3, <5>1
      <4> QED
        BY <4>1, <4>2
    <3>5. g = [k \in 0..m |-> g[k]]
      BY DEF g
    <3> QED
      BY <3>4, <3>5
  <2> QED
    BY <2>3, <2>4
<1>3. n \notin Fails
  BY <1>1, <1>2
<1>4. PICK f : f = [k \in 0..n |-> f[k]] /\ Upto(n, f)
  BY <1>1, <1>3
<1>5. f = [k \in 0..n |-> IF k = 0 THEN <<>> ELSE f[k - 1] \o Utf8(units[k])]
  BY <1>4
<1>6. Out(units) = [k \in 0..n |-> IF k = 0 THEN <<>> ELSE Out(units)[k - 1] \o Utf8(units[k])]
  BY <1>5 DEF Out
<1> HIDE DEF n
<1>7. \A k \in 0..n :
        Out(units)[k] = IF k = 0 THEN <<>> ELSE Out(units)[k - 1] \o Utf8(units[k])
  BY <1>6
<1>8. 0 \in 0..n /\ \A k \in 1..n : k \in 0..n /\ k # 0
  BY <1>1
<1> QED
  BY <1>1, <1>7, <1>8 DEF n

(* What is decoded is what is there after the last unit. *)
LEMMA DecodeIs ==
  ASSUME NEW s, NEW room
  PROVE  Decode(s, room) = Out(Text(s, room))[Len(Text(s, room))]
  BY DEF Decode, Out

(* A character of some bytes from the i-th on, up to the j-th.                 *)
Char(b, i, j) ==
  \/ b[i] \in 0..127 /\ j = i + 1
  \/ b[i] \in 194..223 /\ Follows(b, i, 1) /\ j = i + 2
  \/ /\ b[i] \in 224..239 /\ Follows(b, i, 2) /\ j = i + 3
     /\ b[i] = 224 => b[i + 1] >= 160
     /\ b[i] = 237 => b[i + 1] < 160

(* The bytes that follow, one by one. *)
LEMMA FollowsIs ==
  ASSUME NEW b, NEW i
  PROVE  /\ Follows(b, i, 1) <=> (i + 1 <= Len(b) /\ b[i + 1] \in 128..191)
         /\ Follows(b, i, 2) <=>
              (i + 2 <= Len(b) /\ b[i + 1] \in 128..191 /\ b[i + 2] \in 128..191)
<1>1. (1..1) = {1} /\ (1..2) = {1, 2}
  OBVIOUS
<1> QED
  BY <1>1 DEF Follows

(* Where they can be cut into characters. *)
Cuts(b, C) ==
  /\ C \subseteq 1..(Len(b) + 1) /\ 1 \in C /\ Len(b) + 1 \in C
  /\ \A i \in C \ {Len(b) + 1} : \E j \in C : Char(b, i, j)

(* What one step of IsUtf8's function looks at. *)
Step(b, ok, i) ==
  \/ i = Len(b) + 1
  \/ b[i] \in 0..127 /\ ok[i + 1]
  \/ b[i] \in 194..223 /\ Follows(b, i, 1) /\ ok[i + 2]
  \/ /\ b[i] \in 224..239 /\ Follows(b, i, 2) /\ ok[i + 3]
     /\ b[i] = 224 => b[i + 1] >= 160
     /\ b[i] = 237 => b[i + 1] < 160

(* That function. *)
Ok(b) == CHOOSE ok : ok = [i \in 1..(Len(b) + 1) |-> Step(b, ok, i)]

(* Bytes are UTF-8 if it is true of the first. *)
LEMMA IsUtf8Is ==
  ASSUME NEW b
  PROVE  IsUtf8(b) = Ok(b)[1]
  BY DEF IsUtf8, Ok, Step

(* There is such a function: it is true on the least set that is closed under  *)
(* its steps.                                                                  *)
LEMMA OkIs ==
  ASSUME NEW b \in Seq(Nat)
  PROVE  \A i \in 1..(Len(b) + 1) : Ok(b)[i] <=> Step(b, Ok(b), i)
<1> DEFINE D == 1..(Len(b) + 1)
           In(T, i) == \/ i = Len(b) + 1
                       \/ \E j \in T : i # Len(b) + 1 /\ Char(b, i, j)
           Closed(T) == \A i \in D : In(T, i) => i \in T
           G == {i \in D : \A T \in SUBSET D : Closed(T) => i \in T}
           T0 == {i \in D : In(G, i)}
           g == [i \in D |-> i \in G]
<1>1. Len(b) \in Nat /\ \A i \in 1..Len(b) : b[i] \in Nat
  OBVIOUS
<1>2. \A U, T \in SUBSET D : U \subseteq T => \A i \in D : In(U, i) => In(T, i)
  OBVIOUS
<1>3. G \in SUBSET D /\ T0 \in SUBSET D
  OBVIOUS
<1>4. \A i \in G, T \in SUBSET D : Closed(T) => i \in T
  OBVIOUS
<1>5. \A i \in D : (\A T \in SUBSET D : Closed(T) => i \in T) => i \in G
  OBVIOUS
<1>6. \A i \in T0 : In(G, i)
  OBVIOUS
<1>7. \A i \in D : In(G, i) => i \in T0
  OBVIOUS
<1> HIDE DEF G, T0
<1>8. Closed(G)
  <2> SUFFICES ASSUME NEW i \in D, In(G, i), NEW T \in SUBSET D, Closed(T)
               PROVE  i \in T
    BY <1>5
  <2>1. G \subseteq T
    BY <1>4
  <2>2. In(T, i)
    BY <1>2, <1>3, <2>1
  <2> QED
    BY <2>2
<1>9. T0 \subseteq G
  BY <1>6, <1>3, <1>8
<1>10. Closed(T0)
  BY <1>2, <1>3, <1>7, <1>9
<1>11. \A i \in D : i \in G <=> In(G, i)
  BY <1>3, <1>4, <1>6, <1>8, <1>10
<1>12. \A i \in D : Step(b, g, i) <=> In(G, i)
  <2> SUFFICES ASSUME NEW i \in D
               PROVE  Step(b, g, i) <=> In(G, i)
    OBVIOUS
  <2>1. CASE i = Len(b) + 1
    BY <2>1 DEF Step
  <2>2. CASE i # Len(b) + 1
    <3>1. i \in 1..Len(b) /\ i + 1 \in D
      BY <1>1, <2>2
    <3>2. Follows(b, i, 1) => i + 2 \in D
      BY <1>1, <3>1 DEF Follows
    <3>3. Follows(b, i, 2) => i + 3 \in D
      BY <1>1, <3>1 DEF Follows
    <3>4. \A j \in D : g[j] <=> j \in G
      OBVIOUS
    <3>5. In(G, i) <=> \E j \in G : Char(b, i, j)
      BY <2>2
    <3> HIDE DEF g, In, D
    <3>6. /\ g[i + 1] <=> i + 1 \in G
          /\ Follows(b, i, 1) => (g[i + 2] <=> i + 2 \in G)
          /\ Follows(b, i, 2) => (g[i + 3] <=> i + 3 \in G)
      BY <3>1, <3>2, <3>3, <3>4
    <3>7. Step(b, g, i) <=> (\E j \in G : Char(b, i, j))
      BY <2>2, <3>6 DEF Step, Char
    <3> QED
      BY <3>5, <3>7
  <2> QED
    BY <2>1, <2>2
<1>13. g = [i \in D |-> Step(b, g, i)]
  <2> DEFINE q == g
  <2>1. \A i \in D : (i \in G) = Step(b, q, i)
    <3> SUFFICES ASSUME NEW i \in D
                 PROVE  (i \in G) = Step(b, q, i)
      OBVIOUS
    <3>1. (i \in G) <=> Step(b, q, i)
      BY <1>11, <1>12
    <3>2. Step(b, q, i) \in BOOLEAN
      <4> HIDE DEF q
      <4> QED
        BY DEF Step
    <3> HIDE DEF q
    <3>3. \A x, y \in BOOLEAN : (x <=> y) => x = y
      OBVIOUS
    <3>4. (i \in G) \in BOOLEAN
      OBVIOUS
    <3> QED
      BY <3>1, <3>2, <3>3, <3>4
  <2> HIDE DEF q
  <2>2. [i \in D |-> i \in G] = [i \in D |-> Step(b, q, i)]
    BY <2>1
  <2> QED
    BY <2>2 DEF q
<1>14. Ok(b) = [i \in D |-> Step(b, Ok(b), i)]
  BY <1>13 DEF Ok
<1> QED
  BY <1>14

(* Bytes that can be cut into characters are UTF-8. *)
LEMMA CutsAreUtf8 ==
  ASSUME NEW b \in Seq(Nat), NEW C, Cuts(b, C)
  PROVE  IsUtf8(b)
<1> DEFINE n == Len(b) + 1
           Fails == {m \in 0..n : n - m \in C /\ ~ Ok(b)[n - m]}
<1>1. n \in Nat \ {0} /\ C \subseteq 1..n /\ 1 \in C
  BY DEF Cuts
<1>2. ASSUME Fails # {}
      PROVE  FALSE
  <2>1. PICK m \in Fails : \A j \in Fails : m <= j
    <3>1. Fails \in SUBSET Nat
      BY <1>1
    <3> HIDE DEF Fails
    <3> QED
      BY <1>2, <3>1, HasLeast
  <2> DEFINE i == n - m
  <2>2. i \in 1..n /\ i \in C /\ ~ Ok(b)[i] /\ m \in 0..n
    BY <1>1
  <2>3. ~ Step(b, Ok(b), i)
    BY <2>2, OkIs
  <2>4. i # n
    BY <2>3 DEF Step
  <2>5. PICK j \in C : Char(b, i, j)
    BY <2>2, <2>4 DEF Cuts
  <2>6. j \in i + 1..n
    BY <1>1, <2>2, <2>5 DEF Char, Follows
  <2>7. Ok(b)[j]
    <3>1. n - j \in 0..n /\ n - (n - j) = j /\ n - j < m
      BY <1>1, <2>2, <2>6
    <3>2. n - j \notin Fails
      <4> HIDE DEF Fails
      <4> QED
        BY <2>1, <2>2, <3>1
    <3> QED
      BY <3>1, <3>2
  <2> HIDE DEF i, n, Fails
  <2>8. Step(b, Ok(b), i)
    BY <2>5, <2>7 DEF Char, Step
  <2> QED
    BY <2>3, <2>8
<1>3. n - 1 \notin Fails /\ n - (n - 1) = 1 /\ n - 1 \in 0..n
  <2> HIDE DEF Fails
  <2> QED
    BY <1>1, <1>2
<1>4. Ok(b)[1]
  BY <1>1, <1>3
<1> QED
  BY <1>4, IsUtf8Is

(* The first byte of the two a unit is split into. *)
LEMMA LeadOfTwo ==
  ASSUME NEW c \in Nat, c >= 128, c < 2048
  PROVE  192 + c \div 64 \in 194..223
  OBVIOUS

(* A byte that follows. *)
LEMMA Low ==
  ASSUME NEW c \in Nat
  PROVE  128 + (c % 64) \in 128..191
  OBVIOUS

(* The first byte of three. *)
LEMMA LeadOfThree ==
  ASSUME NEW c \in Nat, c >= 2048, c < 65536
  PROVE  224 + c \div 4096 \in 224..239
  OBVIOUS

(* Three bytes are never written where two would do. *)
LEMMA NotTooLong ==
  ASSUME NEW c \in Nat, c >= 2048, c < 65536, 224 + c \div 4096 = 224
  PROVE  128 + ((c \div 64) % 64) >= 160
  OBVIOUS

(* A unit that is no half of a surrogate pair is not written as one. *)
LEMMA NoHalf ==
  ASSUME NEW c \in Nat, c >= 2048, c < 65536, 224 + c \div 4096 = 237, c < 55296 \/ c > 57343
  PROVE  128 + ((c \div 64) % 64) < 160
  OBVIOUS

(* The units that are characters. *)
Scalars == {c \in Nat : c < 65536 /\ c \notin Surrogates}

(* A unit that is no half of a surrogate pair is one character. *)
LEMMA UnitIsChar ==
  ASSUME NEW c \in Scalars
  PROVE  LET u == Utf8(c)
         IN  u \in Seq(Nat) /\ Len(u) > 0 /\ Char(u, 1, Len(u) + 1)
<1> DEFINE u == Utf8(c)
<1> SUFFICES u \in Seq(Nat) /\ Len(u) > 0 /\ Char(u, 1, Len(u) + 1)
  OBVIOUS
<1>1. c \in Nat /\ c < 65536 /\ (c < 55296 \/ c > 57343)
  BY DEF Scalars, Surrogates
<1>2. CASE c < 128
  <2>1. u = <<c>>
    BY <1>2 DEF Utf8
  <2> HIDE DEF u
  <2>2. u \in Seq(Nat) /\ Len(u) = 1 /\ u[1] = c
    BY <1>1, <2>1
  <2>3. c \in 0..127 /\ Len(u) + 1 = 1 + 1
    BY <1>1, <1>2, <2>2
  <2> QED
    BY <2>2, <2>3 DEF Char
<1>3. CASE ~(c < 128) /\ c < 2048
  <2>1. PICK a, d : a = 192 + c \div 64 /\ d = 128 + (c % 64)
    OBVIOUS
  <2>2. u = <<a, d>>
    BY <1>3, <2>1 DEF Utf8
  <2>3. a \in 194..223
    BY <1>1, <1>3, <2>1, LeadOfTwo
  <2>4. d \in 128..191
    BY <1>1, <2>1, Low
  <2> HIDE DEF u
  <2>5. u \in Seq(Nat) /\ Len(u) = 2 /\ u[1] = a /\ u[2] = d
    BY <2>2, <2>3, <2>4
  <2>6. Follows(u, 1, 1)
    <3>1. 1 + 1 <= Len(u) /\ u[1 + 1] = d
      BY <2>5
    <3> QED
      BY <2>4, <3>1, FollowsIs
  <2>7. Len(u) + 1 = 1 + 2
    BY <2>5
  <2> QED
    BY <2>3, <2>5, <2>6, <2>7 DEF Char
<1>4. CASE ~(c < 128) /\ ~(c < 2048)
  <2>1. PICK a, d, e : /\ a = 224 + c \div 4096 /\ d = 128 + ((c \div 64) % 64)
                       /\ e = 128 + (c % 64)
    OBVIOUS
  <2>2. u = <<a, d, e>>
    BY <1>4, <2>1 DEF Utf8
  <2>3. a \in 224..239
    BY <1>1, <1>4, <2>1, LeadOfThree
  <2>4. d \in 128..191 /\ e \in 128..191
    <3>1. c \div 64 \in Nat
      BY <1>1
    <3> QED
      BY <1>1, <2>1, <3>1, Low
  <2>5. a = 224 => d >= 160
    BY <1>1, <1>4, <2>1, NotTooLong
  <2>6. a = 237 => d < 160
    BY <1>1, <1>4, <2>1, NoHalf
  <2> HIDE DEF u
  <2>7. u \in Seq(Nat) /\ Len(u) = 3 /\ u[1] = a /\ u[2] = d /\ u[3] = e
    BY <2>2, <2>3, <2>4
  <2>8. 1 + 2 <= Len(u) /\ u[1 + 1] = d /\ u[1 + 2] = e
    BY <2>7
  <2>9. Follows(u, 1, 2)
    BY <2>4, <2>8, FollowsIs
  <2>10. Len(u) + 1 = 1 + 3
    BY <2>7
  <2> QED
    BY <2>3, <2>5, <2>6, <2>7, <2>8, <2>9, <2>10 DEF Char
<1> QED
  BY <1>2, <1>3, <1>4

(* Bytes behind a character do not change it. *)
LEMMA CharStays ==
  ASSUME NEW b \in Seq(Nat), NEW u \in Seq(Nat), NEW i \in 1..Len(b), NEW j, Char(b, i, j)
  PROVE  Char(b \o u, i, j)
<1>1. \A k \in 1..Len(b) : (b \o u)[k] = b[k]
  OBVIOUS
<1>2. Len(b \o u) = Len(b) + Len(u) /\ Len(b) \in Nat /\ Len(u) \in Nat
  OBVIOUS
<1> DEFINE w == b \o u
<1> HIDE DEF w
<1>3. \A k \in 1..Len(b) : w[k] = b[k]
  BY <1>1 DEF w
<1>4. w[i] = b[i] /\ Len(w) = Len(b) + Len(u) /\ i \in Nat /\ i >= 1
  BY <1>2, <1>3 DEF w
<1>5. ASSUME Follows(b, i, 1)
      PROVE  Follows(w, i, 1)
  <2>1. i + 1 <= Len(b) /\ b[i + 1] \in 128..191
    BY <1>5, FollowsIs
  <2>2. i + 1 \in 1..Len(b) /\ i + 1 <= Len(w)
    BY <1>2, <1>4, <2>1
  <2> QED
    BY <1>3, <2>1, <2>2, FollowsIs
<1>6. ASSUME Follows(b, i, 2)
      PROVE  Follows(w, i, 2) /\ w[i + 1] = b[i + 1]
  <2>1. i + 2 <= Len(b) /\ b[i + 1] \in 128..191 /\ b[i + 2] \in 128..191
    BY <1>6, FollowsIs
  <2>2. i + 1 \in 1..Len(b) /\ i + 2 \in 1..Len(b) /\ i + 2 <= Len(w)
    BY <1>2, <1>4, <2>1
  <2> QED
    BY <1>3, <2>1, <2>2, FollowsIs
<1>7. Char(w, i, j)
  BY <1>4, <1>5, <1>6 DEF Char
<1> QED
  BY <1>7 DEF w

(* Bytes before a character move it. *)
LEMMA CharMoves ==
  ASSUME NEW b \in Seq(Nat), NEW u \in Seq(Nat), Len(u) > 0, Char(u, 1, Len(u) + 1)
  PROVE  Char(b \o u, Len(b) + 1, Len(b \o u) + 1)
<1>1. \A k \in 1..Len(u) : (b \o u)[Len(b) + k] = u[k]
  OBVIOUS
<1>2. Len(b \o u) = Len(b) + Len(u) /\ Len(b) \in Nat /\ Len(u) \in Nat
  OBVIOUS
<1> DEFINE w == b \o u
           m == Len(b)
<1> HIDE DEF w, m
<1>3. \A k \in 1..Len(u) : w[m + k] = u[k]
  BY <1>1 DEF w, m
<1>4. m \in Nat /\ Len(w) = m + Len(u) /\ Len(u) \in Nat
  BY <1>2 DEF w, m
<1>5. w[m + 1] = u[1]
  BY <1>3, <1>4
<1>6. ASSUME Follows(u, 1, 1)
      PROVE  Follows(w, m + 1, 1)
  <2>1. 1 + 1 <= Len(u) /\ u[1 + 1] \in 128..191
    BY <1>6, FollowsIs
  <2>2. 1 + 1 \in 1..Len(u) /\ (m + 1) + 1 = m + (1 + 1) /\ (m + 1) + 1 <= Len(w)
    BY <1>4, <2>1
  <2>3. w[(m + 1) + 1] = u[1 + 1]
    BY <1>3, <2>2
  <2> QED
    BY <2>1, <2>2, <2>3, FollowsIs
<1>7. ASSUME Follows(u, 1, 2)
      PROVE  Follows(w, m + 1, 2) /\ w[(m + 1) + 1] = u[1 + 1]
  <2>1. 1 + 2 <= Len(u) /\ u[1 + 1] \in 128..191 /\ u[1 + 2] \in 128..191
    BY <1>7, FollowsIs
  <2>2. /\ 1 + 1 \in 1..Len(u) /\ (m + 1) + 1 = m + (1 + 1)
        /\ 1 + 2 \in 1..Len(u) /\ (m + 1) + 2 = m + (1 + 2) /\ (m + 1) + 2 <= Len(w)
    BY <1>4, <2>1
  <2>3. w[(m + 1) + 1] = u[1 + 1] /\ w[(m + 1) + 2] = u[1 + 2]
    BY <1>3, <2>2
  <2> QED
    BY <2>1, <2>2, <2>3, FollowsIs
<1>8. \A k \in Nat : Len(u) + 1 = 1 + k => Len(w) + 1 = (m + 1) + k
  <2> SUFFICES ASSUME NEW k \in Nat, Len(u) + 1 = 1 + k
               PROVE  Len(w) + 1 = (m + 1) + k
    OBVIOUS
  <2>1. Len(u) = k
    BY <1>4
  <2> QED
    BY <1>4, <2>1
<1>9. Char(w, m + 1, Len(w) + 1)
  BY <1>5, <1>6, <1>7, <1>8 DEF Char
<1> QED
  BY <1>9 DEF w, m

(* One more character. *)
LEMMA CutsGrow ==
  ASSUME NEW b \in Seq(Nat), NEW C, Cuts(b, C),
         NEW u \in Seq(Nat), Len(u) > 0, Char(u, 1, Len(u) + 1)
  PROVE  Cuts(b \o u, C \cup {Len(b \o u) + 1})
<1> DEFINE w == b \o u
           E == C \cup {Len(w) + 1}
<1>1. Len(w) = Len(b) + Len(u) /\ Len(b) \in Nat /\ Len(u) \in Nat
  OBVIOUS
<1>2. Char(w, Len(b) + 1, Len(w) + 1)
  BY CharMoves
<1>3. ASSUME NEW i \in C, i # Len(b) + 1
      PROVE  \E j \in C : Char(w, i, j)
  <2>1. PICK j \in C : Char(b, i, j)
    BY <1>3 DEF Cuts
  <2>2. i \in 1..Len(b)
    <3>1. i \in 1..(Len(b) + 1) /\ Len(b) \in Nat
      BY DEF Cuts
    <3>2. i \in Nat /\ i >= 1 /\ i <= Len(b) + 1
      BY <3>1
    <3> QED
      BY <1>3, <3>1, <3>2
  <2>3. Char(w, i, j)
    BY <2>1, <2>2, CharStays
  <2> QED
    BY <2>3
<1> HIDE DEF w
<1>4. E \subseteq 1..(Len(w) + 1) /\ 1 \in E /\ Len(w) + 1 \in E
  <2>1. C \subseteq 1..(Len(b) + 1) /\ 1 \in C
    BY DEF Cuts
  <2>2. 1..(Len(b) + 1) \subseteq 1..(Len(w) + 1) /\ Len(w) + 1 \in 1..(Len(w) + 1)
    <3>1. PICK k \in Nat : k = Len(w) /\ Len(b) <= k
      <4>1. Len(b) + Len(u) \in Nat /\ Len(b) <= Len(b) + Len(u)
        BY <1>1
      <4> QED
        BY <1>1, <4>1 DEF w
    <3>2. 1..(Len(b) + 1) \subseteq 1..(k + 1) /\ k + 1 \in 1..(k + 1)
      BY <1>1, <3>1
    <3> QED
      BY <3>1, <3>2
  <2> QED
    BY <2>1, <2>2
<1>5. \A i \in E \ {Len(w) + 1} : \E j \in E : Char(w, i, j)
  BY <1>2, <1>3
<1>6. Cuts(w, E)
  BY <1>4, <1>5 DEF Cuts
<1> QED
  BY <1>6 DEF w

(* Text is decoded to UTF-8 when no unit is a half of a surrogate pair. *)
LEMMA OutIsUtf8 ==
  ASSUME NEW units \in Seq(Nat), \A k \in 1..Len(units) : units[k] \in Scalars
  PROVE  IsUtf8(Out(units)[Len(units)])
<1> DEFINE n == Len(units)
           Fine(k) == Out(units)[k] \in Seq(Nat) /\ \E C : Cuts(Out(units)[k], C)
           Fails == {k \in 0..n : ~ Fine(k)}
<1>1. n \in Nat
  OBVIOUS
<1>2. /\ Out(units)[0] = <<>>
      /\ \A k \in 1..n : Out(units)[k] = Out(units)[k - 1] \o Utf8(units[k])
  BY <1>1, OutIs
<1>3. ASSUME Fails # {}
      PROVE  FALSE
  <2>1. PICK k \in Fails : \A j \in Fails : k <= j
    <3>1. Fails \in SUBSET Nat
      BY <1>1
    <3> HIDE DEF Fails
    <3> QED
      BY <1>3, <3>1, HasLeast
  <2>2. k \in 0..n /\ ~ Fine(k)
    OBVIOUS
  <2>3. k # 0
    <3>1. Len(<<>>) = 0 /\ <<>> \in Seq(Nat)
      OBVIOUS
    <3>2. Cuts(<<>>, {1})
      BY <3>1 DEF Cuts
    <3>3. Fine(0)
      BY <1>2, <3>1, <3>2
    <3> HIDE DEF Fine
    <3> QED
      BY <2>2, <3>3
  <2>4. Fine(k - 1)
    <3>1. k - 1 \in 0..n /\ ~(k <= k - 1)
      BY <1>1, <2>2, <2>3
    <3> HIDE DEF Fine
    <3> QED
      BY <2>1, <3>1
  <2>5. PICK C : Cuts(Out(units)[k - 1], C)
    BY <2>4
  <2>6. units[k] \in Scalars
    BY <1>1, <2>2, <2>3
  <2> DEFINE u == Utf8(units[k])
             b == Out(units)[k - 1]
  <2>7. u \in Seq(Nat) /\ Len(u) > 0 /\ Char(u, 1, Len(u) + 1)
    BY <2>6, UnitIsChar
  <2>8. b \in Seq(Nat) /\ Cuts(b, C)
    BY <2>4, <2>5
  <2>9. Out(units)[k] = b \o u
    <3>1. k \in 1..n
      BY <1>1, <2>2, <2>3
    <3> QED
      BY <1>2, <3>1
  <2> HIDE DEF u, b
  <2>10. Cuts(b \o u, C \cup {Len(b \o u) + 1}) /\ b \o u \in Seq(Nat)
    BY <2>7, <2>8, CutsGrow
  <2>11. Out(units)[k] \in Seq(Nat) /\ Cuts(Out(units)[k], C \cup {Len(b \o u) + 1})
    BY <2>9, <2>10
  <2> QED
    BY <2>2, <2>11
<1>4. Fine(n)
  <2> HIDE DEF Fine
  <2> QED
    BY <1>1, <1>3
<1> QED
  BY <1>4, CutsAreUtf8

(* ASCII is decoded to itself. *)
LEMMA OutOfPlain ==
  ASSUME NEW units \in Seq(Nat), \A k \in 1..Len(units) : units[k] < 128
  PROVE  Out(units)[Len(units)] = units
<1> DEFINE n == Len(units)
           Fine(k) == /\ Out(units)[k] \in Seq(Nat) /\ Len(Out(units)[k]) = k
                      /\ \A j \in 1..k : Out(units)[k][j] = units[j]
           Fails == {k \in 0..n : ~ Fine(k)}
<1>1. n \in Nat /\ units \in Seq(Nat)
  OBVIOUS
<1>2. /\ Out(units)[0] = <<>>
      /\ \A k \in 1..n : Out(units)[k] = Out(units)[k - 1] \o Utf8(units[k])
  BY <1>1, OutIs
<1>3. ASSUME Fails # {}
      PROVE  FALSE
  <2>1. PICK k \in Fails : \A j \in Fails : k <= j
    <3>1. Fails \in SUBSET Nat
      BY <1>1
    <3> HIDE DEF Fails
    <3> QED
      BY <1>3, <3>1, HasLeast
  <2>2. k \in 0..n /\ ~ Fine(k)
    OBVIOUS
  <2>3. k # 0
    <3>1. <<>> \in Seq(Nat) /\ Len(<<>>) = 0 /\ 1..0 = {}
      OBVIOUS
    <3>2. Fine(0)
      BY <1>2, <3>1
    <3> HIDE DEF Fine
    <3> QED
      BY <2>2, <3>2
  <2>4. Fine(k - 1)
    <3>1. k - 1 \in 0..n /\ ~(k <= k - 1)
      BY <1>1, <2>2, <2>3
    <3> HIDE DEF Fine
    <3> QED
      BY <2>1, <3>1
  <2> DEFINE b == Out(units)[k - 1]
             c == units[k]
  <2>5. c \in Nat /\ Utf8(c) = <<c>>
    <3>1. c \in Nat /\ c < 128
      BY <1>1, <2>2, <2>3
    <3> QED
      BY <3>1 DEF Utf8
  <2>6. Out(units)[k] = b \o <<c>>
    <3>1. k \in 1..n
      BY <1>1, <2>2, <2>3
    <3> QED
      BY <1>2, <2>5, <3>1
  <2>7. b \in Seq(Nat) /\ Len(b) = k - 1 /\ \A j \in 1..(k - 1) : b[j] = units[j]
    BY <2>4
  <2> HIDE DEF b
  <2>8. /\ b \o <<c>> \in Seq(Nat) /\ Len(b \o <<c>>) = k
        /\ \A j \in 1..k : (b \o <<c>>)[j] = units[j]
    BY <2>2, <2>3, <2>5, <2>7
  <2> QED
    BY <2>2, <2>6, <2>8
<1>4. Fine(n)
  <2> HIDE DEF Fine
  <2> QED
    BY <1>1, <1>3
<1>5. \A s, r \in Seq(Nat) :
        (Len(s) = Len(r) /\ \A j \in 1..Len(r) : s[j] = r[j]) => s = r
  OBVIOUS
<1> QED
  BY <1>1, <1>4, <1>5

------------------------------------------------------------------------------
(* Layouts *)

(* Every layout is a sequence of numbers, arrays and strings. *)
LEMMA LayoutFields ==
  ASSUME NEW d \in {"ObjectInfo", "StorageInfo", "DeviceInfo", "Handles"}
  PROVE  Layout(d) \in Seq(FieldTypes) /\ Len(Layout(d)) > 0
<1>1. ObjectInfo \in Seq(FieldTypes) /\ Len(ObjectInfo) > 0
  BY DEF ObjectInfo, FieldTypes
<1>2. StorageInfo \in Seq(FieldTypes) /\ Len(StorageInfo) > 0
  BY DEF StorageInfo, FieldTypes
<1>3. DeviceInfo \in Seq(FieldTypes) /\ Len(DeviceInfo) > 0
  BY DEF DeviceInfo, FieldTypes
<1>4. Handles \in Seq(FieldTypes) /\ Len(Handles) > 0
  BY DEF Handles, FieldTypes
<1> QED
  BY <1>1, <1>2, <1>3, <1>4 DEF Layout

------------------------------------------------------------------------------
(* The types of the variables *)

(* Bytes of file names are units of 16 bits. *)
LEMMA NamesAreNarrow ==
  \A n \in Names \cup Natives : \A k \in 1..Len(n) : n[k] < 65536
<1>1. ASSUME NEW n \in Names, NEW k \in 1..Len(n)
      PROVE  n[k] < 65536
  <2>1. n[k] \in Nat /\ n[k] < 256
    BY StringsAssumption
  <2> QED
    BY <2>1
<1>2. \A n \in Natives : \A k \in 1..Len(n) : n[k] < 65536
  BY StringsAssumption
<1> QED
  BY <1>1, <1>2

(* TypeOK, and of what the host sends and reads. *)
Typed ==
  /\ TypeOK
  /\ dataset \in {"ObjectInfo", "StorageInfo", "DeviceInfo", "Handles"}
  /\ stage = "announce" => dataset = "ObjectInfo" /\ field = 1 /\ at = 0 /\ p = 0
  /\ stage = "parse" => field <= Len(Layout(dataset))
  /\ name \in Seq(Nat \ {0}) /\ stored \in Seq(Nat \ {0})
  /\ text \in Texts
  /\ elems \in Nat

(* While it parses, the reader is at a field of the layout, which is a number, *)
(* an array or a string, and takes some room in the dataset.                   *)
LEMMA FieldsThereAre ==
  ASSUME Typed, stage = "parse"
  PROVE  /\ field \in 1..Len(Layout(dataset))
         /\ Field \in FieldTypes
         /\ Len(Layout(dataset)) \in Nat
<1>1. Layout(dataset) \in Seq(FieldTypes) /\ field \in 1..Len(Layout(dataset))
  BY LayoutFields DEF Typed, TypeOK
<1>2. Len(Layout(dataset)) \in Nat
  BY <1>1
<1> QED
  BY <1>1, <1>2 DEF Field

(* The string the reader is at is one, and counted right. *)
LEMMA StringIsString ==
  ASSUME Typed
  PROVE  /\ String \in Strings
         /\ String.count = Len(String.units)
         /\ WellMade(text) => WellMade(String)
<1>1. CASE IsName
  BY <1>1, TerminatedIsString DEF Typed, String
<1>2. CASE ~ IsName
  <2>1. /\ text \in [count : 0..CountCap, units : Seq(Nat)]
        /\ text.count = Len(text.units)
    BY StringsAssumption DEF Typed
  <2> QED
    BY <1>2, <2>1, CountCapAssumption DEF String, Strings
<1> QED
  BY <1>1, <1>2

(* The size of a field is a number. *)
LEMMA FieldSizeIsNat ==
  ASSUME Typed, stage = "parse"
  PROVE  FieldSize \in Nat
<1>1. Field \in FieldTypes
  BY FieldsThereAre
<1>2. Len(String.units) \in Nat
  BY StringIsString DEF Strings
<1> QED
  BY <1>1, <1>2 DEF Typed, FieldTypes, Num, Arr, Str, FieldSize, Size

(* One step of the reader leaves the cursor within what was received. *)
LEMMA CursorStaysInside ==
  ASSUME Typed, stage = "parse",
         ReadNumber \/ ReadString \/ ReadArray
  PROVE  p' \in 0..end
<1>1. Field \in FieldTypes /\ p \in Nat /\ end \in Nat /\ p <= end /\ elems \in Nat
  BY FieldsThereAre DEF Typed, TypeOK
<1>2. CASE ReadNumber
  <2>1. Field.width \in Nat
    BY <1>1 DEF FieldTypes, Num, Arr, Str
  <2> QED
    BY <1>1, <1>2, <2>1 DEF ReadNumber, Fits
<1>3. CASE ReadString
  <2>1. CASE p >= end /\ p' = p
    BY <1>1, <2>1
  <2>2. CASE p < end
    <3>1. Room \in Nat /\ p + 1 + 2 * Room <= end
      BY <1>1, <2>2 DEF Room
    <3>2. \E k \in 0..Room : p' = p + 1 + 2 * k
      <4>1. PICK s \in {String} \cup Accidents : p' = p + 1 + 2 * Taken(s, Room)
        BY <1>1, <1>3, <2>2 DEF ReadString
      <4>2. s.count \in Nat
        <5>1. String.count \in Nat
          BY StringIsString DEF Strings
        <5>2. \A a \in Accidents : a.count \in Nat
          BY <3>1, CountCapAssumption DEF Accidents, Least
        <5> QED
          BY <5>1, <5>2
      <4>3. Taken(s, Room) \in 0..Least(s.count, Room)
        BY <3>1, <4>2, TakenBounds
      <4>4. Least(s.count, Room) <= Room /\ Least(s.count, Room) \in Nat
        BY <3>1, <4>2 DEF Least
      <4> QED
        BY <3>1, <4>1, <4>3, <4>4
    <3> QED
      BY <1>1, <3>1, <3>2
  <2> QED
    BY <1>1, <1>3, <2>1, <2>2 DEF ReadString
<1>4. CASE ReadArray
  <2>1. Field.width \in {2, 4}
    BY <1>1, <1>4 DEF ReadArray, FieldTypes, Num, Arr, Str
  <2>2. CASE p' = p
    BY <1>1, <2>2
  <2>3. CASE p + 4 <= end /\ p' # p
    <3>1. Elements \in Nat /\ p + 4 + Field.width * Elements <= end
      BY <1>1, <2>1, <2>3 DEF Elements
    <3>2. \E k \in 0..Elements : p' = p + 4 + Field.width * k
      <4>1. Least(elems, Elements) \in 0..Elements
        BY <1>1, <3>1 DEF Least
      <4> QED
        BY <1>1, <1>4, <2>3, <4>1 DEF ReadArray
    <3> QED
      BY <1>1, <2>1, <3>1, <3>2
  <2> QED
    BY <1>1, <1>4, <2>2, <2>3 DEF ReadArray
<1> QED
  BY <1>2, <1>3, <1>4

(* The types hold in every state, for strings, arrays and datasets of any      *)
(* length: no reader runs over the end of what was received.                   *)
LEMMA TypedInvariant == Spec => []Typed
<1>1. Init => Typed
  <2> SUFFICES ASSUME Init
               PROVE  Typed
    OBVIOUS
  <2>1. /\ dataset \in {"ObjectInfo", "StorageInfo", "DeviceInfo", "Handles"}
        /\ stage \in {"announce", "parse"}
        /\ field = 1 /\ p = 0 /\ at = 0 /\ sent = 0 /\ intact = {} /\ right = {}
        /\ end \in Nat /\ text \in Texts /\ elems \in Nat
        /\ stage = "announce" => dataset = "ObjectInfo"
    BY WireAssumption DEF Init
  <2>2. name \in Seq(Nat \ {0}) /\ stored \in Seq(Nat \ {0})
    <3>1. name \in Names \cup {<<>>} /\ stored \in Natives \cup {<<>>}
      BY DEF Init
    <3>2. <<>> \in Seq(Nat \ {0})
      OBVIOUS
    <3>3. Names \cup Natives \subseteq Seq(Nat \ {0})
      BY StringsAssumption
    <3> QED
      BY <3>1, <3>2, <3>3
  <2>3. Len(Layout(dataset)) \in Nat /\ Len(Layout(dataset)) > 0
    BY <2>1, LayoutFields
  <2> QED
    BY <2>1, <2>2, <2>3 DEF Typed, TypeOK
<1>2. Typed /\ [Next]_vars => Typed'
  <2> SUFFICES ASSUME Typed, [Next]_vars
               PROVE  Typed'
    OBVIOUS
  <2>1. CASE Announce
    <3>1. name \in Seq(Nat \ {0})
      BY DEF Typed
    <3>2. Encode(name) \in Strings
      BY <3>1, EncodeIsString
    <3>3. Len(Encode(name).units) \in Nat
      BY <3>2 DEF Strings
    <3>4. stored' \in Seq(Nat \ {0})
      BY <2>1, <3>2, <3>3, TextIsText DEF Announce
    <3>5. sent' \in Nat
      <4>1. HDR \in Nat
        BY WireAssumption
      <4> QED
        BY <2>1, <3>3, <4>1 DEF Announce, PropListSize, ObjectInfoSize, Size
    <3>6. Len(Layout("ObjectInfo")) \in Nat /\ Len(Layout("ObjectInfo")) > 0
      BY LayoutFields
    <3> QED
      BY <2>1, <3>4, <3>5, <3>6 DEF Announce, source, Typed, TypeOK
  <2>2. CASE ReadNumber \/ ReadString \/ ReadArray
    <3>1. Read /\ stage = "parse"
      BY <2>2 DEF ReadNumber, ReadString, ReadArray
    <3>2. p' \in 0..end
      BY <2>2, <3>1, CursorStaysInside
    <3>3. FieldSize \in Nat
      BY <3>1, FieldSizeIsNat
    <3>4. field \in 1..Len(Layout(dataset)) /\ Len(Layout(dataset)) \in Nat
      BY <3>1, FieldsThereAre
    <3>5. at' \in Nat /\ field' = field + 1 /\ dataset' = dataset /\ end' = end
      BY <3>1, <3>3 DEF Read, source, Typed, TypeOK
    <3>6. (right \cup intact)' \subseteq 1..(field' - 1)
      BY <3>1, <3>4, <3>5 DEF Read, Typed, TypeOK
    <3>7. /\ stage' \in {"parse", "done"}
          /\ stage' = "parse" => field' <= Len(Layout(dataset'))
      BY <3>1, <3>4, <3>5 DEF Read
    <3>8. UNCHANGED <<name, stored, text, elems, sent>>
      BY <3>1 DEF Read, source, upload
    <3> QED
      BY <3>2, <3>4, <3>5, <3>6, <3>7, <3>8 DEF Typed, TypeOK
  <2>3. CASE UNCHANGED vars
    BY <2>3 DEF vars, upload, source, Typed, TypeOK
  <2> QED
    BY <2>1, <2>2, <2>3 DEF Next
<1> QED
  BY <1>1, <1>2, PTL DEF Spec

(* No reader runs over the end of what was received, wherever a dataset is cut *)
(* and whatever its counts claim (App.mm and MTPSession.cpp parse device data  *)
(* with bare pointers).                                                        *)
THEOREM TypeCorrect == Spec => []TypeOK
<1>1. Typed => TypeOK
  BY DEF Typed
<1> QED
  BY <1>1, TypedInvariant, PTL

------------------------------------------------------------------------------
(* The reader and the device stay in step *)

(* A reader at the place of a field that it has whole reads just that field.   *)
LEMMA WholeFieldIsRead ==
  ASSUME Typed, stage = "parse", WellMade(text),
         p = at, at + FieldSize <= end,
         ReadNumber \/ ReadString \/ ReadArray
  PROVE  p' = at + FieldSize
<1>1. Field \in FieldTypes /\ p \in Nat /\ end \in Nat /\ elems \in Nat
  BY FieldsThereAre DEF Typed, TypeOK
<1>2. CASE ReadNumber
  <2>1. Field.width \in Nat /\ FieldSize = Field.width
    BY <1>1, <1>2 DEF ReadNumber, FieldSize, FieldTypes, Num, Arr, Str
  <2> QED
    BY <1>1, <1>2, <2>1 DEF ReadNumber, Fits
<1>3. CASE ReadString
  <2>1. /\ String \in Strings /\ WellMade(String)
        /\ String.count = Len(String.units) /\ Len(String.units) \in Nat
    BY StringIsString DEF Strings
  <2>2. FieldSize = 1 + 2 * Len(String.units)
    BY <1>1, <1>3 DEF ReadString, FieldSize, FieldTypes, Num, Arr, Str, Size
  <2>3. Room \in Nat /\ Len(String.units) <= Room
    BY <1>1, <2>1, <2>2 DEF Room
  <2>4. Taken(String, Room) = Len(String.units)
    BY <2>1, <2>3, TakenWhole
  <2>5. p < end
    BY <1>1, <2>1, <2>2
  <2>6. p' = p + 1 + 2 * Taken(String, Room)
    BY <1>1, <1>3, <2>5 DEF ReadString
  <2> DEFINE l == Len(String.units)
  <2>7. l \in Nat /\ FieldSize = 1 + 2 * l /\ p' = p + 1 + 2 * l
    BY <2>1, <2>2, <2>4, <2>6
  <2> HIDE DEF l
  <2> QED
    BY <1>1, <2>7
<1>4. CASE ReadArray
  <2>1. Field.width \in {2, 4} /\ FieldSize = 4 + Field.width * elems
    BY <1>1, <1>4 DEF ReadArray, FieldSize, FieldTypes, Num, Arr, Str
  <2>2. Elements \in Nat /\ elems <= Elements
    BY <1>1, <2>1 DEF Elements
  <2>3. Least(elems, Elements) = elems
    BY <1>1, <2>2 DEF Least
  <2>4. p + 4 <= end
    BY <1>1, <2>1
  <2>5. p' = p + 4 + Field.width * elems
    BY <1>1, <1>4, <2>3, <2>4 DEF ReadArray
  <2> QED
    BY <1>1, <2>1, <2>5
<1> QED
  BY <1>2, <1>3, <1>4

(* As long as the field to come begins inside what was received, the cursor is *)
(* at it: only with this is IntactFieldsAreRight inductive.                    *)
InStep ==
  WellMade(text) => /\ at <= end => p = at
                    /\ intact \subseteq right

(* The reader stays in step for every dataset, cut and length.                 *)
LEMMA InStepInvariant == Spec => []InStep
<1>1. Init => InStep
  BY DEF Init, InStep
<1>2. Typed /\ InStep /\ [Next]_vars => InStep'
  <2> SUFFICES ASSUME Typed, InStep, [Next]_vars, WellMade(text')
               PROVE  /\ at' <= end' => p' = at'
                      /\ intact' \subseteq right'
    BY DEF InStep
  <2>1. CASE Announce
    BY <2>1 DEF Announce, source, InStep
  <2>2. CASE ReadNumber \/ ReadString \/ ReadArray
    <3>1. Read /\ stage = "parse"
      BY <2>2 DEF ReadNumber, ReadString, ReadArray
    <3>2. /\ WellMade(text) /\ end' = end /\ at' = at + FieldSize
          /\ intact \subseteq right
      BY <3>1 DEF Read, source, InStep
    <3>3. FieldSize \in Nat /\ at \in Nat /\ end \in Nat
      BY <3>1, FieldSizeIsNat DEF Typed, TypeOK
    <3>4. CASE at + FieldSize <= end
      <4>1. p = at
        BY <3>2, <3>3, <3>4 DEF InStep
      <4>2. p' = at + FieldSize
        BY <2>2, <3>1, <3>2, <3>4, <4>1, WholeFieldIsRead
      <4>3. intact' = intact \cup {field} /\ right' = right \cup {field}
        BY <3>1, <3>4, <4>1, <4>2 DEF Read
      <4> QED
        BY <3>2, <4>2, <4>3
    <3>5. CASE ~ (at + FieldSize <= end)
      BY <3>1, <3>2, <3>3, <3>5 DEF Read
    <3> QED
      BY <3>4, <3>5
  <2>3. CASE UNCHANGED vars
    BY <2>3 DEF vars, source, InStep
  <2> QED
    BY <2>1, <2>2, <2>3 DEF Next
<1> QED
  BY <1>1, <1>2, TypedInvariant, PTL DEF Spec

(* Every field that was received whole is read from its own bytes, by all the  *)
(* readers of ObjectInfo, StorageInfo, DeviceInfo and handles.                 *)
THEOREM IntactFields == Spec => []IntactFieldsAreRight
<1>1. InStep => IntactFieldsAreRight
  BY DEF InStep, IntactFieldsAreRight
<1> QED
  BY <1>1, InStepInvariant, PTL

------------------------------------------------------------------------------
(* The announcement of an upload *)

(* An odd number is no multiple of an even one. *)
LEMMA OddIsNoMultiple ==
  ASSUME NEW a \in Nat, a % 2 = 1, NEW b \in Nat \ {0}, b % 2 = 0
  PROVE  a % b # 0
<1> SUFFICES ASSUME a % b = 0
             PROVE  FALSE
  OBVIOUS
<1> DEFINE q == a \div b
           h == b \div 2
<1>1. q \in Nat /\ a = b * q
  OBVIOUS
<1>2. h \in Nat /\ b = 2 * h
  OBVIOUS
<1> HIDE DEF q, h
<1>3. h * q \in Nat /\ a = 2 * (h * q)
  BY <1>1, <1>2
<1> DEFINE m == h * q
<1> HIDE DEF m
<1>4. m \in Nat /\ a = 2 * m
  BY <1>3 DEF m
<1> QED
  BY <1>4

(* What was sent, if anything was, is as long as the property list is.         *)
Announced ==
  via = "SendObjectPropList" => sent = 0 \/ sent = HDR + PropListSize(name)

(* The announcement by SendObjectPropList is an odd number of bytes for every  *)
(* name and so ends in a short packet, which send_data needs it to.            *)
THEOREM AnnouncementEnds == Spec => []PropListEnds
<1>1. Init => Announced
  BY DEF Init, Announced
<1>2. Announced /\ [Next]_vars => Announced'
  <2> SUFFICES ASSUME Announced, [Next]_vars
               PROVE  Announced'
    OBVIOUS
  <2>1. CASE Announce
    BY <2>1 DEF Announce, Announced
  <2>2. CASE ReadNumber \/ ReadString \/ ReadArray
    BY <2>2 DEF ReadNumber, ReadString, ReadArray, Read, upload, Announced
  <2>3. CASE UNCHANGED vars
    BY <2>3 DEF vars, upload, Announced
  <2> QED
    BY <2>1, <2>2, <2>3 DEF Next
<1>3. Typed /\ Announced => PropListEnds
  <2> SUFFICES ASSUME Typed, Announced, via = "SendObjectPropList", sent # 0
               PROVE  sent % MaxPkt # 0
    BY DEF PropListEnds
  <2>1. Encode(name) \in Strings
    BY EncodeIsString DEF Typed
  <2> DEFINE l == Len(Encode(name).units)
  <2>2. l \in Nat
    BY <2>1 DEF Strings
  <2>3. sent = HDR + (12 + (1 + 2 * l))
    BY DEF Announced, PropListSize, Size
  <2> HIDE DEF l
  <2>4. sent \in Nat /\ sent % 2 = 1
    BY <2>2, <2>3, WireAssumption
  <2> QED
    BY <2>4, OddIsNoMultiple, WireAssumption
<1> QED
  BY <1>1, <1>2, <1>3, TypedInvariant, PTL DEF Spec

------------------------------------------------------------------------------
(* The name that is shown *)

(* The text of a string is a beginning of it. *)
LEMMA TextIsPrefix ==
  ASSUME NEW s \in Strings, NEW room \in Nat
  PROVE  /\ Len(Text(s, room)) <= Len(s.units)
         /\ \A k \in 1..Len(Text(s, room)) : Text(s, room)[k] = s.units[k]
<1> DEFINE n == Taken(s, room)
<1>1. s.count \in Nat /\ s.units \in Seq(Nat) /\ s.count <= Len(s.units)
  BY DEF Strings
<1>2. n \in 0..Len(s.units)
  <2>1. Least(s.count, room) \in 0..Len(s.units)
    BY <1>1 DEF Least
  <2> QED
    BY <1>1, <2>1, TakenBounds
<1> HIDE DEF n
<1>3. CASE n > 0 /\ s.units[n] = 0
  <2>1. Text(s, room) = SubSeq(s.units, 1, n - 1)
    BY <1>3 DEF Text, n
  <2> QED
    BY <2>1, <1>1, <1>2, <1>3
<1>4. CASE ~ (n > 0 /\ s.units[n] = 0)
  <2>1. Text(s, room) = SubSeq(s.units, 1, n)
    BY <1>4 DEF Text, n
  <2> QED
    BY <2>1, <1>1, <1>2, <1>4
<1> QED
  BY <1>3, <1>4

(* The text of a name that was terminated is a beginning of the name. *)
LEMMA TerminatedText ==
  ASSUME NEW n \in Seq(Nat \ {0}), NEW room \in Nat, NEW t, t = Text(Terminated(n), room)
  PROVE  /\ t \in Seq(Nat \ {0}) /\ Len(t) <= Len(n)
         /\ \A k \in 1..Len(t) : t[k] = n[k]
<1>1. t \in Seq(Nat \ {0})
  BY TerminatedIsString, TextIsText
<1>2. /\ Len(t) <= Len(Terminated(n).units)
      /\ \A k \in 1..Len(t) : t[k] = Terminated(n).units[k]
  BY TerminatedIsString, TextIsPrefix
<1>3. CASE n = <<>>
  <2>1. Len(Terminated(n).units) = 0 /\ Len(n) = 0
    BY <1>3 DEF Terminated, Empty
  <2>2. Len(t) = 0 /\ 1..0 = {}
    BY <1>1, <1>2, <2>1
  <2> QED
    BY <1>1, <2>1, <2>2
<1>4. CASE n # <<>>
  <2>1. Terminated(n).units = Append(n, 0)
    BY <1>4 DEF Terminated
  <2>2. /\ Len(Append(n, 0)) = Len(n) + 1 /\ Append(n, 0)[Len(n) + 1] = 0
        /\ \A k \in 1..Len(n) : Append(n, 0)[k] = n[k]
    OBVIOUS
  <2>3. Len(t) \in Nat /\ Len(n) \in Nat /\ \A k \in 1..Len(t) : t[k] # 0
    BY <1>1
  <2>4. Len(t) # Len(n) + 1
    <3> SUFFICES ASSUME Len(t) = Len(n) + 1
                 PROVE  FALSE
      OBVIOUS
    <3>1. Len(n) + 1 \in 1..Len(t)
      BY <2>3
    <3>2. t[Len(n) + 1] = 0
      BY <1>2, <2>1, <2>2, <3>1
    <3> QED
      BY <2>3, <3>1, <3>2
  <2>5. Len(t) <= Len(n)
    BY <1>2, <2>1, <2>2, <2>3, <2>4
  <2>6. \A k \in 1..Len(t) : k \in 1..Len(n)
    BY <2>3, <2>5
  <2> QED
    BY <1>1, <1>2, <2>1, <2>2, <2>5, <2>6
<1> QED
  BY <1>3, <1>4

(* A name that was terminated and is read as a whole is the name. *)
LEMMA TerminatedWhole ==
  ASSUME NEW n \in Seq(Nat \ {0}), NEW room \in Nat,
         Taken(Terminated(n), room) = Len(Terminated(n).units)
  PROVE  Text(Terminated(n), room) = n
<1>1. CASE n = <<>>
  <2>1. Terminated(n).units = <<>>
    BY <1>1 DEF Terminated, Empty
  <2>2. Len(<<>>) = 0 /\ SubSeq(<<>>, 1, 0) = <<>>
    OBVIOUS
  <2> QED
    BY <1>1, <2>1, <2>2 DEF Text
<1>2. CASE n # <<>>
  <2> DEFINE w == Append(n, 0)
  <2>1. Terminated(n).units = w
    BY <1>2 DEF Terminated
  <2>2. Len(w) = Len(n) + 1 /\ w[Len(n) + 1] = 0 /\ Len(n) \in Nat
    OBVIOUS
  <2>3. SubSeq(w, 1, Len(n)) = n
    OBVIOUS
  <2> HIDE DEF w
  <2>4. (Len(n) + 1) - 1 = Len(n) /\ Len(n) + 1 > 0
    BY <2>2
  <2>5. Text(Terminated(n), room) = SubSeq(w, 1, (Len(n) + 1) - 1)
    BY <2>1, <2>2, <2>4 DEF Text
  <2> QED
    BY <2>3, <2>4, <2>5
<1> QED
  BY <1>1, <1>2

(* A name at least one short of what a byte counts is encoded as a device      *)
(* would terminate it, so all of it reaches the device.                        *)
LEMMA EncodedWhole ==
  ASSUME NEW n \in Seq(Nat \ {0}), Len(n) < CountCap
  PROVE  Text(Encode(n), Len(Encode(n).units)) = n
<1>1. Len(n) \in Nat /\ CountCap \in Nat
  BY CountCapAssumption
<1>2. Encode(n) = Terminated(n)
  <2>1. CASE n = <<>>
    BY <2>1 DEF Encode, Terminated
  <2>2. CASE n # <<>>
    <3>1. Least(Len(n), CountCap) = Len(n)
      BY <1>1 DEF Least
    <3>2. (Len(n) + 1) % (CountCap + 1) = Len(n) + 1 /\ (Len(n) + 1) - 1 = Len(n)
      BY <1>1
    <3>3. SubSeq(n, 1, Len(n)) \o <<0>> = Append(n, 0)
      <4>1. SubSeq(n, 1, Len(n)) = n
        OBVIOUS
      <4>2. n \o <<0>> = Append(n, 0)
        OBVIOUS
      <4> QED
        BY <4>1, <4>2
    <3> QED
      BY <2>2, <3>1, <3>2, <3>3 DEF Encode, Terminated
  <2> QED
    BY <2>1, <2>2
<1> DEFINE s == Terminated(n)
<1>3. s \in Strings /\ WellMade(s) /\ s.count = Len(s.units)
  BY TerminatedIsString
<1>4. Len(s.units) \in Nat /\ Len(s.units) <= Len(s.units)
  BY <1>3 DEF Strings
<1>5. Taken(s, Len(s.units)) = Len(s.units)
  BY <1>3, <1>4, TakenWhole
<1> QED
  BY <1>2, <1>4, <1>5, TerminatedWhole

(* The units of an encoded name have 16 bits if the name's do. *)
LEMMA EncodeIsNarrow ==
  ASSUME NEW n \in Seq(Nat \ {0}), \A k \in 1..Len(n) : n[k] < 65536
  PROVE  \A k \in 1..Len(Encode(n).units) : Encode(n).units[k] < 65536
<1>1. CASE n = <<>>
  <2>1. Encode(n).units = <<>> /\ Len(<<>>) = 0 /\ 1..0 = {}
    BY <1>1 DEF Encode, Empty
  <2> QED
    BY <2>1
<1>2. CASE n # <<>>
  <2> DEFINE m == (Least(Len(n), CountCap) + 1) - 1
             w == SubSeq(n, 1, m) \o <<0>>
  <2>1. Encode(n).units = w
    <3> HIDE DEF w
    <3>1. Encode(n) = [count |-> (Least(Len(n), CountCap) + 1) % (CountCap + 1), units |-> w]
      BY <1>2 DEF Encode, w
    <3> QED
      BY <3>1
  <2>2. m \in Nat /\ m <= Len(n) /\ Len(n) \in Nat
    BY CountCapAssumption DEF Least
  <2> HIDE DEF m
  <2>3. /\ Len(w) = m + 1 /\ w[m + 1] = 0
        /\ \A k \in 1..m : w[k] = n[k]
    BY <2>2
  <2> HIDE DEF w
  <2>4. \A k \in 1..Len(w) : k = m + 1 \/ (k \in 1..m /\ k \in 1..Len(n))
    BY <2>2, <2>3
  <2> QED
    BY <2>1, <2>3, <2>4
<1> QED
  BY <1>1, <1>2

(* Up to the name an ObjectInfo has numbers only. *)
LEMMA NumbersBeforeName ==
  \A k \in BeforeName : Layout("ObjectInfo")[k] \in {Num(2), Num(4)}
<1>1. Layout("ObjectInfo") = ObjectInfo
  BY DEF Layout
<1>2. \A k \in 1..15 : ObjectInfo[k] \in {Num(2), Num(4)}
  BY DEF ObjectInfo
<1> QED
  BY <1>1, <1>2 DEF BeforeName, Filename

(* On the way to the name the cursor is where the field to come begins, if     *)
(* what is before that was received.                                           *)
OnTheWay ==
  (dataset = "ObjectInfo" /\ field <= Filename) =>
    /\ at <= end => p = at
    /\ field - 1 \in intact => at <= end

(* Numbers are skipped only if the dataset ends before the name. *)
LEMMA OnTheWayInvariant == Spec => []OnTheWay
<1>1. Init => OnTheWay
  BY WireAssumption DEF Init, OnTheWay
<1>2. Typed /\ OnTheWay /\ [Next]_vars => OnTheWay'
  <2> SUFFICES ASSUME Typed, OnTheWay, [Next]_vars, dataset' = "ObjectInfo", field' <= Filename
               PROVE  /\ at' <= end' => p' = at'
                      /\ field' - 1 \in intact' => at' <= end'
    BY DEF OnTheWay
  <2>1. CASE Announce
    BY <2>1 DEF Announce, source, OnTheWay
  <2>2. CASE ReadNumber \/ ReadString \/ ReadArray
    <3>1. /\ Read /\ stage = "parse" /\ dataset = "ObjectInfo"
          /\ end' = end /\ at' = at + FieldSize /\ field' = field + 1
      BY <2>2 DEF ReadNumber, ReadString, ReadArray, Read, source
    <3>2. /\ field \in Nat /\ field \in BeforeName /\ intact \subseteq 1..(field - 1)
          /\ at \in Nat /\ p \in Nat /\ end \in Nat
      BY <3>1, FieldsThereAre DEF Typed, TypeOK, BeforeName, Filename
    <3>3. Field \in {Num(2), Num(4)}
      BY <3>1, <3>2, NumbersBeforeName DEF Field
    <3>4. ReadNumber /\ FieldSize = Field.width /\ Field.width \in Nat
      BY <2>2, <3>3 DEF ReadNumber, ReadString, ReadArray, FieldSize, Num
    <3>5. CASE at + FieldSize <= end
      <4>1. p = at
        BY <3>1, <3>2, <3>4, <3>5 DEF OnTheWay, BeforeName, Filename
      <4> QED
        BY <3>1, <3>2, <3>4, <3>5, <4>1 DEF ReadNumber, Fits
    <3>6. CASE ~ (at + FieldSize <= end)
      <4>1. intact' = intact
        BY <3>1, <3>6 DEF Read
      <4> QED
        BY <3>1, <3>2, <3>4, <3>6, <4>1
    <3> QED
      BY <3>5, <3>6
  <2>3. CASE UNCHANGED vars
    BY <2>3 DEF vars, source, OnTheWay
  <2> QED
    BY <2>1, <2>2, <2>3 DEF Next
<1> QED
  BY <1>1, <1>2, TypedInvariant, PTL DEF Spec

(* The name read is a beginning of the one stored, decoded, if all that is     *)
(* before it was received; all of it if the field was read from its own bytes. *)
Shown ==
  /\ stage = "announce" => right = {} /\ shown = <<>>
  /\ field <= Filename => shown = <<>>
  /\ dataset # "ObjectInfo" => shown = <<>>
  /\ BeforeName \subseteq intact =>
       shown = <<>> \/ \E room \in Nat : shown = Decode(Terminated(stored), room)
  /\ dataset = "ObjectInfo" /\ Filename \in right => shown = Out(stored)[Len(stored)]

(* Units have 16 bits, and short names of files reach the device as they are.  *)
Stored ==
  /\ \A k \in 1..Len(name) : name[k] < 65536
  /\ \A k \in 1..Len(stored) : stored[k] < 65536
  /\ via # "none" => dataset = "ObjectInfo"
  /\ via # "none" /\ stage # "announce" /\ Len(name) < CountCap => stored = name

(* The device has the names of files as they are. *)
LEMMA StoredInvariant == Spec => []Stored
<1>1. Init => Stored
  <2> SUFFICES ASSUME Init
               PROVE  Stored
    OBVIOUS
  <2>1. name \in Names \cup {<<>>} /\ stored \in Natives \cup {<<>>}
    BY DEF Init
  <2>2. \A k \in 1..Len(<<>>) : FALSE
    OBVIOUS
  <2>3. /\ \A k \in 1..Len(name) : name[k] < 65536
        /\ \A k \in 1..Len(stored) : stored[k] < 65536
    BY <2>1, <2>2, NamesAreNarrow
  <2>4. via # "none" => dataset = "ObjectInfo" /\ stage = "announce"
    BY DEF Init
  <2> QED
    BY <2>3, <2>4 DEF Stored
<1>2. Typed /\ Stored /\ [Next]_vars => Stored'
  <2> SUFFICES ASSUME Typed, Stored, [Next]_vars
               PROVE  Stored'
    OBVIOUS
  <2>1. CASE Announce
    <3> DEFINE s == Encode(name)
               t == Text(s, Len(s.units))
    <3>1. name \in Seq(Nat \ {0}) /\ \A k \in 1..Len(name) : name[k] < 65536
      BY DEF Typed, Stored
    <3>2. s \in Strings /\ Len(s.units) \in Nat
      BY <3>1, EncodeIsString DEF Strings
    <3>3. t \in Seq(Nat \ {0}) /\ \A k \in 1..Len(t) : t[k] < 65536
      <4>1. t \in Seq(Nat \ {0})
        BY <3>2, TextIsText
      <4>2. Len(t) <= Len(s.units) /\ \A k \in 1..Len(t) : t[k] = s.units[k]
        BY <3>2, TextIsPrefix
      <4>3. \A k \in 1..Len(s.units) : s.units[k] < 65536
        BY <3>1, EncodeIsNarrow
      <4> HIDE DEF t, s
      <4>4. \A k \in 1..Len(t) : k \in 1..Len(s.units)
        BY <3>2, <4>1, <4>2
      <4> QED
        BY <4>1, <4>2, <4>3, <4>4
    <3>4. stored' = t /\ UNCHANGED <<name, via, dataset>>
      BY <2>1 DEF Announce, source
    <3>5. Len(name) < CountCap => t = name
      BY <3>1, EncodedWhole
    <3> HIDE DEF t
    <3> QED
      BY <3>1, <3>3, <3>4, <3>5 DEF Stored
  <2>2. CASE ReadNumber \/ ReadString \/ ReadArray
    <3>1. UNCHANGED <<name, stored, via, dataset>> /\ stage = "parse"
      BY <2>2 DEF ReadNumber, ReadString, ReadArray, Read, source, upload
    <3> QED
      BY <3>1 DEF Stored
  <2>3. CASE UNCHANGED vars
    BY <2>3 DEF vars, source, upload, Stored
  <2> QED
    BY <2>1, <2>2, <2>3 DEF Next
<1> QED
  BY <1>1, <1>2, TypedInvariant, PTL DEF Spec

(* What is shown is what the device has. *)
LEMMA ShownInvariant == Spec => []Shown
<1>1. Init => Shown
  BY DEF Init, Shown
<1>2. Typed /\ OnTheWay /\ Shown /\ [Next]_vars => Shown'
  <2> SUFFICES ASSUME Typed, OnTheWay, Shown, [Next]_vars
               PROVE  Shown'
    OBVIOUS
  <2>1. CASE Announce
    BY <2>1 DEF Announce, source, Shown
  <2>2. CASE ReadNumber \/ ReadString \/ ReadArray
    <3>1. Read /\ stage = "parse" /\ stored' = stored /\ dataset' = dataset
      BY <2>2 DEF ReadNumber, ReadString, ReadArray, Read, source, upload
    <3>2. /\ stage' # "announce" /\ field \in Nat /\ right \subseteq 1..(field - 1)
          /\ field' = field + 1
      BY <3>1, FieldsThereAre DEF Read, Typed, TypeOK
    <3>3. CASE IsName
      <4>1. Filename \notin right
        BY <3>2, <3>3 DEF IsName
      <4>2. ReadString
        <5>1. Field = Str
          BY <3>3 DEF IsName, Field, Layout, ObjectInfo, Filename
        <5> QED
          BY <2>2, <5>1 DEF ReadNumber, ReadArray, Str
      <4>3. String = Terminated(stored) /\ stored \in Seq(Nat \ {0})
        BY <3>3 DEF String, Typed
      <4> DEFINE l == Len(Terminated(stored).units)
      <4>4. l \in Nat
        BY <4>3, TerminatedIsString DEF Strings
      <4>5. FieldSize = 1 + 2 * l
        <5>1. Field.kind = "str"
          BY <4>2 DEF ReadString
        <5> QED
          BY <4>3, <5>1 DEF FieldSize, Size
      <4> HIDE DEF l
      <4>6. p \in Nat /\ end \in Nat /\ at \in Nat
        BY DEF Typed, TypeOK
      <4>7. BeforeName \subseteq intact' => (at <= end /\ p = at)
        <5> SUFFICES ASSUME BeforeName \subseteq intact'
                     PROVE  at <= end /\ p = at
          OBVIOUS
        <5>1. 15 \in BeforeName /\ field = 16 /\ intact' \subseteq intact \cup {16}
          BY <3>1, <3>3 DEF BeforeName, Filename, IsName, Read
        <5>2. field - 1 \in intact
          BY <5>1
        <5> QED
          BY <3>3, <5>2 DEF OnTheWay, IsName, Filename
      <4>8. ~ (field' <= Filename) /\ dataset' = "ObjectInfo"
        BY <3>1, <3>2, <3>3 DEF IsName
      <4>9. CASE p < end /\ p = at
        <5>1. Room \in Nat
          BY <4>6, <4>9 DEF Room
        <5>2. /\ p' = p + 1 + 2 * Taken(String, Room)
              /\ shown' = Decode(Terminated(stored), Room)
          BY <3>3, <4>2, <4>3, <4>6, <4>9 DEF ReadString
        <5>3. Taken(String, Room) \in Nat
          <6>1. String.count \in Nat
            BY StringIsString DEF Strings
          <6>2. Taken(String, Room) \in 0..Least(String.count, Room)
            BY <5>1, <6>1, TakenBounds
          <6>3. Least(String.count, Room) \in Nat
            BY <5>1, <6>1 DEF Least
          <6> QED
            BY <6>2, <6>3
        <5>4. Filename \in right' => shown' = Out(stored)[Len(stored)]
          <6> SUFFICES ASSUME Filename \in right'
                       PROVE  shown' = Out(stored)[Len(stored)]
            OBVIOUS
          <6>1. p' = at + FieldSize
            BY <3>1, <4>1 DEF Read
          <6>2. Taken(String, Room) = l
            <7> DEFINE t == Taken(String, Room)
            <7>1. t \in Nat /\ at + (1 + 2 * l) = at + 1 + 2 * t
              BY <4>5, <4>9, <5>2, <5>3, <6>1
            <7> HIDE DEF t
            <7>2. t = l
              BY <4>4, <4>6, <7>1
            <7> QED
              BY <7>2 DEF t
          <6>3. Text(Terminated(stored), Room) = stored
            BY <4>3, <5>1, <6>2, TerminatedWhole DEF l
          <6> QED
            BY <5>2, <6>3, DecodeIs
        <5> QED
          BY <3>1, <3>2, <4>8, <5>1, <5>2, <5>4 DEF Shown
      <4>10. CASE p >= end
        <5>1. shown' = shown /\ p' = p
          BY <4>2, <4>6, <4>10 DEF ReadString
        <5>2. shown = <<>>
          BY <3>3 DEF Shown, IsName, Filename
        <5>3. Filename \notin right'
          <6> SUFFICES ASSUME Filename \in right'
                       PROVE  FALSE
            OBVIOUS
          <6>1. p = at /\ p' = at + FieldSize
            BY <3>1, <4>1 DEF Read
          <6> QED
            BY <4>4, <4>5, <4>6, <5>1, <6>1
        <5> QED
          BY <3>1, <3>2, <4>8, <5>1, <5>2, <5>3 DEF Shown
      <4>11. CASE p < end /\ p # at
        <5>1. Filename \notin right'
          BY <3>1, <4>1, <4>11 DEF Read
        <5>2. ~ (BeforeName \subseteq intact')
          BY <4>7, <4>11
        <5> QED
          BY <3>1, <3>2, <4>8, <5>1, <5>2 DEF Shown
      <4> QED
        BY <4>6, <4>9, <4>10, <4>11
    <3>4. CASE ~ IsName
      <4>1. shown' = shown
        BY <2>2, <3>4 DEF ReadNumber, ReadString, ReadArray
      <4>2. dataset = "ObjectInfo" /\ Filename \in right' => Filename \in right
        BY <3>1, <3>4 DEF Read, IsName
      <4>3. field' <= Filename => shown = <<>>
        BY <3>2 DEF Shown, Filename
      <4>4. BeforeName \subseteq intact' => (BeforeName \subseteq intact \/ shown = <<>>)
        <5>1. intact' \subseteq intact \cup {field}
          BY <3>1 DEF Read
        <5>2. CASE field <= Filename
          BY <5>2 DEF Shown
        <5>3. CASE ~ (field <= Filename)
          BY <3>2, <5>1, <5>3 DEF BeforeName, Filename
        <5> QED
          BY <5>2, <5>3
      <4> QED
        BY <3>1, <3>2, <4>1, <4>2, <4>3, <4>4 DEF Shown
    <3> QED
      BY <3>3, <3>4
  <2>3. CASE UNCHANGED vars
    BY <2>3 DEF vars, source, upload, Shown
  <2> QED
    BY <2>1, <2>2, <2>3 DEF Next
<1> QED
  BY <1>1, <1>2, TypedInvariant, OnTheWayInvariant, PTL DEF Spec

(* A file with a plain name is listed under it, uploaded by either command and *)
(* wherever the ObjectInfo is cut behind the name (MTPOperations.cpp encodes   *)
(* the names of uploads, get_object_info decodes them).                        *)
THEOREM NamesSurvive == Spec => []NameSurvives
<1>1. Typed /\ Stored /\ Shown => NameSurvives
  <2> SUFFICES ASSUME Typed, Stored, Shown, via # "none", Filename \in right, Plain(name)
               PROVE  shown = name
    BY DEF NameSurvives
  <2>1. stage # "announce"
    BY DEF Shown
  <2>2. stored = name /\ dataset = "ObjectInfo"
    BY <2>1 DEF Stored, Plain
  <2>3. shown = Out(name)[Len(name)]
    BY <2>2 DEF Shown
  <2>4. name \in Seq(Nat) /\ \A k \in 1..Len(name) : name[k] < 128
    BY DEF Typed, Plain
  <2> QED
    BY <2>3, <2>4, OutOfPlain
<1> QED
  BY <1>1, TypedInvariant, StoredInvariant, ShownInvariant, PTL

(* What is shown for a name is UTF-8, however long it is and wherever in it    *)
(* its dataset is cut, if there are no surrogate pairs in it.                  *)
THEOREM ShownAsText == Spec => []ShownIsText
<1>1. Typed /\ Stored /\ Shown => ShownIsText
  <2> SUFFICES ASSUME Typed, Stored, Shown, BeforeName \subseteq intact,
                      \A k \in 1..Len(stored) : stored[k] \notin Surrogates
               PROVE  IsUtf8(shown)
    BY DEF ShownIsText
  <2>1. CASE shown = <<>>
    <3>1. <<>> \in Seq(Nat) /\ Len(<<>>) = 0
      OBVIOUS
    <3>2. Cuts(<<>>, {1})
      BY <3>1 DEF Cuts
    <3> QED
      BY <2>1, <3>1, <3>2, CutsAreUtf8
  <2>2. CASE shown # <<>>
    <3>1. PICK room \in Nat : shown = Decode(Terminated(stored), room)
      BY <2>2 DEF Shown
    <3>2. PICK t : t = Text(Terminated(stored), room)
      OBVIOUS
    <3>3. stored \in Seq(Nat \ {0}) /\ \A k \in 1..Len(stored) : stored[k] < 65536
      BY DEF Typed, Stored
    <3>4. /\ t \in Seq(Nat \ {0}) /\ Len(t) <= Len(stored)
          /\ \A k \in 1..Len(t) : t[k] = stored[k]
      <4>1. stored \in Seq(Nat \ {0})
        BY <3>3
      <4> QED
        BY <3>2, <4>1, TerminatedText, ZenonT(30)
    <3>5. shown = Out(t)[Len(t)]
      BY <3>1, <3>2, DecodeIs
    <3>6. t \in Seq(Nat) /\ \A k \in 1..Len(t) : t[k] \in Nat /\ k \in 1..Len(stored)
      BY <3>3, <3>4
    <3>7. ASSUME NEW k \in 1..Len(t)
          PROVE  t[k] \in Scalars
      <4>1. t[k] \in Nat /\ k \in 1..Len(stored) /\ t[k] = stored[k]
        BY <3>4, <3>6
      <4>2. stored[k] < 65536 /\ stored[k] \notin Surrogates
        BY <3>3, <4>1
      <4> QED
        BY <4>1, <4>2 DEF Scalars
    <3> QED
      BY <3>5, <3>6, <3>7, OutIsUtf8
  <2> QED
    BY <2>1, <2>2
<1> QED
  BY <1>1, TypedInvariant, StoredInvariant, ShownInvariant, PTL
==============================================================================
