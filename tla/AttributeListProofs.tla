------------------------- MODULE AttributeListProofs -------------------------
(***************************************************************************)
(* What the attribute list helpers leave of a heap and a list, for any     *)
(* heap, list and arguments: no array but the new one is written to        *)
(* (Leaves), and the result is what the helper's comment says.  The        *)
(* updater's updateAttributes, which has no comment, is held to Merge's,   *)
(* with what is new named once.                                            *)
(*                                                                         *)
(* The helpers are loops, recursive functions of the number of turns.  A   *)
(* statement about every turn is proved by induction on the set of the     *)
(* turns it holds after (SetInduction), from which it also follows that    *)
(* such a function exists (LoopExists).                                    *)
(***************************************************************************)
EXTENDS AttributeList, FiniteSetTheorems, SequenceTheorems, WellFoundedInduction, TLAPS

-----------------------------------------------------------------------------
(* Loops over a sequence, as functions of the number of turns.             *)

\* A set of numbers that has 0 and with each number the next one has all.
LEMMA SetInduction ==
  ASSUME NEW S, 0 \in S, \A n \in Nat : n \in S => n + 1 \in S
  PROVE  \A n \in Nat : n \in S
<1> DEFINE Lacking == Nat \ S
<1> SUFFICES ASSUME Lacking # {} PROVE FALSE
  OBVIOUS
<1>1. PICK n \in Lacking : \A m \in Lacking : ~(<<m, n>> \in OpToRel(<, Nat))
  <2>1. Lacking \subseteq Nat
    OBVIOUS
  <2> HIDE DEF Lacking
  <2> QED BY <2>1, NatLessThanWellFounded, WFMin, Zenon
<1>2. \A m \in Lacking : ~(m < n)
  BY <1>1 DEF OpToRel
<1>3. n # 0 /\ n - 1 \in Nat /\ (n - 1) + 1 = n
  OBVIOUS
<1>4. n - 1 \notin Lacking
  BY <1>2, <1>3
<1> QED BY <1>3, <1>4

\* The zero value is an attribute.
LEMMA ZeroValue == [name |-> "", value |-> 0] \in AttributeInfo
BY DEF AttributeInfo

\* One turn more is one element more.
LEMMA PrefixNext ==
  ASSUME NEW T, NEW s \in Seq(T), NEW n \in Nat, n < Len(s)
  PROVE  /\ SubSeq(s, 1, n) \in Seq(T) /\ Len(SubSeq(s, 1, n)) = n
         /\ s[n + 1] \in T
         /\ SubSeq(s, 1, n + 1) = Append(SubSeq(s, 1, n), s[n + 1])
<1>1. SubSeq(s, 1, n) \in Seq(T) /\ Len(SubSeq(s, 1, n)) = n
  BY SubSeqProperties
<1>2. n + 1 \in 1..Len(s) /\ s[n + 1] \in T
  OBVIOUS
<1>3. SubSeq(s, 1, n + 1) = SubSeq(s, 1, n) \o <<s[n + 1]>>
  OBVIOUS
<1> QED BY <1>1, <1>2, <1>3, AppendIsConcat

\* As many of them as a loop has turns.
LEMMA TurnInduction ==
  ASSUME NEW N \in Nat, NEW S, 0 \in S, \A n \in 0..(N - 1) : n \in S => n + 1 \in S
  PROVE  \A n \in 0..N : n \in S
<1> DEFINE Covered == {n \in Nat : n <= N => n \in S}
<1>1. 0 \in Covered
  OBVIOUS
<1>2. \A n \in Nat : n \in Covered => n + 1 \in Covered
  OBVIOUS
<1> HIDE DEF Covered
<1>3. \A n \in Nat : n \in Covered
  BY <1>1, <1>2, SetInduction
<1> QED BY <1>3 DEF Covered

\* What a loop has come to after each turn.
IsLoop(f, N, base, step) ==
  f = [n \in 0..N |-> IF n = 0 THEN base ELSE step[<<f[n - 1], n>>]]

\* A loop that can go on from all it comes to has a result after each turn.
LEMMA LoopExists ==
  ASSUME NEW N \in Nat, NEW X, NEW base \in X, NEW step \in [X \X (1..N) -> X]
  PROVE  \E f \in [0..N -> X] : IsLoop(f, N, base, step)
<1> DEFINE Turn(f, n) == IF n = 0 THEN base ELSE step[<<f[n - 1], n>>]
           Turns == {n \in 0..N : \E f \in [0..n -> X] : \A m \in 0..n : f[m] = Turn(f, m)}
<1>1. 0 \in Turns
  <2> DEFINE f == [m \in 0..0 |-> base]
  <2>1. f \in [0..0 -> X] /\ \A m \in 0..0 : f[m] = Turn(f, m)
    OBVIOUS
  <2> HIDE DEF f, Turn
  <2> QED BY <2>1
<1>2. ASSUME NEW n \in 0..(N - 1), n \in Turns PROVE n + 1 \in Turns
  <2>1. PICK f \in [0..n -> X] : \A m \in 0..n : f[m] = Turn(f, m)
    BY <1>2
  <2> DEFINE g == [m \in 0..(n + 1) |-> IF m = n + 1 THEN step[<<f[n], n + 1>>] ELSE f[m]]
  <2>2. g \in [0..(n + 1) -> X]
    OBVIOUS
  <2>3. ASSUME NEW m \in 0..(n + 1) PROVE g[m] = Turn(g, m)
    <3>1. m # 0 => m - 1 \in 0..n /\ g[m - 1] = f[m - 1]
      OBVIOUS
    <3>2. CASE m = n + 1
      BY <3>1, <3>2
    <3>3. CASE m # n + 1
      <4>1. m \in 0..n /\ g[m] = f[m]
        BY <3>3
      <4>2. f[m] = Turn(f, m)
        BY <2>1, <4>1
      <4> HIDE DEF g
      <4> QED BY <3>1, <4>1, <4>2
    <3> QED BY <3>2, <3>3
  <2> HIDE DEF g, Turn
  <2> QED BY <2>2, <2>3
<1> HIDE DEF Turns
<1>3. N \in Turns
  BY <1>1, <1>2, TurnInduction
<1>4. PICK f \in [0..N -> X] : \A m \in 0..N : f[m] = Turn(f, m)
  BY <1>3 DEF Turns
<1>5. f = [n \in 0..N |-> Turn(f, n)]
  <2> HIDE DEF Turn
  <2> QED BY <1>4
<1> QED BY <1>5 DEF IsLoop

-----------------------------------------------------------------------------
(* Lists without some names, and names each once.                          *)

\* What Without's loop has kept after each turn.
KeptIn(kept, attributes, names) ==
  kept = [n \in 0..Len(attributes) |->
            IF n = 0 THEN <<>>
            ELSE IF attributes[n].name \in names THEN kept[n - 1]
            ELSE Append(kept[n - 1], attributes[n])]

\* These are lists no longer than what the loop has seen, and the last is its result.
IsKept(kept, T, attributes, names) ==
  /\ Without(attributes, names) = kept[Len(attributes)]
  /\ kept[0] = <<>>
  /\ \A n \in 0..Len(attributes) : kept[n] \in Seq(T) /\ Len(kept[n]) <= n
  /\ \A n \in 1..Len(attributes) :
       kept[n] = IF attributes[n].name \in names THEN kept[n - 1]
                 ELSE Append(kept[n - 1], attributes[n])

\* Such is the function in Without's definition.
LEMMA WithoutTurns ==
  ASSUME NEW T, NEW attributes \in Seq(T), NEW names
  PROVE  \E kept : IsKept(kept, T, attributes, names)
<1> DEFINE N == Len(attributes)
           X == Seq(T)
           step == [p \in X \X (1..N) |-> IF attributes[p[2]].name \in names THEN p[1]
                                          ELSE Append(p[1], attributes[p[2]])]
<1>1. N \in Nat /\ <<>> \in X /\ \A n \in 1..N : attributes[n] \in T
  OBVIOUS
<1>2. step \in [X \X (1..N) -> X]
  BY <1>1
<1> HIDE DEF X, step
<1>3. PICK f \in [0..N -> X] : IsLoop(f, N, <<>>, step)
  <2>1. N \in Nat /\ <<>> \in X
    BY <1>1 DEF X
  <2> QED BY <1>2, <2>1, LoopExists
<1>4. KeptIn(f, attributes, names)
  <2>1. ASSUME NEW n \in 0..N, n # 0
        PROVE  step[<<f[n - 1], n>>] = IF attributes[n].name \in names THEN f[n - 1]
                                       ELSE Append(f[n - 1], attributes[n])
    <3>1. f[n - 1] \in X /\ n \in 1..N
      BY <1>1, <2>1
    <3> QED BY <3>1 DEF step
  <2>2. [n \in 0..N |-> IF n = 0 THEN <<>> ELSE step[<<f[n - 1], n>>]]
          = [n \in 0..N |-> IF n = 0 THEN <<>>
                            ELSE IF attributes[n].name \in names THEN f[n - 1]
                            ELSE Append(f[n - 1], attributes[n])]
    BY <2>1
  <2> QED BY <1>3, <2>2, Zenon DEF KeptIn, IsLoop
<1> DEFINE kept == CHOOSE k : KeptIn(k, attributes, names)
<1>5. KeptIn(kept, attributes, names)
  BY <1>4, Zenon
<1>6. Without(attributes, names) = kept[N]
  BY Zenon DEF Without, KeptIn
<1> HIDE DEF kept
<1>7. /\ kept[0] = <<>>
      /\ \A n \in 1..N : kept[n] = IF attributes[n].name \in names THEN kept[n - 1]
                                   ELSE Append(kept[n - 1], attributes[n])
  <2> DEFINE Turn(n) == IF n = 0 THEN <<>>
                        ELSE IF attributes[n].name \in names THEN kept[n - 1]
                        ELSE Append(kept[n - 1], attributes[n])
  <2>1. kept = [n \in 0..N |-> Turn(n)]
    BY <1>5 DEF KeptIn
  <2> HIDE DEF Turn
  <2>2. \A n \in 0..N : kept[n] = Turn(n)
    BY <2>1
  <2> USE DEF Turn
  <2>3. kept[0] = <<>>
    BY <1>1, <2>2
  <2>4. \A n \in 1..N : n \in 0..N /\ n # 0
    BY <1>1
  <2> QED BY <2>2, <2>3, <2>4
<1>8. \A n \in 0..N : kept[n] \in X /\ Len(kept[n]) <= n
  <2> DEFINE S == {n \in 0..N : kept[n] \in X /\ Len(kept[n]) <= n}
  <2>1. 0 \in S
    BY <1>1, <1>7
  <2>2. ASSUME NEW n \in 0..(N - 1), n \in S PROVE n + 1 \in S
    <3>1. n + 1 \in 1..N /\ (n + 1) - 1 = n /\ attributes[n + 1] \in T
      BY <1>1
    <3>2. kept[n + 1] \in {kept[n], Append(kept[n], attributes[n + 1])}
      BY <1>7, <3>1
    <3>3. kept[n] \in Seq(T) /\ Len(kept[n]) <= n
      BY <2>2 DEF X
    <3>4. Append(kept[n], attributes[n + 1]) \in Seq(T)
          /\ Len(Append(kept[n], attributes[n + 1])) = Len(kept[n]) + 1
      BY <3>1, <3>3
    <3>5. kept[n + 1] \in Seq(T) /\ Len(kept[n + 1]) <= n + 1
      <4>1. n \in Nat /\ Len(kept[n]) \in Nat
        BY <1>1, <3>3
      <4>2. CASE kept[n + 1] = kept[n]
        BY <3>3, <4>1, <4>2
      <4>3. CASE kept[n + 1] = Append(kept[n], attributes[n + 1])
        BY <3>3, <3>4, <4>1, <4>3
      <4> QED BY <3>2, <4>2, <4>3
    <3> QED BY <3>1, <3>5 DEF X
  <2> HIDE DEF S
  <2>3. \A n \in 0..N : n \in S
    BY <1>1, <2>1, <2>2, TurnInduction
  <2> QED BY <2>3 DEF S
<1> QED BY <1>6, <1>7, <1>8 DEF X, IsKept

\* Without's type.
LEMMA WithoutType ==
  ASSUME NEW T, NEW attributes \in Seq(T), NEW names
  PROVE  /\ Without(attributes, names) \in Seq(T)
         /\ Len(Without(attributes, names)) <= Len(attributes)
<1>1. Len(attributes) \in 0..Len(attributes)
  OBVIOUS
<1>2. PICK kept : IsKept(kept, T, attributes, names)
  BY WithoutTurns
<1> QED BY <1>1, <1>2 DEF IsKept

\* Of no attributes none are left.
LEMMA WithoutEmpty == ASSUME NEW names PROVE Without(<<>>, names) = <<>>
<1> DEFINE none == <<>>
<1>1. none \in Seq({}) /\ Len(none) = 0
  OBVIOUS
<1> HIDE DEF none
<1>2. PICK kept : IsKept(kept, {}, none, names)
  BY <1>1, WithoutTurns
<1>3. Without(none, names) = <<>>
  BY <1>1, <1>2 DEF IsKept
<1> QED BY <1>3 DEF none

\* An attribute more is left, or left out.
LEMMA WithoutAppend ==
  ASSUME NEW T, NEW attributes \in Seq(T), NEW attr \in T, NEW names
  PROVE  Without(Append(attributes, attr), names)
           = IF attr.name \in names THEN Without(attributes, names)
             ELSE Append(Without(attributes, names), attr)
<1> DEFINE longer == Append(attributes, attr)
           N == Len(attributes)
<1>1. /\ N \in Nat /\ longer \in Seq(T) /\ Len(longer) = N + 1
      /\ \A n \in 1..N : longer[n] = attributes[n]
      /\ longer[N + 1] = attr
  OBVIOUS
<1> HIDE DEF longer
<1>2. PICK f : IsKept(f, T, attributes, names)
  BY WithoutTurns
<1>3. /\ Without(attributes, names) = f[N]
      /\ f[0] = <<>>
      /\ \A n \in 1..N : f[n] = IF attributes[n].name \in names THEN f[n - 1]
                                ELSE Append(f[n - 1], attributes[n])
  BY <1>2 DEF IsKept
<1>4. PICK g : IsKept(g, T, longer, names)
  BY <1>1, WithoutTurns
<1>5. /\ Without(longer, names) = g[N + 1]
      /\ g[0] = <<>>
      /\ \A n \in 1..(N + 1) : g[n] = IF longer[n].name \in names THEN g[n - 1]
                                      ELSE Append(g[n - 1], longer[n])
  BY <1>1, <1>4 DEF IsKept
<1> DEFINE S == {n \in 0..N : f[n] = g[n]}
<1> HIDE DEF N
<1>6. 0 \in S
  BY <1>1, <1>3, <1>5
<1>7. ASSUME NEW n \in 0..(N - 1), n \in S PROVE n + 1 \in S
  <2>1. n + 1 \in 1..N /\ n + 1 \in 1..(N + 1) /\ (n + 1) - 1 = n /\ n + 1 \in 0..N
    BY <1>1
  <2>2. longer[n + 1] = attributes[n + 1]
    BY <1>1, <2>1
  <2>3. f[n + 1] = g[n + 1]
    BY <1>3, <1>5, <1>7, <2>1, <2>2
  <2> QED BY <2>1, <2>3
<1>8. f[N] = g[N]
  <2> HIDE DEF S
  <2>1. \A n \in 0..N : n \in S
    BY <1>1, <1>6, <1>7, TurnInduction
  <2> QED BY <1>1, <2>1 DEF S
<1>9. N + 1 \in 1..(N + 1) /\ (N + 1) - 1 = N
  BY <1>1
<1> QED BY <1>1, <1>3, <1>5, <1>8, <1>9 DEF longer

\* A set of lists that has the empty one and with each list those with one more
\* element has all: an induction over the prefixes.
LEMMA ListInduction ==
  ASSUME NEW T, NEW list \in Seq(T), NEW S, <<>> \in S,
         \A s \in Seq(T) : \A x \in T : s \in S => Append(s, x) \in S
  PROVE  list \in S
<1> DEFINE N == Len(list)
           Prefix(n) == SubSeq(list, 1, n)
           C == {n \in 0..N : Prefix(n) \in S}
<1>1. N \in Nat
  OBVIOUS
<1>2. 0 \in C
  <2>1. Prefix(0) = <<>>
    OBVIOUS
  <2> HIDE DEF Prefix
  <2> QED BY <1>1, <2>1
<1>3. ASSUME NEW n \in 0..(N - 1), n \in C PROVE n + 1 \in C
  <2>1. /\ Prefix(n + 1) = Append(Prefix(n), list[n + 1])
        /\ Prefix(n) \in Seq(T) /\ list[n + 1] \in T
    BY <1>1, PrefixNext
  <2>2. Prefix(n) \in S
    BY <1>3
  <2>3. n + 1 \in 0..N
    BY <1>1
  <2> HIDE DEF Prefix
  <2>4. Prefix(n + 1) \in S
    BY <2>1, <2>2, Zenon
  <2> QED BY <2>3, <2>4
<1> HIDE DEF C
<1>4. N \in C
  <2>1. \A n \in 0..N : n \in C
    BY <1>1, <1>2, <1>3, TurnInduction
  <2> QED BY <1>1, <2>1
<1>5. Prefix(N) = list
  OBVIOUS
<1> QED BY <1>4, <1>5 DEF C

\* Leaving out some names and then others.
LEMMA WithoutTwice ==
  ASSUME NEW T, NEW list \in Seq(T), NEW A, NEW B
  PROVE  Without(list, A \cup B) = Without(Without(list, A), B)
<1> DEFINE S == {s \in Seq(T) : Without(s, A \cup B) = Without(Without(s, A), B)}
<1>1. <<>> \in S
  BY WithoutEmpty
<1>2. ASSUME NEW s \in Seq(T), s \in S, NEW x \in T PROVE Append(s, x) \in S
  <2>1. Without(s, A) \in Seq(T)
    BY WithoutType
  <2>2. Without(Append(s, x), A \cup B)
          = IF x.name \in A \cup B THEN Without(s, A \cup B)
            ELSE Append(Without(s, A \cup B), x)
    BY WithoutAppend
  <2>3. Without(Append(s, x), A)
          = IF x.name \in A THEN Without(s, A) ELSE Append(Without(s, A), x)
    BY WithoutAppend
  <2>4. Without(Append(Without(s, A), x), B)
          = IF x.name \in B THEN Without(Without(s, A), B)
            ELSE Append(Without(Without(s, A), B), x)
    BY <2>1, WithoutAppend
  <2>5. Append(s, x) \in Seq(T)
    OBVIOUS
  <2> QED BY <1>2, <2>2, <2>3, <2>4, <2>5
<1> HIDE DEF S
<1>3. list \in S
  BY <1>1, <1>2, ListInduction
<1> QED BY <1>3 DEF S

\* Lists that differ in attributes of these names only.
LEMMA WithoutSame ==
  ASSUME NEW T, NEW s \in Seq(T), NEW t \in Seq(T), Len(s) = Len(t), NEW names,
         \A i \in 1..Len(s) : s[i].name = t[i].name /\ (s[i].name \notin names => s[i] = t[i])
  PROVE  Without(s, names) = Without(t, names)
<1> DEFINE N == Len(s)
<1>1. N \in Nat
  OBVIOUS
<1>2. (\E f : IsKept(f, T, s, names)) /\ (\E g : IsKept(g, T, t, names))
  BY WithoutTurns
<1> PICK f : IsKept(f, T, s, names)
  BY <1>2
<1> PICK g : IsKept(g, T, t, names)
  BY <1>2
<1>3. /\ Without(s, names) = f[N]
      /\ f[0] = <<>>
      /\ \A n \in 1..N : f[n] = IF s[n].name \in names THEN f[n - 1]
                                ELSE Append(f[n - 1], s[n])
  BY DEF IsKept
<1>4. /\ Without(t, names) = g[N]
      /\ g[0] = <<>>
      /\ \A n \in 1..N : g[n] = IF t[n].name \in names THEN g[n - 1]
                                ELSE Append(g[n - 1], t[n])
  BY DEF IsKept
<1> DEFINE S == {n \in 0..N : f[n] = g[n]}
<1>5. 0 \in S
  BY <1>1, <1>3, <1>4
<1>6. ASSUME NEW n \in 0..(N - 1), n \in S PROVE n + 1 \in S
  <2>1. n + 1 \in 1..N /\ (n + 1) - 1 = n /\ n + 1 \in 0..N
    BY <1>1
  <2>2. f[n + 1] = g[n + 1]
    BY <1>3, <1>4, <1>6, <2>1
  <2> QED BY <2>1, <2>2
<1> HIDE DEF S
<1>7. \A n \in 0..N : n \in S
  BY <1>1, <1>5, <1>6, TurnInduction
<1> QED BY <1>1, <1>3, <1>4, <1>7 DEF S

-----------------------------------------------------------------------------
(* What is found in a list.                                                *)

\* A name that a list has is found at the first place that has it.
LEMMA FindFacts ==
  ASSUME NEW T, NEW c \in Seq(T), NEW name, name \in Names(c)
  PROVE  LET found == FindAttrByName(c, name)
         IN  /\ found \in 1..Len(c)
             /\ c[found].name = name
             /\ \A j \in 1..(found - 1) : c[j].name # name
<1> DEFINE I == {i \in 1..Len(c) : c[i].name = name}
           found == FindAttrByName(c, name)
<1>1. I # {} /\ I \subseteq Nat
  BY DEF Names
<1>2. PICK n \in I : \A m \in I : ~(<<m, n>> \in OpToRel(<, Nat))
  <2> HIDE DEF I
  <2> QED BY <1>1, NatLessThanWellFounded, WFMin, Zenon
<1>3. \A m \in I : n <= m
  <2>1. n \in Nat
    BY <1>1
  <2> SUFFICES ASSUME NEW m \in I PROVE n <= m
    OBVIOUS
  <2>2. ~(m < n)
    BY <1>1, <1>2 DEF OpToRel
  <2>3. m \in Nat
    BY <1>1
  <2> HIDE DEF I
  <2> QED BY <2>1, <2>2, <2>3
<1>4. found = Min(I)
  BY <1>1 DEF FindAttrByName, SelectInSeq
<1>5. found \in I /\ \A m \in I : found <= m
  <2> HIDE DEF I, found
  <2> QED BY <1>3, <1>4 DEF Min
<1> HIDE DEF found
<1>6. found \in 1..Len(c) /\ c[found].name = name
  BY <1>5
<1>7. ASSUME NEW j \in 1..(found - 1) PROVE c[j].name # name
  <2>1. j \in 1..Len(c) /\ ~(found <= j)
    BY <1>6
  <2> QED BY <1>5, <2>1
<1> QED BY <1>6, <1>7 DEF found

\* One that it lacks is not found.
LEMMA FindNone ==
  ASSUME NEW T, NEW c \in Seq(T), NEW name, name \notin Names(c)
  PROVE  FindAttrByName(c, name) = 0
BY DEF FindAttrByName, SelectInSeq, Names

\* What Get finds.
LEMMA GetFacts ==
  ASSUME NEW T, NEW c \in Seq(T), NEW name, NEW attr \in Get(c, name)
  PROVE  \E i \in 1..Len(c) : /\ attr = c[i] /\ c[i].name = name
                              /\ \A j \in 1..(i - 1) : c[j].name # name
<1> DEFINE found == FindAttrByName(c, name)
<1>1. found # 0 /\ attr = c[found]
  BY DEF Get
<1>2. name \in Names(c)
  BY <1>1, FindNone
<1>3. /\ found \in 1..Len(c) /\ c[found].name = name
      /\ \A j \in 1..(found - 1) : c[j].name # name
  BY <1>2, FindFacts
<1> HIDE DEF found
<1> QED BY <1>1, <1>3

\* Get finds the first attribute of the name.
LEMMA GetFirst ==
  ASSUME NEW T, NEW c \in Seq(T), NEW i \in 1..Len(c), NEW name, c[i].name = name,
         \A j \in 1..(i - 1) : c[j].name # name
  PROVE  Get(c, name) = {c[i]}
<1> DEFINE found == FindAttrByName(c, name)
<1>1. name \in Names(c)
  BY DEF Names
<1>2. /\ found \in 1..Len(c) /\ c[found].name = name
      /\ \A j \in 1..(found - 1) : c[j].name # name
  BY <1>1, FindFacts
<1>3. Get(c, name) = IF found = 0 THEN {} ELSE {c[found]}
  BY DEF Get
<1> HIDE DEF found
<1>4. found = i
  <2>1. ~(i \in 1..(found - 1)) /\ ~(found \in 1..(i - 1))
    BY <1>2
  <2> QED BY <1>2, <2>1
<1> QED BY <1>2, <1>3, <1>4

\* Of a name the list lacks it finds none.
LEMMA GetNone ==
  ASSUME NEW T, NEW c \in Seq(T), NEW name, name \notin Names(c)
  PROVE  Get(c, name) = {}
BY FindNone DEF Get

-----------------------------------------------------------------------------
(* Names and lists.                                                        *)

AttributeNames == STRING \cup {""}

\* The names of a list are a sequence as long as it.
LEMMA NamesOfType ==
  ASSUME NEW c \in Seq(AttributeInfo)
  PROVE  /\ NamesOf(c) \in Seq(AttributeNames) /\ Len(NamesOf(c)) = Len(c)
         /\ \A i \in 1..Len(c) : NamesOf(c)[i] = c[i].name
<1>1. DOMAIN c = 1..Len(c) /\ Len(c) \in Nat
  OBVIOUS
<1>2. \A i \in 1..Len(c) : c[i].name \in AttributeNames
  <2> SUFFICES ASSUME NEW i \in 1..Len(c) PROVE c[i].name \in AttributeNames
    OBVIOUS
  <2>1. c[i] \in AttributeInfo
    OBVIOUS
  <2> QED BY <2>1 DEF AttributeInfo, AttributeNames
<1>3. NamesOf(c) = [i \in 1..Len(c) |-> c[i].name]
  BY <1>1 DEF NamesOf
<1> HIDE DEF AttributeNames
<1> QED BY <1>1, <1>2, <1>3

\* A name is in the list, or in its sequence of names.
LEMMA NamesFacts ==
  ASSUME NEW c \in Seq(AttributeInfo), NEW name
  PROVE  /\ name \in Names(c) <=> \E i \in 1..Len(c) : c[i].name = name
         /\ name \in Names(c) <=> \E i \in 1..Len(NamesOf(c)) : NamesOf(c)[i] = name
<1>1. DOMAIN c = 1..Len(c)
  OBVIOUS
<1>2. name \in Names(c) <=> \E i \in 1..Len(c) : c[i].name = name
  BY <1>1 DEF Names
<1> QED BY <1>2, NamesOfType

\* Of a list and one that is joined to it.
LEMMA NamesOfConcat ==
  ASSUME NEW c \in Seq(AttributeInfo), NEW d \in Seq(AttributeInfo)
  PROVE  /\ NamesOf(c \o d) = NamesOf(c) \o NamesOf(d)
         /\ Names(c \o d) = Names(c) \cup Names(d)
<1>1. /\ c \o d \in Seq(AttributeInfo) /\ Len(c \o d) = Len(c) + Len(d)
      /\ \A i \in 1..(Len(c) + Len(d)) :
           (c \o d)[i] = IF i <= Len(c) THEN c[i] ELSE d[i - Len(c)]
      /\ Len(c) \in Nat /\ Len(d) \in Nat
  BY ConcatProperties
<1>2. /\ NamesOf(c) \in Seq(AttributeNames) /\ Len(NamesOf(c)) = Len(c)
      /\ \A i \in 1..Len(c) : NamesOf(c)[i] = c[i].name
      /\ NamesOf(d) \in Seq(AttributeNames) /\ Len(NamesOf(d)) = Len(d)
      /\ \A i \in 1..Len(d) : NamesOf(d)[i] = d[i].name
  BY NamesOfType
<1>3. /\ NamesOf(c \o d) \in Seq(AttributeNames) /\ Len(NamesOf(c \o d)) = Len(c) + Len(d)
      /\ \A i \in 1..(Len(c) + Len(d)) : NamesOf(c \o d)[i] = (c \o d)[i].name
  BY <1>1, NamesOfType
<1>4. /\ NamesOf(c) \o NamesOf(d) \in Seq(AttributeNames)
      /\ Len(NamesOf(c) \o NamesOf(d)) = Len(c) + Len(d)
      /\ \A i \in 1..(Len(c) + Len(d)) :
           (NamesOf(c) \o NamesOf(d))[i]
             = IF i <= Len(c) THEN NamesOf(c)[i] ELSE NamesOf(d)[i - Len(c)]
  <2> DEFINE p == NamesOf(c)
             q == NamesOf(d)
  <2>1. p \in Seq(AttributeNames) /\ q \in Seq(AttributeNames)
    BY <1>2
  <2> HIDE DEF p, q
  <2>2. /\ p \o q \in Seq(AttributeNames)
        /\ Len(p \o q) = Len(p) + Len(q)
        /\ \A i \in 1..(Len(p) + Len(q)) :
             (p \o q)[i] = IF i <= Len(p) THEN p[i] ELSE q[i - Len(p)]
    BY <2>1, ConcatProperties
  <2>3. Len(p) = Len(c) /\ Len(q) = Len(d)
    BY <1>2 DEF p, q
  <2> QED BY <2>2, <2>3 DEF p, q
<1>5. ASSUME NEW i \in 1..(Len(c) + Len(d))
      PROVE  NamesOf(c \o d)[i] = (NamesOf(c) \o NamesOf(d))[i]
  <2>1. CASE i <= Len(c)
    <3>1. i \in 1..Len(c)
      BY <1>1, <2>1
    <3> QED BY <1>1, <1>2, <1>3, <1>4, <2>1, <3>1
  <2>2. CASE ~(i <= Len(c))
    <3>1. i - Len(c) \in 1..Len(d)
      BY <1>1, <2>2
    <3> QED BY <1>1, <1>2, <1>3, <1>4, <2>2, <3>1
  <2> QED BY <2>1, <2>2
<1>6. NamesOf(c \o d) = NamesOf(c) \o NamesOf(d)
  BY <1>3, <1>4, <1>5, SeqEqual
<1>7. ASSUME NEW name PROVE name \in Names(c \o d) <=> name \in Names(c) \cup Names(d)
  <2>1. /\ name \in Names(c \o d)
             <=> \E i \in 1..(Len(c) + Len(d)) : (c \o d)[i].name = name
        /\ name \in Names(c) <=> \E i \in 1..Len(c) : c[i].name = name
        /\ name \in Names(d) <=> \E i \in 1..Len(d) : d[i].name = name
    <3>1. name \in Names(c \o d)
            <=> \E i \in 1..Len(c \o d) : (c \o d)[i].name = name
      BY <1>1, NamesFacts, Zenon
    <3>2. /\ name \in Names(c) <=> \E i \in 1..Len(c) : c[i].name = name
          /\ name \in Names(d) <=> \E i \in 1..Len(d) : d[i].name = name
      BY NamesFacts, Zenon
    <3> QED BY <1>1, <3>1, <3>2, Zenon
  <2>2. \A i \in 1..Len(c) : i \in 1..(Len(c) + Len(d)) /\ (c \o d)[i] = c[i]
    BY <1>1
  <2>3. \A i \in 1..Len(d) : /\ Len(c) + i \in 1..(Len(c) + Len(d))
                             /\ (c \o d)[Len(c) + i] = d[i]
    <3> SUFFICES ASSUME NEW i \in 1..Len(d)
                 PROVE  /\ Len(c) + i \in 1..(Len(c) + Len(d))
                        /\ (c \o d)[Len(c) + i] = d[i]
      OBVIOUS
    <3>1. /\ Len(c) + i \in 1..(Len(c) + Len(d))
          /\ ~(Len(c) + i <= Len(c)) /\ (Len(c) + i) - Len(c) = i
      BY <1>1
    <3> QED BY <1>1, <3>1
  <2>4. \A i \in 1..(Len(c) + Len(d)) :
          \/ i \in 1..Len(c) /\ (c \o d)[i] = c[i]
          \/ i - Len(c) \in 1..Len(d) /\ (c \o d)[i] = d[i - Len(c)]
    BY <1>1
  <2> QED BY <2>1, <2>2, <2>3, <2>4
<1> QED BY <1>6, <1>7

-----------------------------------------------------------------------------
(* A value overwritten.                                                    *)

\* The list in which the first attribute of that name has the value.
Overridden(c, attr) == [c EXCEPT ![FindAttrByName(c, attr.name)].value = attr.value]

\* It differs from the list at that place only, where the attribute is now.
LEMMA OverriddenFacts ==
  ASSUME NEW c \in Seq(AttributeInfo), NEW attr \in AttributeInfo, attr.name \in Names(c)
  PROVE  LET found == FindAttrByName(c, attr.name)
             after == Overridden(c, attr)
         IN  /\ after \in Seq(AttributeInfo) /\ Len(after) = Len(c)
             /\ found \in 1..Len(c) /\ c[found].name = attr.name /\ after[found] = attr
             /\ \A i \in 1..Len(c) : i # found => after[i] = c[i]
             /\ \A i \in 1..Len(c) : after[i].name = c[i].name
             /\ \A i \in 1..(found - 1) : c[i].name # attr.name
<1> DEFINE found == FindAttrByName(c, attr.name)
           after == Overridden(c, attr)
           entry == [c[found] EXCEPT !.value = attr.value]
<1>1. /\ found \in 1..Len(c) /\ c[found].name = attr.name
      /\ \A i \in 1..(found - 1) : c[i].name # attr.name
  BY FindFacts
<1>2. after = [c EXCEPT ![found] = entry]
  BY DEF Overridden
<1> HIDE DEF found, after
<1>3. entry = attr
  <2>1. c[found] \in AttributeInfo
    BY <1>1
  <2> QED BY <1>1, <2>1 DEF AttributeInfo
<1>4. after = [c EXCEPT ![found] = attr]
  BY <1>2, <1>3
<1> HIDE DEF entry
<1>5. after \in Seq(AttributeInfo) /\ Len(after) = Len(c) /\ after[found] = attr
  BY <1>1, <1>4
<1>6. \A i \in 1..Len(c) : i # found => after[i] = c[i]
  BY <1>1, <1>4
<1>7. \A i \in 1..Len(c) : after[i].name = c[i].name
  BY <1>1, <1>5, <1>6
<1> QED BY <1>1, <1>5, <1>6, <1>7 DEF found, after

\* The names are what they were, and so are the other attributes.
LEMMA OverriddenNames ==
  ASSUME NEW c \in Seq(AttributeInfo), NEW attr \in AttributeInfo, attr.name \in Names(c),
         NEW names, attr.name \in names
  PROVE  /\ NamesOf(Overridden(c, attr)) = NamesOf(c)
         /\ Without(Overridden(c, attr), names) = Without(c, names)
<1> DEFINE after == Overridden(c, attr)
           found == FindAttrByName(c, attr.name)
<1>1. /\ after \in Seq(AttributeInfo) /\ Len(after) = Len(c)
      /\ found \in 1..Len(c) /\ c[found].name = attr.name
      /\ \A i \in 1..Len(c) : i # found => after[i] = c[i]
      /\ \A i \in 1..Len(c) : after[i].name = c[i].name
  BY OverriddenFacts
<1> HIDE DEF after, found
<1>2. NamesOf(after) = NamesOf(c)
  <2>1. DOMAIN after = 1..Len(c) /\ DOMAIN c = 1..Len(c)
    BY <1>1
  <2> QED BY <1>1, <2>1 DEF NamesOf
<1>3. \A i \in 1..Len(after) : /\ after[i].name = c[i].name
                               /\ after[i].name \notin names => after[i] = c[i]
  BY <1>1
<1>4. Without(after, names) = Without(c, names)
  BY <1>1, <1>3, WithoutSame
<1> QED BY <1>2, <1>4 DEF after

\* Get finds the attribute under its name, and under another what it found before.
LEMMA OverriddenGet ==
  ASSUME NEW c \in Seq(AttributeInfo), NEW attr \in AttributeInfo, attr.name \in Names(c),
         NEW name, NEW x \in Get(Overridden(c, attr), name)
  PROVE  x = attr \/ x \in Get(c, name)
<1> DEFINE after == Overridden(c, attr)
           found == FindAttrByName(c, attr.name)
<1>1. /\ after \in Seq(AttributeInfo) /\ Len(after) = Len(c)
      /\ found \in 1..Len(c) /\ after[found] = attr
      /\ \A i \in 1..Len(c) : i # found => after[i] = c[i]
      /\ \A i \in 1..Len(c) : after[i].name = c[i].name
  BY OverriddenFacts
<1>2. PICK i \in 1..Len(after) : /\ x = after[i] /\ after[i].name = name
                                 /\ \A j \in 1..(i - 1) : after[j].name # name
  BY <1>1, GetFacts
<1> HIDE DEF after, found
<1>3. CASE i = found
  BY <1>1, <1>2, <1>3
<1>4. CASE i # found
  <2>1. i \in 1..Len(c) /\ x = c[i] /\ c[i].name = name
    BY <1>1, <1>2, <1>4
  <2>2. ASSUME NEW j \in 1..(i - 1) PROVE c[j].name # name
    <3>1. j \in 1..Len(c)
      BY <2>1
    <3> QED BY <1>1, <1>2, <3>1
  <2>3. Get(c, name) = {c[i]}
    BY <2>1, <2>2, GetFirst
  <2> QED BY <2>1, <2>3
<1> QED BY <1>3, <1>4

-----------------------------------------------------------------------------
(* Lists joined.                                                           *)

\* What is left is of the list, and has none of the names.
LEMMA WithoutElements ==
  ASSUME NEW c \in Seq(AttributeInfo), NEW names, NEW i \in 1..Len(Without(c, names))
  PROVE  /\ Without(c, names)[i] \in AttributeInfo
         /\ Without(c, names)[i].name \notin names
         /\ \E j \in 1..Len(c) : c[j] = Without(c, names)[i]
<1> DEFINE T == {c[j] : j \in 1..Len(c)}
           left == Without(c, names)
           S == {s \in Seq(T) : Without(s, names) \in Seq({x \in T : x.name \notin names})}
<1>1. c \in Seq(T)
  OBVIOUS
<1> HIDE DEF T
<1>2. <<>> \in S
  <2> DEFINE U == {x \in T : x.name \notin names}
  <2> HIDE DEF U
  <2>1. Without(<<>>, names) = <<>>
    BY WithoutEmpty, Zenon
  <2>2. <<>> \in Seq(T) /\ <<>> \in Seq(U)
    OBVIOUS
  <2> QED BY <2>1, <2>2, Zenon DEF U
<1>3. ASSUME NEW s \in Seq(T), s \in S, NEW x \in T PROVE Append(s, x) \in S
  <2>1. Without(Append(s, x), names)
          = IF x.name \in names THEN Without(s, names) ELSE Append(Without(s, names), x)
    BY WithoutAppend
  <2>2. Append(s, x) \in Seq(T)
    OBVIOUS
  <2> DEFINE U == {y \in T : y.name \notin names}
             w == Without(s, names)
  <2>3. w \in Seq(U)
    BY <1>3
  <2>4. x.name \notin names => x \in U
    OBVIOUS
  <2> HIDE DEF U, w
  <2>5. x.name \notin names => Append(w, x) \in Seq(U)
    BY <2>3, <2>4
  <2>6. Without(Append(s, x), names) \in Seq(U)
    BY <2>1, <2>3, <2>5 DEF w
  <2> QED BY <2>2, <2>6 DEF U
<1> HIDE DEF S
<1>4. c \in S
  BY <1>1, <1>2, <1>3, ListInduction
<1>5. left[i] \in T /\ left[i].name \notin names
  <2>1. left \in Seq({x \in T : x.name \notin names})
    BY <1>4 DEF S
  <2> QED BY <2>1
<1>6. T \subseteq AttributeInfo
  BY DEF T
<1> QED BY <1>5, <1>6 DEF T

\* What has the names does not show without them.
LEMMA WithoutConcat ==
  ASSUME NEW c \in Seq(AttributeInfo), NEW d \in Seq(AttributeInfo), NEW names,
         \A i \in 1..Len(d) : d[i].name \in names
  PROVE  Without(c \o d, names) = Without(c, names)
<1> DEFINE T == {x \in AttributeInfo : x.name \in names}
           S == {s \in Seq(T) : Without(c \o s, names) = Without(c, names)}
<1>1. d \in Seq(T)
  OBVIOUS
<1>2. <<>> \in S
  <2>1. c \o <<>> = c
    OBVIOUS
  <2> QED BY <2>1
<1>3. ASSUME NEW s \in Seq(T), s \in S, NEW x \in T PROVE Append(s, x) \in S
  <2>1. s \in Seq(AttributeInfo) /\ x \in AttributeInfo /\ x.name \in names
    OBVIOUS
  <2>2. c \o s \in Seq(AttributeInfo)
    BY <2>1
  <2>3. c \o Append(s, x) = Append(c \o s, x)
    BY <2>1
  <2>4. Without(Append(c \o s, x), names) = Without(c \o s, names)
    BY <2>1, <2>2, WithoutAppend
  <2>5. Without(c \o Append(s, x), names) = Without(c, names)
    BY <1>3, <2>3, <2>4, Zenon
  <2>6. Append(s, x) \in Seq(T)
    OBVIOUS
  <2> QED BY <2>5, <2>6
<1> HIDE DEF S, T
<1>4. d \in S
  BY <1>1, <1>2, <1>3, ListInduction
<1> QED BY <1>4 DEF S

-----------------------------------------------------------------------------
(* Names each once.                                                        *)

\* What Distinct has kept after each turn.
DistinctIn(kept, names) ==
  kept = [n \in 0..Len(names) |->
            IF n = 0 THEN <<>>
            ELSE IF names[n] \in Range(kept[n - 1]) THEN kept[n - 1]
            ELSE Append(kept[n - 1], names[n])]

\* These are lists, and the last is its result.
IsDistinct(kept, T, names) ==
  /\ Distinct(names) = kept[Len(names)]
  /\ kept[0] = <<>>
  /\ \A n \in 0..Len(names) : kept[n] \in Seq(T)
  /\ \A n \in 1..Len(names) :
       kept[n] = IF names[n] \in Range(kept[n - 1]) THEN kept[n - 1]
                 ELSE Append(kept[n - 1], names[n])

\* Such is the function in Distinct's definition.
LEMMA DistinctTurns ==
  ASSUME NEW T, NEW names \in Seq(T)
  PROVE  \E kept : IsDistinct(kept, T, names)
<1> DEFINE N == Len(names)
           X == Seq(T)
           step == [p \in X \X (1..N) |-> IF names[p[2]] \in Range(p[1]) THEN p[1]
                                          ELSE Append(p[1], names[p[2]])]
<1>1. N \in Nat /\ <<>> \in X /\ \A n \in 1..N : names[n] \in T
  OBVIOUS
<1>2. step \in [X \X (1..N) -> X]
  BY <1>1
<1> HIDE DEF X, step
<1>3. PICK f \in [0..N -> X] : IsLoop(f, N, <<>>, step)
  <2>1. N \in Nat /\ <<>> \in X
    BY <1>1 DEF X
  <2> QED BY <1>2, <2>1, LoopExists
<1>4. DistinctIn(f, names)
  <2>1. ASSUME NEW n \in 0..N, n # 0
        PROVE  step[<<f[n - 1], n>>] = IF names[n] \in Range(f[n - 1]) THEN f[n - 1]
                                       ELSE Append(f[n - 1], names[n])
    <3>1. f[n - 1] \in X /\ n \in 1..N
      BY <1>1, <2>1
    <3> QED BY <3>1 DEF step
  <2>2. [n \in 0..N |-> IF n = 0 THEN <<>> ELSE step[<<f[n - 1], n>>]]
          = [n \in 0..N |-> IF n = 0 THEN <<>>
                            ELSE IF names[n] \in Range(f[n - 1]) THEN f[n - 1]
                            ELSE Append(f[n - 1], names[n])]
    BY <2>1
  <2> QED BY <1>3, <2>2, Zenon DEF DistinctIn, IsLoop
<1> DEFINE kept == CHOOSE k : DistinctIn(k, names)
<1>5. DistinctIn(kept, names)
  BY <1>4, Zenon
<1>6. Distinct(names) = kept[N]
  BY Zenon DEF Distinct, DistinctIn
<1> HIDE DEF kept
<1>7. /\ kept[0] = <<>>
      /\ \A n \in 1..N : kept[n] = IF names[n] \in Range(kept[n - 1]) THEN kept[n - 1]
                                   ELSE Append(kept[n - 1], names[n])
  <2> DEFINE Turn(n) == IF n = 0 THEN <<>>
                        ELSE IF names[n] \in Range(kept[n - 1]) THEN kept[n - 1]
                        ELSE Append(kept[n - 1], names[n])
  <2>1. kept = [n \in 0..N |-> Turn(n)]
    BY <1>5 DEF DistinctIn
  <2> HIDE DEF Turn
  <2>2. \A n \in 0..N : kept[n] = Turn(n)
    BY <2>1
  <2> USE DEF Turn
  <2>3. kept[0] = <<>>
    BY <1>1, <2>2
  <2>4. \A n \in 1..N : n \in 0..N /\ n # 0
    BY <1>1
  <2> QED BY <2>2, <2>3, <2>4
<1>8. \A n \in 0..N : kept[n] \in X
  <2> DEFINE S == {n \in 0..N : kept[n] \in X}
  <2>1. 0 \in S
    BY <1>1, <1>7
  <2>2. ASSUME NEW n \in 0..(N - 1), n \in S PROVE n + 1 \in S
    <3>1. n + 1 \in 1..N /\ n + 1 \in 0..N /\ (n + 1) - 1 = n /\ names[n + 1] \in T
      BY <1>1
    <3>2. kept[n + 1] \in {kept[n], Append(kept[n], names[n + 1])}
      BY <1>7, <3>1
    <3>3. kept[n] \in Seq(T)
      BY <2>2 DEF X
    <3>4. Append(kept[n], names[n + 1]) \in Seq(T)
      BY <3>1, <3>3
    <3> QED BY <3>1, <3>2, <3>3, <3>4 DEF X
  <2> HIDE DEF S
  <2>3. \A n \in 0..N : n \in S
    BY <1>1, <2>1, <2>2, TurnInduction
  <2> QED BY <2>3 DEF S
<1> QED BY <1>6, <1>7, <1>8 DEF X, IsDistinct

\* Of no names there are none.
LEMMA DistinctEmpty == Distinct(<<>>) = <<>>
<1> DEFINE none == <<>>
<1>1. none \in Seq({}) /\ Len(none) = 0
  OBVIOUS
<1> HIDE DEF none
<1>2. PICK kept : IsDistinct(kept, {}, none)
  BY <1>1, DistinctTurns
<1>3. Distinct(none) = <<>>
  BY <1>1, <1>2 DEF IsDistinct
<1> QED BY <1>3 DEF none

\* A name more is added unless it is there.
LEMMA DistinctAppend ==
  ASSUME NEW T, NEW names \in Seq(T), NEW name \in T
  PROVE  /\ Distinct(names) \in Seq(T)
         /\ Distinct(Append(names, name))
              = IF name \in Range(Distinct(names)) THEN Distinct(names)
                ELSE Append(Distinct(names), name)
<1> DEFINE longer == Append(names, name)
           N == Len(names)
<1>1. /\ N \in Nat /\ longer \in Seq(T) /\ Len(longer) = N + 1
      /\ \A n \in 1..N : longer[n] = names[n]
      /\ longer[N + 1] = name
  OBVIOUS
<1> HIDE DEF longer
<1>2. (\E f : IsDistinct(f, T, names)) /\ (\E g : IsDistinct(g, T, longer))
  BY <1>1, DistinctTurns
<1> PICK f : IsDistinct(f, T, names)
  BY <1>2
<1> PICK g : IsDistinct(g, T, longer)
  BY <1>2
<1>3. /\ Distinct(names) = f[N]
      /\ f[0] = <<>> /\ f[N] \in Seq(T)
      /\ \A n \in 1..N : f[n] = IF names[n] \in Range(f[n - 1]) THEN f[n - 1]
                                ELSE Append(f[n - 1], names[n])
  BY <1>1 DEF IsDistinct
<1>4. /\ Distinct(longer) = g[N + 1]
      /\ g[0] = <<>>
      /\ \A n \in 1..(N + 1) : g[n] = IF longer[n] \in Range(g[n - 1]) THEN g[n - 1]
                                      ELSE Append(g[n - 1], longer[n])
  BY <1>1 DEF IsDistinct
<1> DEFINE S == {n \in 0..N : f[n] = g[n]}
<1> HIDE DEF N
<1>5. 0 \in S
  BY <1>1, <1>3, <1>4
<1>6. ASSUME NEW n \in 0..(N - 1), n \in S PROVE n + 1 \in S
  <2>1. n + 1 \in 1..N /\ n + 1 \in 1..(N + 1) /\ (n + 1) - 1 = n /\ n + 1 \in 0..N
    BY <1>1
  <2>2. longer[n + 1] = names[n + 1]
    BY <1>1, <2>1
  <2>3. f[n + 1] = g[n + 1]
    BY <1>3, <1>4, <1>6, <2>1, <2>2
  <2> QED BY <2>1, <2>3
<1>7. f[N] = g[N]
  <2> HIDE DEF S
  <2>1. \A n \in 0..N : n \in S
    BY <1>1, <1>5, <1>6, TurnInduction
  <2> QED BY <1>1, <2>1 DEF S
<1>8. N + 1 \in 1..(N + 1) /\ (N + 1) - 1 = N
  BY <1>1
<1> QED BY <1>1, <1>3, <1>4, <1>7, <1>8 DEF longer

-----------------------------------------------------------------------------
(* What the helpers' loops keep up: Joined, for the attributes so far.     *)

\* Names and values of the attributes so far and one more.
LEMMA SoFar ==
  ASSUME NEW u \in Seq(AttributeInfo), NEW attr \in AttributeInfo
  PROVE  /\ Append(u, attr) \in Seq(AttributeInfo)
         /\ Names(Append(u, attr)) = Names(u) \cup {attr.name}
         /\ NamesOf(Append(u, attr)) = Append(NamesOf(u), attr.name)
         /\ attr.value \in ValuesOf(Append(u, attr), attr.name)
         /\ \A name : ValuesOf(u, name) \subseteq ValuesOf(Append(u, attr), name)
<1> DEFINE longer == Append(u, attr)
<1>1. /\ longer \in Seq(AttributeInfo) /\ Len(longer) = Len(u) + 1 /\ Len(u) \in Nat
      /\ \A i \in 1..Len(u) : longer[i] = u[i]
      /\ longer[Len(u) + 1] = attr
  OBVIOUS
<1>2. /\ DOMAIN longer = 1..(Len(u) + 1) /\ DOMAIN u = 1..Len(u)
      /\ 1..(Len(u) + 1) = (1..Len(u)) \cup {Len(u) + 1}
  BY <1>1
<1>3. NamesOf(longer) = Append(NamesOf(u), attr.name)
  <2>1. /\ NamesOf(u) \in Seq(AttributeNames) /\ Len(NamesOf(u)) = Len(u)
        /\ \A i \in 1..Len(u) : NamesOf(u)[i] = u[i].name
    BY NamesOfType
  <2>2. /\ NamesOf(longer) \in Seq(AttributeNames) /\ Len(NamesOf(longer)) = Len(u) + 1
        /\ \A i \in 1..(Len(u) + 1) : NamesOf(longer)[i] = longer[i].name
    BY <1>1, NamesOfType
  <2>3. attr.name \in AttributeNames
    BY DEF AttributeInfo, AttributeNames
  <2> DEFINE p == NamesOf(u)
             q == NamesOf(longer)
  <2> HIDE DEF p, q, longer
  <2>4. /\ Append(p, attr.name) \in Seq(AttributeNames)
        /\ Len(Append(p, attr.name)) = Len(p) + 1
        /\ \A i \in 1..Len(p) : Append(p, attr.name)[i] = p[i]
        /\ Append(p, attr.name)[Len(p) + 1] = attr.name
    BY <2>1, <2>3, AppendProperties DEF p
  <2>5. Len(p) = Len(u) /\ \A i \in 1..Len(u) : p[i] = u[i].name
    BY <2>1 DEF p
  <2>6. ASSUME NEW i \in 1..(Len(u) + 1) PROVE q[i] = Append(p, attr.name)[i]
    BY <1>1, <1>2, <2>2, <2>4, <2>5 DEF q
  <2>7. q \in Seq(AttributeNames) /\ Len(q) = Len(u) + 1
    BY <2>2 DEF q
  <2>8. q = Append(p, attr.name)
    BY <2>4, <2>5, <2>6, <2>7, SeqEqual
  <2> QED BY <2>8 DEF p, q
<1> HIDE DEF longer
<1>4. Names(longer) = Names(u) \cup {attr.name}
  BY <1>1, <1>2 DEF Names
<1>5. attr.value \in ValuesOf(longer, attr.name)
  BY <1>1, <1>2 DEF ValuesOf
<1>6. \A name : ValuesOf(u, name) \subseteq ValuesOf(longer, name)
  BY <1>1, <1>2 DEF ValuesOf
<1> QED BY <1>1, <1>3, <1>4, <1>5, <1>6 DEF longer

\* Before the first attribute.
LEMMA JoinedStart ==
  ASSUME NEW b \in Seq(AttributeInfo)
  PROVE  Joined(b, <<>>, b, <<>>)
<1>1. NamesOf(b) \in Seq(AttributeNames)
  BY NamesOfType
<1>2. NamesOf(b) = NamesOf(b) \o <<>>
  <2> DEFINE p == NamesOf(b)
  <2> HIDE DEF p
  <2>1. p \in Seq(AttributeNames) => p \o <<>> = p
    OBVIOUS
  <2> QED BY <1>1, <2>1 DEF p
<1>3. Names(<<>>) = {}
  BY DEF Names
<1> QED BY <1>2, <1>3 DEF Joined

\* What is without the names so far, and then without one more.
LEMMA WithoutNext ==
  ASSUME NEW b \in Seq(AttributeInfo), NEW u \in Seq(AttributeInfo),
         NEW c \in Seq(AttributeInfo), NEW attr \in AttributeInfo,
         Without(c, Names(u)) = Without(b, Names(u))
  PROVE  Without(c, Names(Append(u, attr))) = Without(b, Names(Append(u, attr)))
<1>1. Names(Append(u, attr)) = Names(u) \cup {attr.name}
  BY SoFar
<1>2. /\ Without(c, Names(u) \cup {attr.name}) = Without(Without(c, Names(u)), {attr.name})
      /\ Without(b, Names(u) \cup {attr.name}) = Without(Without(b, Names(u)), {attr.name})
  BY WithoutTwice
<1> QED BY <1>1, <1>2, Zenon

\* An attribute whose name the list has gives its value to the first of that name.
LEMMA JoinedOverride ==
  ASSUME NEW b \in Seq(AttributeInfo), NEW u \in Seq(AttributeInfo),
         NEW c \in Seq(AttributeInfo), NEW new, NEW attr \in AttributeInfo,
         Joined(b, u, c, new), attr.name \in Names(c)
  PROVE  Joined(b, Append(u, attr), Overridden(c, attr), new)
<1> DEFINE longer == Append(u, attr)
           after == Overridden(c, attr)
<1>1. /\ Names(longer) = Names(u) \cup {attr.name}
      /\ attr.value \in ValuesOf(longer, attr.name)
      /\ \A name : ValuesOf(u, name) \subseteq ValuesOf(longer, name)
  BY SoFar
<1>2. Without(c, Names(longer)) = Without(b, Names(longer))
  BY WithoutNext DEF Joined
<1>3. /\ NamesOf(after) = NamesOf(c)
      /\ Without(after, Names(longer)) = Without(c, Names(longer))
  <2>1. attr.name \in Names(longer)
    BY <1>1
  <2> HIDE DEF longer, after
  <2> QED BY <2>1, OverriddenNames DEF after
<1>4. ASSUME NEW name \in Names(longer), NEW x \in Get(after, name)
      PROVE  x.value \in ValuesOf(longer, name)
  <2>1. after \in Seq(AttributeInfo)
    BY OverriddenFacts
  <2>2. PICK i \in 1..Len(after) : x = after[i] /\ after[i].name = name
    BY <2>1, GetFacts
  <2>3. x = attr \/ x \in Get(c, name)
    BY OverriddenGet
  <2>4. CASE x = attr
    BY <1>1, <2>2, <2>4
  <2>5. CASE x \in Get(c, name)
    <3>1. CASE name \in Names(u)
      <4>1. x.value \in ValuesOf(u, name)
        BY <2>5, <3>1 DEF Joined
      <4> QED BY <1>1, <4>1
    <3>2. CASE name = attr.name
      <4>1. Get(after, name) = {attr}
        <5> DEFINE found == FindAttrByName(c, attr.name)
        <5>1. /\ after \in Seq(AttributeInfo) /\ Len(after) = Len(c)
              /\ found \in 1..Len(c) /\ c[found].name = attr.name /\ after[found] = attr
              /\ \A j \in 1..Len(c) : after[j].name = c[j].name
              /\ \A j \in 1..(found - 1) : c[j].name # attr.name
          BY OverriddenFacts
        <5> HIDE DEF found, after
        <5>2. \A j \in 1..(found - 1) : j \in 1..Len(c) /\ after[j].name # name
          BY <3>2, <5>1
        <5>3. found \in 1..Len(after) /\ after[found].name = name
          BY <3>2, <5>1
        <5>4. Get(after, name) = {after[found]}
          <6>1. after \in Seq(AttributeInfo) /\ \A j \in 1..(found - 1) : after[j].name # name
            BY <5>1, <5>2
          <6> QED BY <5>3, <6>1, GetFirst
        <5> QED BY <5>1, <5>4
      <4> QED BY <1>1, <3>2, <4>1
    <3> QED BY <1>1, <3>1, <3>2
  <2> QED BY <2>3, <2>4, <2>5
<1> HIDE DEF longer, after
<1>5. NamesOf(after) = NamesOf(b) \o new
  BY <1>3 DEF Joined
<1> QED BY <1>2, <1>3, <1>4, <1>5 DEF Joined, longer, after

\* One whose name it lacks may be left for later ...
LEMMA JoinedLater ==
  ASSUME NEW b \in Seq(AttributeInfo), NEW u \in Seq(AttributeInfo),
         NEW c \in Seq(AttributeInfo), NEW new, NEW attr \in AttributeInfo,
         Joined(b, u, c, new), attr.name \notin Names(c)
  PROVE  Joined(b, Append(u, attr), c, new)
<1> DEFINE longer == Append(u, attr)
<1>1. /\ Names(longer) = Names(u) \cup {attr.name}
      /\ \A name : ValuesOf(u, name) \subseteq ValuesOf(longer, name)
  BY SoFar
<1>2. Without(c, Names(longer)) = Without(b, Names(longer))
  BY WithoutNext DEF Joined
<1>3. Get(c, attr.name) = {}
  BY GetNone
<1> HIDE DEF longer
<1>4. \A name \in Names(longer) : \A x \in Get(c, name) : x.value \in ValuesOf(longer, name)
  BY <1>1, <1>3 DEF Joined
<1> QED BY <1>2, <1>4 DEF Joined, longer

\* ... or be appended at once.
LEMMA JoinedAppend ==
  ASSUME NEW b \in Seq(AttributeInfo), NEW u \in Seq(AttributeInfo),
         NEW c \in Seq(AttributeInfo), NEW new \in Seq(AttributeNames),
         NEW attr \in AttributeInfo,
         Joined(b, u, c, new), attr.name \notin Names(c)
  PROVE  Joined(b, Append(u, attr), Append(c, attr), Append(new, attr.name))
<1> DEFINE longer == Append(u, attr)
           after == Append(c, attr)
<1>1. /\ Names(longer) = Names(u) \cup {attr.name}
      /\ attr.value \in ValuesOf(longer, attr.name)
      /\ \A name : ValuesOf(u, name) \subseteq ValuesOf(longer, name)
  BY SoFar
<1>2. /\ after \in Seq(AttributeInfo)
      /\ NamesOf(after) = Append(NamesOf(c), attr.name)
  BY SoFar
<1>3. Without(after, Names(longer)) = Without(b, Names(longer))
  <2>1. Without(c, Names(longer)) = Without(b, Names(longer))
    BY WithoutNext DEF Joined
  <2>2. Without(after, Names(longer)) = Without(c, Names(longer))
    <3>1. attr.name \in Names(longer)
      BY <1>1
    <3> HIDE DEF longer
    <3> QED BY <3>1, WithoutAppend
  <2> QED BY <2>1, <2>2
<1>4. NamesOf(after) = NamesOf(b) \o Append(new, attr.name)
  <2> DEFINE p == NamesOf(b)
             q == NamesOf(c)
  <2>1. p \in Seq(AttributeNames) /\ attr.name \in AttributeNames
    BY NamesOfType DEF AttributeInfo, AttributeNames
  <2>2. q = p \o new
    BY DEF Joined
  <2> HIDE DEF p, q, after
  <2>3. Append(p \o new, attr.name) = p \o Append(new, attr.name)
    <3> DEFINE one == <<attr.name>>
    <3>1. one \in Seq(AttributeNames) /\ p \o new \in Seq(AttributeNames)
      BY <2>1, ConcatProperties
    <3>2. Append(p \o new, attr.name) = (p \o new) \o one
      BY <2>1, <3>1, AppendIsConcat
    <3>3. Append(new, attr.name) = new \o one
      BY <2>1, AppendIsConcat
    <3> HIDE DEF one
    <3>4. (p \o new) \o one = p \o (new \o one)
      <4>1. ASSUME NEW s \in Seq(AttributeNames), NEW t \in Seq(AttributeNames),
                   NEW v \in Seq(AttributeNames)
            PROVE  (s \o t) \o v = s \o (t \o v)
        BY ConcatAssociative
      <4> QED BY <2>1, <3>1, <4>1, Zenon
    <3> QED BY <3>2, <3>3, <3>4, Zenon
  <2>4. NamesOf(after) = Append(q, attr.name)
    BY <1>2 DEF q
  <2> QED BY <2>2, <2>3, <2>4, Zenon DEF p
<1>5. ASSUME NEW name \in Names(longer), NEW x \in Get(after, name)
      PROVE  x.value \in ValuesOf(longer, name)
  <2>1. PICK i \in 1..Len(after) : /\ x = after[i] /\ after[i].name = name
                                   /\ \A j \in 1..(i - 1) : after[j].name # name
    <3> HIDE DEF after
    <3> QED BY <1>2, GetFacts
  <2>2. /\ Len(after) = Len(c) + 1 /\ Len(c) \in Nat /\ after[Len(c) + 1] = attr
        /\ \A j \in 1..Len(c) : after[j] = c[j]
    OBVIOUS
  <2> HIDE DEF after
  <2>3. CASE i = Len(c) + 1
    BY <1>1, <2>1, <2>2, <2>3
  <2>4. CASE i # Len(c) + 1
    <3>1. i \in 1..Len(c) /\ x = c[i] /\ c[i].name = name
      BY <2>1, <2>2, <2>4
    <3>2. ASSUME NEW j \in 1..(i - 1) PROVE c[j].name # name
      <4>1. j \in 1..Len(c)
        BY <2>2, <3>1
      <4> QED BY <2>1, <2>2, <4>1
    <3>3. Get(c, name) = {c[i]}
      BY <3>1, <3>2, GetFirst
    <3>4. name \in Names(c)
      BY <3>1, NamesFacts
    <3>5. name \in Names(u)
      BY <1>1, <3>4
    <3>6. x.value \in ValuesOf(u, name)
      BY <3>1, <3>3, <3>5 DEF Joined
    <3> QED BY <1>1, <3>6
  <2> QED BY <2>3, <2>4
<1> QED BY <1>3, <1>4, <1>5 DEF Joined

\* Those left for later may be appended at the end.
LEMMA JoinedBehind ==
  ASSUME NEW b \in Seq(AttributeInfo), NEW u \in Seq(AttributeInfo),
         NEW c \in Seq(AttributeInfo), Joined(b, u, c, <<>>)
  PROVE  LET d == Without(u, Names(b))
         IN  Joined(b, u, c \o d, NamesOf(d))
<1> DEFINE d == Without(u, Names(b))
           after == c \o d
<1>1. d \in Seq(AttributeInfo) /\ NamesOf(d) \in Seq(AttributeNames)
  BY WithoutType, NamesOfType
<1>2. \A i \in 1..Len(d) : /\ d[i].name \notin Names(b)
                           /\ \E j \in 1..Len(u) : u[j] = d[i]
  BY WithoutElements
<1> HIDE DEF d
<1>3. \A i \in 1..Len(d) : d[i].name \in Names(u) /\ d[i].value \in ValuesOf(u, d[i].name)
  <2> SUFFICES ASSUME NEW i \in 1..Len(d)
               PROVE  d[i].name \in Names(u) /\ d[i].value \in ValuesOf(u, d[i].name)
    OBVIOUS
  <2>1. PICK j \in 1..Len(u) : u[j] = d[i]
    BY <1>2
  <2>2. j \in DOMAIN u
    OBVIOUS
  <2> QED BY <2>1, <2>2 DEF Names, ValuesOf
<1>4. NamesOf(c) = NamesOf(b)
  <2> DEFINE p == NamesOf(b)
  <2>1. p \in Seq(AttributeNames)
    BY NamesOfType
  <2>2. NamesOf(c) = p \o <<>>
    BY DEF Joined
  <2> HIDE DEF p
  <2>3. p \o <<>> = p
    BY <2>1
  <2> QED BY <2>2, <2>3 DEF p
<1>5. /\ after \in Seq(AttributeInfo)
      /\ NamesOf(after) = NamesOf(b) \o NamesOf(d)
  BY <1>1, <1>4, NamesOfConcat
<1>6. Without(after, Names(u)) = Without(b, Names(u))
  <2>1. Without(after, Names(u)) = Without(c, Names(u))
    BY <1>1, <1>3, WithoutConcat
  <2> QED BY <2>1 DEF Joined
<1>7. ASSUME NEW name \in Names(u), NEW x \in Get(after, name)
      PROVE  x.value \in ValuesOf(u, name)
  <2>1. PICK i \in 1..Len(after) : /\ x = after[i] /\ after[i].name = name
                                   /\ \A j \in 1..(i - 1) : after[j].name # name
    BY <1>5, GetFacts
  <2>2. /\ Len(after) = Len(c) + Len(d) /\ Len(c) \in Nat /\ Len(d) \in Nat
        /\ \A j \in 1..(Len(c) + Len(d)) : after[j] = IF j <= Len(c) THEN c[j] ELSE d[j - Len(c)]
    BY <1>1, ConcatProperties
  <2> HIDE DEF after
  <2>3. CASE ~(i <= Len(c))
    <3>1. i - Len(c) \in 1..Len(d) /\ x = d[i - Len(c)]
      BY <2>1, <2>2, <2>3
    <3> QED BY <1>3, <2>1, <3>1
  <2>4. CASE i <= Len(c)
    <3>1. i \in 1..Len(c) /\ x = c[i] /\ c[i].name = name
      BY <2>1, <2>2, <2>4
    <3>2. ASSUME NEW j \in 1..(i - 1) PROVE c[j].name # name
      <4>1. j \in 1..Len(c) /\ j \in 1..(Len(c) + Len(d)) /\ j <= Len(c)
        BY <2>2, <3>1
      <4> QED BY <2>1, <2>2, <4>1
    <3>3. Get(c, name) = {c[i]}
      BY <3>1, <3>2, GetFirst
    <3> QED BY <3>1, <3>3 DEF Joined
  <2> QED BY <2>3, <2>4
<1> QED BY <1>5, <1>6, <1>7 DEF Joined, d

-----------------------------------------------------------------------------
(* Lists in arrays.                                                        *)

\* A heap of attributes, and a list that lies in it.
IsHeap(h) == h \in [DOMAIN h -> Seq(AttributeInfo)]
Lies(h, slice) ==
  /\ slice \in [array : DOMAIN h, len : Nat]
  /\ slice.len <= Len(h[slice.array])

\* What an operation on the array `new` may leave of a heap: the other arrays are as
\* they were, and its list lies in that one.
Owned(h, new) ==
  {r \in [heap : [DOMAIN h \cup {new} -> Seq(AttributeInfo)],
          list : [array : {new}, len : Nat]] :
     /\ \A a \in DOMAIN h \ {new} : r.heap[a] = h[a]
     /\ r.list.len <= Len(r.heap[new])}

\* The list of such a result.
ContentsOf(r) == Contents(r.heap, r.list)

\* The elements of a list are those of its array.
LEMMA ContentsFacts ==
  ASSUME NEW h, NEW slice, IsHeap(h), Lies(h, slice)
  PROVE  /\ Contents(h, slice) \in Seq(AttributeInfo)
         /\ Len(Contents(h, slice)) = slice.len
         /\ \A i \in 1..slice.len : Contents(h, slice)[i] = h[slice.array][i]
<1> DEFINE s == h[slice.array]
           n == slice.len
<1>1. s \in Seq(AttributeInfo) /\ n \in Nat /\ n <= Len(s)
  BY DEF IsHeap, Lies
<1>2. Contents(h, slice) = SubSeq(s, 1, n)
  BY DEF Contents
<1> HIDE DEF s, n
<1>3. \A i \in 1..n : s[i] \in AttributeInfo
  BY <1>1
<1>4. /\ SubSeq(s, 1, n) \in Seq(AttributeInfo)
      /\ Len(SubSeq(s, 1, n)) = n
      /\ \A i \in 1..n : SubSeq(s, 1, n)[i] = s[i]
  BY <1>1
<1> QED BY <1>2, <1>4 DEF s, n

\* The same of a result.
LEMMA OwnedFacts ==
  ASSUME NEW h, NEW new, NEW r \in Owned(h, new)
  PROVE  /\ IsHeap(r.heap) /\ DOMAIN r.heap = DOMAIN h \cup {new}
         /\ r.heap[new] \in Seq(AttributeInfo)
         /\ r.list.len \in 0..Len(r.heap[new])
         /\ r.list.array = new /\ r.list.len \in Nat /\ r.list \in [array : {new}, len : Nat]
         /\ Lies(r.heap, r.list)
         /\ ContentsOf(r) \in Seq(AttributeInfo)
         /\ Len(ContentsOf(r)) = r.list.len
         /\ \A i \in 1..r.list.len : ContentsOf(r)[i] = r.heap[new][i]
<1>1. /\ r \in [heap : [DOMAIN h \cup {new} -> Seq(AttributeInfo)],
                list : [array : {new}, len : Nat]]
      /\ r.list.len <= Len(r.heap[new])
  BY DEF Owned
<1>2. /\ r.heap \in [DOMAIN h \cup {new} -> Seq(AttributeInfo)]
      /\ r.list \in [array : {new}, len : Nat]
  BY <1>1
<1>3. /\ r.list.array = new /\ r.list.len \in Nat /\ DOMAIN r.heap = DOMAIN h \cup {new}
      /\ r.heap[new] \in Seq(AttributeInfo)
  BY <1>2
<1>4. IsHeap(r.heap) /\ Lies(r.heap, r.list)
  BY <1>1, <1>2, <1>3 DEF IsHeap, Lies
<1>5. /\ Contents(r.heap, r.list) \in Seq(AttributeInfo)
      /\ Len(Contents(r.heap, r.list)) = r.list.len
      /\ \A i \in 1..r.list.len : Contents(r.heap, r.list)[i] = r.heap[r.list.array][i]
  BY <1>4, ContentsFacts
<1>6. r.list.len \in 0..Len(r.heap[new])
  BY <1>1, <1>3
<1> QED BY <1>2, <1>3, <1>4, <1>5, <1>6, Zenon DEF ContentsOf

\* A result is made of its heap and its list, and the list of its array and its length.
LEMMA OwnedRecord ==
  ASSUME NEW h, NEW new, NEW r \in Owned(h, new)
  PROVE  /\ r = Returned(r.heap, r.list)
         /\ r.list = [array |-> new, len |-> r.list.len]
BY DEF Owned, Returned

\* An array made, or written to, changes no other.
LEMMA StoredOwned ==
  ASSUME NEW h, NEW new, NEW s \in Seq(AttributeInfo),
         NEW list \in [array : {new}, len : 0..Len(s)], IsHeap(h)
  PROVE  /\ Returned(Stored(h, new, s), list) \in Owned(h, new)
         /\ ContentsOf(Returned(Stored(h, new, s), list)) = SubSeq(s, 1, list.len)
         /\ Stored(h, new, s)[new] = s
<1> DEFINE after == Stored(h, new, s)
<1>1. /\ after \in [DOMAIN h \cup {new} -> Seq(AttributeInfo)]
      /\ after[new] = s
      /\ \A a \in DOMAIN h \ {new} : after[a] = h[a]
  BY DEF Stored, IsHeap
<1>2. /\ list \in [array : {new}, len : Nat]
      /\ list.array = new /\ list.len \in Nat /\ list.len <= Len(s)
  OBVIOUS
<1> HIDE DEF after
<1>3. Returned(after, list).heap = after /\ Returned(after, list).list = list
  BY DEF Returned
<1>4. Returned(after, list) \in [heap : [DOMAIN h \cup {new} -> Seq(AttributeInfo)],
                                 list : [array : {new}, len : Nat]]
  BY <1>1, <1>2 DEF Returned
<1>5. Returned(after, list) \in Owned(h, new)
  BY <1>1, <1>2, <1>3, <1>4 DEF Owned
<1>6. Contents(after, list) = SubSeq(s, 1, list.len)
  BY <1>1, <1>2 DEF Contents
<1> QED BY <1>1, <1>3, <1>5, <1>6 DEF after, ContentsOf

\* A deep copy has the elements.
LEMMA CopyFacts ==
  ASSUME NEW h, NEW new, NEW slice, IsHeap(h), Lies(h, slice)
  PROVE  /\ DeepCopy(h, slice, new) \in Owned(h, new)
         /\ ContentsOf(DeepCopy(h, slice, new)) = Contents(h, slice)
         /\ Contents(h, slice) \in Seq(AttributeInfo)
<1> DEFINE s == Contents(h, slice)
           list == [array |-> new, len |-> slice.len]
<1>1. s \in Seq(AttributeInfo) /\ Len(s) = slice.len
  BY ContentsFacts
<1>2. slice.len \in 0..Len(s) /\ SubSeq(s, 1, slice.len) = s
  BY <1>1
<1>3. [slice EXCEPT !.array = new] = list
  BY DEF Lies
<1>4. DeepCopy(h, slice, new) = Returned(Stored(h, new, s), list)
  BY <1>3 DEF DeepCopy
<1>5. list \in [array : {new}, len : 0..Len(s)] /\ list.len = slice.len
  BY <1>2
<1> HIDE DEF s, list
<1>6. /\ Returned(Stored(h, new, s), list) \in Owned(h, new)
      /\ ContentsOf(Returned(Stored(h, new, s), list)) = SubSeq(s, 1, list.len)
  BY <1>1, <1>5, StoredOwned
<1> QED BY <1>1, <1>2, <1>4, <1>5, <1>6, Zenon DEF s

\* Whose other arrays are as in a result of which that holds, is one too.
LEMMA OwnedAgain ==
  ASSUME NEW h, NEW new, NEW r \in Owned(h, new), NEW q \in Owned(r.heap, new)
  PROVE  q \in Owned(h, new)
<1>1. DOMAIN r.heap = DOMAIN h \cup {new}
  BY OwnedFacts
<1>2. (DOMAIN h \cup {new}) \cup {new} = DOMAIN h \cup {new}
  OBVIOUS
<1>3. /\ q \in [heap : [DOMAIN h \cup {new} -> Seq(AttributeInfo)],
                list : [array : {new}, len : Nat]]
      /\ \A a \in DOMAIN r.heap \ {new} : q.heap[a] = r.heap[a]
      /\ q.list.len <= Len(q.heap[new])
  BY <1>1, <1>2 DEF Owned
<1>4. \A a \in DOMAIN h \ {new} : q.heap[a] = h[a]
  BY <1>1, <1>3 DEF Owned
<1> QED BY <1>3, <1>4 DEF Owned

\* What a list begins with.
LEMMA ConcatPrefix ==
  ASSUME NEW T, NEW s \in Seq(T), NEW t \in Seq(T)
  PROVE  /\ s \o t \in Seq(T) /\ Len(s) \in 0..Len(s \o t)
         /\ SubSeq(s \o t, 1, Len(s)) = s
<1> DEFINE u == s \o t
           n == Len(s)
<1>1. /\ u \in Seq(T) /\ Len(u) = n + Len(t) /\ n \in Nat /\ Len(t) \in Nat
      /\ \A i \in 1..(n + Len(t)) : u[i] = IF i <= n THEN s[i] ELSE t[i - n]
  BY ConcatProperties
<1> HIDE DEF u
<1>2. n \in 0..Len(u)
  BY <1>1
<1>3. /\ SubSeq(u, 1, n) \in Seq(T) /\ Len(SubSeq(u, 1, n)) = n
      /\ \A i \in 1..n : SubSeq(u, 1, n)[i] = u[i]
  BY <1>1, <1>2
<1>4. \A i \in 1..n : i \in 1..(n + Len(t)) /\ i <= n
  BY <1>1
<1>5. \A i \in 1..n : SubSeq(u, 1, n)[i] = s[i]
  BY <1>1, <1>3, <1>4
<1>6. SubSeq(u, 1, n) = s
  BY <1>3, <1>5, SeqEqual
<1> QED BY <1>1, <1>2, <1>6 DEF u

\* An array holds the list it is made for, and has room behind it.
LEMMA AllocatedFacts ==
  ASSUME NEW s \in Seq(AttributeInfo), NEW spare \in Nat
  PROVE  /\ Allocated(s, spare) \in Seq(AttributeInfo)
         /\ Len(s) \in 0..Len(Allocated(s, spare))
         /\ SubSeq(Allocated(s, spare), 1, Len(s)) = s
<1> DEFINE zeros == [i \in 1..spare |-> [name |-> "", value |-> 0]]
<1>1. zeros \in Seq(AttributeInfo)
  <2>1. zeros \in [1..spare -> AttributeInfo]
    BY ZeroValue
  <2> HIDE DEF zeros
  <2> QED BY <2>1, SeqDef
<1>2. Allocated(s, spare) = s \o zeros
  BY DEF Allocated
<1> HIDE DEF zeros
<1> QED BY <1>1, <1>2, ConcatPrefix

\* append, in the array or in one that takes its place.
LEMMA AppendFacts ==
  ASSUME NEW h, NEW new, NEW r \in Owned(h, new), NEW attributes \in Seq(AttributeInfo)
  PROVE  LET q == AppendAll(r.heap, r.list, attributes, new)
         IN  /\ q \in Owned(h, new)
             /\ ContentsOf(q) = ContentsOf(r) \o attributes
<1> DEFINE len == r.list.len + Len(attributes)
           written == ContentsOf(r) \o attributes
           old == r.heap[new]
           list == [array |-> new, len |-> len]
<1>1. /\ IsHeap(r.heap) /\ DOMAIN r.heap = DOMAIN h \cup {new}
      /\ r.list.array = new /\ r.list.len \in Nat /\ r.list \in [array : {new}, len : Nat]
      /\ ContentsOf(r) \in Seq(AttributeInfo) /\ Len(ContentsOf(r)) = r.list.len
      /\ r.heap[new] \in Seq(AttributeInfo)
  <2> HIDE DEF len, written, old, list
  <2> QED BY OwnedFacts
<1>2. /\ written \in Seq(AttributeInfo) /\ Len(written) = len /\ len \in Nat
      /\ Len(attributes) \in Nat /\ old \in Seq(AttributeInfo) /\ Len(old) \in Nat
  <2> DEFINE c == ContentsOf(r)
  <2>1. c \in Seq(AttributeInfo) /\ Len(c) = r.list.len /\ r.list.len \in Nat
    BY <1>1
  <2> HIDE DEF c
  <2>2. c \o attributes \in Seq(AttributeInfo)
        /\ Len(c \o attributes) = Len(c) + Len(attributes)
    BY <2>1, ConcatProperties
  <2>3. Len(attributes) \in Nat /\ r.heap[new] \in Seq(AttributeInfo)
    BY <1>1
  <2>4. Len(r.heap[new]) \in Nat
    BY <2>3
  <2> QED BY <2>1, <2>2, <2>3, <2>4 DEF c
<1>3. [r.list EXCEPT !.len = len] = list
  BY <1>1
<1>4. AppendAll(r.heap, r.list, attributes, new)
        = IF len <= Len(old)
            THEN Returned(Stored(r.heap, new, written \o SubSeq(old, len + 1, Len(old))), list)
            ELSE Returned(Stored(r.heap, new, Allocated(written, 1)), list)
  BY <1>1, <1>3 DEF AppendAll, ContentsOf
<1>5. list \in [array : {new}, len : {len}] /\ list.len = len
  OBVIOUS
<1> HIDE DEF len, written, old, list
\* What is written may have something behind it.
<1>6. ASSUME NEW s \in Seq(AttributeInfo), len \in 0..Len(s), SubSeq(s, 1, len) = written
      PROVE  LET q == Returned(Stored(r.heap, new, s), list)
             IN  q \in Owned(h, new) /\ ContentsOf(q) = written
  <2> DEFINE q == Returned(Stored(r.heap, new, s), list)
  <2>1. list \in [array : {new}, len : 0..Len(s)]
    BY <1>5, <1>6
  <2>2. q \in Owned(r.heap, new) /\ ContentsOf(q) = SubSeq(s, 1, list.len)
    BY <1>1, <2>1, StoredOwned
  <2> HIDE DEF q
  <2>3. q \in Owned(h, new)
    BY <2>2, OwnedAgain
  <2> QED BY <1>5, <1>6, <2>2, <2>3 DEF q
<1>7. CASE len <= Len(old)
  <2> DEFINE behind == SubSeq(old, len + 1, Len(old))
             s == written \o behind
  <2>1. behind \in Seq(AttributeInfo)
    <3>1. \A i \in (len + 1)..Len(old) : old[i] \in AttributeInfo
      BY <1>2
    <3> QED BY <1>2, <3>1, SubSeqProperties
  <2> HIDE DEF behind
  <2>2. s \in Seq(AttributeInfo) /\ len \in 0..Len(s) /\ SubSeq(s, 1, len) = written
    BY <1>2, <2>1, ConcatPrefix
  <2> HIDE DEF s
  <2> QED BY <1>4, <1>6, <1>7, <2>2 DEF written, s, behind
<1>8. CASE ~(len <= Len(old))
  <2> DEFINE s == Allocated(written, 1)
  <2>1. s \in Seq(AttributeInfo) /\ len \in 0..Len(s) /\ SubSeq(s, 1, len) = written
    BY <1>2, AllocatedFacts
  <2> HIDE DEF s
  <2> QED BY <1>4, <1>6, <1>8, <2>1 DEF written, s
<1> QED BY <1>7, <1>8

\* A value written in place.
LEMMA SetFacts ==
  ASSUME NEW h, NEW new, NEW r \in Owned(h, new), NEW attr \in AttributeInfo,
         attr.name \in Names(ContentsOf(r))
  PROVE  LET q == Returned(SetValue(r.heap, r.list, attr), r.list)
         IN  /\ q \in Owned(h, new)
             /\ ContentsOf(q) = Overridden(ContentsOf(r), attr)
             /\ Len(q.heap[new]) = Len(r.heap[new])
<1> DEFINE c == ContentsOf(r)
           found == FindAttrByName(c, attr.name)
           old == r.heap[new]
           entry == [old[found] EXCEPT !.value = attr.value]
           after == [old EXCEPT ![found] = entry]
           q == Returned(Stored(r.heap, new, after), r.list)
<1>1. /\ IsHeap(r.heap) /\ DOMAIN r.heap = DOMAIN h \cup {new} /\ Lies(r.heap, r.list)
      /\ r.list.array = new /\ r.list.len \in Nat /\ r.list \in [array : {new}, len : Nat]
      /\ c \in Seq(AttributeInfo) /\ Len(c) = r.list.len
      /\ \A i \in 1..r.list.len : c[i] = old[i]
      /\ old \in Seq(AttributeInfo) /\ r.list.len \in 0..Len(old)
  <2> HIDE DEF found, entry, after, q
  <2> QED BY OwnedFacts
<1>2. /\ found \in 1..Len(c) /\ c[found].name = attr.name
      /\ Overridden(c, attr) \in Seq(AttributeInfo) /\ Len(Overridden(c, attr)) = Len(c)
      /\ Overridden(c, attr)[found] = attr
      /\ \A i \in 1..Len(c) : i # found => Overridden(c, attr)[i] = c[i]
  <2>1. c \in Seq(AttributeInfo) /\ attr.name \in Names(c)
    BY <1>1
  <2> HIDE DEF c
  <2> QED BY <2>1, OverriddenFacts
<1>3. SetValue(r.heap, r.list, attr) = Stored(r.heap, new, after)
  <2>1. SetValue(r.heap, r.list, attr) = [r.heap EXCEPT ![new] = after]
    <3> DEFINE array == r.list.array
    <3>1. SetValue(r.heap, r.list, attr)
            = [r.heap EXCEPT ![array] =
                [r.heap[array] EXCEPT ![found] =
                  [r.heap[array][found] EXCEPT !.value = attr.value]]]
      BY DEF SetValue, ContentsOf
    <3>2. array = new
      BY <1>1
    <3> HIDE DEF array, found
    <3> QED BY <3>1, <3>2, Zenon
  <2>2. new \in DOMAIN r.heap /\ DOMAIN r.heap \cup {new} = DOMAIN r.heap
    BY <1>1
  <2> QED BY <2>1, <2>2 DEF Stored
<1> HIDE DEF c
<1>4. entry = attr
  <2>1. old[found] = c[found] /\ c[found] \in AttributeInfo
    BY <1>1, <1>2
  <2>2. entry = [c[found] EXCEPT !.value = attr.value]
    BY <2>1
  <2> QED BY <1>2, <2>1, <2>2 DEF AttributeInfo
<1> HIDE DEF entry, found, old
<1>5. /\ found \in 1..Len(old) /\ after \in Seq(AttributeInfo) /\ Len(after) = Len(old)
      /\ after[found] = attr
      /\ \A i \in 1..Len(old) : i # found => after[i] = old[i]
  BY <1>1, <1>2, <1>4
<1> HIDE DEF after
<1>6. r.list \in [array : {new}, len : 0..Len(after)]
  BY <1>1, <1>5 DEF old
<1>7. /\ q \in Owned(r.heap, new)
      /\ ContentsOf(q) = SubSeq(after, 1, r.list.len)
      /\ Stored(r.heap, new, after)[new] = after
  BY <1>1, <1>5, <1>6, StoredOwned
<1>8. q.heap = Stored(r.heap, new, after) /\ q.list = r.list
  BY DEF Returned
<1> HIDE DEF q
<1>9. q \in Owned(h, new)
  BY <1>7, OwnedAgain
<1>10. ContentsOf(q) = Overridden(c, attr)
  <2> DEFINE n == r.list.len
             s == SubSeq(after, 1, n)
  <2>1. s \in Seq(AttributeInfo) /\ Len(s) = n /\ \A i \in 1..n : s[i] = after[i]
    BY <1>1, <1>5
  <2>2. ASSUME NEW i \in 1..n PROVE s[i] = Overridden(c, attr)[i]
    <3>1. i \in 1..Len(old) /\ i \in 1..Len(c) /\ c[i] = old[i]
      BY <1>1
    <3> QED BY <1>2, <1>5, <2>1, <3>1
  <2> HIDE DEF s
  <2>3. s = Overridden(c, attr)
    BY <1>1, <1>2, <2>1, <2>2, SeqEqual
  <2> QED BY <1>7, <2>3 DEF s
<1> QED BY <1>3, <1>5, <1>7, <1>8, <1>9, <1>10 DEF c, q, old

-----------------------------------------------------------------------------
(* The loops of Merge and updateAttributes.                                *)

\* One attribute put into a list: its value, or itself behind the others.
PutIn(c, attr) == IF attr.name \in Names(c) THEN Overridden(c, attr) ELSE Append(c, attr)

\* A turn of updateAttributes.
LEMMA UpdateFacts ==
  ASSUME NEW h, NEW new, NEW r \in Owned(h, new), NEW attr \in AttributeInfo
  PROVE  LET q == UpdateAttribute(r.heap, r.list, attr, new)
         IN  q \in Owned(h, new) /\ ContentsOf(q) = PutIn(ContentsOf(r), attr)
<1> DEFINE q == UpdateAttribute(r.heap, r.list, attr, new)
<1>1. CASE attr.name \in Names(ContentsOf(r))
  <2>1. q = Returned(SetValue(r.heap, r.list, attr), r.list)
    BY <1>1 DEF UpdateAttribute, ContentsOf
  <2> HIDE DEF q
  <2>2. q \in Owned(h, new) /\ ContentsOf(q) = Overridden(ContentsOf(r), attr)
    BY <1>1, <2>1, SetFacts
  <2> QED BY <1>1, <2>2 DEF q, PutIn
<1>2. CASE attr.name \notin Names(ContentsOf(r))
  <2> DEFINE one == <<attr>>
  <2>1. q = AppendAll(r.heap, r.list, one, new)
    BY <1>2 DEF UpdateAttribute, ContentsOf
  <2>2. one \in Seq(AttributeInfo)
    OBVIOUS
  <2>3. ContentsOf(r) \in Seq(AttributeInfo)
    BY OwnedFacts
  <2>4. ContentsOf(r) \o one = Append(ContentsOf(r), attr)
    BY <2>3, AppendIsConcat
  <2> HIDE DEF q, one
  <2>5. q \in Owned(h, new) /\ ContentsOf(q) = ContentsOf(r) \o one
    BY <2>1, <2>2, AppendFacts
  <2> QED BY <1>2, <2>4, <2>5 DEF q, PutIn
<1> QED BY <1>1, <1>2

\* What the loop has come to after each turn.
UpdatedIn(after, copy, attributes, new) ==
  after = [n \in 0..Len(attributes) |->
             IF n = 0 THEN copy
                      ELSE UpdateAttribute(after[n - 1].heap, after[n - 1].list,
                                           attributes[n], new)]

\* Lists in the array that is made for it.
IsUpdate(after, h, copy, attributes, new) ==
  /\ after[0] = copy
  /\ \A n \in 0..Len(attributes) : after[n] \in Owned(h, new)
  /\ \A n \in 1..Len(attributes) :
       ContentsOf(after[n]) = PutIn(ContentsOf(after[n - 1]), attributes[n])

\* Such is the function UpdateLoop defines.
LEMMA UpdateTurns ==
  ASSUME NEW h, NEW new, NEW copy \in Owned(h, new), NEW attributes \in Seq(AttributeInfo)
  PROVE  IsUpdate(UpdateLoop(copy, attributes, new), h, copy, attributes, new)
<1> DEFINE N == Len(attributes)
           X == Owned(h, new)
           Put(r, n) == UpdateAttribute(r.heap, r.list, attributes[n], new)
           step == [p \in X \X (1..N) |-> Put(p[1], p[2])]
<1>1. N \in Nat /\ \A n \in 1..N : attributes[n] \in AttributeInfo
  OBVIOUS
<1>2. \A r \in X : \A n \in 1..N : /\ Put(r, n) \in X
                                   /\ ContentsOf(Put(r, n)) = PutIn(ContentsOf(r), attributes[n])
  BY <1>1, UpdateFacts
<1> HIDE DEF X, Put
<1>3. step \in [X \X (1..N) -> X]
  BY <1>2
<1> HIDE DEF step
<1>4. PICK f \in [0..N -> X] : IsLoop(f, N, copy, step)
  <2>1. copy \in X
    BY DEF X
  <2> QED BY <1>1, <1>3, <2>1, LoopExists
<1>5. UpdatedIn(f, copy, attributes, new)
  <2>1. ASSUME NEW n \in 0..N, n # 0 PROVE step[<<f[n - 1], n>>] = Put(f[n - 1], n)
    <3>1. f[n - 1] \in X /\ n \in 1..N
      BY <1>1, <2>1
    <3> QED BY <3>1 DEF step
  <2>2. [n \in 0..N |-> IF n = 0 THEN copy ELSE step[<<f[n - 1], n>>]]
          = [n \in 0..N |-> IF n = 0 THEN copy ELSE Put(f[n - 1], n)]
    BY <2>1
  <2> QED BY <1>4, <2>2, Zenon DEF UpdatedIn, IsLoop, Put
<1> DEFINE after == CHOOSE g : UpdatedIn(g, copy, attributes, new)
<1>6. UpdatedIn(after, copy, attributes, new)
  BY <1>5, Zenon
<1>7. UpdateLoop(copy, attributes, new) = after
  BY Zenon DEF UpdateLoop, UpdatedIn
<1> HIDE DEF after
<1>8. after[0] = copy /\ \A n \in 1..N : after[n] = Put(after[n - 1], n)
  <2> DEFINE Turn(n) == IF n = 0 THEN copy ELSE Put(after[n - 1], n)
  <2>1. after = [n \in 0..N |-> Turn(n)]
    BY <1>6 DEF UpdatedIn, Put
  <2> HIDE DEF Turn
  <2>2. \A n \in 0..N : after[n] = Turn(n)
    BY <2>1
  <2> USE DEF Turn
  <2>3. after[0] = copy
    BY <1>1, <2>2
  <2>4. \A n \in 1..N : n \in 0..N /\ n # 0
    BY <1>1
  <2> QED BY <2>2, <2>3, <2>4
<1>9. \A n \in 0..N : after[n] \in X
  <2> DEFINE S == {n \in 0..N : after[n] \in X}
  <2>1. 0 \in S
    BY <1>1, <1>8 DEF X
  <2>2. ASSUME NEW n \in 0..(N - 1), n \in S PROVE n + 1 \in S
    <3>1. n + 1 \in 1..N /\ n + 1 \in 0..N /\ (n + 1) - 1 = n
      BY <1>1
    <3> QED BY <1>2, <1>8, <2>2, <3>1
  <2> HIDE DEF S
  <2>3. \A n \in 0..N : n \in S
    BY <1>1, <2>1, <2>2, TurnInduction
  <2> QED BY <2>3 DEF S
<1>10. \A n \in 1..N : ContentsOf(after[n]) = PutIn(ContentsOf(after[n - 1]), attributes[n])
  <2>1. \A n \in 1..N : n - 1 \in 0..N
    BY <1>1
  <2> QED BY <1>2, <1>8, <1>9, <2>1
<1> QED BY <1>7, <1>8, <1>9, <1>10 DEF X, IsUpdate

\* What Merge's loop has come to after each turn.
MergedIn(after, ret, updated) ==
  after = [n \in 0..Len(updated) |->
             IF n = 0
               THEN [heap |-> ret.heap, delta |-> <<>>]
               ELSE LET before == after[n - 1]
                        attr == updated[n]
                    IN  IF attr.name \in Names(Contents(before.heap, ret.list))
                          THEN [before EXCEPT !.heap = SetValue(@, ret.list, attr)]
                          ELSE [before EXCEPT !.delta = Append(@, attr)]]

\* The list after n turns, in the array that is made for it.
ListAt(after, ret, n) == Returned(after[n].heap, ret.list)

\* Values are overwritten in it, and what is new is left for later.
IsMerge(after, h, ret, updated, new) ==
  /\ ListAt(after, ret, 0) = Returned(ret.heap, ret.list) /\ after[0].delta = <<>>
  /\ \A n \in 0..Len(updated) : /\ ListAt(after, ret, n) \in Owned(h, new)
                                /\ after[n].delta \in Seq(AttributeInfo)
  /\ \A n \in 1..Len(updated) :
       LET before == ContentsOf(ListAt(after, ret, n - 1))
       IN  IF updated[n].name \in Names(before)
             THEN /\ ContentsOf(ListAt(after, ret, n)) = Overridden(before, updated[n])
                  /\ after[n].delta = after[n - 1].delta
             ELSE /\ ContentsOf(ListAt(after, ret, n)) = before
                  /\ after[n].delta = Append(after[n - 1].delta, updated[n])

\* Such is the function MergeLoop defines.
LEMMA MergeTurns ==
  ASSUME NEW h, NEW new, NEW ret \in Owned(h, new), NEW updated \in Seq(AttributeInfo)
  PROVE  IsMerge(MergeLoop(ret, updated), h, ret, updated, new)
<1> DEFINE N == Len(updated)
           Heaps == [DOMAIN h \cup {new} -> Seq(AttributeInfo)]
           X == {m \in [heap : Heaps, delta : Seq(AttributeInfo)] :
                   Returned(m.heap, ret.list) \in Owned(h, new)}
           Known(m, n) == updated[n].name \in Names(Contents(m.heap, ret.list))
           Turned(m, n) == IF Known(m, n)
                             THEN [m EXCEPT !.heap = SetValue(@, ret.list, updated[n])]
                             ELSE [m EXCEPT !.delta = Append(@, updated[n])]
           base == [heap |-> ret.heap, delta |-> <<>>]
           step == [p \in X \X (1..N) |-> Turned(p[1], p[2])]
<1>1. N \in Nat /\ \A n \in 1..N : updated[n] \in AttributeInfo
  OBVIOUS
<1>2. ASSUME NEW m \in X, NEW n \in 1..N
      PROVE  /\ Turned(m, n) \in X
             /\ LET c == ContentsOf(Returned(m.heap, ret.list))
                    after == ContentsOf(Returned(Turned(m, n).heap, ret.list))
                IN  IF updated[n].name \in Names(c)
                      THEN after = Overridden(c, updated[n]) /\ Turned(m, n).delta = m.delta
                      ELSE after = c /\ Turned(m, n).delta = Append(m.delta, updated[n])
  <2> DEFINE r == Returned(m.heap, ret.list)
             attr == updated[n]
  <2>1. /\ r \in Owned(h, new) /\ attr \in AttributeInfo
        /\ m.heap \in Heaps /\ m.delta \in Seq(AttributeInfo)
        /\ m \in [heap : Heaps, delta : Seq(AttributeInfo)]
    BY <1>1
  <2>2. r.heap = m.heap /\ r.list = ret.list /\ ContentsOf(r) = Contents(m.heap, ret.list)
    BY DEF Returned, ContentsOf
  <2>3. CASE Known(m, n)
    <3> DEFINE q == Returned(SetValue(m.heap, ret.list, attr), ret.list)
    <3>1. /\ Turned(m, n).heap = SetValue(m.heap, ret.list, attr)
          /\ Turned(m, n).delta = m.delta
      BY <2>1, <2>3
    <3>2. q \in Owned(h, new) /\ ContentsOf(q) = Overridden(ContentsOf(r), attr)
      <4>1. attr.name \in Names(ContentsOf(r))
        BY <2>2, <2>3
      <4>2. q = Returned(SetValue(r.heap, r.list, attr), r.list)
        BY <2>2
      <4> HIDE DEF q, r, attr, Heaps
      <4> QED BY <2>1, <4>1, <4>2, SetFacts
    <3>3. SetValue(m.heap, ret.list, attr) \in Heaps
      <4>1. q.heap \in Heaps
        BY <3>2 DEF Owned
      <4> QED BY <4>1 DEF Returned
    <3>4. Turned(m, n) \in [heap : Heaps, delta : Seq(AttributeInfo)]
      <4> HIDE DEF Heaps
      <4> QED BY <2>1, <2>3, <3>3
    <3> HIDE DEF Heaps, Turned
    <3> QED BY <2>2, <2>3, <3>1, <3>2, <3>4
  <2>4. CASE ~Known(m, n)
    <3>1. Turned(m, n).heap = m.heap /\ Turned(m, n).delta = Append(m.delta, attr)
      BY <2>1, <2>4
    <3>2. Turned(m, n) \in [heap : Heaps, delta : Seq(AttributeInfo)]
      <4> HIDE DEF Heaps
      <4> QED BY <2>1, <2>4
    <3> HIDE DEF Heaps, Turned
    <3> QED BY <2>1, <2>2, <2>4, <3>1, <3>2
  <2> QED BY <2>3, <2>4
<1>3. base \in X
  <2>1. ret = Returned(ret.heap, ret.list) /\ ret.heap \in Heaps
    <3>1. ret.heap \in Heaps
      BY DEF Owned
    <3> QED BY <3>1, OwnedRecord
  <2>2. /\ base.heap = ret.heap
        /\ base \in [heap : Heaps, delta : Seq(AttributeInfo)]
    BY <2>1
  <2> HIDE DEF base, Heaps
  <2> QED BY <2>1, <2>2
<1> HIDE DEF Turned
<1>4. step \in [X \X (1..N) -> X]
  <2> HIDE DEF X
  <2> QED BY <1>2
<1>5. \A m \in X : /\ Returned(m.heap, ret.list) \in Owned(h, new)
                   /\ m.delta \in Seq(AttributeInfo)
  OBVIOUS
<1> HIDE DEF X, step, base
<1>6. PICK f \in [0..N -> X] : IsLoop(f, N, base, step)
  BY <1>1, <1>3, <1>4, LoopExists
<1>7. MergedIn(f, ret, updated)
  <2>1. ASSUME NEW n \in 0..N, n # 0 PROVE step[<<f[n - 1], n>>] = Turned(f[n - 1], n)
    <3>1. f[n - 1] \in X /\ n \in 1..N
      BY <1>1, <2>1
    <3> QED BY <3>1 DEF step
  <2>2. [n \in 0..N |-> IF n = 0 THEN base ELSE step[<<f[n - 1], n>>]]
          = [n \in 0..N |-> IF n = 0 THEN base ELSE Turned(f[n - 1], n)]
    BY <2>1
  <2> QED BY <1>6, <2>2, Zenon DEF MergedIn, IsLoop, Turned, base
<1> DEFINE after == CHOOSE g : MergedIn(g, ret, updated)
<1>8. MergedIn(after, ret, updated)
  BY <1>7, Zenon
<1>9. MergeLoop(ret, updated) = after
  BY Zenon DEF MergeLoop, MergedIn
<1> HIDE DEF after
<1>10. after[0] = base /\ \A n \in 1..N : after[n] = Turned(after[n - 1], n)
  <2> DEFINE Turn(n) == IF n = 0 THEN base ELSE Turned(after[n - 1], n)
  <2>1. after = [n \in 0..N |-> Turn(n)]
    BY <1>8, Zenon DEF MergedIn, Turned, base
  <2> HIDE DEF Turn
  <2>2. \A n \in 0..N : after[n] = Turn(n)
    BY <2>1
  <2> USE DEF Turn
  <2>3. after[0] = base
    BY <1>1, <2>2
  <2>4. \A n \in 1..N : n \in 0..N /\ n # 0
    BY <1>1
  <2> QED BY <2>2, <2>3, <2>4
<1>11. \A n \in 0..N : after[n] \in X
  <2> DEFINE S == {n \in 0..N : after[n] \in X}
  <2>1. 0 \in S
    BY <1>1, <1>3, <1>10
  <2>2. ASSUME NEW n \in 0..(N - 1), n \in S PROVE n + 1 \in S
    <3>1. n + 1 \in 1..N /\ n + 1 \in 0..N /\ (n + 1) - 1 = n
      BY <1>1
    <3> QED BY <1>2, <1>10, <2>2, <3>1
  <2> HIDE DEF S
  <2>3. \A n \in 0..N : n \in S
    BY <1>1, <2>1, <2>2, TurnInduction
  <2> QED BY <2>3 DEF S
<1>12. ListAt(after, ret, 0) = Returned(ret.heap, ret.list) /\ after[0].delta = <<>>
  BY <1>10 DEF base, ListAt
<1>13. ASSUME NEW n \in 1..N
       PROVE  LET before == ContentsOf(ListAt(after, ret, n - 1))
              IN  IF updated[n].name \in Names(before)
                    THEN /\ ContentsOf(ListAt(after, ret, n)) = Overridden(before, updated[n])
                         /\ after[n].delta = after[n - 1].delta
                    ELSE /\ ContentsOf(ListAt(after, ret, n)) = before
                         /\ after[n].delta = Append(after[n - 1].delta, updated[n])
  <2>1. after[n - 1] \in X /\ after[n] = Turned(after[n - 1], n)
    BY <1>1, <1>10, <1>11
  <2> DEFINE m == after[n - 1]
             after_n == after[n]
  <2>2. /\ ListAt(after, ret, n - 1) = Returned(m.heap, ret.list)
        /\ ListAt(after, ret, n) = Returned(after_n.heap, ret.list)
    BY DEF ListAt
  <2>3. m \in X /\ after_n = Turned(m, n)
    BY <2>1
  <2> HIDE DEF m, after_n
  <2>4. LET c == ContentsOf(Returned(m.heap, ret.list))
        IN  IF updated[n].name \in Names(c)
              THEN /\ ContentsOf(Returned(after_n.heap, ret.list)) = Overridden(c, updated[n])
                   /\ after_n.delta = m.delta
              ELSE /\ ContentsOf(Returned(after_n.heap, ret.list)) = c
                   /\ after_n.delta = Append(m.delta, updated[n])
    BY <1>2, <2>3
  <2> QED BY <2>2, <2>4 DEF m, after_n
<1> QED BY <1>5, <1>9, <1>11, <1>12, <1>13 DEF IsMerge, ListAt

-----------------------------------------------------------------------------
(* The helpers.                                                            *)

\* What a helper leaves: it writes to no array but the new one, and returns a list in
\* that one or the one it was given.
Leaves(h, slice, new, r) ==
  /\ IsHeap(r.heap)
  /\ DOMAIN h \subseteq DOMAIN r.heap /\ DOMAIN r.heap \subseteq DOMAIN h \cup {new}
  /\ \A a \in DOMAIN h \ {new} : r.heap[a] = h[a]
  /\ Lies(r.heap, r.list)
  /\ r.list.array = new \/ r.list = slice

\* So does what an operation on the new array leaves.
LEMMA OwnedLeaves ==
  ASSUME NEW h, NEW new, NEW slice, NEW r \in Owned(h, new)
  PROVE  Leaves(h, slice, new, r)
<1>1. /\ IsHeap(r.heap) /\ DOMAIN r.heap = DOMAIN h \cup {new}
      /\ Lies(r.heap, r.list) /\ r.list.array = new
  BY OwnedFacts
<1>2. \A a \in DOMAIN h \ {new} : r.heap[a] = h[a]
  BY DEF Owned
<1> QED BY <1>1, <1>2 DEF Leaves

\* One attribute put into a list.
LEMMA JoinedPut ==
  ASSUME NEW b \in Seq(AttributeInfo), NEW attr \in AttributeInfo
  PROVE  Joined(b, <<attr>>, PutIn(b, attr), NamesOf(Without(<<attr>>, Names(b))))
<1> DEFINE none == <<>>
           one == Append(none, attr)
<1>1. none \in Seq(AttributeInfo) /\ none \in Seq(AttributeNames) /\ one = <<attr>>
  OBVIOUS
<1>2. Joined(b, none, b, none)
  BY JoinedStart
<1>3. /\ Without(none, Names(b)) = none
      /\ NamesOf(none) = none
  <2>1. NamesOf(none) = none
    BY DEF NamesOf
  <2> QED BY <2>1, WithoutEmpty, Zenon
<1> HIDE DEF none
<1>4. Without(one, Names(b)) = IF attr.name \in Names(b) THEN none ELSE Append(none, attr)
  <2>1. Without(one, Names(b)) = IF attr.name \in Names(b) THEN Without(none, Names(b))
                                 ELSE Append(Without(none, Names(b)), attr)
    BY <1>1, WithoutAppend
  <2> QED BY <1>3, <2>1, Zenon
<1>5. CASE attr.name \in Names(b)
  <2>1. Joined(b, one, Overridden(b, attr), none)
    BY <1>1, <1>2, <1>5, JoinedOverride
  <2>2. Without(one, Names(b)) = none
    BY <1>4, <1>5
  <2>3. PutIn(b, attr) = Overridden(b, attr)
    BY <1>5 DEF PutIn
  <2> HIDE DEF one
  <2> QED BY <1>1, <1>3, <2>1, <2>2, <2>3, Zenon
<1>6. CASE attr.name \notin Names(b)
  <2>1. Joined(b, one, Append(b, attr), Append(none, attr.name))
    BY <1>1, <1>2, <1>6, JoinedAppend
  <2>2. Without(one, Names(b)) = one
    BY <1>4, <1>6
  <2>3. PutIn(b, attr) = Append(b, attr)
    BY <1>6 DEF PutIn
  <2>4. NamesOf(one) = Append(none, attr.name)
    <3>1. NamesOf(one) = Append(NamesOf(none), attr.name)
      BY <1>1, SoFar
    <3> QED BY <1>3, <3>1, Zenon
  <2> HIDE DEF one
  <2> QED BY <1>1, <2>1, <2>2, <2>3, <2>4, Zenon
<1> QED BY <1>5, <1>6

\* Insert, unless it is given no name, works on a copy.
LEMMA InsertFacts ==
  ASSUME NEW h, NEW slice, NEW new, IsHeap(h), Lies(h, slice), NEW attr \in AttributeInfo
  PROVE  LET r == Insert(h, slice, attr, new)
             before == Contents(h, slice)
         IN  /\ Leaves(h, slice, new, r)
             /\ Nameless(attr) => ContentsOf(r) = before
             /\ ~Nameless(attr) =>
                  Joined(before, <<attr>>, ContentsOf(r),
                         NamesOf(Without(<<attr>>, Names(before))))
<1> DEFINE r == Insert(h, slice, attr, new)
           before == Contents(h, slice)
           copy == DeepCopy(h, slice, new)
<1>0. r = IF Nameless(attr)
            THEN Returned(h, slice)
            ELSE IF attr.name \in Names(before)
              THEN Returned(SetValue(copy.heap, copy.list, attr), copy.list)
              ELSE AppendAll(copy.heap, copy.list, <<attr>>, new)
  BY Zenon DEF Insert
<1> HIDE DEF r
<1>1. CASE Nameless(attr)
  <2>1. r = Returned(h, slice)
    BY <1>0, <1>1
  <2>2. r.heap = h /\ r.list = slice
    BY <2>1 DEF Returned
  <2>3. Leaves(h, slice, new, r)
    BY <2>2 DEF Leaves
  <2> QED BY <1>1, <2>2, <2>3 DEF ContentsOf, r
<1>2. CASE ~Nameless(attr)
  <2>1. copy \in Owned(h, new) /\ ContentsOf(copy) = before /\ before \in Seq(AttributeInfo)
    BY CopyFacts
  <2>2. r = UpdateAttribute(copy.heap, copy.list, attr, new)
    <3>1. Contents(copy.heap, copy.list) = before
      BY <2>1 DEF ContentsOf
    <3> HIDE DEF copy, before
    <3>2. r = IF attr.name \in Names(before)
                THEN Returned(SetValue(copy.heap, copy.list, attr), copy.list)
                ELSE AppendAll(copy.heap, copy.list, <<attr>>, new)
      BY <1>0, <1>2
    <3> QED BY <3>1, <3>2, Zenon DEF UpdateAttribute
  <2> HIDE DEF copy, before
  <2>3. r \in Owned(h, new) /\ ContentsOf(r) = PutIn(before, attr)
    BY <2>1, <2>2, UpdateFacts
  <2>4. Leaves(h, slice, new, r)
    BY <2>3, OwnedLeaves
  <2>5. Joined(before, <<attr>>, PutIn(before, attr), NamesOf(Without(<<attr>>, Names(before))))
    BY <2>1, JoinedPut
  <2> QED BY <1>2, <2>3, <2>4, <2>5 DEF r, before
<1> QED BY <1>1, <1>2

\* What the loop of DeleteAll keeps is the attributes with another name, in their order:
\* an attribute more with that name changes nothing, one with another comes behind all.
LEMMA WithoutDeletes ==
  ASSUME NEW T, NEW list \in Seq(T), NEW name
  PROVE  Deleted(list, name, Without(list, {name}))
<1> DEFINE S == {s \in Seq(T) : Deleted(s, name, Without(s, {name}))}
<1>1. <<>> \in S
  <2> DEFINE none == <<>>
             kept == {i \in DOMAIN none : none[i].name # name}
  <2>1. none \in Seq(T) /\ Len(none) = 0 /\ kept = {}
    OBVIOUS
  <2>2. Without(none, {name}) = none
    BY WithoutEmpty
  <2> HIDE DEF none
  <2>3. Cardinality(kept) = 0
    BY <2>1, FS_EmptySet
  <2>4. Deleted(none, name, none)
    BY <2>1, <2>3 DEF Deleted
  <2> QED BY <2>1, <2>2, <2>4 DEF none
<1>2. ASSUME NEW s \in Seq(T), s \in S, NEW x \in T PROVE Append(s, x) \in S
  <2> DEFINE N == Len(s)
             longer == Append(s, x)
             before == Without(s, {name})
             after == Without(longer, {name})
             kept == {i \in 1..N : s[i].name # name}
             more == {i \in 1..(N + 1) : longer[i].name # name}
             Place(i) == Cardinality({j \in kept : j <= i})
             Next(i) == Cardinality({j \in more : j <= i})
  <2>1. /\ N \in Nat /\ longer \in Seq(T) /\ DOMAIN s = 1..N /\ DOMAIN longer = 1..(N + 1)
        /\ \A i \in 1..N : longer[i] = s[i]
        /\ longer[N + 1] = x
    OBVIOUS
  <2>2. before \in Seq(T) /\ after = IF x.name = name THEN before ELSE Append(before, x)
    BY WithoutType, WithoutAppend
  <2>3. /\ Len(before) = Cardinality(kept)
        /\ \A i \in kept : before[Place(i)] = s[i]
    BY <1>2, <2>1 DEF Deleted
  <2>4. Deleted(longer, name, after)
          <=> /\ Len(after) = Cardinality(more)
              /\ \A i \in more : after[Next(i)] = longer[i]
    BY <2>1 DEF Deleted
  <2>5. IsFiniteSet(kept) /\ Cardinality(kept) \in Nat
    <3>1. IsFiniteSet(1..N)
      BY <2>1, FS_Interval
    <3>2. kept \subseteq 1..N
      OBVIOUS
    <3> HIDE DEF kept, N
    <3> QED BY <3>1, <3>2, FS_Subset, FS_CardinalityType
  <2>6. more = IF x.name = name THEN kept ELSE kept \cup {N + 1}
    <3> HIDE DEF longer
    <3>1. 1..(N + 1) = 1..N \cup {N + 1}
      BY <2>1
    <3> QED BY <2>1, <3>1
  <2>7. \A i \in kept : i \in Nat /\ i <= N
    BY <2>1
  <2> SUFFICES Deleted(longer, name, after)
    BY <2>1
  <2> HIDE DEF N, longer, before, after, kept, more
  <2>8. CASE x.name = name
    <3>1. more = kept /\ after = before
      BY <2>2, <2>6, <2>8
    <3>2. \A i \in more : Next(i) = Place(i) /\ longer[i] = s[i]
      BY <2>1, <3>1 DEF kept
    <3> HIDE DEF Next, Place
    <3> QED BY <2>1, <2>3, <2>4, <3>1, <3>2
  <2>9. CASE x.name # name
    <3>1. more = kept \cup {N + 1} /\ after = Append(before, x) /\ N + 1 \notin kept
      BY <2>1, <2>2, <2>6, <2>7, <2>9
    <3>2. Cardinality(more) = Cardinality(kept) + 1
      BY <2>5, <3>1, FS_AddElement
    <3>3. /\ Len(after) = Len(before) + 1 /\ after[Len(before) + 1] = x
          /\ \A k \in 1..Len(before) : after[k] = before[k]
      BY <2>2, <3>1
    <3>4. ASSUME NEW i \in kept PROVE after[Next(i)] = longer[i]
      <4>1. {j \in more : j <= i} = {j \in kept : j <= i}
        BY <2>1, <2>7, <3>1
      <4>2. Next(i) = Place(i)
        BY <4>1
      <4>3. Place(i) \in 1..Cardinality(kept)
        <5> DEFINE upTo == {j \in kept : j <= i}
        <5>1. upTo \subseteq kept /\ i \in upTo
          BY <2>7
        <5> HIDE DEF upTo
        <5>2. IsFiniteSet(upTo) /\ Cardinality(upTo) <= Cardinality(kept)
          BY <2>5, <5>1, FS_Subset
        <5>3. Cardinality(upTo) \in Nat /\ Cardinality(upTo) # 0
          BY <5>1, <5>2, FS_CardinalityType, FS_EmptySet
        <5>4. Cardinality(upTo) \in 1..Cardinality(kept)
          BY <2>5, <5>2, <5>3
        <5> QED BY <5>4 DEF upTo
      <4>4. longer[i] = s[i]
        BY <2>1 DEF kept
      <4> HIDE DEF Next, Place
      <4> QED BY <2>3, <3>3, <4>2, <4>3, <4>4
    <3>5. after[Next(N + 1)] = longer[N + 1]
      <4>1. {j \in more : j <= N + 1} = more
        BY <2>1, <2>7, <3>1
      <4>2. Next(N + 1) = Len(before) + 1
        BY <2>3, <3>2, <4>1
      <4> HIDE DEF Next
      <4> QED BY <2>1, <3>3, <4>2
    <3> HIDE DEF Next, Place
    <3> QED BY <2>1, <2>3, <2>4, <3>1, <3>2, <3>3, <3>4, <3>5
  <2> QED BY <2>8, <2>9
<1> HIDE DEF S
<1>3. list \in S
  BY <1>1, <1>2, ListInduction
<1> QED BY <1>3 DEF S

\* DeleteAll makes an array of what it keeps.
LEMMA DeleteAllFacts ==
  ASSUME NEW h, NEW slice, NEW new, IsHeap(h), Lies(h, slice), NEW name
  PROVE  LET r == DeleteAll(h, slice, name, new)
         IN  /\ Leaves(h, slice, new, r)
             /\ Deleted(Contents(h, slice), name, ContentsOf(r))
<1> DEFINE before == Contents(h, slice)
           kept == Without(before, {name})
           spare == slice.len - Len(kept)
           array == Allocated(kept, spare)
           list == [array |-> new, len |-> Len(kept)]
           r == DeleteAll(h, slice, name, new)
<1>1. before \in Seq(AttributeInfo) /\ Len(before) = slice.len /\ slice.len \in Nat
  BY ContentsFacts DEF Lies
<1>2. kept \in Seq(AttributeInfo) /\ Len(kept) \in Nat /\ spare \in Nat
  <2> HIDE DEF before
  <2>1. kept \in Seq(AttributeInfo) /\ Len(kept) <= Len(before)
    BY <1>1, WithoutType
  <2> HIDE DEF kept
  <2>2. Len(kept) \in Nat
    BY <2>1
  <2> QED BY <1>1, <2>1, <2>2
<1>3. r = Returned(Stored(h, new, array), list)
  BY DEF DeleteAll
<1> HIDE DEF before, kept, spare, r
<1>4. /\ array \in Seq(AttributeInfo) /\ Len(kept) \in 0..Len(array)
      /\ SubSeq(array, 1, Len(kept)) = kept
  BY <1>2, AllocatedFacts
<1> HIDE DEF array
<1>5. list \in [array : {new}, len : 0..Len(array)] /\ list.len = Len(kept)
  BY <1>4
<1> HIDE DEF list
<1>6. r \in Owned(h, new) /\ ContentsOf(r) = kept
  BY <1>3, <1>4, <1>5, StoredOwned
<1>7. Leaves(h, slice, new, r)
  BY <1>6, OwnedLeaves
<1>8. Deleted(before, name, kept)
  BY <1>1, WithoutDeletes DEF kept
<1> QED BY <1>6, <1>7, <1>8 DEF before, r

\* What updateAttributes has come to after each turn is the attributes so far joined in.
LEMMA UpdateAttributesFacts ==
  ASSUME NEW h, NEW slice, NEW new, IsHeap(h), Lies(h, slice),
         NEW updated \in Seq(AttributeInfo)
  PROVE  LET r == UpdateAttributes(h, slice, updated, new)
             before == Contents(h, slice)
         IN  /\ Leaves(h, slice, new, r)
             /\ Joined(before, updated, ContentsOf(r),
                       Distinct(NamesOf(Without(updated, Names(before)))))
<1> DEFINE r == UpdateAttributes(h, slice, updated, new)
           before == Contents(h, slice)
           copy == DeepCopy(h, slice, new)
           after == UpdateLoop(copy, updated, new)
           N == Len(updated)
           Prefix(n) == SubSeq(updated, 1, n)
           New(u) == Distinct(NamesOf(Without(u, Names(before))))
           S == {n \in 0..N : Joined(before, Prefix(n), ContentsOf(after[n]), New(Prefix(n)))}
<1>1. /\ copy \in Owned(h, new) /\ ContentsOf(copy) = before
      /\ before \in Seq(AttributeInfo) /\ N \in Nat
  BY CopyFacts
<1>2. r = after[N]
  BY DEF UpdateAttributes
<1> HIDE DEF copy, before, r
<1>3. IsUpdate(after, h, copy, updated, new)
  BY <1>1, UpdateTurns
<1> HIDE DEF after
<1>4. /\ after[0] = copy
      /\ \A n \in 0..N : after[n] \in Owned(h, new)
      /\ \A n \in 1..N : ContentsOf(after[n]) = PutIn(ContentsOf(after[n - 1]), updated[n])
  BY <1>3 DEF IsUpdate
<1>5. 0 \in S
  <2> DEFINE none == <<>>
  <2>1. Prefix(0) = none /\ NamesOf(none) = none
    BY DEF NamesOf
  <2>2. Joined(before, none, before, none)
    BY <1>1, JoinedStart
  <2>3. Without(none, Names(before)) = none /\ Distinct(none) = none
    BY WithoutEmpty, DistinctEmpty, Zenon
  <2> HIDE DEF none, Prefix
  <2>4. New(Prefix(0)) = none
    BY <2>1, <2>3, Zenon
  <2>5. ContentsOf(after[0]) = before
    BY <1>1, <1>4
  <2> HIDE DEF New
  <2>6. Joined(before, Prefix(0), ContentsOf(after[0]), New(Prefix(0)))
    BY <2>1, <2>2, <2>4, <2>5, Zenon
  <2> QED BY <1>1, <2>6
<1>6. ASSUME NEW n \in 0..(N - 1), n \in S PROVE n + 1 \in S
  <2> DEFINE u == Prefix(n)
             attr == updated[n + 1]
             c == ContentsOf(after[n])
             left == Without(u, Names(before))
  <2>1. /\ n + 1 \in 0..N /\ n + 1 \in 1..N /\ (n + 1) - 1 = n /\ n \in 0..N
    BY <1>1
  <2>2. u \in Seq(AttributeInfo) /\ attr \in AttributeInfo /\ Prefix(n + 1) = Append(u, attr)
    BY <1>1, PrefixNext
  <2>3. c \in Seq(AttributeInfo) /\ ContentsOf(after[n + 1]) = PutIn(c, attr)
    BY <1>4, <2>1, OwnedFacts
  <2>4. Joined(before, u, c, New(u))
    BY <1>6
  <2> HIDE DEF u, attr, c, Prefix
  <2>5. left \in Seq(AttributeInfo) /\ NamesOf(left) \in Seq(AttributeNames)
    BY <2>2, WithoutType, NamesOfType
  <2>6. attr.name \in AttributeNames
    BY <2>2 DEF AttributeInfo, AttributeNames
  <2>7. Without(Append(u, attr), Names(before))
          = IF attr.name \in Names(before) THEN left ELSE Append(left, attr)
    BY <2>2, WithoutAppend
  <2>8. NamesOf(Append(left, attr)) = Append(NamesOf(left), attr.name)
    BY <2>2, <2>5, SoFar
  <2>9. /\ New(u) \in Seq(AttributeNames)
        /\ Distinct(Append(NamesOf(left), attr.name))
             = IF attr.name \in Range(New(u)) THEN New(u) ELSE Append(New(u), attr.name)
    BY <2>5, <2>6, DistinctAppend
  <2>10. attr.name \in Names(c) <=> attr.name \in Names(before) \cup Range(New(u))
    <3> DEFINE p == NamesOf(before)
               q == New(u)
    <3>1. p \in Seq(AttributeNames) /\ q \in Seq(AttributeNames) /\ NamesOf(c) = p \o q
      BY <1>1, <2>4, <2>9, NamesOfType DEF Joined
    <3>2. attr.name \in Names(c) <=> \E i \in 1..Len(NamesOf(c)) : NamesOf(c)[i] = attr.name
      BY <2>3, NamesFacts
    <3>3. attr.name \in Names(before) <=> \E i \in 1..Len(p) : p[i] = attr.name
      BY <1>1, NamesFacts
    <3> HIDE DEF p, q, New
    <3>4. DOMAIN q = 1..Len(q)
      BY <3>1
    <3>5. attr.name \in Range(q) <=> \E i \in 1..Len(q) : q[i] = attr.name
      BY <3>4 DEF Range
    <3>6. \A x : (\E i \in 1..Len(p \o q) : (p \o q)[i] = x)
                   <=> (\E i \in 1..Len(p) : p[i] = x) \/ (\E i \in 1..Len(q) : q[i] = x)
      <4>1. /\ Len(p \o q) = Len(p) + Len(q) /\ Len(p) \in Nat /\ Len(q) \in Nat
            /\ \A i \in 1..(Len(p) + Len(q)) : (p \o q)[i] = IF i <= Len(p) THEN p[i]
                                                             ELSE q[i - Len(p)]
        BY <3>1, ConcatProperties
      <4>2. \A i \in 1..Len(p) : i \in 1..(Len(p) + Len(q)) /\ (p \o q)[i] = p[i]
        BY <4>1
      <4>3. \A i \in 1..Len(q) : /\ Len(p) + i \in 1..(Len(p) + Len(q))
                                 /\ (p \o q)[Len(p) + i] = q[i]
        <5> SUFFICES ASSUME NEW i \in 1..Len(q)
                     PROVE  /\ Len(p) + i \in 1..(Len(p) + Len(q))
                            /\ (p \o q)[Len(p) + i] = q[i]
          OBVIOUS
        <5>1. /\ Len(p) + i \in 1..(Len(p) + Len(q))
              /\ ~(Len(p) + i <= Len(p)) /\ (Len(p) + i) - Len(p) = i
          BY <4>1
        <5> QED BY <4>1, <5>1
      <4>4. \A i \in 1..(Len(p) + Len(q)) :
              \/ i \in 1..Len(p) /\ (p \o q)[i] = p[i]
              \/ i - Len(p) \in 1..Len(q) /\ (p \o q)[i] = q[i - Len(p)]
        BY <4>1
      <4> QED BY <4>1, <4>2, <4>3, <4>4
    <3>7. attr.name \in Names(c) <=> \E i \in 1..Len(p \o q) : (p \o q)[i] = attr.name
      BY <3>1, <3>2, Zenon
    <3>8. attr.name \in Names(c) <=> attr.name \in Names(before) \cup Range(q)
      BY <3>3, <3>5, <3>6, <3>7
    <3> QED BY <3>8 DEF q
  <2>11. CASE attr.name \in Names(c)
    <3>1. Joined(before, Append(u, attr), Overridden(c, attr), New(u))
      BY <1>1, <2>2, <2>3, <2>4, <2>11, JoinedOverride
    <3>2. New(Append(u, attr)) = New(u)
      BY <2>7, <2>8, <2>9, <2>10, <2>11
    <3>3. ContentsOf(after[n + 1]) = Overridden(c, attr)
      BY <2>3, <2>11 DEF PutIn
    <3> HIDE DEF New
    <3>4. Joined(before, Prefix(n + 1), ContentsOf(after[n + 1]), New(Prefix(n + 1)))
      BY <2>2, <3>1, <3>2, <3>3, Zenon
    <3> QED BY <2>1, <3>4
  <2>12. CASE attr.name \notin Names(c)
    <3>1. Joined(before, Append(u, attr), Append(c, attr), Append(New(u), attr.name))
      <4> HIDE DEF New
      <4> QED BY <1>1, <2>2, <2>3, <2>4, <2>9, <2>12, JoinedAppend
    <3>2. New(Append(u, attr)) = Append(New(u), attr.name)
      BY <2>7, <2>8, <2>9, <2>10, <2>12
    <3>3. ContentsOf(after[n + 1]) = Append(c, attr)
      BY <2>3, <2>12 DEF PutIn
    <3> HIDE DEF New
    <3>4. Joined(before, Prefix(n + 1), ContentsOf(after[n + 1]), New(Prefix(n + 1)))
      BY <2>2, <3>1, <3>2, <3>3, Zenon
    <3> QED BY <2>1, <3>4
  <2> QED BY <2>11, <2>12
<1> HIDE DEF S
<1>7. N \in S
  <2>1. \A n \in 0..N : n \in S
    BY <1>1, <1>5, <1>6, TurnInduction
  <2> QED BY <1>1, <2>1
<1>8. Prefix(N) = updated
  OBVIOUS
<1>9. r \in Owned(h, new)
  BY <1>1, <1>2, <1>4
<1>10. Leaves(h, slice, new, r)
  BY <1>9, OwnedLeaves
<1> HIDE DEF Prefix, New
<1>11. Joined(before, updated, ContentsOf(r), New(updated))
  BY <1>2, <1>7, <1>8, Zenon DEF S
<1> QED BY <1>10, <1>11 DEF r, before, New

\* A result whose list is another's with attributes appended.
Longer(r, s, attributes) == ContentsOf(r) = ContentsOf(s) \o attributes

\* Such is what append returns.
LEMMA AppendLonger ==
  ASSUME NEW h, NEW new, NEW r \in Owned(h, new), NEW attributes \in Seq(AttributeInfo)
  PROVE  Longer(AppendAll(r.heap, r.list, attributes, new), r, attributes)
BY AppendFacts DEF Longer

\* Merge's loop overwrites what the list has, and behind it comes what it has not.
LEMMA MergeFacts ==
  ASSUME NEW h, NEW slice, NEW new, IsHeap(h), Lies(h, slice),
         NEW updated \in Seq(AttributeInfo)
  PROVE  LET r == Merge(h, slice, updated, new)
             before == Contents(h, slice)
         IN  /\ Leaves(h, slice, new, r)
             /\ Joined(before, updated, ContentsOf(r),
                       NamesOf(Without(updated, Names(before))))
<1> DEFINE r == Merge(h, slice, updated, new)
           before == Contents(h, slice)
           ret == DeepCopy(h, slice, new)
           after == MergeLoop(ret, updated)
           N == Len(updated)
           Prefix(n) == SubSeq(updated, 1, n)
           ListOfTurn(n) == ContentsOf(ListAt(after, ret, n))
           S == {n \in 0..N : /\ Joined(before, Prefix(n), ListOfTurn(n), <<>>)
                              /\ after[n].delta = Without(Prefix(n), Names(before))}
<1>1. /\ ret \in Owned(h, new) /\ ContentsOf(ret) = before
      /\ before \in Seq(AttributeInfo) /\ N \in Nat
  BY CopyFacts
<1>2. r = AppendAll(after[N].heap, ret.list, after[N].delta, new)
  BY DEF Merge
<1> HIDE DEF ret, before, r
<1>3. IsMerge(after, h, ret, updated, new)
  BY <1>1, MergeTurns
<1> HIDE DEF after
<1>4. /\ ListAt(after, ret, 0) = Returned(ret.heap, ret.list) /\ after[0].delta = <<>>
      /\ \A n \in 0..N : /\ ListAt(after, ret, n) \in Owned(h, new)
                         /\ after[n].delta \in Seq(AttributeInfo)
      /\ \A n \in 1..N :
           IF updated[n].name \in Names(ListOfTurn(n - 1))
             THEN /\ ListOfTurn(n) = Overridden(ListOfTurn(n - 1), updated[n])
                  /\ after[n].delta = after[n - 1].delta
             ELSE /\ ListOfTurn(n) = ListOfTurn(n - 1)
                  /\ after[n].delta = Append(after[n - 1].delta, updated[n])
  BY <1>3 DEF IsMerge
<1>5. 0 \in S
  <2> DEFINE none == <<>>
  <2>1. Prefix(0) = none
    OBVIOUS
  <2>2. Joined(before, none, before, none)
    BY <1>1, JoinedStart
  <2>3. Without(none, Names(before)) = none
    BY WithoutEmpty, Zenon
  <2>4. ListOfTurn(0) = before
    <3>1. ListAt(after, ret, 0) = ret
      BY <1>1, <1>4, OwnedRecord, Zenon
    <3> QED BY <1>1, <3>1
  <2>5. after[0].delta = none
    BY <1>4
  <2> HIDE DEF none, Prefix, ListOfTurn
  <2>6. /\ Joined(before, Prefix(0), ListOfTurn(0), none)
        /\ after[0].delta = Without(Prefix(0), Names(before))
    BY <2>1, <2>2, <2>3, <2>4, <2>5, Zenon
  <2> QED BY <1>1, <2>6 DEF none
<1>6. ASSUME NEW n \in 0..(N - 1), n \in S PROVE n + 1 \in S
  <2> DEFINE u == Prefix(n)
             attr == updated[n + 1]
             c == ListOfTurn(n)
             none == <<>>
             delta == after[n].delta
             next == after[n + 1].delta
  <2>1. n + 1 \in 0..N /\ n + 1 \in 1..N /\ (n + 1) - 1 = n /\ n \in 0..N
    BY <1>1
  <2>2. u \in Seq(AttributeInfo) /\ attr \in AttributeInfo /\ Prefix(n + 1) = Append(u, attr)
    BY <1>1, PrefixNext
  <2>3. c \in Seq(AttributeInfo)
    BY <1>4, <2>1, OwnedFacts
  <2>4. Joined(before, u, c, none) /\ delta = Without(u, Names(before))
    BY <1>6
  <2>5. IF attr.name \in Names(c)
          THEN ListOfTurn(n + 1) = Overridden(c, attr) /\ next = delta
          ELSE ListOfTurn(n + 1) = c /\ next = Append(delta, attr)
    <3> HIDE DEF ListOfTurn
    <3> QED BY <1>4, <2>1
  <2> HIDE DEF u, attr, c, Prefix, none, delta, next
  <2>6. Names(c) = Names(before)
    <3>1. NamesOf(c) = NamesOf(before)
      <4>1. NamesOf(before) \in Seq(AttributeNames) /\ NamesOf(c) = NamesOf(before) \o <<>>
        BY <1>1, <2>4, NamesOfType DEF Joined, none
      <4>2. \A p \in Seq(AttributeNames) : p \o <<>> = p
        OBVIOUS
      <4> QED BY <4>1, <4>2, Zenon
    <3>2. \A x : x \in Names(c) <=> x \in Names(before)
      <4>1. \A x : x \in Names(c) <=> \E i \in 1..Len(NamesOf(c)) : NamesOf(c)[i] = x
        BY <2>3, NamesFacts
      <4>2. \A x : x \in Names(before)
                     <=> \E i \in 1..Len(NamesOf(before)) : NamesOf(before)[i] = x
        BY <1>1, NamesFacts
      <4> QED BY <3>1, <4>1, <4>2
    <3> QED BY <3>2
  <2>7. Without(Append(u, attr), Names(before))
          = IF attr.name \in Names(before) THEN delta ELSE Append(delta, attr)
    <3>1. Without(Append(u, attr), Names(before))
            = IF attr.name \in Names(before) THEN Without(u, Names(before))
              ELSE Append(Without(u, Names(before)), attr)
      BY <2>2, WithoutAppend
    <3> QED BY <2>4, <3>1, Zenon
  <2>8. next = Without(Prefix(n + 1), Names(before))
    <3>1. next = IF attr.name \in Names(before) THEN delta ELSE Append(delta, attr)
      BY <2>5, <2>6
    <3> QED BY <2>2, <2>7, <3>1, Zenon
  <2>9. Joined(before, Prefix(n + 1), ListOfTurn(n + 1), none)
    <3> HIDE DEF ListOfTurn
    <3>1. CASE attr.name \in Names(c)
      <4>1. Joined(before, Append(u, attr), Overridden(c, attr), none)
        BY <1>1, <2>2, <2>3, <2>4, <3>1, JoinedOverride
      <4>2. ListOfTurn(n + 1) = Overridden(c, attr)
        BY <2>5, <3>1
      <4> QED BY <2>2, <4>1, <4>2, Zenon
    <3>2. CASE attr.name \notin Names(c)
      <4>1. Joined(before, Append(u, attr), c, none)
        BY <1>1, <2>2, <2>3, <2>4, <3>2, JoinedLater
      <4>2. ListOfTurn(n + 1) = c
        BY <2>5, <3>2
      <4> QED BY <2>2, <4>1, <4>2, Zenon
    <3> QED BY <3>1, <3>2
  <2> HIDE DEF ListOfTurn
  <2> QED BY <2>1, <2>8, <2>9 DEF none, next
<1> HIDE DEF S
<1>7. N \in S
  <2>1. \A n \in 0..N : n \in S
    BY <1>1, <1>5, <1>6, TurnInduction
  <2> QED BY <1>1, <2>1
<1> DEFINE last == ListAt(after, ret, N)
           delta == after[N].delta
           c == ContentsOf(last)
<1>8. /\ Joined(before, updated, c, <<>>)
      /\ delta = Without(updated, Names(before))
  <2>1. Prefix(N) = updated
    OBVIOUS
  <2> HIDE DEF Prefix
  <2> QED BY <1>7, <2>1, Zenon DEF S
<1>9. last \in Owned(h, new) /\ delta \in Seq(AttributeInfo)
  BY <1>1, <1>4
<1>10. /\ r \in Owned(h, new) /\ ContentsOf(r) = c \o delta
       /\ c \in Seq(AttributeInfo)
  <2>1. last.heap = after[N].heap /\ last.list = ret.list
    BY DEF ListAt, Returned
  <2> HIDE DEF last, delta
  <2>2. r = AppendAll(last.heap, last.list, delta, new)
    BY <1>2, <2>1, Zenon DEF delta
  <2>3. c \in Seq(AttributeInfo)
    BY <1>9, OwnedFacts
  <2> HIDE DEF c
  <2>4. AppendAll(last.heap, last.list, delta, new) \in Owned(h, new)
    BY <1>9, AppendFacts
  <2> DEFINE q == AppendAll(last.heap, last.list, delta, new)
  <2>5. ContentsOf(q) = ContentsOf(last) \o delta
    <3>1. Longer(q, last, delta)
      BY <1>9, AppendLonger
    <3> QED BY <3>1 DEF Longer
  <2>6. c = ContentsOf(last)
    BY DEF c
  <2> QED BY <2>2, <2>3, <2>4, <2>5, <2>6, Zenon
<1> HIDE DEF last, delta
<1>11. Leaves(h, slice, new, r)
  BY <1>10, OwnedLeaves
<1> HIDE DEF c
<1>12. Joined(before, updated, c \o delta, NamesOf(delta))
  <2>1. LET d == Without(updated, Names(before))
        IN  Joined(before, updated, c \o d, NamesOf(d))
    BY <1>1, <1>8, <1>10, JoinedBehind
  <2> QED BY <1>8, <2>1, Zenon
<1>13. Joined(before, updated, ContentsOf(r), NamesOf(Without(updated, Names(before))))
  BY <1>8, <1>10, <1>12, Zenon
<1> QED BY <1>11, <1>13 DEF r, before

=============================================================================
