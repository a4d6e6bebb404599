--------------------------- MODULE OrderFormProofs ---------------------------
(***************************************************************************)
(* For every limit, every first form, any number of posts and texts of any *)
(* length: every fault is reported, and nothing else; a form whose         *)
(* messages have all been acted on is accepted; what is stored is what the *)
(* customer last put in; the row passes validation again and reads back as *)
(* itself; and what studio and customer are told of the order is what the  *)
(* row says.                                                               *)
(*                                                                         *)
(* What lines, services and joined lines are is proved by induction over   *)
(* the text, which the first section turns into facts about sets.          *)
(***************************************************************************)
EXTENDS Correspondence, SequenceTheorems, FiniteSetTheorems, WellFoundedInduction, TLAPS

-----------------------------------------------------------------------------
(* Induction, over sets: of naturals and of sequences *)

\* A set of naturals that is not empty has a least one.
LEMMA LeastNatural ==
  ASSUME NEW T, T \subseteq Nat, T # {}
  PROVE  \E n \in T : \A m \in T : n <= m
<1> DEFINE R == OpToRel(<, Nat)
<1>1. PICK n \in T : \A m \in T : ~ (<<m, n>> \in R)
  <2> HIDE DEF R
  <2>1. IsWellFoundedOn(R, Nat)
    BY NatLessThanWellFounded DEF R
  <2> QED BY <2>1, WFMin
<1>2. ASSUME NEW m \in T PROVE n <= m
  <2>1. m \in Nat /\ n \in Nat
    OBVIOUS
  <2>2. ~ (<<m, n>> \in R)
    BY <1>1
  <2>3. <<m, n>> \in R <=> m < n
    BY <2>1 DEF OpToRel
  <2> HIDE DEF R
  <2> QED BY <2>1, <2>2, <2>3
<1> HIDE DEF R
<1> QED BY <1>2

\* A set that holds 0 and the successor of each of its naturals holds them all.
LEMMA AllNaturals ==
  ASSUME NEW S, 0 \in S, \A n \in Nat : n \in S => n + 1 \in S
  PROVE  Nat \subseteq S
<1> SUFFICES ASSUME NEW k \in Nat, k \notin S PROVE FALSE
  OBVIOUS
<1>1. PICK n \in Nat \ S : \A m \in Nat \ S : n <= m
  BY LeastNatural
<1>2. n - 1 \in Nat /\ n - 1 \in S
  BY <1>1
<1> QED BY <1>1, <1>2

\* A set that holds the empty sequence, and each of its sequences with one more
\* element, holds them all.
LEMMA AllSequences ==
  ASSUME NEW E, NEW S, <<>> \in S,
         \A s \in Seq(E) : s \in S => \A e \in E : Append(s, e) \in S
  PROVE  Seq(E) \subseteq S
<1> DEFINE N == {n \in Nat : \A s \in Seq(E) : Len(s) = n => s \in S}
<1>1. 0 \in N
  BY EmptySeq
<1>2. ASSUME NEW n \in Nat, n \in N PROVE n + 1 \in N
  <2> SUFFICES ASSUME NEW s \in Seq(E), Len(s) = n + 1 PROVE s \in S
    OBVIOUS
  <2>1. s # <<>>
    BY EmptySeq
  <2>2. PICK t \in Seq(E), e \in E : s = Append(t, e)
    BY <2>1, SequenceEmptyOrAppend
  <2>3. Len(t) = n
    BY <2>2, AppendProperties
  <2>4. t \in S
    BY <1>2, <2>3
  <2> QED BY <2>2, <2>4
<1> HIDE DEF N
<1>3. Nat \subseteq N
  BY <1>1, <1>2, AllNaturals
<1>4. ASSUME NEW s \in Seq(E) PROVE s \in S
  <2>1. Len(s) \in N
    BY <1>3, LenProperties
  <2> QED BY <2>1 DEF N
<1> QED BY <1>4

\* A recursion over 0 .. n has a solution.
Solvable(V, first, n, step) ==
  \E f \in [0 .. n -> V] : f[0] = first /\ \A i \in 1 .. n : f[i] = step[i][f[i - 1]]

LEMMA Recursion ==
  ASSUME NEW V, NEW first \in V, NEW n \in Nat, NEW step \in [1 .. n -> [V -> V]]
  PROVE  Solvable(V, first, n, step)
<1> DEFINE Begun(m, f) == f[0] = first /\ \A i \in 1 .. m : f[i] = step[i][f[i - 1]]
<1> DEFINE S == {m \in Nat : m <= n => \E f \in [0 .. m -> V] : Begun(m, f)}
<1>1. 0 \in S
  <2> DEFINE f == [i \in 0 .. 0 |-> first]
  <2>1. f \in [0 .. 0 -> V] /\ Begun(0, f)
    OBVIOUS
  <2> HIDE DEF f, Begun
  <2> QED BY <2>1
<1>2. ASSUME NEW m \in Nat, m \in S PROVE m + 1 \in S
  <2> SUFFICES ASSUME m + 1 <= n PROVE \E g \in [0 .. m + 1 -> V] : Begun(m + 1, g)
    OBVIOUS
  <2>1. PICK f \in [0 .. m -> V] : Begun(m, f)
    BY <1>2
  <2> DEFINE g == [i \in 0 .. m + 1 |-> IF i = m + 1 THEN step[m + 1][f[m]] ELSE f[i]]
  <2>2. step[m + 1][f[m]] \in V
    <3>1. m + 1 \in 1 .. n /\ f[m] \in V
      OBVIOUS
    <3> QED BY <3>1
  <2>3. g \in [0 .. m + 1 -> V] /\ g[0] = first
    BY <2>1, <2>2
  <2>4. ASSUME NEW i \in 1 .. m + 1 PROVE g[i] = step[i][g[i - 1]]
    <3>1. CASE i = m + 1
      BY <3>1
    <3>2. CASE i \in 1 .. m
      <4>1. g[i] = f[i] /\ g[i - 1] = f[i - 1]
        BY <3>2
      <4> QED BY <2>1, <3>2, <4>1
    <3> QED BY <3>1, <3>2
  <2> QED BY <2>3, <2>4
<1> HIDE DEF S
<1>3. n \in S
  BY <1>1, <1>2, AllNaturals
<1> QED BY <1>3 DEF S, Solvable

\* Two recursions that begin and go on alike are alike.
Agree(f, g, n) == \A i \in 0 .. n : f[i] = g[i]

LEMMA Alike ==
  ASSUME NEW n \in Nat, NEW f, NEW g, f[0] = g[0],
         \A i \in 1 .. n : f[i - 1] = g[i - 1] => f[i] = g[i]
  PROVE  Agree(f, g, n)
<1> DEFINE S == {i \in Nat : i <= n => f[i] = g[i]}
<1>1. 0 \in S
  OBVIOUS
<1>2. ASSUME NEW i \in Nat, i \in S PROVE i + 1 \in S
  <2> SUFFICES ASSUME i + 1 <= n PROVE f[i + 1] = g[i + 1]
    OBVIOUS
  <2>1. f[i] = g[i] /\ i + 1 \in 1 .. n /\ (i + 1) - 1 = i
    BY <1>2
  <2> QED BY <2>1
<1> HIDE DEF S
<1>3. Nat \subseteq S
  BY <1>1, <1>2, AllNaturals
<1> QED BY <1>3 DEF S, Agree

-----------------------------------------------------------------------------
(* Lines, character by character *)

Pages == Seq(Text) \ {<<>>}

LEMMA LineOfPage ==
  ASSUME NEW lines \in Pages
  PROVE  /\ lines \in Seq(Text) /\ Len(lines) \in Nat \ {0} /\ Len(lines) \in 1 .. Len(lines)
         /\ lines[Len(lines)] \in Text
<1>1. lines \in Seq(Text) /\ Len(lines) \in Nat \ {0}
  BY EmptySeq DEF Pages
<1>2. Len(lines) \in 1 .. Len(lines)
  BY <1>1
<1> QED BY <1>1, <1>2, ElementOfSeq

LEMMA NextLinesTyped ==
  ASSUME NEW lines \in Pages, NEW c \in Chars
  PROVE  NextLines(lines, c) \in Pages
<1>1. /\ lines \in Seq(Text) /\ Len(lines) \in 1 .. Len(lines)
      /\ lines[Len(lines)] \in Seq(Chars)
  BY LineOfPage DEF Text
<1>2. CASE c = "newline"
  <2>1. <<>> \in Text
    BY DEF Text
  <2>2. Append(lines, <<>>) \in Pages
    BY <1>1, <2>1, AppendProperties DEF Pages
  <2> QED BY <1>2, <2>2 DEF NextLines
<1>3. CASE c # "newline"
  <2>1. Append(lines[Len(lines)], c) \in Text
    BY <1>1, AppendProperties DEF Text
  <2> DEFINE next == [lines EXCEPT ![Len(lines)] = Append(lines[Len(lines)], c)]
  <2>2. next \in Seq(Text) /\ Len(next) = Len(lines)
    BY <1>1, <2>1, ExceptSeq
  <2>3. Len(lines) # 0
    BY LineOfPage
  <2>4. next # <<>>
    BY <2>2, <2>3, EmptySeq
  <2>5. NextLines(lines, c) = next
    BY <1>3 DEF NextLines
  <2> QED BY <2>2, <2>4, <2>5 DEF Pages
<1> QED BY <1>2, <1>3

\* What str::lines returns is the end of a reading.
LEMMA LinesAreRead ==
  ASSUME NEW t \in Text
  PROVE  \E f \in [0 .. Len(t) -> Pages] :
           /\ f[0] = << <<>> >>
           /\ \A i \in 1 .. Len(t) : f[i] = NextLines(f[i - 1], t[i])
           /\ Lines(t) = f[Len(t)]
<1> DEFINE Body(f) ==
      [n \in 0 .. Len(t) |->
         IF n = 0 THEN << <<>> >> ELSE NextLines(f[n - 1], t[n])]
<1> DEFINE upTo == CHOOSE f : f = Body(f)
<1> DEFINE step == [i \in 1 .. Len(t) |-> [lines \in Pages |-> NextLines(lines, t[i])]]
<1>1. Len(t) \in Nat /\ \A i \in 1 .. Len(t) : t[i] \in Chars
  BY ElementOfSeq, LenProperties DEF Text
<1>2. << <<>> >> \in Pages
  BY DEF Pages, Text
<1>3. step \in [1 .. Len(t) -> [Pages -> Pages]]
  BY <1>1, NextLinesTyped
<1>4. PICK f \in [0 .. Len(t) -> Pages] :
             f[0] = << <<>> >> /\ \A i \in 1 .. Len(t) : f[i] = step[i][f[i - 1]]
  <2> HIDE DEF step, upTo, Body
  <2>1. Solvable(Pages, << <<>> >>, Len(t), step)
    BY <1>1, <1>2, <1>3, Recursion
  <2> QED BY <2>1 DEF Solvable
<1>5. ASSUME NEW i \in 1 .. Len(t) PROVE f[i] = NextLines(f[i - 1], t[i])
  <2>1. i - 1 \in 0 .. Len(t)
    BY <1>1
  <2>2. step[i] = [lines \in Pages |-> NextLines(lines, t[i])]
    OBVIOUS
  <2> HIDE DEF step
  <2>3. f[i] = step[i][f[i - 1]] /\ f[i - 1] \in Pages
    BY <1>4, <2>1
  <2> QED BY <2>2, <2>3
<1>6. f = Body(f)
  <2>1. ASSUME NEW n \in 0 .. Len(t) PROVE f[n] = Body(f)[n]
    <3>1. CASE n = 0
      BY <1>4, <3>1
    <3>2. CASE n \in 1 .. Len(t)
      BY <1>5, <3>2
    <3> QED BY <1>1, <3>1, <3>2
  <2>2. Body(f) = [n \in 0 .. Len(t) |-> Body(f)[n]]
    OBVIOUS
  <2>3. f = [n \in 0 .. Len(t) |-> f[n]]
    OBVIOUS
  <2> HIDE DEF Body
  <2> QED BY <2>1, <2>2, <2>3
<1>7. upTo = Body(upTo)
  <2> HIDE DEF Body
  <2> QED BY <1>6
<1>8. upTo[0] = << <<>> >> /\ \A i \in 1 .. Len(t) : upTo[i] = NextLines(upTo[i - 1], t[i])
  <2> HIDE DEF upTo
  <2>1. ASSUME NEW n \in 0 .. Len(t)
        PROVE  upTo[n] = IF n = 0 THEN << <<>> >>
                         ELSE NextLines(upTo[n - 1], t[n])
    BY <1>7, Zenon
  <2>2. 0 \in 0 .. Len(t)
    BY <1>1
  <2>3. upTo[0] = << <<>> >>
    BY <2>1, <2>2
  <2>4. ASSUME NEW n \in 1 .. Len(t) PROVE upTo[n] = NextLines(upTo[n - 1], t[n])
    <3>1. n \in 0 .. Len(t) /\ n # 0
      BY <1>1
    <3> QED BY <2>1, <3>1
  <2> QED BY <2>3, <2>4
<1>9. Lines(t) = upTo[Len(t)]
  BY DEF Lines
<1> HIDE DEF upTo, Body, step
<1>10. Agree(f, upTo, Len(t))
  <2>1. f[0] = upTo[0] /\ \A i \in 1 .. Len(t) : f[i - 1] = upTo[i - 1] => f[i] = upTo[i]
    BY <1>4, <1>5, <1>8
  <2> QED BY <1>1, <2>1, Alike
<1>11. Lines(t) = f[Len(t)]
  BY <1>1, <1>9, <1>10 DEF Agree
<1> QED BY <1>4, <1>5, <1>11

LEMMA LinesTyped ==
  ASSUME NEW t \in Text
  PROVE  Lines(t) \in Pages
<1>1. Len(t) \in 0 .. Len(t)
  BY LenProperties DEF Text
<1> QED BY <1>1, LinesAreRead

LEMMA NoLines == Lines(<<>>) = << <<>> >>
<1>1. <<>> \in Text /\ Len(<<>>) = 0
  BY DEF Text
<1> QED BY <1>1, LinesAreRead

LEMMA LinesGrow ==
  ASSUME NEW t \in Text, NEW c \in Chars
  PROVE  Lines(Append(t, c)) = NextLines(Lines(t), c)
<1> DEFINE u == Append(t, c)
<1>1. /\ u \in Text /\ Len(t) \in Nat /\ Len(u) = Len(t) + 1 /\ u[Len(t) + 1] = c
      /\ \A i \in 1 .. Len(t) : u[i] = t[i]
  BY AppendProperties, LenProperties DEF Text
<1> HIDE DEF u
<1>2. PICK f \in [0 .. Len(t) -> Pages] :
             /\ f[0] = << <<>> >>
             /\ \A i \in 1 .. Len(t) : f[i] = NextLines(f[i - 1], t[i])
             /\ Lines(t) = f[Len(t)]
  BY LinesAreRead
<1>3. PICK g \in [0 .. Len(u) -> Pages] :
             /\ g[0] = << <<>> >>
             /\ \A i \in 1 .. Len(u) : g[i] = NextLines(g[i - 1], u[i])
             /\ Lines(u) = g[Len(u)]
  BY <1>1, LinesAreRead
<1>4. f[0] = g[0] /\ \A i \in 1 .. Len(t) : f[i - 1] = g[i - 1] => f[i] = g[i]
  BY <1>1, <1>2, <1>3
<1>5. f[Len(t)] = g[Len(t)]
  <2>1. Agree(f, g, Len(t))
    BY <1>1, <1>4, Alike
  <2> QED BY <1>1, <2>1 DEF Agree
<1>6. g[Len(u)] = NextLines(g[Len(t)], c)
  BY <1>1, <1>3
<1>7. Lines(u) = NextLines(Lines(t), c)
  BY <1>2, <1>3, <1>5, <1>6
<1> QED BY <1>7 DEF u

-----------------------------------------------------------------------------
(* Trimming *)

LEMMA InkedIsDomain ==
  ASSUME NEW t \in Text
  PROVE  /\ Len(t) \in Nat /\ DOMAIN t = 1 .. Len(t)
         /\ Inked(t) = {i \in 1 .. Len(t) : t[i] \notin White}
         /\ \A i \in 1 .. Len(t) : t[i] \in Chars
BY LenProperties, ElementOfSeq DEF Text, Inked

\* The first and the last character that is not white space.
LEMMA Extremes ==
  ASSUME NEW t \in Text, Inked(t) # {}
  PROVE  /\ Min(Inked(t)) \in Inked(t) /\ \A i \in Inked(t) : Min(Inked(t)) <= i
         /\ Max(Inked(t)) \in Inked(t) /\ \A i \in Inked(t) : i <= Max(Inked(t))
<1>1. Inked(t) \subseteq 1 .. Len(t) /\ Len(t) \in Nat
  BY InkedIsDomain
<1>2. \E n \in Inked(t) : \A i \in Inked(t) : n <= i
  BY <1>1, LeastNatural
<1>3. \E n \in Inked(t) : \A i \in Inked(t) : i <= n
  <2> DEFINE T == {Len(t) - i : i \in Inked(t)}
  <2>1. T \subseteq Nat /\ T # {}
    BY <1>1
  <2>2. PICK k \in T : \A m \in T : k <= m
    BY <2>1, LeastNatural
  <2>3. PICK n \in Inked(t) : k = Len(t) - n
    BY <2>2
  <2>4. ASSUME NEW i \in Inked(t) PROVE i <= n
    <3>1. Len(t) - i \in T
      OBVIOUS
    <3>2. Len(t) - n <= Len(t) - i
      BY <2>2, <2>3, <3>1
    <3> QED BY <1>1, <3>2
  <2> QED BY <2>4
<1> QED BY <1>2, <1>3 DEF Min, Max

\* A text that begins and ends with ink, or is empty.
Tight(t) == t = <<>> \/ (1 \in Inked(t) /\ Len(t) \in Inked(t))

LEMMA TrimShape ==
  ASSUME NEW t \in Text
  PROVE  /\ Trim(t) \in Text /\ Tight(Trim(t)) /\ Len(Trim(t)) <= Len(t)
         /\ \A i \in 1 .. Len(Trim(t)) : \E j \in 1 .. Len(t) : Trim(t)[i] = t[j]
         /\ Trim(t) = <<>> <=> Inked(t) = {}
<1>1. CASE Inked(t) = {}
  <2>1. Trim(t) = <<>>
    BY <1>1 DEF Trim
  <2>2. <<>> \in Text /\ Len(<<>>) = 0
    BY DEF Text
  <2> QED BY <1>1, <2>1, <2>2, InkedIsDomain DEF Tight
<1>2. CASE Inked(t) # {}
  <2> DEFINE a == Min(Inked(t))
  <2> DEFINE b == Max(Inked(t))
  <2>1. a \in Inked(t) /\ b \in Inked(t) /\ a <= b
    BY <1>2, Extremes
  <2>2. Trim(t) = SubSeq(t, a, b)
    BY <1>2 DEF Trim
  <2>3. /\ Len(t) \in Nat /\ a \in 1 .. Len(t) /\ b \in 1 .. Len(t)
        /\ t[a] \notin White /\ t[b] \notin White /\ \A i \in 1 .. Len(t) : t[i] \in Chars
    BY <2>1, InkedIsDomain
  <2> HIDE DEF a, b
  <2> DEFINE s == SubSeq(t, a, b)
  <2>0. Trim(t) = s
    BY <2>2
  <2>4. \A i \in a .. b : t[i] \in Chars
    BY <2>3
  <2>5. s \in Seq(Chars) /\ Len(s) = b - a + 1 /\ \A i \in 1 .. b - a + 1 : s[i] = t[a + i - 1]
    BY <2>1, <2>3, <2>4, SubSeqProperties
  <2> HIDE DEF s
  <2>6. s[1] = t[a] /\ s[Len(s)] = t[b] /\ Len(s) \in 1 .. Len(t)
    BY <2>1, <2>3, <2>5
  <2>7. Inked(s) = {i \in 1 .. Len(s) : s[i] \notin White}
    BY <2>5, InkedIsDomain DEF Text
  <2>8. 1 \in Inked(s) /\ Len(s) \in Inked(s)
    BY <2>3, <2>6, <2>7
  <2>9. \A i \in 1 .. Len(s) : \E j \in 1 .. Len(t) : s[i] = t[j]
    <3> SUFFICES ASSUME NEW i \in 1 .. Len(s) PROVE a + i - 1 \in 1 .. Len(t)
      BY <2>5
    <3> QED BY <2>1, <2>3, <2>5
  <2>10. s # <<>>
    BY <2>6, EmptySeq
  <2> QED BY <1>2, <2>0, <2>3, <2>5, <2>6, <2>8, <2>9, <2>10 DEF Tight, Text
<1> QED BY <1>1, <1>2

LEMMA TrimTight ==
  ASSUME NEW t \in Text, Tight(t)
  PROVE  Trim(t) = t
<1>1. CASE t = <<>>
  <2>1. Inked(t) = {}
    BY <1>1, InkedIsDomain, EmptySeq
  <2> QED BY <1>1, <2>1 DEF Trim
<1>2. CASE 1 \in Inked(t) /\ Len(t) \in Inked(t)
  <2>1. /\ Min(Inked(t)) \in Inked(t) /\ Min(Inked(t)) <= 1
        /\ Max(Inked(t)) \in Inked(t) /\ Len(t) <= Max(Inked(t))
    BY <1>2, Extremes
  <2>2. Min(Inked(t)) = 1 /\ Max(Inked(t)) = Len(t)
    BY <2>1, InkedIsDomain
  <2>3. SubSeq(t, 1, Len(t)) = t
    BY SubSeqFull DEF Text
  <2> QED BY <1>2, <2>2, <2>3 DEF Trim
<1> QED BY <1>1, <1>2 DEF Tight

\* Trimming twice is trimming once.
LEMMA TrimOnce ==
  ASSUME NEW t \in Text
  PROVE  Trim(Trim(t)) = Trim(t)
BY TrimShape, TrimTight

-----------------------------------------------------------------------------
(* Services, line by line *)

Keep(kept, line) == IF Trim(line) = <<>> THEN kept ELSE Append(kept, Trim(line))

LEMMA KeepTyped ==
  ASSUME NEW kept \in Seq(Text), NEW line \in Text
  PROVE  Keep(kept, line) \in Seq(Text)
BY TrimShape, AppendProperties DEF Keep

\* What the services of some lines are is the end of a reading.
LEMMA ServicesAreRead ==
  ASSUME NEW lines \in Seq(Text)
  PROVE  \E f \in [0 .. Len(lines) -> Seq(Text)] :
           /\ f[0] = <<>>
           /\ \A i \in 1 .. Len(lines) : f[i] = Keep(f[i - 1], lines[i])
           /\ Trimmed(lines) = f[Len(lines)]
<1> DEFINE Body(f) ==
      [n \in 0 .. Len(lines) |->
         IF n = 0 THEN <<>>
         ELSE IF Trim(lines[n]) = <<>> THEN f[n - 1]
         ELSE Append(f[n - 1], Trim(lines[n]))]
<1> DEFINE upTo == CHOOSE f : f = Body(f)
<1> DEFINE step == [i \in 1 .. Len(lines) |-> [kept \in Seq(Text) |-> Keep(kept, lines[i])]]
<1>1. Len(lines) \in Nat /\ \A i \in 1 .. Len(lines) : lines[i] \in Text
  BY ElementOfSeq, LenProperties
<1>2. <<>> \in Seq(Text)
  OBVIOUS
<1>3. step \in [1 .. Len(lines) -> [Seq(Text) -> Seq(Text)]]
  BY <1>1, KeepTyped
<1>4. PICK f \in [0 .. Len(lines) -> Seq(Text)] :
             f[0] = <<>> /\ \A i \in 1 .. Len(lines) : f[i] = step[i][f[i - 1]]
  <2> HIDE DEF step, upTo, Body
  <2>1. Solvable(Seq(Text), <<>>, Len(lines), step)
    BY <1>1, <1>2, <1>3, Recursion
  <2> QED BY <2>1 DEF Solvable
<1>5. ASSUME NEW i \in 1 .. Len(lines) PROVE f[i] = Keep(f[i - 1], lines[i])
  <2>1. i - 1 \in 0 .. Len(lines)
    BY <1>1
  <2>2. step[i] = [kept \in Seq(Text) |-> Keep(kept, lines[i])]
    OBVIOUS
  <2> HIDE DEF step
  <2>3. f[i] = step[i][f[i - 1]] /\ f[i - 1] \in Seq(Text)
    BY <1>4, <2>1
  <2> QED BY <2>2, <2>3
<1>6. f = Body(f)
  <2>1. ASSUME NEW n \in 0 .. Len(lines) PROVE f[n] = Body(f)[n]
    <3>1. CASE n = 0
      BY <1>4, <3>1
    <3>2. CASE n \in 1 .. Len(lines)
      <4>1. n \in 0 .. Len(lines) /\ n # 0
        BY <1>1, <3>2
      <4>2. Body(f)[n] = Keep(f[n - 1], lines[n])
        BY <4>1, Zenon DEF Keep
      <4> HIDE DEF Body
      <4> QED BY <1>5, <3>2, <4>2
    <3> QED BY <1>1, <3>1, <3>2
  <2>2. Body(f) = [n \in 0 .. Len(lines) |-> Body(f)[n]]
    OBVIOUS
  <2>3. f = [n \in 0 .. Len(lines) |-> f[n]]
    OBVIOUS
  <2> HIDE DEF Body
  <2> QED BY <2>1, <2>2, <2>3
<1>7. upTo = Body(upTo)
  <2> HIDE DEF Body
  <2> QED BY <1>6
<1>8. upTo[0] = <<>> /\ \A i \in 1 .. Len(lines) : upTo[i] = Keep(upTo[i - 1], lines[i])
  <2> HIDE DEF upTo
  <2>1. ASSUME NEW n \in 0 .. Len(lines)
        PROVE  upTo[n] = IF n = 0 THEN <<>>
                         ELSE IF Trim(lines[n]) = <<>> THEN upTo[n - 1]
                         ELSE Append(upTo[n - 1], Trim(lines[n]))
    BY <1>7, Zenon
  <2>2. 0 \in 0 .. Len(lines)
    BY <1>1
  <2>3. upTo[0] = <<>>
    BY <2>1, <2>2
  <2>4. ASSUME NEW n \in 1 .. Len(lines) PROVE upTo[n] = Keep(upTo[n - 1], lines[n])
    <3>1. n \in 0 .. Len(lines) /\ n # 0
      BY <1>1
    <3> QED BY <2>1, <3>1 DEF Keep
  <2> QED BY <2>3, <2>4
<1>9. Trimmed(lines) = upTo[Len(lines)]
  BY DEF Trimmed
<1> HIDE DEF upTo, Body, step
<1>10. Agree(f, upTo, Len(lines))
  <2>1. /\ f[0] = upTo[0]
        /\ \A i \in 1 .. Len(lines) : f[i - 1] = upTo[i - 1] => f[i] = upTo[i]
    BY <1>4, <1>5, <1>8
  <2> QED BY <1>1, <2>1, Alike
<1>11. Trimmed(lines) = f[Len(lines)]
  BY <1>1, <1>9, <1>10 DEF Agree
<1> QED BY <1>4, <1>5, <1>11

LEMMA ServicesTyped ==
  ASSUME NEW lines \in Seq(Text)
  PROVE  Trimmed(lines) \in Seq(Text)
<1>1. Len(lines) \in 0 .. Len(lines)
  BY LenProperties
<1> QED BY <1>1, ServicesAreRead

LEMMA NoServices == Trimmed(<<>>) = <<>>
<1>1. <<>> \in Seq(Text) /\ Len(<<>>) = 0
  OBVIOUS
<1> QED BY <1>1, ServicesAreRead

LEMMA ServicesGrow ==
  ASSUME NEW lines \in Seq(Text), NEW line \in Text
  PROVE  Trimmed(Append(lines, line)) = Keep(Trimmed(lines), line)
<1> DEFINE more == Append(lines, line)
<1>1. /\ more \in Seq(Text) /\ Len(lines) \in Nat /\ Len(more) = Len(lines) + 1
      /\ more[Len(lines) + 1] = line
      /\ \A i \in 1 .. Len(lines) : more[i] = lines[i]
  BY AppendProperties, LenProperties
<1> HIDE DEF more
<1>2. PICK f \in [0 .. Len(lines) -> Seq(Text)] :
             /\ f[0] = <<>>
             /\ \A i \in 1 .. Len(lines) : f[i] = Keep(f[i - 1], lines[i])
             /\ Trimmed(lines) = f[Len(lines)]
  BY ServicesAreRead
<1>3. PICK g \in [0 .. Len(more) -> Seq(Text)] :
             /\ g[0] = <<>>
             /\ \A i \in 1 .. Len(more) : g[i] = Keep(g[i - 1], more[i])
             /\ Trimmed(more) = g[Len(more)]
  BY <1>1, ServicesAreRead
<1>4. f[0] = g[0] /\ \A i \in 1 .. Len(lines) : f[i - 1] = g[i - 1] => f[i] = g[i]
  BY <1>1, <1>2, <1>3
<1>5. f[Len(lines)] = g[Len(lines)]
  <2>1. Agree(f, g, Len(lines))
    BY <1>1, <1>4, Alike
  <2> QED BY <1>1, <2>1 DEF Agree
<1>6. g[Len(more)] = Keep(g[Len(lines)], line)
  BY <1>1, <1>3
<1>7. Trimmed(more) = Keep(Trimmed(lines), line)
  BY <1>2, <1>3, <1>5, <1>6
<1> QED BY <1>7 DEF more

-----------------------------------------------------------------------------
(* Joining the lines again *)

\* What FlattenSeq returns is the end of a reading.
LEMMA FlatIsRead ==
  ASSUME NEW seqs \in Pages
  PROVE  \E f \in [0 .. Len(seqs) - 1 -> Text] :
           /\ f[0] = seqs[1]
           /\ \A i \in 1 .. Len(seqs) - 1 : f[i] = f[i - 1] \o seqs[i + 1]
           /\ FlattenSeq(seqs) = f[Len(seqs) - 1]
<1> DEFINE Body(f) ==
      [i \in 1 .. Len(seqs) |-> IF i = 1 THEN seqs[i] ELSE f[i - 1] \o seqs[i]]
<1> DEFINE flatten == CHOOSE f : f = Body(f)
<1> DEFINE step == [i \in 1 .. Len(seqs) - 1 |-> [t \in Text |-> t \o seqs[i + 1]]]
<1>1. /\ Len(seqs) \in Nat \ {0} /\ Len(seqs) - 1 \in Nat
      /\ \A i \in 1 .. Len(seqs) : seqs[i] \in Text
  BY LineOfPage, ElementOfSeq
<1>2. seqs[1] \in Text
  BY <1>1
<1>3. step \in [1 .. Len(seqs) - 1 -> [Text -> Text]]
  <2>1. ASSUME NEW i \in 1 .. Len(seqs) - 1, NEW t \in Text PROVE t \o seqs[i + 1] \in Text
    <3>1. seqs[i + 1] \in Text
      BY <1>1
    <3> QED BY <3>1, ConcatProperties DEF Text
  <2> QED BY <2>1
<1>4. PICK f \in [0 .. Len(seqs) - 1 -> Text] :
             f[0] = seqs[1] /\ \A i \in 1 .. Len(seqs) - 1 : f[i] = step[i][f[i - 1]]
  <2> HIDE DEF step, flatten, Body
  <2>1. Solvable(Text, seqs[1], Len(seqs) - 1, step)
    BY <1>1, <1>2, <1>3, Recursion
  <2> QED BY <2>1 DEF Solvable
<1>5. ASSUME NEW i \in 1 .. Len(seqs) - 1 PROVE f[i] = f[i - 1] \o seqs[i + 1]
  <2>1. i - 1 \in 0 .. Len(seqs) - 1
    BY <1>1
  <2>2. step[i] = [t \in Text |-> t \o seqs[i + 1]]
    OBVIOUS
  <2> HIDE DEF step
  <2>3. f[i] = step[i][f[i - 1]] /\ f[i - 1] \in Text
    BY <1>4, <2>1
  <2> QED BY <2>2, <2>3
<1> DEFINE g == [i \in 1 .. Len(seqs) |-> f[i - 1]]
<1>6. g = Body(g)
  <2>1. ASSUME NEW n \in 1 .. Len(seqs) PROVE g[n] = Body(g)[n]
    <3>1. CASE n = 1
      BY <1>4, <3>1
    <3>2. CASE n \in 2 .. Len(seqs)
      <4>1. n - 1 \in 1 .. Len(seqs) - 1 /\ (n - 1) + 1 = n /\ n # 1 /\ n - 1 \in 1 .. Len(seqs)
        BY <1>1, <3>2
      <4>2. f[n - 1] = f[(n - 1) - 1] \o seqs[n]
        BY <1>5, <4>1
      <4>3. g[n] = f[n - 1] /\ g[n - 1] = f[(n - 1) - 1]
        BY <4>1
      <4> HIDE DEF g
      <4>4. Body(g)[n] = g[n - 1] \o seqs[n]
        BY <4>1, Zenon
      <4> QED BY <4>2, <4>3, <4>4
    <3> QED BY <1>1, <3>1, <3>2
  <2>2. Body(g) = [n \in 1 .. Len(seqs) |-> Body(g)[n]]
    OBVIOUS
  <2>3. g = [n \in 1 .. Len(seqs) |-> g[n]]
    OBVIOUS
  <2> HIDE DEF Body, g
  <2> QED BY <2>1, <2>2, <2>3
<1>7. flatten = Body(flatten)
  <2> HIDE DEF Body, g
  <2> QED BY <1>6
<1> DEFINE h == [i \in 0 .. Len(seqs) - 1 |-> flatten[i + 1]]
<1>8. h[0] = seqs[1] /\ \A i \in 1 .. Len(seqs) - 1 : h[i] = h[i - 1] \o seqs[i + 1]
  <2> HIDE DEF flatten
  <2>1. ASSUME NEW n \in 1 .. Len(seqs)
        PROVE  flatten[n] = IF n = 1 THEN seqs[n] ELSE flatten[n - 1] \o seqs[n]
    BY <1>7, Zenon
  <2>2. 1 \in 1 .. Len(seqs) /\ 0 \in 0 .. Len(seqs) - 1
    BY <1>1
  <2>3. h[0] = seqs[1]
    BY <2>1, <2>2
  <2>4. ASSUME NEW i \in 1 .. Len(seqs) - 1 PROVE h[i] = h[i - 1] \o seqs[i + 1]
    <3>1. i + 1 \in 1 .. Len(seqs) /\ i + 1 # 1 /\ (i + 1) - 1 = i /\ (i - 1) + 1 = i
      BY <1>1
    <3>2. i \in 0 .. Len(seqs) - 1 /\ i - 1 \in 0 .. Len(seqs) - 1
      BY <1>1
    <3>3. flatten[i + 1] = flatten[i] \o seqs[i + 1]
      BY <2>1, <3>1
    <3> QED BY <3>1, <3>2, <3>3
  <2> QED BY <2>3, <2>4
<1>9. FlattenSeq(seqs) = h[Len(seqs) - 1]
  <2>1. FlattenSeq(seqs) = flatten[Len(seqs)]
    BY <1>1 DEF FlattenSeq
  <2>2. Len(seqs) - 1 \in 0 .. Len(seqs) - 1 /\ (Len(seqs) - 1) + 1 = Len(seqs)
    BY <1>1
  <2> HIDE DEF flatten
  <2> QED BY <2>1, <2>2
<1> HIDE DEF flatten, Body, step, g, h
<1>10. Agree(f, h, Len(seqs) - 1)
  <2>1. f[0] = h[0] /\ \A i \in 1 .. Len(seqs) - 1 : f[i - 1] = h[i - 1] => f[i] = h[i]
    BY <1>4, <1>5, <1>8
  <2> QED BY <1>1, <2>1, Alike
<1>11. FlattenSeq(seqs) = f[Len(seqs) - 1]
  BY <1>1, <1>9, <1>10 DEF Agree
<1> QED BY <1>4, <1>5, <1>11

LEMMA FlatTyped ==
  ASSUME NEW seqs \in Pages
  PROVE  FlattenSeq(seqs) \in Text
<1>1. Len(seqs) - 1 \in 0 .. Len(seqs) - 1
  BY LineOfPage
<1>2. PICK f \in [0 .. Len(seqs) - 1 -> Text] : FlattenSeq(seqs) = f[Len(seqs) - 1]
  BY FlatIsRead
<1> QED BY <1>1, <1>2

LEMMA FlatOne ==
  ASSUME NEW s \in Text
  PROVE  FlattenSeq(<<s>>) = s
<1>1. <<s>> \in Pages /\ Len(<<s>>) - 1 = 0 /\ <<s>>[1] = s
  BY DEF Pages
<1> QED BY <1>1, FlatIsRead

LEMMA FlatGrows ==
  ASSUME NEW seqs \in Pages, NEW s \in Text
  PROVE  FlattenSeq(Append(seqs, s)) = FlattenSeq(seqs) \o s
<1> DEFINE more == Append(seqs, s)
<1> DEFINE n == Len(seqs)
<1>1. /\ more \in Pages /\ n \in Nat \ {0} /\ n - 1 \in Nat /\ Len(more) - 1 = n
      /\ more[n + 1] = s /\ \A i \in 1 .. n : more[i] = seqs[i]
  <2>1. seqs \in Seq(Text) /\ n \in Nat \ {0}
    BY LineOfPage
  <2> QED BY <2>1, AppendProperties DEF Pages
<1> HIDE DEF more
<1>2. PICK f \in [0 .. n - 1 -> Text] :
             /\ f[0] = seqs[1]
             /\ \A i \in 1 .. n - 1 : f[i] = f[i - 1] \o seqs[i + 1]
             /\ FlattenSeq(seqs) = f[n - 1]
  BY FlatIsRead
<1> HIDE DEF n
<1>3. PICK g \in [0 .. n -> Text] :
             /\ g[0] = more[1]
             /\ \A i \in 1 .. n : g[i] = g[i - 1] \o more[i + 1]
             /\ FlattenSeq(more) = g[n]
  <2>1. \E g \in [0 .. Len(more) - 1 -> Text] :
             /\ g[0] = more[1]
             /\ \A i \in 1 .. Len(more) - 1 : g[i] = g[i - 1] \o more[i + 1]
             /\ FlattenSeq(more) = g[Len(more) - 1]
    BY <1>1, FlatIsRead
  <2>2. Len(more) - 1 = n
    BY <1>1
  <2> QED BY <2>1, <2>2
<1>4. f[0] = g[0] /\ \A i \in 1 .. n - 1 : f[i - 1] = g[i - 1] => f[i] = g[i]
  <2>1. f[0] = g[0]
    <3>1. 1 \in 1 .. n
      BY <1>1
    <3> QED BY <1>1, <1>2, <1>3, <3>1
  <2>2. ASSUME NEW i \in 1 .. n - 1, f[i - 1] = g[i - 1] PROVE f[i] = g[i]
    <3>1. i \in 1 .. n /\ i + 1 \in 1 .. n
      BY <1>1
    <3>2. more[i + 1] = seqs[i + 1]
      BY <1>1, <3>1
    <3>3. f[i] = f[i - 1] \o seqs[i + 1] /\ g[i] = g[i - 1] \o more[i + 1]
      BY <1>2, <1>3, <3>1
    <3> QED BY <2>2, <3>2, <3>3
  <2> QED BY <2>1, <2>2
<1>5. f[n - 1] = g[n - 1]
  <2>1. Agree(f, g, n - 1)
    BY <1>1, <1>4, Alike
  <2> QED BY <1>1, <2>1 DEF Agree
<1>6. g[n] = g[n - 1] \o s
  <2>1. n \in 1 .. n
    BY <1>1
  <2> QED BY <1>1, <1>3, <2>1
<1>7. FlattenSeq(more) = FlattenSeq(seqs) \o s
  BY <1>2, <1>3, <1>5, <1>6
<1> QED BY <1>7 DEF more

Parts(lines) == [k \in DOMAIN lines |-> IF k = 1 THEN lines[k] ELSE <<"newline">> \o lines[k]]

LEMMA PartsTyped ==
  ASSUME NEW lines \in Seq(Text)
  PROVE  /\ Parts(lines) \in Seq(Text) /\ Len(Parts(lines)) = Len(lines)
         /\ \A k \in 1 .. Len(lines) :
              Parts(lines)[k] = IF k = 1 THEN lines[k] ELSE <<"newline">> \o lines[k]
<1> DEFINE part == [k \in 1 .. Len(lines) |-> IF k = 1 THEN lines[k] ELSE <<"newline">> \o lines[k]]
<1>1. Len(lines) \in Nat /\ DOMAIN lines = 1 .. Len(lines)
      /\ \A k \in 1 .. Len(lines) : lines[k] \in Text
  BY LenProperties, ElementOfSeq
<1>2. ASSUME NEW k \in 1 .. Len(lines) PROVE part[k] \in Text
  <2>1. lines[k] \in Text /\ <<"newline">> \in Seq(Chars)
    BY <1>1 DEF Chars
  <2>2. <<"newline">> \o lines[k] \in Text
    BY <2>1, ConcatProperties DEF Text
  <2> QED BY <2>1, <2>2
<1>3. Parts(lines) = part
  BY <1>1 DEF Parts
<1>4. part \in [1 .. Len(lines) -> Text]
  BY <1>2
<1> HIDE DEF part
<1>5. part \in Seq(Text) /\ Len(part) = Len(lines)
  BY <1>1, <1>4
<1> QED BY <1>3, <1>5 DEF part

LEMMA JoinedIsFlat ==
  ASSUME NEW lines
  PROVE  Joined(lines) = FlattenSeq(Parts(lines))
BY DEF Joined, Parts

\* No lines, one line, and one line more.
LEMMA JoinedGrows ==
  ASSUME NEW lines \in Seq(Text), NEW line \in Text
  PROVE  /\ Joined(<<>>) = <<>>
         /\ Joined(<<line>>) = line
         /\ Joined(lines) \in Text
         /\ lines # <<>> => Joined(Append(lines, line)) = Append(Joined(lines), "newline") \o line
<1>1. Joined(<<>>) = <<>>
  <2> DEFINE none == <<>>
  <2>1. none \in Seq(Text) /\ Len(none) = 0
    OBVIOUS
  <2> HIDE DEF none
  <2>2. Parts(none) \in Seq(Text) /\ Len(Parts(none)) = 0
    BY <2>1, PartsTyped
  <2>3. FlattenSeq(Parts(none)) = Parts(none)
    BY <2>2 DEF FlattenSeq
  <2>4. Parts(none) = <<>>
    BY <2>2, EmptySeq
  <2> QED BY <2>3, <2>4, JoinedIsFlat DEF none
<1>2. Joined(<<line>>) = line
  <2> DEFINE one == <<line>>
  <2>1. one \in Seq(Text) /\ Len(one) = 1 /\ one[1] = line
    OBVIOUS
  <2> HIDE DEF one
  <2>2. /\ Parts(one) \in Seq(Text) /\ Len(Parts(one)) = 1
        /\ Parts(one)[1] = line
    BY <2>1, PartsTyped
  <2>3. Parts(one) = one
    BY <2>1, <2>2, SeqEqual
  <2> QED BY <2>3, FlatOne, JoinedIsFlat DEF one
<1>3. ASSUME lines # <<>> PROVE Parts(lines) \in Pages
  <2>1. Len(lines) # 0
    BY <1>3, EmptySeq
  <2> QED BY <2>1, PartsTyped DEF Pages
<1>4. Joined(lines) \in Text
  <2>1. CASE lines = <<>>
    <3>1. Joined(lines) = <<>>
      BY <1>1, <2>1, Zenon
    <3> QED BY <3>1 DEF Text
  <2>2. CASE lines # <<>>
    BY <1>3, <2>2, FlatTyped, JoinedIsFlat
  <2> QED BY <2>1, <2>2
<1>5. ASSUME lines # <<>>
      PROVE  Joined(Append(lines, line)) = Append(Joined(lines), "newline") \o line
  <2> DEFINE more == Append(lines, line)
  <2> DEFINE part == <<"newline">> \o line
  <2>1. /\ more \in Seq(Text) /\ Len(lines) \in Nat \ {0} /\ Len(more) = Len(lines) + 1
        /\ more[Len(lines) + 1] = line
        /\ \A i \in 1 .. Len(lines) : more[i] = lines[i]
    BY <1>5, AppendProperties, EmptySeq
  <2>2. <<"newline">> \in Seq(Chars) /\ line \in Seq(Chars) /\ Joined(lines) \in Seq(Chars)
    BY <1>4 DEF Chars, Text
  <2>3. part \in Text
    BY <2>2, ConcatProperties DEF Text
  <2> HIDE DEF more
  <2>4. Parts(more) = Append(Parts(lines), part)
    <3>1. /\ Parts(more) \in Seq(Text) /\ Len(Parts(more)) = Len(lines) + 1
          /\ \A k \in 1 .. Len(lines) + 1 :
               Parts(more)[k] = IF k = 1 THEN more[k] ELSE <<"newline">> \o more[k]
      BY <2>1, PartsTyped
    <3>2. /\ Parts(lines) \in Seq(Text) /\ Len(Parts(lines)) = Len(lines)
          /\ \A k \in 1 .. Len(lines) :
               Parts(lines)[k] = IF k = 1 THEN lines[k] ELSE <<"newline">> \o lines[k]
      BY PartsTyped
    <3> HIDE DEF part
    <3>3. /\ Append(Parts(lines), part) \in Seq(Text)
          /\ Len(Append(Parts(lines), part)) = Len(lines) + 1
          /\ Append(Parts(lines), part)[Len(lines) + 1] = part
          /\ \A k \in 1 .. Len(lines) : Append(Parts(lines), part)[k] = Parts(lines)[k]
      BY <2>1, <2>3, <3>2, AppendProperties
    <3>4. ASSUME NEW k \in 1 .. Len(lines) + 1
          PROVE  Parts(more)[k] = Append(Parts(lines), part)[k]
      <4>1. CASE k = Len(lines) + 1
        <5>1. k # 1 /\ more[k] = line
          BY <2>1, <4>1
        <5> QED BY <3>1, <3>3, <4>1, <5>1 DEF part
      <4>2. CASE k \in 1 .. Len(lines)
        <5>1. more[k] = lines[k] /\ Append(Parts(lines), part)[k] = Parts(lines)[k]
          BY <2>1, <3>3, <4>2
        <5>2. Parts(lines)[k] = IF k = 1 THEN lines[k] ELSE <<"newline">> \o lines[k]
          BY <3>2, <4>2
        <5>3. Parts(more)[k] = IF k = 1 THEN more[k] ELSE <<"newline">> \o more[k]
          BY <3>1
        <5> QED BY <5>1, <5>2, <5>3
      <4>3. k = Len(lines) + 1 \/ k \in 1 .. Len(lines)
        BY <2>1
      <4> QED BY <4>1, <4>2, <4>3
    <3> QED BY <3>1, <3>3, <3>4, SeqEqual
  <2>5. FlattenSeq(Parts(more)) = FlattenSeq(Parts(lines)) \o part
    BY <1>3, <1>5, <2>3, <2>4, FlatGrows
  <2>6. Joined(lines) \o (<<"newline">> \o line) = (Joined(lines) \o <<"newline">>) \o line
    BY <2>2, ConcatAssociative
  <2>7. Joined(lines) \o <<"newline">> = Append(Joined(lines), "newline")
    BY <2>2, AppendIsConcat DEF Chars
  <2> QED BY <2>5, <2>6, <2>7, JoinedIsFlat DEF more
<1> QED BY <1>1, <1>2, <1>4, <1>5

-----------------------------------------------------------------------------
(* What is joined is read back *)

Unbroken(t) == \A i \in 1 .. Len(t) : t[i] # "newline"

\* No line has a newline in it.
LEMMA LinesAreUnbroken ==
  ASSUME NEW t \in Text
  PROVE  \A k \in 1 .. Len(Lines(t)) : Unbroken(Lines(t)[k])
<1> DEFINE S == {u \in Text : \A k \in 1 .. Len(Lines(u)) : Unbroken(Lines(u)[k])}
<1>1. <<>> \in S
  BY NoLines DEF Text, Unbroken
<1>2. ASSUME NEW u \in Seq(Chars), u \in S, NEW c \in Chars PROVE Append(u, c) \in S
  <2>1. Append(u, c) \in Text /\ Lines(Append(u, c)) = NextLines(Lines(u), c)
    BY AppendProperties, LinesGrow DEF Text
  <2> DEFINE lines == Lines(u)
  <2>2. /\ lines \in Seq(Text) /\ Len(lines) \in Nat \ {0} /\ Len(lines) \in 1 .. Len(lines)
        /\ lines[Len(lines)] \in Seq(Chars)
    BY LinesTyped, LineOfPage DEF Text
  <2>3. \A k \in 1 .. Len(lines) : Unbroken(lines[k])
    BY <1>2
  <2> HIDE DEF lines
  <2>4. ASSUME NEW k \in 1 .. Len(NextLines(lines, c)) PROVE Unbroken(NextLines(lines, c)[k])
    <3>1. CASE c = "newline"
      <4>1. /\ NextLines(lines, c) = Append(lines, <<>>) /\ <<>> \in Text
        BY <3>1 DEF NextLines, Text
      <4>2. k \in 1 .. Len(lines) + 1 /\ Unbroken(<<>>)
        BY <2>2, <4>1, AppendProperties DEF Unbroken
      <4> QED BY <2>2, <2>3, <4>1, <4>2, AppendProperties
    <3>2. CASE c # "newline"
      <4> DEFINE last == Append(lines[Len(lines)], c)
      <4>1. last \in Text /\ Unbroken(last)
        <5>1. Unbroken(lines[Len(lines)])
          BY <2>2, <2>3
        <5> QED BY <2>2, <3>2, <5>1, AppendProperties DEF Unbroken, Text
      <4>2. NextLines(lines, c) = [lines EXCEPT ![Len(lines)] = last]
        BY <3>2 DEF NextLines
      <4> HIDE DEF last
      <4>3. /\ Len(NextLines(lines, c)) = Len(lines)
            /\ \A j \in 1 .. Len(lines) :
                 NextLines(lines, c)[j] = IF j = Len(lines) THEN last ELSE lines[j]
        BY <2>2, <4>1, <4>2, ExceptSeq
      <4> QED BY <2>3, <4>1, <4>3
    <3> QED BY <3>1, <3>2
  <2> QED BY <2>1, <2>4 DEF lines
<1> HIDE DEF S
<1>3. Seq(Chars) \subseteq S
  BY <1>1, <1>2, AllSequences
<1> QED BY <1>3 DEF S, Text

\* A line that is begun is gone on with until the next newline.
LEMMA LinesGoOn ==
  ASSUME NEW a \in Text, NEW lines \in Seq(Text), Lines(a) = Append(lines, <<>>),
         NEW b \in Text, Unbroken(b)
  PROVE  Lines(a \o b) = Append(lines, b)
<1> DEFINE S == {u \in Text : Unbroken(u) => Lines(a \o u) = Append(lines, u)}
<1>1. <<>> \in S
  BY ConcatEmptySeq DEF Text
<1>2. ASSUME NEW u \in Seq(Chars), u \in S, NEW c \in Chars PROVE Append(u, c) \in S
  <2>1. Append(u, c) \in Text /\ u \in Text
    BY AppendProperties DEF Text
  <2> SUFFICES ASSUME Unbroken(Append(u, c))
               PROVE  Lines(a \o Append(u, c)) = Append(lines, Append(u, c))
    BY <2>1
  <2>2. Unbroken(u) /\ c # "newline"
    <3>1. Len(u) \in Nat /\ Len(Append(u, c)) = Len(u) + 1 /\ Append(u, c)[Len(u) + 1] = c
          /\ \A i \in 1 .. Len(u) : Append(u, c)[i] = u[i]
      BY AppendProperties, LenProperties
    <3> QED BY <3>1 DEF Unbroken
  <2>3. a \o Append(u, c) = Append(a \o u, c) /\ a \o u \in Text
    <3>1. a \in Seq(Chars) /\ u \in Seq(Chars) /\ a \o u \in Seq(Chars) /\ <<c>> \in Seq(Chars)
      BY ConcatProperties DEF Text
    <3>2. a \o (u \o <<c>>) = (a \o u) \o <<c>>
      BY <3>1, ConcatAssociative
    <3> QED BY <3>1, <3>2, AppendIsConcat DEF Text
  <2>4. Lines(Append(a \o u, c)) = NextLines(Append(lines, u), c)
    BY <1>2, <2>1, <2>2, <2>3, LinesGrow
  <2>5. NextLines(Append(lines, u), c) = Append(lines, Append(u, c))
    <3> DEFINE now == Append(lines, u)
    <3>1. /\ now \in Seq(Text) /\ Len(lines) \in Nat /\ Len(now) = Len(lines) + 1
          /\ now[Len(lines) + 1] = u /\ \A i \in 1 .. Len(lines) : now[i] = lines[i]
      BY <2>1, AppendProperties, LenProperties
    <3> HIDE DEF now
    <3> DEFINE next == [now EXCEPT ![Len(now)] = Append(u, c)]
    <3>2. NextLines(now, c) = next
      BY <2>2, <3>1 DEF NextLines
    <3>3. /\ next \in Seq(Text) /\ Len(next) = Len(now)
          /\ \A i \in 1 .. Len(now) : next[i] = IF i = Len(now) THEN Append(u, c) ELSE now[i]
      BY <2>1, <3>1, ExceptSeq
    <3>4. /\ Append(lines, Append(u, c)) \in Seq(Text)
          /\ Len(Append(lines, Append(u, c))) = Len(lines) + 1
          /\ Append(lines, Append(u, c))[Len(lines) + 1] = Append(u, c)
          /\ \A i \in 1 .. Len(lines) : Append(lines, Append(u, c))[i] = lines[i]
      BY <2>1, AppendProperties
    <3> HIDE DEF next
    <3>5. next = Append(lines, Append(u, c))
      <4>1. \A i \in 1 .. Len(next) : next[i] = Append(lines, Append(u, c))[i]
        BY <3>1, <3>3, <3>4
      <4> QED BY <3>1, <3>3, <3>4, <4>1, SeqEqual
    <3> QED BY <3>2, <3>5 DEF now
  <2> QED BY <2>3, <2>4, <2>5
<1> HIDE DEF S
<1>3. Seq(Chars) \subseteq S
  BY <1>1, <1>2, AllSequences
<1> QED BY <1>3 DEF S, Text

AllUnbroken(lines) == \A k \in 1 .. Len(lines) : Unbroken(lines[k])
Clean(lines) == \A k \in 1 .. Len(lines) :
                  lines[k] # <<>> /\ Unbroken(lines[k]) /\ Tight(lines[k])

\* A sequence of which all elements have a property, and one element more.
LEMMA OneMore ==
  ASSUME NEW E, NEW s \in Seq(E), NEW e \in E
  PROVE  /\ Append(s, e) \in Seq(E) /\ Len(s) \in Nat /\ Len(Append(s, e)) = Len(s) + 1
         /\ Append(s, e)[Len(s) + 1] = e
         /\ \A i \in 1 .. Len(s) : Append(s, e)[i] = s[i]
         /\ \A i \in 1 .. Len(s) + 1 : i = Len(s) + 1 \/ i \in 1 .. Len(s)
         /\ Len(s) + 1 \in 1 .. Len(s) + 1
         /\ \A i \in 1 .. Len(s) : i \in 1 .. Len(s) + 1
BY AppendProperties, LenProperties

LEMMA UnbrokenMore ==
  ASSUME NEW lines \in Seq(Text), NEW line \in Text
  PROVE  AllUnbroken(Append(lines, line)) <=> AllUnbroken(lines) /\ Unbroken(line)
BY OneMore DEF AllUnbroken

LEMMA CleanMore ==
  ASSUME NEW lines \in Seq(Text), NEW line \in Text
  PROVE  Clean(Append(lines, line)) <=>
           Clean(lines) /\ line # <<>> /\ Unbroken(line) /\ Tight(line)
BY OneMore DEF Clean

LEMMA CleanIsUnbroken ==
  ASSUME NEW lines, Clean(lines)
  PROVE  AllUnbroken(lines)
BY DEF Clean, AllUnbroken

LEMMA TrimUnbroken ==
  ASSUME NEW t \in Text, Unbroken(t)
  PROVE  Unbroken(Trim(t))
BY TrimShape DEF Unbroken

\* The services are trimmed lines with something in them.
LEMMA ServicesAreClean ==
  ASSUME NEW lines \in Seq(Text), AllUnbroken(lines)
  PROVE  Clean(Trimmed(lines))
<1> DEFINE S == {ls \in Seq(Text) : AllUnbroken(ls) => Clean(Trimmed(ls))}
<1>1. <<>> \in S
  BY NoServices DEF Clean
<1>2. ASSUME NEW ls \in Seq(Text), ls \in S, NEW line \in Text PROVE Append(ls, line) \in S
  <2> SUFFICES ASSUME AllUnbroken(Append(ls, line)) PROVE Clean(Trimmed(Append(ls, line)))
    BY AppendProperties
  <2>1. AllUnbroken(ls) /\ Unbroken(line)
    BY UnbrokenMore
  <2>2. Clean(Trimmed(ls)) /\ Trimmed(ls) \in Seq(Text)
    BY <1>2, <2>1, ServicesTyped
  <2>3. Trim(line) \in Text /\ Tight(Trim(line)) /\ Unbroken(Trim(line))
    BY <2>1, TrimShape, TrimUnbroken
  <2>4. Clean(Keep(Trimmed(ls), line))
    BY <2>2, <2>3, CleanMore DEF Keep
  <2> QED BY <2>4, ServicesGrow
<1> HIDE DEF S
<1>3. Seq(Text) \subseteq S
  BY <1>1, <1>2, AllSequences
<1> QED BY <1>3 DEF S

\* Nothing is left to trim or to drop in them.
LEMMA CleanStays ==
  ASSUME NEW lines \in Seq(Text), Clean(lines)
  PROVE  Trimmed(lines) = lines
<1> DEFINE S == {ls \in Seq(Text) : Clean(ls) => Trimmed(ls) = ls}
<1>1. <<>> \in S
  BY NoServices
<1>2. ASSUME NEW ls \in Seq(Text), ls \in S, NEW line \in Text PROVE Append(ls, line) \in S
  <2> SUFFICES ASSUME Clean(Append(ls, line)) PROVE Trimmed(Append(ls, line)) = Append(ls, line)
    BY AppendProperties
  <2>1. Clean(ls) /\ line # <<>> /\ Tight(line)
    BY CleanMore
  <2>2. Trimmed(ls) = ls /\ Trim(line) = line
    BY <1>2, <2>1, TrimTight
  <2>3. Keep(Trimmed(ls), line) = Append(ls, line)
    BY <2>1, <2>2 DEF Keep
  <2> QED BY <2>3, ServicesGrow
<1> HIDE DEF S
<1>3. Seq(Text) \subseteq S
  BY <1>1, <1>2, AllSequences
<1> QED BY <1>3 DEF S

\* Lines that are joined are the lines that are read.
LEMMA JoinedReadsBack ==
  ASSUME NEW lines \in Seq(Text), lines # <<>>, AllUnbroken(lines)
  PROVE  Lines(Joined(lines)) = lines
<1> DEFINE S == {ls \in Seq(Text) : ls # <<>> /\ AllUnbroken(ls) => Lines(Joined(ls)) = ls}
<1>1. <<>> \in S
  OBVIOUS
<1>2. ASSUME NEW ls \in Seq(Text), ls \in S, NEW line \in Text PROVE Append(ls, line) \in S
  <2> SUFFICES ASSUME AllUnbroken(Append(ls, line))
               PROVE  Lines(Joined(Append(ls, line))) = Append(ls, line)
    BY AppendProperties
  <2>1. AllUnbroken(ls) /\ Unbroken(line)
    BY UnbrokenMore
  <2>2. CASE ls = <<>>
    <3>1. Append(ls, line) = <<line>> /\ Append(ls, <<>>) = << <<>> >>
      BY <2>2
    <3>2. <<>> \in Text /\ <<>> \o line = line
      BY ConcatEmptySeq DEF Text
    <3>3. Lines(<<>> \o line) = Append(ls, line)
      BY <2>1, <3>1, <3>2, NoLines, LinesGoOn
    <3>4. Joined(<<line>>) = line
      BY JoinedGrows
    <3> QED BY <3>1, <3>2, <3>3, <3>4
  <2>3. CASE ls # <<>>
    <3> DEFINE a == Append(Joined(ls), "newline")
    <3>1. Joined(Append(ls, line)) = a \o line /\ Joined(ls) \in Text
      BY <2>3, JoinedGrows
    <3>2. "newline" \in Chars
      BY DEF Chars
    <3>3. a \in Text /\ Lines(a) = NextLines(Lines(Joined(ls)), "newline")
      BY <3>1, <3>2, LinesGrow, AppendProperties DEF Text
    <3>4. Lines(Joined(ls)) = ls
      BY <1>2, <2>1, <2>3
    <3>5. Lines(a) = Append(ls, <<>>)
      BY <3>3, <3>4 DEF NextLines
    <3> HIDE DEF a
    <3>6. Lines(a \o line) = Append(ls, line)
      BY <2>1, <3>3, <3>5, LinesGoOn
    <3> QED BY <3>1, <3>6
  <2> QED BY <2>2, <2>3
<1> HIDE DEF S
<1>3. Seq(Text) \subseteq S
  BY <1>1, <1>2, AllSequences
<1> QED BY <1>3 DEF S

\* "round-trip exactly through Services::parse" (orders.rs:43-45).
LEMMA ServicesReadBack ==
  ASSUME NEW t \in Text
  PROVE  /\ ServiceLines(t) \in Seq(Text) /\ Joined(ServiceLines(t)) \in Text
         /\ ServiceLines(t) # <<>> =>
              /\ Lines(Joined(ServiceLines(t))) = ServiceLines(t)
              /\ ServiceLines(Joined(ServiceLines(t))) = ServiceLines(t)
<1> DEFINE services == ServiceLines(t)
<1>1. Lines(t) \in Seq(Text) /\ AllUnbroken(Lines(t))
  BY LinesTyped, LinesAreUnbroken DEF Pages, AllUnbroken
<1>2. services \in Seq(Text) /\ Clean(services)
  BY <1>1, ServicesTyped, ServicesAreClean DEF ServiceLines
<1> HIDE DEF services
<1>3. Joined(services) \in Text
  <2>1. <<>> \in Text
    BY DEF Text
  <2> QED BY <1>2, <2>1, JoinedGrows
<1>4. ASSUME services # <<>>
      PROVE  /\ Lines(Joined(services)) = services
             /\ ServiceLines(Joined(services)) = services
  <2>1. Lines(Joined(services)) = services
    BY <1>2, <1>4, CleanIsUnbroken, JoinedReadsBack
  <2> QED BY <1>2, <2>1, CleanStays DEF ServiceLines
<1> QED BY <1>2, <1>3, <1>4 DEF services

-----------------------------------------------------------------------------
(* Coming back, and what is stored in the end *)

\* Strengthening: a form that came back is refused for nothing but fields that
\* carry a message not yet acted on.
Mending ==
  /\ DOMAIN form = Field
  /\ posts > 0 => Refused(form) \subseteq left

\* Strengthening: where what the customer put in is fine, the form holds
\* something that is fine too and means the same.
SameMeaning(f) ==
  FieldError(f, typed[f]) = Fine =>
    FieldError(f, form[f]) = Fine /\ Column(f, form[f]) = Column(f, typed[f])

Keeping ==
  /\ DOMAIN form = Field /\ DOMAIN typed = Field
  /\ \A f \in Field : SameMeaning(f)
  /\ TypedIsStored

\* A radio group is refused exactly when its pick does not parse.
LEMMA PickError ==
  ASSUME NEW f \in {"style", "package"}, NEW pick
  PROVE  FieldError(f, pick) = IF Parses(f, pick) THEN Fine ELSE "UnknownChoice"
BY DEF FieldError

\* The radios of a form that came back always parse, and to what was picked if
\* that parsed.
LEMMA RadiosParse ==
  ASSUME NEW g, DOMAIN g = Field, NEW f \in {"style", "package"}
  PROVE  /\ Parses(f, FromRejected(g)[f])
         /\ Parses(f, g[f]) => FromRejected(g)[f].of = g[f].of
<1>1. CASE f = "style"
  BY <1>1 DEF FromRejected, Parses, Label, Field, Styles
<1>2. CASE f = "package"
  BY <1>2 DEF FromRejected, Parses, Priced, Field, Packages
<1> QED BY <1>1, <1>2

\* A form that came back has the texts it was posted with.
LEMMA TextsStay ==
  ASSUME NEW g, DOMAIN g = Field, NEW f \in TextFields
  PROVE  FromRejected(g)[f] = g[f]
BY DEF FromRejected, Field, TextFields

LEMMA FieldsStay ==
  ASSUME NEW g, DOMAIN g = Field
  PROVE  DOMAIN FromRejected(g) = Field
BY DEF FromRejected

\* Coming back never makes a field worse.
LEMMA NoNewFaults ==
  ASSUME NEW g, DOMAIN g = Field
  PROVE  Refused(FromRejected(g)) \subseteq Refused(g)
<1> SUFFICES ASSUME NEW f \in Field, FieldError(f, FromRejected(g)[f]) # Fine
             PROVE  FieldError(f, g[f]) # Fine
  BY DEF Refused, Validate
<1>1. CASE f \in TextFields
  BY <1>1, TextsStay
<1>2. CASE f \in {"style", "package"}
  BY <1>2, RadiosParse, PickError
<1> QED BY <1>1, <1>2 DEF Field

\* A form that came back and had just the fields with a message corrected is
\* accepted: nobody is sent round twice for one mistake (order.rs:41-45).
THEOREM MendedFormsAreAccepted == Spec => []MendedIsAccepted
<1>1. Init => Mending
  BY OrderFormAssumption DEF Init, Mending
<1>2. Mending /\ [Next]_vars => Mending'
  <2> SUFFICES ASSUME Mending, [Next]_vars PROVE Mending'
    OBVIOUS
  <2>1. CASE Post
    <3>1. form' = form \/ form' = FromRejected(form)
      BY <2>1 DEF Post
    <3>2. DOMAIN form' = Field
      BY <3>1, FieldsStay DEF Mending
    <3>3. Refused(form') \subseteq Refused(form)
      BY <3>1, NoNewFaults DEF Mending
    <3>4. left' = Refused(form)
      BY <2>1 DEF Post
    <3> QED BY <3>2, <3>3, <3>4 DEF Mending, Refused, Validate
  <2>2. ASSUME NEW f \in Field, NEW text \in Corrections[f], Correct(f, text)
        PROVE  Mending'
    <3>1. FieldError(f, text) = Fine
      BY CorrectionsAreFine
    <3>2. form' = [form EXCEPT ![f] = text] /\ left' = left \ {f} /\ posts' = posts
      BY <2>2 DEF Correct
    <3> QED BY <3>1, <3>2 DEF Mending, Refused, Validate
  <2>3. CASE UNCHANGED vars
    BY <2>3 DEF vars, Mending, Refused, Validate
  <2> QED BY <2>1, <2>2, <2>3 DEF Next
<1>3. Mending => MendedIsAccepted
  BY DEF Mending, MendedIsAccepted
<1> QED BY <1>1, <1>2, <1>3, PTL DEF Spec

LEMMA KeepingIsInductive ==
  /\ Init => Keeping
  /\ Keeping /\ [Next]_vars => Keeping'
<1>1. Init => Keeping
  BY OrderFormAssumption DEF Init, Keeping, SameMeaning, TypedIsStored
<1>2. Keeping /\ [Next]_vars => Keeping'
  <2> SUFFICES ASSUME Keeping, [Next]_vars PROVE Keeping'
    OBVIOUS
  <2>1. CASE Post
    <3>1. typed' = typed /\ (form' = form \/ form' = FromRejected(form))
      BY <2>1 DEF Post
    <3>2. DOMAIN form' = Field /\ DOMAIN typed' = Field
      BY <3>1, FieldsStay DEF Keeping
    <3>3. ASSUME NEW f \in Field, FieldError(f, typed[f]) = Fine
          PROVE  FieldError(f, form'[f]) = Fine /\ Column(f, form'[f]) = Column(f, typed[f])
      <4>1. FieldError(f, form[f]) = Fine /\ Column(f, form[f]) = Column(f, typed[f])
        BY <3>3 DEF Keeping, SameMeaning
      <4>2. CASE form' = form
        BY <4>1, <4>2
      <4>3. CASE form' = FromRejected(form) /\ f \in TextFields
        BY <4>1, <4>3, TextsStay DEF Keeping
      <4>4. CASE form' = FromRejected(form) /\ f \in {"style", "package"}
        <5>1. Parses(f, form[f])
          BY <4>1, <4>4, PickError DEF Fine
        <5>2. Parses(f, form'[f]) /\ form'[f].of = form[f].of
          BY <4>4, <5>1, RadiosParse DEF Keeping
        <5>3. Column(f, form'[f]) = Column(f, form[f])
          BY <4>4, <5>2 DEF Column
        <5> QED BY <4>1, <4>4, <5>2, <5>3, PickError
      <4> QED BY <3>1, <4>2, <4>3, <4>4 DEF Field
    <3>4. TypedIsStored'
      <4>1. CASE orders' = orders
        BY <3>1, <4>1 DEF Keeping, TypedIsStored, Validate
      <4>2. CASE orders' = {RowOf(form)}
        BY <3>1, <4>2 DEF Keeping, SameMeaning, TypedIsStored, Validate, RowOf
      <4> QED BY <2>1, <4>1, <4>2 DEF Post
    <3> QED BY <3>1, <3>2, <3>3, <3>4 DEF Keeping, SameMeaning
  <2>2. ASSUME NEW f \in Field, NEW text \in Corrections[f], Correct(f, text)
        PROVE  Keeping'
    <3>1. /\ form' = [form EXCEPT ![f] = text] /\ typed' = [typed EXCEPT ![f] = text]
          /\ orders = {} /\ orders' = {}
      BY <2>2 DEF Correct
    <3>2. DOMAIN form' = Field /\ DOMAIN typed' = Field
      BY <3>1 DEF Keeping
    <3>3. \A g \in Field : SameMeaning(g)'
      BY <3>1 DEF Keeping, SameMeaning
    <3>4. TypedIsStored'
      BY <3>1 DEF TypedIsStored
    <3> QED BY <3>2, <3>3, <3>4 DEF Keeping
  <2>3. CASE UNCHANGED vars
    BY <2>3 DEF vars, Keeping, SameMeaning, TypedIsStored, Validate, RowOf
  <2> QED BY <2>1, <2>2, <2>3 DEF Next
<1> QED BY <1>1, <1>2

\* However often the form came back, the order is what the customer last typed
\* and picked: re-rendering the form (form.rs:175-218) loses nothing of it.
THEOREM WhatWasTypedIsStored == Spec => []TypedIsStored
<1>1. Keeping => TypedIsStored
  BY DEF Keeping
<1> QED BY <1>1, KeepingIsInductive, PTL DEF Spec

-----------------------------------------------------------------------------
(* What validation makes of a field *)

LEMMA FieldErrorTyped ==
  ASSUME NEW f \in Field, NEW raw
  PROVE  FieldError(f, raw) \in FieldErrors \cup {Fine}
<1>1. ASSUME NEW max PROVE RequiredText(raw, max) \in {"Missing", "TooLong", Fine}
  BY DEF RequiredText, Fine
<1>2. CASE f = "company" \/ f = "city"
  BY <1>1, <1>2 DEF FieldError, FieldErrors
<1>3. CASE f = "phone"
  BY <1>1, <1>3 DEF FieldError, FieldErrors
<1>4. CASE f = "email"
  BY <1>1, <1>4 DEF FieldError, FieldErrors
<1>5. CASE f = "services"
  <2>1. ServicesError(raw) \in {"Missing", "TooManyServices", "TooLong", Fine}
    BY DEF ServicesError, Fine
  <2> QED BY <1>5, <2>1 DEF FieldError, FieldErrors
<1>6. CASE f \in {"style", "package"}
  BY <1>6 DEF FieldError, FieldErrors, Fine
<1> QED BY <1>2, <1>3, <1>4, <1>5, <1>6 DEF Field, TextFields

\* A text that passed is neither empty nor too long once it is trimmed.
LEMMA RequiredTextPasses ==
  ASSUME NEW t \in Text, NEW max \in Nat, RequiredText(t, max) = Fine
  PROVE  Len(Trim(t)) \in 1 .. max
<1>1. Trim(t) # <<>> /\ ~(Len(Trim(t)) > max)
  BY DEF RequiredText, Fine
<1>2. Trim(t) \in Seq(Chars)
  BY TrimShape DEF Text
<1>3. Len(Trim(t)) \in Nat /\ Len(Trim(t)) # 0
  BY <1>1, <1>2, EmptySeq, LenProperties
<1> QED BY <1>1, <1>3

\* Validation looks at the trimmed text only.
LEMMA TrimmedPasses ==
  ASSUME NEW f \in TextFields \ {"services"}, NEW t \in Text
  PROVE  FieldError(f, Trim(t)) = FieldError(f, t)
<1>1. Trim(Trim(t)) = Trim(t)
  BY TrimOnce
<1>2. ASSUME NEW max PROVE RequiredText(Trim(t), max) = RequiredText(t, max)
  BY <1>1 DEF RequiredText
<1> QED BY <1>1, <1>2 DEF FieldError, TextFields

\* What a text field is stored as would be stored as the same again, and passes
\* if the text did.
LEMMA TextReadsBack ==
  ASSUME NEW f \in TextFields, NEW t \in Text
  PROVE  /\ Column(f, t) \in Text
         /\ FieldError(f, t) = Fine =>
              FieldError(f, Column(f, t)) = Fine /\ Column(f, Column(f, t)) = Column(f, t)
<1>1. CASE f = "services"
  <2>1. Column(f, t) = Joined(ServiceLines(t))
    BY <1>1 DEF Column
  <2>2. ASSUME FieldError(f, t) = Fine
        PROVE  FieldError(f, Column(f, t)) = Fine /\ Column(f, Column(f, t)) = Column(f, t)
    <3>1. ServicesError(t) = Fine
      BY <1>1, <2>2 DEF FieldError
    <3>2. ServiceLines(t) # <<>>
      BY <3>1 DEF ServicesError, Fine
    <3>3. ServiceLines(Column(f, t)) = ServiceLines(t)
      BY <2>1, <3>2, ServicesReadBack
    <3>4. ServicesError(Column(f, t)) = Fine
      BY <3>1, <3>3 DEF ServicesError
    <3>5. FieldError(f, Column(f, t)) = Fine
      BY <1>1, <3>4 DEF FieldError
    <3>6. Column(f, Column(f, t)) = Joined(ServiceLines(Column(f, t)))
      BY <1>1 DEF Column
    <3> QED BY <2>1, <3>3, <3>5, <3>6
  <2> QED BY <2>1, <2>2, ServicesReadBack
<1>2. CASE f # "services"
  <2>1. \A raw : Column(f, raw) = Trim(raw)
    BY <1>2 DEF Column, TextFields
  <2> QED BY <1>2, <2>1, TrimShape, TrimOnce, TrimmedPasses
<1> QED BY <1>1, <1>2

Slug(choice) == [of |-> choice, spelled |-> "slug"]

\* A pick that passed is stored as the slug of a choice, and that parses to the
\* same choice.
LEMMA PickReadsBack ==
  ASSUME NEW f \in {"style", "package"}, NEW pick, FieldError(f, pick) = Fine
  PROVE  /\ Column(f, pick) = pick.of
         /\ f = "style" => pick.of \in Styles
         /\ f = "package" => pick.of \in Packages
         /\ FieldError(f, Slug(pick.of)) = Fine
         /\ Column(f, Slug(pick.of)) = pick.of
<1>1. Parses(f, pick)
  BY PickError DEF Fine
<1>2. Slug(pick.of).of = pick.of /\ Slug(pick.of).spelled = "slug"
  BY DEF Slug
<1>3. /\ f = "style" => pick.of \in Styles
      /\ f = "package" => pick.of \in Packages
  BY <1>1 DEF Parses
<1>4. Parses(f, Slug(pick.of))
  BY <1>2, <1>3 DEF Parses
<1>5. Column(f, pick) = pick.of /\ Column(f, Slug(pick.of)) = Slug(pick.of).of
  BY DEF Column
<1> QED BY <1>2, <1>3, <1>4, <1>5, PickError

-----------------------------------------------------------------------------
(* Types *)

Form(g) == DOMAIN g = Field /\ \A f \in Field : g[f] \in Raw(f)

LEMMA RejectedTyped ==
  ASSUME NEW g, Form(g)
  PROVE  Form(FromRejected(g))
<1>1. DOMAIN FromRejected(g) = Field
  BY FieldsStay DEF Form
<1>2. ASSUME NEW f \in TextFields PROVE FromRejected(g)[f] \in Raw(f)
  BY <1>2, TextsStay DEF Form, Field
<1>3. FromRejected(g)["style"] \in Picks
  <2>1. FromRejected(g)["style"] =
          IF Parses("style", g["style"]) THEN Label(g["style"].of) ELSE Label("klassisk")
    BY DEF FromRejected, Form, Field
  <2>2. \A choice \in Styles : Label(choice) \in Picks
    BY DEF Label, Picks
  <2>3. Parses("style", g["style"]) => g["style"].of \in Styles
    BY DEF Parses
  <2>4. "klassisk" \in Styles
    BY DEF Styles
  <2> QED BY <2>1, <2>2, <2>3, <2>4
<1>4. FromRejected(g)["package"] \in Picks
  <2>1. FromRejected(g)["package"] =
          IF Parses("package", g["package"]) THEN Priced(g["package"].of) ELSE Priced("start")
    BY DEF FromRejected, Form, Field
  <2>2. \A choice \in Packages : Priced(choice) \in Picks
    BY DEF Priced, Picks
  <2>3. Parses("package", g["package"]) => g["package"].of \in Packages
    BY DEF Parses
  <2>4. "start" \in Packages
    BY DEF Packages
  <2> QED BY <2>1, <2>2, <2>3, <2>4
<1>5. Raw("style") = Picks /\ Raw("package") = Picks
  BY DEF Raw, TextFields
<1> QED BY <1>1, <1>2, <1>3, <1>4, <1>5 DEF Form, Field

LEMMA CorrectedTyped ==
  ASSUME NEW g, Form(g), NEW f \in Field, NEW text \in Corrections[f]
  PROVE  Form([g EXCEPT ![f] = text])
<1>1. text \in Raw(f)
  BY OrderFormAssumption
<1> QED BY <1>1 DEF Form

LEMMA RowTyped ==
  ASSUME NEW g, Form(g), Refused(g) = {}
  PROVE  /\ \A f \in TextFields : RowOf(g)[f] \in Text
         /\ RowOf(g)["style"] \in Styles /\ RowOf(g)["package"] \in Packages
<1>1. \A f \in Field : FieldError(f, g[f]) = Fine /\ RowOf(g)[f] = Column(f, g[f])
  BY DEF Refused, Validate, RowOf
<1>2. ASSUME NEW f \in TextFields PROVE RowOf(g)[f] \in Text
  <2>1. f \in Field /\ g[f] \in Text
    BY DEF Form, Field, Raw
  <2> QED BY <1>1, <2>1, TextReadsBack
<1>3. RowOf(g)["style"] \in Styles
  BY <1>1, PickReadsBack DEF Field
<1>4. RowOf(g)["package"] \in Packages
  BY <1>1, PickReadsBack DEF Field
<1> QED BY <1>2, <1>3, <1>4

\* Every step keeps the types: the form holds texts and picks whatever came back
\* in it, every field has one message or none, and the row is of texts and slugs.
THEOREM FormIsTyped == Spec => []TypeOK
<1>1. Init => TypeOK
  BY OrderFormAssumption DEF Init, TypeOK, FieldErrors
<1>2. TypeOK /\ [Next]_vars => TypeOK'
  <2> SUFFICES ASSUME TypeOK, [Next]_vars PROVE TypeOK'
    OBVIOUS
  <2>0. Form(form) /\ Form(typed)
    BY DEF TypeOK, Form
  <2>1. CASE Post
    <3>1. Form(form') /\ Form(typed')
      BY <2>0, <2>1, RejectedTyped DEF Post
    <3>2. shown' \in [Field -> FieldErrors \cup {Fine}] /\ left' \subseteq Field
      <4>1. shown' = [f \in Field |-> FieldError(f, form[f])] /\ left' = Refused(form)
        BY <2>1 DEF Post, Validate
      <4> QED BY <4>1, FieldErrorTyped DEF Refused
    <3>3. ASSUME NEW row \in orders'
          PROVE  /\ \A f \in TextFields : row[f] \in Text
                 /\ row["style"] \in Styles /\ row["package"] \in Packages
      <4>1. Refused(form) = {} /\ row = RowOf(form)
        BY <2>1, <3>3 DEF Post
      <4> QED BY <2>0, <4>1, RowTyped
    <3>4. posts' \in 0 .. MaxPosts
      BY <2>1, OrderFormAssumption DEF Post, TypeOK
    <3> QED BY <3>1, <3>2, <3>3, <3>4 DEF TypeOK, Form
  <2>2. ASSUME NEW f \in Field, NEW text \in Corrections[f], Correct(f, text)
        PROVE  TypeOK'
    <3>1. Form(form') /\ Form(typed')
      BY <2>0, <2>2, CorrectedTyped DEF Correct
    <3> QED BY <2>2, <3>1 DEF Correct, TypeOK, Form
  <2>3. CASE UNCHANGED vars
    BY <2>3 DEF vars, TypeOK
  <2> QED BY <2>1, <2>2, <2>3 DEF Next
<1> QED BY <1>1, <1>2, PTL DEF Spec

-----------------------------------------------------------------------------
(* What is stored *)

\* Strengthening: an order is that of the form as it stands, which was accepted.
Storing ==
  /\ Form(form)
  /\ orders # {} => orders = {RowOf(form)} /\ Refused(form) = {}

LEMMA StoringIsInductive ==
  /\ Init => Storing
  /\ Storing /\ [Next]_vars => Storing'
<1>1. Init => Storing
  BY OrderFormAssumption DEF Init, Storing, Form
<1>2. ASSUME Storing, [Next]_vars PROVE Storing'
  <2>1. CASE Post
    <3>1. Form(form')
      BY <1>2, <2>1, RejectedTyped DEF Post, Storing
    <3>2. orders' # {} => /\ orders' = {RowOf(form)} /\ form' = form /\ Refused(form) = {}
      BY <2>1 DEF Post
    <3> QED BY <3>1, <3>2 DEF Storing
  <2>2. ASSUME NEW f \in Field, NEW text \in Corrections[f], Correct(f, text)
        PROVE  Storing'
    <3>1. Form(form')
      BY <1>2, <2>2, CorrectedTyped DEF Correct, Storing
    <3> QED BY <2>2, <3>1 DEF Correct, Storing
  <2>3. CASE UNCHANGED vars
    <3>1. form' = form /\ orders' = orders
      BY <2>3 DEF vars
    <3>2. Form(form') /\ (orders' # {} => orders' = {RowOf(form')} /\ Refused(form') = {})
      BY <1>2, <3>1 DEF Storing
    <3> QED BY <3>2 DEF Storing
  <2> QED BY <1>2, <2>1, <2>2, <2>3 DEF Next
<1> QED BY <1>1, <1>2

\* The row of a form that was accepted, read back from the table.
Again(row) == [f \in Field |-> IF f \in TextFields THEN row[f] ELSE Slug(row[f])]

LEMMA RowReadsBack ==
  ASSUME NEW g, Form(g), Refused(g) = {}
  PROVE  Refused(Again(RowOf(g))) = {} /\ RowOf(Again(RowOf(g))) = RowOf(g)
<1> DEFINE row == RowOf(g)
<1>1. \A f \in Field : FieldError(f, g[f]) = Fine /\ row[f] = Column(f, g[f])
  BY DEF Refused, Validate, RowOf
<1>2. ASSUME NEW f \in Field
      PROVE  FieldError(f, Again(row)[f]) = Fine /\ Column(f, Again(row)[f]) = row[f]
  <2>1. CASE f \in TextFields
    <3>1. g[f] \in Text /\ Again(row)[f] = row[f]
      BY <2>1 DEF Form, Raw, Again
    <3> QED BY <1>1, <2>1, <3>1, TextReadsBack
  <2>2. CASE f \in {"style", "package"}
    <3>1. Again(row)[f] = Slug(row[f])
      BY <2>2 DEF Again, TextFields
    <3>2. row[f] = g[f].of /\ FieldError(f, Slug(g[f].of)) = Fine /\ Column(f, Slug(g[f].of)) = g[f].of
      BY <1>1, <2>2, PickReadsBack
    <3> QED BY <3>1, <3>2
  <2> QED BY <2>1, <2>2 DEF Field
<1>3. Refused(Again(row)) = {}
  BY <1>2 DEF Refused, Validate
<1>4. RowOf(Again(row)) = [f \in Field |-> row[f]]
  BY <1>2 DEF RowOf
<1>5. row = [f \in Field |-> row[f]]
  BY DEF RowOf
<1> QED BY <1>3, <1>4, <1>5

\* The table's CHECKs never refuse what validate let through
\* (0001_create_orders.sql:9-10), and the row passes validation again and would be
\* stored as the same row: the services "round-trip exactly" (orders.rs:43-45).
THEOREM RowsReadBack == Spec => []StoredReadsBack
<1>1. Storing => StoredReadsBack
  <2> SUFFICES ASSUME Storing, NEW row \in orders
               PROVE  /\ Len(row["company"]) \in 1 .. COMPANY_MAX
                      /\ Len(row["city"]) \in 1 .. CITY_MAX
                      /\ Len(row["phone"]) \in 1 .. PHONE_MAX
                      /\ Len(row["email"]) \in 1 .. EMAIL_MAX
                      /\ Refused(Again(row)) = {} /\ RowOf(Again(row)) = row
    BY DEF StoredReadsBack, Again, Slug
  <2>1. row = RowOf(form) /\ Form(form) /\ Refused(form) = {}
    BY DEF Storing
  <2>2. /\ FieldError("company", form["company"]) = Fine
        /\ FieldError("city", form["city"]) = Fine
        /\ FieldError("phone", form["phone"]) = Fine
        /\ FieldError("email", form["email"]) = Fine
    BY <2>1 DEF Refused, Validate, Field, TextFields
  <2>3. /\ RequiredText(form["company"], COMPANY_MAX) = Fine
        /\ RequiredText(form["city"], CITY_MAX) = Fine
        /\ RequiredText(form["phone"], PHONE_MAX) = Fine
        /\ RequiredText(form["email"], EMAIL_MAX) = Fine
    <3>1. \A raw : FieldError("phone", raw) = Fine => RequiredText(raw, PHONE_MAX) = Fine
      BY DEF FieldError, Fine
    <3>2. \A raw : FieldError("email", raw) = Fine => RequiredText(raw, EMAIL_MAX) = Fine
      BY DEF FieldError, Fine
    <3>3. \A raw : /\ FieldError("company", raw) = RequiredText(raw, COMPANY_MAX)
                   /\ FieldError("city", raw) = RequiredText(raw, CITY_MAX)
      BY DEF FieldError
    <3> QED BY <2>2, <3>1, <3>2, <3>3
  <2>4. /\ form["company"] \in Text /\ form["city"] \in Text
        /\ form["phone"] \in Text /\ form["email"] \in Text
    BY <2>1 DEF Form, Field, TextFields, Raw
  <2>5. /\ row["company"] = Trim(form["company"]) /\ row["city"] = Trim(form["city"])
        /\ row["phone"] = Trim(form["phone"]) /\ row["email"] = Trim(form["email"])
    BY <2>1 DEF RowOf, Column, Field, TextFields
  <2>6. COMPANY_MAX \in Nat /\ CITY_MAX \in Nat /\ PHONE_MAX \in Nat /\ EMAIL_MAX \in Nat
    BY OrderFormAssumption
  <2>7. Refused(Again(row)) = {} /\ RowOf(Again(row)) = row
    BY <2>1, RowReadsBack
  <2> QED BY <2>3, <2>4, <2>5, <2>6, <2>7, RequiredTextPasses
<1> QED BY <1>1, StoringIsInductive, PTL DEF Spec

-----------------------------------------------------------------------------
(* What is told *)

\* Seen from the form, the steps of the job are steps of OrderForm or none.
LEMMA JobKeepsTheForm ==
  [JobNext]_allVars => [Next]_vars
BY DEF JobNext, Announced, Corrected, Accepted, Advanced, Published, Refunded, allVars, Next

Quotes(m, choice) ==
  /\ "package" \in DOMAIN m.tells => m.tells.package = choice
  /\ "price" \in DOMAIN m.tells => m.tells.price = PriceSekExVat(choice)

\* Strengthening: nothing is told before there is an order; the studio is told of
\* a new order what validation made of the form, once and for all; and the quotes
\* are of the package in it.
Telling ==
  /\ inbox # {} => orders # {}
  /\ \A m \in inbox : m.about = "new" => m = StudioNotification(Ordered(form))
  /\ \A m \in inbox : Quotes(m, form["package"].of)

\* What a message made of a row quotes.
LEMMA RowIsQuoted ==
  ASSUME NEW row, NEW m,
         \/ m = ProposalReady(row) \/ m = ProposalAccepted(row) \/ m = OrderCancelled(row)
         \/ m = SitePublished(row, "live_url") \/ m = RefundIssued(row, "refund_reason")
  PROVE  m.about # "new" /\ Quotes(m, row.package)
<1>1. CASE m = ProposalReady(row)
  BY <1>1 DEF ProposalReady, ToCustomer, Quoting, Quotes
<1>2. CASE m = ProposalAccepted(row)
  BY <1>2 DEF ProposalAccepted, ToCustomer, Quoting, Quotes
<1>3. CASE m = OrderCancelled(row)
  BY <1>3 DEF OrderCancelled, ToCustomer, Quotes
<1>4. CASE m = SitePublished(row, "live_url")
  BY <1>4 DEF SitePublished, ToCustomer, Quotes
<1>5. CASE m = RefundIssued(row, "refund_reason")
  BY <1>5 DEF RefundIssued, ToCustomer, Quotes
<1> QED BY <1>1, <1>2, <1>3, <1>4, <1>5

\* What the messages made of a validated order quote.
LEMMA OrderIsQuoted ==
  ASSUME NEW order
  PROVE  /\ Quotes(StudioNotification(order), order.package)
         /\ Quotes(CustomerConfirmation(order), order.package)
         /\ CustomerConfirmation(order).about # "new"
<1>1. Quotes(StudioNotification(order), order.package)
  BY DEF StudioNotification, ToStudio, Quotes
<1>2. /\ Quotes(CustomerConfirmation(order), order.package)
      /\ CustomerConfirmation(order).about # "new"
  BY DEF CustomerConfirmation, ToCustomer, Quotes
<1> QED BY <1>1, <1>2

LEMMA PackageOfOrder ==
  ASSUME NEW g
  PROVE  RowOf(g)["package"] = g["package"].of /\ Ordered(g)["package"] = g["package"].of
BY DEF RowOf, Ordered, Column, Field, TextFields

LEMMA TellingIsInductive ==
  /\ JobInit => Telling
  /\ Storing /\ Telling /\ [JobNext]_allVars => Telling'
<1>1. JobInit => Telling
  BY DEF JobInit, Telling
<1>2. ASSUME Storing, Telling, [JobNext]_allVars PROVE Telling'
  \* One message more, made of the row.
  <2>1. ASSUME NEW row \in orders, NEW m, inbox' = inbox \cup {m}, UNCHANGED vars,
               \/ m = ProposalReady(row) \/ m = ProposalAccepted(row) \/ m = OrderCancelled(row)
               \/ m = SitePublished(row, "live_url") \/ m = RefundIssued(row, "refund_reason")
        PROVE  Telling'
    <3>1. form' = form /\ orders' = orders
      BY <2>1 DEF vars
    <3>2. row["package"] = form["package"].of
      BY <1>2, PackageOfOrder DEF Storing
    <3>3. m.about # "new" /\ Quotes(m, form["package"].of)
      BY <2>1, <3>2, RowIsQuoted
    <3> QED BY <1>2, <2>1, <3>1, <3>3 DEF Telling
  <2>2. CASE Announced
    <3>1. orders = {} /\ inbox = {}
      BY <1>2, <2>2 DEF Announced, Post, Telling
    <3>2. CASE Refused(form) # {}
      BY <2>2, <3>1, <3>2 DEF Announced, Telling
    <3>3. CASE Refused(form) = {}
      <4>1. /\ form' = form /\ orders' # {}
            /\ inbox' = {StudioNotification(Ordered(form)), CustomerConfirmation(Ordered(form))}
        BY <2>2, <3>3 DEF Announced, Post
      <4> QED BY <4>1, OrderIsQuoted, PackageOfOrder DEF Telling
    <3> QED BY <3>2, <3>3
  <2>3. CASE Corrected
    <3>1. orders = {} /\ inbox = {} /\ inbox' = inbox
      BY <1>2, <2>3 DEF Corrected, Correct, letters, Telling
    <3> QED BY <3>1 DEF Telling
  <2>4. CASE Accepted \/ UNCHANGED allVars
    <3>1. form' = form /\ orders' = orders /\ inbox' = inbox
      BY <2>4 DEF Accepted, allVars, letters, vars
    <3> QED BY <1>2, <3>1 DEF Telling
  <2>5. ASSUME NEW to \in {"UtkastSkickat", "Godkand", "Avbruten"}, Advanced(to)
        PROVE  Telling'
    <3>1. PICK row \in orders : inbox' = inbox \cup {MessageOf(to, row)}
      BY <2>5 DEF Advanced
    <3>2. UNCHANGED vars
      BY <2>5 DEF Advanced
    <3>3. MessageOf(to, row) \in {ProposalReady(row), ProposalAccepted(row), OrderCancelled(row)}
      BY DEF MessageOf
    <3> QED BY <2>1, <3>1, <3>2, <3>3
  <2>6. CASE Published
    <3>1. PICK row \in orders : inbox' = inbox \cup {SitePublished(row, "live_url")}
      BY <2>6 DEF Published
    <3>2. UNCHANGED vars
      BY <2>6 DEF Published
    <3> QED BY <2>1, <3>1, <3>2
  <2>7. CASE Refunded
    <3>1. PICK row \in orders : inbox' = inbox \cup {RefundIssued(row, "refund_reason")}
      BY <2>7 DEF Refunded
    <3>2. UNCHANGED vars
      BY <2>7 DEF Refunded
    <3> QED BY <2>1, <3>1, <3>2
  <2> QED BY <1>2, <2>2, <2>3, <2>4, <2>5, <2>6, <2>7 DEF JobNext
<1> QED BY <1>1, <1>2

\* What the row and the notification have in common.
LEMMA RowIsTold ==
  ASSUME NEW g, Form(g), Refused(g) = {}
  PROVE  LET m == StudioNotification(Ordered(g))
             row == RowOf(g)
         IN  /\ \A f \in Field \ {"services"} : m.tells[f] = row[f]
             /\ m.tells.services = Lines(row.services)
             /\ m.reply_to = row.email
<1> DEFINE m == StudioNotification(Ordered(g))
           row == RowOf(g)
<1>1. ASSUME NEW f \in Field \ {"services"} PROVE Ordered(g)[f] = row[f]
  BY DEF Ordered, RowOf, Column
<1>2. Ordered(g)["services"] = ServiceLines(g["services"])
  BY DEF Ordered, Field, TextFields
<1>3. row["services"] = Joined(ServiceLines(g["services"]))
  BY DEF RowOf, Column, Field, TextFields
<1>4. ServiceLines(g["services"]) # <<>>
  <2>1. FieldError("services", g["services"]) = Fine
    BY DEF Refused, Validate, Field, TextFields
  <2> QED BY <2>1 DEF FieldError, ServicesError, Fine
<1>5. g["services"] \in Text
  BY DEF Form, Field, TextFields, Raw
<1>6. Lines(row["services"]) = Ordered(g)["services"]
  BY <1>2, <1>3, <1>4, <1>5, ServicesReadBack
<1>7. /\ \A f \in Field \ {"services"} : m.tells[f] = Ordered(g)[f]
      /\ m.tells["services"] = Ordered(g)["services"]
      /\ m.reply_to = Ordered(g)["email"]
  BY DEF StudioNotification, ToStudio, Field, TextFields
<1> QED BY <1>1, <1>6, <1>7 DEF Field, TextFields

\* The studio is told of every order, read line by line, what its row says, and a
\* reply goes to the address in the row (message.rs:27).
THEOREM InboxIsThePanel == JobSpec => []PanelAndInboxAgree
<1>1. Storing /\ Telling => PanelAndInboxAgree
  <2> SUFFICES ASSUME Storing, Telling, NEW m \in inbox, m.about = "new", NEW row \in orders
               PROVE  /\ \A f \in Field \ {"services"} : m.tells[f] = row[f]
                      /\ m.tells.services = Lines(row.services)
                      /\ m.reply_to = row.email
    BY DEF PanelAndInboxAgree
  <2>1. row = RowOf(form) /\ Form(form) /\ Refused(form) = {}
    BY DEF Storing
  <2>2. m = StudioNotification(Ordered(form))
    BY DEF Telling
  <2> QED BY <2>1, <2>2, RowIsTold
<1>2. JobInit => Init
  BY DEF JobInit
<1> QED BY <1>1, <1>2, JobKeepsTheForm, StoringIsInductive, TellingIsInductive, PTL DEF JobSpec

\* Whatever a message says of package and price is what the customer last picked
\* (message.rs:125), through every form that came back and every message sent.
THEOREM QuotesStay == JobSpec => []QuotesAreWhatWasPicked
<1>1. Keeping /\ Telling => QuotesAreWhatWasPicked
  <2> SUFFICES ASSUME Keeping, Telling, Parses("package", typed["package"]), NEW m \in inbox
               PROVE  Quotes(m, typed["package"].of)
    BY DEF QuotesAreWhatWasPicked, Quotes
  <2>1. FieldError("package", typed["package"]) = Fine
    BY PickError
  <2>2. Column("package", form["package"]) = Column("package", typed["package"])
    BY <2>1 DEF Keeping, SameMeaning, Field
  <2>3. form["package"].of = typed["package"].of
    BY <2>2 DEF Column
  <2> QED BY <2>3 DEF Telling
<1>2. JobInit => Init
  BY DEF JobInit
<1> QED BY <1>1, <1>2, JobKeepsTheForm, KeepingIsInductive, StoringIsInductive,
           TellingIsInductive, PTL DEF JobSpec

-----------------------------------------------------------------------------
(* Trimming, by position *)

\* What is left of t is what is between its first and its last ink.
Span(t, a, b) ==
  /\ a \in 1 .. Len(t) /\ b \in 1 .. Len(t) /\ a <= b
  /\ Visible(t, a) /\ Visible(t, b)
  /\ \A i \in 1 .. Len(t) : Visible(t, i) => a <= i /\ i <= b
  /\ Len(Trim(t)) = b - a + 1
  /\ \A i \in 1 .. b - a + 1 : Trim(t)[i] = t[a + i - 1]

LEMMA TrimSpans ==
  ASSUME NEW t \in Text, Inked(t) # {}
  PROVE  \E a, b \in Nat : Span(t, a, b)
<1> DEFINE a == Min(Inked(t))
<1> DEFINE b == Max(Inked(t))
<1>1. a \in Inked(t) /\ b \in Inked(t) /\ \A i \in Inked(t) : a <= i /\ i <= b
  BY Extremes
<1>2. Trim(t) = SubSeq(t, a, b)
  BY DEF Trim
<1>3. /\ Len(t) \in Nat /\ a \in 1 .. Len(t) /\ b \in 1 .. Len(t) /\ a <= b
      /\ t[a] \notin White /\ t[b] \notin White /\ \A i \in 1 .. Len(t) : t[i] \in Chars
      /\ \A i \in 1 .. Len(t) : t[i] \notin White => a <= i /\ i <= b
  BY <1>1, InkedIsDomain
<1> HIDE DEF a, b
<1>4. \A i \in a .. b : t[i] \in Chars
  BY <1>3
<1>5. Len(SubSeq(t, a, b)) = b - a + 1 /\ \A i \in 1 .. b - a + 1 : SubSeq(t, a, b)[i] = t[a + i - 1]
  BY <1>3, <1>4, SubSeqProperties
<1>6. Span(t, a, b)
  BY <1>2, <1>3, <1>5 DEF Span, Visible
<1> QED BY <1>3, <1>6

\* A text without ink is trimmed away, and only such a text is.
LEMMA NoInk ==
  ASSUME NEW t \in Text
  PROVE  /\ Inked(t) = {} <=> \A i \in 1 .. Len(t) : ~Visible(t, i)
         /\ Inked(t) = {} <=> Trim(t) = <<>>
         /\ Trim(t) = <<>> <=> Len(Trim(t)) = 0
         /\ Len(Trim(t)) \in Nat
<1>1. Trim(t) \in Seq(Chars)
  BY TrimShape DEF Text
<1>2. Trim(t) = <<>> <=> Len(Trim(t)) = 0
  BY <1>1, EmptySeq
<1>3. Len(Trim(t)) \in Nat
  BY <1>1, LenProperties
<1>4. Inked(t) = {} <=> \A i \in 1 .. Len(t) : ~Visible(t, i)
  BY InkedIsDomain DEF Visible
<1> QED BY <1>2, <1>3, <1>4, TrimShape

LEMMA ExtentIsLength ==
  ASSUME NEW t \in Text
  PROVE  Extent(t) = Len(Trim(t))
<1>0. Len(t) \in Nat /\ DOMAIN t = 1 .. Len(t)
  BY InkedIsDomain
<1> DEFINE E == {i \in 1 .. Len(t) : /\ \E j \in 1 .. i : Visible(t, j)
                                     /\ \E j \in i .. Len(t) : Visible(t, j)}
<1>1. Extent(t) = Cardinality(E)
  BY <1>0 DEF Extent
<1>2. CASE Inked(t) = {}
  <2>1. E = {}
    BY <1>0, <1>2, NoInk
  <2> QED BY <1>1, <1>2, <2>1, NoInk, FS_EmptySet
<1>3. CASE Inked(t) # {}
  <2>1. PICK a \in Nat, b \in Nat : Span(t, a, b)
    BY <1>3, TrimSpans
  <2>2. E = a .. b
    <3>1. ASSUME NEW i \in E PROVE i \in a .. b
      BY <1>0, <2>1, <3>1 DEF Span
    <3>2. ASSUME NEW i \in a .. b PROVE i \in E
      <4>1. i \in 1 .. Len(t) /\ a \in 1 .. i /\ b \in i .. Len(t)
        BY <1>0, <2>1 DEF Span
      <4> QED BY <2>1, <4>1 DEF Span
    <3> HIDE DEF E
    <3> QED BY <3>1, <3>2
  <2>3. Cardinality(a .. b) = b - a + 1
    <3>1. a \in Int /\ b \in Int /\ ~(a > b)
      BY <2>1 DEF Span
    <3> QED BY <3>1, FS_Interval
  <2> QED BY <1>1, <2>1, <2>2, <2>3 DEF Span
<1> QED BY <1>2, <1>3

-----------------------------------------------------------------------------
(* Lines, by position *)

\* The newlines up to a position.
Newlines(t, i) == {j \in 1 .. i : t[j] = "newline"}

LEMMA OnLineIs ==
  ASSUME NEW t \in Text, NEW k
  PROVE  OnLine(t, k) = {i \in 1 .. Len(t) : /\ t[i] # "newline"
                                             /\ Cardinality(Newlines(t, i)) = k - 1}
BY InkedIsDomain DEF OnLine, Newlines

LEMMA NewlinesCount ==
  ASSUME NEW t \in Text, NEW i \in 0 .. Len(t)
  PROVE  /\ IsFiniteSet(Newlines(t, i)) /\ Cardinality(Newlines(t, i)) \in Nat
         /\ Cardinality(Newlines(t, i)) <= Cardinality(Newlines(t, Len(t)))
         /\ Cardinality(Newlines(t, i)) <= i
<1>0. Len(t) \in Nat
  BY InkedIsDomain
<1>1. ASSUME NEW n \in Nat
      PROVE  IsFiniteSet(Newlines(t, n)) /\ Cardinality(Newlines(t, n)) <= n
  <2>1. IsFiniteSet(1 .. n) /\ Cardinality(1 .. n) = n
    <3>1. 1 \in Int /\ n \in Int /\ (1 > n <=> n = 0)
      OBVIOUS
    <3> QED BY <3>1, FS_Interval
  <2>2. Newlines(t, n) \in SUBSET (1 .. n)
    BY DEF Newlines
  <2> QED BY <2>1, <2>2, FS_Subset
<1>2. i \in Nat
  BY <1>0
<1>3. Newlines(t, i) \in SUBSET Newlines(t, Len(t))
  BY <1>0 DEF Newlines
<1>4. IsFiniteSet(Newlines(t, Len(t))) /\ IsFiniteSet(Newlines(t, i))
  BY <1>0, <1>1, <1>2
<1>5. Cardinality(Newlines(t, i)) <= Cardinality(Newlines(t, Len(t)))
  BY <1>3, <1>4, FS_Subset
<1> QED BY <1>1, <1>2, <1>4, <1>5, FS_CardinalityType

\* One character more.
LEMMA NewlinesGrow ==
  ASSUME NEW t \in Text, NEW c \in Chars
  PROVE  LET u == Append(t, c)
         IN  /\ \A i \in 0 .. Len(t) : Newlines(u, i) = Newlines(t, i)
             /\ Cardinality(Newlines(u, Len(u))) =
                  IF c = "newline" THEN Cardinality(Newlines(t, Len(t))) + 1
                  ELSE Cardinality(Newlines(t, Len(t)))
<1> DEFINE u == Append(t, c)
<1>1. /\ u \in Text /\ Len(t) \in Nat /\ Len(u) = Len(t) + 1 /\ u[Len(t) + 1] = c
      /\ \A i \in 1 .. Len(t) : u[i] = t[i]
  BY AppendProperties, LenProperties DEF Text
<1> HIDE DEF u
<1>2. ASSUME NEW i \in 0 .. Len(t) PROVE Newlines(u, i) = Newlines(t, i)
  BY <1>1 DEF Newlines
<1>3. IsFiniteSet(Newlines(t, Len(t))) /\ Len(t) + 1 \notin Newlines(t, Len(t))
  <2>1. Len(t) \in 0 .. Len(t)
    BY <1>1
  <2>2. Len(t) + 1 \notin Newlines(t, Len(t))
    BY <1>1 DEF Newlines
  <2> QED BY <2>1, <2>2, NewlinesCount
<1>4. CASE c = "newline"
  <2>1. Newlines(u, Len(u)) = Newlines(t, Len(t)) \cup {Len(t) + 1}
    BY <1>1, <1>4 DEF Newlines
  <2>2. Cardinality(Newlines(u, Len(u))) = Cardinality(Newlines(t, Len(t))) + 1
    BY <1>3, <2>1, FS_AddElement
  <2> QED BY <1>2, <1>4, <2>2 DEF u
<1>5. CASE c # "newline"
  <2>1. Newlines(u, Len(u)) = Newlines(t, Len(t))
    BY <1>1, <1>5 DEF Newlines
  <2> QED BY <1>2, <1>5, <2>1 DEF u
<1> QED BY <1>4, <1>5

\* No character is on a line past the last newline's.
LEMMA NoMoreLines ==
  ASSUME NEW t \in Text, NEW k \in Nat, k > Cardinality(Newlines(t, Len(t))) + 1
  PROVE  OnLine(t, k) = {}
<1> SUFFICES ASSUME NEW i \in OnLine(t, k) PROVE FALSE
  OBVIOUS
<1>1. i \in 0 .. Len(t) /\ Cardinality(Newlines(t, i)) = k - 1
  BY OnLineIs
<1>2. Cardinality(Newlines(t, i)) <= Cardinality(Newlines(t, Len(t)))
  BY <1>1, NewlinesCount
<1>3. Len(t) \in 0 .. Len(t)
  BY InkedIsDomain
<1>4. Cardinality(Newlines(t, Len(t))) \in Nat
  BY <1>3, NewlinesCount
<1> QED BY <1>1, <1>2, <1>4

\* Where a character that ends a text is.
LEMMA OnLineGrows ==
  ASSUME NEW t \in Text, NEW c \in Chars, NEW k \in Nat
  PROVE  OnLine(Append(t, c), k) =
           IF c # "newline" /\ Cardinality(Newlines(t, Len(t))) = k - 1
           THEN OnLine(t, k) \cup {Len(t) + 1} ELSE OnLine(t, k)
<1> DEFINE u == Append(t, c)
<1>1. /\ u \in Text /\ Len(t) \in Nat /\ Len(u) = Len(t) + 1 /\ u[Len(t) + 1] = c
      /\ \A i \in 1 .. Len(t) : u[i] = t[i]
  BY AppendProperties, LenProperties DEF Text
<1>2. /\ \A i \in 0 .. Len(t) : Newlines(u, i) = Newlines(t, i)
      /\ Cardinality(Newlines(u, Len(u))) =
           IF c = "newline" THEN Cardinality(Newlines(t, Len(t))) + 1
           ELSE Cardinality(Newlines(t, Len(t)))
  BY NewlinesGrow
<1>3. OnLine(u, k) = {i \in 1 .. Len(u) : u[i] # "newline" /\ Cardinality(Newlines(u, i)) = k - 1}
  BY <1>1, OnLineIs
<1>4. OnLine(t, k) = {i \in 1 .. Len(t) : t[i] # "newline" /\ Cardinality(Newlines(t, i)) = k - 1}
  BY OnLineIs
<1> HIDE DEF u
<1>5. ASSUME NEW i \in 1 .. Len(t) PROVE i \in OnLine(u, k) <=> i \in OnLine(t, k)
  <2>1. i \in 0 .. Len(t) /\ i \in 1 .. Len(u)
    BY <1>1
  <2> QED BY <1>1, <1>2, <1>3, <1>4, <2>1
<1>6. Len(u) \in OnLine(u, k) <=> c # "newline" /\ Cardinality(Newlines(t, Len(t))) = k - 1
  BY <1>1, <1>2, <1>3
<1>7. OnLine(u, k) \subseteq 1 .. Len(t) + 1 /\ OnLine(t, k) \subseteq 1 .. Len(t)
  BY <1>1, <1>3, <1>4
<1>8. OnLine(u, k) = IF c # "newline" /\ Cardinality(Newlines(t, Len(t))) = k - 1
                     THEN OnLine(t, k) \cup {Len(t) + 1} ELSE OnLine(t, k)
  BY <1>1, <1>5, <1>6, <1>7
<1> QED BY <1>8 DEF u

\* Line k is the characters on line k, in their order.
Laid(t, lines, at) ==
  /\ at \in [1 .. Len(lines) -> Nat]
  /\ Len(lines) = Cardinality(Newlines(t, Len(t))) + 1
  /\ at[Len(lines)] + Len(lines[Len(lines)]) = Len(t)
  /\ \A k \in 1 .. Len(lines) :
       /\ OnLine(t, k) = at[k] + 1 .. at[k] + Len(lines[k])
       /\ \A p \in 1 .. Len(lines[k]) : lines[k][p] = t[at[k] + p]

LEMMA LinesAreLaid ==
  ASSUME NEW t \in Text
  PROVE  \E at : Laid(t, Lines(t), at)
<1> DEFINE S == {u \in Text : \E at : Laid(u, Lines(u), at)}
<1>1. <<>> \in S
  <2> DEFINE none == <<>>
             one == << <<>> >>
             at == [k \in 1 .. 1 |-> 0]
  <2>1. none \in Text /\ Len(none) = 0 /\ Lines(none) = one /\ Len(one) = 1 /\ one[1] = none
    BY NoLines DEF Text
  <2> HIDE DEF none, one
  <2>2. Newlines(none, Len(none)) = {}
    BY <2>1 DEF Newlines
  <2>3. Cardinality(Newlines(none, Len(none))) = 0
    BY <2>2, FS_EmptySet
  <2>4. OnLine(none, 1) = {}
    BY <2>1, OnLineIs
  <2>5. at \in [1 .. 1 -> Nat] /\ at[1] = 0
    OBVIOUS
  <2> HIDE DEF at
  <2>6. Laid(none, one, at)
    <3>1. at[Len(one)] + Len(one[Len(one)]) = Len(none)
      BY <2>1, <2>5
    <3>2. at[1] + 1 .. at[1] + Len(one[1]) = {} /\ 1 .. Len(one[1]) = {}
      BY <2>1, <2>5
    <3>3. \A k \in 1 .. Len(one) : k = 1
      BY <2>1
    <3>4. \A k \in 1 .. Len(one) :
            /\ OnLine(none, k) = at[k] + 1 .. at[k] + Len(one[k])
            /\ \A p \in 1 .. Len(one[k]) : one[k][p] = none[at[k] + p]
      BY <2>4, <3>2, <3>3
    <3>5. Len(one) = Cardinality(Newlines(none, Len(none))) + 1
      BY <2>1, <2>3
    <3>6. at \in [1 .. Len(one) -> Nat]
      BY <2>1, <2>5
    <3> QED BY <3>1, <3>4, <3>5, <3>6 DEF Laid
  <2> QED BY <2>1, <2>6 DEF none
<1>2. ASSUME NEW u \in Text, u \in S, NEW c \in Chars PROVE Append(u, c) \in S
  <2> DEFINE v == Append(u, c)
             lines == Lines(u)
             n == Len(lines)
             N == Len(u)
  <2>1. /\ v \in Text /\ N \in Nat /\ Len(v) = N + 1 /\ v[N + 1] = c
        /\ \A i \in 1 .. N : v[i] = u[i]
    BY AppendProperties, LenProperties DEF Text
  <2>2. Lines(v) = NextLines(lines, c)
    BY LinesGrow
  <2>3. /\ lines \in Seq(Text) /\ n \in Nat \ {0} /\ n \in 1 .. n /\ lines[n] \in Text
        /\ \A k \in 1 .. n : lines[k] \in Text /\ Len(lines[k]) \in Nat
    <3>1. lines \in Pages
      BY LinesTyped
    <3>2. /\ lines \in Seq(Text) /\ n \in Nat \ {0} /\ n \in 1 .. n /\ lines[n] \in Text
      BY <3>1, LineOfPage
    <3>3. \A k \in 1 .. n : lines[k] \in Text
      BY <3>2, ElementOfSeq
    <3>4. \A w \in Text : Len(w) \in Nat
      BY LenProperties DEF Text
    <3> QED BY <3>2, <3>3, <3>4
  <2>4. PICK at : Laid(u, lines, at)
    BY <1>2
  <2>5. Cardinality(Newlines(v, Len(v))) =
          IF c = "newline" THEN Cardinality(Newlines(u, N)) + 1 ELSE Cardinality(Newlines(u, N))
    BY NewlinesGrow
  <2>6. \A k \in Nat : OnLine(v, k) = IF c # "newline" /\ Cardinality(Newlines(u, N)) = k - 1
                                      THEN OnLine(u, k) \cup {N + 1} ELSE OnLine(u, k)
    BY OnLineGrows
  <2>7. Cardinality(Newlines(u, N)) = n - 1
    <3>1. Cardinality(Newlines(u, N)) \in Nat
      <4>1. N \in 0 .. N
        BY <2>1
      <4> QED BY <4>1, NewlinesCount
    <3> QED BY <2>3, <2>4, <3>1 DEF Laid
  <2>8. /\ at \in [1 .. n -> Nat] /\ at[n] + Len(lines[n]) = N
        /\ \A k \in 1 .. n : OnLine(u, k) = at[k] + 1 .. at[k] + Len(lines[k])
        /\ \A k \in 1 .. n : \A p \in 1 .. Len(lines[k]) : lines[k][p] = u[at[k] + p]
    BY <2>4 DEF Laid
  <2>9. \A k \in 1 .. n : \A p \in 1 .. Len(lines[k]) : at[k] + p \in 1 .. N
    <3> SUFFICES ASSUME NEW k \in 1 .. n, NEW p \in 1 .. Len(lines[k]) PROVE at[k] + p \in 1 .. N
      OBVIOUS
    <3>1. at[k] + p \in OnLine(u, k)
      <4>1. OnLine(u, k) = at[k] + 1 .. at[k] + Len(lines[k]) /\ at[k] \in Nat
        BY <2>8
      <4>2. Len(lines[k]) \in Nat
        BY <2>3
      <4> HIDE DEF lines, n
      <4> QED BY <4>1, <4>2
    <3> QED BY <3>1, OnLineIs
  <2>10. n + 1 > Cardinality(Newlines(u, N)) + 1 /\ n + 1 \in Nat
    BY <2>3, <2>7
  <2>11. OnLine(u, n + 1) = {}
    BY <2>10, NoMoreLines
  <2>12. CASE c = "newline"
    <3> DEFINE more == Append(lines, <<>>)
               next == [k \in 1 .. n + 1 |-> IF k = n + 1 THEN N + 1 ELSE at[k]]
    <3>1. <<>> \in Text /\ Len(<<>>) = 0
      BY DEF Text
    <3>2. /\ Len(more) = n + 1 /\ more[n + 1] = <<>> /\ \A k \in 1 .. n : more[k] = lines[k]
      BY <2>3, <3>1, AppendProperties
    <3>3. Lines(v) = more
      BY <2>2, <2>12 DEF NextLines
    <3>4. /\ next \in [1 .. n + 1 -> Nat] /\ next[n + 1] = N + 1
          /\ \A k \in 1 .. n : next[k] = at[k]
      BY <2>1, <2>3, <2>8
    <3> HIDE DEF more, next, v, lines, n, N
    <3>5. Len(more) = Cardinality(Newlines(v, Len(v))) + 1
      BY <2>3, <2>5, <2>7, <2>12, <3>2
    <3>6. next[Len(more)] + Len(more[Len(more)]) = Len(v)
      BY <2>1, <3>1, <3>2, <3>4
    <3>7. ASSUME NEW k \in 1 .. Len(more)
          PROVE  /\ OnLine(v, k) = next[k] + 1 .. next[k] + Len(more[k])
                 /\ \A p \in 1 .. Len(more[k]) : more[k][p] = v[next[k] + p]
      <4>1. CASE k \in 1 .. n
        <5>1. OnLine(v, k) = OnLine(u, k)
          BY <2>3, <2>6, <2>12, <4>1
        <5>2. more[k] = lines[k] /\ next[k] = at[k]
          BY <3>2, <3>4, <4>1
        <5>3. OnLine(u, k) = at[k] + 1 .. at[k] + Len(lines[k])
          BY <2>8, <4>1
        <5>4. \A p \in 1 .. Len(lines[k]) : lines[k][p] = v[at[k] + p]
          BY <2>1, <2>8, <2>9, <4>1
        <5> QED BY <5>1, <5>2, <5>3, <5>4
      <4>2. CASE k = n + 1
        <5>1. OnLine(v, k) = {}
          BY <2>3, <2>6, <2>11, <2>12, <4>2
        <5>2. next[k] + 1 .. next[k] + Len(more[k]) = {} /\ 1 .. Len(more[k]) = {}
          BY <2>1, <3>1, <3>2, <3>4, <4>2
        <5> QED BY <5>1, <5>2
      <4> QED BY <2>3, <3>2, <3>7, <4>1, <4>2
    <3>8. Laid(v, more, next)
      BY <3>2, <3>4, <3>5, <3>6, <3>7 DEF Laid
    <3> QED BY <2>1, <3>3, <3>8 DEF v
  <2>13. CASE c # "newline"
    <3> DEFINE last == Append(lines[n], c)
               more == [lines EXCEPT ![n] = last]
    <3>1. /\ last \in Text /\ Len(last) = Len(lines[n]) + 1 /\ last[Len(lines[n]) + 1] = c
          /\ \A p \in 1 .. Len(lines[n]) : last[p] = lines[n][p]
      BY <2>3, AppendProperties DEF Text
    <3>2. Lines(v) = more
      BY <2>2, <2>3, <2>13 DEF NextLines
    <3> HIDE DEF last
    <3>3. Len(more) = n /\ \A k \in 1 .. n : more[k] = IF k = n THEN last ELSE lines[k]
      <4> HIDE DEF lines
      <4>1. Len([lines EXCEPT ![n] = last]) = Len(lines)
            /\ \A k \in 1 .. Len(lines) : [lines EXCEPT ![n] = last][k] = IF k = n THEN last ELSE lines[k]
        BY <2>3, <3>1, ExceptSeq
      <4> QED BY <4>1
    <3> HIDE DEF more, v, lines, n, N
    <3>4. Len(more) = Cardinality(Newlines(v, Len(v))) + 1
      BY <2>3, <2>5, <2>7, <2>13, <3>3
    <3>5. at[Len(more)] + Len(more[Len(more)]) = Len(v)
      <4>1. more[n] = last
        BY <2>3, <3>3
      <4>2. at[n] \in Nat /\ Len(lines[n]) \in Nat /\ at[n] + Len(lines[n]) = N
        BY <2>3, <2>8
      <4>3. Len(last) = Len(lines[n]) + 1 /\ Len(v) = N + 1 /\ Len(more) = n
        BY <2>1, <3>1, <3>3
      <4>4. at[n] + Len(last) = Len(v)
        BY <4>2, <4>3
      <4> QED BY <4>1, <4>3, <4>4
    <3>6. ASSUME NEW k \in 1 .. n
          PROVE  /\ OnLine(v, k) = at[k] + 1 .. at[k] + Len(more[k])
                 /\ \A p \in 1 .. Len(more[k]) : more[k][p] = v[at[k] + p]
      <4>1. CASE k # n
        <5>1. OnLine(v, k) = OnLine(u, k)
          BY <2>3, <2>6, <2>7, <4>1
        <5>2. more[k] = lines[k]
          BY <3>3, <4>1
        <5>3. OnLine(u, k) = at[k] + 1 .. at[k] + Len(lines[k])
          BY <2>8
        <5>4. \A p \in 1 .. Len(lines[k]) : lines[k][p] = v[at[k] + p]
          BY <2>1, <2>8, <2>9
        <5> QED BY <5>1, <5>2, <5>3, <5>4
      <4>2. CASE k = n
        <5>1. OnLine(v, n) = OnLine(u, n) \cup {N + 1}
          BY <2>3, <2>6, <2>7, <2>13
        <5>2. OnLine(u, n) = at[n] + 1 .. N /\ at[n] \in Nat /\ Len(lines[n]) \in Nat
          <6>1. OnLine(u, n) = at[n] + 1 .. at[n] + Len(lines[n])
            BY <2>3, <2>8
          <6>2. at[n] + Len(lines[n]) = N
            BY <2>8
          <6>3. at[n] \in Nat /\ Len(lines[n]) \in Nat
            BY <2>3, <2>8
          <6> QED BY <6>1, <6>2, <6>3
        <5>3. at[n] + Len(last) = N + 1
          BY <2>8, <3>1, <5>2
        <5>4. at[n] + 1 .. N + 1 = (at[n] + 1 .. N) \cup {N + 1}
          <6>1. at[n] <= N
            BY <2>8, <5>2
          <6> QED BY <2>1, <5>2, <6>1
        <5>5. ASSUME NEW p \in 1 .. Len(last) PROVE last[p] = v[at[n] + p]
          <6>1. CASE p \in 1 .. Len(lines[n])
            BY <2>1, <2>3, <2>8, <2>9, <3>1, <6>1
          <6>2. CASE p = Len(lines[n]) + 1
            BY <2>1, <2>8, <3>1, <5>3, <6>2
          <6> QED BY <3>1, <5>2, <6>1, <6>2
        <5>6. more[n] = last
          BY <2>3, <3>3
        <5> QED BY <4>2, <5>1, <5>2, <5>3, <5>4, <5>5, <5>6
      <4> QED BY <4>1, <4>2
    <3>7. Laid(v, more, at)
      BY <2>8, <3>3, <3>4, <3>5, <3>6 DEF Laid
    <3> QED BY <2>1, <3>2, <3>7 DEF v
  <2> QED BY <2>12, <2>13
<1> HIDE DEF S
<1>3. Seq(Chars) \subseteq S
  BY <1>1, <1>2, AllSequences DEF Text
<1> QED BY <1>3 DEF S, Text

-----------------------------------------------------------------------------
(* Services, by position *)

\* The lines with something on them.
Written(lines) == {k \in 1 .. Len(lines) : Trim(lines[k]) # <<>>}

\* Some line is longer than max, when it is trimmed.
SomeLong(lines, max) == \E k \in 1 .. Len(lines) : Len(Trim(lines[k])) > max

Counted(lines) == /\ IsFiniteSet(Written(lines))
                  /\ Len(Trimmed(lines)) = Cardinality(Written(lines))

LongKept(lines, max) ==
  (\E k \in 1 .. Len(Trimmed(lines)) : Len(Trimmed(lines)[k]) > max) <=> SomeLong(lines, max)

LEMMA ServicesAreCounted ==
  ASSUME NEW lines \in Seq(Text)
  PROVE  Counted(lines)
<1> DEFINE S == {ls \in Seq(Text) : Counted(ls)}
<1>1. <<>> \in S
  <2> DEFINE none == <<>>
  <2>1. none \in Seq(Text) /\ Len(none) = 0 /\ Trimmed(none) = none
    BY NoServices
  <2> HIDE DEF none
  <2>2. Written(none) = {}
    BY <2>1 DEF Written
  <2>3. Counted(none)
    BY <2>1, <2>2, FS_EmptySet DEF Counted
  <2> QED BY <2>1, <2>3 DEF none
<1>2. ASSUME NEW ls \in Seq(Text), ls \in S, NEW line \in Text PROVE Append(ls, line) \in S
  <2> DEFINE more == Append(ls, line)
  <2>1. /\ more \in Seq(Text) /\ Len(ls) \in Nat /\ Len(more) = Len(ls) + 1
        /\ more[Len(ls) + 1] = line /\ \A k \in 1 .. Len(ls) : more[k] = ls[k]
    BY OneMore
  <2>2. Trimmed(more) = Keep(Trimmed(ls), line) /\ Trimmed(ls) \in Seq(Text)
    BY ServicesGrow, ServicesTyped
  <2>3. IsFiniteSet(Written(ls)) /\ Len(Trimmed(ls)) = Cardinality(Written(ls))
    BY <1>2 DEF Counted
  <2> HIDE DEF more
  <2>4. CASE Trim(line) = <<>>
    <3>1. Written(more) = Written(ls)
      BY <2>1, <2>4 DEF Written
    <3>2. Trimmed(more) = Trimmed(ls)
      BY <2>2, <2>4 DEF Keep
    <3> QED BY <2>1, <2>3, <3>1, <3>2 DEF Counted, more
  <2>5. CASE Trim(line) # <<>>
    <3>1. Written(more) = Written(ls) \cup {Len(ls) + 1}
      BY <2>1, <2>5 DEF Written
    <3>2. Trimmed(more) = Append(Trimmed(ls), Trim(line)) /\ Trim(line) \in Text
      BY <2>2, <2>5, TrimShape DEF Keep
    <3>3. Len(Trimmed(more)) = Len(Trimmed(ls)) + 1
      BY <2>2, <3>2, OneMore
    <3>4. Len(ls) + 1 \notin Written(ls)
      BY <2>1 DEF Written
    <3>5. IsFiniteSet(Written(more)) /\ Cardinality(Written(more)) = Cardinality(Written(ls)) + 1
      BY <2>3, <3>1, <3>4, FS_AddElement
    <3> QED BY <2>1, <2>3, <3>3, <3>5 DEF Counted, more
  <2> QED BY <2>4, <2>5
<1> HIDE DEF S
<1>3. Seq(Text) \subseteq S
  BY <1>1, <1>2, AllSequences
<1> QED BY <1>3 DEF S

LEMMA LongStaysLong ==
  ASSUME NEW lines \in Seq(Text), NEW max \in Nat
  PROVE  LongKept(lines, max)
<1> DEFINE S == {ls \in Seq(Text) : LongKept(ls, max)}
<1>1. <<>> \in S
  <2> DEFINE none == <<>>
  <2>1. none \in Seq(Text) /\ Len(none) = 0 /\ Trimmed(none) = none
    BY NoServices
  <2> HIDE DEF none
  <2>2. LongKept(none, max)
    BY <2>1 DEF LongKept, SomeLong
  <2> QED BY <2>1, <2>2 DEF none
<1>2. ASSUME NEW ls \in Seq(Text), ls \in S, NEW line \in Text PROVE Append(ls, line) \in S
  <2> DEFINE more == Append(ls, line)
  <2>1. /\ more \in Seq(Text) /\ Len(ls) \in Nat /\ Len(more) = Len(ls) + 1
        /\ more[Len(ls) + 1] = line /\ \A k \in 1 .. Len(ls) : more[k] = ls[k]
    BY OneMore
  <2>2. Trimmed(more) = Keep(Trimmed(ls), line) /\ Trimmed(ls) \in Seq(Text)
    BY ServicesGrow, ServicesTyped
  <2>3. LongKept(ls, max)
    BY <1>2
  <2> HIDE DEF more
  <2>4. SomeLong(more, max) <=> SomeLong(ls, max) \/ Len(Trim(line)) > max
    <3>1. /\ \A k \in 1 .. Len(more) : k \in 1 .. Len(ls) \/ k = Len(ls) + 1
          /\ \A k \in 1 .. Len(ls) : k \in 1 .. Len(more)
          /\ Len(ls) + 1 \in 1 .. Len(more)
      BY <2>1
    <3>2. ASSUME NEW k \in 1 .. Len(more), Len(Trim(more[k])) > max
          PROVE  SomeLong(ls, max) \/ Len(Trim(line)) > max
      BY <2>1, <3>1, <3>2 DEF SomeLong
    <3>3. ASSUME NEW k \in 1 .. Len(ls), Len(Trim(ls[k])) > max PROVE SomeLong(more, max)
      BY <2>1, <3>1, <3>3 DEF SomeLong
    <3>4. ASSUME Len(Trim(line)) > max PROVE SomeLong(more, max)
      BY <2>1, <3>1, <3>4 DEF SomeLong
    <3> QED BY <3>2, <3>3, <3>4 DEF SomeLong
  <2>5. CASE Trim(line) = <<>>
    <3>1. Trimmed(more) = Trimmed(ls)
      BY <2>2, <2>5 DEF Keep
    <3>2. ~(Len(Trim(line)) > max)
      <4>1. Len(Trim(line)) = 0
        BY <2>5, NoInk
      <4> QED BY <4>1
    <3> QED BY <2>1, <2>3, <2>4, <3>1, <3>2 DEF LongKept, more
  <2>6. CASE Trim(line) # <<>>
    <3> DEFINE kept == Trimmed(ls)
               now == Trimmed(more)
    <3>1. now = Append(kept, Trim(line)) /\ Trim(line) \in Text
      BY <2>2, <2>6, TrimShape DEF Keep
    <3>2. /\ Len(kept) \in Nat /\ Len(now) = Len(kept) + 1 /\ now[Len(kept) + 1] = Trim(line)
          /\ \A k \in 1 .. Len(kept) : now[k] = kept[k]
      BY <2>2, <3>1, OneMore
    <3>3. (\E k \in 1 .. Len(kept) : Len(kept[k]) > max) <=> SomeLong(ls, max)
      BY <2>3 DEF LongKept
    <3> HIDE DEF kept, now
    <3>4. (\E k \in 1 .. Len(now) : Len(now[k]) > max)
            <=> (\E k \in 1 .. Len(kept) : Len(kept[k]) > max) \/ Len(Trim(line)) > max
      <4>1. /\ \A k \in 1 .. Len(now) : k \in 1 .. Len(kept) \/ k = Len(kept) + 1
            /\ \A k \in 1 .. Len(kept) : k \in 1 .. Len(now)
            /\ Len(kept) + 1 \in 1 .. Len(now)
        BY <3>2
      <4>2. ASSUME NEW k \in 1 .. Len(now), Len(now[k]) > max
            PROVE  (\E m \in 1 .. Len(kept) : Len(kept[m]) > max) \/ Len(Trim(line)) > max
        BY <3>2, <4>1, <4>2
      <4>3. ASSUME NEW k \in 1 .. Len(kept), Len(kept[k]) > max
            PROVE  \E m \in 1 .. Len(now) : Len(now[m]) > max
        BY <3>2, <4>1, <4>3
      <4>4. ASSUME Len(Trim(line)) > max PROVE \E m \in 1 .. Len(now) : Len(now[m]) > max
        BY <3>2, <4>1, <4>4
      <4> QED BY <4>2, <4>3, <4>4
    <3>5. (\E k \in 1 .. Len(now) : Len(now[k]) > max) <=> SomeLong(more, max)
      BY <2>4, <3>3, <3>4
    <3>6. LongKept(more, max)
      BY <3>5 DEF LongKept, now
    <3> QED BY <2>1, <3>6 DEF more
  <2> QED BY <2>5, <2>6
<1> HIDE DEF S
<1>3. Seq(Text) \subseteq S
  BY <1>1, <1>2, AllSequences
<1> QED BY <1>3 DEF S

\* A line has something on it where something on it is visible.
LEMMA ListedAreWritten ==
  ASSUME NEW t \in Text
  PROVE  Listed(t) = Written(Lines(t))
<1> DEFINE lines == Lines(t)
           n == Len(lines)
<1>1. PICK at : Laid(t, lines, at)
  BY LinesAreLaid
<1>2. /\ lines \in Seq(Text) /\ n \in Nat \ {0}
      /\ \A k \in 1 .. n : lines[k] \in Text
  <2>1. lines \in Pages
    BY LinesTyped
  <2> QED BY <2>1, LineOfPage, ElementOfSeq
<1>3. /\ at \in [1 .. n -> Nat] /\ n = Cardinality(Newlines(t, Len(t))) + 1
      /\ \A k \in 1 .. n : OnLine(t, k) = at[k] + 1 .. at[k] + Len(lines[k])
      /\ \A k \in 1 .. n : \A p \in 1 .. Len(lines[k]) : lines[k][p] = t[at[k] + p]
  BY <1>1 DEF Laid
<1>4. Len(t) \in Nat /\ Len(t) \in 0 .. Len(t)
  BY InkedIsDomain
<1>5. n \in 1 .. Len(t) + 1
  <2>1. /\ Cardinality(Newlines(t, Len(t))) \in Nat
        /\ Cardinality(Newlines(t, Len(t))) <= Len(t)
    BY <1>4, NewlinesCount
  <2> QED BY <1>3, <1>4, <2>1
<1>6. ASSUME NEW k \in 1 .. Len(t) + 1, k > n PROVE OnLine(t, k) = {}
  BY <1>3, <1>6, NoMoreLines
<1>7. ASSUME NEW k \in 1 .. n
      PROVE  (\E i \in OnLine(t, k) : Visible(t, i)) <=> Trim(lines[k]) # <<>>
  <2>1. lines[k] \in Text
    BY <1>2
  <2>2. Trim(lines[k]) # <<>> <=> \E p \in 1 .. Len(lines[k]) : Visible(lines[k], p)
    BY <2>1, NoInk
  <2>3. Len(lines[k]) \in Nat /\ at[k] \in Nat
    BY <1>3, <2>1, InkedIsDomain
  <2>4. OnLine(t, k) = at[k] + 1 .. at[k] + Len(lines[k])
    BY <1>3
  <2>5. \A p \in 1 .. Len(lines[k]) : Visible(lines[k], p) <=> Visible(t, at[k] + p)
    BY <1>3 DEF Visible
  <2> HIDE DEF lines, n
  <2>6. ASSUME NEW i \in OnLine(t, k), Visible(t, i)
        PROVE  \E p \in 1 .. Len(lines[k]) : Visible(lines[k], p)
    <3>1. i - at[k] \in 1 .. Len(lines[k]) /\ at[k] + (i - at[k]) = i
      BY <2>3, <2>4
    <3> QED BY <2>5, <2>6, <3>1
  <2>7. ASSUME NEW p \in 1 .. Len(lines[k]), Visible(lines[k], p)
        PROVE  \E i \in OnLine(t, k) : Visible(t, i)
    <3>1. at[k] + p \in OnLine(t, k)
      BY <2>3, <2>4
    <3> QED BY <2>5, <2>7, <3>1
  <2> QED BY <2>2, <2>6, <2>7
<1> HIDE DEF lines, n
<1>8. ASSUME NEW k \in Listed(t) PROVE k \in Written(lines)
  <2>1. k \in 1 .. Len(t) + 1 /\ \E i \in OnLine(t, k) : Visible(t, i)
    BY DEF Listed
  <2>2. ~(k > n)
    BY <1>6, <2>1
  <2>3. k \in 1 .. n
    BY <1>2, <2>1, <2>2
  <2> QED BY <1>7, <2>1, <2>3 DEF Written, n
<1>9. ASSUME NEW k \in Written(lines) PROVE k \in Listed(t)
  <2>1. k \in 1 .. n /\ Trim(lines[k]) # <<>>
    BY DEF Written, n
  <2>2. k \in 1 .. Len(t) + 1
    BY <1>2, <1>4, <1>5, <2>1
  <2> QED BY <1>7, <2>1, <2>2 DEF Listed
<1> QED BY <1>8, <1>9 DEF lines

\* Two visible characters that far apart, and no newline between them.
FarApart(t, max) ==
  \E i, j \in DOMAIN t : /\ j - i >= max /\ Visible(t, i) /\ Visible(t, j)
                         /\ \A k \in i .. j : t[k] # "newline"

LEMMA LongIsFarApart ==
  ASSUME NEW t \in Text, NEW max \in Nat
  PROVE  SomeLong(Lines(t), max) <=> FarApart(t, max)
<1> DEFINE lines == Lines(t)
           n == Len(lines)
<1>1. PICK at : Laid(t, lines, at)
  BY LinesAreLaid
<1>2. /\ lines \in Seq(Text) /\ n \in Nat \ {0}
      /\ \A k \in 1 .. n : lines[k] \in Text
  <2>1. lines \in Pages
    BY LinesTyped
  <2> QED BY <2>1, LineOfPage, ElementOfSeq
<1>3. /\ at \in [1 .. n -> Nat] /\ n = Cardinality(Newlines(t, Len(t))) + 1
      /\ \A k \in 1 .. n : OnLine(t, k) = at[k] + 1 .. at[k] + Len(lines[k])
      /\ \A k \in 1 .. n : \A p \in 1 .. Len(lines[k]) : lines[k][p] = t[at[k] + p]
  BY <1>1 DEF Laid
<1>4. Len(t) \in Nat /\ Len(t) \in 0 .. Len(t) /\ DOMAIN t = 1 .. Len(t)
  BY InkedIsDomain
<1>5. \A k \in 1 .. n : Len(lines[k]) \in Nat /\ at[k] \in Nat
  BY <1>2, <1>3, InkedIsDomain
<1>6. \A k \in 1 .. n : \A p \in 1 .. Len(lines[k]) :
        /\ at[k] + p \in 1 .. Len(t) /\ t[at[k] + p] # "newline"
        /\ Visible(lines[k], p) <=> Visible(t, at[k] + p)
  <2> SUFFICES ASSUME NEW k \in 1 .. n, NEW p \in 1 .. Len(lines[k])
               PROVE  /\ at[k] + p \in 1 .. Len(t) /\ t[at[k] + p] # "newline"
                      /\ Visible(lines[k], p) <=> Visible(t, at[k] + p)
    OBVIOUS
  <2>1. lines[k][p] = t[at[k] + p]
    BY <1>3
  <2>2. OnLine(t, k) = at[k] + 1 .. at[k] + Len(lines[k]) /\ Len(lines[k]) \in Nat /\ at[k] \in Nat
    BY <1>3, <1>5
  <2> HIDE DEF lines, n
  <2>3. at[k] + p \in OnLine(t, k)
    BY <2>2
  <2> QED BY <2>1, <2>3, OnLineIs DEF Visible
<1> HIDE DEF lines, n
<1>7. ASSUME NEW k \in 1 .. n, Len(Trim(lines[k])) > max PROVE FarApart(t, max)
  <2>1. lines[k] \in Text /\ Inked(lines[k]) # {}
    <3>1. lines[k] \in Text
      BY <1>2
    <3>2. Len(Trim(lines[k])) # 0
      BY <1>7
    <3> QED BY <3>1, <3>2, NoInk
  <2>2. PICK a \in Nat, b \in Nat : Span(lines[k], a, b)
    BY <2>1, TrimSpans
  <2>3. /\ a \in 1 .. Len(lines[k]) /\ b \in 1 .. Len(lines[k]) /\ a <= b
        /\ Visible(lines[k], a) /\ Visible(lines[k], b) /\ Len(Trim(lines[k])) = b - a + 1
    BY <2>2 DEF Span
  <2>4. /\ at[k] + a \in DOMAIN t /\ at[k] + b \in DOMAIN t
        /\ Visible(t, at[k] + a) /\ Visible(t, at[k] + b)
    BY <1>4, <1>6, <2>3
  <2>5. Len(lines[k]) \in Nat /\ at[k] \in Nat
    BY <1>5
  <2>6. (at[k] + b) - (at[k] + a) >= max
    BY <1>7, <2>3, <2>5
  <2>7. ASSUME NEW i \in at[k] + a .. at[k] + b PROVE t[i] # "newline"
    <3> DEFINE p == i - at[k]
    <3>1. p \in a .. b /\ at[k] + p = i
      BY <2>5
    <3>2. a \in 1 .. Len(lines[k]) /\ b \in 1 .. Len(lines[k])
      BY <2>3
    <3> HIDE DEF p
    <3>3. p \in 1 .. Len(lines[k])
      BY <2>5, <3>1, <3>2
    <3> QED BY <1>6, <3>1, <3>3
  <2> QED BY <2>4, <2>6, <2>7 DEF FarApart
<1>8. ASSUME FarApart(t, max) PROVE \E k \in 1 .. n : Len(Trim(lines[k])) > max
  <2>1. PICK i \in 1 .. Len(t), j \in 1 .. Len(t) :
          /\ j - i >= max /\ Visible(t, i) /\ Visible(t, j) /\ \A k \in i .. j : t[k] # "newline"
    BY <1>4, <1>8 DEF FarApart
  <2>2. i <= j /\ i \in 0 .. Len(t) /\ i \in i .. j /\ j \in i .. j
    BY <1>4, <2>1
  <2>3. Newlines(t, j) = Newlines(t, i)
    BY <2>1, <2>2 DEF Newlines
  <2> DEFINE k == Cardinality(Newlines(t, i)) + 1
  <2>4. k \in 1 .. n
    <3>1. /\ Cardinality(Newlines(t, i)) \in Nat
          /\ Cardinality(Newlines(t, i)) <= Cardinality(Newlines(t, Len(t)))
      BY <2>2, NewlinesCount
    <3>2. n = Cardinality(Newlines(t, Len(t))) + 1 /\ n \in Nat
      BY <1>2, <1>3
    <3>3. Cardinality(Newlines(t, Len(t))) \in Nat
      BY <1>4, NewlinesCount
    <3> QED BY <3>1, <3>2, <3>3
  <2>5. k - 1 = Cardinality(Newlines(t, i))
    <3>1. Cardinality(Newlines(t, i)) \in Nat
      BY <2>2, NewlinesCount
    <3> QED BY <3>1
  <2> HIDE DEF k
  <2>6. i \in OnLine(t, k) /\ j \in OnLine(t, k)
    BY <2>1, <2>2, <2>3, <2>5, OnLineIs
  <2> DEFINE p == i - at[k]
             q == j - at[k]
  <2>7. Len(lines[k]) \in Nat /\ at[k] \in Nat /\ OnLine(t, k) = at[k] + 1 .. at[k] + Len(lines[k])
    BY <1>3, <1>5, <2>4
  <2>8. /\ p \in 1 .. Len(lines[k]) /\ q \in 1 .. Len(lines[k]) /\ q - p >= max
        /\ at[k] + p = i /\ at[k] + q = j
    <3>1. i \in at[k] + 1 .. at[k] + Len(lines[k]) /\ j \in at[k] + 1 .. at[k] + Len(lines[k])
      BY <2>6, <2>7
    <3>2. p \in 1 .. Len(lines[k]) /\ at[k] + p = i
      BY <2>7, <3>1
    <3>3. q \in 1 .. Len(lines[k]) /\ at[k] + q = j
      BY <2>7, <3>1
    <3>4. q - p >= max
      BY <2>1, <2>7
    <3> QED BY <3>2, <3>3, <3>4
  <2> HIDE DEF p, q
  <2>9. Visible(lines[k], p) /\ Visible(lines[k], q)
    BY <1>6, <2>1, <2>4, <2>8
  <2>10. lines[k] \in Text /\ Inked(lines[k]) # {}
    BY <1>2, <2>4, <2>8, <2>9, NoInk
  <2>11. PICK a \in Nat, b \in Nat : Span(lines[k], a, b)
    BY <2>10, TrimSpans
  <2>12. a <= p /\ q <= b /\ Len(Trim(lines[k])) = b - a + 1
    BY <2>8, <2>9, <2>11 DEF Span
  <2>13. Len(Trim(lines[k])) > max
    BY <2>7, <2>8, <2>12
  <2> QED BY <2>4, <2>13
<1> QED BY <1>7, <1>8 DEF SomeLong, lines, n

-----------------------------------------------------------------------------
(* Numbers and addresses, by position *)

NumberByPosition(t) ==
  /\ \A i \in DOMAIN t : t[i] \in White \cup {"digit", "dash", "dot"}
  /\ \A i \in DOMAIN t : t[i] = "newline" =>
       \/ \A j \in 1 .. i : ~Visible(t, j)
       \/ \A j \in i .. Len(t) : ~Visible(t, j)
  /\ Cardinality({i \in DOMAIN t : t[i] = "digit"}) >= PHONE_MIN_DIGITS

\* The digits are all in what is left after trimming.
LEMMA DigitsStay ==
  ASSUME NEW t \in Text, NEW a \in Nat, NEW b \in Nat, Span(t, a, b)
  PROVE  Cardinality({i \in DOMAIN Trim(t) : Trim(t)[i] = "digit"}) =
           Cardinality({i \in DOMAIN t : t[i] = "digit"})
<1> DEFINE s == Trim(t)
           S == {i \in 1 .. Len(s) : s[i] = "digit"}
           T == {i \in 1 .. Len(t) : t[i] = "digit"}
           f == [i \in T |-> i - a + 1]
<1>1. s \in Text /\ DOMAIN s = 1 .. Len(s) /\ DOMAIN t = 1 .. Len(t) /\ Len(t) \in Nat
  BY TrimShape, InkedIsDomain
<1>2. /\ a \in 1 .. Len(t) /\ b \in 1 .. Len(t) /\ a <= b /\ Len(s) = b - a + 1
      /\ \A i \in 1 .. b - a + 1 : s[i] = t[a + i - 1]
      /\ \A i \in 1 .. Len(t) : t[i] = "digit" => a <= i /\ i <= b
  BY DEF Span, Visible, White
<1> HIDE DEF s
<1>3. ASSUME NEW i \in T PROVE i - a + 1 \in S
  <2>1. i \in a .. b /\ i - a + 1 \in 1 .. b - a + 1 /\ a + (i - a + 1) - 1 = i
    BY <1>2
  <2> QED BY <1>2, <2>1
<1>4. ASSUME NEW k \in S PROVE a + k - 1 \in T /\ f[a + k - 1] = k
  <2>1. a + k - 1 \in 1 .. Len(t) /\ (a + k - 1) - a + 1 = k
    BY <1>1, <1>2
  <2> QED BY <1>2, <2>1
<1>5. f \in [T -> S] /\ \A i \in T : f[i] = i - a + 1
  BY <1>3
<1>6. T \subseteq Nat /\ S \subseteq Nat
  BY <1>1
<1> HIDE DEF S, T, f
<1>7. \A i, j \in T : f[i] = f[j] => i = j
  BY <1>5, <1>6
<1>8. \A k \in S : \E i \in T : f[i] = k
  BY <1>4
<1>9. f \in Bijection(T, S)
  BY <1>5, <1>7, <1>8 DEF Bijection, Injection, Surjection, IsInjective
<1>10. IsFiniteSet(T)
  <2>1. IsFiniteSet(1 .. Len(t))
    BY <1>1, FS_Interval
  <2>2. T \in SUBSET (1 .. Len(t))
    BY DEF T
  <2> QED BY <2>1, <2>2, FS_Subset
<1>11. ExistsBijection(T, S)
  BY <1>9 DEF ExistsBijection
<1>12. Cardinality(S) = Cardinality(T)
  BY <1>10, <1>11, FS_Bijection
<1>13. DOMAIN Trim(t) = 1 .. Len(Trim(t))
  BY <1>1 DEF s
<1> QED BY <1>1, <1>12, <1>13 DEF S, T, s

LEMMA NumberIsByPosition ==
  ASSUME NEW t \in Text, Inked(t) # {}
  PROVE  ShapedLikeANumber(Trim(t)) <=> NumberByPosition(t)
<1> DEFINE s == Trim(t)
           Signs == {"digit", "dash", "dot", "space"}
<1>1. s \in Text /\ DOMAIN s = 1 .. Len(s) /\ DOMAIN t = 1 .. Len(t) /\ Len(t) \in Nat
  BY TrimShape, InkedIsDomain
<1>2. PICK a \in Nat, b \in Nat : Span(t, a, b)
  BY TrimSpans
<1>3. /\ a \in 1 .. Len(t) /\ b \in 1 .. Len(t) /\ a <= b /\ Len(s) = b - a + 1
      /\ Visible(t, a) /\ Visible(t, b)
      /\ \A i \in 1 .. b - a + 1 : s[i] = t[a + i - 1]
      /\ \A i \in 1 .. Len(t) : Visible(t, i) => a <= i /\ i <= b
  BY <1>2 DEF Span
<1>4. Cardinality({i \in DOMAIN s : s[i] = "digit"}) = Cardinality({i \in DOMAIN t : t[i] = "digit"})
  BY <1>2, DigitsStay
<1>5. ToSet(s) \subseteq Signs <=> \A i \in 1 .. Len(s) : s[i] \in Signs
  BY <1>1 DEF ToSet
<1> HIDE DEF s
<1>6. (\A i \in 1 .. Len(s) : s[i] \in Signs) <=> \A i \in a .. b : t[i] \in Signs
  <2>1. ASSUME \A k \in 1 .. Len(s) : s[k] \in Signs, NEW i \in a .. b PROVE t[i] \in Signs
    <3>1. i - a + 1 \in 1 .. b - a + 1 /\ a + (i - a + 1) - 1 = i
      BY <1>3
    <3> QED BY <1>3, <2>1, <3>1
  <2>2. ASSUME \A k \in a .. b : t[k] \in Signs, NEW i \in 1 .. Len(s) PROVE s[i] \in Signs
    <3>1. i \in 1 .. b - a + 1 /\ a + i - 1 \in a .. b
      BY <1>3
    <3> QED BY <1>3, <2>2, <3>1
  <2> QED BY <2>1, <2>2
<1>7. ASSUME \A i \in a .. b : t[i] \in Signs
      PROVE  /\ \A i \in 1 .. Len(t) : t[i] \in White \cup {"digit", "dash", "dot"}
             /\ \A i \in 1 .. Len(t) : t[i] = "newline" =>
                  \/ \A j \in 1 .. i : ~Visible(t, j)
                  \/ \A j \in i .. Len(t) : ~Visible(t, j)
  <2>1. ASSUME NEW i \in 1 .. Len(t) PROVE t[i] \in White \cup {"digit", "dash", "dot"}
    <3>1. CASE i \in a .. b
      BY <1>7, <3>1 DEF White
    <3>2. CASE i \notin a .. b
      BY <1>3, <3>2 DEF Visible
    <3> QED BY <3>1, <3>2
  <2>2. ASSUME NEW i \in 1 .. Len(t), t[i] = "newline"
        PROVE  \/ \A j \in 1 .. i : ~Visible(t, j)
               \/ \A j \in i .. Len(t) : ~Visible(t, j)
    <3>1. i \notin a .. b
      BY <1>7, <2>2
    <3>2. CASE i < a
      BY <1>3, <3>2
    <3>3. CASE i > b
      BY <1>3, <3>3
    <3> QED BY <1>3, <3>1, <3>2, <3>3
  <2> QED BY <2>1, <2>2
<1>8. ASSUME /\ \A i \in 1 .. Len(t) : t[i] \in White \cup {"digit", "dash", "dot"}
             /\ \A i \in 1 .. Len(t) : t[i] = "newline" =>
                  \/ \A j \in 1 .. i : ~Visible(t, j)
                  \/ \A j \in i .. Len(t) : ~Visible(t, j),
             NEW i \in a .. b
      PROVE  t[i] \in Signs
  <2>1. i \in 1 .. Len(t) /\ a \in 1 .. i /\ b \in i .. Len(t)
    BY <1>3
  <2>2. t[i] # "newline"
    BY <1>3, <1>8, <2>1
  <2> QED BY <1>8, <2>1, <2>2 DEF White
<1> DEFINE Enough == Cardinality({i \in DOMAIN t : t[i] = "digit"}) >= PHONE_MIN_DIGITS
<1>9. ShapedLikeANumber(s) <=> Enough /\ \A i \in a .. b : t[i] \in Signs
  BY <1>4, <1>5, <1>6 DEF ShapedLikeANumber
<1>10. NumberByPosition(t) <=>
         /\ \A i \in 1 .. Len(t) : t[i] \in White \cup {"digit", "dash", "dot"}
         /\ \A i \in 1 .. Len(t) : t[i] = "newline" =>
              \/ \A j \in 1 .. i : ~Visible(t, j)
              \/ \A j \in i .. Len(t) : ~Visible(t, j)
         /\ Enough
  BY <1>1 DEF NumberByPosition
<1> HIDE DEF Enough, Signs
<1> QED BY <1>7, <1>8, <1>9, <1>10 DEF s

Near(t, i) == {t[j] : j \in {i - 1, i + 1} \cap DOMAIN t}

AddressByPosition(t) ==
  \E a \in DOMAIN t :
    /\ t[a] = "at" /\ \A j \in DOMAIN t : t[j] = "at" => j = a
    /\ a > 1 /\ Visible(t, a - 1)
    /\ \E d \in a + 1 .. Len(t) : t[d] = "dot"
    /\ \A d \in a + 1 .. Len(t) : t[d] = "dot" =>
         d < Len(t) /\ Near(t, d) \cap (White \cup {"dot", "at"}) = {}

\* There is no white space in what is left after trimming.
Solid(t) == ToSet(Trim(t)) \cap White = {}

LEMMA SolidIsByPosition ==
  ASSUME NEW t \in Text, NEW a \in Nat, NEW b \in Nat, Span(t, a, b)
  PROVE  /\ Solid(t) <=> \A i \in a .. b : Visible(t, i)
         /\ Solid(t) <=> Extent(t) = Cardinality({i \in DOMAIN t : Visible(t, i)})
<1> DEFINE s == Trim(t)
           V == {i \in 1 .. Len(t) : Visible(t, i)}
<1>1. s \in Text /\ DOMAIN s = 1 .. Len(s) /\ DOMAIN t = 1 .. Len(t) /\ Len(t) \in Nat
  BY TrimShape, InkedIsDomain
<1>2. /\ a \in 1 .. Len(t) /\ b \in 1 .. Len(t) /\ a <= b /\ Len(s) = b - a + 1
      /\ \A i \in 1 .. b - a + 1 : s[i] = t[a + i - 1]
      /\ \A i \in 1 .. Len(t) : Visible(t, i) => a <= i /\ i <= b
  BY DEF Span
<1>3. Solid(t) <=> \A i \in 1 .. Len(s) : s[i] \notin White
  BY <1>1 DEF Solid, ToSet
<1>4. Extent(t) = b - a + 1
  BY <1>2, ExtentIsLength
<1> HIDE DEF s
<1>5. Solid(t) <=> \A i \in a .. b : Visible(t, i)
  <2>1. ASSUME \A k \in 1 .. Len(s) : s[k] \notin White, NEW i \in a .. b PROVE Visible(t, i)
    <3>1. i - a + 1 \in 1 .. b - a + 1 /\ a + (i - a + 1) - 1 = i
      BY <1>2
    <3> QED BY <1>2, <2>1, <3>1 DEF Visible
  <2>2. ASSUME \A k \in a .. b : Visible(t, k), NEW i \in 1 .. Len(s) PROVE s[i] \notin White
    <3>1. i \in 1 .. b - a + 1 /\ a + i - 1 \in a .. b
      BY <1>2
    <3> QED BY <1>2, <2>2, <3>1 DEF Visible
  <2> QED BY <1>3, <2>1, <2>2
<1>6. IsFiniteSet(a .. b) /\ Cardinality(a .. b) = b - a + 1
  <2>1. a \in Int /\ b \in Int /\ ~(a > b)
    BY <1>2
  <2> QED BY <2>1, FS_Interval
<1>7. V \in SUBSET (a .. b)
  BY <1>2
<1>8. V = a .. b <=> \A i \in a .. b : Visible(t, i)
  <2>1. \A i \in a .. b : i \in 1 .. Len(t)
    BY <1>2
  <2> QED BY <1>7, <2>1
<1>9. V = a .. b <=> Cardinality(a .. b) = Cardinality(V)
  BY <1>6, <1>7, FS_Subset
<1>10. V = {i \in DOMAIN t : Visible(t, i)}
  BY <1>1
<1> HIDE DEF V
<1> QED BY <1>4, <1>5, <1>6, <1>8, <1>9, <1>10

LEMMA AddressIsByPosition ==
  ASSUME NEW t \in Text, NEW a \in Nat, NEW b \in Nat, Span(t, a, b),
         \A i \in a .. b : Visible(t, i), Solid(t)
  PROVE  ShapedLikeAnAddress(Trim(t)) <=> AddressByPosition(t)
<1> DEFINE s == Trim(t)
           L == b - a + 1
<1>1. /\ s \in Text /\ s \in Seq(Chars) /\ DOMAIN s = 1 .. L /\ DOMAIN t = 1 .. Len(t)
      /\ Len(t) \in Nat /\ Len(s) = L
  <2>1. s \in Text /\ s \in Seq(Chars) /\ DOMAIN s = 1 .. Len(s) /\ DOMAIN t = 1 .. Len(t) /\ Len(t) \in Nat
    BY TrimShape, InkedIsDomain DEF Text
  <2>2. Len(s) = L
    BY DEF Span
  <2> QED BY <2>1, <2>2
<1>2. /\ a \in 1 .. Len(t) /\ b \in 1 .. Len(t) /\ a <= b /\ L \in Nat /\ L >= 1
      /\ \A i \in 1 .. L : s[i] = t[a + i - 1]
      /\ \A i \in 1 .. Len(t) : Visible(t, i) => a <= i /\ i <= b
  BY DEF Span
<1>3. ToSet(s) \cap White = {}
  BY DEF Solid
<1> HIDE DEF s, L
<1>4. L = b - a + 1
  BY DEF L
\* The positions of t with ink are those of s, a - 1 further on.
<1>5. /\ \A i \in 1 .. L : a + i - 1 \in a .. b /\ a + i - 1 \in 1 .. Len(t)
      /\ \A i \in 1 .. Len(t) : i \in a .. b => i - a + 1 \in 1 .. L /\ t[i] = s[i - a + 1]
  <2>1. \A i \in 1 .. L : a + i - 1 \in a .. b /\ a + i - 1 \in 1 .. Len(t)
    BY <1>1, <1>2, <1>4
  <2>2. ASSUME NEW i \in 1 .. Len(t), i \in a .. b
        PROVE  i - a + 1 \in 1 .. L /\ t[i] = s[i - a + 1]
    <3>1. i - a + 1 \in 1 .. L /\ a + (i - a + 1) - 1 = i
      BY <1>2, <1>4, <2>2
    <3> QED BY <1>2, <3>1
  <2> QED BY <2>1, <2>2
<1>6. \A i \in 1 .. Len(t) : t[i] \in {"at", "dot"} => i \in a .. b
  BY <1>2 DEF Visible, White
\* What validate_email reads of the domain, in s.
<1>7. ASSUME NEW k \in 1 .. L
      PROVE  LET domain == SubSeq(s, k + 1, L)
             IN  /\ Len(domain) = L - k
                 /\ \A i \in 1 .. L - k : domain[i] = s[k + i]
                 /\ "dot" \in ToSet(domain) <=> \E d \in k + 1 .. L : s[d] = "dot"
  <2> DEFINE domain == SubSeq(s, k + 1, L)
  <2>1. k + 1 \in 1 .. L + 1 /\ k \in Nat
    BY <1>2
  <2>2. /\ domain \in Seq(Chars) /\ Len(domain) = L - k
        /\ \A i \in 1 .. L - k : domain[i] = s[k + i]
    <3>1. \A i \in k + 1 .. L : s[i] \in Chars
      BY <1>1, <2>1, InkedIsDomain
    <3>2. /\ domain \in Seq(Chars)
          /\ Len(domain) = IF k + 1 <= L THEN L - (k + 1) + 1 ELSE 0
          /\ \A i \in 1 .. L - (k + 1) + 1 : domain[i] = s[(k + 1) + i - 1]
      <4> DEFINE K == k + 1
      <4>1. K \in Int /\ L \in Int /\ \A i \in K .. L : s[i] \in Chars
        BY <1>1, <1>2, <2>1, <3>1
      <4> HIDE DEF K
      <4> QED BY <4>1, SubSeqProperties DEF domain, K
    <3>3. \A i \in 1 .. L - k : (k + 1) + i - 1 = k + i
      BY <2>1
    <3>4. L - (k + 1) + 1 = L - k
      BY <1>2, <2>1
    <3> HIDE DEF domain
    <3> QED BY <1>2, <2>1, <3>2, <3>3, <3>4
  <2>3. DOMAIN domain = 1 .. L - k
    BY <2>2, LenProperties
  <2> HIDE DEF domain
  <2>4. "dot" \in ToSet(domain) <=> \E i \in 1 .. L - k : domain[i] = "dot"
    BY <2>3 DEF ToSet
  <2>5. ASSUME NEW i \in 1 .. L - k, domain[i] = "dot" PROVE \E d \in k + 1 .. L : s[d] = "dot"
    <3>1. k + i \in k + 1 .. L
      BY <1>2, <2>1
    <3> QED BY <2>2, <2>5, <3>1
  <2>6. ASSUME NEW d \in k + 1 .. L, s[d] = "dot" PROVE \E i \in 1 .. L - k : domain[i] = "dot"
    <3>1. d - k \in 1 .. L - k /\ k + (d - k) = d
      BY <1>2, <2>1
    <3> QED BY <2>2, <2>6, <3>1
  <2> QED BY <2>2, <2>4, <2>5, <2>6 DEF domain
\* An address in s, character by character.
<1> DEFINE At(k) == /\ s[k] = "at" /\ \A j \in 1 .. L : s[j] = "at" => j = k
                    /\ k > 1
                    /\ \E d \in k + 1 .. L : s[d] = "dot"
                    /\ s[k + 1] # "dot" /\ s[L] # "dot"
                    /\ \A d \in k + 2 .. L : ~(s[d - 1] = "dot" /\ s[d] = "dot")
<1>8. ShapedLikeAnAddress(s) <=> \E k \in 1 .. L : At(k)
  <2> DEFINE Shape(k) == LET domain == SubSeq(s, k + 1, Len(s))
                         IN  /\ {i \in DOMAIN s : s[i] = "at"} = {k}
                             /\ k > 1
                             /\ "dot" \in ToSet(domain)
                             /\ domain[1] # "dot" /\ domain[Len(domain)] # "dot"
                             /\ \A i \in 2 .. Len(domain) : ~(domain[i - 1] = "dot" /\ domain[i] = "dot")
                             /\ ToSet(s) \cap White = {}
  <2>1. ASSUME NEW k \in 1 .. L PROVE Shape(k) <=> At(k)
    <3> DEFINE domain == SubSeq(s, k + 1, L)
    <3>1. /\ Len(domain) = L - k
          /\ \A i \in 1 .. L - k : domain[i] = s[k + i]
          /\ "dot" \in ToSet(domain) <=> \E d \in k + 1 .. L : s[d] = "dot"
      BY <1>7
    <3>2. Shape(k) <=>
            /\ {i \in 1 .. L : s[i] = "at"} = {k}
            /\ k > 1
            /\ "dot" \in ToSet(domain)
            /\ domain[1] # "dot" /\ domain[Len(domain)] # "dot"
            /\ \A i \in 2 .. Len(domain) : ~(domain[i - 1] = "dot" /\ domain[i] = "dot")
      BY <1>1, <1>3
    <3> HIDE DEF domain, Shape
    <3>3. {i \in 1 .. L : s[i] = "at"} = {k} <=> s[k] = "at" /\ \A j \in 1 .. L : s[j] = "at" => j = k
      OBVIOUS
    <3>4. CASE ~\E d \in k + 1 .. L : s[d] = "dot"
      BY <3>1, <3>2, <3>4
    <3>5. CASE \E d \in k + 1 .. L : s[d] = "dot"
      <4>1. k \in Nat /\ k < L /\ 1 \in 1 .. L - k /\ L - k \in 1 .. L - k /\ k + (L - k) = L
        BY <1>2, <3>5
      <4>2. domain[1] = s[k + 1] /\ domain[Len(domain)] = s[L]
        BY <3>1, <4>1
      <4>3. (\A i \in 2 .. Len(domain) : ~(domain[i - 1] = "dot" /\ domain[i] = "dot"))
              <=> \A d \in k + 2 .. L : ~(s[d - 1] = "dot" /\ s[d] = "dot")
        <5>1. ASSUME NEW i \in 2 .. L - k
              PROVE  domain[i] = s[k + i] /\ domain[i - 1] = s[k + i - 1] /\ k + i \in k + 2 .. L
          <6>1. i \in 1 .. L - k /\ i - 1 \in 1 .. L - k /\ k + (i - 1) = k + i - 1 /\ k + i \in k + 2 .. L
            BY <1>2, <4>1
          <6> QED BY <3>1, <6>1
        <5>2. ASSUME NEW d \in k + 2 .. L PROVE d - k \in 2 .. L - k /\ k + (d - k) = d
          BY <1>2, <4>1
        <5>3. ASSUME \A i \in 2 .. L - k : ~(domain[i - 1] = "dot" /\ domain[i] = "dot"),
                     NEW d \in k + 2 .. L
              PROVE  ~(s[d - 1] = "dot" /\ s[d] = "dot")
          <6> DEFINE i == d - k
          <6>1. i \in 2 .. L - k /\ k + i = d
            BY <5>2
          <6> HIDE DEF i
          <6>2. domain[i] = s[k + i] /\ domain[i - 1] = s[k + i - 1]
            BY <5>1, <6>1
          <6> QED BY <5>3, <6>1, <6>2
        <5>4. ASSUME \A d \in k + 2 .. L : ~(s[d - 1] = "dot" /\ s[d] = "dot"),
                     NEW i \in 2 .. L - k
              PROVE  ~(domain[i - 1] = "dot" /\ domain[i] = "dot")
          BY <5>1, <5>4
        <5> QED BY <3>1, <5>3, <5>4
      <4> QED BY <3>1, <3>2, <3>3, <3>5, <4>2, <4>3
    <3> QED BY <3>4, <3>5
  <2>2. ShapedLikeAnAddress(s) <=> \E k \in 1 .. L : Shape(k)
    BY <1>1 DEF ShapedLikeAnAddress
  <2> HIDE DEF Shape, At
  <2> QED BY <2>1, <2>2
\* The same in t.
<1> DEFINE Here(k) == /\ t[k] = "at" /\ \A j \in 1 .. Len(t) : t[j] = "at" => j = k
                      /\ k > 1 /\ Visible(t, k - 1)
                      /\ \E d \in k + 1 .. Len(t) : t[d] = "dot"
                      /\ \A d \in k + 1 .. Len(t) : t[d] = "dot" =>
                           d < Len(t) /\ Near(t, d) \cap (White \cup {"dot", "at"}) = {}
<1>9. ASSUME NEW k \in 1 .. L, At(k) PROVE Here(a + k - 1)
  <2> DEFINE A == a + k - 1
  <2>1. A \in a .. b /\ A \in 1 .. Len(t) /\ t[A] = s[k] /\ k \in Nat
    BY <1>2, <1>5
  <2>2. t[A] = "at" /\ A > 1 /\ A - 1 \in a .. b
    BY <1>2, <1>4, <1>9, <2>1
  <2>3. ASSUME NEW j \in 1 .. Len(t), t[j] = "at" PROVE j = A
    <3>1. j \in a .. b
      BY <1>6, <2>3
    <3>2. j - a + 1 \in 1 .. L /\ s[j - a + 1] = "at"
      BY <1>5, <2>3, <3>1
    <3>3. j - a + 1 = k
      BY <1>9, <3>2
    <3> QED BY <1>2, <2>1, <3>1, <3>3
  <2>4. \E d \in A + 1 .. Len(t) : t[d] = "dot"
    <3>1. PICK d \in k + 1 .. L : s[d] = "dot"
      BY <1>9
    <3>2. d \in 1 .. L /\ a + d - 1 \in A + 1 .. Len(t)
      BY <1>2, <1>4, <1>5, <2>1
    <3>3. t[a + d - 1] = "dot"
      BY <1>2, <3>1, <3>2
    <3> QED BY <3>2, <3>3
  <2>5. ASSUME NEW d \in A + 1 .. Len(t), t[d] = "dot"
        PROVE  d < Len(t) /\ Near(t, d) \cap (White \cup {"dot", "at"}) = {}
    <3> DEFINE e == d - a + 1
    <3>1. d \in 1 .. Len(t) /\ d \in a .. b
      <4>1. d \in 1 .. Len(t)
        BY <2>1
      <4> QED BY <1>6, <2>5, <4>1
    <3>2. e \in 1 .. L /\ s[e] = "dot"
      BY <1>5, <2>5, <3>1
    <3>3. e # L /\ e # k + 1 /\ e > k
      BY <1>9, <2>1, <2>5, <3>2
    <3>4. e \in k + 2 .. L - 1 /\ d + 1 \in a .. b /\ d - 1 \in a .. b
          /\ d + 1 \in 1 .. Len(t) /\ d - 1 \in 1 .. Len(t)
      BY <1>2, <1>4, <2>1, <3>1, <3>2, <3>3
    <3>5. t[d + 1] = s[e + 1] /\ t[d - 1] = s[e - 1]
      <4>1. (d + 1) - a + 1 = e + 1 /\ (d - 1) - a + 1 = e - 1
        BY <3>1
      <4>2. t[d + 1] = s[(d + 1) - a + 1] /\ t[d - 1] = s[(d - 1) - a + 1]
        BY <1>5, <3>4
      <4> QED BY <4>1, <4>2
    <3>6. s[e + 1] # "dot" /\ s[e - 1] # "dot"
      <4>1. e \in k + 2 .. L /\ e + 1 \in k + 2 .. L /\ (e + 1) - 1 = e
        BY <1>2, <2>1, <3>4
      <4> QED BY <1>9, <3>2, <4>1
    <3>7. t[d + 1] # "at" /\ t[d - 1] # "at"
      BY <2>1, <2>3, <2>5, <3>1, <3>3, <3>4
    <3>8. t[d + 1] \notin White /\ t[d - 1] \notin White
      BY <3>4 DEF Visible
    <3>9. Near(t, d) \subseteq {t[d - 1], t[d + 1]}
      BY DEF Near
    <3>10. d < Len(t)
      BY <1>1, <3>1, <3>4
    <3> QED BY <3>5, <3>6, <3>7, <3>8, <3>9, <3>10
  <2>6. Visible(t, A - 1)
    BY <2>2
  <2> HIDE DEF A
  <2>7. Here(A)
    BY <2>2, <2>3, <2>4, <2>5, <2>6
  <2> QED BY <2>7 DEF A
<1>10. ASSUME NEW k \in 1 .. Len(t), Here(k)
       PROVE  k - a + 1 \in 1 .. L /\ At(k - a + 1)
  <2> DEFINE K == k - a + 1
  <2>1. k \in a .. b /\ K \in 1 .. L /\ t[k] = s[K] /\ k \in Nat
    <3>1. k \in a .. b
      BY <1>6, <1>10
    <3> QED BY <1>5, <3>1
  <2>2. s[K] = "at"
    BY <1>10, <2>1
  <2>3. ASSUME NEW j \in 1 .. L, s[j] = "at" PROVE j = K
    <3>1. a + j - 1 \in 1 .. Len(t) /\ t[a + j - 1] = "at"
      BY <1>2, <1>5, <2>3
    <3>2. a + j - 1 = k
      BY <1>10, <3>1
    <3> QED BY <1>2, <2>1, <3>2
  <2>4. K > 1
    <3>1. k - 1 \in 1 .. Len(t)
      BY <1>10, <2>1
    <3>2. a <= k - 1
      BY <1>2, <1>10, <3>1
    <3> QED BY <2>1, <3>2
  <2>5. \E d \in K + 1 .. L : s[d] = "dot"
    <3>1. PICK d \in k + 1 .. Len(t) : t[d] = "dot"
      BY <1>10
    <3>2. d \in 1 .. Len(t) /\ d \in a .. b
      <4>1. d \in 1 .. Len(t)
        BY <2>1
      <4> QED BY <1>6, <3>1, <4>1
    <3>3. d - a + 1 \in 1 .. L /\ s[d - a + 1] = "dot"
      BY <1>5, <3>1, <3>2
    <3>4. d - a + 1 \in K + 1 .. L
      BY <1>2, <2>1, <3>1, <3>2, <3>3
    <3> QED BY <3>3, <3>4
  \* What a dot in the domain has on either side.
  <2>6. ASSUME NEW e \in K + 1 .. L, s[e] = "dot"
        PROVE  /\ e # L /\ e # K + 1
               /\ s[e + 1] # "dot" /\ s[e - 1] # "dot"
    <3> DEFINE d == a + e - 1
    <3>1. e \in 1 .. L /\ d \in 1 .. Len(t) /\ d \in a .. b /\ t[d] = "dot" /\ d \in k + 1 .. Len(t)
      <4>1. e \in 1 .. L
        BY <2>1
      <4>2. d \in 1 .. Len(t) /\ d \in a .. b /\ t[d] = "dot"
        BY <1>2, <1>5, <2>6, <4>1
      <4>3. d >= k + 1
        BY <1>2, <2>1, <4>1
      <4> QED BY <4>1, <4>2, <4>3
    <3>2. d < Len(t) /\ Near(t, d) \cap (White \cup {"dot", "at"}) = {}
      BY <1>10, <3>1
    <3>3. d + 1 \in 1 .. Len(t) /\ d - 1 \in 1 .. Len(t)
      BY <1>1, <2>1, <3>1, <3>2
    <3>4. t[d + 1] \in Near(t, d) /\ t[d - 1] \in Near(t, d)
      BY <1>1, <3>3 DEF Near
    <3>5. /\ t[d + 1] \notin White /\ t[d + 1] # "dot"
          /\ t[d - 1] \notin White /\ t[d - 1] # "dot" /\ t[d - 1] # "at"
      BY <3>2, <3>4
    <3>6. d - 1 # k
      BY <1>10, <3>5
    <3>7. d + 1 \in a .. b /\ d - 1 \in a .. b
      BY <1>2, <3>3, <3>5 DEF Visible
    <3>8. t[d + 1] = s[e + 1] /\ t[d - 1] = s[e - 1]
      <4>1. (d + 1) - a + 1 = e + 1 /\ (d - 1) - a + 1 = e - 1
        BY <3>1
      <4> QED BY <1>5, <3>3, <3>7, <4>1
    <3>9. e # L /\ e # K + 1
      BY <1>2, <1>4, <2>1, <3>1, <3>6, <3>7
    <3> QED BY <3>5, <3>8, <3>9
  <2>7. K \in Nat /\ L \in Nat
    BY <1>2, <2>1
  <2>8. s[K + 1] # "dot" /\ s[L] # "dot"
    <3>1. K + 1 \in K + 1 .. L /\ L \in K + 1 .. L
      BY <2>5, <2>7
    <3> QED BY <2>6, <3>1
  <2>9. \A d \in K + 2 .. L : ~(s[d - 1] = "dot" /\ s[d] = "dot")
    <3>1. \A d \in K + 2 .. L : d \in K + 1 .. L
      BY <2>7
    <3> QED BY <2>6, <3>1
  <2> HIDE DEF K
  <2>10. At(K)
    BY <2>2, <2>3, <2>4, <2>5, <2>8, <2>9
  <2> QED BY <2>1, <2>10 DEF K
<1>11. AddressByPosition(t) <=> \E k \in 1 .. Len(t) : Here(k)
  BY <1>1 DEF AddressByPosition
<1> HIDE DEF At, Here
<1> QED BY <1>5, <1>8, <1>9, <1>10, <1>11 DEF s

-----------------------------------------------------------------------------
(* What a message next to a field means *)

LEMMA RequiredByPosition ==
  ASSUME NEW t \in Text, NEW max \in Nat
  PROVE  /\ RequiredText(t, max) \in {"Missing", "TooLong", Fine}
         /\ RequiredText(t, max) = "Missing" <=> Extent(t) = 0
         /\ RequiredText(t, max) = "TooLong" <=> Extent(t) > max
         /\ RequiredText(t, max) = Fine <=> Extent(t) \in 1 .. max
<1>1. Extent(t) = Len(Trim(t)) /\ Extent(t) \in Nat /\ (Trim(t) = <<>> <=> Extent(t) = 0)
  BY ExtentIsLength, NoInk
<1> QED BY <1>1 DEF RequiredText, Fine

LEMMA PhoneByPosition ==
  ASSUME NEW t \in Text
  PROVE  /\ FieldError("phone", t) = "Missing" <=> Extent(t) = 0
         /\ FieldError("phone", t) = Fine <=> Extent(t) \in 1 .. PHONE_MAX /\ NumberByPosition(t)
<1>1. FieldError("phone", t) =
        IF RequiredText(t, PHONE_MAX) # Fine \/ ShapedLikeANumber(Trim(t))
        THEN RequiredText(t, PHONE_MAX) ELSE "InvalidPhone"
  BY DEF FieldError
<1>2. PHONE_MAX \in Nat
  BY OrderFormAssumption
<1>3. Extent(t) \in 1 .. PHONE_MAX => (ShapedLikeANumber(Trim(t)) <=> NumberByPosition(t))
  <2>1. Extent(t) = Len(Trim(t))
    BY ExtentIsLength
  <2>2. Extent(t) \in 1 .. PHONE_MAX => Inked(t) # {}
    BY <2>1, NoInk
  <2> QED BY <2>2, NumberIsByPosition
<1> QED BY <1>1, <1>2, <1>3, RequiredByPosition DEF Fine

LEMMA EmailByPosition ==
  ASSUME NEW t \in Text
  PROVE  /\ FieldError("email", t) = "Missing" <=> Extent(t) = 0
         /\ FieldError("email", t) = Fine <=>
              /\ Extent(t) \in 1 .. EMAIL_MAX
              /\ Extent(t) = Cardinality({i \in DOMAIN t : Visible(t, i)})
              /\ AddressByPosition(t)
<1>1. FieldError("email", t) =
        IF RequiredText(t, EMAIL_MAX) # Fine \/ ShapedLikeAnAddress(Trim(t))
        THEN RequiredText(t, EMAIL_MAX) ELSE "InvalidEmail"
  BY DEF FieldError
<1>2. EMAIL_MAX \in Nat
  BY OrderFormAssumption
<1>3. ASSUME Extent(t) \in 1 .. EMAIL_MAX
      PROVE  ShapedLikeAnAddress(Trim(t)) <=>
               /\ Extent(t) = Cardinality({i \in DOMAIN t : Visible(t, i)})
               /\ AddressByPosition(t)
  <2>1. Inked(t) # {}
    <3>1. Extent(t) = Len(Trim(t))
      BY ExtentIsLength
    <3> QED BY <1>3, <3>1, NoInk
  <2>2. PICK a \in Nat, b \in Nat : Span(t, a, b)
    BY <2>1, TrimSpans
  <2>3. /\ Solid(t) <=> \A i \in a .. b : Visible(t, i)
        /\ Solid(t) <=> Extent(t) = Cardinality({i \in DOMAIN t : Visible(t, i)})
    BY <2>2, SolidIsByPosition
  <2>4. ShapedLikeAnAddress(Trim(t)) => Solid(t)
    BY DEF ShapedLikeAnAddress, Solid
  <2>5. Solid(t) => (ShapedLikeAnAddress(Trim(t)) <=> AddressByPosition(t))
    BY <2>2, <2>3, AddressIsByPosition
  <2> QED BY <2>3, <2>4, <2>5
<1> QED BY <1>1, <1>2, <1>3, RequiredByPosition DEF Fine

LEMMA ServicesByPosition ==
  ASSUME NEW t \in Text
  PROVE  /\ FieldError("services", t) = "Missing" <=> Extent(t) = 0
         /\ FieldError("services", t) = "TooManyServices" <=> Cardinality(Listed(t)) > MAX_SERVICES
         /\ FieldError("services", t) = "TooLong" <=>
              Cardinality(Listed(t)) <= MAX_SERVICES /\ FarApart(t, SERVICE_MAX)
<1> DEFINE services == ServiceLines(t)
           Long == \E k \in DOMAIN services : Len(services[k]) > SERVICE_MAX
<1>1. FieldError("services", t) =
        IF services = <<>> THEN "Missing"
        ELSE IF Len(services) > MAX_SERVICES THEN "TooManyServices"
        ELSE IF Long THEN "TooLong" ELSE Fine
  BY DEF FieldError, ServicesError
<1>2. MAX_SERVICES \in Nat /\ SERVICE_MAX \in Nat
  BY OrderFormAssumption
<1>3. Lines(t) \in Seq(Text) /\ services = Trimmed(Lines(t)) /\ services \in Seq(Text)
  BY LinesTyped, ServicesReadBack DEF Pages, ServiceLines
<1>4. /\ Len(services) \in Nat /\ DOMAIN services = 1 .. Len(services)
      /\ services = <<>> <=> Len(services) = 0
  BY <1>3, LenProperties, EmptySeq
<1>5. IsFiniteSet(Listed(t)) /\ Len(services) = Cardinality(Listed(t))
  BY <1>3, ServicesAreCounted, ListedAreWritten DEF Counted
<1>6. Long <=> FarApart(t, SERVICE_MAX)
  BY <1>2, <1>3, <1>4, LongStaysLong, LongIsFarApart DEF LongKept
<1>7. services = <<>> <=> Extent(t) = 0
  <2>1. services = <<>> <=> Listed(t) = {}
    BY <1>4, <1>5, FS_EmptySet
  <2>2. Extent(t) = 0 <=> \A i \in 1 .. Len(t) : ~Visible(t, i)
    BY ExtentIsLength, NoInk
  <2>3. ASSUME NEW i \in 1 .. Len(t), Visible(t, i) PROVE Listed(t) # {}
    <3> DEFINE k == Cardinality(Newlines(t, i)) + 1
    <3>1. i \in 0 .. Len(t) /\ Len(t) \in Nat
      BY InkedIsDomain
    <3>2. Cardinality(Newlines(t, i)) \in Nat /\ Cardinality(Newlines(t, i)) <= i
      BY <3>1, NewlinesCount
    <3>3. k \in 1 .. Len(t) + 1 /\ k - 1 = Cardinality(Newlines(t, i))
      BY <3>1, <3>2
    <3> HIDE DEF k
    <3>4. t[i] # "newline"
      BY <2>3 DEF Visible, White
    <3>5. i \in OnLine(t, k)
      BY <3>3, <3>4, OnLineIs
    <3> QED BY <2>3, <3>3, <3>5 DEF Listed
  <2>4. ASSUME NEW k \in Listed(t) PROVE \E i \in 1 .. Len(t) : Visible(t, i)
    BY OnLineIs DEF Listed
  <2> QED BY <2>1, <2>2, <2>3, <2>4
<1> HIDE DEF services, Long
<1>8. Len(services) > MAX_SERVICES => Len(services) # 0
  BY <1>2, <1>4
<1>9. Long => services # <<>>
  <2>1. Long => \E k \in 1 .. Len(services) : TRUE
    BY <1>4 DEF Long
  <2> QED BY <1>4, <2>1
<1> QED BY <1>1, <1>2, <1>4, <1>5, <1>6, <1>7, <1>8, <1>9 DEF Fine

\* Strengthening: the message next to a text not corrected since is what
\* validation finds in it.
Showing ==
  /\ Form(form)
  /\ posts > 0 =>
       /\ left \subseteq {f \in Field : shown[f] # Fine}
       /\ \A f \in TextFields :
            f \in left \/ shown[f] = Fine => shown[f] = FieldError(f, form[f])

LEMMA ShowingIsInductive ==
  /\ Init => Showing
  /\ Showing /\ [Next]_vars => Showing'
<1>1. Init => Showing
  BY OrderFormAssumption DEF Init, Showing, Form
<1>2. ASSUME Showing, [Next]_vars PROVE Showing'
  <2>1. CASE Post
    <3>1. Form(form')
      BY <1>2, <2>1, RejectedTyped DEF Post, Showing
    <3>2. shown' = [f \in Field |-> FieldError(f, form[f])]
      BY <2>1 DEF Post, Validate
    <3>3. left' = {f \in Field : shown'[f] # Fine}
      BY <2>1 DEF Post, Refused
    <3>4. \A f \in TextFields : form'[f] = form[f]
      BY <1>2, <2>1, TextsStay DEF Post, Showing, Form
    <3> QED BY <3>1, <3>2, <3>3, <3>4 DEF Showing, Field
  <2>2. ASSUME NEW f \in Field, NEW text \in Corrections[f], Correct(f, text)
        PROVE  Showing'
    <3>1. Form(form')
      BY <1>2, <2>2, CorrectedTyped DEF Correct, Showing
    <3>2. /\ f \in left /\ left' = left \ {f} /\ shown' = shown /\ posts' = posts
          /\ \A g \in Field \ {f} : form'[g] = form[g]
      BY <1>2, <2>2 DEF Correct, Showing, Form
    <3> QED BY <1>2, <3>1, <3>2 DEF Showing, Field
  <2>3. CASE UNCHANGED vars
    <3>1. form' = form /\ shown' = shown /\ left' = left /\ posts' = posts
      BY <2>3 DEF vars
    <3>2. Form(form')
      BY <1>2, <3>1 DEF Showing
    <3> QED BY <1>2, <3>1, <3>2 DEF Showing
  <2> QED BY <1>2, <2>1, <2>2, <2>3 DEF Next
<1> QED BY <1>1, <1>2

\* A message is shown exactly where a reading by position, without trimming and
\* splitting, finds a fault (validation.rs, order.rs:146-261): for texts of any
\* length, and however often the form came back.
THEOREM FaultsAreShown == Spec => []MessagesAreFaults
<1>1. Showing => MessagesAreFaults
  <2> SUFFICES ASSUME Showing, posts > 0, left = {f \in Field : shown[f] # Fine}
               PROVE  MessagesAreFaults
    BY DEF MessagesAreFaults
  <2>1. \A f \in TextFields : shown[f] = FieldError(f, form[f]) /\ form[f] \in Text
    BY DEF Showing, Form, Raw, Field
  <2>2. /\ {"company", "city", "phone", "email", "services"} = TextFields
        /\ COMPANY_MAX \in Nat /\ CITY_MAX \in Nat
    BY OrderFormAssumption DEF TextFields
  <2>3. /\ FieldError("company", form["company"]) = RequiredText(form["company"], COMPANY_MAX)
        /\ FieldError("city", form["city"]) = RequiredText(form["city"], CITY_MAX)
    BY DEF FieldError
  <2>4. \A f \in TextFields : shown[f] = "Missing" <=> Extent(form[f]) = 0
    <3> SUFFICES ASSUME NEW f \in TextFields
                 PROVE  FieldError(f, form[f]) = "Missing" <=> Extent(form[f]) = 0
      BY <2>1
    <3>1. CASE f \in {"company", "city"}
      BY <2>1, <2>2, <2>3, <3>1, RequiredByPosition
    <3>2. CASE f = "phone"
      BY <2>1, <3>2, PhoneByPosition
    <3>3. CASE f = "email"
      BY <2>1, <3>3, EmailByPosition
    <3>4. CASE f = "services"
      BY <2>1, <3>4, ServicesByPosition
    <3> QED BY <3>1, <3>2, <3>3, <3>4 DEF TextFields
  <2>5. /\ shown["company"] = "TooLong" <=> Extent(form["company"]) > COMPANY_MAX
        /\ shown["city"] = "TooLong" <=> Extent(form["city"]) > CITY_MAX
    BY <2>1, <2>2, <2>3, RequiredByPosition
  <2>6. /\ shown["services"] = "TooManyServices" <=>
             Cardinality(Listed(form["services"])) > MAX_SERVICES
        /\ shown["services"] = "TooLong" <=>
             /\ Cardinality(Listed(form["services"])) <= MAX_SERVICES
             /\ FarApart(form["services"], SERVICE_MAX)
    BY <2>1, <2>2, ServicesByPosition
  <2>7. shown["email"] = Fine <=>
          /\ Extent(form["email"]) \in 1 .. EMAIL_MAX
          /\ Extent(form["email"]) =
               Cardinality({i \in DOMAIN form["email"] : Visible(form["email"], i)})
          /\ AddressByPosition(form["email"])
    BY <2>1, <2>2, EmailByPosition
  <2>8. shown["phone"] = Fine <=>
          Extent(form["phone"]) \in 1 .. PHONE_MAX /\ NumberByPosition(form["phone"])
    BY <2>1, <2>2, PhoneByPosition
  <2> HIDE DEF Showing
  <2> QED
    BY <2>4, <2>5, <2>6, <2>7, <2>8
    DEF MessagesAreFaults, FarApart, AddressByPosition, NumberByPosition, Near
<1> QED BY <1>1, ShowingIsInductive, PTL DEF Spec
=============================================================================
