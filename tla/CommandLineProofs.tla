-------------------------- MODULE CommandLineProofs --------------------------
(***************************************************************************)
(* Theorems about the command line, for commands and names of any length.  *)
(*                                                                         *)
(* A command is cut at its @0s into plain pieces, which have none.  What   *)
(* the recursive functions of CommandLine give for it is found piece by    *)
(* piece; each of them is shown to satisfy its own equation first.         *)
(***************************************************************************)
EXTENDS CommandLine, SequenceTheorems, WellFoundedInduction, TLAPS

-----------------------------------------------------------------------------
(* From one number to the next.                                             *)

\* A set of naturals that is not empty has a least element.
LEMMA LeastOfNat ==
    ASSUME NEW S \in SUBSET Nat, S # {}
    PROVE  \E i \in S : \A j \in S : i <= j
<1> DEFINE less == OpToRel(<, Nat)
<1>1. PICK i \in S : \A j \in S : <<j, i>> \notin less
  BY NatLessThanWellFounded, WFMin
<1>2. \A j \in S : ~(j < i)
  BY <1>1 DEF OpToRel
<1> QED
  BY <1>2

\* What holds of 1, and of n + 1 when it holds of n, holds up to N.
LEMMA Climb ==
    ASSUME NEW N \in Nat, NEW S, 1 \in S,
           \A n \in 1..N - 1 : n \in S => n + 1 \in S
    PROVE  \A n \in 1..N : n \in S
<1> DEFINE Missing == {n \in 1..N : n \notin S}
<1> SUFFICES ASSUME Missing # {} PROVE FALSE
  OBVIOUS
<1>1. PICK m \in Missing : \A j \in Missing : m <= j
  <2>1. Missing \in SUBSET Nat
    OBVIOUS
  <2> QED
    BY <2>1, LeastOfNat
<1>2. m \in 1..N /\ m \notin S /\ m # 1
  OBVIOUS
<1>3. m - 1 \in 1..N - 1 /\ m - 1 \in 1..N /\ ~(m <= m - 1) /\ (m - 1) + 1 = m
  BY <1>2
<1>4. m - 1 \in S
  BY <1>1, <1>3
<1> QED
  BY <1>2, <1>3, <1>4

\* The other way: what holds of N, and of n when it holds of n + 1.
LEMMA Descend ==
    ASSUME NEW N \in Nat, NEW S, N \in S,
           \A n \in 1..N - 1 : n + 1 \in S => n \in S
    PROVE  \A n \in 1..N : n \in S
<1> DEFINE Missing == {d \in 0..N - 1 : N - d \notin S}
<1>1. Missing = {}
  <2> SUFFICES ASSUME Missing # {} PROVE FALSE
    OBVIOUS
  <2>1. PICK m \in Missing : \A j \in Missing : m <= j
    <3>1. Missing \in SUBSET Nat
      OBVIOUS
    <3> QED
      BY <3>1, LeastOfNat
  <2>2. m \in 0..N - 1 /\ N - m \notin S /\ m # 0
    OBVIOUS
  <2>3. m - 1 \in 0..N - 1 /\ ~(m <= m - 1) /\ N - m \in 1..N - 1
        /\ (N - m) + 1 = N - (m - 1)
    BY <2>2
  <2>4. N - (m - 1) \in S
    BY <2>1, <2>3
  <2> QED
    BY <2>2, <2>3, <2>4
<1>2. ASSUME NEW n \in 1..N PROVE n \in S
  <2>1. N - n \in 0..N - 1 /\ N - (N - n) = n
    OBVIOUS
  <2>2. N - n \notin Missing
    BY <1>1
  <2>3. N - (N - n) \in S
    BY <2>1, <2>2
  <2> QED
    BY <2>1, <2>3
<1> QED
  BY <1>2

-----------------------------------------------------------------------------
(* strstr.                                                                  *)

\* strstr finds the first occurrence, if there is one.
LEMMA FirstOccurrence ==
    ASSUME NEW text, NEW rep, strlen(text) \in Nat, strlen(rep) \in Nat \ {0},
           NEW from \in Nat \ {0}
    PROVE  LET found == strstr(text, rep, from)
               last  == strlen(text) + 1 - strlen(rep)
           IN  \/ /\ found = 0
                  /\ \A i \in from..last : ~occurs_at(text, rep, i)
               \/ /\ found \in from..last
                  /\ occurs_at(text, rep, found)
                  /\ \A i \in from..found - 1 : ~occurs_at(text, rep, i)
<1> DEFINE last == strlen(text) + 1 - strlen(rep)
           at   == {i \in from..last : occurs_at(text, rep, i)}
<1>1. strstr(text, rep, from) =
          IF at = {} THEN 0 ELSE CHOOSE i \in at : \A j \in at : i <= j
  BY DEF strstr
<1>2. last \in Int
  BY DEF strlen
<1>3. CASE at = {}
  BY <1>1, <1>3
<1>4. CASE at # {}
  <2>1. \E i \in at : \A j \in at : i <= j
    <3>1. at \in SUBSET Nat
      OBVIOUS
    <3> QED
      BY <1>4, <3>1, LeastOfNat
  <2> DEFINE found == CHOOSE i \in at : \A j \in at : i <= j
  <2>2. found \in at /\ \A j \in at : found <= j
    BY <2>1
  <2>3. ASSUME NEW i \in from..found - 1 PROVE ~occurs_at(text, rep, i)
    <3>1. i \in from..last /\ ~(found <= i)
      BY <1>2, <2>2
    <3> QED
      BY <2>2, <3>1
  <2>4. strstr(text, rep, from) = found
    BY <1>1, <1>4
  <2> HIDE DEF found
  <2> QED
    BY <2>2, <2>3, <2>4
<1> QED
  BY <1>3, <1>4

\* An occurrence with none before it is what strstr finds.
LEMMA FoundThere ==
    ASSUME NEW text, NEW rep, strlen(text) \in Nat, strlen(rep) \in Nat \ {0},
           NEW from \in Nat \ {0}, NEW i \in from..strlen(text) + 1 - strlen(rep),
           occurs_at(text, rep, i),
           \A j \in from..i - 1 : ~occurs_at(text, rep, j)
    PROVE  strstr(text, rep, from) = i
<1> DEFINE found == strstr(text, rep, from)
           last  == strlen(text) + 1 - strlen(rep)
<1>1. \/ found = 0 /\ \A j \in from..last : ~occurs_at(text, rep, j)
      \/ /\ found \in from..last /\ occurs_at(text, rep, found)
         /\ \A j \in from..found - 1 : ~occurs_at(text, rep, j)
  BY FirstOccurrence
<1> HIDE DEF found
<1>2. found \in from..last /\ occurs_at(text, rep, found)
      /\ \A j \in from..found - 1 : ~occurs_at(text, rep, j)
  BY <1>1
<1>3. ~(i \in from..found - 1) /\ ~(found \in from..i - 1)
  BY <1>2
<1> QED
  BY <1>2, <1>3 DEF found

-----------------------------------------------------------------------------
(* The recursive functions satisfy their equations.                         *)

\* The function of joined, for the first n_ pieces.
Joins(pieces, with, f, n_) ==
    f = [n \in 1..n_ |->
            IF n = 1 THEN pieces[1] ELSE f[n - 1] \o with \o pieces[n]]

\* There is one, however many pieces there are.
LEMMA JoinsExist ==
    ASSUME NEW pieces, NEW with, NEW N \in Nat \ {0}
    PROVE  \E f : Joins(pieces, with, f, N)
<1> DEFINE S == {n \in Nat : \E f : Joins(pieces, with, f, n)}
<1>1. 1 \in S
  <2>1. Joins(pieces, with, [n \in 1..1 |-> pieces[1]], 1)
    BY DEF Joins
  <2> QED
    BY <2>1
<1>2. ASSUME NEW n \in 1..N - 1, n \in S PROVE n + 1 \in S
  <2>1. PICK f : Joins(pieces, with, f, n)
    BY <1>2
  <2> DEFINE g == [i \in 1..n + 1 |->
                      IF i = 1 THEN pieces[1] ELSE f[i - 1] \o with \o pieces[i]]
  <2>2. \A i \in 1..n : f[i] = IF i = 1 THEN pieces[1]
                                        ELSE f[i - 1] \o with \o pieces[i]
    BY <2>1 DEF Joins
  <2>3. \A i \in 1..n : g[i] = f[i]
    BY <2>2
  <2>4. \A i \in 1..n + 1 : i # 1 => i - 1 \in 1..n
    OBVIOUS
  <2>5. \A i \in 1..n + 1 : i # 1 => g[i - 1] = f[i - 1]
    BY <2>3, <2>4
  <2>6. g = [i \in 1..n + 1 |->
                IF i = 1 THEN pieces[1] ELSE g[i - 1] \o with \o pieces[i]]
    BY <2>5
  <2> HIDE DEF g
  <2>7. Joins(pieces, with, g, n + 1)
    BY <2>6 DEF Joins
  <2> QED
    BY <2>7
<1> HIDE DEF S
<1>3. \A n \in 1..N : n \in S
  BY <1>1, <1>2, Climb
<1> QED
  BY <1>3 DEF S

\* The texts of the first pieces, each with the reference and one piece more.
JoinedBy(C, pieces, with, J) ==
    /\ J \in [1..Len(pieces) -> Seq(C)]
    /\ J[1] = pieces[1]
    /\ \A n \in 1..Len(pieces) - 1 : J[n + 1] = J[n] \o with \o pieces[n + 1]
    /\ joined(pieces, with) = J[Len(pieces)]

\* joined goes through these texts.
LEMMA JoinedUp ==
    ASSUME NEW C, NEW pieces \in Seq(Seq(C)), pieces # <<>>, NEW with \in Seq(C)
    PROVE  \E J : JoinedBy(C, pieces, with, J)
<1> DEFINE N == Len(pieces)
           J == CHOOSE f : Joins(pieces, with, f, N)
<1>1. N \in Nat \ {0} /\ DOMAIN pieces = 1..N /\ \A n \in 1..N : pieces[n] \in Seq(C)
  OBVIOUS
<1>2. Joins(pieces, with, J, N)
  BY <1>1, JoinsExist
<1>3. joined(pieces, with) = J[N]
  BY <1>1 DEF joined, Joins
<1> HIDE DEF J, N
<1>4. /\ J[1] = pieces[1]
      /\ \A n \in 1..N - 1 : J[n + 1] = J[n] \o with \o pieces[n + 1]
  <2>1. \A n \in 1..N : J[n] = IF n = 1 THEN pieces[1]
                                        ELSE J[n - 1] \o with \o pieces[n]
    BY <1>2 DEF Joins
  <2>2. ASSUME NEW n \in 1..N - 1 PROVE J[n + 1] = J[n] \o with \o pieces[n + 1]
    <3>1. n + 1 \in 1..N /\ n + 1 # 1 /\ (n + 1) - 1 = n
      BY <1>1
    <3> QED
      BY <2>1, <3>1
  <2>3. 1 \in 1..N
    BY <1>1
  <2>4. J[1] = pieces[1]
    BY <2>1, <2>3
  <2> QED
    BY <2>2, <2>4
<1>5. \A n \in 1..N : J[n] \in Seq(C)
  <2> DEFINE S == {n \in 1..N : J[n] \in Seq(C)}
  <2>1. 1 \in S
    BY <1>1, <1>4
  <2>2. ASSUME NEW n \in 1..N - 1, n \in S PROVE n + 1 \in S
    <3>1. n + 1 \in 1..N /\ J[n] \in Seq(C) /\ pieces[n + 1] \in Seq(C)
      BY <1>1, <2>2
    <3>2. J[n] \o with \o pieces[n + 1] \in Seq(C)
      BY <3>1
    <3> QED
      BY <1>4, <3>1, <3>2
  <2> HIDE DEF S
  <2>3. \A n \in 1..N : n \in S
    BY <1>1, <2>1, <2>2, Climb
  <2> QED
    BY <2>3 DEF S
<1>6. J \in [1..N -> Seq(C)]
  <2>1. J = [n \in 1..N |-> J[n]]
    BY <1>2 DEF Joins
  <2> QED
    BY <1>5, <2>1
<1> QED
  BY <1>3, <1>4, <1>6 DEF JoinedBy, N

\* The function of occurrences, from position m_ on.
Counts(orig, rep, f, m_) ==
    f = [ins \in m_..strlen(orig) + 1 |->
            LET tmp == strstr(orig, rep, ins)
            IN  IF tmp = 0 THEN 0 ELSE 1 + f[tmp + strlen(rep)]]

\* What strstr finds lies in the text, and the text goes on behind it.
LEMMA FoundInside ==
    ASSUME NEW text, NEW rep, strlen(text) \in Nat, strlen(rep) \in Nat \ {0},
           NEW from \in Nat \ {0}, strstr(text, rep, from) # 0
    PROVE  /\ strstr(text, rep, from) \in from..strlen(text) + 1 - strlen(rep)
           /\ strstr(text, rep, from) + strlen(rep) \in from + 1..strlen(text) + 1
<1>1. strstr(text, rep, from) \in from..strlen(text) + 1 - strlen(rep)
  BY FirstOccurrence
<1> QED
  BY <1>1

\* It exists, since each occurrence ends after it begins.
LEMMA CountsExist ==
    ASSUME NEW orig, NEW rep, strlen(orig) \in Nat, strlen(rep) \in Nat \ {0}
    PROVE  \E f : Counts(orig, rep, f, 1)
<1> DEFINE N == strlen(orig) + 1
           S == {m \in Nat : \E f : Counts(orig, rep, f, m)}
           next(ins) == strstr(orig, rep, ins) + strlen(rep)
           value(f, ins) == IF strstr(orig, rep, ins) = 0 THEN 0 ELSE 1 + f[next(ins)]
<1>n. N \in Nat \ {0}
  OBVIOUS
<1>1. \A ins \in 1..N : strstr(orig, rep, ins) # 0 => next(ins) \in ins + 1..N
  BY FoundInside
<1> HIDE DEF N, next
<1>2. N \in S
  <2>1. strstr(orig, rep, N) = 0
    BY <1>n, <1>1
  <2>2. Counts(orig, rep, [ins \in N..N |-> 0], N)
    BY <1>n, <2>1 DEF Counts, N
  <2> QED
    BY <1>n, <2>2
<1>3. ASSUME NEW m \in 1..N - 1, m + 1 \in S PROVE m \in S
  <2>1. PICK f : Counts(orig, rep, f, m + 1)
    BY <1>3
  <2>2. \A ins \in m + 1..N : f[ins] = value(f, ins)
    BY <2>1 DEF Counts, N, next
  <2> DEFINE g == [ins \in m..N |-> value(f, ins)]
  <2>3. \A ins \in m + 1..N : g[ins] = f[ins]
    BY <1>n, <2>2
  <2>4. \A ins \in m..N : strstr(orig, rep, ins) # 0 => next(ins) \in m + 1..N
    BY <1>n, <1>1
  <2>5. \A ins \in m..N : value(f, ins) = value(g, ins)
    BY <2>3, <2>4
  <2>6. g = [ins \in m..N |-> value(g, ins)]
    BY <2>5
  <2> HIDE DEF g
  <2>7. Counts(orig, rep, g, m)
    BY <2>6 DEF Counts, N, next
  <2> QED
    BY <1>n, <2>7
<1> HIDE DEF S
<1>4. \A m \in 1..N : m \in S
  BY <1>n, <1>2, <1>3, Descend
<1> QED
  BY <1>n, <1>4 DEF S

\* occurrences goes on behind each occurrence.
LEMMA CountsOn ==
    ASSUME NEW orig, NEW rep, strlen(orig) \in Nat, strlen(rep) \in Nat \ {0}
    PROVE  \E count :
              /\ \A ins \in 1..strlen(orig) + 1 :
                    count[ins] = IF strstr(orig, rep, ins) = 0 THEN 0
                                 ELSE 1 + count[strstr(orig, rep, ins) + strlen(rep)]
              /\ occurrences(orig, rep) = count[strstr(orig, rep, 1)]
<1> DEFINE count == CHOOSE f : Counts(orig, rep, f, 1)
<1>1. Counts(orig, rep, count, 1)
  BY CountsExist
<1>2. occurrences(orig, rep) = count[strstr(orig, rep, 1)]
  BY DEF occurrences, Counts
<1> HIDE DEF count
<1>3. \A ins \in 1..strlen(orig) + 1 :
          count[ins] = IF strstr(orig, rep, ins) = 0 THEN 0
                       ELSE 1 + count[strstr(orig, rep, ins) + strlen(rep)]
  BY <1>1 DEF Counts
<1> QED
  BY <1>2, <1>3

\* The function of copied, for up to n_ occurrences.
Copies(orig, rep, with, f, n_) ==
    f = [count \in 0..n_ |->
            [rest \in 1..strlen(orig) + 1 |->
                IF count = 0
                THEN SubSeq(orig, rest, strlen(orig))
                ELSE LET ins == strstr(orig, rep, rest)
                     IN  SubSeq(orig, rest, ins - 1) \o with
                             \o f[count - 1][ins + strlen(rep)]]]

\* It exists: each occurrence is one less.
LEMMA CopiesExist ==
    ASSUME NEW orig, NEW rep, NEW with, strlen(orig) \in Nat
    PROVE  \E f : Copies(orig, rep, with, f, strlen(orig))
<1> DEFINE N == strlen(orig)
           S == {m \in Nat \ {0} : \E f : Copies(orig, rep, with, f, m - 1)}
           front(rest) == SubSeq(orig, rest, strstr(orig, rep, rest) - 1) \o with
           value(count, less) ==
               [rest \in 1..N + 1 |->
                   IF count = 0 THEN SubSeq(orig, rest, N)
                   ELSE front(rest) \o less[strstr(orig, rep, rest) + strlen(rep)]]
<1>1. ASSUME NEW f, NEW n, f = [count \in 0..n |-> value(count, f[count - 1])]
      PROVE  Copies(orig, rep, with, f, n)
  BY <1>1 DEF Copies
<1>2. ASSUME NEW f, NEW n, Copies(orig, rep, with, f, n)
      PROVE  f = [count \in 0..n |-> value(count, f[count - 1])]
  BY <1>2 DEF Copies
<1>3. \A less, other : value(0, less) = value(0, other)
  OBVIOUS
<1> HIDE DEF N, value
<1>4. 1 \in S
  <2> DEFINE f == [count \in 0..0 |-> value(count, <<>>)]
  <2>1. f = [count \in 0..0 |-> value(count, f[count - 1])]
    <3>1. \A count \in 0..0 : count = 0
      OBVIOUS
    <3>2. value(0, f[0 - 1]) = value(0, <<>>)
      BY <1>3
    <3>3. \A count \in 0..0 : value(count, <<>>) = value(count, f[count - 1])
      BY <3>1, <3>2
    <3> QED
      BY <3>3
  <2> HIDE DEF f
  <2>2. Copies(orig, rep, with, f, 0)
    BY <1>1, <2>1
  <2>3. Copies(orig, rep, with, f, 1 - 1)
    BY <2>2
  <2> QED
    BY <2>3
<1>5. ASSUME NEW n \in 1..N, n \in S PROVE n + 1 \in S
  <2>1. PICK f : Copies(orig, rep, with, f, n - 1)
    BY <1>5
  <2>n. n \in Nat \ {0} /\ (n + 1) - 1 = n
    OBVIOUS
  <2>2. \A count \in 0..n - 1 : f[count] = value(count, f[count - 1])
    <3>1. f = [count \in 0..n - 1 |-> value(count, f[count - 1])]
      BY <1>2, <2>1
    <3> QED
      BY <3>1
  <2> DEFINE g == [count \in 0..n |-> value(count, f[count - 1])]
  <2>3. \A count \in 0..n - 1 : g[count] = f[count]
    BY <2>2, <2>n
  <2>4. \A count \in 0..n : value(count, f[count - 1]) = value(count, g[count - 1])
    <3>1. ASSUME NEW count \in 0..n, count # 0 PROVE f[count - 1] = g[count - 1]
      <4>1. count - 1 \in 0..n - 1
        BY <2>n, <3>1
      <4> QED
        BY <2>3, <4>1
    <3> HIDE DEF g
    <3> QED
      BY <1>3, <3>1
  <2>5. g = [count \in 0..n |-> value(count, g[count - 1])]
    BY <2>4
  <2> HIDE DEF g
  <2>6. Copies(orig, rep, with, g, n)
    BY <1>1, <2>5
  <2>7. Copies(orig, rep, with, g, (n + 1) - 1)
    BY <2>6, <2>n
  <2> QED
    BY <2>7, <2>n
<1> HIDE DEF S
<1>6. \A n \in 1..N + 1 : n \in S
  BY <1>4, <1>5, Climb DEF N
<1>7. N + 1 \in S /\ (N + 1) - 1 = N
  BY <1>6 DEF N
<1> QED
  BY <1>7 DEF S, N

\* copied goes on behind each occurrence, and ends with the rest of the text.
LEMMA CopiesOn ==
    ASSUME NEW orig, NEW rep, NEW with, strlen(orig) \in Nat
    PROVE  \E copy :
              /\ \A rest \in 1..strlen(orig) + 1 :
                    copy[0][rest] = SubSeq(orig, rest, strlen(orig))
              /\ \A count \in 1..strlen(orig), rest \in 1..strlen(orig) + 1 :
                    copy[count][rest] =
                        SubSeq(orig, rest, strstr(orig, rep, rest) - 1) \o with
                            \o copy[count - 1][strstr(orig, rep, rest) + strlen(rep)]
              /\ copied(orig, rep, with) = copy[occurrences(orig, rep)][1]
<1> DEFINE copy == CHOOSE f : Copies(orig, rep, with, f, strlen(orig))
<1>1. Copies(orig, rep, with, copy, strlen(orig))
  BY CopiesExist
<1>2. copied(orig, rep, with) = copy[occurrences(orig, rep)][1]
  BY DEF copied, Copies
<1> HIDE DEF copy
<1> DEFINE N == strlen(orig)
           front(rest) == SubSeq(orig, rest, strstr(orig, rep, rest) - 1) \o with
           value(count, less) ==
               [rest \in 1..N + 1 |->
                   IF count = 0 THEN SubSeq(orig, rest, N)
                   ELSE front(rest) \o less[strstr(orig, rep, rest) + strlen(rep)]]
<1>3. copy = [count \in 0..N |-> value(count, copy[count - 1])]
  BY <1>1 DEF Copies
<1>v. \A less : \A rest \in 1..N + 1 : value(0, less)[rest] = SubSeq(orig, rest, N)
  OBVIOUS
<1> HIDE DEF front
<1>w. ASSUME NEW less, NEW count \in 1..N, NEW rest \in 1..N + 1
      PROVE  value(count, less)[rest] =
                 front(rest) \o less[strstr(orig, rep, rest) + strlen(rep)]
  <2>1. count # 0
    OBVIOUS
  <2> QED
    BY <2>1
<1> HIDE DEF value
<1>c. \A count \in 0..N : copy[count] = value(count, copy[count - 1])
  BY <1>3
<1>4. \A rest \in 1..N + 1 : copy[0][rest] = SubSeq(orig, rest, N)
  <2>1. 0 \in 0..N
    OBVIOUS
  <2>2. copy[0] = value(0, copy[0 - 1])
    BY <1>c, <2>1
  <2> QED
    BY <1>v, <2>2
<1>5. \A count \in 1..N, rest \in 1..N + 1 :
          copy[count][rest] =
              front(rest) \o copy[count - 1][strstr(orig, rep, rest) + strlen(rep)]
  <2>1. \A count \in 1..N : copy[count] = value(count, copy[count - 1])
    BY <1>c
  <2> QED
    BY <1>w, <2>1
<1> QED
  BY <1>2, <1>4, <1>5 DEF front

-----------------------------------------------------------------------------
(* A command and the places where it was cut.                               *)

\* A text without an @0.
Plain(text) ==
    \A i \in 1..Len(text) - 1 : ~(text[i] = "@" /\ text[i + 1] = "0")

\* A command that is put together of plain pieces, and the texts on the way.
Cut(C, pieces, J) ==
    /\ {"@", "0"} \subseteq C
    /\ pieces \in Seq(Seq(C)) /\ pieces # <<>>
    /\ \A n \in 1..Len(pieces) : Plain(pieces[n])
    /\ JoinedBy(C, pieces, Reference, J)

\* The position at which piece n begins.
begin(pieces, J, n) == Len(J[n]) - Len(pieces[n]) + 1

\* The reference is a text of two characters.
LEMMA ReferenceText ==
    ASSUME NEW C, {"@", "0"} \subseteq C
    PROVE  /\ Reference \in Seq(C) /\ Len(Reference) = 2
           /\ Reference[1] = "@" /\ Reference[2] = "0"
BY DEF Reference

\* A piece and the text up to it.
LEMMA PieceAndText ==
    ASSUME NEW C, NEW pieces, NEW J, Cut(C, pieces, J), NEW n \in 1..Len(pieces)
    PROVE  /\ n \in Nat /\ n <= Len(pieces)
           /\ pieces[n] \in Seq(C) /\ Len(pieces[n]) \in Nat
           /\ J[n] \in Seq(C) /\ Len(J[n]) \in Nat
           /\ Plain(pieces[n])
<1>1. pieces[n] \in Seq(C) /\ Plain(pieces[n])
  BY DEF Cut
<1>2. J[n] \in Seq(C)
  BY DEF Cut, JoinedBy
<1>3. Len(pieces[n]) \in Nat /\ Len(J[n]) \in Nat
  BY <1>1, <1>2
<1>4. n \in Nat /\ n <= Len(pieces)
  BY DEF Cut
<1> QED
  BY <1>1, <1>2, <1>3, <1>4

\* The first text and the last.
LEMMA FirstAndLast ==
    ASSUME NEW C, NEW pieces, NEW J, Cut(C, pieces, J)
    PROVE  /\ Len(pieces) \in Nat \ {0}
           /\ J[1] = pieces[1]
           /\ joined(pieces, Reference) = J[Len(pieces)]
           /\ {"@", "0"} \subseteq C
<1>1. Len(pieces) \in Nat \ {0}
  BY DEF Cut
<1>2. J[1] = pieces[1] /\ joined(pieces, Reference) = J[Len(pieces)]
  BY DEF Cut, JoinedBy
<1>3. {"@", "0"} \subseteq C
  BY DEF Cut
<1> QED
  BY <1>1, <1>2, <1>3

\* A text that goes on with an @0 and a piece.
Extends(longer, text, piece) ==
    /\ Len(longer) = Len(text) + 2 + Len(piece)
    /\ \A i \in 1..Len(text) : longer[i] = text[i]
    /\ longer[Len(text) + 1] = "@" /\ longer[Len(text) + 2] = "0"
    /\ \A i \in 1..Len(piece) : longer[Len(text) + 2 + i] = piece[i]

\* What is put behind a text: the reference and a piece.
LEMMA PutBehind ==
    ASSUME NEW C, {"@", "0"} \subseteq C, NEW a \in Seq(C), NEW p \in Seq(C)
    PROVE  Extends(a \o Reference \o p, a, p)
<1> DEFINE r == Reference
           b == a \o r
<1>r. r \in Seq(C) /\ Len(r) = 2 /\ r[1] = "@" /\ r[2] = "0"
  BY ReferenceText
<1> HIDE DEF r
<1>1. Len(a) \in Nat /\ Len(p) \in Nat /\ Len(a) + 2 \in Nat
  OBVIOUS
<1>2. /\ b \in Seq(C) /\ Len(b) = Len(a) + 2
      /\ \A i \in 1..Len(a) + 2 : b[i] = IF i <= Len(a) THEN a[i] ELSE r[i - Len(a)]
  <2>1. /\ b \in Seq(C) /\ Len(b) = Len(a) + Len(r)
        /\ \A i \in 1..Len(a) + Len(r) :
              b[i] = IF i <= Len(a) THEN a[i] ELSE r[i - Len(a)]
    <3>1. r \in Seq(C)
      BY <1>r
    <3> QED
      BY <3>1, ConcatProperties, Zenon
  <2> QED
    BY <1>r, <2>1
<1> HIDE DEF b
<1>3. /\ Len(b \o p) = Len(b) + Len(p)
      /\ \A i \in 1..Len(b) + Len(p) :
            (b \o p)[i] = IF i <= Len(b) THEN b[i] ELSE p[i - Len(b)]
  <2>1. b \in Seq(C)
    BY <1>2
  <2> QED
    BY <2>1, ConcatProperties, Zenon
<1>4. \A i \in 1..Len(a) + 2 : (b \o p)[i] = b[i]
  <2>1. \A i \in 1..Len(a) + 2 : i \in 1..Len(b) + Len(p) /\ i <= Len(b)
    BY <1>1, <1>2
  <2> QED
    BY <1>3, <2>1
<1>5. \A i \in 1..Len(a) : i \in 1..Len(a) + 2 /\ (b \o p)[i] = a[i]
  <2>1. \A i \in 1..Len(a) : i \in 1..Len(a) + 2 /\ i <= Len(a)
    BY <1>1
  <2> QED
    BY <1>2, <1>4, <2>1
<1>6. (b \o p)[Len(a) + 1] = "@" /\ (b \o p)[Len(a) + 2] = "0"
  <2>1. /\ Len(a) + 1 \in 1..Len(a) + 2 /\ ~(Len(a) + 1 <= Len(a))
        /\ Len(a) + 1 - Len(a) = 1
        /\ Len(a) + 2 \in 1..Len(a) + 2 /\ ~(Len(a) + 2 <= Len(a))
        /\ Len(a) + 2 - Len(a) = 2
    BY <1>1
  <2> QED
    BY <1>r, <1>2, <1>4, <2>1
<1>7. ASSUME NEW i \in 1..Len(p) PROVE (b \o p)[Len(a) + 2 + i] = p[i]
  <2> DEFINE j == Len(a) + 2 + i
  <2>1. j \in 1..Len(b) + Len(p) /\ ~(j <= Len(b)) /\ j - Len(b) = i
    BY <1>1, <1>2
  <2> HIDE DEF j
  <2>2. (b \o p)[j] = p[j - Len(b)]
    BY <1>3, <2>1
  <2> QED
    BY <2>1, <2>2 DEF j
<1>8. Len(b \o p) = Len(a) + 2 + Len(p)
  BY <1>2, <1>3
<1>9. Extends(b \o p, a, p)
  BY <1>5, <1>6, <1>7, <1>8 DEF Extends
<1> QED
  BY <1>9 DEF b, r

\* From one text to the next.
LEMMA NextText ==
    ASSUME NEW C, NEW pieces, NEW J, Cut(C, pieces, J), NEW n \in 1..Len(pieces) - 1
    PROVE  /\ n \in 1..Len(pieces) /\ n + 1 \in 1..Len(pieces)
           /\ Extends(J[n + 1], J[n], pieces[n + 1])
<1>1. n \in 1..Len(pieces) /\ n + 1 \in 1..Len(pieces)
  BY FirstAndLast
<1>2. J[n] \in Seq(C) /\ pieces[n + 1] \in Seq(C)
  BY <1>1, PieceAndText
<1>3. J[n + 1] = J[n] \o Reference \o pieces[n + 1]
  BY DEF Cut, JoinedBy
<1>4. {"@", "0"} \subseteq C
  BY FirstAndLast
<1>5. Extends(J[n] \o Reference \o pieces[n + 1], J[n], pieces[n + 1])
  BY <1>2, <1>4, PutBehind, Zenon
<1> QED
  BY <1>1, <1>3, <1>5

\* A text that begins like another.
BeginsLike(text, longer) ==
    /\ Len(text) <= Len(longer)
    /\ \A i \in 1..Len(text) : longer[i] = text[i]

\* Each text begins like the command.
LEMMA TextBegins ==
    ASSUME NEW C, NEW pieces, NEW J, Cut(C, pieces, J), NEW n \in 1..Len(pieces)
    PROVE  BeginsLike(J[n], J[Len(pieces)])
<1> DEFINE N == Len(pieces)
           S == {m \in 1..N : BeginsLike(J[m], J[N])}
<1>1. N \in Nat \ {0} /\ N \in 1..N
  BY FirstAndLast
<1>2. N \in S
  <2>1. Len(J[N]) \in Nat
    BY <1>1, PieceAndText
  <2>2. BeginsLike(J[N], J[N])
    BY <2>1 DEF BeginsLike
  <2> QED
    BY <1>1, <2>2
<1>3. ASSUME NEW m \in 1..N - 1, m + 1 \in S PROVE m \in S
  <2> DEFINE last == J[N]
             long == J[m + 1]
             short == J[m]
             piece == pieces[m + 1]
  <2>1. m \in 1..N /\ m + 1 \in 1..N /\ Extends(long, short, piece)
    BY NextText
  <2>2. Len(short) \in Nat /\ Len(long) \in Nat /\ Len(piece) \in Nat
        /\ Len(last) \in Nat
    <3>1. Len(short) \in Nat
      BY <2>1, PieceAndText
    <3>2. Len(long) \in Nat /\ Len(piece) \in Nat
      BY <2>1, PieceAndText
    <3>3. Len(last) \in Nat
      BY <1>1, PieceAndText
    <3> QED
      BY <3>1, <3>2, <3>3
  <2>3. BeginsLike(long, last)
    BY <1>3
  <2>4. BeginsLike(short, last)
    <3> HIDE DEF last, long, short, piece
    <3> QED
      BY <2>1, <2>2, <2>3 DEF BeginsLike, Extends
  <2> QED
    BY <2>1, <2>4
<1> HIDE DEF S
<1>4. \A m \in 1..N : m \in S
  BY <1>1, <1>2, <1>3, Descend
<1> QED
  BY <1>4 DEF S

\* Where a piece and the reference behind it are.
PlacedIn(text, pieces, J, n) ==
    LET b == begin(pieces, J, n)
    IN  /\ b \in 1..Len(text) + 1
        /\ Len(J[n]) = b - 1 + Len(pieces[n])
        /\ Len(J[n]) <= Len(text)
        /\ \A i \in 1..Len(pieces[n]) : text[b - 1 + i] = pieces[n][i]
        /\ n # Len(pieces) =>
              /\ text[Len(J[n]) + 1] = "@" /\ text[Len(J[n]) + 2] = "0"
              /\ Len(J[n]) + 2 <= Len(text)
              /\ begin(pieces, J, n + 1) = Len(J[n]) + 3

\* Each is at its place in the command.
LEMMA Places ==
    ASSUME NEW C, NEW pieces, NEW J, Cut(C, pieces, J), NEW n \in 1..Len(pieces)
    PROVE  PlacedIn(J[Len(pieces)], pieces, J, n)
<1> DEFINE N == Len(pieces)
           p == pieces[n]
           t == J[n]
           text == J[N]
           b == begin(pieces, J, n)
<1>n. N \in Nat \ {0} /\ N \in 1..N /\ n \in Nat /\ n <= N
  BY FirstAndLast
<1>1. Len(t) \in Nat /\ Len(p) \in Nat /\ Len(text) \in Nat
  <2>1. Len(t) \in Nat /\ Len(p) \in Nat
    BY PieceAndText
  <2>2. Len(text) \in Nat
    BY <1>n, PieceAndText
  <2> QED
    BY <2>1, <2>2
<1>2. BeginsLike(t, text)
  BY TextBegins
<1>3. b = Len(t) - Len(p) + 1
  BY DEF begin
<1>4. b >= 1 /\ \A i \in 1..Len(p) : t[b - 1 + i] = p[i]
  <2>1. CASE n = 1
    <3>1. t = p
      BY <2>1, FirstAndLast
    <3> HIDE DEF b, t, p
    <3> QED
      BY <1>1, <1>3, <3>1
  <2>2. CASE n # 1
    <3> DEFINE m == n - 1
               short == J[m]
    <3>1. m \in 1..N - 1 /\ m + 1 = n
      BY <1>n, <2>2
    <3> HIDE DEF m
    <3>2. m \in 1..N /\ Extends(J[m + 1], J[m], pieces[m + 1])
      BY <3>1, NextText
    <3>3. Len(short) \in Nat
      BY <3>2, PieceAndText
    <3>4. Extends(t, short, p)
      BY <3>1, <3>2
    <3> HIDE DEF b, t, p, short
    <3> QED
      BY <1>1, <1>3, <3>3, <3>4 DEF Extends
  <2> QED
    BY <2>1, <2>2
<1>5. b \in 1..Len(text) + 1 /\ Len(t) = b - 1 + Len(p) /\ Len(t) <= Len(text)
  <2> HIDE DEF b, t, p, text
  <2> QED
    BY <1>1, <1>2, <1>3, <1>4 DEF BeginsLike
<1>6. \A i \in 1..Len(p) : text[b - 1 + i] = p[i]
  <2> HIDE DEF b, t, p, text
  <2> QED
    BY <1>1, <1>2, <1>4, <1>5 DEF BeginsLike
<1>7. ASSUME n # N
      PROVE  /\ text[Len(t) + 1] = "@" /\ text[Len(t) + 2] = "0"
             /\ Len(t) + 2 <= Len(text)
             /\ begin(pieces, J, n + 1) = Len(t) + 3
  <2> DEFINE long == J[n + 1]
             next == pieces[n + 1]
  <2>1. n \in 1..N - 1
    BY <1>n, <1>7
  <2>2. n + 1 \in 1..N /\ Extends(long, t, next)
    BY <2>1, NextText
  <2>3. BeginsLike(long, text)
    BY <2>2, TextBegins
  <2>4. Len(next) \in Nat /\ Len(long) \in Nat
    BY <2>2, PieceAndText
  <2>5. begin(pieces, J, n + 1) = Len(long) - Len(next) + 1
    BY DEF begin
  <2> HIDE DEF t, text, long, next
  <2> QED
    BY <1>1, <2>2, <2>3, <2>4, <2>5 DEF Extends, BeginsLike
<1> QED
  BY <1>5, <1>6, <1>7 DEF PlacedIn

-----------------------------------------------------------------------------
(* What strstr finds in a command.                                          *)

\* An occurrence of the reference is an @ and a 0 behind it.
LEMMA OccursIn ==
    ASSUME NEW C, NEW text \in Seq(C), NEW i \in 1..Len(text) - 1
    PROVE  occurs_at(text, Reference, i) <=> text[i] = "@" /\ text[i + 1] = "0"
<1> DEFINE two == SubSeq(text, i, i + 1)
<1>1. two \in Seq(C) /\ Len(two) = 2 /\ two[1] = text[i] /\ two[2] = text[i + 1]
  <2> DEFINE j == i + 1
  <2>1. i \in Int /\ j \in Int /\ \A k \in i..j : text[k] \in C
    OBVIOUS
  <2>2. /\ j - i + 1 = 2 /\ i <= j /\ 1 \in 1..2 /\ 2 \in 1..2
        /\ i + 1 - 1 = i /\ i + 2 - 1 = j
    OBVIOUS
  <2>3. /\ SubSeq(text, i, j) \in Seq(C)
        /\ Len(SubSeq(text, i, j)) = IF i <= j THEN j - i + 1 ELSE 0
        /\ \A k \in 1..j - i + 1 : SubSeq(text, i, j)[k] = text[i + k - 1]
    <3> HIDE DEF j
    <3> QED
      BY <2>1, SubSeqProperties
  <2>4. \A k \in 1..2 : SubSeq(text, i, j)[k] = text[i + k - 1]
    BY <2>2, <2>3
  <2> QED
    BY <2>2, <2>3, <2>4
<1> HIDE DEF two
<1>2. two = Reference <=> two[1] = "@" /\ two[2] = "0"
  BY <1>1 DEF Reference
<1>3. occurs_at(text, Reference, i) <=> two = Reference
  BY DEF occurs_at, strlen, Reference, two
<1> QED
  BY <1>1, <1>2, <1>3

\* The numbers of a piece: those of its place, and of the command.
LEMMA Numbers ==
    ASSUME NEW C, NEW pieces, NEW J, Cut(C, pieces, J), NEW n \in 1..Len(pieces)
    PROVE  /\ Len(pieces) \in Nat \ {0} /\ n \in Nat /\ n <= Len(pieces)
           /\ Len(pieces) \in 1..Len(pieces)
           /\ J[Len(pieces)] \in Seq(C) /\ Len(J[Len(pieces)]) \in Nat
           /\ Len(pieces[n]) \in Nat /\ Len(J[n]) \in Nat
           /\ begin(pieces, J, n) \in Nat \ {0}
<1>1. Len(pieces) \in Nat \ {0} /\ Len(pieces) \in 1..Len(pieces)
  BY FirstAndLast
<1>2. n \in Nat /\ n <= Len(pieces)
      /\ Len(pieces[n]) \in Nat /\ Len(J[n]) \in Nat
  BY PieceAndText
<1>3. J[Len(pieces)] \in Seq(C) /\ Len(J[Len(pieces)]) \in Nat
  BY <1>1, PieceAndText
<1>4. begin(pieces, J, n) \in Nat \ {0}
  <2>1. PlacedIn(J[Len(pieces)], pieces, J, n)
    BY Places
  <2> QED
    BY <1>3, <2>1 DEF PlacedIn
<1> QED
  BY <1>1, <1>2, <1>3, <1>4

\* From the beginning of a piece to the reference behind it there is no other.
LEMMA NoneInside ==
    ASSUME NEW C, NEW pieces, NEW J, Cut(C, pieces, J), NEW n \in 1..Len(pieces),
           NEW i \in begin(pieces, J, n)..Len(J[n]), i < Len(J[Len(pieces)])
    PROVE  ~occurs_at(J[Len(pieces)], Reference, i)
<1> DEFINE N == Len(pieces)
           text == J[N]
           p == pieces[n]
           b == begin(pieces, J, n)
           e == Len(J[n])
           k == i - b + 1
<1>1. /\ N \in Nat \ {0} /\ n \in Nat /\ n <= N
      /\ text \in Seq(C) /\ Len(text) \in Nat /\ Len(p) \in Nat /\ e \in Nat
      /\ b \in Nat \ {0}
  BY Numbers
<1>2. PlacedIn(text, pieces, J, n)
  BY Places
<1>3. /\ e = b - 1 + Len(p)
      /\ \A j \in 1..Len(p) : text[b - 1 + j] = p[j]
      /\ n # N => text[e + 1] = "@"
      /\ e <= Len(text)
  BY <1>2 DEF PlacedIn
<1>4. Plain(p)
  BY PieceAndText
<1>5. n = N => e = Len(text)
  OBVIOUS
<1>6. i \in b..e /\ i < Len(text)
  OBVIOUS
<1> HIDE DEF text, p, b, e
<1>7. ~(text[i] = "@" /\ text[i + 1] = "0")
  <2>1. CASE i < e
    <3>1. k \in 1..Len(p) - 1 /\ k \in 1..Len(p) /\ k + 1 \in 1..Len(p)
          /\ b - 1 + k = i /\ b - 1 + (k + 1) = i + 1
      BY <1>1, <1>3, <1>6, <2>1
    <3> HIDE DEF k
    <3>2. text[i] = p[k] /\ text[i + 1] = p[k + 1]
      BY <1>3, <3>1
    <3>3. ~(p[k] = "@" /\ p[k + 1] = "0")
      BY <1>4, <3>1 DEF Plain
    <3> QED
      BY <3>2, <3>3
  <2>2. CASE i = e
    <3>1. n # N
      BY <1>1, <1>5, <1>6, <2>2
    <3> QED
      BY <1>3, <2>2, <3>1
  <2> QED
    BY <1>1, <1>6, <2>1, <2>2
<1>8. i \in 1..Len(text) - 1
  BY <1>1, <1>6
<1>9. ~occurs_at(text, Reference, i)
  BY <1>1, <1>7, <1>8, OccursIn
<1> QED
  BY <1>9 DEF text

\* Between two pieces there is one.
LEMMA OneBetween ==
    ASSUME NEW C, NEW pieces, NEW J, Cut(C, pieces, J), NEW n \in 1..Len(pieces),
           n # Len(pieces)
    PROVE  /\ occurs_at(J[Len(pieces)], Reference, Len(J[n]) + 1)
           /\ Len(J[n]) + 1 \in 1..Len(J[Len(pieces)]) - 1
<1> DEFINE N == Len(pieces)
           text == J[N]
           e == Len(J[n])
<1>1. text \in Seq(C) /\ Len(text) \in Nat /\ e \in Nat
  BY Numbers
<1>2. PlacedIn(text, pieces, J, n)
  BY Places
<1>3. text[e + 1] = "@" /\ text[e + 2] = "0" /\ e + 2 <= Len(text)
  BY <1>2 DEF PlacedIn
<1> HIDE DEF text, e
<1>4. e + 1 \in 1..Len(text) - 1 /\ (e + 1) + 1 = e + 2
  BY <1>1, <1>3
<1>5. occurs_at(text, Reference, e + 1)
  BY <1>1, <1>3, <1>4, OccursIn
<1> QED
  BY <1>4, <1>5 DEF text, e

\* strstr, in the text of all pieces, from where piece n begins on.
FindsNext(text, pieces, J, n) ==
    /\ n # Len(pieces) =>
          /\ strstr(text, Reference, begin(pieces, J, n)) = Len(J[n]) + 1
          /\ strstr(text, Reference, Len(J[n]) + 1) = Len(J[n]) + 1
    /\ n = Len(pieces) => strstr(text, Reference, begin(pieces, J, n)) = 0

\* It finds the reference behind the piece, if there is one, and that one again.
LEMMA FoundNext ==
    ASSUME NEW C, NEW pieces, NEW J, Cut(C, pieces, J), NEW n \in 1..Len(pieces)
    PROVE  FindsNext(J[Len(pieces)], pieces, J, n)
<1> DEFINE N == Len(pieces)
           text == J[N]
           b == begin(pieces, J, n)
           e == Len(J[n])
<1>1. /\ Len(text) \in Nat /\ e \in Nat /\ b \in Nat \ {0}
      /\ n \in Nat /\ N \in Nat
  BY Numbers
<1>2. strlen(text) = Len(text) /\ strlen(Reference) = 2
  BY DEF strlen, Reference
<1>3. \A i \in b..e : i < Len(text) => ~occurs_at(text, Reference, i)
  BY NoneInside
<1>4. b <= e + 1 /\ e <= Len(text)
  <2>1. PlacedIn(text, pieces, J, n)
    BY Places
  <2>2. Len(pieces[n]) \in Nat
    BY Numbers
  <2> QED
    BY <1>1, <2>1, <2>2 DEF PlacedIn
<1>5. n # N => /\ occurs_at(text, Reference, e + 1)
               /\ e + 1 \in 1..Len(text) - 1
  BY OneBetween
<1>6. n = N => e = Len(text)
  OBVIOUS
<1> HIDE DEF text, b, e
<1>7. ASSUME n # N
      PROVE  strstr(text, Reference, b) = e + 1 /\ strstr(text, Reference, e + 1) = e + 1
  <2> DEFINE i == e + 1
  <2>1. /\ i \in b..strlen(text) + 1 - strlen(Reference)
        /\ i \in i..strlen(text) + 1 - strlen(Reference)
        /\ i \in Nat \ {0}
    BY <1>1, <1>2, <1>4, <1>5, <1>7
  <2>2. \A j \in b..i - 1 : ~occurs_at(text, Reference, j)
    BY <1>1, <1>3, <1>4, <1>5, <1>7
  <2>3. \A j \in i..i - 1 : ~occurs_at(text, Reference, j)
    BY <1>1
  <2>4. strlen(text) \in Nat /\ strlen(Reference) \in Nat \ {0}
    BY <1>1, <1>2
  <2>5. occurs_at(text, Reference, i)
    BY <1>5, <1>7
  <2> HIDE DEF i
  <2>6. strstr(text, Reference, b) = i
    BY <1>1, <2>1, <2>2, <2>4, <2>5, FoundThere
  <2>7. strstr(text, Reference, i) = i
    BY <2>1, <2>3, <2>4, <2>5, FoundThere
  <2> QED
    BY <2>6, <2>7 DEF i
<1>8. ASSUME n = N PROVE strstr(text, Reference, b) = 0
  <2> DEFINE found == strstr(text, Reference, b)
  <2>1. strlen(text) \in Nat /\ strlen(Reference) \in Nat \ {0}
    BY <1>1, <1>2
  <2>2. \/ found = 0
        \/ found \in b..strlen(text) + 1 - strlen(Reference)
           /\ occurs_at(text, Reference, found)
    BY <1>1, <2>1, FirstOccurrence
  <2> HIDE DEF found
  <2>3. found # 0 => found \in b..e /\ found < Len(text)
    BY <1>1, <1>2, <1>6, <1>8, <2>2
  <2>4. found = 0
    BY <1>3, <2>2, <2>3
  <2> QED
    BY <2>4 DEF found
<1> QED
  BY <1>7, <1>8 DEF FindsNext, text, b, e

-----------------------------------------------------------------------------
(* What the loops of str_replace do for a command.                          *)

\* The next piece begins behind the reference, the first one at the beginning.
LEMMA Beginnings ==
    ASSUME NEW C, NEW pieces, NEW J, Cut(C, pieces, J), NEW n \in 1..Len(pieces)
    PROVE  /\ begin(pieces, J, 1) = 1
           /\ begin(pieces, J, n) \in 1..Len(J[Len(pieces)]) + 1
           /\ n # Len(pieces) => begin(pieces, J, n + 1) = Len(J[n]) + 3
<1>1. PlacedIn(J[Len(pieces)], pieces, J, n)
  BY Places
<1>2. 1 \in 1..Len(pieces)
  BY FirstAndLast
<1>3. Len(J[1]) \in Nat /\ J[1] = pieces[1]
  BY <1>2, PieceAndText, FirstAndLast
<1>4. begin(pieces, J, 1) = 1
  BY <1>3 DEF begin
<1> QED
  BY <1>1, <1>4 DEF PlacedIn

\* A command has at least as many characters as references.
LEMMA FewReferences ==
    ASSUME NEW C, NEW pieces, NEW J, Cut(C, pieces, J)
    PROVE  Len(pieces) - 1 <= Len(J[Len(pieces)])
<1> DEFINE N == Len(pieces)
           S == {n \in 1..N : n - 1 <= Len(J[n])}
<1>1. N \in Nat \ {0} /\ N \in 1..N /\ \A n \in 1..N : Len(J[n]) \in Nat
  BY FirstAndLast, PieceAndText
<1>2. 1 \in S
  BY <1>1
<1>3. ASSUME NEW n \in 1..N - 1, n \in S PROVE n + 1 \in S
  <2>1. n \in 1..N /\ n + 1 \in 1..N /\ Extends(J[n + 1], J[n], pieces[n + 1])
    BY NextText
  <2>2. Len(J[n + 1]) = Len(J[n]) + 2 + Len(pieces[n + 1])
    BY <2>1 DEF Extends
  <2>3. Len(pieces[n + 1]) \in Nat /\ Len(J[n]) \in Nat /\ n - 1 <= Len(J[n])
    BY <1>3, <2>1, PieceAndText
  <2>4. (n + 1) - 1 <= Len(J[n + 1])
    <3> DEFINE long == Len(J[n + 1])
               short == Len(J[n])
               piece == Len(pieces[n + 1])
    <3>1. n \in Nat /\ short \in Nat /\ piece \in Nat
          /\ long = short + 2 + piece /\ n - 1 <= short
      BY <1>1, <2>2, <2>3
    <3> HIDE DEF long, short, piece
    <3>2. (n + 1) - 1 <= long
      BY <3>1
    <3> QED
      BY <3>2 DEF long
  <2> QED
    BY <2>1, <2>4
<1> HIDE DEF S
<1>4. \A n \in 1..N : n \in S
  BY <1>1, <1>2, <1>3, Climb
<1> QED
  BY <1>1, <1>4 DEF S

\* The loop that counts finds one reference less than there are pieces.
LEMMA ReferencesCounted ==
    ASSUME NEW C, NEW pieces, NEW J, Cut(C, pieces, J), Len(pieces) # 1
    PROVE  occurrences(J[Len(pieces)], Reference) = Len(pieces) - 1
<1> DEFINE N == Len(pieces)
           text == J[N]
           at(n) == begin(pieces, J, n)
           find(from) == strstr(text, Reference, from)
<1>1. N \in Nat /\ N > 1 /\ Len(text) \in Nat
  <2>1. N \in Nat \ {0} /\ N \in 1..N /\ N # 1
    BY FirstAndLast
  <2>2. Len(text) \in Nat
    BY <2>1, Numbers
  <2> HIDE DEF N, text
  <2> QED
    BY <2>1, <2>2
<1>2. strlen(text) = Len(text) /\ strlen(Reference) = 2
  BY DEF strlen, Reference
<1>3. PICK count :
          /\ \A ins \in 1..Len(text) + 1 :
                count[ins] = IF find(ins) = 0 THEN 0 ELSE 1 + count[find(ins) + 2]
          /\ occurrences(text, Reference) = count[find(1)]
  <2>1. strlen(text) \in Nat /\ strlen(Reference) \in Nat \ {0}
    BY <1>1, <1>2
  <2> HIDE DEF text
  <2> QED
    BY <1>2, <2>1, CountsOn
<1>4. \A n \in 1..N : at(n) \in 1..Len(text) + 1
  BY Beginnings
<1>5. \A n \in 1..N - 1 : /\ find(at(n)) = Len(J[n]) + 1
                          /\ find(Len(J[n]) + 1) = Len(J[n]) + 1
                          /\ at(n + 1) = Len(J[n]) + 3
                          /\ Len(J[n]) \in Nat
  <2> SUFFICES ASSUME NEW n \in 1..N - 1
               PROVE  /\ find(at(n)) = Len(J[n]) + 1
                      /\ find(Len(J[n]) + 1) = Len(J[n]) + 1
                      /\ at(n + 1) = Len(J[n]) + 3
                      /\ Len(J[n]) \in Nat
    OBVIOUS
  <2>1. n \in 1..N /\ n # N
    BY <1>1
  <2>2. FindsNext(text, pieces, J, n)
    BY <2>1, FoundNext
  <2>3. at(n + 1) = Len(J[n]) + 3
    BY <2>1, Beginnings
  <2>4. Len(J[n]) \in Nat
    BY <2>1, Numbers
  <2> QED
    BY <2>1, <2>2, <2>3, <2>4 DEF FindsNext
<1>6. find(at(N)) = 0 /\ at(1) = 1
  <2>1. N \in 1..N
    BY <1>1
  <2>2. FindsNext(text, pieces, J, N)
    BY <2>1, FoundNext
  <2>3. at(1) = 1
    BY <2>1, Beginnings
  <2> QED
    BY <2>2, <2>3 DEF FindsNext
<1>7. 1 \in 1..N /\ N \in 1..N /\ 1 \in 1..N - 1 /\ 2 \in 1..N
  BY <1>1
<1> HIDE DEF text, at, find
<1> DEFINE S == {n \in 1..N : count[at(n)] = N - n}
<1>8. N \in S
  BY <1>1, <1>3, <1>4, <1>6, <1>7
<1>9. ASSUME NEW n \in 1..N - 1, n + 1 \in S PROVE n \in S
  <2>1. n \in 1..N /\ n + 1 \in 1..N
    BY <1>1
  <2>2. count[at(n + 1)] = N - (n + 1)
    BY <1>9
  <2>3. find(at(n)) # 0 /\ find(at(n)) + 2 = at(n + 1)
    BY <1>5
  <2>4. count[at(n)] = 1 + count[at(n + 1)]
    BY <1>3, <1>4, <2>1, <2>3
  <2>5. count[at(n)] = N - n
    BY <1>1, <2>2, <2>4
  <2> QED
    BY <2>1, <2>5
<1> HIDE DEF S
<1>10. \A n \in 1..N : n \in S
  BY <1>1, <1>8, <1>9, Descend
<1>11. count[at(2)] = N - 2
  BY <1>7, <1>10 DEF S
<1> DEFINE first == find(1)
<1>12. first # 0 /\ find(first) = first /\ first + 2 = at(2)
       /\ first \in Nat \ {0} /\ at(2) \in 1..Len(text) + 1
  <2>1. first = Len(J[1]) + 1 /\ find(Len(J[1]) + 1) = Len(J[1]) + 1
        /\ at(1 + 1) = Len(J[1]) + 3 /\ Len(J[1]) \in Nat
    BY <1>5, <1>6, <1>7
  <2>2. at(2) \in 1..Len(text) + 1
    BY <1>4, <1>7
  <2> QED
    BY <2>1, <2>2
<1> HIDE DEF first
<1>13. first \in 1..Len(text) + 1
  BY <1>1, <1>12
<1>14. count[first] = 1 + count[at(2)]
  BY <1>3, <1>12, <1>13
<1>15. occurrences(text, Reference) = N - 1
  BY <1>1, <1>3, <1>11, <1>14 DEF first
<1> QED
  BY <1>15 DEF text

\* What stands between the beginning of a piece and its end is the piece.
LEMMA PieceCopied ==
    ASSUME NEW C, NEW pieces, NEW J, Cut(C, pieces, J), NEW n \in 1..Len(pieces)
    PROVE  SubSeq(J[Len(pieces)], begin(pieces, J, n), Len(J[n])) = pieces[n]
<1> DEFINE text == J[Len(pieces)]
           b == begin(pieces, J, n)
           e == Len(J[n])
           p == pieces[n]
           part == SubSeq(text, b, e)
<1>1. /\ text \in Seq(C) /\ Len(text) \in Nat /\ p \in Seq(C) /\ Len(p) \in Nat
      /\ b \in Nat \ {0} /\ e \in Nat
  BY Numbers, PieceAndText
<1>2. /\ e = b - 1 + Len(p) /\ e <= Len(text)
      /\ \A i \in 1..Len(p) : text[b - 1 + i] = p[i]
  <2>1. PlacedIn(text, pieces, J, n)
    BY Places
  <2> QED
    BY <2>1 DEF PlacedIn
<1> HIDE DEF text, b, e, p
<1>3. b \in Int /\ e \in Int /\ \A i \in b..e : text[i] \in C
  BY <1>1, <1>2
<1>4. /\ part \in Seq(C)
      /\ Len(part) = IF b <= e THEN e - b + 1 ELSE 0
      /\ \A i \in 1..e - b + 1 : part[i] = text[b + i - 1]
  BY <1>3, SubSeqProperties
<1> HIDE DEF part
<1>5. Len(part) = Len(p) /\ \A i \in 1..Len(p) : part[i] = p[i]
  <2>1. Len(part) = Len(p) /\ e - b + 1 = Len(p)
    BY <1>1, <1>2, <1>4
  <2>2. \A i \in 1..Len(p) : b + i - 1 = b - 1 + i
    BY <1>1
  <2> QED
    BY <1>2, <1>4, <2>1, <2>2
<1>6. part = p
  BY <1>1, <1>4, <1>5, SeqEqual
<1> QED
  BY <1>6 DEF part, text, b, e, p

\* Whether a piece and the rest may be put behind a text in one or in two steps.
Regroups(with, a, p, rest) ==
    ((a \o with) \o p) \o with \o rest = (a \o with) \o ((p \o with) \o rest)

\* They may.
LEMMA Grouped ==
    ASSUME NEW C, NEW with \in Seq(C), NEW a \in Seq(C), NEW p \in Seq(C),
           NEW rest \in Seq(C)
    PROVE  Regroups(with, a, p, rest)
<1> DEFINE b == a \o with
           q == p \o with
<1>1. b \in Seq(C) /\ q \in Seq(C)
  OBVIOUS
<1>2. (b \o p) \o with = b \o (p \o with)
  <2> HIDE DEF b
  <2> QED
    BY <1>1, ConcatAssociative
<1>3. (b \o q) \o rest = b \o (q \o rest)
  <2> HIDE DEF b, q
  <2> QED
    BY <1>1, ConcatAssociative
<1> QED
  BY <1>2, <1>3 DEF Regroups

\* The loop that copies puts the pieces together again, with what was asked for.
LEMMA PiecesCopied ==
    ASSUME NEW C, NEW pieces, NEW J, Cut(C, pieces, J), Len(pieces) # 1,
           NEW with \in Seq(C), NEW K, JoinedBy(C, pieces, with, K)
    PROVE  copied(J[Len(pieces)], Reference, with) = K[Len(pieces)]
<1> DEFINE N == Len(pieces)
           text == J[N]
           at(n) == begin(pieces, J, n)
           find(from) == strstr(text, Reference, from)
<1>1. N \in Nat /\ N > 1 /\ Len(text) \in Nat
  <2>1. N \in Nat \ {0} /\ N \in 1..N /\ N # 1
    BY FirstAndLast
  <2>2. Len(text) \in Nat
    BY <2>1, Numbers
  <2> HIDE DEF N, text
  <2> QED
    BY <2>1, <2>2
<1>2. strlen(text) = Len(text) /\ strlen(Reference) = 2
  BY DEF strlen, Reference
<1>c. PICK copy :
          /\ \A rest \in 1..strlen(text) + 1 :
                copy[0][rest] = SubSeq(text, rest, strlen(text))
          /\ \A count \in 1..strlen(text), rest \in 1..strlen(text) + 1 :
                copy[count][rest] =
                    SubSeq(text, rest, strstr(text, Reference, rest) - 1) \o with
                        \o copy[count - 1][strstr(text, Reference, rest) + strlen(Reference)]
          /\ copied(text, Reference, with) = copy[occurrences(text, Reference)][1]
  <2>1. strlen(text) \in Nat
    BY <1>1, <1>2
  <2> HIDE DEF text
  <2> QED
    BY <2>1, CopiesOn
<1>3. /\ \A rest \in 1..Len(text) + 1 :
            copy[0][rest] = SubSeq(text, rest, Len(text))
      /\ \A count \in 1..Len(text), rest \in 1..Len(text) + 1 :
            copy[count][rest] =
                SubSeq(text, rest, find(rest) - 1) \o with
                    \o copy[count - 1][find(rest) + 2]
      /\ copied(text, Reference, with) = copy[occurrences(text, Reference)][1]
  <2> HIDE DEF text
  <2> QED
    BY <1>c, <1>2
<1>4. \A n \in 1..N : at(n) \in 1..Len(text) + 1
  BY Beginnings
<1>5. ASSUME NEW n \in 1..N - 1
      PROVE  find(at(n)) = Len(J[n]) + 1 /\ at(n + 1) = Len(J[n]) + 3 /\ Len(J[n]) \in Nat
  <2>1. n \in 1..N /\ n # N
    BY <1>1
  <2>2. FindsNext(text, pieces, J, n)
    BY <2>1, FoundNext
  <2>3. at(n + 1) = Len(J[n]) + 3
    BY <2>1, Beginnings
  <2>4. Len(J[n]) \in Nat
    BY <2>1, Numbers
  <2> QED
    BY <2>1, <2>2, <2>3, <2>4 DEF FindsNext
<1>6. at(1) = 1 /\ 1 \in 1..N /\ N \in 1..N
  <2>1. 1 \in 1..N /\ N \in 1..N
    BY <1>1
  <2> QED
    BY <2>1, Beginnings
<1>7. \A n \in 1..N : SubSeq(text, at(n), Len(J[n])) = pieces[n] /\ pieces[n] \in Seq(C)
  BY PieceCopied, PieceAndText
<1>8. N - 1 <= Len(text) /\ occurrences(text, Reference) = N - 1
  BY FewReferences, ReferencesCounted
<1>9. Len(J[N]) = Len(text)
  OBVIOUS
<1>k. /\ \A n \in 1..N : K[n] \in Seq(C)
      /\ K[1] = pieces[1]
      /\ \A n \in 1..N - 1 : K[n + 1] = K[n] \o with \o pieces[n + 1]
  BY DEF JoinedBy
<1> HIDE DEF text, at, find
<1> DEFINE rest(n) == copy[N - n][at(n)]
           Ends(n) == /\ rest(n) \in Seq(C)
                      /\ K[N] = IF n = 1 THEN rest(n) ELSE K[n - 1] \o with \o rest(n)
           S == {n \in 1..N : Ends(n)}
<1>10. rest(N) = pieces[N]
  <2>1. copy[0][at(N)] = SubSeq(text, at(N), Len(text))
    BY <1>3, <1>4, <1>6
  <2>2. N - N = 0
    BY <1>1
  <2> QED
    BY <1>6, <1>7, <1>9, <2>1, <2>2
<1>11. ASSUME NEW n \in 1..N - 1 PROVE rest(n) = (pieces[n] \o with) \o rest(n + 1)
  <2>1. n \in 1..N /\ N - n \in 1..Len(text) /\ (N - n) - 1 = N - (n + 1)
    BY <1>1, <1>8
  <2>2. find(at(n)) - 1 = Len(J[n]) /\ find(at(n)) + 2 = at(n + 1)
    BY <1>5
  <2>3. copy[N - n][at(n)] = SubSeq(text, at(n), find(at(n)) - 1) \o with
                                 \o copy[(N - n) - 1][find(at(n)) + 2]
    BY <1>3, <1>4, <2>1
  <2> QED
    BY <1>7, <2>1, <2>2, <2>3
<1>k1. \A n \in 2..N : K[n] = K[n - 1] \o with \o pieces[n]
  <2>1. \A n \in 2..N : n - 1 \in 1..N - 1 /\ (n - 1) + 1 = n
    BY <1>1
  <2> QED
    BY <1>k, <2>1
<1> HIDE DEF rest
<1>12. N \in S
  <2>1. N \in 2..N /\ N # 1
    BY <1>1
  <2> QED
    BY <1>6, <1>7, <1>10, <1>k1, <2>1
<1>13. ASSUME NEW n \in 1..N - 1, n + 1 \in S PROVE n \in S
  <2>1. n \in 1..N /\ n + 1 # 1 /\ (n + 1) - 1 = n
    BY <1>1
  <2>2. rest(n + 1) \in Seq(C) /\ K[N] = K[n] \o with \o rest(n + 1)
    BY <1>13, <2>1
  <2>3. pieces[n] \in Seq(C) /\ rest(n) = (pieces[n] \o with) \o rest(n + 1)
    BY <1>7, <1>11, <2>1
  <2>4. rest(n) \in Seq(C)
    BY <2>2, <2>3
  <2>5. CASE n = 1
    <3>1. K[N] = rest(n)
      BY <1>k, <2>2, <2>3, <2>5
    <3> QED
      BY <2>1, <2>4, <2>5, <3>1
  <2>6. CASE n # 1
    <3>1. n \in 2..N /\ n - 1 \in 1..N
      BY <1>1, <2>6
    <3>2. K[n] = K[n - 1] \o with \o pieces[n] /\ K[n - 1] \in Seq(C)
      BY <1>k, <1>k1, <3>1
    <3>3. ((K[n - 1] \o with) \o pieces[n]) \o with \o rest(n + 1)
              = (K[n - 1] \o with) \o ((pieces[n] \o with) \o rest(n + 1))
      <4> DEFINE a == K[n - 1]
                 p == pieces[n]
                 r == rest(n + 1)
      <4>1. a \in Seq(C) /\ p \in Seq(C) /\ r \in Seq(C)
        BY <2>2, <2>3, <3>2
      <4> HIDE DEF a, p, r
      <4>2. Regroups(with, a, p, r)
        BY <4>1, Grouped
      <4> QED
        BY <4>2 DEF Regroups, a, p, r
    <3>4. K[N] = K[n - 1] \o with \o rest(n)
      BY <2>2, <2>3, <3>2, <3>3
    <3> QED
      BY <2>1, <2>4, <2>6, <3>4
  <2> QED
    BY <2>5, <2>6
<1> HIDE DEF S
<1>14. \A n \in 1..N : n \in S
  BY <1>1, <1>12, <1>13, Descend
<1>15. K[N] = rest(1)
  BY <1>6, <1>14 DEF S
<1>16. copied(text, Reference, with) = K[N]
  BY <1>3, <1>6, <1>8, <1>15 DEF rest
<1> QED
  BY <1>16 DEF text

\* How much longer a text is than the one with the references, or shorter.
LongerThan(longer, text, with, references) ==
    Len(longer) = Len(text) + (Len(with) - 2) * references

\* Each reference replaced makes the text longer or shorter by the same amount.
LEMMA LongerByReferences ==
    ASSUME NEW C, NEW pieces, NEW J, Cut(C, pieces, J),
           NEW with \in Seq(C), NEW K, JoinedBy(C, pieces, with, K)
    PROVE  LongerThan(K[Len(pieces)], J[Len(pieces)], with, Len(pieces) - 1)
<1> DEFINE N == Len(pieces)
           d == Len(with) - 2
           j(n) == Len(J[n])
           k(n) == Len(K[n])
           S == {n \in 1..N : k(n) = j(n) + d * (n - 1)}
<1>1. N \in Nat \ {0} /\ 1 \in 1..N /\ N \in 1..N
  BY FirstAndLast
<1>2. d \in Int /\ \A n \in 1..N : j(n) \in Nat /\ k(n) \in Nat
  <2>1. Len(with) \in Nat
    OBVIOUS
  <2>2. \A n \in 1..N : J[n] \in Seq(C) /\ K[n] \in Seq(C)
    BY PieceAndText DEF JoinedBy
  <2>3. \A n \in 1..N : Len(J[n]) \in Nat /\ Len(K[n]) \in Nat
    BY <2>2
  <2> QED
    BY <2>1, <2>3
<1>3. j(1) = k(1)
  BY FirstAndLast DEF JoinedBy
<1>4. ASSUME NEW n \in 1..N - 1 PROVE k(n + 1) - j(n + 1) = k(n) - j(n) + d
  <2>1. n \in 1..N /\ n + 1 \in 1..N /\ Extends(J[n + 1], J[n], pieces[n + 1])
    BY NextText
  <2>2. j(n + 1) = j(n) + 2 + Len(pieces[n + 1])
    BY <2>1 DEF Extends
  <2>3. K[n + 1] = K[n] \o with \o pieces[n + 1]
    BY DEF JoinedBy
  <2>4. K[n] \in Seq(C) /\ pieces[n + 1] \in Seq(C) /\ Len(pieces[n + 1]) \in Nat
    BY <2>1, PieceAndText DEF JoinedBy
  <2>5. k(n + 1) = k(n) + Len(with) + Len(pieces[n + 1])
    <3> DEFINE a == K[n]
               p == pieces[n + 1]
    <3>1. a \in Seq(C) /\ p \in Seq(C)
      BY <2>4
    <3> HIDE DEF a, p
    <3>2. Len(a \o with \o p) = Len(a) + Len(with) + Len(p)
      BY <3>1
    <3> QED
      BY <2>3, <3>2 DEF a, p
  <2>6. Len(with) \in Nat /\ d = Len(with) - 2
    OBVIOUS
  <2>7. j(n) \in Nat /\ k(n) \in Nat
    BY <1>2, <2>1
  <2> DEFINE more == Len(pieces[n + 1])
             w == Len(with)
             below == k(n + 1)
             above == j(n + 1)
  <2>8. /\ more \in Nat /\ w \in Nat /\ d = w - 2 /\ j(n) \in Nat /\ k(n) \in Nat
        /\ above = j(n) + 2 + more /\ below = k(n) + w + more
    BY <2>2, <2>4, <2>5, <2>6, <2>7
  <2> HIDE DEF d, j, k, more, w, above, below
  <2>9. below - above = k(n) - j(n) + d
    BY <2>8
  <2> QED
    BY <2>9 DEF below, above
<1> HIDE DEF d, j, k
<1>5. 1 \in S
  BY <1>1, <1>2, <1>3
<1>6. ASSUME NEW n \in 1..N - 1, n \in S PROVE n + 1 \in S
  <2>1. n \in Nat /\ n \in 1..N /\ n + 1 \in 1..N
    BY <1>1
  <2>2. d * n = d * (n - 1) + d
    BY <1>2, <2>1
  <2>3. k(n) = j(n) + d * (n - 1)
    BY <1>6
  <2>4. k(n + 1) - j(n + 1) = k(n) - j(n) + d
    BY <1>4
  <2>5. /\ k(n + 1) \in Nat /\ j(n + 1) \in Nat /\ k(n) \in Nat /\ j(n) \in Nat
        /\ d \in Int /\ d * (n - 1) \in Int /\ d * n \in Int
    BY <1>2, <2>1
  <2>6. k(n + 1) = j(n + 1) + d * n
    BY <2>2, <2>3, <2>4, <2>5
  <2>7. (n + 1) - 1 = n
    BY <2>1
  <2> QED
    BY <2>1, <2>6, <2>7
<1> HIDE DEF S
<1>7. \A n \in 1..N : n \in S
  BY <1>1, <1>5, <1>6, Climb
<1>8. k(N) = j(N) + d * (N - 1)
  BY <1>1, <1>7 DEF S
<1> QED
  BY <1>8 DEF k, j, d, LongerThan

-----------------------------------------------------------------------------
(* The command line.                                                        *)

\* A command put together of plain pieces with the reference between them is
\* put together of the same pieces with the name of the file between them, and
\* the memory asked for holds it and the byte that ends it, exactly.
THEOREM PlainPiecesAreJoined ==
    ASSUME NEW C, {"@", "0"} \subseteq C,
           NEW pieces \in Seq(Seq(C)), pieces # <<>>,
           \A n \in 1..Len(pieces) : Plain(pieces[n]),
           NEW name \in Seq(C)
    PROVE  IsMadeFrom(pieces, name)
<1> DEFINE N == Len(pieces)
<1>1. Reference \in Seq(C)
  BY ReferenceText
<1>2. PICK J : JoinedBy(C, pieces, Reference, J)
  BY <1>1, JoinedUp
<1>3. PICK K : JoinedBy(C, pieces, name, K)
  BY JoinedUp
<1>4. Cut(C, pieces, J)
  BY <1>2 DEF Cut
<1> DEFINE text == J[N]
           made == command_line(text, name)
<1>5. joined(pieces, Reference) = text /\ joined(pieces, name) = K[N]
  BY <1>2, <1>3 DEF JoinedBy
<1>6. N \in Nat \ {0} /\ 1 \in 1..N /\ N \in 1..N
  BY <1>4, FirstAndLast
<1>7. strstr(text, Reference, 1) # 0 <=> N # 1
  <2>1. FindsNext(text, pieces, J, 1)
    BY <1>4, <1>6, FoundNext
  <2>2. begin(pieces, J, 1) = 1
    BY <1>4, <1>6, Beginnings
  <2>3. Len(J[1]) \in Nat
    BY <1>4, <1>6, Numbers
  <2>4. N # 1 => strstr(text, Reference, 1) = Len(J[1]) + 1
    BY <2>1, <2>2 DEF FindsNext
  <2>5. N = 1 => strstr(text, Reference, 1) = 0
    BY <2>1, <2>2 DEF FindsNext
  <2> HIDE DEF text
  <2> QED
    BY <2>3, <2>4, <2>5
<1>8. made.text = K[N] /\ made.size = Len(K[N]) + 1
  <2>1. CASE N = 1
    <3>1. made = [text |-> text, size |-> strlen(text) + 1]
      BY <1>7, <2>1 DEF command_line
    <3>2. text = pieces[1] /\ K[N] = pieces[1]
      BY <1>2, <1>3, <2>1 DEF JoinedBy
    <3> HIDE DEF made, text
    <3>3. made.text = text /\ made.size = strlen(text) + 1
      BY <3>1
    <3> QED
      BY <3>2, <3>3 DEF strlen
  <2>2. CASE N # 1
    <3>1. made = str_replace(text, Reference, name)
      BY <1>7, <2>2 DEF command_line
    <3>2. made.text = copied(text, Reference, name)
          /\ made.size = malloc_size(text, Reference, name)
      BY <3>1 DEF str_replace
    <3>3. copied(text, Reference, name) = K[N]
      BY <1>3, <1>4, <2>2, PiecesCopied
    <3>4. malloc_size(text, Reference, name) = Len(K[N]) + 1
      <4>1. occurrences(text, Reference) = N - 1
        BY <1>4, <2>2, ReferencesCounted
      <4>2. LongerThan(K[N], text, name, N - 1)
        BY <1>3, <1>4, LongerByReferences
      <4>3. Len(Reference) = 2
        BY ReferenceText
      <4> HIDE DEF text, N
      <4> QED
        BY <4>1, <4>2, <4>3 DEF LongerThan, malloc_size, strlen
    <3> HIDE DEF made
    <3> QED
      BY <3>2, <3>3, <3>4
  <2> QED
    BY <2>1, <2>2
<1> HIDE DEF made
<1>9. command_line(joined(pieces, Reference), name) = made
  BY <1>5 DEF made
<1> QED
  BY <1>5, <1>8, <1>9 DEF IsMadeFrom, strlen

-----------------------------------------------------------------------------
(* Every command is put together of plain pieces.                           *)

\* One piece is a command.
LEMMA JoinedOfOne ==
    ASSUME NEW C, NEW piece \in Seq(C), NEW with \in Seq(C)
    PROVE  joined(<<piece>>, with) = piece
<1> DEFINE pieces == <<piece>>
<1>1. pieces \in Seq(Seq(C)) /\ pieces # <<>> /\ Len(pieces) = 1 /\ pieces[1] = piece
  OBVIOUS
<1> HIDE DEF pieces
<1>2. PICK J : JoinedBy(C, pieces, with, J)
  BY <1>1, JoinedUp
<1>3. joined(pieces, with) = piece
  BY <1>1, <1>2 DEF JoinedBy
<1> QED
  BY <1>3 DEF pieces

\* One piece more, and with before it.
LEMMA JoinedOfAppend ==
    ASSUME NEW C, NEW pieces \in Seq(Seq(C)), pieces # <<>>,
           NEW piece \in Seq(C), NEW with \in Seq(C)
    PROVE  joined(Append(pieces, piece), with) = joined(pieces, with) \o with \o piece
<1> DEFINE N == Len(pieces)
           all == Append(pieces, piece)
<1>1. N \in Nat \ {0} /\ 1 \in 1..N /\ N \in 1..N
  OBVIOUS
<1>2. /\ all \in Seq(Seq(C)) /\ all # <<>> /\ Len(all) = N + 1
      /\ \A n \in 1..N : all[n] = pieces[n]
      /\ all[N + 1] = piece
  BY AppendProperties
<1>3. PICK J : JoinedBy(C, pieces, with, J)
  BY JoinedUp
<1> HIDE DEF all
<1>4. PICK H : JoinedBy(C, all, with, H)
  BY <1>2, JoinedUp
<1>5. /\ H[1] = all[1] /\ joined(all, with) = H[N + 1]
      /\ \A n \in 1..N : H[n + 1] = H[n] \o with \o all[n + 1]
  <2>1. Len(all) - 1 = N
    BY <1>1, <1>2
  <2> QED
    BY <1>2, <1>4, <2>1 DEF JoinedBy
<1>6. /\ J[1] = pieces[1] /\ joined(pieces, with) = J[N]
      /\ \A n \in 1..N - 1 : J[n + 1] = J[n] \o with \o pieces[n + 1]
  BY <1>3 DEF JoinedBy
<1> DEFINE S == {n \in 1..N : H[n] = J[n]}
<1>7. 1 \in S
  BY <1>1, <1>2, <1>5, <1>6
<1>8. ASSUME NEW n \in 1..N - 1, n \in S PROVE n + 1 \in S
  <2>1. n \in 1..N /\ n + 1 \in 1..N
    BY <1>1
  <2>2. H[n] = J[n] /\ all[n + 1] = pieces[n + 1]
    BY <1>2, <1>8, <2>1
  <2>3. H[n + 1] = H[n] \o with \o all[n + 1]
    BY <1>5, <2>1
  <2>4. J[n + 1] = J[n] \o with \o pieces[n + 1]
    BY <1>6
  <2> QED
    BY <2>1, <2>2, <2>3, <2>4
<1> HIDE DEF S, N
<1>9. \A n \in 1..N : n \in S
  BY <1>1, <1>7, <1>8, Climb
<1>10. H[N] = J[N]
  BY <1>1, <1>9 DEF S
<1>11. H[N + 1] = H[N] \o with \o all[N + 1]
  BY <1>1, <1>5
<1>12. joined(all, with) = joined(pieces, with) \o with \o piece
  BY <1>2, <1>5, <1>6, <1>10, <1>11
<1> QED
  BY <1>12 DEF all

\* A text that is put together of plain pieces.
PutTogether(C, text, pieces) ==
    /\ pieces \in Seq(Seq(C)) /\ pieces # <<>>
    /\ \A n \in 1..Len(pieces) : Plain(pieces[n])
    /\ joined(pieces, Reference) = text

\* A text with an @0 is cut at its last one.
LEMMA LastReference ==
    ASSUME NEW C, {"@", "0"} \subseteq C, NEW text \in Seq(C), ~Plain(text)
    PROVE  \E front, rest \in Seq(C) :
              /\ text = front \o Reference \o rest
              /\ Len(front) < Len(text) /\ Plain(rest)
<1> DEFINE N == Len(text)
           Here(i) == text[i] = "@" /\ text[i + 1] = "0"
           Behind == {d \in 0..N : N - d \in 1..N - 1 /\ Here(N - d)}
<1>1. N \in Nat
  OBVIOUS
<1>2. PICK d \in Behind : \A j \in Behind : d <= j
  <2>1. PICK i \in 1..N - 1 : Here(i)
    BY DEF Plain
  <2>2. N - i \in 0..N /\ N - (N - i) = i
    BY <1>1
  <2>3. N - i \in Behind
    BY <2>1, <2>2
  <2>4. Behind \in SUBSET Nat
    OBVIOUS
  <2> HIDE DEF Behind
  <2>5. Behind # {}
    BY <2>3
  <2> QED
    BY <2>4, <2>5, LeastOfNat
<1> DEFINE i == N - d
           front == SubSeq(text, 1, i - 1)
           rest == SubSeq(text, i + 2, N)
<1>3. i \in 1..N - 1 /\ text[i] = "@" /\ text[i + 1] = "0"
  OBVIOUS
<1>4. \A j \in i + 1..N - 1 : ~Here(j)
  <2> SUFFICES ASSUME NEW j \in i + 1..N - 1, Here(j) PROVE FALSE
    OBVIOUS
  <2>1. N - j \in 0..N /\ N - (N - j) = j /\ j \in 1..N - 1 /\ ~(d <= N - j)
    BY <1>1, <1>3
  <2>2. N - j \in Behind
    BY <2>1
  <2> QED
    BY <1>2, <2>1, <2>2
<1> HIDE DEF i, Behind
<1>5. \A k \in 1..N : text[k] \in C
  OBVIOUS
<1>6. front \in Seq(C) /\ Len(front) = i - 1 /\ \A k \in 1..i - 1 : front[k] = text[k]
  <2>1. 1 \in Int /\ i - 1 \in Int /\ \A k \in 1..i - 1 : text[k] \in C
    BY <1>1, <1>3, <1>5
  <2>2. /\ front \in Seq(C)
        /\ Len(front) = IF 1 <= i - 1 THEN i - 1 - 1 + 1 ELSE 0
        /\ \A k \in 1..i - 1 - 1 + 1 : front[k] = text[1 + k - 1]
    BY <2>1, SubSeqProperties
  <2>3. i - 1 - 1 + 1 = i - 1 /\ \A k \in 1..i - 1 : 1 + k - 1 = k
    BY <1>3
  <2> HIDE DEF front
  <2> QED
    BY <1>3, <2>2, <2>3
<1>7. /\ rest \in Seq(C) /\ Len(rest) = N - i - 1
      /\ \A k \in 1..N - i - 1 : rest[k] = text[i + 1 + k]
  <2>1. i + 2 \in Int /\ N \in Int /\ \A k \in i + 2..N : text[k] \in C
    BY <1>1, <1>3, <1>5
  <2>2. /\ rest \in Seq(C)
        /\ Len(rest) = IF i + 2 <= N THEN N - (i + 2) + 1 ELSE 0
        /\ \A k \in 1..N - (i + 2) + 1 : rest[k] = text[i + 2 + k - 1]
    BY <2>1, SubSeqProperties
  <2> HIDE DEF rest
  <2>3. N - (i + 2) + 1 = N - i - 1 /\ (i + 2 <= N \/ N - i - 1 = 0)
    BY <1>1, <1>3
  <2>4. Len(rest) = N - i - 1
    BY <2>2, <2>3
  <2>5. ASSUME NEW k \in 1..N - i - 1 PROVE rest[k] = text[i + 1 + k]
    <3>1. k \in 1..N - (i + 2) + 1 /\ i + 2 + k - 1 = i + 1 + k
      BY <1>1, <1>3
    <3> QED
      BY <2>2, <3>1
  <2> QED
    BY <2>2, <2>4, <2>5
<1> HIDE DEF front, rest
<1>8. Plain(rest)
  <2> SUFFICES ASSUME NEW k \in 1..Len(rest) - 1, rest[k] = "@", rest[k + 1] = "0"
               PROVE  FALSE
    BY DEF Plain
  <2>1. k \in 1..N - i - 1 /\ k + 1 \in 1..N - i - 1
        /\ i + 1 + k \in i + 1..N - 1 /\ i + 1 + (k + 1) = (i + 1 + k) + 1
    BY <1>1, <1>3, <1>7
  <2>2. Here(i + 1 + k)
    BY <1>7, <2>1
  <2> QED
    BY <1>4, <2>1, <2>2
<1>9. text = front \o Reference \o rest
  <2> DEFINE again == front \o Reference \o rest
  <2>1. Extends(again, front, rest)
    BY <1>6, <1>7, PutBehind
  <2>2. again \in Seq(C)
    <3>1. Reference \in Seq(C)
      BY ReferenceText
    <3> QED
      BY <1>6, <1>7, <3>1
  <2> HIDE DEF again
  <2>3. Len(again) = N
    BY <1>1, <1>3, <1>6, <1>7, <2>1 DEF Extends
  <2>4. ASSUME NEW k \in 1..N PROVE text[k] = again[k]
    <3>1. CASE k < i
      BY <1>3, <1>6, <2>1, <3>1 DEF Extends
    <3>2. CASE k = i \/ k = i + 1
      BY <1>3, <1>6, <2>1, <3>2 DEF Extends
    <3>3. CASE k > i + 1
      <4> DEFINE m == k - i - 1
      <4>1. m \in 1..N - i - 1 /\ i + 1 + m = k /\ Len(front) + 2 + m = k
        BY <1>1, <1>3, <1>6, <3>3
      <4> HIDE DEF m
      <4>2. text[k] = rest[m]
        BY <1>7, <4>1
      <4>3. again[k] = rest[m]
        BY <1>7, <2>1, <4>1 DEF Extends
      <4> QED
        BY <4>2, <4>3
    <3> QED
      BY <1>1, <1>3, <3>1, <3>2, <3>3
  <2>5. text = again
    BY <2>2, <2>3, <2>4, SeqEqual
  <2> QED
    BY <2>5 DEF again
<1>10. Len(front) < Len(text)
  BY <1>1, <1>3, <1>6
<1> QED
  BY <1>6, <1>7, <1>8, <1>9, <1>10

\* A text without an @0 is one piece; any other is cut at its last one, and what
\* stands before it is shorter.
LEMMA CanBeCut ==
    ASSUME NEW C, {"@", "0"} \subseteq C, NEW cmd \in Seq(C)
    PROVE  \E pieces : PutTogether(C, cmd, pieces)
<1> DEFINE Whole(text) == \A pieces : ~PutTogether(C, text, pieces)
           Lengths == {l \in Nat : \E text \in Seq(C) : Len(text) = l /\ Whole(text)}
<1> SUFFICES ASSUME Whole(cmd) PROVE FALSE
  OBVIOUS
<1>r. Reference \in Seq(C)
  BY ReferenceText
<1>1. PICK l \in Lengths : \A j \in Lengths : l <= j
  <2>1. Len(cmd) \in Nat
    OBVIOUS
  <2>2. Len(cmd) \in Lengths
    BY <2>1
  <2>3. Lengths \in SUBSET Nat /\ Lengths # {}
    BY <2>2
  <2> QED
    BY <2>3, LeastOfNat
<1>2. PICK text \in Seq(C) : Len(text) = l /\ Whole(text)
  OBVIOUS
<1>3. ~Plain(text)
  <2> SUFFICES ASSUME Plain(text) PROVE FALSE
    OBVIOUS
  <2> DEFINE pieces == <<text>>
  <2>1. joined(pieces, Reference) = text
    BY <1>r, JoinedOfOne
  <2>2. /\ pieces \in Seq(Seq(C)) /\ pieces # <<>>
        /\ \A n \in 1..Len(pieces) : pieces[n] = text
    OBVIOUS
  <2> HIDE DEF pieces
  <2>3. PutTogether(C, text, pieces)
    BY <2>1, <2>2 DEF PutTogether
  <2> QED
    BY <1>2, <2>3
<1>4. PICK front \in Seq(C), rest \in Seq(C) :
          /\ text = front \o Reference \o rest
          /\ Len(front) < Len(text) /\ Plain(rest)
  BY <1>3, LastReference
<1>5. PICK pieces : PutTogether(C, front, pieces)
  <2>1. Len(front) \in Nat /\ Len(text) \in Nat
    OBVIOUS
  <2>2. ~(l <= Len(front))
    BY <1>2, <1>4, <2>1
  <2>3. Len(front) \notin Lengths
    BY <1>1, <2>2
  <2> QED
    BY <2>1, <2>3
<1>6. /\ pieces \in Seq(Seq(C)) /\ pieces # <<>>
      /\ \A n \in 1..Len(pieces) : Plain(pieces[n])
      /\ joined(pieces, Reference) = front
  BY <1>5 DEF PutTogether
<1> DEFINE all == Append(pieces, rest)
<1>7. joined(all, Reference) = front \o Reference \o rest
  BY <1>r, <1>6, JoinedOfAppend
<1>8. /\ all \in Seq(Seq(C)) /\ all # <<>> /\ Len(all) = Len(pieces) + 1
      /\ \A n \in 1..Len(pieces) : all[n] = pieces[n]
      /\ all[Len(pieces) + 1] = rest
  BY <1>6, AppendProperties
<1>9. Len(pieces) \in Nat
  BY <1>6
<1> HIDE DEF all
<1>10. \A n \in 1..Len(all) : Plain(all[n])
  <2>1. \A n \in 1..Len(all) : n \in 1..Len(pieces) \/ n = Len(pieces) + 1
    BY <1>8, <1>9
  <2> QED
    BY <1>4, <1>6, <1>8, <2>1
<1>11. PutTogether(C, text, all)
  BY <1>4, <1>7, <1>8, <1>10 DEF PutTogether
<1> QED
  BY <1>2, <1>11

-----------------------------------------------------------------------------
(* What the shell is given.                                                 *)

\* Every command, of whatever length, has a cut into pieces without an @0 such
\* that, for the name of every file, the shell is given these pieces with the
\* name between them, in memory of just that size: every @0 is replaced, nothing
\* else is, and an @0 in a name stays.
THEOREM EveryCommandIsMade ==
    ASSUME NEW C, {"@", "0"} \subseteq C, NEW cmd \in Seq(C)
    PROVE  \E pieces :
              /\ PutTogether(C, cmd, pieces)
              /\ \A name \in Seq(C) :
                    /\ command_line(cmd, name).text = joined(pieces, name)
                    /\ command_line(cmd, name).size = Len(joined(pieces, name)) + 1
<1>1. PICK pieces : PutTogether(C, cmd, pieces)
  BY CanBeCut
<1>2. ASSUME NEW name \in Seq(C)
      PROVE  /\ command_line(cmd, name).text = joined(pieces, name)
             /\ command_line(cmd, name).size = Len(joined(pieces, name)) + 1
  <2>1. IsMadeFrom(pieces, name)
    BY <1>1, PlainPiecesAreJoined DEF PutTogether
  <2>2. joined(pieces, Reference) = cmd
    BY <1>1 DEF PutTogether
  <2> QED
    BY <2>1, <2>2 DEF IsMadeFrom, strlen
<1> QED
  BY <1>1, <1>2

\* The pieces and names of the runs are texts, and the pieces are plain.
LEMMA PiecesArePlain ==
    /\ {"@", "0"} \subseteq Chars
    /\ \A p \in Pieces : p \in Seq(Chars) /\ Plain(p)
    /\ NamesOfFiles \subseteq Seq(Chars)
<1>1. {"@", "0"} \subseteq Chars /\ "x" \in Chars
  BY DEF Chars
<1>2. ASSUME NEW p \in Pieces PROVE p \in Seq(Chars) /\ Plain(p)
  <2>1. PICK len \in 0..2 : p \in [1..len -> Chars]
    BY DEF Pieces
  <2>2. p \in Seq(Chars) /\ Len(p) = len /\ p # Reference
    BY <2>1 DEF Pieces
  <2>3. ASSUME NEW i \in 1..Len(p) - 1, p[i] = "@", p[i + 1] = "0" PROVE FALSE
    <3>1. i = 1 /\ Len(p) = 2
      BY <2>1, <2>2, <2>3
    <3>2. p[1] = "@" /\ p[2] = "0"
      BY <2>3, <3>1
    <3>3. p = Reference
      BY <2>2, <3>1, <3>2 DEF Reference
    <3> QED
      BY <2>2, <3>3
  <2> QED
    BY <2>2, <2>3 DEF Plain
<1>3. NamesOfFiles \subseteq Seq(Chars)
  BY <1>1 DEF NamesOfFiles
<1> QED
  BY <1>1, <1>2, <1>3

\* Whenever system() runs, the command it is given was cut at its @0s and put
\* together with the name of the file, in memory of just that size.
THEOREM ReferencesReplaced == Spec => []EveryReferenceIsReplaced
<1>1. MadeFromPieces
  <2> SUFFICES ASSUME NEW len \in 1..3, NEW pieces \in [1..len -> Pieces],
                      NEW name \in NamesOfFiles
               PROVE  IsMadeFrom(pieces, name)
    BY DEF MadeFromPieces
  <2>1. \A n \in 1..len : pieces[n] \in Seq(Chars) /\ Plain(pieces[n])
    BY PiecesArePlain
  <2>2. pieces \in Seq(Seq(Chars)) /\ Len(pieces) = len /\ pieces # <<>>
    BY <2>1
  <2>3. name \in Seq(Chars) /\ {"@", "0"} \subseteq Chars
    BY PiecesArePlain
  <2> QED
    BY <2>1, <2>2, <2>3, PlainPiecesAreJoined
<1>2. EveryReferenceIsReplaced
  BY <1>1 DEF EveryReferenceIsReplaced
<1> QED
  BY <1>2, PTL
=============================================================================
