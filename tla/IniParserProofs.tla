--------------------------- MODULE IniParserProofs ---------------------------
(***************************************************************************)
(* What iniparser_load makes of a file, for any words, any values, any     *)
(* lines and files of any length.                                          *)
(***************************************************************************)
EXTENDS IniParser, WellFoundedInduction, TLAPS

-----------------------------------------------------------------------------
(* The last line of a set of lines.                                         *)

\* A set of lines that is not empty has a last one.
LEMMA LastExists ==
    ASSUME NEW n \in Nat, NEW S \in SUBSET (1..n), S # {}
    PROVE  \E i \in S : \A j \in S : j <= i
<1> DEFINE T == {t \in Nat : \E i \in S : t = n - i}
           less == OpToRel(<, Nat)
<1>1. T \in SUBSET Nat /\ T # {}
  <2>1. PICK i \in S : TRUE
    OBVIOUS
  <2>2. n - i \in T
    BY <2>1
  <2> QED
    BY <2>2
<1>2. PICK t \in T : \A u \in T : <<u, t>> \notin less
  BY <1>1, NatLessThanWellFounded, WFMin
<1>3. \A u \in T : ~(u < t)
  BY <1>1, <1>2 DEF OpToRel
<1>4. PICK i \in S : t = n - i
  BY <1>2
<1>5. ASSUME NEW j \in S PROVE j <= i
  <2>1. n - j \in T
    OBVIOUS
  <2>2. ~(n - j < n - i)
    BY <1>3, <1>4, <2>1
  <2>3. i \in Nat /\ j \in Nat
    OBVIOUS
  <2> QED
    BY <2>2, <2>3
<1> QED
  BY <1>5

\* lastOf is the last line of a set.
LEMMA LastOfSet ==
    ASSUME NEW n \in Nat, NEW S \in SUBSET (1..n), S # {}
    PROVE  lastOf(S) \in S /\ \A j \in S : j <= lastOf(S)
BY LastExists DEF lastOf

\* A line that is behind all others is the last.
LEMMA LastIs ==
    ASSUME NEW n \in Nat, NEW S \in SUBSET (1..n), n \in S
    PROVE  lastOf(S) = n
<1>1. S # {}
  OBVIOUS
<1>2. lastOf(S) \in S /\ n <= lastOf(S)
  BY <1>1, LastOfSet
<1>3. lastOf(S) \in 1..n
  BY <1>2
<1> QED
  BY <1>2, <1>3

-----------------------------------------------------------------------------
(* What a file says when a line is added to it.                             *)

\* A line of the file says something.
Speaks(l) == l.ends = "newline" /\ l.statement # Empty

Reads(l) == l \in Lines /\ read \in Seq(Lines) /\ read' = Append(read, l)

\* What has been read grows by one line.
LEMMA ReadLines ==
    ASSUME NEW l, Reads(l)
    PROVE  /\ Len(read) \in Nat /\ Len(read') = Len(read) + 1
           /\ DOMAIN read = 1..Len(read) /\ DOMAIN read' = 1..Len(read) + 1
           /\ \A i \in 1..Len(read) : read'[i] = read[i]
           /\ read'[Len(read) + 1] = l
           /\ read' \in Seq(Lines) /\ read' # <<>>
BY DEF Reads

\* The lines that say something grow by the new one if it says something.
LEMMA SaidAfter ==
    ASSUME NEW l, Reads(l)
    PROVE  /\ said \subseteq 1..Len(read)
           /\ said' = IF Speaks(l) THEN said \cup {Len(read) + 1} ELSE said
BY ReadLines DEF said, speaks, Speaks

\* Lines before the new one are in the section they were in.
LEMMA SectionsBefore ==
    ASSUME NEW l, Reads(l)
    PROVE  \A i \in 1..Len(read) : sectionAt(i)' = sectionAt(i)
<1> SUFFICES ASSUME NEW i \in 1..Len(read)
             PROVE  sectionAt(i)' = sectionAt(i)
  OBVIOUS
<1> DEFINE H == {j \in said : j <= i /\ read[j].statement.is = "section"}
<1>1. H' = H
  BY SaidAfter, ReadLines
<1>2. H # {} => lastOf(H) \in 1..Len(read)
  BY SaidAfter, ReadLines, LastOfSet
<1>3. H # {} => read'[lastOf(H)] = read[lastOf(H)]
  BY <1>2, ReadLines
<1>4. sectionAt(i) = IF H = {} THEN NoSection ELSE Lwc[read[lastOf(H)].statement.name]
  BY DEF sectionAt
<1>5. sectionAt(i)' = IF H' = {} THEN NoSection ELSE Lwc[read'[lastOf(H')].statement.name]
  BY DEF sectionAt
<1> HIDE DEF H
<1> QED
  BY <1>1, <1>3, <1>4, <1>5

IsHeader(l) == Speaks(l) /\ l.statement.is = "section"

\* The section that a new line, number n + 1, is in.
LEMMA SectionOfNewLine ==
    ASSUME NEW l, Reads(l), NEW CONSTANT n \in Nat, n = Len(read)
    PROVE  sectionAt(n + 1)' =
               IF IsHeader(l) THEN Lwc[l.statement.name] ELSE sectionAt(n)
<1> DEFINE H == {j \in said : j <= n /\ read[j].statement.is = "section"}
           K == {j \in said' : j <= n + 1 /\ read'[j].statement.is = "section"}
<1>1. K = IF IsHeader(l) THEN H \cup {n + 1} ELSE H
  BY SaidAfter, ReadLines DEF IsHeader
<1>2. H \subseteq 1..n
  BY SaidAfter
<1>3. sectionAt(n) = IF H = {} THEN NoSection ELSE Lwc[read[lastOf(H)].statement.name]
  BY DEF sectionAt
<1>4. sectionAt(n + 1)' = IF K = {} THEN NoSection ELSE Lwc[read'[lastOf(K)].statement.name]
  BY DEF sectionAt
<1>5. CASE IsHeader(l)
  <2>1. n + 1 \in K /\ K \subseteq 1..n + 1 /\ n + 1 \in Nat
    BY <1>1, <1>2, <1>5, ReadLines
  <2>2. lastOf(K) = n + 1
    BY <2>1, LastIs
  <2>3. read'[n + 1] = l
    BY ReadLines
  <2> HIDE DEF K
  <2> QED
    BY <1>4, <1>5, <2>1, <2>2, <2>3
<1>6. CASE ~IsHeader(l)
  <2>1. K = H
    BY <1>1, <1>6
  <2>2. H # {} => lastOf(H) \in 1..n
    BY <1>2, ReadLines, LastOfSet
  <2>3. H # {} => read'[lastOf(H)] = read[lastOf(H)]
    BY <2>2, ReadLines
  <2> HIDE DEF H, K
  <2> QED
    BY <1>3, <1>4, <1>6, <2>1, <2>3
<1> QED
  BY <1>5, <1>6

\* The new line, number n + 1, gives key k of section s a value.
Sets(l, n, s, k) ==
    /\ Speaks(l) /\ l.statement.is = "value"
    /\ Lwc[l.statement.key] = Lwc[k]
    /\ sectionAt(n) = Lwc[s]

\* What the file says of a key is what it said before, or the new line says.
LEMMA ValueAfter ==
    ASSUME NEW l, Reads(l), NEW CONSTANT n \in Nat, n = Len(read),
           NEW CONSTANT s \in Words, NEW CONSTANT k \in Words
    PROVE  valueInFile(s, k)' =
               IF Sets(l, n, s, k) THEN l.statement.val ELSE valueInFile(s, k)
<1> DEFINE S == settersOf(s, k)
           T == settersOf(s, k)'
<1>1. S \subseteq 1..n
  BY SaidAfter DEF settersOf
<1>2. l.statement.is = "value" => sectionAt(n + 1)' = sectionAt(n)
  BY SectionOfNewLine DEF IsHeader
<1>3. T = IF Sets(l, n, s, k) THEN S \cup {n + 1} ELSE S
  <2>1. T = {i \in said' : /\ read'[i].statement.is = "value"
                            /\ Lwc[read'[i].statement.key] = Lwc[k]
                            /\ sectionAt(i)' = Lwc[s]}
    BY DEF settersOf
  <2>2. S = {i \in said : /\ read[i].statement.is = "value"
                          /\ Lwc[read[i].statement.key] = Lwc[k]
                          /\ sectionAt(i) = Lwc[s]}
    BY DEF settersOf
  <2>3. \A i \in 1..n : read'[i] = read[i] /\ sectionAt(i)' = sectionAt(i)
    BY ReadLines, SectionsBefore
  <2>4. \A i \in 1..n : i \in T <=> i \in S
    BY <2>1, <2>2, <2>3, SaidAfter, ReadLines
  <2>5. n + 1 \in T <=> Sets(l, n, s, k)
    <3>1. n + 1 \in said' <=> Speaks(l)
      BY SaidAfter, ReadLines
    <3>2. read'[n + 1] = l
      BY ReadLines
    <3>3. n + 1 \in T <=> /\ n + 1 \in said'
                          /\ read'[n + 1].statement.is = "value"
                          /\ Lwc[read'[n + 1].statement.key] = Lwc[k]
                          /\ sectionAt(n + 1)' = Lwc[s]
      BY <2>1
    <3> HIDE DEF S, T
    <3> QED
      BY <1>2, <3>1, <3>2, <3>3 DEF Sets
  <2>6. T \subseteq 1..n + 1
    BY <2>1, SaidAfter, ReadLines
  <2>7. \A i \in 1..n + 1 : i \in 1..n \/ i = n + 1
    OBVIOUS
  <2>8. n + 1 \notin 1..n
    OBVIOUS
  <2> HIDE DEF S, T
  <2>9. ASSUME Sets(l, n, s, k) PROVE T = S \cup {n + 1}
    BY <1>1, <2>4, <2>5, <2>6, <2>7, <2>8, <2>9
  <2>10. ASSUME ~Sets(l, n, s, k) PROVE T = S
    BY <1>1, <2>4, <2>5, <2>6, <2>7, <2>8, <2>10
  <2> QED
    BY <2>9, <2>10
<1>4. valueInFile(s, k) =
          IF S = {} THEN DICT_INVALID_KEY ELSE read[lastOf(S)].statement.val
  BY DEF valueInFile
<1>5. valueInFile(s, k)' =
          IF T = {} THEN DICT_INVALID_KEY ELSE read'[lastOf(T)].statement.val
  BY DEF valueInFile
<1> HIDE DEF S, T
<1>6. CASE Sets(l, n, s, k)
  <2>1. n + 1 \in T /\ T \subseteq 1..n + 1 /\ n + 1 \in Nat
    <3>1. T = S \cup {n + 1}
      BY <1>3, <1>6
    <3>2. \A i \in S : i \in 1..n + 1
      BY <1>1
    <3> QED
      BY <3>1, <3>2
  <2>2. lastOf(T) = n + 1
    BY <2>1, LastIs
  <2>3. read'[n + 1] = l
    BY ReadLines
  <2> QED
    BY <1>5, <1>6, <2>1, <2>2, <2>3
<1>7. CASE ~Sets(l, n, s, k)
  <2>1. T = S
    BY <1>3, <1>7
  <2>2. S # {} => lastOf(S) \in 1..n
    BY <1>1, ReadLines, LastOfSet
  <2>3. S # {} => read'[lastOf(S)] = read[lastOf(S)]
    BY <2>2, ReadLines
  <2> QED
    BY <1>4, <1>5, <1>7, <2>1, <2>3
<1> QED
  BY <1>6, <1>7

\* The file ends in an error if its last line that says something is one.
LEMMA EndAfter ==
    ASSUME NEW l, Reads(l)
    PROVE  endsInError' <=> IF Speaks(l) THEN l.statement = Error ELSE endsInError
<1> DEFINE n == Len(read)
<1>1. CASE Speaks(l)
  <2>1. n + 1 \in said' /\ said' \subseteq 1..n + 1 /\ n + 1 \in Nat
    BY <1>1, SaidAfter, ReadLines
  <2>2. lastOf(said') = n + 1
    BY <2>1, LastIs
  <2> QED
    BY <1>1, <2>1, <2>2, ReadLines DEF endsInError
<1>2. CASE ~Speaks(l)
  <2>1. said' = said
    BY <1>2, SaidAfter
  <2>2. said # {} => lastOf(said) \in 1..n
    BY SaidAfter, ReadLines, LastOfSet
  <2>3. said # {} => read'[lastOf(said)] = read[lastOf(said)]
    BY <2>2, ReadLines
  <2> QED
    BY <1>2, <2>1, <2>3 DEF endsInError
<1> QED
  BY <1>1, <1>2
-----------------------------------------------------------------------------
(* Lines, statements and names.                                             *)

\* The ways a line ends.
LEMMA LineKinds ==
    ASSUME NEW l \in Lines
    PROVE  /\ l.ends \in {"blank", "short", "too_long", "backslash", "newline"}
           /\ l.ends = "newline" => l.statement \in Statements
           /\ l.ends = "too_long" => l = TooLong
BY DEF Lines, Blank, Short, TooLong, Joined, Line

\* What a line may say.
LEMMA StatementKinds ==
    ASSUME NEW st \in Statements
    PROVE  /\ st.is \in {"empty", "error", "unnamed", "section", "value"}
           /\ st.is = "empty" <=> st = Empty
           /\ st.is = "error" <=> st = Error
           /\ st.is = "section" => st.name \in Words
           /\ st.is = "value" => st.key \in Words /\ st.val \in Vals
BY DEF Statements, Empty, Error, Unnamed, Section, Value

\* Names in lower case stay in lower case, and a key is not a section.
LEMMA LowerCase ==
    /\ \A w \in Words : Lwc[w] \in Words /\ Lwc[Lwc[w]] = Lwc[w]
    /\ \A s, k \in Words : <<Lwc[s], Lwc[k]>> \in ValueKeys
BY IniParserAssumption DEF ValueKeys

\* The key of a section is not that of a value.
LEMMA SectionKey ==
    ASSUME NEW s \in Words \cup {NoSection}
    PROVE  <<s>> \in SectionKeys /\ \A t, k : <<s>> # <<t, k>>
BY DEF SectionKeys

-----------------------------------------------------------------------------
(* Entering a key.                                                          *)

AllKeys  == SectionKeys \cup ValueKeys
MapValues == Vals \cup {NULL, DICT_INVALID_KEY}

\* A key was entered into the map, or its value was lost for want of memory.
Entered(k, v) ==
    /\ pc' = "reading" /\ errs' = 0 /\ state' = "live"
    /\ \A j \in AllKeys : j # k => map'[j] = map[j]
    /\ map'[k] = v \/ (starved' /\ map'[k] \in {NULL, DICT_INVALID_KEY})
    /\ starved => starved'

\* dictionary_set enters the key, fails, or kills the process.
LEMMA EnterEnds ==
    ASSUME TypeOK, pc = "reading", NEW k \in AllKeys, NEW v \in Vals \cup {NULL},
           enter(k, v)
    PROVE  /\ map' \in [AllKeys -> MapValues] /\ starved' \in BOOLEAN
           /\ \/ Entered(k, v)
              \/ pc' = "end" /\ errs' = -1 /\ state' = "failed"
              \/ pc' = "crashed" /\ errs' = errs /\ state' = "crashed"
<1>1. map \in [AllKeys -> MapValues] /\ starved \in BOOLEAN
  BY DEF TypeOK, AllKeys, MapValues
<1>2. CASE /\ Dict!set(k, v)
           /\ errs' = ret'
           /\ pc' = IF errs' < 0 THEN "end" ELSE "reading"
           /\ starved' = (starved \/ (map')[k] # v)
  <2>1. ret' = 0 /\ state' = "live" /\ errs' = 0 /\ pc' = "reading"
    BY <1>2 DEF Dict!set
  <2>2. \/ map' = [map EXCEPT ![k] = v]
        \/ map' = [map EXCEPT ![k] = NULL]
        \/ map[k] = DICT_INVALID_KEY /\ map' = map
    BY <1>2 DEF Dict!set, Dict!store
  <2>3. /\ map' \in [AllKeys -> MapValues]
        /\ \A j \in AllKeys : j # k => map'[j] = map[j]
        /\ map'[k] = v \/ map'[k] \in {NULL, DICT_INVALID_KEY}
    BY <1>1, <2>2 DEF MapValues
  <2>4. starved' \in BOOLEAN /\ (starved => starved') /\ (map'[k] # v => starved')
    BY <1>1, <1>2
  <2> QED
    BY <2>1, <2>3, <2>4 DEF Entered
<1>3. CASE /\ Dict!set_fails
           /\ errs' = ret'
           /\ pc' = IF errs' < 0 THEN "end" ELSE "reading"
           /\ starved' = (starved \/ (map')[k] # v)
  <2>1. errs' = -1 /\ state' = "failed" /\ map' = map /\ pc' = "end"
    BY <1>3 DEF Dict!set_fails
  <2>2. starved' \in BOOLEAN
    BY <1>1, <1>3
  <2> QED
    BY <1>1, <2>1, <2>2
<1>4. CASE Dict!crash /\ pc' = "crashed" /\ UNCHANGED <<errs, starved>>
  BY <1>1, <1>4 DEF Dict!crash
<1> QED
  BY <1>2, <1>3, <1>4 DEF enter
LoadType ==
    /\ map' \in [AllKeys -> MapValues] /\ starved' \in BOOLEAN
    /\ section' \in {Lwc[w] : w \in Words} \cup {NoSection}
    /\ errs' \in -1..errs + 1
    /\ \/ pc' = "reading" /\ state' = "live" /\ errs' >= 0
       \/ pc' = "end" /\ state' = "failed" /\ errs' < 0
       \/ pc' = "crashed" /\ state' = "crashed"

\* An entry keeps the types, and one that fails is counted as an error.
LEMMA EnterType ==
    ASSUME TypeOK, OwnerInv, pc = "reading",
           NEW k \in AllKeys, NEW v \in Vals \cup {NULL}, enter(k, v),
           section' \in {Lwc[w] : w \in Words} \cup {NoSection}
    PROVE  LoadType
<1>1. /\ map' \in [AllKeys -> MapValues]
      /\ \/ Entered(k, v)
         \/ pc' = "end" /\ errs' = -1 /\ state' = "failed"
         \/ pc' = "crashed" /\ errs' = errs /\ state' = "crashed"
  BY EnterEnds
<1>2. starved' \in BOOLEAN
  BY EnterEnds
<1>3. errs \in Nat
  BY DEF TypeOK, OwnerInv
<1>4. /\ errs' \in -1..errs + 1
      /\ \/ pc' = "reading" /\ state' = "live" /\ errs' >= 0
         \/ pc' = "end" /\ state' = "failed" /\ errs' < 0
         \/ pc' = "crashed" /\ state' = "crashed"
  BY <1>1, <1>3 DEF Entered
<1> QED
  BY <1>1, <1>2, <1>4 DEF LoadType

\* The key that a section or a value enters is one of the dictionary's.
LEMMA StatementKey ==
    ASSUME TypeOK, NEW st \in Statements, enter_statement(st),
           st.is \in {"section", "unnamed", "value"}
    PROVE  /\ section' \in {Lwc[w] : w \in Words} \cup {NoSection}
           /\ \E k \in AllKeys, v \in Vals \cup {NULL} : enter(k, v)
<1>1. /\ section \in {Lwc[w] : w \in Words} \cup {NoSection}
      /\ {Lwc[w] : w \in Words} \cup {NoSection} \subseteq Words \cup {NoSection}
  BY LowerCase DEF TypeOK
<1>2. CASE st.is \in {"section", "unnamed"}
  <2>1. section' = section_name(st) /\ enter(<<section'>>, NULL)
    BY <1>2 DEF enter_statement
  <2>2. section' \in {Lwc[w] : w \in Words} \cup {NoSection}
    BY <1>1, <2>1, StatementKinds DEF section_name
  <2>3. <<section'>> \in AllKeys
    BY <1>1, <2>2, SectionKey DEF AllKeys
  <2> QED
    BY <2>1, <2>2, <2>3
<1>3. CASE st.is = "value"
  <2>1. enter(<<section, Lwc[st.key]>>, st.val) /\ section' = section
    BY <1>3 DEF enter_statement
  <2>2. <<section, Lwc[st.key]>> \in AllKeys /\ st.val \in Vals
    BY <1>1, <1>3, StatementKinds, LowerCase DEF AllKeys, ValueKeys
  <2> QED
    BY <1>1, <2>1, <2>2
<1> QED
  BY <1>2, <1>3

\* A statement is entered, or ends iniparser_load.
LEMMA StatementType ==
    ASSUME TypeOK, OwnerInv, pc = "reading", NEW st \in Statements,
           enter_statement(st)
    PROVE  LoadType
<1>1. CASE st.is \in {"empty", "error"}
  <2>1. /\ UNCHANGED <<dictVars, pc, section, starved>>
        /\ errs' \in {errs, errs + 1}
    BY <1>1 DEF enter_statement
  <2>2. /\ map \in [AllKeys -> MapValues] /\ errs \in Nat /\ state = "live"
        /\ section \in {Lwc[w] : w \in Words} \cup {NoSection}
    BY DEF TypeOK, OwnerInv, AllKeys, MapValues
  <2>3. starved \in BOOLEAN
    BY DEF TypeOK
  <2> QED
    BY <2>1, <2>2, <2>3 DEF LoadType, dictVars
<1>2. CASE st.is \in {"section", "unnamed", "value"}
  BY <1>2, StatementKey, EnterType
<1> QED
  BY <1>1, <1>2, StatementKinds

-----------------------------------------------------------------------------
(* Reading a line.                                                          *)

\* What a line that is read as `seen` does.
Reading(seen) ==
    \/ seen.ends = "short" /\ skip_line
    \/ seen.ends = "blank" /\ blank_line
    \/ seen.ends = "newline" /\ complete_line(seen.statement)
    \/ seen.ends = "backslash" /\ continued_line
    \/ seen.ends = "too_long" /\ line_too_long

\* What a step of the loop reads, and what it takes it for.
LEMMA ReadLineStep ==
    ASSUME IInv, NEW l \in Lines, read_line(l)
    PROVE  /\ Reads(l) /\ pc = "reading" /\ Len(read) < MaxLines
           /\ stray' \in BOOLEAN
           /\ \E seen \in Lines : (~shifted => seen = l) /\ Reading(seen)
<1>1. read \in Seq(Lines) /\ stray \in BOOLEAN
  BY DEF IInv, TypeOK
<1>2. stray' \in BOOLEAN
  BY <1>1 DEF read_line
<1>3. \E seen \in Lines : (~shifted => seen = l) /\ Reading(seen)
  BY DEF read_line, Reading
<1> QED
  BY <1>1, <1>2, <1>3 DEF read_line, Reads

\* dictionary_del, after which there is a result.
LEMMA GiveUp ==
    ASSUME give_up
    PROVE  /\ UNCHANGED <<map, ret>>
           /\ \/ pc' = "failed" /\ state' = "deleted"
              \/ pc' = "crashed" /\ state' = "crashed"
BY DEF give_up, Dict!del, Dict!crash

\* Every line leaves the variables in their types and the dictionary owned.
LEMMA ReadLineType ==
    ASSUME IInv, NEW l \in Lines, read_line(l)
    PROVE  TypeOK' /\ OwnerInv' /\ (shifted' => odd')
<1>1. /\ Reads(l) /\ pc = "reading" /\ Len(read) < MaxLines
      /\ stray' \in BOOLEAN
  BY ReadLineStep
<1>2. PICK seen \in Lines : (~shifted => seen = l) /\ Reading(seen)
  BY ReadLineStep
<1>3. /\ read' \in Seq(Lines) /\ read' # <<>> /\ Len(read') = Len(read) + 1
      /\ Len(read) \in Nat
  BY <1>1, ReadLines
<1>4. /\ map \in [AllKeys -> MapValues] /\ state = "live"
      /\ errs \in Nat /\ errs <= Len(read) /\ MaxLines \in Nat
      /\ section \in {Lwc[w] : w \in Words} \cup {NoSection}
      /\ shifted => odd
  BY <1>1, IniParserAssumption DEF IInv, TypeOK, OwnerInv, ErrorInv, AllKeys, MapValues
<1>5. stray \in BOOLEAN /\ shifted \in BOOLEAN /\ odd \in BOOLEAN
  BY DEF IInv, TypeOK
<1>6. starved \in BOOLEAN
  BY DEF IInv, TypeOK
<1>7. ASSUME LoadType, shifted' \in BOOLEAN, odd' \in BOOLEAN
      PROVE  TypeOK' /\ OwnerInv'
  <2>1. /\ errs' \in -1..MaxLines /\ errs' <= Len(read')
        /\ pc' \in {"reading", "end", "crashed"}
        /\ state' \in {"live", "failed", "crashed"}
        /\ pc' = "reading" => state' = "live" /\ errs' >= 0
        /\ pc' = "end" => state' = "failed" /\ errs' < 0
    BY <1>1, <1>3, <1>4, <1>7 DEF LoadType
  <2>2. /\ map' \in [AllKeys -> MapValues]
        /\ section' \in {Lwc[w] : w \in Words} \cup {NoSection}
    BY <1>7 DEF LoadType
  <2>3. starved' \in BOOLEAN
    BY <1>7 DEF LoadType
  <2>4. TypeOK'
    BY <1>1, <1>3, <1>7, <2>1, <2>2, <2>3 DEF TypeOK, AllKeys, MapValues
  <2>5. OwnerInv'
    BY <1>1, <1>3, <1>4, <2>1 DEF OwnerInv
  <2> QED
    BY <2>4, <2>5
<1>8. ASSUME UNCHANGED <<dictVars, pc, errs, section, starved>>
      PROVE  LoadType
  BY <1>1, <1>4, <1>6, <1>8 DEF LoadType, dictVars
<1>9. CASE seen.ends = "short" /\ skip_line
  BY <1>4, <1>5, <1>7, <1>8, <1>9 DEF skip_line
<1>10. CASE seen.ends = "blank" /\ blank_line
  <2>1. shifted' \in BOOLEAN /\ odd' \in BOOLEAN /\ (shifted' => odd')
    BY <1>1, <1>5, <1>10 DEF blank_line
  <2> QED
    BY <1>7, <1>8, <1>10, <2>1 DEF blank_line
<1>11. CASE seen.ends = "newline" /\ complete_line(seen.statement)
  <2>1. LoadType
    BY <1>1, <1>11, LineKinds, StatementType DEF complete_line, IInv
  <2> QED
    BY <1>5, <1>7, <1>11, <2>1 DEF complete_line
<1>12. CASE seen.ends = "backslash" /\ continued_line
  BY <1>5, <1>7, <1>8, <1>12 DEF continued_line
<1>13. CASE seen.ends = "too_long" /\ line_too_long
  <2>1. /\ map' = map /\ UNCHANGED <<errs, section, shifted, odd, starved>>
        /\ \/ pc' = "failed" /\ state' = "deleted"
           \/ pc' = "crashed" /\ state' = "crashed"
    BY <1>13, GiveUp DEF line_too_long
  <2>2. errs' \in -1..MaxLines /\ errs' <= Len(read') /\ Len(read') <= MaxLines
    BY <1>1, <1>3, <1>4, <2>1
  <2>3. TypeOK'
    BY <1>1, <1>3, <1>4, <1>5, <1>6, <2>1, <2>2 DEF TypeOK, AllKeys, MapValues
  <2> QED
    BY <1>4, <2>1, <2>2, <2>3 DEF OwnerInv
<1> QED
  BY <1>2, <1>9, <1>10, <1>11, <1>12, <1>13 DEF Reading
\* errs tells the same of the lines and a line more.
LEMMA ReadLineErrors ==
    ASSUME IInv, NEW l \in Lines, read_line(l)
    PROVE  ErrorInv'
<1>1. Reads(l) /\ pc = "reading" /\ (shifted' => odd')
  BY ReadLineStep, ReadLineType
<1>2. PICK seen \in Lines : (~shifted => seen = l) /\ Reading(seen)
  BY ReadLineStep
<1>3. CASE odd'
  BY <1>1, <1>3 DEF ErrorInv, entered
<1>4. CASE ~odd'
  <2>1. ~odd
    BY <1>2, <1>4 DEF Reading, skip_line, blank_line, complete_line,
                      continued_line, line_too_long
  <2>2. seen = l
    BY <1>2, <2>1 DEF IInv, ErrorInv
  <2>3. errs \in Nat /\ (errs > 0 <=> endsInError)
    BY <1>1, <2>1 DEF IInv, TypeOK, OwnerInv, ErrorInv, entered
  <2>4. endsInError' <=> IF Speaks(l) THEN l.statement = Error ELSE endsInError
    BY <1>1, EndAfter
  <2>5. ASSUME ~Speaks(l), UNCHANGED <<pc, errs>>
        PROVE  ErrorInv'
    BY <1>1, <1>4, <2>3, <2>4, <2>5 DEF ErrorInv, entered
  <2>6. CASE l.ends = "short" /\ skip_line
    BY <2>5, <2>6 DEF Speaks, skip_line
  <2>7. CASE l.ends = "blank" /\ blank_line
    BY <2>5, <2>7 DEF Speaks, blank_line
  <2>8. CASE l.ends = "backslash" /\ continued_line
    BY <2>5, <2>8 DEF Speaks, continued_line
  <2>9. CASE l.ends = "newline" /\ complete_line(l.statement)
    <3> DEFINE st == l.statement
    <3>1. st \in Statements /\ enter_statement(st)
      BY <2>9, LineKinds DEF complete_line
    <3>2. CASE st.is = "empty"
      <4>1. ~Speaks(l)
        BY <3>1, <3>2, StatementKinds DEF Speaks
      <4>2. UNCHANGED <<pc, errs>>
        BY <3>1, <3>2 DEF enter_statement
      <4> QED
        BY <2>5, <4>1, <4>2
    <3>3. CASE st.is = "error"
      <4>1. Speaks(l) /\ st = Error
        BY <2>9, <3>1, <3>3, StatementKinds DEF Speaks
      <4>2. pc' = pc /\ errs' = errs + 1
        BY <3>1, <3>3 DEF enter_statement
      <4> QED
        BY <1>1, <1>4, <2>3, <2>4, <4>1, <4>2 DEF ErrorInv, entered
    <3>4. CASE st.is \in {"section", "unnamed", "value"}
      <4>1. Speaks(l) /\ st # Error
        BY <2>9, <3>1, <3>4, StatementKinds DEF Speaks
      <4>2. \E k \in AllKeys, v \in Vals \cup {NULL} : enter(k, v)
        BY <1>1, <3>1, <3>4, StatementKey DEF IInv
      <4>3. \/ pc' = "reading" /\ errs' = 0
            \/ pc' = "end" /\ errs' = -1
            \/ pc' = "crashed"
        BY <1>1, <4>2, EnterEnds DEF Entered, IInv
      <4> QED
        BY <1>1, <1>4, <2>4, <4>1, <4>3 DEF ErrorInv, entered
    <3> QED
      BY <3>1, <3>2, <3>3, <3>4, StatementKinds
  <2>10. CASE l.ends = "too_long" /\ line_too_long
    <3>1. l = TooLong
      BY <2>10, LineKinds
    <3>2. read'[Len(read')] = l
      BY <1>1, ReadLines
    <3>3. pc' \in {"failed", "crashed"}
      BY <2>10, GiveUp DEF line_too_long
    <3> QED
      BY <1>1, <3>1, <3>2, <3>3 DEF ErrorInv, entered
  <2> QED
    BY <1>2, <2>2, <2>6, <2>7, <2>8, <2>9, <2>10 DEF Reading
<1> QED
  BY <1>3, <1>4
\* isFound, for one key and a line more.
FoundAfter(l, n) ==
    \A s, k \in Words :
        LET found == map'[<<Lwc[s], Lwc[k]>>]
            says  == IF Sets(l, n, s, k) THEN l.statement.val ELSE valueInFile(s, k)
        IN  found = says \/ (starved' /\ found \in {NULL, DICT_INVALID_KEY})

\* The invariant about the contents, put together for the file with one more line.
LEMMA ContentAfter ==
    ASSUME NEW l, Reads(l), NEW CONSTANT n \in Nat, n = Len(read),
           section' = IF IsHeader(l) THEN Lwc[l.statement.name] ELSE sectionAt(n),
           FoundAfter(l, n)
    PROVE  ContentInv'
<1>1. section' = sectionAt(n + 1)'
  BY SectionOfNewLine
<1>2. (n + 1) = Len(read')
  BY ReadLines, SMTT(20)
<1>3. section' = sectionAt(Len(read))'
  BY <1>1, <1>2 DEF sectionAt
<1>4. \A s, k \in Words : isFound(s, k)'
  BY ValueAfter DEF isFound, FoundAfter
<1> QED
  BY <1>3, <1>4 DEF ContentInv

\* The dictionary holds what the file says, with a line more.
LEMMA ReadLineContent ==
    ASSUME IInv, NEW l \in Lines, read_line(l)
    PROVE  ContentInv'
<1>1. Reads(l) /\ pc = "reading"
  BY ReadLineStep
<1>2. PICK seen \in Lines : (~shifted => seen = l) /\ Reading(seen)
  BY ReadLineStep
<1>3. CASE ~(entered')
  BY <1>3 DEF ContentInv
<1>4. CASE entered'
  <2>1. ~odd
    BY <1>2, <1>4 DEF entered, Reading, skip_line, blank_line, complete_line,
                      continued_line, line_too_long
  <2>2. seen = l
    BY <1>2, <2>1 DEF IInv, ErrorInv
  <2>3. PICK n \in Nat : n = Len(read)
    BY <1>1, ReadLines
  <2>4. section = sectionAt(n) /\ \A s, k \in Words : isFound(s, k)
    BY <1>1, <2>1, <2>3 DEF IInv, OwnerInv, ContentInv, entered
  <2>5. ASSUME ~Speaks(l) \/ l.statement.is \in {"unnamed", "error"},
               UNCHANGED <<map, section, starved>>
        PROVE  ContentInv'
    <3>1. ~IsHeader(l) /\ \A s, k : ~Sets(l, n, s, k)
      BY <2>5 DEF IsHeader, Sets
    <3>2. FoundAfter(l, n)
      BY <2>4, <2>5, <3>1 DEF FoundAfter, isFound
    <3> QED
      BY <1>1, <2>3, <2>4, <2>5, <3>1, <3>2, ContentAfter
  <2>6. CASE l.ends = "short" /\ skip_line
    BY <2>5, <2>6 DEF Speaks, skip_line, dictVars
  <2>7. CASE l.ends = "blank" /\ blank_line
    BY <2>5, <2>7 DEF Speaks, blank_line, dictVars
  <2>8. CASE l.ends = "backslash" /\ continued_line
    BY <2>5, <2>8 DEF Speaks, continued_line, dictVars
  <2>9. CASE l.ends = "newline" /\ complete_line(l.statement)
    <3> DEFINE st == l.statement
    <3>1. st \in Statements /\ enter_statement(st)
      BY <2>9, LineKinds DEF complete_line
    <3>2. CASE st.is \in {"empty", "error"}
      <4>1. ~Speaks(l) \/ st.is = "error"
        BY <3>1, <3>2, StatementKinds DEF Speaks
      <4>2. UNCHANGED <<map, section, starved>>
        BY <3>1, <3>2 DEF enter_statement, dictVars
      <4> QED
        BY <2>5, <4>1, <4>2
    <3>3. CASE st.is \in {"section", "unnamed"}
      <4>1. section' = section_name(st) /\ enter(<<section'>>, NULL)
        BY <3>1, <3>3 DEF enter_statement
      <4>2. section' \in Words \cup {NoSection}
        BY <3>1, <3>3, StatementKey, LowerCase DEF IInv
      <4>3. <<section'>> \in AllKeys /\ \A t, k : <<section'>> # <<t, k>>
        BY <4>2, SectionKey DEF AllKeys
      <4>4. Entered(<<section'>>, NULL)
        BY <1>1, <1>4, <4>1, <4>3, EnterEnds DEF IInv, entered
      <4>5. \A s, k \in Words : map'[<<Lwc[s], Lwc[k]>>] = map[<<Lwc[s], Lwc[k]>>]
        BY <4>3, <4>4, LowerCase DEF Entered, AllKeys
      <4>6. \A s, k : ~Sets(l, n, s, k)
        BY <3>3 DEF Sets
      <4>7. FoundAfter(l, n)
        BY <2>4, <4>4, <4>5, <4>6 DEF FoundAfter, isFound, Entered
      <4>8. IsHeader(l) <=> st.is = "section"
        BY <2>9, <3>1, <3>3, StatementKinds DEF IsHeader, Speaks
      <4> QED
        BY <1>1, <2>3, <2>4, <4>1, <4>7, <4>8, ContentAfter DEF section_name
    <3>4. CASE st.is = "value"
      <4> DEFINE key == <<section, Lwc[st.key]>>
      <4>1. enter(key, st.val) /\ section' = section
        BY <3>1, <3>4 DEF enter_statement
      <4>2. /\ st.key \in Words /\ st.val \in Vals /\ Speaks(l)
            /\ section \in Words \cup {NoSection}
        BY <2>9, <3>1, <3>4, StatementKinds, LowerCase DEF Speaks, IInv, TypeOK
      <4>3. key \in AllKeys
        BY <4>2, LowerCase DEF AllKeys, ValueKeys
      <4>4. Entered(key, st.val)
        <5> HIDE DEF key
        <5> QED
          BY <1>1, <1>4, <4>1, <4>2, <4>3, EnterEnds DEF IInv, entered
      <4>5. ASSUME NEW s \in Words, NEW k \in Words
            PROVE  /\ Sets(l, n, s, k) <=> <<Lwc[s], Lwc[k]>> = key
                   /\ <<Lwc[s], Lwc[k]>> \in AllKeys
        BY <2>4, <3>4, <4>2, LowerCase DEF Sets, AllKeys
      <4>6. FoundAfter(l, n)
        <5> HIDE DEF key
        <5> SUFFICES ASSUME NEW s \in Words, NEW k \in Words
                     PROVE  LET found == map'[<<Lwc[s], Lwc[k]>>]
                                says  == IF Sets(l, n, s, k) THEN st.val
                                                             ELSE valueInFile(s, k)
                            IN  found = says \/
                                (starved' /\ found \in {NULL, DICT_INVALID_KEY})
          BY DEF FoundAfter
        <5>1. CASE Sets(l, n, s, k)
          BY <4>4, <4>5, <5>1 DEF Entered
        <5>2. CASE ~Sets(l, n, s, k)
          BY <2>4, <4>4, <4>5, <5>2 DEF Entered, isFound
        <5> QED
          BY <5>1, <5>2
      <4>7. ~IsHeader(l)
        BY <3>4 DEF IsHeader
      <4> QED
        BY <1>1, <2>3, <2>4, <4>1, <4>6, <4>7, ContentAfter
    <3> QED
      BY <3>1, <3>2, <3>3, <3>4, StatementKinds
  <2>10. CASE l.ends = "too_long" /\ line_too_long
    BY <1>4, <2>10, GiveUp DEF line_too_long, entered
  <2> QED
    BY <1>2, <2>2, <2>6, <2>7, <2>8, <2>9, <2>10 DEF Reading
<1> QED
  BY <1>3, <1>4
-----------------------------------------------------------------------------
(* The inductive invariant holds.                                           *)

\* The invariant holds before the file is opened.
LEMMA InitIInv == Init => IInv
<1> SUFFICES ASSUME Init PROVE IInv
  OBVIOUS
<1>1. read = <<>> /\ read \in Seq(Lines) /\ Len(read) = 0 /\ MaxLines \in Nat
  BY IniParserAssumption DEF Init
<1>2. said = {}
  BY <1>1 DEF said
<1>3. map = [k \in AllKeys |-> DICT_INVALID_KEY] /\ state = "live"
  BY DEF Init, Dict!Init, AllKeys
<1>4. stray \in BOOLEAN /\ shifted \in BOOLEAN /\ odd \in BOOLEAN /\ starved \in BOOLEAN
  BY DEF Init
<1>5. TypeOK
  BY <1>1, <1>3, <1>4 DEF Init, TypeOK, AllKeys
<1>6. OwnerInv
  BY <1>1, <1>3 DEF Init, OwnerInv
<1>7. ErrorInv
  BY <1>1, <1>2 DEF Init, ErrorInv, endsInError
<1>8. section = sectionAt(Len(read))
  BY <1>2 DEF Init, sectionAt
<1>9. \A s, k \in Words : isFound(s, k)
  BY <1>2, <1>3, LowerCase DEF isFound, valueInFile, settersOf, AllKeys
<1> QED
  BY <1>5, <1>6, <1>7, <1>8, <1>9 DEF IInv, ContentInv

\* Where the lines, what was made of them and the map stay as they are.
LEMMA SameFile ==
    ASSUME IInv, UNCHANGED <<map, errs, section, stray, shifted, history>>,
           state' \in {"live", "failed", "deleted", "crashed"},
           pc' \in {"reading", "end", "loaded", "failed", "crashed"},
           entered' => entered
    PROVE  /\ TypeOK' /\ ContentInv'
           /\ endsInError' <=> endsInError
<1>1. TypeOK'
  BY DEF IInv, TypeOK, history
<1>2. /\ sectionAt(Len(read))' = sectionAt(Len(read))
      /\ endsInError' <=> endsInError
  BY DEF sectionAt, said, speaks, endsInError, history
<1>3. ASSUME NEW CONSTANT s \in Words, NEW CONSTANT k \in Words, isFound(s, k)
      PROVE  isFound(s, k)'
  <2>1. said' = said /\ \A i \in said : sectionAt(i)' = sectionAt(i)
    BY DEF sectionAt, said, speaks, history
  <2>2. settersOf(s, k)' = settersOf(s, k)
    BY <2>1 DEF settersOf, history
  <2>3. valueInFile(s, k)' = valueInFile(s, k)
    BY <2>2 DEF valueInFile, history
  <2> QED
    BY <1>3, <2>3 DEF isFound, history
<1> QED
  BY <1>1, <1>2, <1>3 DEF IInv, ContentInv

\* Every step keeps it.
LEMMA NextIInv == IInv /\ [Next]_vars => IInv'
<1> SUFFICES ASSUME IInv, [Next]_vars PROVE IInv'
  OBVIOUS
<1>1. ASSUME NEW l \in Lines, read_line(l) PROVE IInv'
  BY <1>1, ReadLineType, ReadLineErrors, ReadLineContent DEF IInv
<1>2. CASE end_of_file
  <2>1. state = "live" /\ state' = "live" /\ (entered' => entered)
    BY <1>2 DEF end_of_file, dictVars, history, entered, IInv, OwnerInv
  <2>2. TypeOK' /\ ContentInv' /\ (endsInError' <=> endsInError)
    BY <1>2, <2>1, SameFile DEF end_of_file, dictVars
  <2>3. OwnerInv'
    BY <1>2, <2>1 DEF end_of_file, history, IInv, OwnerInv
  <2>4. ErrorInv'
    BY <1>2, <2>1, <2>2 DEF end_of_file, history, IInv, ErrorInv, entered
  <2> QED
    BY <2>2, <2>3, <2>4 DEF IInv
<1>3. CASE finish
  <2>1. \/ errs # 0 /\ pc' = "failed" /\ state' = "deleted"
        \/ errs # 0 /\ pc' = "crashed" /\ state' = "crashed"
        \/ errs = 0 /\ pc' = "loaded" /\ state' = state /\ state = "live"
    BY <1>3, GiveUp DEF finish, dictVars, IInv, OwnerInv
  <2>2. pc = "end" /\ UNCHANGED <<map, errs, section, stray, shifted, history>>
    BY <1>3, GiveUp DEF finish, dictVars
  <2>3. TypeOK' /\ ContentInv' /\ (endsInError' <=> endsInError)
    BY <2>1, <2>2, SameFile DEF entered, history
  <2>4. OwnerInv'
    BY <2>1, <2>2 DEF history, IInv, OwnerInv
  <2>5. ErrorInv'
    BY <2>1, <2>2, <2>3 DEF history, IInv, TypeOK, ErrorInv, entered
  <2> QED
    BY <2>3, <2>4, <2>5 DEF IInv
<1>4. ASSUME UNCHANGED <<map, pc, errs, section, stray, shifted, history>>,
             state' \in {"live", "failed", "deleted", "crashed"}, pc = "loaded"
      PROVE  IInv'
  <2>1. TypeOK' /\ ContentInv' /\ (endsInError' <=> endsInError)
    BY <1>4, SameFile DEF entered, history, IInv, TypeOK
  <2>2. OwnerInv'
    BY <1>4 DEF history, IInv, OwnerInv
  <2>3. ErrorInv'
    BY <1>4, <2>1 DEF history, IInv, ErrorInv, entered
  <2> QED
    BY <2>1, <2>2, <2>3 DEF IInv
<1>5. ASSUME NEW s \in Words, NEW k \in Words, iniparser_getstring(s, k)
      PROVE  IInv'
  BY <1>4, <1>5 DEF iniparser_getstring, lookup, Dict!get, Dict!crash
<1>6. CASE iniparser_freedict
  BY <1>4, <1>6 DEF iniparser_freedict, Dict!del, Dict!crash
<1>7. CASE UNCHANGED vars
  <2>1. UNCHANGED <<map, state, pc, errs, section, stray, shifted, history>>
    BY <1>7 DEF vars, dictVars
  <2>2. TypeOK' /\ ContentInv' /\ (endsInError' <=> endsInError)
    BY <2>1, SameFile DEF entered, history, IInv, TypeOK
  <2>3. OwnerInv'
    BY <2>1 DEF history, IInv, OwnerInv
  <2>4. ErrorInv'
    BY <2>1, <2>2 DEF history, IInv, ErrorInv, entered
  <2> QED
    BY <2>2, <2>3, <2>4 DEF IInv
<1> QED
  BY <1>1, <1>2, <1>3, <1>5, <1>6, <1>7 DEF Next

-----------------------------------------------------------------------------
(* The theorems.                                                            *)

\* iniparser_load enters the lines as it reads them: errs, the current section
\* and the dictionary always tell what the lines read so far say.
THEOREM FileInvariant == Spec => []IInv
BY InitIInv, NextIInv, PTL DEF Spec

\* Unless memory runs out or a line loses its first character, iniparser_load
\* refuses a file exactly if a line is too long or the last line that says
\* anything is a syntax error.
THEOREM LastErrorDecides == Spec => []RefusedForLastError
<1>1. IInv => RefusedForLastError
  BY DEF IInv, TypeOK, OwnerInv, ErrorInv, entered, RefusedForLastError
<1> QED
  BY <1>1, FileInvariant, PTL

\* The dictionary of a file is given to the caller or deleted: a load that
\* fails leaves none behind, and one that goes on has one to enter lines into.
THEOREM OneOwner == Spec => []DictionaryHasOwner
<1>1. IInv => DictionaryHasOwner
  BY DEF IInv, OwnerInv, DictionaryHasOwner
<1> QED
  BY <1>1, FileInvariant, PTL

\* iniparser_getstring finds the value that the file gave a key last, in
\* whatever case the key is written; for want of memory it may find none, but
\* it never finds the value of another key.
THEOREM FoundAgain == Spec => FileIsFoundAgain
<1>1. ASSUME IInv, NEW s \in Words, NEW k \in Words,
             iniparser_getstring(s, k), state' = "live", ~odd
      PROVE  \/ ret' = valueInFile(s, k)
             \/ starved /\ ret' \in {NULL, DICT_INVALID_KEY}
  <2>1. pc = "loaded" /\ ret' = map[<<Lwc[s], Lwc[k]>>]
    BY <1>1 DEF iniparser_getstring, lookup, Dict!get, Dict!crash
  <2>2. isFound(s, k)
    BY <1>1, <2>1 DEF IInv, OwnerInv, ContentInv, entered
  <2> QED
    BY <2>1, <2>2 DEF isFound
<1>2. IInv => [\A s, k \in Words :
         (iniparser_getstring(s, k) /\ state' = "live" /\ ~odd) =>
            \/ ret' = valueInFile(s, k)
            \/ starved /\ ret' \in {NULL, DICT_INVALID_KEY}]_vars
  BY <1>1
<1> QED
  BY <1>2, FileInvariant, PTL DEF FileIsFoundAgain
==============================================================================
