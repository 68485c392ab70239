------------------------------ MODULE IniParser ------------------------------
(***************************************************************************)
(* Reading an ini file (src/src/iniparser/iniparser.c): iniparser_load     *)
(* goes through the lines of the file and enters sections and values into  *)
(* a dictionary, which is the map of DictionaryMap; iniparser_getstring    *)
(* looks a value up.                                                       *)
(*                                                                         *)
(* A turn of the loop over the lines is one step.  A line is what          *)
(* iniparser_line makes of its text, together with the lines it continues: *)
(* nothing, a section, a value or an error.                                *)
(***************************************************************************)
EXTENDS Integers, Sequences, FiniteSets

CONSTANTS
    Words,              \* names of sections and keys, as they are written
    Lwc,                \* strlwc: each word in lower case
    NoSection,          \* the name of the section before the first one
    Vals,               \* values
    NULL, DICT_INVALID_KEY,
    AllocMayFail,       \* malloc and calloc may return NULL
    MaxLines            \* bound: length of a file

SectionKeys == {<<s>> : s \in Words \cup {NoSection}}
ValueKeys   == (Words \cup {NoSection}) \X Words

ASSUME IniParserAssumption ==
    /\ Lwc \in [Words -> Words]
    /\ \A w \in Words : Lwc[Lwc[w]] = Lwc[w]
    /\ NoSection \notin Words
    /\ MaxLines \in Nat

VARIABLES
    map, state, ret,    \* the dictionary and what its last operation returned
    pc,                 \* where iniparser_load is, and what it returned
    errs,
    section,            \* the current section
    stray,              \* line[-1], a byte nobody has written, is a backslash
    shifted,            \* last = -1: the next line loses its first character
    read,               \* history: the lines read
    odd,                \* history: a line has been read from one byte too low
    starved             \* history: a key or a value could not be copied

dictVars == <<map, state, ret>>
history  == <<read, odd, starved>>
vars == <<dictVars, pc, errs, section, stray, shifted, history>>

Dict == INSTANCE DictionaryMap
        WITH Keys <- SectionKeys \cup ValueKeys, call <- <<"new">>

-----------------------------------------------------------------------------
(* Lines.                                                                   *)

Empty   == [is |-> "empty"]     \* also a comment
Error   == [is |-> "error"]
Unnamed == [is |-> "unnamed"]   \* []: the section keeps its name
Section(s)  == [is |-> "section", name |-> s]
Value(k, v) == [is |-> "value", key |-> k, val |-> v]

Statements ==
    {Empty, Error, Unnamed} \cup {Section(s) : s \in Words}
    \cup {Value(k, v) : k \in Words, v \in Vals}

\* How a line ends: with a newline, with a backslash before it, or not within
\* the buffer.  A line of white space has no last character to look at, and
\* of a line of one character nothing is looked at.
Blank    == [ends |-> "blank"]
Short    == [ends |-> "short"]
TooLong  == [ends |-> "too_long"]
Joined   == [ends |-> "backslash"]
Line(st) == [ends |-> "newline", statement |-> st]

Lines == {Blank, Short, TooLong, Joined} \cup {Line(st) : st \in Statements}

-----------------------------------------------------------------------------
(* Entering a line into the dictionary.                                     *)

\* dictionary_set, and errs = its result.  A dictionary whose arrays could not
\* be allocated is no dictionary to set a key in.
enter(k, v) ==
    \/ /\ Dict!set(k, v) \/ Dict!set_fails
       /\ errs' = ret'
       /\ pc' = IF errs' < 0 THEN "end" ELSE "reading"
       /\ starved' = (starved \/ (map')[k] # v)
    \/ /\ Dict!crash
       /\ pc' = "crashed"
       /\ UNCHANGED <<errs, starved>>

\* Mutant: names of sections are not put into lower case.
section_name_as_written(st) ==
    IF st.is = "section" THEN st.name ELSE section

section_name(st) == IF st.is = "section" THEN Lwc[st.name] ELSE section

\* Mutant: an error stays.
enter_keeping_errors(st) ==
    \/ /\ st.is = "error"
       /\ errs' = errs + 1
       /\ UNCHANGED <<dictVars, pc, section, starved>>
    \/ /\ st.is = "empty"
       /\ UNCHANGED <<dictVars, pc, errs, section, starved>>
    \/ /\ st.is \in {"section", "unnamed"}
       /\ section' = section_name(st)
       /\ Dict!set(<<section'>>, NULL)
       /\ UNCHANGED <<pc, errs, starved>>
    \/ /\ st.is = "value"
       /\ Dict!set(<<section, Lwc[st.key]>>, st.val)
       /\ UNCHANGED <<pc, errs, section, starved>>

enter_statement(st) ==
    \/ /\ st.is = "empty"
       /\ UNCHANGED <<dictVars, pc, errs, section, starved>>
    \/ /\ st.is \in {"section", "unnamed"}
       /\ section' = section_name(st)
       /\ enter(<<section'>>, NULL)
    \/ /\ st.is = "value"
       /\ enter(<<section, Lwc[st.key]>>, st.val)
       /\ UNCHANGED section
    \/ /\ st.is = "error"
       /\ errs' = errs + 1
       /\ UNCHANGED <<dictVars, pc, section, starved>>

-----------------------------------------------------------------------------
(* iniparser_load                                                           *)

\* dictionary_del, and the result of iniparser_load.
give_up ==
    \/ Dict!del /\ pc' = "failed"
    \/ Dict!crash /\ pc' = "crashed"

\* len == 0: the loop goes on with the next line.
skip_line == UNCHANGED <<dictVars, pc, errs, section, shifted, odd, starved>>

\* A line of white space is an empty one, unless line[-1] is a backslash: then
\* the next line is read into the buffer from there on.
blank_line ==
    /\ shifted' = stray'
    /\ odd' = (odd \/ stray')
    /\ UNCHANGED <<dictVars, pc, errs, section, starved>>

complete_line(st) ==
    /\ enter_statement(st)
    /\ shifted' = FALSE
    /\ UNCHANGED odd

continued_line ==
    /\ shifted' = FALSE
    /\ UNCHANGED <<dictVars, pc, errs, section, odd, starved>>

line_too_long ==
    /\ give_up
    /\ UNCHANGED <<errs, section, shifted, odd, starved>>

\* A line that loses its first character may be any other line, and that
\* character is the new line[-1].
read_line(l) ==
    /\ pc = "reading"
    /\ Len(read) < MaxLines
    /\ read' = Append(read, l)
    /\ stray' \in IF shifted THEN BOOLEAN ELSE {stray}
    /\ \E seen \in IF shifted THEN Lines ELSE {l} :
          \/ seen.ends = "short" /\ skip_line
          \/ seen.ends = "blank" /\ blank_line
          \/ seen.ends = "newline" /\ complete_line(seen.statement)
          \/ seen.ends = "backslash" /\ continued_line
          \/ seen.ends = "too_long" /\ line_too_long

end_of_file ==
    /\ pc = "reading"
    /\ pc' = "end"
    /\ UNCHANGED <<dictVars, errs, section, stray, shifted, history>>

\* Mutant: a dictionary with errors is not deleted.
finish_without_del ==
    /\ pc = "end"
    /\ pc' = IF errs # 0 THEN "failed" ELSE "loaded"
    /\ UNCHANGED <<dictVars, errs, section, stray, shifted, history>>

finish ==
    /\ pc = "end"
    /\ \/ errs # 0 /\ give_up
       \/ errs = 0 /\ pc' = "loaded" /\ UNCHANGED dictVars
    /\ UNCHANGED <<errs, section, stray, shifted, history>>

-----------------------------------------------------------------------------
(* Using the dictionary.                                                    *)

lookup(k) ==
    /\ Dict!get(k) \/ Dict!crash
    /\ UNCHANGED <<pc, errs, section, stray, shifted, history>>

\* Mutant: the key is looked up as it is written.
getstring_as_written(s, k) ==
    /\ pc = "loaded"
    /\ lookup(<<s, k>>)

\* iniparser_getstring, for a key "s:k".
iniparser_getstring(s, k) ==
    /\ pc = "loaded"
    /\ lookup(<<Lwc[s], Lwc[k]>>)

iniparser_freedict ==
    /\ pc = "loaded"
    /\ Dict!del \/ Dict!crash
    /\ UNCHANGED <<pc, errs, section, stray, shifted, history>>

\* fopen and dictionary_new may fail.
Init ==
    /\ Dict!Init
    /\ pc \in {"reading", "failed"}
    /\ errs = 0
    /\ section = NoSection
    /\ stray \in BOOLEAN
    /\ shifted = FALSE
    /\ read = <<>>
    /\ odd = FALSE
    /\ starved = FALSE

Next ==
    \/ \E l \in Lines : read_line(l)
    \/ end_of_file \/ finish
    \/ \E s, k \in Words : iniparser_getstring(s, k)
    \/ iniparser_freedict

Spec == Init /\ [][Next]_vars

-----------------------------------------------------------------------------
(* Properties.                                                              *)

\* Every variable has its type; the current section is in lower case.
TypeOK ==
    /\ map \in [SectionKeys \cup ValueKeys ->
                   Vals \cup {NULL, DICT_INVALID_KEY}]
    /\ state \in {"live", "failed", "deleted", "crashed"}
    /\ pc \in {"reading", "end", "loaded", "failed", "crashed"}
    /\ errs \in -1..MaxLines
    /\ section \in {Lwc[w] : w \in Words} \cup {NoSection}
    /\ stray \in BOOLEAN /\ shifted \in BOOLEAN
    /\ odd \in BOOLEAN /\ starved \in BOOLEAN
    /\ read \in Seq(Lines)

\* The lines of the file that say something.
speaks(i) ==
    read[i].ends = "newline" /\ read[i].statement # Empty

said == {i \in DOMAIN read : speaks(i)}

lastOf(S) == CHOOSE i \in S : \A j \in S : j <= i

\* The section a line of the file is in, in lower case.
sectionAt(i) ==
    LET headers == {j \in said : j <= i /\ read[j].statement.is = "section"}
    IN  IF headers = {} THEN NoSection
                        ELSE Lwc[read[lastOf(headers)].statement.name]

\* What the file says of a key: the last line that gives it a value.
settersOf(s, k) ==
    {i \in said : /\ read[i].statement.is = "value"
                  /\ Lwc[read[i].statement.key] = Lwc[k]
                  /\ sectionAt(i) = Lwc[s]}

valueInFile(s, k) ==
    IF settersOf(s, k) = {} THEN DICT_INVALID_KEY
                            ELSE read[lastOf(settersOf(s, k))].statement.val

\* A file that was loaded is found again as it is written, whatever the case
\* of its letters: the value of a key is the one given last, in any of the
\* places where its section is continued.  When memory ran out the value may
\* be missing, but it is never that of another key or section.
FileIsFoundAgain ==
    [][\A s, k \in Words :
         (iniparser_getstring(s, k) /\ state' = "live" /\ ~odd) =>
            \/ ret' = valueInFile(s, k)
            \/ starved /\ ret' \in {NULL, DICT_INVALID_KEY}]_vars

\* Unless memory runs out, a file is refused exactly if a line is too long or
\* the last line that says anything is a syntax error: an error before it is
\* forgotten, because every dictionary_set assigns errs.
endsInError ==
    said # {} /\ read[lastOf(said)].statement = Error

RefusedForLastError ==
    (~odd /\ errs >= 0) =>
        /\ pc = "loaded" => ~endsInError
        /\ (pc = "failed" /\ read # <<>>) =>
               endsInError \/ read[Len(read)] = TooLong

\* A dictionary is given to the caller or deleted, never both and never
\* neither: none leaks, and none is used after it was deleted.
DictionaryHasOwner ==
    /\ pc = "failed" /\ read # <<>> => state = "deleted"
    /\ pc \in {"reading", "end"} => state \in {"live", "failed"}
    /\ pc = "end" /\ state = "failed" => errs < 0

-----------------------------------------------------------------------------
(* The inductive invariant.                                                 *)

\* errs counts at most one error for each line, and iniparser_load ends when
\* it is negative, with a dictionary that is still to be deleted.
OwnerInv ==
    /\ Len(read) <= MaxLines /\ errs <= Len(read)
    /\ pc = "reading" => state = "live" /\ errs >= 0
    /\ pc = "end" => state = "live" \/ (state = "failed" /\ errs < 0)
    /\ pc = "loaded" => errs = 0
    /\ pc = "failed" /\ read # <<>> => state = "deleted"

\* The lines have been read as they are in the file, and entered.
entered == ~odd /\ errs >= 0 /\ pc \in {"reading", "end", "loaded"}

\* errs tells how the lines that say something end.
ErrorInv ==
    /\ shifted => odd
    /\ entered => (errs > 0 <=> endsInError)
    /\ (~odd /\ errs >= 0 /\ pc = "failed" /\ read # <<>>) =>
           endsInError \/ read[Len(read)] = TooLong

\* The dictionary holds what the lines read so far say of each key.
isFound(s, k) ==
    LET found == map[<<Lwc[s], Lwc[k]>>]
    IN  found = valueInFile(s, k) \/ (starved /\ found \in {NULL, DICT_INVALID_KEY})

ContentInv ==
    entered => /\ section = sectionAt(Len(read))
               /\ \A s, k \in Words : isFound(s, k)

IInv == TypeOK /\ OwnerInv /\ ErrorInv /\ ContentInv
==============================================================================
