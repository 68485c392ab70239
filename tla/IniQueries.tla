------------------------------ MODULE IniQueries ------------------------------
(***************************************************************************)
(* The queries and dumps of src/src/iniparser/iniparser.c: what they return*)
(* for the arrays of a dictionary, in which sections are keys without a    *)
(* colon and the keys of a section begin with its name and a colon.  They  *)
(* change nothing.  The names of keys are taken in lower case, as strlwc   *)
(* makes them before each look-up.                                         *)
(***************************************************************************)
EXTENDS Dictionary, Sequences, SequencesExt

CONSTANTS
    Sections,       \* the keys without a colon
    SectionOf       \* what is before the first colon of the others

ASSUME SectionAssumption ==
    /\ Sections \subseteq Keys
    /\ DOMAIN SectionOf = Keys \ Sections
    /\ \A k \in Keys \ Sections : SectionOf[k] \notin Keys \ Sections

\* The slots of a set as a scan meets them: the m-th has m - 1 before it.
InOrder(slotSet) ==
    [m \in 1..Cardinality(slotSet) |->
        CHOOSE i \in slotSet : Cardinality({j \in slotSet : j < i}) = m - 1]

-----------------------------------------------------------------------------
(* Sections.                                                                *)

is_section(i) == key[i] # NULL /\ key[i] \in Sections

foundsec(i) == Cardinality({j \in 0..i : is_section(j)})

iniparser_getnsec == Cardinality({i \in slots : is_section(i)})

\* Mutant: sections are numbered from one.
getsecname_from_one(m) ==
    IF m < 0 \/ iniparser_getnsec < m THEN NULL
    ELSE key[CHOOSE i \in slots : foundsec(i) >= m
                                  /\ \A j \in 0..i - 1 : foundsec(j) < m]

\* The scan stops at the first slot by which more than m sections are found.
iniparser_getsecname(m) ==
    IF m < 0 \/ iniparser_getnsec <= m THEN NULL
    ELSE key[CHOOSE i \in slots : foundsec(i) > m
                                  /\ \A j \in 0..i - 1 : foundsec(j) <= m]

\* dictionary_get, as a value
getstring(k) ==
    IF \E i \in slots : found(k, i)
    THEN val[CHOOSE i \in slots : found(k, i)]
    ELSE DICT_INVALID_KEY

\* Mutant: a section, which has no value, is taken for missing.
find_entry_with_value(k) == getstring(k) \notin {DICT_INVALID_KEY, NULL}

iniparser_find_entry(k) == getstring(k) # DICT_INVALID_KEY

-----------------------------------------------------------------------------
(* The keys of a section.                                                   *)

\* Mutant: the name of the section is compared without its colon.
begins_with_name(s, i) ==
    key[i] # NULL /\ (key[i] = s \/ (key[i] \notin Sections /\ SectionOf[key[i]] = s))

is_key_of(s, i) ==
    /\ key[i] # NULL
    /\ key[i] \notin Sections
    /\ SectionOf[key[i]] = s

iniparser_getsecnkeys(s) ==
    IF iniparser_find_entry(s)
    THEN Cardinality({i \in slots : is_key_of(s, i)})
    ELSE 0

\* The array that is returned; malloc is taken to succeed.
iniparser_getseckeys(s) ==
    IF iniparser_find_entry(s)
    THEN LET at == InOrder({i \in slots : is_key_of(s, i)})
         IN  [m \in DOMAIN at |-> key[at[m]]]
    ELSE <<>>

-----------------------------------------------------------------------------
(* Dumps: the lines as pairs of a key and its value.  A value that is NULL  *)
(* is written as UNDEF, as nothing or as (null).                            *)

lines_of(slotSet) ==
    LET at == InOrder(slotSet) IN [m \in DOMAIN at |-> <<key[at[m]], val[at[m]]>>]

iniparser_dump == lines_of({i \in slots : key[i] # NULL})

iniparser_dumpsection_ini(s) ==
    IF iniparser_find_entry(s)
    THEN <<<<s, NULL>>>> \o lines_of({i \in slots : is_key_of(s, i)})
    ELSE <<>>

\* Without a section the keys are dumped as they are.
iniparser_dump_ini ==
    IF iniparser_getnsec < 1
    THEN lines_of({i \in slots : key[i] # NULL})
    ELSE FlattenSeq([m \in 1..iniparser_getnsec |->
            iniparser_dumpsection_ini(iniparser_getsecname(m - 1))])

-----------------------------------------------------------------------------
(* Properties, about a dictionary that can be read.                         *)

Readable == state = "live" /\ arrays = Arrays

Known == {k \in Keys : contentsMap[k] # DICT_INVALID_KEY}

\* The sections numbered from 0 to nsec - 1 are those of the map, each once,
\* after any holes, growth and failed copies, and no number beyond has one.
SectionsAreNumbered ==
    Readable =>
        LET nsec == iniparser_getnsec IN
        /\ {iniparser_getsecname(m) : m \in 0..nsec - 1} = Known \cap Sections
        /\ \A l, m \in 0..nsec - 1 :
              iniparser_getsecname(l) = iniparser_getsecname(m) => l = m
        /\ iniparser_getsecname(nsec) = NULL
        /\ iniparser_getsecname(-1) = NULL

\* getseckeys allocates what getsecnkeys counted in a scan of its own, and
\* fills it with the keys that the map has in the section: the section itself,
\* which begins with the same name, is none of them.
SectionKeysFill ==
    Readable => \A s \in Sections :
        LET keys == iniparser_getseckeys(s)
            inMap == {k \in Known \ Sections : SectionOf[k] = s}
        IN  /\ Len(keys) = iniparser_getsecnkeys(s)
            /\ IsInjective(keys)
            /\ ToSet(keys) = IF s \in Known THEN inMap ELSE {}

\* A dump as an ini file has every section and every key once, with the value
\* of the key, except for the keys of a section that is not entered itself,
\* which are lost as soon as there is any section.
DumpIsComplete ==
    Readable =>
        LET lost == {k \in Known \ Sections : SectionOf[k] \notin Known}
            kept == IF Known \cap Sections = {} THEN Known ELSE Known \ lost
        IN  /\ IsInjective(iniparser_dump_ini)
            /\ ToSet(iniparser_dump_ini) =
                  {<<k, IF k \in Sections THEN NULL ELSE contentsMap[k]>> : k \in kept}
            /\ ToSet(iniparser_dump) = {<<k, contentsMap[k]>> : k \in Known}
=============================================================================
