----------------------------- MODULE CommandLine -----------------------------
(***************************************************************************)
(* The command line that runs for a file (src/src/event_handling.c):       *)
(* str_replace puts the name of the file for each @0 of the configured     *)
(* command.  Texts are sequences of characters; a position is the index of *)
(* the character a pointer points to.                                      *)
(***************************************************************************)
EXTENDS EventHandling

strlen(text) == Len(text)

occurs_at(text, rep, i) == SubSeq(text, i, i + strlen(rep) - 1) = rep

\* The first occurrence of rep in text from position from on, or 0.
strstr(text, rep, from) ==
    LET at == {i \in from..strlen(text) + 1 - strlen(rep) : occurs_at(text, rep, i)}
    IN  IF at = {} THEN 0 ELSE CHOOSE i \in at : \A j \in at : i <= j

\* The loop that counts, from the first occurrence on.
occurrences(orig, rep) ==
    LET count[ins \in 1..strlen(orig) + 1] ==
            LET tmp == strstr(orig, rep, ins)
            IN  IF tmp = 0 THEN 0 ELSE 1 + count[tmp + strlen(rep)]
    IN  count[strstr(orig, rep, 1)]

\* Mutant: memory for one replacement.
malloc_for_one(orig, rep, with) == strlen(orig) + (strlen(with) - strlen(rep)) + 1

\* The bytes asked for.
malloc_size(orig, rep, with) ==
    strlen(orig) + (strlen(with) - strlen(rep)) * occurrences(orig, rep) + 1

\* The loop that copies: what stands before each occurrence, and with.
copied(orig, rep, with) ==
    LET copy[count \in 0..strlen(orig)] ==
            [rest \in 1..strlen(orig) + 1 |->
                IF count = 0
                THEN SubSeq(orig, rest, strlen(orig))
                ELSE LET ins == strstr(orig, rep, rest)
                     IN  SubSeq(orig, rest, ins - 1) \o with
                             \o copy[count - 1][ins + strlen(rep)]]
    IN  copy[occurrences(orig, rep)][1]

\* What is returned, and where it is; malloc is taken to succeed.
str_replace(orig, rep, with) ==
    [text |-> copied(orig, rep, with), size |-> malloc_size(orig, rep, with)]

Reference == <<"@", "0">>

\* The command that execute_open_event and execute_close_event pass to system.
command_line(cmd, name) ==
    IF strstr(cmd, Reference, 1) # 0
    THEN str_replace(cmd, Reference, name)
    ELSE [text |-> cmd, size |-> strlen(cmd) + 1]

-----------------------------------------------------------------------------
(* Property, over commands of up to three pieces between the @0s.           *)

Chars  == {"@", "0", "x"}
Pieces == {p \in UNION {[1..len -> Chars] : len \in 0..2} : p # Reference}
NamesOfFiles == {<<>>, <<"x">>, <<"x", "@", "0">>}

\* The pieces one after the other, with with between them.
joined(pieces, with) ==
    LET upto[n \in DOMAIN pieces] ==
            IF n = 1 THEN pieces[1] ELSE upto[n - 1] \o with \o pieces[n]
    IN  upto[Len(pieces)]

\* What the shell is given for a command that was put together with @0s.
IsMadeFrom(pieces, name) ==
    LET made == command_line(joined(pieces, Reference), name)
    IN  /\ made.text = joined(pieces, name)
        /\ made.size = strlen(made.text) + 1

MadeFromPieces ==
    \A len \in 1..3 : \A pieces \in [1..len -> Pieces], name \in NamesOfFiles :
        IsMadeFrom(pieces, name)

\* Whenever system() runs, the command was cut at its @0s and put together with
\* the name of the file, nothing else of it is changed, and a name that has an
\* @0 in it is not replaced in its turn; the result with the byte that ends it
\* fills the memory that was asked for, whether the name is shorter or longer
\* than what it replaces.
EveryReferenceIsReplaced == pc \in {"opening", "closing"} => MadeFromPieces
=============================================================================
