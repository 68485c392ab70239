------------------------------ MODULE MCIniParser ------------------------------
EXTENDS IniParser, TLC

CONSTANTS a, A

\* A is a in upper case.
McLwc == (a :> a) @@ (A :> a)

\* Nothing tells one value from another.
McSymmetry == Permutations(Vals)
==============================================================================
