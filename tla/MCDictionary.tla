----------------------------- MODULE MCDictionary -----------------------------
EXTENDS IniQueries, TLC

CONSTANTS s1, s2, k1, k2

\* Two sections, a key of the first, and a key of a section that is never
\* entered; the first section and its key collide.
McHashOf == (s1 :> 7) @@ (k1 :> 7) @@ (s2 :> 0) @@ (k2 :> 7)
McSectionOf == (k1 :> s1) @@ (k2 :> NULL)
==============================================================================
