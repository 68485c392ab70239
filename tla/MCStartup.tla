------------------------------ MODULE MCStartup ------------------------------
EXTENDS Startup, TLC

CONSTANTS d1, d2, d3, d4, f1, root

\* d1 holds d2, d3 and the file f1, and d2 holds d4.
McParent == (d1 :> root) @@ (d2 :> d1) @@ (d3 :> d1) @@ (d4 :> d2) @@ (f1 :> d1)

McSettings ==
    [watch_dir : {<<>>, <<d1>>, <<d1, d2>>}, recursive : BOOLEAN,
     fire_on : {<<"OPEN", "CLOSE">>}]
    \cup [watch_dir : {<<d3>>}, recursive : {FALSE},
          fire_on : {<<>>, <<"OPEN", "unknown", "CLOSE">>}]

McRecursive ==
    [watch_dir : {<<d1>>}, recursive : {TRUE}, fire_on : {<<"CLOSE">>}]
==============================================================================
