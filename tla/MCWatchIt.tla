------------------------------ MODULE MCWatchIt ------------------------------
EXTENDS WatchIt

\* Two directories, one of which has two names: what recursive = true makes of
\* a list that names a directory and one of its subdirectories.
McDirs == {"a", "b", "c"}
McWdOf == [d \in McDirs |-> IF d = "b" THEN 2 ELSE 1]

\* No directory, one twice, more than MAX_WATCH.
McWatchDirs == {<<>>, <<"a", "c">>, <<"a", "c", "a">>}
McOneDir    == {<<"a">>}
=============================================================================
