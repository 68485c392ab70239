---------------------------- MODULE CommandCycle -----------------------------
(***************************************************************************)
(* What the tracker promises to whoever wrote the configuration: for each  *)
(* file the open command and the close command alternate, beginning with   *)
(* the open command; commands run one at a time; and a file whose open     *)
(* command has run is not forgotten before its close command has run,      *)
(* unless no close command is configured.                                  *)
(***************************************************************************)
CONSTANTS Files, HasOpenCmd, HasCloseCmd

VARIABLES
    running,    \* the command that system() is waiting for, if any
    opened      \* files whose open command has run and close command has not

vars == <<running, opened>>

Kinds     == {"open", "close"}
NoCommand == [kind |-> "none"]
Command(k, f) == [kind |-> k, file |-> f]

TypeOK ==
    /\ running \in [kind : Kinds, file : Files] \cup {NoCommand}
    /\ opened \subseteq Files

Init ==
    /\ running = NoCommand
    /\ opened = {}

StartOpen(f) ==
    /\ HasOpenCmd
    /\ running = NoCommand
    /\ f \notin opened
    /\ running' = Command("open", f)
    /\ UNCHANGED opened

OpenReturns(f) ==
    /\ running = Command("open", f)
    /\ running' = NoCommand
    /\ opened' = opened \cup {f}

StartClose(f) ==
    /\ HasCloseCmd
    /\ running = NoCommand
    /\ f \in opened
    /\ running' = Command("close", f)
    /\ UNCHANGED opened

CloseReturns(f) ==
    /\ running = Command("close", f)
    /\ running' = NoCommand
    /\ opened' = opened \ {f}

\* Without a close command the end of a session is silent.
EndSilently(f) ==
    /\ ~HasCloseCmd
    /\ running = NoCommand
    /\ f \in opened
    /\ opened' = opened \ {f}
    /\ UNCHANGED running

Next == \E f \in Files :
    \/ StartOpen(f) \/ OpenReturns(f)
    \/ StartClose(f) \/ CloseReturns(f)
    \/ EndSilently(f)

Spec == Init /\ [][Next]_vars
=============================================================================
