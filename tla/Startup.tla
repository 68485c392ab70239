------------------------------- MODULE Startup -------------------------------
(***************************************************************************)
(* From main to the first event (src/src/watch_it.c): the process becomes  *)
(* a daemon, loads its configuration, and begin_watch refuses it or starts *)
(* the tracker and asks for a watch on each directory, while other         *)
(* processes go on creating and removing directories.                      *)
(*                                                                         *)
(* The process that fork returns a pid to leaves at once, with success; the*)
(* module is about its child.                                              *)
(***************************************************************************)
EXTENDS Config

CONSTANTS
    MAX_WATCH,      \* 1024 directories
    SyscallMayFail  \* fork, setsid, chdir, access, inotify and threads may

ASSUME StartupAssumption ==
    /\ MAX_WATCH \in Nat
    /\ SyscallMayFail \in BOOLEAN

VARIABLES
    stage,      \* where main is
    dir,        \* the directory begin_watch asks for next
    name_map,   \* the directories that are watched
    refused     \* history: a system call failed, for no fault of a directory

startVars == <<stage, dir, name_map, refused>>
allVars == <<vars, startVars>>

-----------------------------------------------------------------------------
(* main                                                                     *)

goes_to(s) ==
    /\ stage' = s
    /\ UNCHANGED <<vars, dir, name_map, refused>>

exits_refused ==
    /\ SyscallMayFail
    /\ stage' = "exited"
    /\ refused' = TRUE
    /\ UNCHANGED <<vars, dir, name_map>>

\* fork, umask, setsid, chdir and the closing of the standard files
daemonise ==
    /\ stage = "start"
    /\ goes_to("config") \/ exits_refused

\* config_load: access, and iniparser_load.
read_config_file ==
    /\ stage = "config"
    /\ goes_to("load") \/ exits_refused

load ==
    /\ stage = "load"
    /\ config_load
    /\ UNCHANGED startVars

config_loaded ==
    /\ stage = "load"
    /\ \/ pc = "done" /\ config = NULL /\ goes_to("exited")
       \/ pc = "done" /\ config # NULL /\ goes_to("begin_watch")
       \/ pc = "crashed" /\ goes_to("crashed")

-----------------------------------------------------------------------------
(* begin_watch                                                              *)

\* Mutant: begin_watch does not ask whether anything is unset.
nothing_refused == FALSE

is_refused ==
    \/ config.fire_on = {}
    \/ config.watch_dir = <<>>
    \/ config.type = {}

begin_watch ==
    /\ stage = "begin_watch"
    /\ \/ is_refused /\ goes_to("exited")
       \/ ~is_refused /\ goes_to("init")
       \/ exits_refused             \* inotify_init

\* Each command is measured, which may be NULL, and copied to memory that may
\* not be there.
event_handling_init ==
    /\ stage = "init"
    /\ \/ /\ config.open_cmd /\ config.close_cmd
          /\ goes_to("watch") \/ exits_refused          \* pthread_create
       \/ /\ ~(config.open_cmd /\ config.close_cmd)
          /\ goes_to("crashed")
       \/ /\ AllocMayFail
          /\ stage' = "crashed"
          /\ starved' = TRUE
          /\ UNCHANGED <<fsVars, setting, pc, walkVars, config, dir, name_map, refused>>

\* Mutant: one place of name_map is not used.
map_is_full_too_early == Len(name_map) >= MAX_WATCH - 1

map_is_full == Len(name_map) >= MAX_WATCH

\* Mutant: a directory that cannot be watched is passed over.
add_watch_or_pass_over ==
    /\ stage = "watch"
    /\ dir <= Len(config.watch_dir)
    /\ name_map' = IF config.watch_dir[dir] \in exists
                   THEN Append(name_map, config.watch_dir[dir]) ELSE name_map
    /\ dir' = dir + 1
    /\ UNCHANGED <<vars, stage, refused>>

\* inotify_add_watch and add_to_map: one directory that is gone, or one too
\* many, and the daemon stops.
add_watch ==
    /\ stage = "watch"
    /\ dir <= Len(config.watch_dir)
    /\ \/ /\ config.watch_dir[dir] \in exists
          /\ ~map_is_full
          /\ name_map' = Append(name_map, config.watch_dir[dir])
          /\ dir' = dir + 1
          /\ UNCHANGED <<vars, stage, refused>>
       \/ /\ config.watch_dir[dir] \notin exists \/ map_is_full
          /\ goes_to("exited")
       \/ exits_refused

get_events ==
    /\ stage = "watch"
    /\ dir > Len(config.watch_dir)
    /\ goes_to("watching")

-----------------------------------------------------------------------------

main ==
    \/ daemonise \/ read_config_file \/ load \/ config_loaded
    \/ begin_watch \/ event_handling_init \/ add_watch \/ get_events

other_processes == environment /\ UNCHANGED startVars

StartInit ==
    /\ Init
    /\ stage = "start"
    /\ dir = 1
    /\ name_map = <<>>
    /\ refused = FALSE

StartNext == main \/ other_processes

StartSpec == StartInit /\ [][StartNext]_allVars

FairSpec == StartSpec /\ WF_allVars(main)

-----------------------------------------------------------------------------
(* Properties.                                                              *)

StartTypeOK ==
    /\ TypeOK
    /\ stage \in {"start", "config", "load", "begin_watch", "init", "watch",
                  "watching", "exited", "crashed"}
    /\ dir \in Nat \ {0}
    /\ name_map \in Seq(Dirs)
    /\ refused \in BOOLEAN

\* The daemon does not watch with half a configuration, although config_load
\* returns one that it gave up half-way like any other: each goto clean_up
\* leaves something unset that begin_watch asks for, or a command that it
\* crashes on.  And it watches each directory of the configuration, in order.
WatchingIsComplete ==
    stage = "watching" =>
        /\ config.open_cmd /\ config.close_cmd /\ config.min_read_close
        /\ "unknown" \notin ToSet(setting.fire_on)
        /\ config.fire_on = ToSet(setting.fire_on)
        /\ ToSet(setting.watch_dir) \subseteq ToSet(name_map)
        /\ name_map = config.watch_dir

\* In a tree that nobody changes the two walks agree with each other and with
\* the tree: every directory is watched, as often as it is reached from
\* watch_dir, and the array for their names is full.
QuietTreeIsWatched ==
    (stage = "watching" /\ ops = 0 /\ ~starved) =>
        /\ ToSet(name_map) = toWatch
        /\ Len(name_map) = config.allocated

\* The checks of begin_watch come before anything is done with the commands:
\* only memory that ran out makes the daemon crash, no setting and nothing that
\* other processes do to the directories.
CrashIsForWantOfMemory == stage = "crashed" => starved

\* A daemon that stops has a reason: a setting that is missing or wrong, a
\* directory that is not there, too many of them.
ExitHasReason ==
    (stage = "exited" /\ ops = 0 /\ ~starved /\ ~refused) =>
        \/ setting.watch_dir = <<>> \/ setting.fire_on = <<>>
        \/ "unknown" \in ToSet(setting.fire_on)
        \/ \E d \in ToSet(setting.watch_dir) : d \notin exists
        \/ count > MAX_WATCH

\* Whatever happens in the directories meanwhile, the daemon comes to watch
\* them or stops.
StartsOrStops == <>(stage \in {"watching", "exited", "crashed"})

\* What the program is said to do and does not: "recursive=true ; if set to
\* true it will recursively watch all contents" (watch_it.conf).  A directory
\* that was there all the time is watched.
WatchesAllContents ==
    (stage = "watching" /\ ~starved) => (toWatch \cap steady) \subseteq ToSet(name_map)

-----------------------------------------------------------------------------
(* The inductive invariant.                                                 *)

\* The walk is at an item of watch_dir, in the directories of stack.
WalkInv ==
    /\ pc \in {"opendir", "readdir"} => tok <= Len(setting.watch_dir)
    /\ pc = "opendir" => dir_name \in Dirs
    /\ pc = "readdir" => stack # <<>>

Entered(items) ==
    \A i \in items : setting.watch_dir[i] \in ToSet(config.watch_dir)

\* What the walk that fills the array has entered.
EnteredInv ==
    /\ (pass = "load" /\ pc = "item") => Entered(1..tok - 1)
    /\ (pass = "load" /\ pc \in {"opendir", "readdir"}) => Entered(1..tok)
    /\ pc \in {"content", "fire_on_again", "commands"} =>
          Entered(DOMAIN setting.watch_dir)

AllOptionsKnown ==
    /\ "unknown" \notin ToSet(setting.fire_on)
    /\ config.fire_on = ToSet(setting.fire_on)

\* What the steps of config_load before this one have left in config.
LoadInv ==
    /\ pc \in {"allocate", "fire_on"} => pass = "count"
    /\ pc \in {"content", "fire_on_again", "commands"} => pass = "load"
    /\ pass = "count" => (config # NULL <=> pc = "fire_on")
    /\ pass = "load" => config # NULL
    /\ (pass = "load" /\ pc # "done") => "unknown" \notin ToSet(setting.fire_on)
    /\ pc = "fire_on" => config.watch_dir = <<>>
    /\ pc = "commands" => AllOptionsKnown
    /\ config # NULL => config.fire_on \subseteq known_options(setting.fire_on)

\* An open command is the last that is loaded: with it all the rest is there,
\* and without it the configuration is empty or malloc has failed.
DoneInv ==
    /\ (config # NULL /\ config.open_cmd) =>
          /\ pc = "done" /\ config.close_cmd /\ config.min_read_close
          /\ AllOptionsKnown
          /\ Entered(DOMAIN setting.watch_dir)
    /\ (pc = "done" /\ config # NULL /\ ~starved) =>
          config.watch_dir = <<>> \/ config.open_cmd
    /\ (pc = "done" /\ config = NULL /\ ~starved) => count = -1
    /\ pc = "crashed" => starved

\* begin_watch goes over the directories of the configuration it has accepted.
StageInv ==
    /\ stage \in {"begin_watch", "init", "watch", "watching"} =>
          pc = "done" /\ config # NULL
    /\ stage \in {"init", "watch", "watching"} => ~is_refused
    /\ stage \in {"watch", "watching"} => config.open_cmd
    /\ stage \notin {"watch", "watching", "exited"} => dir = 1 /\ name_map = <<>>
    /\ stage \in {"watch", "watching"} =>
          /\ dir = Len(name_map) + 1
          /\ Len(name_map) <= Len(config.watch_dir)
          /\ \A i \in DOMAIN name_map : name_map[i] = config.watch_dir[i]
    /\ stage = "watching" => Len(name_map) = Len(config.watch_dir)
    /\ stage = "crashed" => starved

StartInv == StartTypeOK /\ WalkInv /\ EnteredInv /\ LoadInv /\ DoneInv /\ StageInv
-----------------------------------------------------------------------------
(* The directories that a walk has before it.                               *)

\* What there is to visit: the directories of each item of watch_dir.
Visits ==
    {v \in (DOMAIN setting.watch_dir) \X Dirs : v[2] \in reached(setting.watch_dir[v[1]])}

\* The directories that have been listed and not read.
unread == exists \cap Dirs \cap (UNION {stack[k].left : k \in DOMAIN stack})

\* Those of the item it is at that the walk has still to visit.
ahead ==
    (UNION {under(x) : x \in unread})
    \cup (IF pc = "opendir" THEN under(dir_name) \ {dir_name} ELSE {})

toVisit ==
    {v \in Visits :
        \/ pc = "item" /\ v[1] >= tok
        \/ pc \in {"opendir", "readdir"} /\ (v[1] > tok \/ (v[1] = tok /\ v[2] \in ahead))}

Item == setting.watch_dir[tok]

\* Unless a directory is created, none is before the walk twice.
AheadInv ==
    /\ pc \in {"item", "allocate", "fire_on"} => stack = <<>>
    /\ pc \in {"opendir", "readdir"} => setting.recursive
    /\ (pc = "opendir" /\ stack = <<>>) => dir_name = Item
    /\ (pc \in {"opendir", "readdir"} /\ ~created) =>
          /\ ahead \subseteq under(Item) \ {Item}
          /\ \A j, k \in DOMAIN stack :
                j # k => stack[j].left \cap stack[k].left \cap exists \cap Dirs = {}
          /\ \A x, y \in unread : x # y => x \notin under(y)
          /\ pc = "opendir" =>
                \A x \in unread : x \notin under(dir_name) /\ dir_name \notin under(x)

\* The count has all that was visited, and what has been entered leaves room
\* for all that is to be visited.
CountInv ==
    /\ config # NULL => config.allocated = count
    /\ count = -1 => pc \in {"allocate", "done", "crashed"}
    /\ (~created /\ pass = "count" /\ count # -1) =>
          Cardinality(Visits \ toVisit) <= count
    /\ (~created /\ config # NULL) =>
          Len(config.watch_dir) + Cardinality(toVisit) <= count

\* While nobody changes the directories, a walk fails at an item that is not
\* there and nowhere else, and the second walk does not fail.
QuietInv ==
    ops = 0 =>
        /\ ~created
        /\ count = -1 => \E d \in ToSet(setting.watch_dir) : d \notin exists
        /\ (setting.recursive /\ count # -1) =>
              /\ (pass = "load" \/ pc \in {"allocate", "fire_on"}) =>
                    ToSet(setting.watch_dir) \subseteq exists
              /\ \A i \in 1..tok - 1 : setting.watch_dir[i] \in exists
              /\ stack # <<>> => Item \in exists
        /\ pc = "opendir" => dir_name \in exists \/ stack = <<>>
        /\ \A k \in DOMAIN stack : stack[k].left \subseteq exists

\* Then both walks visit all that there is.
CompleteInv ==
    ops = 0 =>
        /\ (pass = "count" /\ count # -1) => Cardinality(Visits \ toVisit) = count
        /\ (pass = "load" /\ "unknown" \notin ToSet(setting.fire_on) /\ ~starved) =>
              /\ Len(config.watch_dir) + Cardinality(toVisit) = count
              /\ ToSet(config.watch_dir) = {v[2] : v \in Visits \ toVisit}

\* The contents of the directories are asked for before the commands.
ContentInv ==
    (config # NULL /\ (pc \in {"fire_on_again", "commands"} \/ config.open_cmd)) =>
        config.type = {"CONTENT"}

TreeInv == AheadInv /\ CountInv /\ QuietInv /\ CompleteInv /\ ContentInv

IInv == StartInv /\ TreeInv /\ ExitHasReason
=============================================================================
