------------------------------- MODULE Config -------------------------------
(***************************************************************************)
(* Loading the configuration (src/src/config.c).  config_load walks over   *)
(* the directory trees to be watched twice: get_watch_dir_count counts the *)
(* directories, to allocate the array for their names, and load_watch_dir  *)
(* enters them.  Other processes create and remove files and directories   *)
(* meanwhile: opendir, which also lists a directory, and the lstat of an   *)
(* entry are steps of their own.                                           *)
(*                                                                         *)
(* The dictionary has been read before (module IniParser); the settings    *)
(* are what its lookups give.                                              *)
(***************************************************************************)
EXTENDS Integers, Sequences, SequencesExt, FiniteSets

CONSTANTS
    Dirs, Plain,        \* directories and other files that there may be
    Parent,             \* the directory each of them is in
    Settings,           \* settings a configuration file may have
    NULL,
    AllocMayFail,       \* malloc may return NULL
    MaxOps              \* bound: operations of other processes

Nodes == Dirs \cup Plain

Setting == [watch_dir : Seq(Dirs), recursive : BOOLEAN,
            fire_on : Seq({"OPEN", "CLOSE", "unknown"})]

\* A directory that the walk is in, and what it has not read of its listing.
Frame == [dir : Dirs, left : SUBSET Nodes]

\* struct conf, with the length of the array for watch_dir
Config == [watch_dir : Seq(Dirs), allocated : Nat, type : SUBSET {"CONTENT"},
           fire_on : SUBSET {"OPEN", "CLOSE"}, min_read_close : BOOLEAN,
           close_cmd : BOOLEAN, open_cmd : BOOLEAN]

ASSUME ConfigFileAssumption ==
    /\ NULL \notin Config
    /\ Dirs \cap Plain = {}
    /\ DOMAIN Parent = Nodes
    /\ IsFiniteSet(Dirs)
    /\ \A S \in SUBSET Dirs : S # {} => \E d \in S : Parent[d] \notin S
    /\ Settings \subseteq Setting
    /\ AllocMayFail \in BOOLEAN
    /\ MaxOps \in Nat

VARIABLES
    exists,     \* the files and directories that exist
    ops,        \* operations of other processes so far
    created,    \* history: a directory has been created
    steady,     \* history: what has existed since the start
    starved,    \* history: malloc has returned NULL
    setting,    \* the settings in the dictionary
    pc,         \* where config_load is
    pass,       \* the walk it is on: "count" or "load"
    tok,        \* the item of watch_dir it is at
    dir_name,   \* the directory to open next
    stack,      \* the directories it is in and what it has not read of them
    count,      \* the result of get_watch_dir_count
    config      \* the result of config_load

fsVars   == <<exists, ops, created, steady>>
walkVars == <<pass, tok, dir_name, stack, count>>
vars == <<fsVars, setting, pc, walkVars, config, starved>>

-----------------------------------------------------------------------------
(* Other processes.                                                         *)

children(d) == {e \in exists : Parent[e] = d}

create(e) ==
    /\ e \notin exists
    /\ Parent[e] \in exists
    /\ exists' = exists \cup {e}
    /\ created' = (created \/ e \in Dirs)
    /\ UNCHANGED steady

remove(e) ==
    /\ e \in exists
    /\ children(e) = {}
    /\ exists' = exists \ {e}
    /\ steady' = steady \ {e}
    /\ UNCHANGED created

environment ==
    /\ ops < MaxOps
    /\ ops' = ops + 1
    /\ \E e \in Nodes : create(e) \/ remove(e)
    /\ UNCHANGED <<setting, pc, walkVars, config, starved>>

-----------------------------------------------------------------------------
(* The walk: count_all_dirs and load_watch_dir_rec, and the loops over the  *)
(* items of watch_dir around them.                                          *)

\* config_init
NoConfig ==
    [watch_dir |-> <<>>, allocated |-> count, type |-> {}, fire_on |-> {},
     min_read_close |-> FALSE, close_cmd |-> FALSE, open_cmd |-> FALSE]

write_to_watchdir(d) ==
    config' = [config EXCEPT !.watch_dir = Append(@, d)]

\* Mutant: the directories in watch_dir are counted, not those in them.
count_items_only(d) ==
    \/ /\ pass = "count"
       /\ count' = IF stack = <<>> THEN count + 1 ELSE count
       /\ UNCHANGED config
    \/ /\ pass = "load"
       /\ write_to_watchdir(d)
       /\ UNCHANGED count

\* Directory d is counted, or entered.
note_dir(d) ==
    \/ /\ pass = "count"
       /\ count' = count + 1
       /\ UNCHANGED config
    \/ /\ pass = "load"
       /\ write_to_watchdir(d)
       /\ UNCHANGED count

next_item ==
    /\ tok' = tok + 1
    /\ pc' = "item"
    /\ stack' = <<>>

\* The walk returns -1: that ends the count, but load_watch_dir does not look
\* at the result.
walk_fails ==
    \/ /\ pass = "count"
       /\ count' = -1
       /\ pc' = "allocate"
       /\ stack' = <<>>
       /\ UNCHANGED <<tok, config>>
    \/ /\ pass = "load"
       /\ next_item
       /\ UNCHANGED <<count, config>>

visit_item ==
    /\ pc = "item"
    /\ tok <= Len(setting.watch_dir)
    /\ note_dir(setting.watch_dir[tok])
    /\ dir_name' = setting.watch_dir[tok]
    /\ IF setting.recursive THEN pc' = "opendir" /\ UNCHANGED <<tok, stack>>
                            ELSE next_item
    /\ UNCHANGED <<fsVars, setting, pass, starved>>

\* write_to_watchdir has no memory for an item: config_load gives up.
item_without_memory ==
    /\ pc = "item"
    /\ tok <= Len(setting.watch_dir)
    /\ pass = "load"
    /\ AllocMayFail
    /\ pc' = "done"
    /\ starved' = TRUE
    /\ UNCHANGED <<fsVars, setting, walkVars, config>>

end_of_items ==
    /\ pc = "item"
    /\ tok > Len(setting.watch_dir)
    /\ pc' = IF pass = "count" THEN "allocate" ELSE "content"
    /\ UNCHANGED <<fsVars, setting, walkVars, config, starved>>

opendir ==
    /\ pc = "opendir"
    /\ \/ /\ dir_name \in exists
          /\ stack' = Append(stack, [dir |-> dir_name, left |-> children(dir_name)])
          /\ pc' = "readdir"
          /\ UNCHANGED <<tok, count, config>>
       \/ /\ dir_name \notin exists
          /\ walk_fails
    /\ UNCHANGED <<fsVars, setting, pass, dir_name, starved>>

take(e) == stack' = Front(stack) \o <<[Last(stack) EXCEPT !.left = @ \ {e}]>>

\* Mutant: files are entered like directories.
any_file(e) == e \in exists

is_dir(e) == e \in exists /\ e \in Dirs

\* Mutant: the walk does not get past a file.
read_entry_again ==
    /\ pc = "readdir"
    /\ \E e \in Last(stack).left :
          \/ /\ is_dir(e)
             /\ take(e)
             /\ note_dir(e)
             /\ dir_name' = e
             /\ pc' = "opendir"
             /\ UNCHANGED tok
          \/ /\ e \in exists /\ ~is_dir(e)
             /\ UNCHANGED <<stack, pc, tok, dir_name, count, config>>
          \/ /\ e \notin exists
             /\ walk_fails
             /\ UNCHANGED dir_name
    /\ UNCHANGED <<fsVars, setting, pass, starved>>

\* One entry: lstat fails if it is gone, and only directories count.
read_entry ==
    /\ pc = "readdir"
    /\ \E e \in Last(stack).left :
          \/ /\ is_dir(e)
             /\ take(e)
             /\ note_dir(e)
             /\ dir_name' = e
             /\ pc' = "opendir"
             /\ UNCHANGED tok
          \/ /\ e \in exists /\ ~is_dir(e)
             /\ take(e)
             /\ UNCHANGED <<pc, tok, dir_name, count, config>>
          \/ /\ e \notin exists
             /\ walk_fails
             /\ UNCHANGED dir_name
    /\ UNCHANGED <<fsVars, setting, pass, starved>>

entry_without_memory ==
    /\ pc = "readdir"
    /\ pass = "load"
    /\ AllocMayFail
    /\ \E e \in Last(stack).left : is_dir(e)
    /\ walk_fails
    /\ starved' = TRUE
    /\ UNCHANGED <<fsVars, setting, pass, dir_name>>

closedir ==
    /\ pc = "readdir"
    /\ Last(stack).left = {}
    /\ IF Len(stack) = 1 THEN next_item
                         ELSE stack' = Front(stack) /\ UNCHANGED <<tok, pc>>
    /\ UNCHANGED <<fsVars, setting, pass, dir_name, count, config, starved>>

-----------------------------------------------------------------------------
(* config_load                                                              *)

\* malloc is asked for -8 bytes after a count that failed.
allocate_config ==
    /\ pc = "allocate"
    /\ \/ /\ count >= 0
          /\ config' = NoConfig
          /\ pc' = "fire_on"
          /\ UNCHANGED starved
       \/ /\ count = -1
          /\ pc' = "done"
          /\ UNCHANGED <<config, starved>>
       \/ /\ AllocMayFail           \* the second: no config to initialise
          /\ pc' \in {"done", "crashed"}
          /\ starved' = TRUE
          /\ UNCHANGED config
    /\ UNCHANGED <<fsVars, setting, walkVars>>

\* Options are entered up to the first unknown one.
known_options(s) ==
    {s[i] : i \in {j \in DOMAIN s : \A h \in 1..j : s[h] # "unknown"}}

load_fire_on(next) ==
    /\ config' = [config EXCEPT !.fire_on = @ \cup known_options(setting.fire_on)]
    /\ pc' = IF "unknown" \in ToSet(setting.fire_on) THEN "done" ELSE next

load_watch_dir ==
    /\ pc = "fire_on"
    /\ load_fire_on("item")
    /\ pass' = "load"
    /\ tok' = 1
    /\ UNCHANGED <<fsVars, setting, dir_name, stack, count, starved>>

load_watch_content ==
    /\ pc = "content"
    /\ config' = [config EXCEPT !.type = @ \cup {"CONTENT"}]
    /\ pc' = "fire_on_again"
    /\ UNCHANGED <<fsVars, setting, walkVars, starved>>

load_fire_on_again ==
    /\ pc = "fire_on_again"
    /\ load_fire_on("commands")
    /\ UNCHANGED <<fsVars, setting, walkVars, starved>>

\* load_commands stops at the first command there is no memory for; otherwise
\* load_min_read_close follows.
load_commands ==
    /\ pc = "commands"
    /\ \E close, open \in BOOLEAN :
          /\ open => close
          /\ ~open => AllocMayFail
          /\ starved' = (starved \/ ~open)
          /\ config' = [config EXCEPT !.close_cmd = close, !.open_cmd = open,
                                      !.min_read_close = open]
    /\ pc' = "done"
    /\ UNCHANGED <<fsVars, setting, walkVars>>

config_load ==
    \/ visit_item \/ item_without_memory \/ end_of_items
    \/ opendir \/ read_entry \/ entry_without_memory \/ closedir
    \/ allocate_config \/ load_watch_dir
    \/ load_watch_content \/ load_fire_on_again \/ load_commands

-----------------------------------------------------------------------------

\* A file exists only if its directory does.
closed(S) == \A e \in S : Parent[e] \in Nodes => Parent[e] \in S

Init ==
    /\ exists \in {S \in SUBSET Nodes : closed(S)}
    /\ ops = 0
    /\ created = FALSE
    /\ steady = exists
    /\ starved = FALSE
    /\ setting \in Settings
    /\ pc = "item"
    /\ pass = "count"
    /\ tok = 1
    /\ dir_name = NULL
    /\ stack = <<>>
    /\ count = 0
    /\ config = NULL

Next == environment \/ config_load

Spec == Init /\ [][Next]_vars

-----------------------------------------------------------------------------
(* Properties.                                                              *)

\* Every variable has its type: in particular only directories are entered.
TypeOK ==
    /\ exists \subseteq Nodes /\ steady \subseteq exists
    /\ ops \in 0..MaxOps
    /\ created \in BOOLEAN /\ starved \in BOOLEAN
    /\ setting \in Settings
    /\ pc \in {"item", "opendir", "readdir", "allocate", "fire_on", "content",
              "fire_on_again", "commands", "done", "crashed"}
    /\ pass \in {"count", "load"}
    /\ tok \in 1..Len(setting.watch_dir) + 1
    /\ dir_name \in Dirs \cup {NULL}
    /\ stack \in Seq(Frame)
    /\ count \in Nat \cup {-1}
    /\ config \in Config \cup {NULL}

\* The array for the names of the directories is long enough, whatever is
\* removed between the count and the walk that fills it; only a directory
\* that is created meanwhile can be one too many (write_to_watchdir does not
\* compare watch_dir_count with anything).
ArrayIsLongEnough ==
    (config # NULL /\ ~created) => Len(config.watch_dir) <= config.allocated

\* With each directory in S it has the ones in that, when the files in E exist.
DownClosed(E, S) == \A x \in S : \A e \in E \cap Dirs : Parent[e] = x => e \in S

\* The tree under d, the reference for both walks: the least such set with d.
InTree(E, d) ==
    {e \in Dirs : \A S \in SUBSET Dirs : d \in S /\ DownClosed(E, S) => e \in S}

under(d) == InTree(exists, d)

reached(d) == IF setting.recursive THEN under(d) ELSE {d}

toWatch == UNION {reached(d) : d \in ToSet(setting.watch_dir)}
=============================================================================
