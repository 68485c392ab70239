---------------------------- MODULE StartupProofs ----------------------------
(***************************************************************************)
(* What the daemon starts with, for any directories, any tree, any         *)
(* settings and anything that other processes do to the directories: the   *)
(* steps of config_load and main keep IInv (Startup.tla), first its part   *)
(* about the configuration, StartInv, then its part about the two walks    *)
(* over the tree, TreeInv.                                                 *)
(*                                                                         *)
(* A walk is judged by what there is to visit, one visit for each item of  *)
(* watch_dir and each directory in its tree: toVisit is what it has before *)
(* it, the rest is behind it, and the rest is what it has noted.  A visit  *)
(* that is noted passes from one to the other (NotedVisit); to open, list  *)
(* and leave a directory changes neither (OpenDirTree, CloseDirTree); and  *)
(* what others remove leaves both or shrinks them (LessAhead).             *)
(***************************************************************************)
EXTENDS Startup, SequenceTheorems, FiniteSetTheorems, TLAPS

ConfigInv == TypeOK /\ WalkInv /\ EnteredInv /\ LoadInv /\ DoneInv

-----------------------------------------------------------------------------
(* Sequences and options.                                                   *)

\* The elements of a list that grows.
LEMMA AppendedElements ==
    ASSUME NEW S, NEW s \in Seq(S), NEW d \in S
    PROVE  /\ Append(s, d) \in Seq(S)
           /\ d \in ToSet(Append(s, d))
           /\ ToSet(s) \subseteq ToSet(Append(s, d))
<1> DEFINE t == Append(s, d)
<1>1. /\ t \in Seq(S) /\ Len(t) = Len(s) + 1
      /\ \A i \in 1..Len(s) : t[i] = s[i]
      /\ t[Len(s) + 1] = d
  OBVIOUS
<1>2. DOMAIN t = 1..Len(s) + 1 /\ DOMAIN s = 1..Len(s) /\ Len(s) \in Nat
  BY <1>1
<1> HIDE DEF t
<1>3. d \in ToSet(t)
  BY <1>1, <1>2 DEF ToSet
<1>4. ToSet(s) \subseteq ToSet(t)
  BY <1>1, <1>2 DEF ToSet
<1> QED
  BY <1>1, <1>3, <1>4 DEF t

\* The listing of the directory that is read loses an entry.
LEMMA TakenEntry ==
    ASSUME NEW s \in Seq(Frame), s # <<>>, NEW f \in Frame
    PROVE  /\ Front(s) \o <<f>> \in Seq(Frame)
           /\ Front(s) \o <<f>> # <<>>
BY DEF Front

\* Leaving a directory.
LEMMA ShorterStack ==
    ASSUME NEW s \in Seq(Frame), s # <<>>, Len(s) # 1
    PROVE  Front(s) \in Seq(Frame) /\ Front(s) # <<>>
<1>1. Len(s) \in Nat /\ Len(s) > 1
  <2> DEFINE n == Len(s)
  <2>1. n \in Nat \ {0} /\ n # 1
    BY EmptySeq
  <2> HIDE DEF n
  <2>2. n \in Nat /\ n > 1
    BY <2>1
  <2> QED
    BY <2>2 DEF n
<1>2. Front(s) \in Seq(Frame) /\ Len(Front(s)) = Len(s) - 1
  BY <1>1, SubSeqProperties DEF Front
<1> QED
  BY <1>1, <1>2

\* The options that are entered are options, and all of them if all are known.
LEMMA KnownOptions ==
    ASSUME NEW s \in Seq({"OPEN", "CLOSE", "unknown"})
    PROVE  /\ known_options(s) \subseteq {"OPEN", "CLOSE"}
           /\ known_options(s) \subseteq ToSet(s)
           /\ "unknown" \notin ToSet(s) => known_options(s) = ToSet(s)
<1>1. \A i \in DOMAIN s : i \in 1..i /\ 1..i \subseteq DOMAIN s
  OBVIOUS
<1> QED
  BY <1>1 DEF known_options, ToSet

\* The settings have their type.
LEMMA SettingType ==
    ASSUME TypeOK
    PROVE  /\ setting.watch_dir \in Seq(Dirs)
           /\ setting.recursive \in BOOLEAN
           /\ setting.fire_on \in Seq({"OPEN", "CLOSE", "unknown"})
BY ConfigFileAssumption DEF TypeOK, Setting

-----------------------------------------------------------------------------
(* Steps of the two walks.                                                  *)

Walking == {"item", "opendir", "readdir"}

\* What a step of a walk does to the configuration.
Extended ==
    \/ config' = config
    \/ /\ pass = "load"
       /\ config' \in Config
       /\ config'.fire_on = config.fire_on
       /\ config'.open_cmd = config.open_cmd
       /\ ToSet(config.watch_dir) \subseteq ToSet(config'.watch_dir)

\* A directory is counted, or is then one of those of the configuration.
LEMMA NoteDir ==
    ASSUME ConfigInv, NEW d \in Dirs, note_dir(d)
    PROVE  /\ count' \in Nat \cup {-1}
           /\ config' \in Config \cup {NULL}
           /\ Extended
           /\ pass = "load" => d \in ToSet(config'.watch_dir)
<1>1. CASE pass = "count"
  BY <1>1 DEF note_dir, Extended, ConfigInv, TypeOK
<1>2. CASE pass = "load"
  <2>1. count' = count /\ write_to_watchdir(d)
    BY <1>2 DEF note_dir
  <2>2. config \in Config
    BY <1>2 DEF ConfigInv, TypeOK, LoadInv
  <2>3. config.watch_dir \in Seq(Dirs)
    BY <2>2 DEF Config
  <2>4. /\ Append(config.watch_dir, d) \in Seq(Dirs)
        /\ d \in ToSet(Append(config.watch_dir, d))
        /\ ToSet(config.watch_dir) \subseteq ToSet(Append(config.watch_dir, d))
    BY <2>3, AppendedElements
  <2>5. /\ config' \in Config
        /\ config'.watch_dir = Append(config.watch_dir, d)
        /\ config'.fire_on = config.fire_on
        /\ config'.open_cmd = config.open_cmd
    BY <2>1, <2>2, <2>4 DEF write_to_watchdir, Config
  <2> QED
    BY <1>2, <2>1, <2>4, <2>5 DEF Extended, ConfigInv, TypeOK
<1> QED
  BY <1>1, <1>2 DEF ConfigInv, TypeOK

\* A step inside a walk keeps what was loaded.
LEMMA WalkStep ==
    ASSUME ConfigInv, pc \in Walking, pc' \in Walking \cup {"allocate"},
           pc' = "allocate" => pass = "count",
           Extended, setting' = setting, pass' = pass,
           starved => starved'
    PROVE  LoadInv' /\ DoneInv'
<1>1. config # NULL => config' # NULL
  BY ConfigFileAssumption DEF Extended
<1>2. config' # NULL => config # NULL
  BY DEF Extended, ConfigInv, LoadInv
<1>3. config' # NULL => config'.fire_on = config.fire_on /\ config'.open_cmd = config.open_cmd
  BY DEF Extended
<1>4. LoadInv'
  BY <1>1, <1>2, <1>3 DEF ConfigInv, LoadInv, Walking, known_options
<1>5. config # NULL => ~config.open_cmd
  BY DEF ConfigInv, DoneInv, Walking
<1>6. DoneInv'
  BY <1>2, <1>3, <1>5 DEF DoneInv, Walking
<1> QED
  BY <1>4, <1>6

\* What has been entered stays entered.
LEMMA StaysEntered ==
    ASSUME Extended, setting' = setting, NEW S, Entered(S)
    PROVE  \A i \in S : setting.watch_dir[i] \in ToSet(config'.watch_dir)
BY DEF Extended, Entered

\* An item of watch_dir is noted; the loop over the items is at the next one, or
\* the walk goes down into it.
LEMMA VisitItem ==
    ASSUME ConfigInv, visit_item
    PROVE  ConfigInv'
<1> DEFINE d == setting.watch_dir[tok]
<1>1. /\ pc = "item" /\ tok <= Len(setting.watch_dir) /\ note_dir(d)
      /\ dir_name' = d
      /\ setting' = setting /\ pass' = pass /\ starved' = starved
      /\ UNCHANGED fsVars
  BY DEF visit_item
<1>2. /\ setting.watch_dir \in Seq(Dirs)
      /\ tok \in 1..Len(setting.watch_dir)
  BY <1>1, SettingType DEF ConfigInv, TypeOK
<1>3. d \in Dirs
  BY <1>2
<1>4. /\ count' \in Nat \cup {-1} /\ config' \in Config \cup {NULL}
      /\ Extended
      /\ pass = "load" => d \in ToSet(config'.watch_dir)
  BY <1>1, <1>3, NoteDir
<1>5. \/ pc' = "opendir" /\ tok' = tok /\ stack' = stack
      \/ pc' = "item" /\ tok' = tok + 1 /\ stack' = <<>>
  BY DEF visit_item, next_item
<1>6. stack' \in Seq(Frame)
  BY <1>5, EmptySeq DEF ConfigInv, TypeOK
<1>7. TypeOK'
  BY <1>1, <1>2, <1>3, <1>4, <1>5, <1>6 DEF ConfigInv, TypeOK, fsVars
<1>8. WalkInv'
  BY <1>1, <1>2, <1>3, <1>5 DEF WalkInv
<1>9. EnteredInv'
  <2>1. CASE pass = "load"
    <3>1. Entered(1..tok - 1)
      BY <1>1, <2>1 DEF ConfigInv, EnteredInv
    <3>2. \A i \in 1..tok - 1 : setting.watch_dir[i] \in ToSet(config'.watch_dir)
      BY <1>1, <1>4, <3>1, StaysEntered
    <3>3. \A i \in 1..tok : setting.watch_dir[i] \in ToSet(config'.watch_dir)
      BY <1>2, <1>4, <2>1, <3>2
    <3> QED
      BY <1>1, <1>2, <1>5, <3>3 DEF EnteredInv, Entered
  <2> QED
    BY <1>1, <1>5, <2>1 DEF EnteredInv
<1>10. LoadInv' /\ DoneInv'
  BY <1>1, <1>4, <1>5, WalkStep DEF Walking
<1> QED
  BY <1>7, <1>8, <1>9, <1>10 DEF ConfigInv

\* config_load gives up; what was loaded stays.
LEMMA ItemWithoutMemory ==
    ASSUME ConfigInv, item_without_memory
    PROVE  ConfigInv'
<1>1. /\ pc = "item" /\ pass = "load" /\ pc' = "done" /\ starved' = TRUE
      /\ UNCHANGED <<exists, ops, created, steady, setting, config>>
      /\ UNCHANGED <<pass, tok, dir_name, stack, count>>
  BY DEF item_without_memory, fsVars, walkVars
<1>2. TypeOK' /\ WalkInv' /\ EnteredInv'
  BY <1>1 DEF ConfigInv, TypeOK, WalkInv, EnteredInv
<1>3. LoadInv'
  BY <1>1 DEF ConfigInv, LoadInv, known_options
<1>4. DoneInv'
  BY <1>1 DEF ConfigInv, DoneInv
<1> QED
  BY <1>2, <1>3, <1>4 DEF ConfigInv

\* After the last item all of them have been entered.
LEMMA EndOfItems ==
    ASSUME ConfigInv, end_of_items
    PROVE  ConfigInv'
<1>1. /\ pc = "item" /\ tok > Len(setting.watch_dir)
      /\ pc' = IF pass = "count" THEN "allocate" ELSE "content"
      /\ UNCHANGED <<exists, ops, created, steady, setting, config, starved>>
      /\ UNCHANGED <<pass, tok, dir_name, stack, count>>
  BY DEF end_of_items, fsVars, walkVars
<1>2. pass = "load" \/ (pass = "count" /\ pc' = "allocate")
  BY <1>1 DEF ConfigInv, TypeOK
<1>3. TypeOK' /\ WalkInv'
  BY <1>1 DEF ConfigInv, TypeOK, WalkInv
<1>4. EnteredInv'
  <2>1. CASE pass = "load"
    <3>1. DOMAIN setting.watch_dir \subseteq 1..tok - 1
      BY <1>1, SettingType DEF ConfigInv, TypeOK
    <3>2. Entered(DOMAIN setting.watch_dir)
      BY <1>1, <2>1, <3>1 DEF ConfigInv, EnteredInv, Entered
    <3> QED
      BY <1>1, <2>1, <3>2 DEF EnteredInv, Entered
  <2> QED
    BY <1>1, <1>2, <2>1 DEF EnteredInv
<1>5. LoadInv'
  BY <1>1, <1>2 DEF ConfigInv, LoadInv, known_options
<1>6. DoneInv'
  BY <1>1 DEF ConfigInv, DoneInv
<1> QED
  BY <1>3, <1>4, <1>5, <1>6 DEF ConfigInv

\* A walk that fails goes on with the next item, or ends the count.
LEMMA WalkFails ==
    ASSUME ConfigInv, pc \in {"opendir", "readdir"}, walk_fails,
           UNCHANGED fsVars, setting' = setting, pass' = pass,
           dir_name' = dir_name, starved' \in BOOLEAN, starved => starved'
    PROVE  ConfigInv'
<1>1. /\ config' = config /\ stack' = <<>>
      /\ \/ pass = "count" /\ count' = -1 /\ pc' = "allocate" /\ tok' = tok
         \/ pass = "load" /\ count' = count /\ pc' = "item" /\ tok' = tok + 1
  BY DEF walk_fails, next_item
<1>2. tok \in 1..Len(setting.watch_dir) /\ Len(setting.watch_dir) \in Nat
  BY SettingType DEF ConfigInv, TypeOK, WalkInv
<1>3. TypeOK'
  BY <1>1, <1>2, EmptySeq DEF ConfigInv, TypeOK, fsVars
<1>4. WalkInv'
  BY <1>1 DEF WalkInv
<1>5. EnteredInv'
  <2>1. CASE pass = "load"
    <3>1. Entered(1..tok) /\ 1..tok' - 1 = 1..tok
      BY <1>1, <1>2, <2>1 DEF ConfigInv, EnteredInv
    <3> QED
      BY <1>1, <2>1, <3>1 DEF EnteredInv, Entered
  <2> QED
    BY <1>1, <2>1 DEF EnteredInv
<1>6. LoadInv' /\ DoneInv'
  BY <1>1, WalkStep DEF Walking, Extended
<1> QED
  BY <1>3, <1>4, <1>5, <1>6 DEF ConfigInv

\* A directory is listed, or the walk ends there.
LEMMA OpenDir ==
    ASSUME ConfigInv, opendir
    PROVE  ConfigInv'
<1>1. /\ pc = "opendir" /\ UNCHANGED fsVars /\ setting' = setting
      /\ pass' = pass /\ dir_name' = dir_name /\ starved' = starved
      /\ starved \in BOOLEAN
  BY DEF opendir, ConfigInv, TypeOK
<1>2. CASE walk_fails
  BY <1>1, <1>2, WalkFails
<1>3. CASE ~walk_fails
  <2> DEFINE f == [dir |-> dir_name, left |-> children(dir_name)]
  <2>1. /\ dir_name \in exists /\ stack' = Append(stack, f)
        /\ pc' = "readdir" /\ tok' = tok /\ count' = count /\ config' = config
    BY <1>3 DEF opendir
  <2>2. f \in Frame
    BY <1>1 DEF Frame, children, ConfigInv, TypeOK, WalkInv
  <2>3. stack' \in Seq(Frame) /\ stack' # <<>>
    <3> HIDE DEF f
    <3> QED
      BY <2>1, <2>2 DEF ConfigInv, TypeOK
  <2>4. TypeOK'
    BY <1>1, <2>1, <2>3 DEF ConfigInv, TypeOK, fsVars
  <2>5. WalkInv' /\ EnteredInv'
    BY <1>1, <2>1, <2>3 DEF ConfigInv, WalkInv, EnteredInv, Entered
  <2>6. LoadInv' /\ DoneInv'
    BY <1>1, <2>1, WalkStep DEF Walking, Extended
  <2> QED
    BY <2>4, <2>5, <2>6 DEF ConfigInv
<1> QED
  BY <1>2, <1>3

\* An entry is passed over, or is a directory that is noted, or ends the walk.
LEMMA ReadEntry ==
    ASSUME ConfigInv, read_entry
    PROVE  ConfigInv'
<1>1. /\ pc = "readdir" /\ UNCHANGED fsVars /\ setting' = setting
      /\ pass' = pass /\ starved' = starved /\ starved \in BOOLEAN
  BY DEF read_entry, ConfigInv, TypeOK
<1>2. CASE walk_fails /\ dir_name' = dir_name
  BY <1>1, <1>2, WalkFails
<1>3. ASSUME NEW e, take(e),
             \/ is_dir(e) /\ note_dir(e) /\ dir_name' = e /\ pc' = "opendir" /\ tok' = tok
             \/ UNCHANGED <<pc, tok, dir_name, count, config>>
      PROVE  ConfigInv'
  <2> DEFINE f == [Last(stack) EXCEPT !.left = @ \ {e}]
  <2>1. stack \in Seq(Frame) /\ stack # <<>>
    BY <1>1 DEF ConfigInv, TypeOK, WalkInv
  <2>2. f \in Frame
    <3>1. Last(stack) \in Frame
      BY <2>1 DEF Last
    <3> QED
      BY <3>1 DEF Frame
  <2>3. stack' \in Seq(Frame) /\ stack' # <<>>
    <3>1. stack' = Front(stack) \o <<f>>
      BY <1>3 DEF take
    <3> HIDE DEF f
    <3> QED
      BY <2>1, <2>2, <3>1, TakenEntry
  <2>4. /\ count' \in Nat \cup {-1} /\ config' \in Config \cup {NULL}
        /\ Extended
        /\ dir_name' \in Dirs \cup {NULL} /\ tok' = tok
        /\ pc' \in {"opendir", "readdir"}
        /\ pc' = "opendir" => dir_name' \in Dirs
    BY <1>1, <1>3, NoteDir DEF is_dir, ConfigInv, TypeOK, Extended
  <2>5. TypeOK'
    BY <1>1, <2>3, <2>4 DEF ConfigInv, TypeOK, fsVars
  <2>6. WalkInv'
    BY <1>1, <2>3, <2>4 DEF ConfigInv, WalkInv
  <2>7. EnteredInv'
    <3>1. CASE pass = "load"
      <4>1. Entered(1..tok)
        BY <1>1, <3>1 DEF ConfigInv, EnteredInv
      <4>2. \A i \in 1..tok : setting.watch_dir[i] \in ToSet(config'.watch_dir)
        BY <1>1, <2>4, <4>1, StaysEntered
      <4> QED
        BY <1>1, <2>4, <4>2 DEF EnteredInv, Entered
    <3> QED
      BY <1>1, <2>4, <3>1 DEF EnteredInv
  <2>8. LoadInv' /\ DoneInv'
    BY <1>1, <2>4, WalkStep DEF Walking
  <2> QED
    BY <2>5, <2>6, <2>7, <2>8 DEF ConfigInv
<1> QED
  BY <1>2, <1>3 DEF read_entry

\* A walk without memory fails like any other.
LEMMA EntryWithoutMemory ==
    ASSUME ConfigInv, entry_without_memory
    PROVE  ConfigInv'
BY WalkFails DEF entry_without_memory

\* The walk is back in the directory above, or done with an item.
LEMMA CloseDir ==
    ASSUME ConfigInv, closedir
    PROVE  ConfigInv'
<1>1. /\ pc = "readdir" /\ UNCHANGED fsVars /\ setting' = setting
      /\ pass' = pass /\ starved' = starved /\ dir_name' = dir_name
      /\ count' = count /\ config' = config
  BY DEF closedir
<1>2. \/ tok' = tok + 1 /\ pc' = "item" /\ stack' = <<>>
      \/ /\ Len(stack) # 1 /\ stack' = Front(stack) /\ tok' = tok
         /\ pc' = "readdir"
  BY <1>1 DEF closedir, next_item
<1>3. tok \in 1..Len(setting.watch_dir) /\ Len(setting.watch_dir) \in Nat
  BY <1>1, SettingType DEF ConfigInv, TypeOK, WalkInv
<1>4. stack' \in Seq(Frame) /\ (pc' = "readdir" => stack' # <<>>)
  BY <1>1, <1>2, ShorterStack, EmptySeq DEF ConfigInv, TypeOK, WalkInv
<1>5. TypeOK'
  BY <1>1, <1>2, <1>3, <1>4 DEF ConfigInv, TypeOK, fsVars
<1>6. WalkInv'
  BY <1>1, <1>2, <1>3, <1>4 DEF WalkInv
<1>7. EnteredInv'
  <2>1. CASE pass = "load"
    <3>1. Entered(1..tok)
      BY <1>1, <2>1 DEF ConfigInv, EnteredInv
    <3>2. CASE pc' = "item"
      <4>1. 1..tok' - 1 = 1..tok
        BY <1>2, <1>3, <3>2
      <4> QED
        BY <1>1, <3>1, <3>2, <4>1 DEF EnteredInv, Entered
    <3>3. CASE pc' = "readdir" /\ tok' = tok
      BY <1>1, <3>1, <3>3 DEF EnteredInv, Entered
    <3> QED
      BY <1>2, <3>2, <3>3
  <2> QED
    BY <1>1, <1>2, <2>1 DEF EnteredInv
<1>8. LoadInv' /\ DoneInv'
  BY <1>1, <1>2, WalkStep DEF Walking, Extended
<1> QED
  BY <1>5, <1>6, <1>7, <1>8 DEF ConfigInv

-----------------------------------------------------------------------------
(* The other steps of config_load.                                          *)

\* There is an empty configuration, or none.
LEMMA AllocateConfig ==
    ASSUME ConfigInv, allocate_config
    PROVE  ConfigInv'
<1>1. /\ pc = "allocate" /\ UNCHANGED fsVars /\ setting' = setting
      /\ UNCHANGED <<pass, tok, dir_name, stack, count>>
  BY DEF allocate_config, walkVars
<1>2. CASE config' = NoConfig /\ pc' = "fire_on" /\ starved' = starved /\ count >= 0
  <2>1. /\ NoConfig \in Config
        /\ NoConfig.watch_dir = <<>> /\ NoConfig.fire_on = {}
        /\ NoConfig.open_cmd = FALSE
    <3>1. count \in Nat
      BY <1>2 DEF ConfigInv, TypeOK
    <3> QED
      BY <3>1, EmptySeq DEF NoConfig, Config
  <2>2. TypeOK' /\ WalkInv' /\ EnteredInv'
    BY <1>1, <1>2, <2>1 DEF ConfigInv, TypeOK, WalkInv, EnteredInv, fsVars
  <2>3. config' # NULL
    BY <1>2, <2>1, ConfigFileAssumption
  <2>4. LoadInv'
    BY <1>1, <1>2, <2>1, <2>3 DEF ConfigInv, LoadInv
  <2>5. DoneInv'
    BY <1>1, <1>2, <2>1 DEF DoneInv
  <2> QED
    BY <2>2, <2>4, <2>5 DEF ConfigInv
<1>3. CASE /\ config' = config /\ pc' \in {"done", "crashed"}
           /\ starved' \in BOOLEAN
           /\ pc' = "crashed" => starved'
           /\ pc' = "done" => count = -1 \/ starved'
  <2>1. config = NULL
    BY <1>1 DEF ConfigInv, LoadInv
  <2>2. pass = "count"
    BY <1>1 DEF ConfigInv, LoadInv
  <2>3. TypeOK'
    BY <1>1, <1>3 DEF ConfigInv, TypeOK, fsVars
  <2>4. WalkInv' /\ EnteredInv'
    BY <1>1, <1>3, <2>2 DEF WalkInv, EnteredInv
  <2>5. config' = NULL /\ pass' = "count" /\ pc' \in {"done", "crashed"}
    BY <1>1, <1>3, <2>1, <2>2
  <2>6. LoadInv'
    BY <2>5 DEF LoadInv
  <2>7. DoneInv'
    BY <1>1, <1>3, <2>5 DEF DoneInv
  <2> QED
    BY <2>3, <2>4, <2>6, <2>7 DEF ConfigInv
<1> QED
  BY <1>2, <1>3 DEF allocate_config, ConfigInv, TypeOK

\* What load_fire_on leaves: the options that are known, and all else as before.
LEMMA LoadFireOn ==
    ASSUME ConfigInv, config # NULL, NEW next, load_fire_on(next)
    PROVE  /\ config' \in Config /\ config' # NULL
           /\ config'.fire_on = known_options(setting.fire_on)
           /\ config'.watch_dir = config.watch_dir
           /\ config'.allocated = config.allocated
           /\ config'.type = config.type
           /\ config'.open_cmd = config.open_cmd
           /\ "unknown" \notin ToSet(setting.fire_on) =>
                 config'.fire_on = ToSet(setting.fire_on)
<1>1. config \in Config /\ config.fire_on \subseteq known_options(setting.fire_on)
  BY DEF ConfigInv, TypeOK, LoadInv
<1>2. /\ known_options(setting.fire_on) \subseteq {"OPEN", "CLOSE"}
      /\ "unknown" \notin ToSet(setting.fire_on) =>
            known_options(setting.fire_on) = ToSet(setting.fire_on)
  BY SettingType, KnownOptions DEF ConfigInv
<1>3. config.fire_on \cup known_options(setting.fire_on) = known_options(setting.fire_on)
  BY <1>1
<1>4. config' = [config EXCEPT !.fire_on = known_options(setting.fire_on)]
  BY <1>1, <1>3 DEF load_fire_on
<1>5. /\ config' \in Config
      /\ config'.fire_on = known_options(setting.fire_on)
      /\ config'.watch_dir = config.watch_dir
      /\ config'.allocated = config.allocated
      /\ config'.type = config.type
      /\ config'.open_cmd = config.open_cmd
  BY <1>1, <1>2, <1>4 DEF Config
<1> QED
  BY <1>2, <1>5, ConfigFileAssumption

\* The options are entered, and the second walk begins.
LEMMA LoadWatchDir ==
    ASSUME ConfigInv, load_watch_dir
    PROVE  ConfigInv'
<1>1. /\ pc = "fire_on" /\ UNCHANGED fsVars /\ setting' = setting
      /\ pass' = "load" /\ tok' = 1
      /\ UNCHANGED <<dir_name, stack, count, starved>>
      /\ load_fire_on("item")
  BY DEF load_watch_dir
<1>2. config # NULL
  BY <1>1 DEF ConfigInv, LoadInv, TypeOK
<1>3. /\ config' \in Config /\ config' # NULL
      /\ config'.fire_on = known_options(setting.fire_on)
      /\ config'.watch_dir = config.watch_dir
      /\ config'.open_cmd = config.open_cmd
  BY <1>1, <1>2, LoadFireOn
<1>4. \/ pc' = "done"
      \/ pc' = "item" /\ "unknown" \notin ToSet(setting.fire_on)
  BY <1>1 DEF load_fire_on
<1>5. TypeOK'
  BY <1>1, <1>3, <1>4, SettingType DEF ConfigInv, TypeOK, fsVars
<1>6. WalkInv' /\ EnteredInv'
  BY <1>1, <1>4 DEF WalkInv, EnteredInv, Entered
<1>7. LoadInv'
  BY <1>1, <1>3, <1>4 DEF LoadInv, known_options
<1>8. DoneInv'
  BY <1>1, <1>2, <1>3, <1>4 DEF ConfigInv, LoadInv, DoneInv
<1> QED
  BY <1>5, <1>6, <1>7, <1>8 DEF ConfigInv

\* The contents of directories are asked for.
LEMMA LoadWatchContent ==
    ASSUME ConfigInv, load_watch_content
    PROVE  ConfigInv'
<1>1. /\ pc = "content" /\ pc' = "fire_on_again"
      /\ UNCHANGED <<exists, ops, created, steady, setting, starved>>
      /\ UNCHANGED <<pass, tok, dir_name, stack, count>>
      /\ config' = [config EXCEPT !.type = @ \cup {"CONTENT"}]
  BY DEF load_watch_content, fsVars, walkVars
<1>2. /\ pass = "load" /\ config \in Config /\ config # NULL
      /\ "unknown" \notin ToSet(setting.fire_on)
      /\ config.fire_on \subseteq known_options(setting.fire_on)
      /\ Entered(DOMAIN setting.watch_dir)
      /\ ~config.open_cmd
  BY <1>1 DEF ConfigInv, TypeOK, LoadInv, EnteredInv, DoneInv
<1>3. /\ config' \in Config
      /\ config'.fire_on = config.fire_on
      /\ config'.watch_dir = config.watch_dir
      /\ config'.open_cmd = config.open_cmd
  BY <1>1, <1>2 DEF Config
<1>4. config' # NULL
  BY <1>3, ConfigFileAssumption
<1>5. TypeOK' /\ WalkInv'
  BY <1>1, <1>3 DEF ConfigInv, TypeOK, WalkInv
<1>6. EnteredInv'
  BY <1>1, <1>2, <1>3 DEF EnteredInv, Entered
<1>7. LoadInv'
  BY <1>1, <1>2, <1>3, <1>4 DEF LoadInv, known_options
<1>8. DoneInv'
  BY <1>1, <1>2, <1>3 DEF DoneInv
<1> QED
  BY <1>5, <1>6, <1>7, <1>8 DEF ConfigInv

\* The options are entered once more: they are all known by now.
LEMMA LoadFireOnAgain ==
    ASSUME ConfigInv, load_fire_on_again
    PROVE  ConfigInv'
<1>1. /\ pc = "fire_on_again"
      /\ UNCHANGED <<exists, ops, created, steady, setting, starved>>
      /\ UNCHANGED <<pass, tok, dir_name, stack, count>>
      /\ load_fire_on("commands")
  BY DEF load_fire_on_again, fsVars, walkVars
<1>2. /\ pass = "load" /\ config # NULL
      /\ "unknown" \notin ToSet(setting.fire_on)
      /\ Entered(DOMAIN setting.watch_dir)
      /\ ~config.open_cmd
  BY <1>1 DEF ConfigInv, LoadInv, EnteredInv, DoneInv
<1>3. /\ config' \in Config /\ config' # NULL
      /\ config'.fire_on = known_options(setting.fire_on)
      /\ config'.watch_dir = config.watch_dir
      /\ config'.open_cmd = config.open_cmd
      /\ config'.fire_on = ToSet(setting.fire_on)
  BY <1>1, <1>2, LoadFireOn
<1>4. pc' = "commands"
  BY <1>1, <1>2 DEF load_fire_on
<1>5. TypeOK' /\ WalkInv'
  BY <1>1, <1>3, <1>4 DEF ConfigInv, TypeOK, WalkInv
<1>6. EnteredInv'
  BY <1>1, <1>2, <1>3, <1>4 DEF EnteredInv, Entered
<1>7. LoadInv'
  BY <1>1, <1>2, <1>3, <1>4 DEF LoadInv, AllOptionsKnown, known_options
<1>8. DoneInv'
  BY <1>2, <1>3, <1>4 DEF DoneInv
<1> QED
  BY <1>5, <1>6, <1>7, <1>8 DEF ConfigInv

\* The open command comes last: it is there with everything else.
LEMMA LoadCommands ==
    ASSUME ConfigInv, load_commands
    PROVE  ConfigInv'
<1>1. /\ pc = "commands" /\ pc' = "done"
      /\ UNCHANGED <<exists, ops, created, steady, setting>>
      /\ UNCHANGED <<pass, tok, dir_name, stack, count>>
  BY DEF load_commands, fsVars, walkVars
<1>2. PICK close \in BOOLEAN, open \in BOOLEAN :
         /\ open => close
         /\ starved' = (starved \/ ~open)
         /\ config' = [config EXCEPT !.close_cmd = close, !.open_cmd = open,
                                     !.min_read_close = open]
  BY DEF load_commands
<1>3. /\ pass = "load" /\ config \in Config
      /\ AllOptionsKnown
      /\ config.fire_on \subseteq known_options(setting.fire_on)
      /\ Entered(DOMAIN setting.watch_dir)
  BY <1>1 DEF ConfigInv, TypeOK, LoadInv, EnteredInv
<1>4. /\ config' \in Config
      /\ config'.fire_on = config.fire_on
      /\ config'.watch_dir = config.watch_dir
      /\ config'.open_cmd = open
      /\ config'.close_cmd = close
      /\ config'.min_read_close = open
  BY <1>2, <1>3 DEF Config
<1>5. config' # NULL
  BY <1>4, ConfigFileAssumption
<1>6. starved' \in BOOLEAN
  BY <1>2
<1>7. TypeOK' /\ WalkInv' /\ EnteredInv'
  BY <1>1, <1>4, <1>6 DEF ConfigInv, TypeOK, WalkInv, EnteredInv
<1>8. LoadInv'
  BY <1>1, <1>3, <1>4, <1>5 DEF LoadInv, known_options
<1>9. DoneInv'
  <2>1. AllOptionsKnown' /\ Entered(DOMAIN setting.watch_dir)'
    BY <1>1, <1>3, <1>4 DEF AllOptionsKnown, Entered
  <2>2. open => close
    BY <1>2
  <2>3. ~open => starved'
    BY <1>2
  <2> QED
    BY <1>1, <1>4, <1>5, <2>1, <2>2, <2>3 DEF DoneInv
<1> QED
  BY <1>7, <1>8, <1>9 DEF ConfigInv

\* Every step of config_load keeps its part of the invariant.
LEMMA ConfigLoad ==
    ASSUME ConfigInv, config_load
    PROVE  ConfigInv'
BY VisitItem, ItemWithoutMemory, EndOfItems, OpenDir, ReadEntry,
   EntryWithoutMemory, CloseDir, AllocateConfig, LoadWatchDir,
   LoadWatchContent, LoadFireOnAgain, LoadCommands DEF config_load

\* Other processes change none of it.
LEMMA Environment ==
    ASSUME ConfigInv, environment
    PROVE  ConfigInv'
<1>1. /\ UNCHANGED <<setting, pc, walkVars, config, starved>>
      /\ ops' = ops + 1 /\ ops < MaxOps
  BY DEF environment
<1>2. exists' \subseteq Nodes /\ steady' \subseteq exists' /\ created' \in BOOLEAN
  BY DEF environment, create, remove, ConfigInv, TypeOK
<1>3. TypeOK'
  BY <1>1, <1>2, ConfigFileAssumption DEF ConfigInv, TypeOK, walkVars
<1>4. WalkInv' /\ EnteredInv'
  BY <1>1 DEF ConfigInv, WalkInv, EnteredInv, Entered, walkVars
<1>5. LoadInv' /\ DoneInv'
  BY <1>1 DEF ConfigInv, LoadInv, DoneInv, AllOptionsKnown, Entered,
              known_options, walkVars
<1> QED
  BY <1>3, <1>4, <1>5 DEF ConfigInv

\* A step of main outside config_load, in which malloc may fail.
LEMMA ConfigKept ==
    ASSUME ConfigInv, UNCHANGED <<fsVars, setting, pc, walkVars, config>>,
           starved' \in BOOLEAN, starved => starved'
    PROVE  ConfigInv'
<1>1. TypeOK'
  BY DEF ConfigInv, TypeOK, fsVars, walkVars
<1>2. WalkInv' /\ EnteredInv' /\ LoadInv'
  BY DEF ConfigInv, WalkInv, EnteredInv, Entered, LoadInv, AllOptionsKnown,
         known_options, walkVars
<1>3. DoneInv'
  BY DEF ConfigInv, DoneInv, AllOptionsKnown, Entered, walkVars
<1> QED
  BY <1>1, <1>2, <1>3 DEF ConfigInv

-----------------------------------------------------------------------------
(* main and begin_watch.                                                    *)

\* The part of the invariant that is about main.
MainInv == StartTypeOK /\ StageInv

\* The invariant is that of config_load and that of main.
LEMMA StartInvParts == StartInv <=> ConfigInv /\ MainInv
BY DEF StartInv, ConfigInv, MainInv, StartTypeOK

\* A step that goes to another stage, or exits, changes nothing else that
\* the invariant is about.
Left(s) ==
    /\ stage' = s
    /\ UNCHANGED <<vars, dir, name_map>>
    /\ refused' \in BOOLEAN

\* The ways main takes from one stage to another.
LEMMA Leaving ==
    /\ \A s : goes_to(s) /\ StartTypeOK => Left(s)
    /\ exits_refused => Left("exited")
BY DEF goes_to, exits_refused, Left, StartTypeOK

\* They leave the configuration as it is.
LEMMA LeftType ==
    ASSUME StartInv, NEW s, Left(s),
           s \in {"start", "config", "load", "begin_watch", "init", "watch",
                  "watching", "exited", "crashed"}
    PROVE  ConfigInv' /\ StartTypeOK'
<1>1. ConfigInv'
  BY StartInvParts, ConfigKept DEF Left, vars, ConfigInv, TypeOK
<1> QED
  BY <1>1 DEF Left, StartInv, StartTypeOK, ConfigInv

\* A daemon that stops does so in any state.
LEMMA Exits ==
    ASSUME StartInv, Left("exited")
    PROVE  StartInv'
<1>1. ConfigInv' /\ StartTypeOK'
  BY LeftType
<1>2. StageInv'
  BY DEF Left, StageInv
<1> QED
  BY <1>1, <1>2, StartInvParts DEF StartInv, ConfigInv

\* Nothing is loaded yet.
LEMMA Daemonise ==
    ASSUME StartInv, daemonise \/ read_config_file
    PROVE  StartInv'
<1>1. CASE Left("exited")
  BY <1>1, Exits
<1>2. ASSUME NEW s \in {"config", "load"}, Left(s), stage \in {"start", "config"}
      PROVE  StartInv'
  <2>1. ConfigInv' /\ StartTypeOK'
    BY <1>2, LeftType
  <2>2. StageInv'
    BY <1>2 DEF Left, StartInv, StageInv
  <2> QED
    BY <2>1, <2>2 DEF StartInv, ConfigInv
<1> QED
  BY <1>1, <1>2, Leaving DEF daemonise, read_config_file, StartInv

\* main waits for config_load.
LEMMA Load ==
    ASSUME StartInv, load
    PROVE  StartInv'
<1>1. stage = "load" /\ config_load /\ UNCHANGED startVars
  BY DEF load
<1>2. ConfigInv'
  BY <1>1, ConfigLoad, StartInvParts
<1>3. StartTypeOK'
  BY <1>1, <1>2 DEF startVars, StartInv, StartTypeOK, ConfigInv
<1>4. StageInv'
  BY <1>1 DEF startVars, StartInv, StageInv
<1> QED
  BY <1>2, <1>3, <1>4 DEF StartInv, ConfigInv

\* What config_load has returned is looked at only for being there.
LEMMA ConfigLoaded ==
    ASSUME StartInv, config_loaded
    PROVE  StartInv'
<1>1. CASE Left("exited")
  BY <1>1, Exits
<1>2. ASSUME NEW s \in {"begin_watch", "crashed"}, Left(s), stage = "load",
             s = "begin_watch" => pc = "done" /\ config # NULL,
             s = "crashed" => pc = "crashed"
      PROVE  StartInv'
  <2>1. ConfigInv' /\ StartTypeOK'
    BY <1>2, LeftType
  <2>2. StageInv'
    BY <1>2 DEF Left, vars, StartInv, StageInv, DoneInv
  <2> QED
    BY <2>1, <2>2 DEF StartInv, ConfigInv
<1> QED
  BY <1>1, <1>2, Leaving DEF config_loaded, StartInv

\* What begin_watch accepts has directories, options and a type.
LEMMA BeginWatch ==
    ASSUME StartInv, begin_watch
    PROVE  StartInv'
<1>1. CASE Left("exited")
  BY <1>1, Exits
<1>2. CASE Left("init") /\ stage = "begin_watch" /\ ~is_refused
  <2>1. ConfigInv' /\ StartTypeOK'
    BY <1>2, LeftType
  <2>2. StageInv'
    BY <1>2 DEF Left, vars, StartInv, StageInv, is_refused
  <2> QED
    BY <2>1, <2>2 DEF StartInv, ConfigInv
<1> QED
  BY <1>1, <1>2, Leaving DEF begin_watch, StartInv

\* The crash of event_handling_init has run out of memory before.
LEMMA EventHandlingInit ==
    ASSUME StartInv, event_handling_init
    PROVE  StartInv'
<1>1. /\ stage = "init" /\ pc = "done" /\ config # NULL /\ ~is_refused
      /\ dir = 1 /\ name_map = <<>>
      /\ config \in Config
  BY DEF event_handling_init, StartInv, StageInv, StartTypeOK, TypeOK
<1>2. CASE Left("exited")
  BY <1>2, Exits
<1>3. CASE Left("watch") /\ config.open_cmd
  <2>1. ConfigInv' /\ StartTypeOK'
    BY <1>3, LeftType
  <2>2. config.watch_dir \in Seq(Dirs)
    BY <1>1 DEF Config
  <2>3. StageInv'
    BY <1>1, <1>3, <2>2 DEF Left, vars, StageInv, is_refused
  <2> QED
    BY <2>1, <2>3 DEF StartInv, ConfigInv
<1>4. CASE Left("crashed") /\ ~(config.open_cmd /\ config.close_cmd)
  <2>1. ConfigInv' /\ StartTypeOK'
    BY <1>4, LeftType
  <2>2. starved
    BY <1>1, <1>4 DEF StartInv, DoneInv, is_refused
  <2>3. StageInv'
    BY <1>1, <1>4, <2>2 DEF Left, vars, StageInv
  <2> QED
    BY <2>1, <2>3 DEF StartInv, ConfigInv
<1>5. CASE /\ stage' = "crashed" /\ starved' = TRUE
           /\ UNCHANGED <<fsVars, setting, pc, walkVars, config, dir, name_map, refused>>
  <2>1. ConfigInv'
    BY <1>5, ConfigKept, StartInvParts
  <2>2. StartTypeOK'
    BY <1>5, <2>1 DEF ConfigInv, StartInv, StartTypeOK
  <2>3. StageInv'
    BY <1>1, <1>5 DEF StageInv
  <2> QED
    BY <2>1, <2>2, <2>3 DEF StartInv, ConfigInv
<1> QED
  BY <1>2, <1>3, <1>4, <1>5, Leaving DEF event_handling_init, StartInv

\* The next directory of the configuration is watched.
LEMMA AddWatch ==
    ASSUME StartInv, add_watch
    PROVE  StartInv'
<1>1. CASE Left("exited")
  BY <1>1, Exits
<1>2. CASE /\ name_map' = Append(name_map, config.watch_dir[dir])
           /\ dir' = dir + 1 /\ UNCHANGED <<vars, stage, refused>>
  <2>1. /\ stage = "watch" /\ dir <= Len(config.watch_dir)
        /\ pc = "done" /\ config # NULL /\ ~is_refused /\ config.open_cmd
        /\ dir = Len(name_map) + 1
        /\ \A i \in DOMAIN name_map : name_map[i] = config.watch_dir[i]
        /\ name_map \in Seq(Dirs) /\ config \in Config
    BY DEF add_watch, StartInv, StageInv, StartTypeOK, TypeOK
  <2>2. config.watch_dir \in Seq(Dirs)
    BY <2>1 DEF Config
  <2>3. dir \in 1..Len(config.watch_dir) /\ config.watch_dir[dir] \in Dirs
    BY <2>1, <2>2
  <2>4. /\ name_map' \in Seq(Dirs) /\ Len(name_map') = dir
        /\ \A i \in DOMAIN name_map' : name_map'[i] = config.watch_dir[i]
    BY <1>2, <2>1, <2>3
  <2>5. ConfigInv'
    BY <1>2, ConfigKept, StartInvParts DEF vars, ConfigInv, TypeOK
  <2>6. StartTypeOK'
    BY <1>2, <2>1, <2>3, <2>4, <2>5 DEF ConfigInv, StartInv, StartTypeOK
  <2>7. StageInv'
    BY <1>2, <2>1, <2>3, <2>4 DEF StageInv, is_refused, vars
  <2> QED
    BY <2>5, <2>6, <2>7 DEF StartInv, ConfigInv
<1> QED
  BY <1>1, <1>2, Leaving DEF add_watch, StartInv

\* All of them are.
LEMMA GetEvents ==
    ASSUME StartInv, get_events
    PROVE  StartInv'
<1>1. Left("watching") /\ stage = "watch" /\ dir > Len(config.watch_dir)
  BY Leaving DEF get_events, StartInv
<1>2. ConfigInv' /\ StartTypeOK'
  BY <1>1, LeftType
<1>3. Len(name_map) \in Nat /\ Len(config.watch_dir) \in Nat
  BY <1>1 DEF StartInv, StageInv, StartTypeOK, TypeOK, Config
<1>4. StageInv'
  BY <1>1, <1>3 DEF Left, vars, StartInv, StageInv, is_refused
<1> QED
  BY <1>2, <1>4 DEF StartInv, ConfigInv

\* Other processes do not touch main.
LEMMA OtherProcesses ==
    ASSUME StartInv, other_processes
    PROVE  StartInv'
<1>1. environment /\ UNCHANGED startVars
  BY DEF other_processes
<1>2. ConfigInv'
  BY <1>1, Environment, StartInvParts
<1>3. StartTypeOK'
  BY <1>1, <1>2 DEF startVars, StartInv, StartTypeOK, ConfigInv
<1>4. UNCHANGED <<pc, config, starved>>
  BY <1>1 DEF environment
<1>5. StageInv'
  BY <1>1, <1>4 DEF startVars, StartInv, StageInv, is_refused
<1> QED
  BY <1>2, <1>3, <1>5 DEF StartInv, ConfigInv

\* The invariant holds at the start.
LEMMA StartInvInit == StartInit => StartInv
<1> SUFFICES ASSUME StartInit PROVE StartInv
  OBVIOUS
<1>1. /\ exists \subseteq Nodes /\ ops = 0 /\ created = FALSE /\ steady = exists
      /\ starved = FALSE /\ setting \in Settings /\ pc = "item"
      /\ pass = "count" /\ tok = 1 /\ dir_name = NULL /\ stack = <<>>
      /\ count = 0 /\ config = NULL
  BY DEF StartInit, Init
<1>2. setting.watch_dir \in Seq(Dirs)
  BY <1>1, ConfigFileAssumption DEF Setting
<1>3. TypeOK
  <2>1. stack \in Seq(Frame)
    BY <1>1, EmptySeq
  <2>2. tok \in 1..Len(setting.watch_dir) + 1
    BY <1>1, <1>2
  <2>3. ops \in 0..MaxOps
    BY <1>1, ConfigFileAssumption
  <2> QED
    BY <1>1, <2>1, <2>2, <2>3 DEF TypeOK
<1>4. StartTypeOK
  <2>1. name_map \in Seq(Dirs)
    BY EmptySeq DEF StartInit
  <2>2. stage = "start" /\ dir \in Nat \ {0}
    BY DEF StartInit
  <2>3. refused \in BOOLEAN
    BY DEF StartInit
  <2> QED
    BY <1>3, <2>1, <2>2, <2>3 DEF StartTypeOK
<1>5. WalkInv /\ EnteredInv /\ LoadInv /\ DoneInv
  BY <1>1 DEF WalkInv, EnteredInv, LoadInv, DoneInv
<1>6. StageInv
  BY DEF StartInit, StageInv
<1> QED
  BY <1>4, <1>5, <1>6 DEF StartInv

\* Every step keeps it.
LEMMA StartInvStep == StartInv /\ [StartNext]_allVars => StartInv'
<1> SUFFICES ASSUME StartInv, [StartNext]_allVars PROVE StartInv'
  OBVIOUS
<1>1. CASE main
  BY <1>1, Daemonise, Load, ConfigLoaded, BeginWatch, EventHandlingInit,
     AddWatch, GetEvents DEF main
<1>2. CASE other_processes
  BY <1>2, OtherProcesses
<1>3. CASE UNCHANGED allVars
  <2>1. ConfigInv'
    BY <1>3, ConfigKept, StartInvParts DEF allVars, vars, ConfigInv, TypeOK
  <2>2. StartTypeOK' /\ StageInv'
    BY <1>3, <2>1 DEF allVars, vars, startVars, StartInv, StartTypeOK,
                      ConfigInv, StageInv, is_refused
  <2> QED
    BY <2>1, <2>2 DEF StartInv, ConfigInv
<1> QED
  BY <1>1, <1>2, <1>3 DEF StartNext

-----------------------------------------------------------------------------
(* What is loaded and watched.                                              *)

\* The loader and begin_watch keep the invariant: what each step of
\* config_load leaves is there when the daemon asks for its watches.
THEOREM StartInvariant == StartSpec => []StartInv
<1>1. StartInit => StartInv
  BY StartInvInit
<1>2. StartInv /\ [StartNext]_allVars => StartInv'
  BY StartInvStep
<1> QED
  BY <1>1, <1>2, PTL DEF StartSpec

\* A daemon that watches has the whole configuration, and watches each
\* directory of it in order: for any number of directories and settings.
THEOREM CompleteConfiguration == StartSpec => []WatchingIsComplete
<1>1. ASSUME StartInv PROVE WatchingIsComplete
  <2> SUFFICES ASSUME stage = "watching" PROVE WatchingIsComplete!2
    BY DEF WatchingIsComplete
  <2>1. /\ config # NULL /\ config.open_cmd /\ config \in Config
        /\ name_map \in Seq(Dirs)
        /\ Len(name_map) = Len(config.watch_dir)
        /\ \A i \in DOMAIN name_map : name_map[i] = config.watch_dir[i]
    BY <1>1 DEF StartInv, StageInv, StartTypeOK, TypeOK
  <2>2. /\ config.close_cmd /\ config.min_read_close
        /\ AllOptionsKnown /\ Entered(DOMAIN setting.watch_dir)
    BY <1>1, <2>1 DEF StartInv, DoneInv
  <2>3. config.watch_dir \in Seq(Dirs)
    BY <2>1 DEF Config
  <2>4. name_map = config.watch_dir
    BY <2>1, <2>3, SeqEqual
  <2>5. ToSet(setting.watch_dir) \subseteq ToSet(name_map)
    BY <2>2, <2>4 DEF Entered, ToSet
  <2> QED
    BY <2>1, <2>2, <2>4, <2>5 DEF AllOptionsKnown
<1> QED
  BY <1>1, StartInvariant, PTL

\* No setting and nothing that other processes do makes the daemon crash
\* before it watches: only memory that ran out does.
THEOREM CrashNeedsStarvation == StartSpec => []CrashIsForWantOfMemory
<1>1. ASSUME StartInv PROVE CrashIsForWantOfMemory
  BY <1>1 DEF StartInv, StageInv, CrashIsForWantOfMemory
<1> QED
  BY <1>1, StartInvariant, PTL

-----------------------------------------------------------------------------
(* The tree under a directory, when the files in E exist.                   *)

\* It is the least set with d that has the directories of its own.
LEMMA TreeLeast ==
    ASSUME NEW E, NEW d \in Dirs
    PROVE  /\ InTree(E, d) \subseteq Dirs /\ d \in InTree(E, d)
           /\ DownClosed(E, InTree(E, d))
           /\ \A S \in SUBSET Dirs : d \in S /\ DownClosed(E, S) => InTree(E, d) \subseteq S
<1>1. InTree(E, d) \subseteq Dirs /\ d \in InTree(E, d)
  BY DEF InTree
<1>2. ASSUME NEW x \in InTree(E, d), NEW e \in E \cap Dirs, Parent[e] = x
      PROVE  e \in InTree(E, d)
  <2> SUFFICES ASSUME NEW S \in SUBSET Dirs, d \in S, DownClosed(E, S) PROVE e \in S
    BY DEF InTree
  <2>1. x \in S
    BY DEF InTree
  <2> QED
    BY <1>2, <2>1 DEF DownClosed
<1>3. ASSUME NEW S \in SUBSET Dirs, d \in S, DownClosed(E, S)
      PROVE  InTree(E, d) \subseteq S
  BY <1>3 DEF InTree
<1> QED
  BY <1>1, <1>2, <1>3 DEF DownClosed

\* The tree of a directory in it is part of it.
LEMMA TreeChild ==
    ASSUME NEW E, NEW d \in Dirs, NEW c \in InTree(E, d)
    PROVE  InTree(E, c) \subseteq InTree(E, d)
BY TreeLeast DEF InTree

\* What is in it, except for d, exists and is in another that is in it.
LEMMA TreeParent ==
    ASSUME NEW E, NEW d \in Dirs, NEW e \in InTree(E, d), e # d
    PROVE  e \in E /\ Parent[e] \in InTree(E, d)
<1> DEFINE T == InTree(E, d)
           S == {d} \cup {x \in T : x \in E /\ Parent[x] \in T}
<1>1. T \subseteq Dirs /\ d \in T /\ DownClosed(E, T)
  BY TreeLeast
<1>2. S \in SUBSET Dirs /\ d \in S
  BY <1>1
<1>3. DownClosed(E, S)
  BY <1>1 DEF DownClosed
<1>4. T \subseteq S
  BY <1>2, <1>3, TreeLeast
<1> QED
  BY <1>4

\* No directory is in the tree of one that it holds.
LEMMA TreeAcyclic ==
    ASSUME NEW E, NEW d \in Dirs, NEW c \in E \cap Dirs, Parent[c] = d
    PROVE  d \notin InTree(E, c)
<1> DEFINE T == InTree(E, c)
<1> SUFFICES ASSUME d \in T PROVE FALSE
  OBVIOUS
<1>1. T \in SUBSET Dirs /\ c \in T
  BY TreeLeast
<1>2. \A e \in T : Parent[e] \in T
  BY TreeParent
<1>3. PICK e \in T : Parent[e] \notin T
  <2> HIDE DEF T
  <2> QED
    BY <1>1, ConfigFileAssumption
<1> QED
  BY <1>2, <1>3

\* Besides d there are the trees of the directories in d.
LEMMA TreeSplit ==
    ASSUME NEW E, NEW d \in Dirs
    PROVE  InTree(E, d) \ {d} = UNION {InTree(E, c) : c \in {e \in E \cap Dirs : Parent[e] = d}}
<1> DEFINE T == InTree(E, d)
           Cs == {e \in E \cap Dirs : Parent[e] = d}
           S == {d} \cup UNION {InTree(E, c) : c \in Cs}
<1>1. T \subseteq Dirs /\ d \in T /\ DownClosed(E, T)
  BY TreeLeast
<1>2. \A c \in Cs : c \in T
  BY <1>1 DEF DownClosed
<1>3. \A c \in Cs : InTree(E, c) \subseteq T /\ d \notin InTree(E, c)
  BY <1>2, TreeChild, TreeAcyclic
<1>4. S \in SUBSET Dirs /\ d \in S
  BY <1>1, <1>3
<1>5. DownClosed(E, S)
  <2> SUFFICES ASSUME NEW x \in S, NEW e \in E \cap Dirs, Parent[e] = x PROVE e \in S
    BY DEF DownClosed
  <2>1. CASE x = d
    <3>1. e \in Cs /\ e \in InTree(E, e)
      BY <2>1, TreeLeast
    <3> QED
      BY <3>1
  <2>2. CASE x # d
    <3>1. PICK c \in Cs : x \in InTree(E, c)
      BY <2>2
    <3>2. e \in InTree(E, c)
      BY <3>1, TreeLeast DEF DownClosed
    <3> QED
      BY <3>2
  <2> QED
    BY <2>1, <2>2
<1>6. T \subseteq S
  BY <1>4, <1>5, TreeLeast
<1> QED
  BY <1>3, <1>6

\* It does not grow with fewer directories.
LEMMA TreeShrinks ==
    ASSUME NEW E, NEW F, F \cap Dirs \subseteq E, NEW d \in Dirs
    PROVE  InTree(F, d) \subseteq InTree(E, d)
<1>1. DownClosed(F, InTree(E, d))
  BY TreeLeast DEF DownClosed
<1> QED
  BY <1>1, TreeLeast

\* Without a directory that holds none it loses nothing else.
LEMMA TreeWithout ==
    ASSUME NEW E, NEW r, \A e \in E \cap Dirs : Parent[e] # r, NEW d \in Dirs
    PROVE  InTree(E, d) \ {r} \subseteq InTree(E \ {r}, d)
<1> DEFINE T == InTree(E \ {r}, d)
           S == (T \cup {r}) \cap Dirs
<1>1. T \subseteq Dirs /\ d \in T /\ DownClosed(E \ {r}, T)
  BY TreeLeast
<1>2. S \in SUBSET Dirs /\ d \in S
  BY <1>1
<1>3. DownClosed(E, S)
  <2> SUFFICES ASSUME NEW x \in S, NEW e \in E \cap Dirs, Parent[e] = x PROVE e \in S
    BY DEF DownClosed
  <2>1. x # r /\ x \in T
    OBVIOUS
  <2>2. e = r \/ e \in T
    BY <1>1, <2>1 DEF DownClosed
  <2> QED
    BY <2>2
<1>4. InTree(E, d) \subseteq S
  BY <1>2, <1>3, TreeLeast
<1> QED
  BY <1>4

-----------------------------------------------------------------------------
(* Counting visits.                                                         *)

\* There are finitely many visits, so that they can be counted.
LEMMA VisitsFinite ==
    ASSUME ConfigInv
    PROVE  /\ IsFiniteSet(Visits) /\ Cardinality(Visits) \in Nat
           /\ IsFiniteSet(toVisit) /\ Cardinality(toVisit) \in Nat
           /\ IsFiniteSet(Visits \ toVisit) /\ Cardinality(Visits \ toVisit) \in Nat
<1>1. /\ setting.watch_dir \in Seq(Dirs) /\ Len(setting.watch_dir) \in Nat
      /\ DOMAIN setting.watch_dir = 1..Len(setting.watch_dir)
  BY SettingType DEF ConfigInv
<1>2. IsFiniteSet(DOMAIN setting.watch_dir)
  BY <1>1, FS_Interval
<1>3. IsFiniteSet((DOMAIN setting.watch_dir) \X Dirs)
  BY <1>2, ConfigFileAssumption, FS_Product
<1>4. Visits \in SUBSET ((DOMAIN setting.watch_dir) \X Dirs)
  BY DEF Visits
<1>5. IsFiniteSet(Visits)
  BY <1>3, <1>4, FS_Subset
<1>6. toVisit \in SUBSET Visits /\ Visits \ toVisit \in SUBSET Visits
  BY DEF toVisit
<1>7. IsFiniteSet(toVisit) /\ IsFiniteSet(Visits \ toVisit)
  BY <1>5, <1>6, FS_Subset
<1> QED
  BY <1>5, <1>7, FS_CardinalityType

\* A visit is one less to come and one more done.
LEMMA OneVisit ==
    ASSUME NEW V, IsFiniteSet(V), NEW R \in SUBSET V, NEW v \in R
    PROVE  /\ Cardinality(R) \in Nat /\ Cardinality(R \ {v}) = Cardinality(R) - 1
           /\ Cardinality(V \ R) \in Nat
           /\ Cardinality(V \ (R \ {v})) = Cardinality(V \ R) + 1
<1>1. IsFiniteSet(R) /\ V \ R \in SUBSET V
  BY FS_Subset
<1>2. IsFiniteSet(V \ R)
  BY <1>1, FS_Subset
<1>3. Cardinality(R) \in Nat /\ Cardinality(V \ R) \in Nat
  BY <1>1, <1>2, FS_CardinalityType
<1>4. Cardinality(R \ {v}) = Cardinality(R) - 1
  BY <1>1, FS_RemoveElement
<1>5. V \ (R \ {v}) = (V \ R) \cup {v} /\ v \notin V \ R
  OBVIOUS
<1>6. Cardinality((V \ R) \cup {v}) = Cardinality(V \ R) + 1
  BY <1>2, <1>5, FS_AddElement
<1> QED
  BY <1>3, <1>4, <1>5, <1>6

\* What a walk has done and has before it agree with what it has noted.
Balanced == CountInv /\ CompleteInv

\* A visit is noted.
LEMMA NotedVisit ==
    ASSUME ConfigInv, Balanced, QuietInv, NEW v, v[2] \in Dirs, note_dir(v[2]),
           ~created => v \in toVisit /\ toVisit' = toVisit \ {v},
           pc \in Walking, Visits' = Visits,
           UNCHANGED <<ops, created, setting, pass, starved>>
    PROVE  Balanced' /\ count # -1 /\ count' # -1
<1>0. count # -1
  BY DEF Balanced, CountInv, Walking
<1>1. v[2] \in Dirs
  OBVIOUS
<1>2. /\ IsFiniteSet(Visits) /\ toVisit \in SUBSET Visits
  BY VisitsFinite DEF toVisit
<1>3. ASSUME ~created
      PROVE  /\ Cardinality(toVisit) \in Nat
             /\ Cardinality(toVisit') = Cardinality(toVisit) - 1
             /\ Cardinality(Visits \ toVisit) \in Nat
             /\ Cardinality((Visits \ toVisit)') = Cardinality(Visits \ toVisit) + 1
  <2>1. v \in toVisit /\ toVisit' = toVisit \ {v}
    BY <1>3
  <2>2. /\ Cardinality(toVisit) \in Nat
        /\ Cardinality(toVisit \ {v}) = Cardinality(toVisit) - 1
        /\ Cardinality(Visits \ toVisit) \in Nat
        /\ Cardinality(Visits \ (toVisit \ {v})) = Cardinality(Visits \ toVisit) + 1
    BY <1>2, <2>1, OneVisit
  <2> QED
    BY <2>1, <2>2
<1>4. CASE pass = "count" /\ count # -1
  <2>1. /\ count' = count + 1 /\ config' = config /\ config = NULL
        /\ count \in Nat
    BY <1>4 DEF note_dir, ConfigInv, TypeOK, LoadInv, Walking
  <2>2. CountInv'
    BY <1>3, <1>4, <2>1 DEF Balanced, CountInv
  <2>3. CompleteInv'
    BY <1>3, <1>4, <2>1 DEF Balanced, CompleteInv, QuietInv
  <2> QED
    BY <1>4, <2>1, <2>2, <2>3 DEF Balanced
<1>5. CASE pass = "load"
  <2>1. /\ count' = count /\ config' = [config EXCEPT !.watch_dir = Append(@, v[2])]
        /\ config \in Config
    BY <1>5 DEF note_dir, write_to_watchdir, ConfigInv, TypeOK, LoadInv
  <2> DEFINE w == config.watch_dir
  <2>2. /\ config'.watch_dir = Append(w, v[2]) /\ config'.allocated = config.allocated
        /\ w \in Seq(Dirs)
    BY <2>1 DEF Config
  <2>3. Len(config'.watch_dir) = Len(w) + 1 /\ Len(w) \in Nat
    BY <1>1, <2>2
  <2>4. ToSet(config'.watch_dir) = ToSet(w) \cup {v[2]}
    <3>1. DOMAIN Append(w, v[2]) = DOMAIN w \cup {Len(w) + 1}
      BY <2>2
    <3>2. Append(w, v[2])[Len(w) + 1] = v[2]
          /\ \A i \in DOMAIN w : Append(w, v[2])[i] = w[i]
      BY <2>2
    <3> QED
      BY <2>2, <3>1, <3>2 DEF ToSet
  <2>5. CountInv'
    <3>1. config # NULL
      BY <2>1, ConfigFileAssumption
    <3> HIDE DEF w
    <3> QED
      BY <1>0, <1>3, <1>5, <2>1, <2>2, <2>3, <3>1 DEF Balanced, CountInv, w
  <2>6. CompleteInv'
    <3> SUFFICES ASSUME ops = 0, ~created, "unknown" \notin ToSet(setting.fire_on), ~starved
                 PROVE  /\ Len(config'.watch_dir) + Cardinality(toVisit') = count'
                        /\ ToSet(config'.watch_dir) = {x[2] : x \in (Visits \ toVisit)'}
      BY <1>5 DEF CompleteInv, QuietInv
    <3>1. /\ Len(w) + Cardinality(toVisit) = count
          /\ ToSet(w) = {x[2] : x \in Visits \ toVisit}
      BY <1>5 DEF Balanced, CompleteInv
    <3>2. Len(config'.watch_dir) + Cardinality(toVisit') = count'
      <4> HIDE DEF w
      <4> QED
        BY <1>3, <2>1, <2>3, <3>1
    <3>3. (Visits \ toVisit)' = (Visits \ toVisit) \cup {v}
      BY <1>2
    <3> QED
      BY <2>4, <3>1, <3>2, <3>3
  <2> QED
    BY <1>0, <2>1, <2>5, <2>6 DEF Balanced
<1> QED
  BY <1>0, <1>4, <1>5 DEF ConfigInv, TypeOK

\* A step that visits nothing.
LEMMA NothingNoted ==
    ASSUME Balanced, QuietInv, pc \in Walking \cup {"allocate", "fire_on"}, count # -1,
           ~created => toVisit' = toVisit,
           Visits' = Visits,
           UNCHANGED <<ops, created, setting, pass, starved, count, config>>
    PROVE  Balanced'
BY DEF Balanced, CountInv, CompleteInv, QuietInv, AheadInv

-----------------------------------------------------------------------------
(* Steps of the two walks, and what they have before them.                  *)

WalkTree == ConfigInv /\ TreeInv

\* A walk has no commands yet.
LEMMA NoContentYet ==
    ASSUME ConfigInv', pc' \notin {"fire_on_again", "commands", "done"}
    PROVE  ContentInv'
BY DEF ConfigInv, DoneInv, ContentInv

\* The item a walk is at.
LEMMA ItemType ==
    ASSUME ConfigInv
    PROVE  /\ setting.watch_dir \in Seq(Dirs) /\ Len(setting.watch_dir) \in Nat
           /\ DOMAIN setting.watch_dir = 1..Len(setting.watch_dir)
           /\ tok \in Nat \ {0} /\ count \in Nat \cup {-1}
           /\ tok \in 1..Len(setting.watch_dir) => Item \in Dirs
           /\ pc \in {"opendir", "readdir"} => tok \in 1..Len(setting.watch_dir)
<1>1. setting.watch_dir \in Seq(Dirs)
  BY SettingType DEF ConfigInv
<1>2. tok \in 1..Len(setting.watch_dir) + 1 /\ count \in Nat \cup {-1}
  BY DEF ConfigInv, TypeOK
<1> QED
  BY <1>1, <1>2 DEF Item, ConfigInv, WalkInv

\* What there is to visit does not change while the files do not.
LEMMA SameVisits ==
    ASSUME exists' = exists, setting' = setting
    PROVE  Visits' = Visits
BY DEF Visits, reached, under

\* The visit to an item itself is the first of its tree.
LEMMA VisitItemTree ==
    ASSUME WalkTree, visit_item
    PROVE  TreeInv'
<1> DEFINE v == <<tok, Item>>
<1>1. /\ pc = "item" /\ tok <= Len(setting.watch_dir) /\ note_dir(Item)
      /\ dir_name' = Item /\ stack = <<>>
      /\ UNCHANGED <<exists, ops, created, steady, setting, pass, starved>>
  BY DEF visit_item, fsVars, Item, WalkTree, TreeInv, AheadInv
<1>2. /\ tok \in 1..Len(setting.watch_dir) /\ Item \in Dirs
      /\ DOMAIN setting.watch_dir = 1..Len(setting.watch_dir)
  BY <1>1, ItemType DEF WalkTree
<1>3. /\ Visits' = Visits /\ Item \in reached(Item)
      /\ Item' = setting.watch_dir[tok']
  BY <1>1, <1>2, SameVisits, TreeLeast DEF reached, under, Item
<1>4. \/ setting.recursive /\ pc' = "opendir" /\ tok' = tok /\ stack' = <<>>
      \/ ~setting.recursive /\ pc' = "item" /\ tok' = tok + 1 /\ stack' = <<>>
  BY <1>1 DEF visit_item, next_item
<1>5. v \in toVisit
  BY <1>1, <1>2, <1>3 DEF toVisit, Visits, Item
<1>6. unread' = {}
  BY <1>4 DEF unread
<1>12. ahead' = IF pc' = "opendir" THEN InTree(exists, Item) \ {Item} ELSE {}
  <2>1. /\ exists' = exists /\ dir_name' = Item
        /\ UNION {InTree(exists, x) : x \in unread'} = {}
    BY <1>1, <1>6
  <2> QED
    BY <2>1 DEF ahead, under
<1>7. toVisit' = toVisit \ {v}
  <2>1. CASE setting.recursive /\ pc' = "opendir" /\ tok' = tok
    <3>1. ahead' = InTree(exists, Item) \ {Item}
      BY <1>12, <2>1
    <3>2. \A u \in Visits : u[1] = tok => u[2] \in InTree(exists, Item)
      BY <2>1 DEF Visits, reached, Item, under
    <3>3. \A u \in Visits : u = <<u[1], u[2]>> /\ u[1] \in Nat
      BY <1>2 DEF Visits
    <3>4. toVisit' = {u \in Visits : u[1] > tok \/ (u[1] = tok /\ u[2] # Item)}
      BY <1>3, <2>1, <3>1, <3>2 DEF toVisit
    <3> QED
      BY <1>1, <1>2, <3>3, <3>4 DEF toVisit
  <2>2. CASE ~setting.recursive /\ pc' = "item" /\ tok' = tok + 1
    <3>1. \A u \in Visits : u[1] = tok => u[2] = Item
      BY <2>2 DEF Visits, reached, Item
    <3>2. \A u \in Visits : u = <<u[1], u[2]>> /\ u[1] \in Nat
      BY <1>2 DEF Visits
    <3>3. toVisit' = {u \in Visits : u[1] >= tok + 1}
      BY <1>3, <2>2 DEF toVisit
    <3> QED
      BY <1>1, <1>2, <3>1, <3>2, <3>3 DEF toVisit
  <2> QED
    BY <1>4, <2>1, <2>2
<1>8. Balanced' /\ count # -1 /\ count' # -1
  <2>1. v[2] = Item
    OBVIOUS
  <2> HIDE DEF v
  <2> QED
    BY <1>1, <1>2, <1>3, <1>5, <1>7, <2>1, NotedVisit
    DEF WalkTree, TreeInv, Balanced, Walking
<1>9. AheadInv'
  <2>1. ahead' \subseteq InTree(exists, Item) \ {Item}
    BY <1>12
  <2>2. pc' = "opendir" => Item' = Item /\ dir_name' = Item' /\ setting'.recursive
    BY <1>1, <1>3, <1>4 DEF Item
  <2>3. DOMAIN stack' = {}
    BY <1>4
  <2> QED
    BY <1>1, <1>3, <1>4, <1>6, <2>1, <2>2, <2>3 DEF AheadInv, under
<1>10. QuietInv'
  <2>1. DOMAIN stack' = {}
    BY <1>4
  <2> QED
    BY <1>1, <1>4, <1>8, <2>1 DEF WalkTree, TreeInv, QuietInv
<1>11. ContentInv'
  BY <1>4, VisitItem, NoContentYet DEF WalkTree
<1> QED
  BY <1>8, <1>9, <1>10, <1>11 DEF TreeInv, Balanced

\* The walk is given up for an item, or the count for good.
LEMMA WalkFailsTree ==
    ASSUME WalkTree, ConfigInv', pc \in {"opendir", "readdir"}, walk_fails,
           UNCHANGED <<exists, ops, created, setting, pass>>,
           pass = "count" /\ ops = 0 => Item \notin exists,
           pass = "load" /\ ops = 0 => starved'
    PROVE  TreeInv'
<1>1. /\ config' = config /\ stack' = <<>>
      /\ \/ pass = "count" /\ count' = -1 /\ pc' = "allocate" /\ tok' = tok
         \/ pass = "load" /\ count' = count /\ pc' = "item" /\ tok' = tok + 1
  BY DEF walk_fails, next_item
<1>2. /\ tok \in 1..Len(setting.watch_dir)
      /\ DOMAIN setting.watch_dir = 1..Len(setting.watch_dir)
  BY ItemType DEF WalkTree
<1>3. Visits' = Visits /\ DOMAIN stack' = {}
  BY <1>1, SameVisits
<1>4. AheadInv'
  BY <1>1 DEF AheadInv
<1>5. count # -1
  BY DEF WalkTree, TreeInv, CountInv
<1>6. ContentInv'
  BY <1>1, NoContentYet
<1>7. CASE pass = "count" /\ count' = -1 /\ pc' = "allocate" /\ tok' = tok
  <2>1. config' = NULL
    BY <1>1, <1>7 DEF WalkTree, ConfigInv, LoadInv
  <2>2. CountInv'
    BY <1>7, <2>1 DEF CountInv
  <2>3. ops = 0 => \E d \in ToSet(setting.watch_dir) : d \notin exists
    <3>1. Item \in ToSet(setting.watch_dir)
      BY <1>2 DEF ToSet, Item
    <3> QED
      BY <1>7, <3>1
  <2>4. QuietInv'
    BY <1>1, <1>3, <1>7, <2>3 DEF WalkTree, TreeInv, QuietInv
  <2>5. CompleteInv'
    BY <1>7 DEF CompleteInv
  <2> QED
    BY <1>4, <1>6, <2>2, <2>4, <2>5 DEF TreeInv
<1>8. CASE pass = "load" /\ count' = count /\ pc' = "item" /\ tok' = tok + 1
  <2>1. toVisit' \in SUBSET toVisit
    <3>1. \A u \in Visits : u[1] \in Nat /\ (u[1] >= tok + 1 => u[1] > tok)
      BY <1>2 DEF Visits
    <3>2. toVisit' = {u \in Visits : u[1] >= tok + 1}
      BY <1>3, <1>8 DEF toVisit
    <3> QED
      BY <3>1, <3>2 DEF toVisit
  <2>2. /\ Cardinality(toVisit') <= Cardinality(toVisit)
        /\ Cardinality(toVisit) \in Nat /\ Cardinality(toVisit') \in Nat
    <3>1. IsFiniteSet(toVisit) /\ Cardinality(toVisit) \in Nat
      BY VisitsFinite DEF WalkTree
    <3>2. IsFiniteSet(toVisit') /\ Cardinality(toVisit') <= Cardinality(toVisit)
      BY <2>1, <3>1, FS_Subset
    <3> QED
      BY <3>1, <3>2, FS_CardinalityType
  <2>3. CountInv'
    <3>1. config \in Config
      BY <1>8 DEF WalkTree, ConfigInv, TypeOK, LoadInv
    <3>2. Len(config.watch_dir) \in Nat /\ count \in Nat
      BY <1>5, <3>1, ItemType DEF Config, WalkTree
    <3> QED
      BY <1>1, <1>5, <1>8, <2>2, <3>2 DEF WalkTree, TreeInv, CountInv
  <2>4. QuietInv'
    <3>1. ASSUME ops = 0, setting.recursive
          PROVE  \A i \in 1..tok' - 1 : setting.watch_dir[i] \in exists
      <4>1. ToSet(setting.watch_dir) \subseteq exists
        BY <1>5, <1>8, <3>1 DEF WalkTree, TreeInv, QuietInv
      <4>2. \A i \in 1..tok' - 1 : i \in DOMAIN setting.watch_dir
        BY <1>2, <1>8
      <4> QED
        BY <4>1, <4>2 DEF ToSet
    <3> QED
      BY <1>1, <1>3, <1>5, <1>8, <3>1 DEF WalkTree, TreeInv, QuietInv
  <2>5. CompleteInv'
    BY <1>8 DEF CompleteInv
  <2> QED
    BY <1>4, <1>6, <2>3, <2>4, <2>5 DEF TreeInv
<1> QED
  BY <1>1, <1>7, <1>8

-----------------------------------------------------------------------------
(* What the directories that the walk is in have left.                      *)

Lefts(s) == UNION {s[k].left : k \in DOMAIN s}

\* A directory is entered.
LEMMA PushedFrame ==
    ASSUME NEW s \in Seq(Frame), NEW f \in Frame
    PROVE  /\ Append(s, f) # <<>> /\ Len(s) \in Nat
           /\ DOMAIN s = 1..Len(s) /\ DOMAIN Append(s, f) = 1..Len(s) + 1
           /\ \A k \in 1..Len(s) : Append(s, f)[k] = s[k]
           /\ Append(s, f)[Len(s) + 1] = f
           /\ Lefts(Append(s, f)) = Lefts(s) \cup f.left
<1> DEFINE t == Append(s, f)
<1>1. /\ t # <<>> /\ Len(s) \in Nat
      /\ DOMAIN s = 1..Len(s) /\ DOMAIN t = 1..Len(s) + 1
      /\ \A k \in 1..Len(s) : t[k] = s[k]
      /\ t[Len(s) + 1] = f
  OBVIOUS
<1> HIDE DEF t
<1>2. DOMAIN t = DOMAIN s \cup {Len(s) + 1}
  BY <1>1
<1>3. Lefts(t) = Lefts(s) \cup f.left
  BY <1>1, <1>2 DEF Lefts
<1> QED
  BY <1>1, <1>3 DEF t

\* The last directory is replaced by what is left of it.
LEMMA TakenFrame ==
    ASSUME NEW s \in Seq(Frame), s # <<>>, NEW f \in Frame
    PROVE  /\ Front(s) \o <<f>> # <<>> /\ Len(s) \in Nat \ {0}
           /\ DOMAIN s = 1..Len(s) /\ DOMAIN (Front(s) \o <<f>>) = DOMAIN s
           /\ \A k \in 1..Len(s) - 1 : (Front(s) \o <<f>>)[k] = s[k]
           /\ (Front(s) \o <<f>>)[Len(s)] = f
           /\ Last(s) = s[Len(s)]
<1> DEFINE n == Len(s)
           p == Front(s)
           t == p \o <<f>>
<1>1. n \in Nat \ {0} /\ DOMAIN s = 1..n /\ Last(s) = s[n]
  BY EmptySeq DEF Last
<1>2. \A k \in 1..n - 1 : s[k] \in Frame
  BY <1>1
<1>3. p = SubSeq(s, 1, n - 1)
  BY DEF Front
<1> HIDE DEF n, p
<1>4. p \in Seq(Frame) /\ Len(p) = n - 1 /\ \A k \in 1..n - 1 : p[k] = s[k]
  <2>1. n - 1 \in Int /\ 1 \in Int
    BY <1>1
  <2>2. /\ SubSeq(s, 1, n - 1) \in Seq(Frame)
        /\ Len(SubSeq(s, 1, n - 1)) = IF 1 <= n - 1 THEN (n - 1) - 1 + 1 ELSE 0
        /\ \A i \in 1..(n - 1) - 1 + 1 : SubSeq(s, 1, n - 1)[i] = s[1 + i - 1]
    BY <1>2, <2>1, SubSeqProperties
  <2>3. Len(p) = n - 1
    BY <1>1, <1>3, <2>2
  <2>4. \A k \in 1..n - 1 : p[k] = s[k]
    <3>1. (n - 1) - 1 + 1 = n - 1 /\ \A k \in 1..n - 1 : 1 + k - 1 = k
      BY <1>1
    <3> QED
      BY <1>3, <2>2, <3>1
  <2> QED
    BY <1>3, <2>2, <2>3, <2>4
<1>5. /\ DOMAIN t = 1..n /\ t # <<>> /\ t[n] = f
      /\ \A k \in 1..n - 1 : t[k] = p[k]
  <2>1. t = Append(p, f)
    BY <1>4, AppendIsConcat
  <2>2. /\ Append(p, f) # <<>> /\ DOMAIN Append(p, f) = 1..Len(p) + 1
        /\ \A k \in 1..Len(p) : Append(p, f)[k] = p[k]
        /\ Append(p, f)[Len(p) + 1] = f
    BY <1>4, PushedFrame
  <2>3. Len(p) + 1 = n /\ Len(p) = n - 1
    BY <1>1, <1>4
  <2> QED
    BY <2>1, <2>2, <2>3
<1> HIDE DEF t
<1>6. /\ t # <<>> /\ n \in Nat \ {0}
      /\ DOMAIN s = 1..n /\ DOMAIN t = DOMAIN s
      /\ \A k \in 1..n - 1 : t[k] = s[k]
      /\ t[n] = f /\ Last(s) = s[n]
  BY <1>1, <1>4, <1>5
<1> QED
  BY <1>6 DEF t, n, p

\* A directory that has nothing left is left.
LEMMA PoppedFrame ==
    ASSUME NEW s \in Seq(Frame), s # <<>>, Last(s).left = {}
    PROVE  /\ DOMAIN Front(s) \subseteq DOMAIN s
           /\ \A k \in DOMAIN Front(s) : Front(s)[k] = s[k]
           /\ Lefts(Front(s)) = Lefts(s)
           /\ Len(s) = 1 => Lefts(s) = {}
<1> DEFINE n == Len(s)
           p == Front(s)
<1>1. n \in Nat \ {0} /\ DOMAIN s = 1..n /\ Last(s) = s[n]
  BY EmptySeq DEF Last
<1>2. p = SubSeq(s, 1, n - 1)
  BY DEF Front
<1>3. DOMAIN p = 1..n - 1 /\ \A k \in 1..n - 1 : p[k] = s[k]
  BY <1>1, <1>2
<1> HIDE DEF p, n
<1>4. DOMAIN s = DOMAIN p \cup {n}
  BY <1>1, <1>3
<1>5. Lefts(p) = Lefts(s)
  BY <1>1, <1>3, <1>4 DEF Lefts
<1>6. n = 1 => Lefts(s) = {}
  BY <1>1 DEF Lefts
<1> QED
  BY <1>3, <1>4, <1>5, <1>6 DEF p, n

Trees(E, S) == UNION {InTree(E, x) : x \in S}

\* unread and ahead, before and after a step.
LEMMA AheadIs ==
    /\ unread = exists \cap Dirs \cap Lefts(stack)
    /\ unread' = exists' \cap Dirs \cap Lefts(stack')
    /\ pc = "opendir" => ahead = Trees(exists, unread) \cup (InTree(exists, dir_name) \ {dir_name})
    /\ pc # "opendir" => ahead = Trees(exists, unread)
    /\ pc' = "opendir" => ahead' = Trees(exists', unread') \cup (InTree(exists', dir_name') \ {dir_name'})
    /\ pc' # "opendir" => ahead' = Trees(exists', unread')
BY DEF unread, ahead, under, Lefts, Trees

\* A walk that fails where nobody has changed anything fails at an item.
LEMMA ItemIsThere ==
    ASSUME WalkTree, pc \in {"opendir", "readdir"}, pass = "load", ops = 0
    PROVE  Item \in exists
<1>1. Item \in ToSet(setting.watch_dir)
  BY ItemType DEF WalkTree, ToSet, Item
<1> QED
  BY <1>1 DEF WalkTree, TreeInv, AheadInv, QuietInv, CountInv

\* The tree of a directory, but for itself, is that of its listing (TreeSplit):
\* to list it changes nothing of what the walk has before it.
LEMMA OpenDirTree ==
    ASSUME WalkTree, opendir
    PROVE  TreeInv'
<1>1. /\ pc = "opendir" /\ dir_name \in Dirs /\ setting.recursive
      /\ UNCHANGED <<exists, ops, created, steady, setting, pass, dir_name, starved>>
  BY DEF opendir, fsVars, WalkTree, ConfigInv, TypeOK, WalkInv, TreeInv, AheadInv
<1>2. ConfigInv' /\ stack \in Seq(Frame)
  BY OpenDir DEF WalkTree, ConfigInv, TypeOK
<1>3. CASE dir_name \notin exists /\ walk_fails
  <2>1. ops = 0 => Item \notin exists
    BY <1>1, <1>3 DEF WalkTree, TreeInv, QuietInv, AheadInv
  <2>2. pass = "load" => ops # 0
    BY <1>1, <2>1, ItemIsThere
  <2> QED
    BY <1>1, <1>2, <1>3, <2>1, <2>2, WalkFailsTree
<1>4. CASE dir_name \in exists
  <2>1. PICK d \in Dirs : d = dir_name
    BY <1>1
  <2> DEFINE f == [dir |-> d, left |-> children(d)]
             Kids == {e \in exists \cap Dirs : Parent[e] = d}
             n == Len(stack)
  <2>2. /\ stack' = Append(stack, f)
        /\ pc' = "readdir" /\ UNCHANGED <<tok, count, config>>
    BY <1>4, <2>1 DEF opendir
  <2>3. f \in Frame
    BY <1>2 DEF Frame, children, ConfigInv, TypeOK, WalkTree
  <2>4. /\ stack' # <<>> /\ n \in Nat
        /\ DOMAIN stack = 1..n /\ DOMAIN stack' = 1..n + 1
        /\ \A k \in 1..n : stack'[k] = stack[k]
        /\ stack'[n + 1] = f
        /\ Lefts(stack') = Lefts(stack) \cup f.left
    <3> HIDE DEF f
    <3> QED
      BY <1>2, <2>2, <2>3, PushedFrame
  <2>5. f.left = children(d) /\ children(d) \subseteq exists
        /\ exists \cap Dirs \cap f.left = Kids
    BY DEF children
  <2> HIDE DEF f, n
  <2>6. unread' = unread \cup Kids
    BY <1>1, <2>4, <2>5, AheadIs
  <2>7. Trees(exists, Kids) = InTree(exists, d) \ {d}
    BY TreeSplit DEF Trees
  <2>8. ahead' = ahead
    <3>1. Trees(exists, unread \cup Kids) = Trees(exists, unread) \cup Trees(exists, Kids)
      BY DEF Trees
    <3> QED
      BY <1>1, <2>1, <2>2, <2>6, <2>7, <3>1, AheadIs
  <2>9. toVisit' = toVisit /\ Visits' = Visits /\ Item' = Item
    <3>1. Visits' = Visits
      BY <1>1, SameVisits
    <3> QED
      BY <1>1, <2>2, <2>8, <3>1 DEF toVisit, Item
  <2>10. count # -1
    BY <1>1 DEF WalkTree, TreeInv, CountInv
  <2>11. Balanced'
    BY <1>1, <2>2, <2>9, <2>10, NothingNoted DEF Balanced, WalkTree, TreeInv, Walking
  <2>12. ContentInv'
    BY <1>2, <2>2, NoContentYet
  <2>13. QuietInv'
    <3>1. ASSUME ops = 0 PROVE Item \in exists
      BY <1>1, <1>4, <2>10, <3>1 DEF WalkTree, TreeInv, QuietInv, AheadInv
    <3>2. ASSUME ops = 0 PROVE \A k \in DOMAIN stack' : stack'[k].left \subseteq exists
      <4>1. \A k \in 1..n : stack[k].left \subseteq exists
        BY <2>4, <3>2 DEF WalkTree, TreeInv, QuietInv
      <4>2. \A k \in 1..n + 1 : k \in 1..n \/ k = n + 1
        BY <2>4
      <4> QED
        BY <2>4, <2>5, <4>1, <4>2
    <3> QED
      BY <1>1, <2>2, <2>9, <2>10, <3>1, <3>2 DEF WalkTree, TreeInv, QuietInv
  <2>14. ASSUME ~created
         PROVE  /\ \A j, k \in DOMAIN stack' : j # k =>
                      stack'[j].left \cap stack'[k].left \cap exists \cap Dirs = {}
                /\ \A x, y \in unread' : x # y => x \notin InTree(exists, y)
    <3>1. /\ \A j, k \in 1..n : j # k =>
                stack[j].left \cap stack[k].left \cap exists \cap Dirs = {}
          /\ \A x, y \in unread : x # y => x \notin InTree(exists, y)
          /\ \A x \in unread : x \notin InTree(exists, d) /\ d \notin InTree(exists, x)
          /\ unread \subseteq Dirs
      BY <1>1, <2>1, <2>4, <2>14 DEF WalkTree, TreeInv, AheadInv, under, unread
    <3>2. \A c \in Kids : /\ c \in InTree(exists, d) /\ c \in Dirs
                          /\ InTree(exists, c) \subseteq InTree(exists, d)
                          /\ Parent[c] = d /\ d \notin InTree(exists, c)
      BY TreeLeast, TreeChild, TreeAcyclic DEF DownClosed
    <3>3. \A k \in 1..n : stack[k].left \cap f.left \cap exists \cap Dirs = {}
      <4>1. \A k \in 1..n : stack[k].left \cap exists \cap Dirs \subseteq unread
        BY <2>4, AheadIs DEF Lefts
      <4> QED
        BY <2>5, <3>1, <3>2, <4>1
    <3>4. \A k \in 1..n + 1 : k \in 1..n \/ k = n + 1
      BY <2>4
    <3>5. \A j, k \in DOMAIN stack' : j # k =>
             stack'[j].left \cap stack'[k].left \cap exists \cap Dirs = {}
      <4> SUFFICES ASSUME NEW j \in 1..n + 1, NEW k \in 1..n + 1, j # k
                   PROVE  stack'[j].left \cap stack'[k].left \cap exists \cap Dirs = {}
        BY <2>4
      <4>1. CASE j \in 1..n /\ k \in 1..n
        BY <2>4, <3>1, <4>1
      <4>2. CASE j = n + 1 /\ k \in 1..n
        BY <2>4, <3>3, <4>2
      <4>3. CASE j \in 1..n /\ k = n + 1
        BY <2>4, <3>3, <4>3
      <4> QED
        BY <3>4, <4>1, <4>2, <4>3
    <3>6. ASSUME NEW x \in unread', NEW y \in unread', x # y, x \in InTree(exists, y)
          PROVE  FALSE
      <4>1. x \in unread \/ x \in Kids
        BY <2>6
      <4>2. y \in unread \/ y \in Kids
        BY <2>6
      <4>3. CASE x \in Kids
        <5>1. y \in Dirs
          BY <3>1, <3>2, <4>2
        <5>2. d \in InTree(exists, y)
          BY <3>2, <3>6, <4>3, <5>1, TreeParent
        <5> QED
          BY <3>1, <3>2, <4>2, <5>2
      <4>4. CASE x \in unread /\ y \in Kids
        BY <3>1, <3>2, <3>6, <4>4
      <4>5. CASE x \in unread /\ y \in unread
        BY <3>1, <3>6, <4>5
      <4> QED
        BY <4>1, <4>2, <4>3, <4>4, <4>5
    <3> QED
      BY <3>5, <3>6
  <2>15. AheadInv'
    BY <1>1, <2>2, <2>8, <2>9, <2>14 DEF WalkTree, TreeInv, AheadInv, under
  <2> QED
    BY <2>11, <2>12, <2>13, <2>15 DEF TreeInv, Balanced
<1> QED
  BY <1>3, <1>4 DEF opendir

\* An entry is taken from what is left of the directory that is read.
LEMMA TakenLefts ==
    ASSUME WalkTree, pc = "readdir", NEW e \in Last(stack).left, take(e)
    PROVE  /\ stack # <<>> /\ stack' # <<>>
           /\ DOMAIN stack' = DOMAIN stack
           /\ \A k \in DOMAIN stack : stack'[k].left \subseteq stack[k].left
           /\ Lefts(stack) \ {e} \subseteq Lefts(stack')
           /\ Lefts(stack') \subseteq Lefts(stack)
           /\ e \in Lefts(stack)
           /\ (e \in exists \cap Dirs /\ ~created) => e \notin Lefts(stack')
<1> DEFINE n == Len(stack)
<1>1. stack \in Seq(Frame) /\ stack # <<>>
  BY DEF WalkTree, ConfigInv, TypeOK, WalkInv
<1>2. /\ n \in Nat \ {0} /\ stack' # <<>>
      /\ DOMAIN stack = 1..n /\ DOMAIN stack' = DOMAIN stack
      /\ \A k \in 1..n - 1 : stack'[k] = stack[k]
      /\ stack'[n].left = stack[n].left \ {e}
      /\ Last(stack) = stack[n]
  <2>1. PICK f : f = [Last(stack) EXCEPT !.left = @ \ {e}]
    OBVIOUS
  <2>2. Last(stack) \in Frame
    BY <1>1, EmptySeq DEF Last
  <2>3. f \in Frame /\ f.left = Last(stack).left \ {e}
    BY <2>1, <2>2 DEF Frame
  <2>4. stack' = Front(stack) \o <<f>>
    BY <2>1 DEF take
  <2>5. /\ Front(stack) \o <<f>> # <<>> /\ n \in Nat \ {0}
        /\ DOMAIN stack = 1..n /\ DOMAIN (Front(stack) \o <<f>>) = DOMAIN stack
        /\ \A k \in 1..n - 1 : (Front(stack) \o <<f>>)[k] = stack[k]
        /\ (Front(stack) \o <<f>>)[n] = f
        /\ Last(stack) = stack[n]
    BY <1>1, <2>3, TakenFrame
  <2> QED
    BY <2>3, <2>4, <2>5
<1> HIDE DEF n
<1>3. \A k \in 1..n : k \in 1..n - 1 \/ k = n
  BY <1>2
<1>4. \A k \in DOMAIN stack : /\ stack'[k].left \subseteq stack[k].left
                              /\ stack[k].left \ {e} \subseteq stack'[k].left
  BY <1>2, <1>3
<1>5. /\ Lefts(stack) \ {e} \subseteq Lefts(stack')
      /\ Lefts(stack') \subseteq Lefts(stack)
  BY <1>2, <1>4 DEF Lefts
<1>6. n \in DOMAIN stack /\ e \in stack[n].left
  BY <1>2
<1>7. e \in Lefts(stack)
  BY <1>6 DEF Lefts
<1>8. ASSUME e \in exists \cap Dirs, ~created PROVE e \notin Lefts(stack')
  <2> SUFFICES ASSUME NEW k \in DOMAIN stack, e \in stack'[k].left PROVE FALSE
    BY <1>2 DEF Lefts
  <2>1. \A j, l \in DOMAIN stack :
           j # l => stack[j].left \cap stack[l].left \cap exists \cap Dirs = {}
    BY <1>8 DEF WalkTree, TreeInv, AheadInv
  <2>2. k = n
    BY <1>4, <1>6, <1>8, <2>1
  <2> QED
    BY <1>2, <2>2
<1> QED
  BY <1>1, <1>2, <1>4, <1>5, <1>7, <1>8

\* A directory that is taken from a listing is the visit that is noted, and the
\* walk still has before it what is under it.
LEMMA ReadEntryTree ==
    ASSUME WalkTree, read_entry
    PROVE  TreeInv'
<1>1. /\ pc = "readdir" /\ setting.recursive
      /\ UNCHANGED <<exists, ops, created, steady, setting, pass, starved>>
  BY DEF read_entry, fsVars, WalkTree, TreeInv, AheadInv
<1>2. ConfigInv' /\ stack \in Seq(Frame) /\ stack # <<>>
  BY <1>1, ReadEntry DEF WalkTree, ConfigInv, TypeOK, WalkInv
<1>3. Visits' = Visits /\ count # -1
  BY <1>1, SameVisits DEF WalkTree, TreeInv, CountInv
<1>4. ASSUME NEW e \in Last(stack).left, e \notin exists, walk_fails
      PROVE  TreeInv'
  <2>1. ops # 0
    <3>1. Len(stack) \in DOMAIN stack /\ Last(stack) = stack[Len(stack)]
      BY <1>2, EmptySeq DEF Last
    <3> QED
      BY <1>4, <3>1 DEF WalkTree, TreeInv, QuietInv
  <2> QED
    BY <1>1, <1>2, <1>4, <2>1, WalkFailsTree
<1>5. ASSUME NEW e \in Last(stack).left, e \in exists, ~is_dir(e), take(e),
             UNCHANGED <<pc, tok, dir_name, count, config>>
      PROVE  TreeInv'
  <2>1. /\ stack # <<>> /\ stack' # <<>> /\ DOMAIN stack' = DOMAIN stack
        /\ \A k \in DOMAIN stack : stack'[k].left \subseteq stack[k].left
        /\ Lefts(stack) \ {e} \subseteq Lefts(stack')
        /\ Lefts(stack') \subseteq Lefts(stack)
    BY <1>1, <1>5, TakenLefts
  <2>2. e \notin Dirs
    BY <1>5 DEF is_dir
  <2>3. unread' = unread
    BY <1>1, <2>1, <2>2, AheadIs
  <2>4. ahead' = ahead
    BY <1>1, <1>5, <2>3, AheadIs
  <2>5. toVisit' = toVisit /\ Item' = Item
    BY <1>1, <1>3, <1>5, <2>4 DEF toVisit, Item
  <2>6. Balanced'
    BY <1>1, <1>3, <1>5, <2>5, NothingNoted DEF Balanced, WalkTree, TreeInv, Walking
  <2>7. ContentInv'
    BY <1>1, <1>2, <1>5, NoContentYet
  <2>8. QuietInv'
    BY <1>1, <1>5, <2>1, <2>5 DEF WalkTree, TreeInv, QuietInv
  <2>9. AheadInv'
    <3>1. ~created => \A j, k \in DOMAIN stack' :
             j # k => stack'[j].left \cap stack'[k].left \cap exists \cap Dirs = {}
      BY <1>1, <2>1 DEF WalkTree, TreeInv, AheadInv
    <3> QED
      BY <1>1, <1>5, <2>3, <2>4, <2>5, <3>1 DEF WalkTree, TreeInv, AheadInv, under
  <2> QED
    BY <2>6, <2>7, <2>8, <2>9 DEF TreeInv, Balanced
<1>6. ASSUME NEW e \in Last(stack).left, is_dir(e), take(e), note_dir(e),
             dir_name' = e, pc' = "opendir", tok' = tok
      PROVE  TreeInv'
  <2>1. /\ stack # <<>> /\ stack' # <<>> /\ DOMAIN stack' = DOMAIN stack
        /\ \A k \in DOMAIN stack : stack'[k].left \subseteq stack[k].left
        /\ Lefts(stack) \ {e} \subseteq Lefts(stack')
        /\ Lefts(stack') \subseteq Lefts(stack)
        /\ e \in Lefts(stack)
        /\ (e \in exists \cap Dirs /\ ~created) => e \notin Lefts(stack')
    BY <1>1, <1>6, TakenLefts
  <2>2. e \in exists /\ e \in Dirs /\ Item' = Item
    BY <1>1, <1>6 DEF is_dir, Item
  <2> DEFINE v == <<tok, e>>
  <2>3. ASSUME ~created
        PROVE  /\ unread' = unread \ {e} /\ e \in unread
               /\ ahead = ahead' \cup {e} /\ e \notin ahead'
               /\ ahead \subseteq InTree(exists, Item) \ {Item}
               /\ \A x, y \in unread : x # y => x \notin InTree(exists, y)
    <3>1. unread' = unread \ {e} /\ e \in unread /\ unread \subseteq Dirs
      BY <1>1, <2>1, <2>2, <2>3, AheadIs
    <3>2. e \in InTree(exists, e)
      BY <2>2, TreeLeast
    <3>3. /\ ahead = Trees(exists, unread)
          /\ ahead' = Trees(exists, unread') \cup (InTree(exists, e) \ {e})
      BY <1>1, <1>6, AheadIs
    <3>4. Trees(exists, unread) = Trees(exists, unread') \cup InTree(exists, e)
      BY <3>1 DEF Trees
    <3>5. \A x, y \in unread : x # y => x \notin InTree(exists, y)
      BY <1>1, <2>3 DEF WalkTree, TreeInv, AheadInv, under
    <3>6. e \notin Trees(exists, unread')
      BY <3>1, <3>5 DEF Trees
    <3>7. ahead \subseteq InTree(exists, Item) \ {Item}
      BY <1>1, <2>3 DEF WalkTree, TreeInv, AheadInv, under
    <3> QED
      BY <3>1, <3>2, <3>3, <3>4, <3>5, <3>6, <3>7
  <2>4. ASSUME ~created PROVE v \in toVisit /\ toVisit' = toVisit \ {v}
    <3>1. /\ tok \in DOMAIN setting.watch_dir
          /\ \A u \in Visits : u = <<u[1], u[2]>> /\ u[1] \in Nat
      BY <1>1, ItemType DEF WalkTree, Visits
    <3>2. e \in reached(Item)
      BY <1>1, <2>3, <2>4 DEF reached, under
    <3>3. v \in Visits
      BY <2>2, <3>1, <3>2 DEF Visits, Item
    <3>4. toVisit = {u \in Visits : u[1] > tok \/ (u[1] = tok /\ u[2] \in ahead)}
      BY <1>1 DEF toVisit
    <3>5. toVisit' = {u \in Visits : u[1] > tok \/ (u[1] = tok /\ u[2] \in ahead')}
      BY <1>3, <1>6 DEF toVisit
    <3>6. tok \in Nat /\ ~(tok > tok)
      BY ItemType DEF WalkTree
    <3> QED
      BY <2>3, <2>4, <3>1, <3>3, <3>4, <3>5, <3>6
  <2>5. v[2] = e
    OBVIOUS
  <2> HIDE DEF v
  <2>6. Balanced' /\ count' # -1
    BY <1>1, <1>3, <1>6, <2>2, <2>4, <2>5, NotedVisit
    DEF WalkTree, TreeInv, Balanced, Walking
  <2>7. ContentInv'
    BY <1>2, <1>6, NoContentYet
  <2>8. QuietInv'
    BY <1>1, <1>3, <1>6, <2>1, <2>2, <2>6 DEF WalkTree, TreeInv, QuietInv
  <2>9. AheadInv'
    <3>1. ASSUME ~created
          PROVE  /\ ahead' \subseteq InTree(exists, Item) \ {Item}
                 /\ \A j, k \in DOMAIN stack' : j # k =>
                       stack'[j].left \cap stack'[k].left \cap exists \cap Dirs = {}
                 /\ \A x, y \in unread' : x # y => x \notin InTree(exists, y)
                 /\ \A x \in unread' : x \notin InTree(exists, e) /\ e \notin InTree(exists, x)
      <4>1. \A j, k \in DOMAIN stack' : j # k =>
               stack'[j].left \cap stack'[k].left \cap exists \cap Dirs = {}
        BY <1>1, <2>1, <3>1 DEF WalkTree, TreeInv, AheadInv
      <4> QED
        BY <2>3, <3>1, <4>1
    <3> QED
      BY <1>1, <1>6, <2>1, <2>2, <3>1 DEF WalkTree, TreeInv, AheadInv, under
  <2> QED
    BY <2>6, <2>7, <2>8, <2>9 DEF TreeInv, Balanced
<1> QED
  BY <1>4, <1>5, <1>6 DEF read_entry

\* A walk without memory loses what it had before it.
LEMMA EntryWithoutMemoryTree ==
    ASSUME WalkTree, entry_without_memory
    PROVE  TreeInv'
<1>1. ConfigInv'
  BY EntryWithoutMemory DEF WalkTree
<1> QED
  BY <1>1, WalkFailsTree DEF entry_without_memory, fsVars

\* A listing that has been read holds nothing that is ahead.
LEMMA CloseDirTree ==
    ASSUME WalkTree, closedir
    PROVE  TreeInv'
<1>1. /\ pc = "readdir" /\ setting.recursive /\ Last(stack).left = {}
      /\ UNCHANGED <<exists, ops, created, steady, setting, pass, starved>>
      /\ UNCHANGED <<dir_name, count, config>>
  BY DEF closedir, fsVars, WalkTree, TreeInv, AheadInv
<1>2. ConfigInv' /\ stack \in Seq(Frame) /\ stack # <<>>
  BY <1>1, CloseDir DEF WalkTree, ConfigInv, TypeOK, WalkInv
<1>3. Visits' = Visits /\ count # -1
  BY <1>1, SameVisits DEF WalkTree, TreeInv, CountInv
<1>4. /\ DOMAIN Front(stack) \subseteq DOMAIN stack
      /\ \A k \in DOMAIN Front(stack) : Front(stack)[k] = stack[k]
      /\ Lefts(Front(stack)) = Lefts(stack)
      /\ Len(stack) = 1 => Lefts(stack) = {}
  BY <1>1, <1>2, PoppedFrame
<1>5. \A u \in Visits : u[1] \in Nat
  BY ItemType DEF WalkTree, Visits
<1>6. tok \in 1..Len(setting.watch_dir)
  BY <1>1, ItemType DEF WalkTree
<1>7. CASE Len(stack) = 1 /\ next_item
  <2>1. tok' = tok + 1 /\ pc' = "item" /\ stack' = <<>>
    BY <1>7 DEF next_item
  <2>2. ahead = {}
    BY <1>1, <1>4, <1>7, AheadIs DEF Trees
  <2>3. toVisit = {u \in Visits : u[1] > tok}
    BY <1>1, <2>2 DEF toVisit
  <2>4. toVisit' = {u \in Visits : u[1] >= tok + 1}
    BY <1>3, <2>1 DEF toVisit
  <2>5. toVisit' = toVisit
    BY <1>5, <1>6, <2>3, <2>4
  <2>6. Balanced'
    BY <1>1, <1>3, <2>5, NothingNoted DEF Balanced, WalkTree, TreeInv, Walking
  <2>7. ContentInv'
    BY <1>2, <2>1, NoContentYet
  <2>8. QuietInv'
    <3>1. DOMAIN stack' = {}
      BY <2>1
    <3>2. ASSUME ops = 0 PROVE \A i \in 1..tok' - 1 : setting.watch_dir[i] \in exists
      <4>1. Item \in exists /\ \A i \in 1..tok - 1 : setting.watch_dir[i] \in exists
        BY <1>1, <1>2, <1>3, <3>2 DEF WalkTree, TreeInv, QuietInv
      <4>2. \A i \in 1..tok' - 1 : i \in 1..tok - 1 \/ i = tok
        BY <1>6, <2>1
      <4> QED
        BY <4>1, <4>2 DEF Item
    <3> QED
      BY <1>1, <1>3, <2>1, <3>1, <3>2 DEF WalkTree, TreeInv, QuietInv
  <2>9. AheadInv'
    BY <2>1 DEF AheadInv
  <2> QED
    BY <2>6, <2>7, <2>8, <2>9 DEF TreeInv, Balanced
<1>8. CASE Len(stack) # 1 /\ stack' = Front(stack) /\ UNCHANGED <<tok, pc>>
  <2>1. unread' = unread
    BY <1>1, <1>4, <1>8, AheadIs
  <2>2. ahead' = ahead
    BY <1>1, <1>8, <2>1, AheadIs
  <2>3. toVisit' = toVisit /\ Item' = Item
    BY <1>1, <1>3, <1>8, <2>2 DEF toVisit, Item
  <2>4. Balanced'
    BY <1>1, <1>3, <1>8, <2>3, NothingNoted DEF Balanced, WalkTree, TreeInv, Walking
  <2>5. ContentInv'
    BY <1>1, <1>2, <1>8, NoContentYet
  <2>6. QuietInv'
    BY <1>1, <1>2, <1>4, <1>8, <2>3 DEF WalkTree, TreeInv, QuietInv
  <2>7. AheadInv'
    <3>1. ~created => \A j, k \in DOMAIN stack' :
             j # k => stack'[j].left \cap stack'[k].left \cap exists \cap Dirs = {}
      BY <1>1, <1>4, <1>8 DEF WalkTree, TreeInv, AheadInv
    <3> QED
      BY <1>1, <1>8, <2>1, <2>2, <2>3, <3>1 DEF WalkTree, TreeInv, AheadInv, under
  <2> QED
    BY <2>4, <2>5, <2>6, <2>7 DEF TreeInv, Balanced
<1> QED
  BY <1>1, <1>7, <1>8 DEF closedir

-----------------------------------------------------------------------------
(* The steps of config_load outside the walks.                              *)

\* Between the walks and after them there is nothing to visit.
LEMMA NoVisits == pc \notin Walking => toVisit = {}
BY DEF toVisit, Walking

\* Nothing more is entered.
LEMMA ItemWithoutMemoryTree ==
    ASSUME WalkTree, item_without_memory
    PROVE  TreeInv'
<1>1. /\ pc = "item" /\ pass = "load" /\ pc' = "done" /\ starved' = TRUE
      /\ UNCHANGED <<exists, ops, created, steady, setting, config>>
      /\ UNCHANGED <<pass, tok, dir_name, stack, count>>
      /\ stack = <<>>
  BY DEF item_without_memory, fsVars, walkVars, WalkTree, TreeInv, AheadInv
<1>2. toVisit' = {} /\ Cardinality({}) = 0
  BY <1>1, FS_EmptySet DEF toVisit
<1>3. AheadInv'
  BY <1>1 DEF AheadInv
<1>4. CountInv'
  <2>1. /\ Cardinality(toVisit) \in Nat
        /\ config \in Config /\ config # NULL
    BY <1>1, VisitsFinite DEF WalkTree, ConfigInv, TypeOK, LoadInv
  <2>2. Len(config.watch_dir) \in Nat /\ count \in Nat \cup {-1}
    BY <2>1, ItemType DEF Config, WalkTree
  <2>3. ~created => Len(config.watch_dir) + Cardinality(toVisit') <= count
    BY <1>2, <2>1, <2>2 DEF WalkTree, TreeInv, CountInv
  <2> QED
    BY <1>1, <2>3 DEF WalkTree, TreeInv, CountInv
<1>5. QuietInv'
  BY <1>1 DEF WalkTree, TreeInv, QuietInv, Item
<1>6. CompleteInv'
  BY <1>1 DEF CompleteInv
<1>7. ContentInv'
  BY <1>1 DEF WalkTree, ConfigInv, DoneInv, ContentInv
<1> QED
  BY <1>3, <1>4, <1>5, <1>6, <1>7 DEF TreeInv

\* There is nothing to visit after the last item.
LEMMA EndOfItemsTree ==
    ASSUME WalkTree, end_of_items
    PROVE  TreeInv'
<1>1. /\ pc = "item" /\ tok > Len(setting.watch_dir) /\ stack = <<>>
      /\ pc' = IF pass = "count" THEN "allocate" ELSE "content"
      /\ UNCHANGED <<exists, ops, created, steady, setting, config, starved>>
      /\ UNCHANGED <<pass, tok, dir_name, stack, count>>
  BY DEF end_of_items, fsVars, walkVars, WalkTree, TreeInv, AheadInv
<1>2. /\ setting.watch_dir \in Seq(Dirs) /\ Len(setting.watch_dir) \in Nat
      /\ DOMAIN setting.watch_dir = 1..Len(setting.watch_dir)
      /\ tok \in Nat
  BY ItemType DEF WalkTree
<1>3. pc' \in {"allocate", "content"} /\ (pc' = "content" => pass # "count")
  BY <1>1
<1>4. toVisit' = {} /\ toVisit = {} /\ Visits' = Visits
  <2>1. \A v \in Visits : v[1] \in 1..Len(setting.watch_dir)
    BY <1>2 DEF Visits
  <2>2. toVisit = {}
    BY <1>1, <1>2, <2>1 DEF toVisit
  <2> QED
    BY <1>1, <1>3, <2>2, SameVisits DEF toVisit
<1>5. count # -1
  BY <1>1 DEF WalkTree, TreeInv, CountInv
<1>6. Balanced'
  BY <1>1, <1>4, <1>5, NothingNoted DEF WalkTree, TreeInv, Balanced, Walking
<1>7. AheadInv'
  BY <1>1, <1>3 DEF AheadInv
<1>8. QuietInv'
  <2>1. ASSUME ops = 0, setting.recursive
        PROVE  ToSet(setting.watch_dir) \subseteq exists
    <3>1. \A i \in 1..tok - 1 : setting.watch_dir[i] \in exists
      BY <1>5, <2>1 DEF WalkTree, TreeInv, QuietInv
    <3>2. DOMAIN setting.watch_dir \subseteq 1..tok - 1
      BY <1>1, <1>2
    <3> QED
      BY <3>1, <3>2 DEF ToSet
  <2> QED
    BY <1>1, <1>3, <1>5, <2>1 DEF WalkTree, TreeInv, QuietInv
<1>9. ContentInv'
  BY <1>3, EndOfItems, NoContentYet DEF WalkTree
<1> QED
  BY <1>6, <1>7, <1>8, <1>9 DEF TreeInv, Balanced

\* The array is as long as the count, which has all visits.
LEMMA AllocateConfigTree ==
    ASSUME WalkTree, allocate_config
    PROVE  TreeInv'
<1>1. /\ pc = "allocate" /\ pass = "count" /\ config = NULL /\ stack = <<>>
      /\ UNCHANGED <<exists, ops, created, steady, setting>>
      /\ UNCHANGED <<pass, tok, dir_name, stack, count>>
      /\ pc' \in {"fire_on", "done", "crashed"}
  BY DEF allocate_config, fsVars, walkVars, WalkTree, ConfigInv, LoadInv, TreeInv, AheadInv
<1>2. /\ toVisit' = {} /\ toVisit = {} /\ Visits' = Visits /\ Cardinality({}) = 0
  BY <1>1, SameVisits, FS_EmptySet DEF toVisit
<1>3. AheadInv'
  BY <1>1 DEF AheadInv
<1>4. \/ config' = NoConfig /\ pc' = "fire_on" /\ count >= 0
      \/ config' = NULL /\ pc' \in {"done", "crashed"}
  BY <1>1 DEF allocate_config
<1>5. count \in Nat \cup {-1}
  BY ItemType DEF WalkTree
<1>6. CountInv'
  <2>1. CASE config' = NoConfig /\ pc' = "fire_on" /\ count >= 0
    <3>1. /\ count \in Nat /\ config'.allocated = count
          /\ config'.watch_dir = <<>> /\ Len(config'.watch_dir) = 0
      BY <1>5, <2>1, EmptySeq DEF NoConfig
    <3> QED
      BY <1>1, <1>2, <2>1, <3>1 DEF WalkTree, TreeInv, CountInv
  <2>2. CASE config' = NULL /\ pc' \in {"done", "crashed"}
    BY <1>1, <1>2, <2>2 DEF WalkTree, TreeInv, CountInv
  <2> QED
    BY <1>4, <2>1, <2>2
<1>7. QuietInv'
  BY <1>1 DEF WalkTree, TreeInv, QuietInv, Item
<1>8. CompleteInv'
  BY <1>1, <1>2 DEF WalkTree, TreeInv, CompleteInv
<1>9. ContentInv'
  BY <1>4 DEF ContentInv, NoConfig
<1> QED
  BY <1>3, <1>6, <1>7, <1>8, <1>9 DEF TreeInv

\* The second walk has all visits before it, and the array has room for them.
LEMMA LoadWatchDirTree ==
    ASSUME WalkTree, load_watch_dir
    PROVE  TreeInv'
<1>1. /\ pc = "fire_on" /\ stack = <<>>
      /\ UNCHANGED <<exists, ops, created, steady, setting>>
      /\ pass' = "load" /\ tok' = 1
      /\ UNCHANGED <<dir_name, stack, count, starved>>
      /\ load_fire_on("item")
  BY DEF load_watch_dir, fsVars, WalkTree, TreeInv, AheadInv
<1>2. config # NULL /\ pass = "count" /\ config.watch_dir = <<>> /\ ~config.open_cmd
  BY <1>1 DEF WalkTree, ConfigInv, LoadInv, TypeOK, DoneInv
<1>3. /\ config'.watch_dir = config.watch_dir
      /\ config'.allocated = config.allocated
      /\ config'.open_cmd = config.open_cmd
  BY <1>1, <1>2, LoadFireOn DEF WalkTree
<1>4. \/ pc' = "done" /\ "unknown" \in ToSet(setting.fire_on)
      \/ pc' = "item"
  BY <1>1 DEF load_fire_on
<1>5. count # -1 /\ count \in Nat \cup {-1}
  BY <1>1, ItemType DEF WalkTree, TreeInv, CountInv
<1>6. /\ Visits' = Visits /\ toVisit = {} /\ Visits \ toVisit = Visits
      /\ Cardinality({}) = 0 /\ Cardinality(Visits) \in Nat
  BY <1>1, SameVisits, VisitsFinite, FS_EmptySet DEF toVisit, WalkTree
<1>7. pc' = "item" => toVisit' = Visits
  <2>1. \A v \in Visits : v[1] >= 1
    BY ItemType DEF WalkTree, Visits
  <2> QED
    BY <1>1, <1>6, <2>1 DEF toVisit
<1>8. pc' = "done" => toVisit' = {}
  BY DEF toVisit
<1>9. Len(config'.watch_dir) = 0 /\ ToSet(config'.watch_dir) = {}
  BY <1>2, <1>3, EmptySeq DEF ToSet
<1>10. AheadInv'
  BY <1>1, <1>4 DEF AheadInv
<1>11. CountInv'
  <2>1. ~created => Cardinality(Visits) <= count
    BY <1>2, <1>5, <1>6 DEF WalkTree, TreeInv, CountInv
  <2>2. ~created => Cardinality(toVisit') <= count
    BY <1>4, <1>5, <1>6, <1>7, <1>8, <2>1
  <2>3. ~created => 0 + Cardinality(toVisit') <= count
    BY <1>4, <1>6, <1>7, <1>8, <2>2
  <2>4. config'.allocated = count
    BY <1>2, <1>3 DEF WalkTree, TreeInv, CountInv
  <2> QED
    BY <1>1, <1>5, <1>9, <2>3, <2>4 DEF CountInv
<1>12. QuietInv'
  <2>1. \A i \in 1..tok' - 1 : FALSE
    BY <1>1
  <2> QED
    BY <1>1, <1>4, <1>5, <2>1 DEF WalkTree, TreeInv, QuietInv
<1>13. CompleteInv'
  <2> SUFFICES ASSUME ops = 0, "unknown" \notin ToSet(setting.fire_on)
               PROVE  /\ Len(config'.watch_dir) + Cardinality(toVisit') = count
                      /\ ToSet(config'.watch_dir) = {v[2] : v \in (Visits \ toVisit)'}
    BY <1>1 DEF CompleteInv
  <2>1. toVisit' = Visits /\ (Visits \ toVisit)' = {}
    BY <1>4, <1>6, <1>7
  <2>2. Cardinality(Visits) = count
    BY <1>2, <1>5, <1>6 DEF WalkTree, TreeInv, CompleteInv
  <2> QED
    BY <1>6, <1>9, <2>1, <2>2
<1>14. ContentInv'
  BY <1>2, <1>3, <1>4 DEF ContentInv
<1> QED
  BY <1>10, <1>11, <1>12, <1>13, <1>14 DEF TreeInv

\* After the walks the rest of the configuration is loaded.
LEMMA AfterWalks ==
    ASSUME WalkTree, pc \in {"content", "fire_on_again", "commands"},
           pc' \in {"fire_on_again", "commands", "done"},
           UNCHANGED <<exists, ops, created, setting>>,
           UNCHANGED <<pass, tok, dir_name, stack, count>>,
           config' # NULL, config'.watch_dir = config.watch_dir,
           config'.allocated = config.allocated, starved => starved',
           ContentInv'
    PROVE  TreeInv'
<1>1. pass = "load" /\ config # NULL
  BY DEF WalkTree, ConfigInv, LoadInv
<1>2. toVisit' = {} /\ toVisit = {} /\ Visits' = Visits
  BY SameVisits DEF toVisit
<1>3. AheadInv'
  BY DEF AheadInv
<1>4. CountInv'
  BY <1>1, <1>2 DEF WalkTree, TreeInv, CountInv
<1>5. QuietInv'
  BY <1>1 DEF WalkTree, TreeInv, QuietInv, Item
<1>6. CompleteInv'
  BY <1>1, <1>2 DEF WalkTree, TreeInv, CompleteInv
<1> QED
  BY <1>3, <1>4, <1>5, <1>6 DEF TreeInv

\* The array stays as it is.
LEMMA LoadWatchContentTree ==
    ASSUME WalkTree, load_watch_content
    PROVE  TreeInv'
<1>1. /\ pc = "content" /\ pc' = "fire_on_again"
      /\ UNCHANGED <<exists, ops, created, steady, setting, starved>>
      /\ UNCHANGED <<pass, tok, dir_name, stack, count>>
      /\ config' = [config EXCEPT !.type = @ \cup {"CONTENT"}]
  BY DEF load_watch_content, fsVars, walkVars
<1>2. config \in Config
  BY <1>1 DEF WalkTree, ConfigInv, TypeOK, LoadInv
<1>3. /\ config' \in Config
      /\ config'.watch_dir = config.watch_dir
      /\ config'.allocated = config.allocated
      /\ config'.type = {"CONTENT"}
  BY <1>1, <1>2 DEF Config
<1>4. config' # NULL
  BY <1>3, ConfigFileAssumption
<1>5. ContentInv'
  BY <1>3 DEF ContentInv
<1> QED
  BY <1>1, <1>3, <1>4, <1>5, AfterWalks

\* So it does when the options are entered again.
LEMMA LoadFireOnAgainTree ==
    ASSUME WalkTree, load_fire_on_again
    PROVE  TreeInv'
<1>1. /\ pc = "fire_on_again" /\ pc' \in {"commands", "done"}
      /\ UNCHANGED <<exists, ops, created, steady, setting, starved>>
      /\ UNCHANGED <<pass, tok, dir_name, stack, count>>
      /\ load_fire_on("commands")
  BY DEF load_fire_on_again, load_fire_on, fsVars, walkVars
<1>2. config # NULL
  BY <1>1 DEF WalkTree, ConfigInv, LoadInv
<1>3. /\ config' # NULL
      /\ config'.watch_dir = config.watch_dir
      /\ config'.allocated = config.allocated
      /\ config'.type = config.type
  BY <1>1, <1>2, LoadFireOn DEF WalkTree
<1>4. ContentInv'
  BY <1>1, <1>2, <1>3 DEF WalkTree, TreeInv, ContentInv
<1> QED
  BY <1>1, <1>3, <1>4, AfterWalks

\* And when the commands are loaded.
LEMMA LoadCommandsTree ==
    ASSUME WalkTree, load_commands
    PROVE  TreeInv'
<1>1. /\ pc = "commands" /\ pc' = "done"
      /\ UNCHANGED <<exists, ops, created, steady, setting>>
      /\ UNCHANGED <<pass, tok, dir_name, stack, count>>
  BY DEF load_commands, fsVars, walkVars
<1>2. PICK close \in BOOLEAN, open \in BOOLEAN :
         /\ starved' = (starved \/ ~open)
         /\ config' = [config EXCEPT !.close_cmd = close, !.open_cmd = open,
                                     !.min_read_close = open]
  BY DEF load_commands
<1>3. config \in Config /\ config # NULL
  BY <1>1 DEF WalkTree, ConfigInv, TypeOK, LoadInv
<1>4. /\ config' \in Config
      /\ config'.watch_dir = config.watch_dir
      /\ config'.allocated = config.allocated
      /\ config'.type = config.type
  BY <1>2, <1>3 DEF Config
<1>5. config' # NULL
  BY <1>4, ConfigFileAssumption
<1>6. starved => starved'
  BY <1>2
<1>7. ContentInv'
  BY <1>1, <1>3, <1>4 DEF WalkTree, TreeInv, ContentInv
<1> QED
  BY <1>1, <1>4, <1>5, <1>6, <1>7, AfterWalks

\* Every step of config_load keeps the invariant of the walks.
LEMMA ConfigLoadTree ==
    ASSUME WalkTree, config_load
    PROVE  TreeInv'
BY VisitItemTree, ItemWithoutMemoryTree, EndOfItemsTree, OpenDirTree, ReadEntryTree,
   EntryWithoutMemoryTree, CloseDirTree, AllocateConfigTree, LoadWatchDirTree,
   LoadWatchContentTree, LoadFireOnAgainTree, LoadCommandsTree DEF config_load

\* A step of main outside config_load.
LEMMA TreeKept ==
    ASSUME WalkTree, UNCHANGED <<fsVars, setting, pc, walkVars, config>>,
           starved => starved'
    PROVE  TreeInv'
<1>1. /\ UNCHANGED <<exists, ops, created, setting, pc, config>>
      /\ UNCHANGED <<pass, tok, dir_name, stack, count>>
  BY DEF fsVars, walkVars
<1>2. unread' = unread /\ \A d : InTree(exists', d) = InTree(exists, d)
  BY <1>1 DEF unread
<1>3. ahead' = ahead /\ Item' = Item
  BY <1>1, <1>2 DEF ahead, under, Item
<1>4. toVisit' = toVisit /\ Visits' = Visits
  BY <1>1, <1>3, SameVisits DEF toVisit
<1>5. AheadInv'
  BY <1>1, <1>2, <1>3 DEF WalkTree, TreeInv, AheadInv, under
<1>6. CountInv' /\ CompleteInv'
  BY <1>1, <1>4 DEF WalkTree, TreeInv, CountInv, CompleteInv
<1>7. QuietInv' /\ ContentInv'
  BY <1>1, <1>3 DEF WalkTree, TreeInv, QuietInv, ContentInv
<1> QED
  BY <1>5, <1>6, <1>7 DEF TreeInv

-----------------------------------------------------------------------------
(* Other processes.                                                         *)

\* The trees when no directory is created and only an empty one is removed.
LEMMA FewerDirs ==
    ASSUME NEW E, NEW F, F \cap Dirs \subseteq E,
           \/ E \cap Dirs \subseteq F
           \/ \E r : F = E \ {r} /\ \A e \in E \cap Dirs : Parent[e] # r,
           NEW d \in Dirs
    PROVE  /\ InTree(F, d) \subseteq InTree(E, d)
           /\ InTree(E, d) \cap F \subseteq InTree(F, d)
           /\ d \in E \ F => InTree(E, d) = {d}
<1>1. InTree(F, d) \subseteq InTree(E, d)
  BY TreeShrinks
<1>2. CASE E \cap Dirs \subseteq F
  <2>1. InTree(E, d) \subseteq InTree(F, d)
    BY <1>2, TreeShrinks
  <2> QED
    BY <1>1, <1>2, <2>1
<1>3. ASSUME NEW r, F = E \ {r}, \A e \in E \cap Dirs : Parent[e] # r
      PROVE  /\ InTree(E, d) \cap F \subseteq InTree(F, d)
             /\ d \in E \ F => InTree(E, d) = {d}
  <2>1. InTree(E, d) \ {r} \subseteq InTree(F, d)
    BY <1>3, TreeWithout
  <2>2. d \in E \ F => d = r
    BY <1>3
  <2>3. ASSUME d = r PROVE InTree(E, d) = {d}
    <3>1. {e \in E \cap Dirs : Parent[e] = d} = {}
      BY <1>3, <2>3
    <3>2. InTree(E, d) \ {d} = UNION {InTree(E, c) : c \in {e \in E \cap Dirs : Parent[e] = d}}
      BY TreeSplit
    <3>3. InTree(E, d) \ {d} = {}
      BY <3>1, <3>2
    <3> QED
      BY <3>3, TreeLeast
  <2> QED
    BY <1>3, <2>1, <2>2, <2>3
<1> QED
  BY <1>1, <1>2, <1>3

\* What the walk has before it, while directories are removed around it.
LEMMA LessAhead ==
    ASSUME WalkTree, environment, ~created'
    PROVE  /\ ~created
           /\ Visits' \subseteq Visits /\ toVisit' \subseteq toVisit
           /\ (Visits \ toVisit)' \subseteq Visits \ toVisit
           /\ AheadInv'
<1>1. /\ UNCHANGED <<setting, pc, config, starved, Item>>
      /\ UNCHANGED <<pass, tok, dir_name, stack, count>>
  BY DEF environment, walkVars, Item
<1>2. PICK F : F = exists'
  OBVIOUS
<1>3. /\ ~created /\ F \cap Dirs \subseteq exists
      /\ \/ exists \cap Dirs \subseteq F
         \/ \E r : F = exists \ {r} /\ \A e \in exists \cap Dirs : Parent[e] # r
  <2>1. PICK e \in Nodes : create(e) \/ remove(e)
    BY DEF environment
  <2>2. CASE create(e)
    <3>1. exists' = exists \cup {e} /\ created' = (created \/ e \in Dirs)
      BY <2>2 DEF create
    <3>2. ~created /\ e \notin Dirs
      BY <3>1
    <3> QED
      BY <1>2, <3>1, <3>2
  <2>3. CASE remove(e)
    <3>1. exists' = exists \ {e} /\ created' = created /\ children(e) = {}
      BY <2>3 DEF remove
    <3>2. \A c \in exists \cap Dirs : Parent[c] # e
      BY <3>1 DEF children
    <3>3. F = exists \ {e} /\ F \cap Dirs \subseteq exists /\ ~created
      BY <1>2, <3>1
    <3> QED
      BY <3>2, <3>3
  <2> QED
    BY <2>1, <2>2, <2>3
<1>4. PICK E : E = exists
  OBVIOUS
<1>5. /\ F \cap Dirs \subseteq E
      /\ \/ E \cap Dirs \subseteq F
         \/ \E r : F = E \ {r} /\ \A e \in E \cap Dirs : Parent[e] # r
  BY <1>3, <1>4
<1>6. \A d \in Dirs : /\ InTree(F, d) \subseteq InTree(E, d)
                      /\ InTree(E, d) \cap F \subseteq InTree(F, d)
                      /\ d \in E \ F => InTree(E, d) = {d}
  BY <1>5, FewerDirs
<1>7. /\ \A d : under(d) = InTree(E, d)
      /\ \A d : InTree(exists', d) = InTree(F, d)
  BY <1>2, <1>4 DEF under
<1>8. /\ unread = E \cap Dirs \cap Lefts(stack)
      /\ unread' = F \cap Dirs \cap Lefts(stack)
      /\ unread' \subseteq unread /\ unread \subseteq Dirs
  BY <1>1, <1>2, <1>4, <1>5, AheadIs
<1>9. /\ pc = "opendir" => ahead = Trees(E, unread) \cup (InTree(E, dir_name) \ {dir_name})
      /\ pc # "opendir" => ahead = Trees(E, unread)
      /\ pc = "opendir" => ahead' = Trees(F, unread') \cup (InTree(F, dir_name) \ {dir_name})
      /\ pc # "opendir" => ahead' = Trees(F, unread')
  BY <1>1, <1>2, <1>4, AheadIs
<1>10. pc = "opendir" => dir_name \in Dirs
  BY DEF WalkTree, ConfigInv, WalkInv
<1>11. Trees(F, unread') \subseteq Trees(E, unread)
  BY <1>6, <1>8 DEF Trees
<1>12. ahead' \subseteq ahead
  BY <1>6, <1>9, <1>10, <1>11
<1>13. ahead' \subseteq F
  <2>1. Trees(F, unread') \subseteq F
    <3> SUFFICES ASSUME NEW x \in unread', NEW y \in InTree(F, x) PROVE y \in F
      BY DEF Trees
    <3>1. x \in Dirs /\ x \in F
      BY <1>8
    <3> QED
      BY <3>1, TreeParent
  <2>2. pc = "opendir" => InTree(F, dir_name) \ {dir_name} \subseteq F
    BY <1>10, TreeParent
  <2> QED
    BY <1>9, <2>1, <2>2
<1>14. ahead \cap F \subseteq ahead'
  <2>1. Trees(E, unread) \cap F \subseteq Trees(F, unread')
    <3> SUFFICES ASSUME NEW x \in unread, NEW y \in InTree(E, x), y \in F
                 PROVE  y \in Trees(F, unread')
      BY DEF Trees
    <3>1. x \in Dirs /\ x \in E
      BY <1>8
    <3>2. x \in F
      BY <1>6, <3>1
    <3>3. x \in unread' /\ y \in InTree(F, x)
      BY <1>6, <1>8, <3>1, <3>2
    <3> QED
      BY <3>3 DEF Trees
  <2>2. pc = "opendir" =>
           (InTree(E, dir_name) \ {dir_name}) \cap F \subseteq InTree(F, dir_name) \ {dir_name}
    BY <1>6, <1>10
  <2> QED
    BY <1>9, <2>1, <2>2
<1>15. pc \in {"opendir", "readdir"} =>
          /\ setting.recursive /\ Item \in Dirs
          /\ ahead \subseteq InTree(E, Item) \ {Item}
  BY <1>3, <1>7, ItemType DEF WalkTree, TreeInv, AheadInv
<1>16. Visits' \subseteq Visits
  <2>1. \A i \in DOMAIN setting.watch_dir : setting.watch_dir[i] \in Dirs
    BY ItemType DEF WalkTree
  <2>2. /\ Visits = {v \in (DOMAIN setting.watch_dir) \X Dirs :
              v[2] \in IF setting.recursive THEN InTree(E, setting.watch_dir[v[1]])
                                            ELSE {setting.watch_dir[v[1]]}}
        /\ Visits' = {v \in (DOMAIN setting.watch_dir) \X Dirs :
              v[2] \in IF setting.recursive THEN InTree(F, setting.watch_dir[v[1]])
                                            ELSE {setting.watch_dir[v[1]]}}
    BY <1>1, <1>2, <1>4 DEF Visits, reached, under
  <2> QED
    BY <1>6, <2>1, <2>2
<1>17. /\ toVisit = {v \in Visits :
             \/ pc = "item" /\ v[1] >= tok
             \/ pc \in {"opendir", "readdir"} /\ (v[1] > tok \/ (v[1] = tok /\ v[2] \in ahead))}
       /\ toVisit' = {v \in Visits' :
             \/ pc = "item" /\ v[1] >= tok
             \/ pc \in {"opendir", "readdir"} /\ (v[1] > tok \/ (v[1] = tok /\ v[2] \in ahead'))}
  BY <1>1 DEF toVisit
<1>18. toVisit' \subseteq toVisit
  BY <1>12, <1>16, <1>17
<1>19. (Visits \ toVisit)' \subseteq Visits \ toVisit
  <2> SUFFICES ASSUME NEW v \in Visits', v \in toVisit PROVE v \in toVisit'
    BY <1>16
  <2>1. CASE pc \in {"opendir", "readdir"} /\ v[1] = tok /\ v[2] \in ahead
    <3>1. v[2] \in reached(Item)'
      BY <1>1, <2>1 DEF Visits, Item
    <3>2. v[2] \in InTree(F, Item)
      BY <1>1, <1>2, <1>15, <2>1, <3>1 DEF reached, under
    <3>3. v[2] # Item
      BY <1>15, <2>1
    <3>4. v[2] \in F
      BY <1>15, <2>1, <3>2, <3>3, TreeParent
    <3>5. v[2] \in ahead'
      BY <1>14, <2>1, <3>4
    <3> QED
      BY <1>17, <2>1, <3>5
  <2> QED
    BY <1>17, <2>1
<1>20. AheadInv'
  <2>1. pc \in {"opendir", "readdir"} => ahead' \subseteq InTree(F, Item) \ {Item}
    BY <1>6, <1>12, <1>13, <1>15
  <2>2. pc \in {"opendir", "readdir"} =>
           /\ \A j, k \in DOMAIN stack :
                 j # k => stack[j].left \cap stack[k].left \cap F \cap Dirs = {}
           /\ \A x, y \in unread' : x # y => x \notin InTree(F, y)
    <3>1. pc \in {"opendir", "readdir"} =>
             /\ \A j, k \in DOMAIN stack :
                   j # k => stack[j].left \cap stack[k].left \cap E \cap Dirs = {}
             /\ \A x, y \in unread : x # y => x \notin InTree(E, y)
      BY <1>3, <1>4, <1>7 DEF WalkTree, TreeInv, AheadInv
    <3>2. \A j, k \in DOMAIN stack :
             stack[j].left \cap stack[k].left \cap F \cap Dirs
             \subseteq stack[j].left \cap stack[k].left \cap E \cap Dirs
      BY <1>5
    <3> QED
      BY <1>6, <1>8, <3>1, <3>2
  <2>3. pc = "opendir" =>
           \A x \in unread' : x \notin InTree(F, dir_name) /\ dir_name \notin InTree(F, x)
    <3>1. pc = "opendir" =>
             \A x \in unread : x \notin InTree(E, dir_name) /\ dir_name \notin InTree(E, x)
      BY <1>3, <1>4, <1>7 DEF WalkTree, TreeInv, AheadInv
    <3> QED
      BY <1>6, <1>8, <1>10, <3>1
  <2>4. /\ pc \in {"item", "allocate", "fire_on"} => stack = <<>>
        /\ pc \in {"opendir", "readdir"} => setting.recursive
        /\ (pc = "opendir" /\ stack = <<>>) => dir_name = Item
    BY DEF WalkTree, TreeInv, AheadInv
  <2>5. \A d : InTree(exists', d) = InTree(F, d)
    BY <1>7
  <2> QED
    BY <1>1, <1>2, <2>1, <2>2, <2>3, <2>4, <2>5 DEF AheadInv, under
<1> QED
  BY <1>3, <1>16, <1>18, <1>19, <1>20

\* Unless a directory is created, both walks only get shorter.
LEMMA EnvironmentTree ==
    ASSUME WalkTree, environment
    PROVE  TreeInv'
<1>1. /\ UNCHANGED <<setting, pc, config, starved>>
      /\ UNCHANGED <<pass, tok, dir_name, stack, count>>
      /\ ops' # 0
  BY DEF environment, walkVars, WalkTree, ConfigInv, TypeOK
<1>2. ConfigInv'
  BY Environment DEF WalkTree
<1>3. AheadInv'
  <2>1. CASE ~created'
    BY <2>1, LessAhead
  <2>2. CASE created'
    BY <1>1, <2>2 DEF WalkTree, TreeInv, AheadInv, Item
  <2> QED
    BY <2>1, <2>2
<1>4. CountInv'
  <2>1. ASSUME ~created'
        PROVE  /\ (pass = "count" /\ count # -1) => Cardinality((Visits \ toVisit)') <= count
               /\ config # NULL => Len(config.watch_dir) + Cardinality(toVisit') <= count
    <3>1. /\ ~created /\ toVisit' \subseteq toVisit
          /\ (Visits \ toVisit)' \subseteq Visits \ toVisit
      BY <2>1, LessAhead
    <3>2. /\ IsFiniteSet(toVisit) /\ Cardinality(toVisit) \in Nat
          /\ IsFiniteSet(Visits \ toVisit) /\ Cardinality(Visits \ toVisit) \in Nat
      BY VisitsFinite DEF WalkTree
    <3>3. /\ IsFiniteSet(toVisit') /\ Cardinality(toVisit') <= Cardinality(toVisit)
          /\ IsFiniteSet((Visits \ toVisit)')
          /\ Cardinality((Visits \ toVisit)') <= Cardinality(Visits \ toVisit)
      BY <3>1, <3>2, FS_Subset
    <3>4. Cardinality(toVisit') \in Nat /\ Cardinality((Visits \ toVisit)') \in Nat
      BY <3>3, FS_CardinalityType
    <3>5. count \in Nat \cup {-1}
      BY ItemType DEF WalkTree
    <3>6. config # NULL => Len(config.watch_dir) \in Nat
      BY DEF WalkTree, ConfigInv, TypeOK, Config
    <3>7. (pass = "count" /\ count # -1) => Cardinality(Visits \ toVisit) <= count
      BY <3>1 DEF WalkTree, TreeInv, CountInv
    <3>8. config # NULL => Len(config.watch_dir) + Cardinality(toVisit) <= count
      BY <3>1 DEF WalkTree, TreeInv, CountInv
    <3> QED
      BY <3>2, <3>3, <3>4, <3>5, <3>6, <3>7, <3>8
  <2> QED
    BY <1>1, <2>1 DEF WalkTree, TreeInv, CountInv
<1>5. QuietInv' /\ CompleteInv'
  BY <1>1 DEF QuietInv, CompleteInv
<1>6. ContentInv'
  BY <1>1 DEF WalkTree, TreeInv, ContentInv
<1> QED
  BY <1>3, <1>4, <1>5, <1>6 DEF TreeInv

-----------------------------------------------------------------------------
(* What the daemon watches, or why it stops.                                *)

StartTree == StartInv /\ TreeInv

\* What is to be watched is what there is to visit.
LEMMA VisitsToWatch ==
    ASSUME ConfigInv
    PROVE  toWatch = {v[2] : v \in Visits}
<1>1. /\ setting.watch_dir \in Seq(Dirs)
      /\ \A i \in DOMAIN setting.watch_dir : setting.watch_dir[i] \in Dirs
  BY ItemType
<1>2. \A d \in Dirs : reached(d) \subseteq Dirs
  BY TreeLeast DEF reached, under
<1>3. ASSUME NEW i \in DOMAIN setting.watch_dir, NEW e \in reached(setting.watch_dir[i])
      PROVE  \E v \in Visits : e = v[2]
  <2> DEFINE v == <<i, e>>
  <2>1. v \in (DOMAIN setting.watch_dir) \X Dirs /\ v[1] = i /\ v[2] = e
    BY <1>1, <1>2, <1>3
  <2> HIDE DEF v
  <2>2. v \in Visits
    BY <1>3, <2>1 DEF Visits
  <2> QED
    BY <2>1, <2>2
<1>4. ASSUME NEW v \in Visits PROVE v[2] \in toWatch
  BY <1>4 DEF Visits, toWatch, ToSet
<1>5. \A d \in ToSet(setting.watch_dir) : \E i \in DOMAIN setting.watch_dir : d = setting.watch_dir[i]
  BY DEF ToSet
<1>6. ASSUME NEW e \in toWatch PROVE \E v \in Visits : e = v[2]
  BY <1>3, <1>5 DEF toWatch
<1> QED
  BY <1>4, <1>6

\* A configuration that is loaded while nobody changes the directories.
LEMMA LoadedInQuiet ==
    ASSUME ConfigInv, TreeInv, pc = "done", config # NULL, ops = 0, ~starved,
           "unknown" \notin ToSet(setting.fire_on)
    PROVE  /\ config.watch_dir \in Seq(Dirs)
           /\ ToSet(config.watch_dir) = toWatch
           /\ Len(config.watch_dir) = count /\ config.allocated = count
           /\ config.watch_dir = <<>> => setting.watch_dir = <<>>
           /\ config.open_cmd =>
                 config.fire_on = ToSet(setting.fire_on) /\ config.type = {"CONTENT"}
<1>1. pass = "load" /\ config \in Config
  BY DEF ConfigInv, LoadInv, TypeOK
<1>2. toVisit = {} /\ Visits \ toVisit = Visits /\ Cardinality({}) = 0
  BY FS_EmptySet DEF toVisit
<1>3. config.watch_dir \in Seq(Dirs) /\ Len(config.watch_dir) \in Nat
  BY <1>1 DEF Config
<1>4. /\ Len(config.watch_dir) + 0 = count
      /\ ToSet(config.watch_dir) = {v[2] : v \in Visits}
      /\ config.allocated = count
  BY <1>1, <1>2 DEF TreeInv, CompleteInv, CountInv
<1>5. config.watch_dir = <<>> => setting.watch_dir = <<>>
  <2>1. ASSUME config.watch_dir = <<>>, setting.watch_dir # <<>> PROVE FALSE
    <3>1. 1 \in DOMAIN setting.watch_dir /\ setting.watch_dir[1] \in Dirs
      BY <2>1, ItemType, EmptySeq
    <3>2. setting.watch_dir[1] \in reached(setting.watch_dir[1])
      BY <3>1, TreeLeast DEF reached, under
    <3>3. setting.watch_dir[1] \in toWatch
      BY <3>1, <3>2 DEF toWatch, ToSet
    <3>4. ToSet(config.watch_dir) = {}
      BY <2>1 DEF ToSet
    <3> QED
      BY <1>4, <3>3, <3>4, VisitsToWatch
  <2> QED
    BY <2>1
<1>6. config.open_cmd => config.fire_on = ToSet(setting.fire_on) /\ config.type = {"CONTENT"}
  BY DEF ConfigInv, DoneInv, AllOptionsKnown, TreeInv, ContentInv
<1> QED
  BY <1>3, <1>4, <1>5, <1>6, VisitsToWatch

\* What the daemon gives as its reason.
HasReason ==
    \/ setting.watch_dir = <<>> \/ setting.fire_on = <<>>
    \/ "unknown" \in ToSet(setting.fire_on)
    \/ \E d \in ToSet(setting.watch_dir) : d \notin exists
    \/ count > MAX_WATCH

\* config_load returns nothing: an item was not there to be counted.
LEMMA NoConfigurationHasReason ==
    ASSUME StartTree, pc = "done", config = NULL, ops = 0, ~starved
    PROVE  HasReason
<1>1. count = -1
  BY DEF StartTree, StartInv, DoneInv
<1> QED
  BY <1>1 DEF StartTree, TreeInv, QuietInv, HasReason

\* begin_watch refuses a configuration: the file has no directory, or no option.
LEMMA RefusalHasReason ==
    ASSUME StartTree, stage = "begin_watch", is_refused, ops = 0, ~starved
    PROVE  HasReason
<1>1. pc = "done" /\ config # NULL /\ ConfigInv /\ TreeInv
  BY StartInvParts DEF StartTree, StartInv, StageInv
<1> SUFFICES ASSUME "unknown" \notin ToSet(setting.fire_on), setting.watch_dir # <<>>
             PROVE  setting.fire_on = <<>>
  BY DEF HasReason
<1>2. /\ config.watch_dir # <<>>
      /\ config.open_cmd =>
            config.fire_on = ToSet(setting.fire_on) /\ config.type = {"CONTENT"}
  BY <1>1, LoadedInQuiet
<1>3. config.open_cmd
  BY <1>1, <1>2 DEF ConfigInv, DoneInv
<1>4. ToSet(setting.fire_on) = {}
  BY <1>2, <1>3 DEF is_refused
<1>5. setting.fire_on \in Seq({"OPEN", "CLOSE", "unknown"})
  BY <1>1, SettingType DEF ConfigInv
<1>6. ASSUME setting.fire_on # <<>> PROVE FALSE
  <2>1. 1 \in DOMAIN setting.fire_on
    BY <1>5, <1>6, EmptySeq
  <2>2. setting.fire_on[1] \in ToSet(setting.fire_on)
    BY <2>1 DEF ToSet
  <2> QED
    BY <1>4, <2>2
<1> QED
  BY <1>6

\* A directory cannot be watched: it is an item that is not there, or one too many.
LEMMA NoWatchHasReason ==
    ASSUME StartTree, stage = "watch", dir <= Len(config.watch_dir),
           config.watch_dir[dir] \notin exists \/ map_is_full, ops = 0, ~starved
    PROVE  HasReason
<1>1. /\ pc = "done" /\ config # NULL /\ config.open_cmd /\ dir = Len(name_map) + 1
      /\ ConfigInv /\ TreeInv
      /\ dir \in Nat \ {0} /\ name_map \in Seq(Dirs)
  BY StartInvParts DEF StartTree, StartInv, StageInv, StartTypeOK
<1>2. "unknown" \notin ToSet(setting.fire_on)
  BY <1>1 DEF ConfigInv, DoneInv, AllOptionsKnown
<1>3. /\ config.watch_dir \in Seq(Dirs)
      /\ ToSet(config.watch_dir) = toWatch
      /\ Len(config.watch_dir) = count
  BY <1>1, <1>2, LoadedInQuiet
<1>4. CASE config.watch_dir[dir] \notin exists
  <2>1. dir \in DOMAIN config.watch_dir
    BY <1>1, <1>3
  <2>2. config.watch_dir[dir] \in toWatch
    BY <1>3, <2>1 DEF ToSet
  <2>3. PICK d \in ToSet(setting.watch_dir) : config.watch_dir[dir] \in reached(d)
    BY <2>2 DEF toWatch
  <2>4. d \in Dirs
    BY <1>1, ItemType DEF ToSet
  <2>5. config.watch_dir[dir] = d
    BY <1>4, <2>3, <2>4, TreeParent DEF reached, under
  <2> QED
    BY <1>4, <2>5 DEF HasReason
<1>5. CASE map_is_full
  <2>1. Len(name_map) >= MAX_WATCH /\ Len(name_map) \in Nat
    BY <1>1, <1>5 DEF map_is_full
  <2>2. count > MAX_WATCH
    BY <1>1, <1>3, <2>1, StartupAssumption
  <2> QED
    BY <2>2 DEF HasReason
<1> QED
  BY <1>4, <1>5

\* A daemon that stops does so for a reason, and changes nothing after.
LEMMA ExitStep ==
    ASSUME StartTree, ExitHasReason, [StartNext]_allVars
    PROVE  ExitHasReason'
<1>1. ExitHasReason <=> ((stage = "exited" /\ ops = 0 /\ ~starved /\ ~refused) => HasReason)
  BY DEF ExitHasReason, HasReason
<1>2. ExitHasReason' <=> ((stage = "exited" /\ ops = 0 /\ ~starved /\ ~refused)' => HasReason')
  BY DEF ExitHasReason, HasReason
<1>3. ASSUME UNCHANGED vars PROVE HasReason => HasReason'
  BY <1>3 DEF HasReason, vars, fsVars, walkVars
<1>4. ASSUME exits_refused PROVE ExitHasReason'
  BY <1>4 DEF exits_refused, ExitHasReason
<1>5. ASSUME stage' # "exited" PROVE ExitHasReason'
  BY <1>5 DEF ExitHasReason
<1>6. ASSUME goes_to("exited"), ops = 0 /\ ~starved => HasReason PROVE ExitHasReason'
  <2>1. UNCHANGED vars /\ ops' = ops /\ starved' = starved
    BY <1>6 DEF goes_to, vars, fsVars
  <2> QED
    BY <1>2, <1>3, <1>6, <2>1
<1>7. CASE daemonise \/ read_config_file
  BY <1>4, <1>5, <1>7 DEF daemonise, read_config_file, goes_to
<1>8. CASE load \/ get_events
  BY <1>5, <1>8 DEF load, get_events, goes_to, startVars
<1>9. CASE config_loaded
  <2>1. CASE pc = "done" /\ config = NULL /\ goes_to("exited")
    BY <1>6, <2>1, NoConfigurationHasReason
  <2> QED
    BY <1>5, <1>9, <2>1 DEF config_loaded, goes_to
<1>10. CASE begin_watch
  <2>1. CASE is_refused /\ goes_to("exited")
    BY <1>6, <1>10, <2>1, RefusalHasReason DEF begin_watch
  <2> QED
    BY <1>4, <1>5, <1>10, <2>1 DEF begin_watch, goes_to
<1>11. CASE event_handling_init
  BY <1>4, <1>5, <1>11 DEF event_handling_init, goes_to
<1>12. CASE add_watch
  <2>1. stage = "watch" /\ dir <= Len(config.watch_dir)
    BY <1>12 DEF add_watch
  <2>2. CASE (config.watch_dir[dir] \notin exists \/ map_is_full) /\ goes_to("exited")
    BY <1>6, <2>1, <2>2, NoWatchHasReason
  <2> QED
    BY <1>4, <1>5, <1>12, <2>1, <2>2 DEF add_watch
<1>13. CASE other_processes
  <2>1. ops' # 0
    BY <1>13 DEF other_processes, environment, StartTree, StartInv, StartTypeOK, TypeOK
  <2> QED
    BY <2>1 DEF ExitHasReason
<1>14. CASE UNCHANGED allVars
  BY <1>1, <1>2, <1>3, <1>14 DEF allVars, startVars, vars, fsVars
<1> QED
  BY <1>7, <1>8, <1>9, <1>10, <1>11, <1>12, <1>13, <1>14 DEF StartNext, main

\* Every step keeps the invariant of the walks.
LEMMA TreeStep ==
    ASSUME StartTree, [StartNext]_allVars
    PROVE  TreeInv'
<1>1. WalkTree /\ starved \in BOOLEAN
  BY StartInvParts DEF StartTree, WalkTree, ConfigInv, TypeOK
<1>2. ASSUME UNCHANGED vars PROVE TreeInv'
  BY <1>1, <1>2, TreeKept DEF vars
<1>3. CASE load
  BY <1>1, <1>3, ConfigLoadTree DEF load
<1>4. CASE other_processes
  BY <1>1, <1>4, EnvironmentTree DEF other_processes
<1>5. CASE event_handling_init
  <2>1. CASE UNCHANGED vars
    BY <1>2, <2>1
  <2>2. CASE UNCHANGED <<fsVars, setting, pc, walkVars, config>> /\ starved' = TRUE
    BY <1>1, <2>2, TreeKept
  <2> QED
    BY <1>5, <2>1, <2>2 DEF event_handling_init, goes_to, exits_refused
<1>6. CASE daemonise \/ read_config_file \/ config_loaded \/ begin_watch \/ add_watch \/ get_events
  BY <1>2, <1>6 DEF daemonise, read_config_file, config_loaded, begin_watch, add_watch,
                    get_events, goes_to, exits_refused
<1>7. CASE UNCHANGED allVars
  BY <1>2, <1>7 DEF allVars
<1> QED
  BY <1>3, <1>4, <1>5, <1>6, <1>7 DEF StartNext, main

\* It holds at the start.
LEMMA TreeInit ==
    ASSUME StartInit
    PROVE  TreeInv /\ ExitHasReason
<1>1. /\ ops = 0 /\ created = FALSE /\ starved = FALSE /\ pc = "item"
      /\ pass = "count" /\ tok = 1 /\ stack = <<>>
      /\ count = 0 /\ config = NULL /\ stage = "start"
  BY DEF StartInit, Init
<1>2. ConfigInv
  BY StartInvInit, StartInvParts
<1>3. Visits \ toVisit = {} /\ Cardinality({}) = 0
  <2>1. \A v \in Visits : v[1] >= 1
    BY <1>2, ItemType DEF Visits
  <2> QED
    BY <1>1, <2>1, FS_EmptySet DEF toVisit
<1>4. AheadInv
  BY <1>1 DEF AheadInv
<1>5. CountInv
  <2>1. Cardinality(Visits \ toVisit) = count /\ count = 0
    BY <1>1, <1>3
  <2>2. Cardinality(Visits \ toVisit) <= count
    BY <2>1
  <2> QED
    BY <1>1, <2>2 DEF CountInv
<1>6. QuietInv
  <2>1. DOMAIN stack = {} /\ \A i \in 1..tok - 1 : FALSE
    BY <1>1
  <2> QED
    BY <1>1, <2>1 DEF QuietInv
<1>7. CompleteInv
  BY <1>1, <1>3 DEF CompleteInv
<1>8. ContentInv /\ ExitHasReason
  BY <1>1 DEF ContentInv, ExitHasReason
<1> QED
  BY <1>4, <1>5, <1>6, <1>7, <1>8 DEF TreeInv

\* Whatever other processes do to the directories, the walks keep the whole
\* invariant: what they have before them, what they have counted and what they
\* have entered agree with the tree, for any tree.
THEOREM TreeInvariant == StartSpec => []IInv
<1>1. StartInit => IInv
  BY StartInvInit, TreeInit DEF IInv
<1>2. IInv /\ [StartNext]_allVars => IInv'
  <2> SUFFICES ASSUME IInv, [StartNext]_allVars PROVE IInv'
    OBVIOUS
  <2>1. StartTree /\ ExitHasReason
    BY DEF IInv, StartTree
  <2>2. StartInv'
    BY <2>1, StartInvStep DEF StartTree
  <2>3. TreeInv' /\ ExitHasReason'
    BY <2>1, TreeStep, ExitStep
  <2> QED
    BY <2>2, <2>3 DEF IInv
<1> QED
  BY <1>1, <1>2, PTL DEF StartSpec

\* No directory is entered that there is no place for, unless one is created
\* between the walks: however many are removed at whatever step of them.
THEOREM ArrayLongEnough == StartSpec => []ArrayIsLongEnough
<1>1. ASSUME IInv PROVE ArrayIsLongEnough
  <2> SUFFICES ASSUME config # NULL, ~created
               PROVE  Len(config.watch_dir) <= config.allocated
    BY DEF ArrayIsLongEnough
  <2>1. ConfigInv /\ CountInv
    BY <1>1, StartInvParts DEF IInv, TreeInv
  <2>2. /\ Len(config.watch_dir) + Cardinality(toVisit) <= count
        /\ config.allocated = count
    BY <2>1 DEF CountInv
  <2>3. Cardinality(toVisit) \in Nat /\ Len(config.watch_dir) \in Nat /\ config.allocated \in Nat
    BY <2>1, VisitsFinite DEF ConfigInv, TypeOK, Config
  <2> QED
    BY <2>2, <2>3
<1> QED
  BY <1>1, TreeInvariant, PTL

\* In a tree that nobody changes exactly the directories in it are watched,
\* each as often as it is reached, and the array for their names is full: for
\* any tree, any items and any depth.
THEOREM QuietTree == StartSpec => []QuietTreeIsWatched
<1>1. ASSUME IInv, WatchingIsComplete PROVE QuietTreeIsWatched
  <2> SUFFICES ASSUME stage = "watching", ops = 0, ~starved
               PROVE  ToSet(name_map) = toWatch /\ Len(name_map) = config.allocated
    BY DEF QuietTreeIsWatched
  <2>1. /\ ConfigInv /\ TreeInv /\ pc = "done" /\ config # NULL
        /\ name_map = config.watch_dir /\ "unknown" \notin ToSet(setting.fire_on)
    BY <1>1, StartInvParts DEF IInv, StartInv, StageInv, WatchingIsComplete
  <2> QED
    BY <2>1, LoadedInQuiet
<1> QED
  BY <1>1, TreeInvariant, CompleteConfiguration, PTL

\* A daemon that stops before anything has changed has been asked for what
\* cannot be: nothing it loads or watches goes wrong of itself.
THEOREM ExitReason == StartSpec => []ExitHasReason
<1>1. IInv => ExitHasReason
  BY DEF IInv
<1> QED
  BY <1>1, TreeInvariant, PTL
==============================================================================
