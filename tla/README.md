# A formal model of watch_it

watch_it (`src/README.md`) is a Linux daemon. It watches directories with
inotify and runs one command when a file in them has been open for longer than
`min_read_close`, and another when that file is closed. This directory holds
TLA+ modules translated from its C code, TLC configurations that check them on
small instances, and proofs for TLAPS that hold for every instance.
`PROJECT.json` maps every definition to the lines it stands for.

    cd tla
    tlc -workers 2 -config MCEventHandling.cfg MCEventHandling   # any run below
    tlapm EventHandlingProofs.tla                                # any *Proofs

## 1. The system

| component | source | state | operations |
|---|---|---|---|
| event tracker | `src/src/event_handling.c` | `file_event_list`, `signaled`, `last_tick`, the commands, mutex and condition variable | `event_handling_init`, `event_handling_add_event` (producer), `event_handling_get_tick`, the `consumer` thread: timed wait, pass over the list, `str_replace`, `system()` |
| main loop | `src/src/watch_it.c` | `name_map`, the inotify descriptor, the buffer of events | `begin_watch`, `add_to_map`, `find_in_map`, `get_event` |
| configuration loader | `src/src/config.c` | `struct conf` | `config_load`: two walks over the watched trees, settings, commands; `config_free` |
| ini parser | `src/src/iniparser/iniparser.c` | the current section, `errs`, the line buffer | `iniparser_load`, `iniparser_getstring`, `iniparser_getint`, `iniparser_freedict`, queries and dumps |
| dictionary | `src/src/iniparser/dictionary.c` | arrays `key`, `val`, `hash`; `size`, `n` | `dictionary_new`, `_del`, `_get`, `_set`, `_unset` |
| kernel list | `src/include/list.h` | links | `list_add_tail`, `list_del`, the two loops |
| daemonisation | `main` in `watch_it.c` | – | `fork`, `setsid`, `chdir`, closing of descriptors |

**How they interact.** `main` calls `config_load`, which reads the file into a
dictionary through the ini parser and walks over the directory trees.
`begin_watch` starts the consumer thread (`event_handling_init`) and adds a
watch for each directory; `get_event` then reads inotify events for ever and
calls `event_handling_add_event` for each one of a plain file. The tracker is
the only place where two threads meet: the list and `signaled` are shared under
one mutex, the producer signals a condition variable, and the consumer keeps the
mutex while a command runs. `last_tick` is shared without a lock. Outside are
the processes that use the files, and the queue of the kernel between them and
the daemon.

**What is hard.**

- *Interleaving.* Commands run with the mutex held. While one runs files are
  opened, closed and opened again; their events wait in the queue, in the buffer
  or in the main thread's hands, and are judged by the clock at the time the
  mutex is free.
- *Order.* An entry goes through open, open command, close, close command and
  removal, and a close or a reopening can come between any two of them.
- *Time.* Ticks are seconds times 1000000 plus milliseconds. The deadline of a
  wait adds microseconds to nanoseconds. How long to wait is worked out from
  several readings of the clock, and two threads share the last tick they saw.
- *Loss.* A full queue drops events; a failing `malloc` drops one event and the
  rest of its buffer; a close within `min_read_close` drops an entry.
- *Two looks at one thing.* The trees are counted in one walk and entered in
  another, while other processes change them; `n` in the dictionary stands for
  what its slots hold.
- *Partial failure.* Allocations fail at every point, and several functions carry
  on or return what they have so far.

**What makes each component correct.**

- Tracker: at most one entry for a file; the entry the consumer works on is in
  the list; the two commands alternate for each file; no signal is lost; nothing
  marked for removal survives a pass; every file that is due gets its command and
  every closed entry goes; no sleep makes a file wait for long; ticks are not older
  than the calls that return them; commands are given the right name.
- Main loop: what is tracked is what is open, once nothing is on its way and
  nothing was lost; directories never get commands; every event is gone through.
- Configuration and start: the array is as long as what is written into it; the daemon
  does not run with half a configuration; all directories are watched; it comes to
  watch them, or stops for a reason.
- Ini parser: what the file says is what a lookup gives; a wrong file is refused;
  a dictionary has one owner.
- Dictionary: it is a map; queries and dumps say what the map holds.

## 2. The modules

| module | models | composed of |
|---|---|---|
| `CommandCycle` | abstract: open and close commands alternate for each file, one at a time, no opened file is forgotten | |
| `EventHandling` | the tracker: producer and consumer | implements `CommandCycle` |
| `TimedWait` | how long the consumer sleeps: `cur_wait`, the deadline | extends `EventHandling`, implements it |
| `TickSource` | `event_handling_get_tick`, at the grain of its reads and writes | |
| `CommandLine` | `str_replace` and the command that is run | extends `EventHandling` |
| `WatchIt` | the daemon: `begin_watch`, `get_event`, the kernel's queue, other processes | instantiates `EventHandling` |
| `Config` | `config_load` in a file system that changes | |
| `Startup` | `main` up to the first event | extends `Config` |
| `DictionaryMap` | abstract: a map, and what it may lose when memory runs out | |
| `Dictionary` | the arrays | implements `DictionaryMap` |
| `IniQueries` | sections, keys of a section, dumps | extends `Dictionary` |
| `IniParser` | `iniparser_load`, lookups | instantiates `DictionaryMap` |
| `EventHandlingProofs`, `TimedWaitProofs`, `TickSourceProofs`, `CommandLineProofs`, `WatchItProofs`, `StartupProofs`, `DictionaryProofs` (with `IniQueries`), `IniParserProofs` | theorems | |
| `MCEventHandling`, `MCTimedWait`, `MCTickSource`, `MCWatchIt`, `MCStartup`, `MCDictionary`, `MCIniParser` | values for TLC | |

Definitions have the names of the C functions and variables they stand for.
Those whose comment begins with *Mutant* are plausible mistakes: each replaces
the definition after it and makes a property fail, which shows that the property
depends on that piece of code.

### EventHandling

`list` is `file_event_list` with its pointers abstracted: appending is
`list_add_tail`, `RemoveAt` is `list_del` and `free`. A file is the pair of watch
and name that `equals_file` compares. `event` is the `EVENT` on the main thread's
stack between the reading of the clock in `get_event` and the lock in
`event_handling_add_event`. `pc` is where the consumer is: `lock`, the timed wait
(`waiting`, or `woken` by a signal), then the steps of a pass: `visit` an entry,
`opening` and `closing` while `system()` runs, `check_close`, and `sweep`, the
second loop, which deletes what was marked. `pos` is the loop's cursor.

The mutex is not a variable: `consumer_has_mutex` says at which `pc` the consumer
holds it. A critical section of the producer is one step; a pass of the
consumer is a step for each reading of the clock and each command, since
time passes and events are stamped meanwhile. Results of `system()` are ignored
by the code, and so here. `AllocMayFail` lets `add_new_file` fail, which leaves the
list as it was.

### TimedWait, TickSource, CommandLine

`TimedWait` is `EventHandling` with `cur_wait` and the deadline that
`wait_for_producer` makes of it. Each step of the tracker is taken with what the code does to
these two; the comparison of `cur_wait` with `calc_open_delta`, and the assignment of a
second call of it, are steps of their own (`step`), between which time passes
and the main thread stamps events. `torn` is history: time did pass there, and
a second may have ended. The clock is truncated to milliseconds, so the
deadline is chosen for every nanosecond that it may stand for (`NsecNow`), and
for the product with a fraction of a second that may come out one too low.

`TickSource` splits a call of `event_handling_get_tick` at the reading of the clock, the
comparison with `last_tick`, the store and the second reading of `last_tick` (the code is built
without optimisation). The clock advances, is set back, or fails. It counts in ticks, since
the leap is the business of the other modules.

`CommandLine` has the two loops of `str_replace`, over texts that are sequences
of a few characters, and the choice between replacing and running the command
as it is. It extends `EventHandling`, whose consumer runs the command. The loops are
recursive functions of one argument (of `copied`, a function for each number of `@0`s
that are left, from the positions of the text), since that is the recursion the prover takes.
What they should compute is said from the other end: `joined` puts pieces together with
something between them, and a command that is joined with `@0`s must come out joined with the name.

### WatchIt

`main` goes from `start` (the checks in `begin_watch`, `event_handling_init`) through `adding` (one turn
of its loop: `inotify_add_watch`, `add_to_map`) to `watching`, or to `exited`.
`get_event` is split where other threads can be seen: `read` (as many events as
fit, at least `BUFF_EVENTS`: a buffer of 1024 events with the longest names holds more
with shorter ones), `skip_event` (the `continue`s), `take_event` (the clock is
read) and `add_event` (with the tracker's `event_handling_add_event`).
`name_map`, `find_in_map` and the tests of the flags are as in the code. The
kernel (`inotify_queue`) merges an event with an equal last one and ends a full
queue with an overflow event; other processes open, read, close, delete and
move files, list directories and remove them. A removed directory sends
`IN_DELETE_SELF`, if it is asked for, and `IN_IGNORED`. `lost` records that an event was dropped on
the way, or that an open file was moved, whose close is not reported under the
name it was entered with.

### Dictionary and DictionaryMap

The three arrays are functions on `0..size-1`; `arrays` says which of them are
allocated, since `dictionary_new` and a failed growth go on with those that are
not. `found` is the scan that `dictionary_get`, `dictionary_set` and
`dictionary_unset` share: compare the hash, then the key. `dictionary_set` is
`modify`, `add`, `add_and_grow` or `cannot_grow`; `xstrdup` may return NULL.
Reading through a missing array is the state `crashed`. `call` is
the last operation with its arguments, so that each operation of the arrays is shown
to be the same operation of the map. `dictionary_hash` is an
arbitrary function of the keys. `DictionaryMap` is what is left of this for a
caller: a map, in which a set may lose a value or a new key when memory runs out,
and still report success.

### IniParser

A turn of the loop over the lines is a step. A line stands for what
`iniparser_line` makes of it (nothing, a section, a value, an error) and for how
it ends, which decides what happens before `iniparser_line` is called: too long for the
buffer, continued with a backslash, of one character, or white space only. In the
last case `len` is -1 and `line[-1]` decides: `stray` is that byte, which nobody has
written, `shifted` that the next line is read from there, and `odd` that
such a line has been read. `starved` records that a key or value could not be copied. Names are words, `Lwc` is `strlwc`. Names of
sections are taken to hold no colon: a section called `folder:watch_dir` would be
one key with the value of that name.

### IniQueries

What `iniparser_getnsec`, `getsecname`, `getsecnkeys`, `getseckeys`, `iniparser_find_entry` and
the three dumps return for the arrays of `Dictionary`, in every state that these can reach:
holes, grown arrays, copies that failed. A key is a section (it has no colon) or has a
section before its colon, which is itself no key with one (`SectionOf`, `SectionAssumption`). A scan that
counts and breaks off is given by the slot at which it does; a list of keys by the slots it comes
from, in the order of the scan (`InOrder`).

### Config and Startup

The file system is the set `exists` of files and directories in a fixed tree;
other processes create and remove them (`environment`). `stack` holds, for each
directory the walk is in, the entries `readdir` has not returned; the listing is
taken at `opendir`, and entries can be gone by the time of their `lstat`. One set of
actions serves both walks, which differ in `note_dir` (count, or write into
`watch_dir`) and in `walk_fails` (the count gives up, `load_watch_dir` goes on
with the next item). `created`, `steady` and `starved` are history for the properties.
`config.allocated` is the length of the array. The reference for both walks is `under`: the
least set of directories with d in it and, with each directory, the ones in that. What
`load_commands` and `load_min_read_close` leave is whether they got that far.

`Startup` is what surrounds `config_load`: `stage` is where `main` is. Becoming a daemon is one step
that succeeds or exits, since nothing is shared yet (the descriptors that are closed, `umask` and
`chdir` are not state of the model). `begin_watch` refuses a configuration by what is
unset in it; `event_handling_init` crashes on a command that is NULL; then each
directory is asked for, which may be gone by then. The consumer, which has
nothing to do before the first event, and the events are in `WatchIt`, which starts from any
list of directories.

## 3. What the runs check

| run | instance | what it shows |
|---|---|---|
| `tracker` | 2 files, two seconds of 3 ms, allocation failures, fair threads | `UniqueEntries`, `EntriesConsistent`, `NoLostWakeup`, `DelayNeverOverstated`, `EntryStaysUnderCommand`; the commands alternate (`ImplementsCommandCycle`) and have the name of the file in them (`EveryReferenceIsReplaced`); the strengthened invariant `IInv` of the proofs, which has `TypeOK`, `CursorValid` and `NoResidue` in it; a file that is due gets its open command (`DueFileIsOpened`), a closed entry goes (`ClosedFileSettles`) |
| `timed_wait` | 2 files, two seconds of 3 ms, 12 ns to the second and 6 us, an idle wait of 7 ms | deadlines are valid times (`DeadlineIsValid`), a sleep is at most a second too long (`NoOversleep`), and no file waits for the idle wait of an empty list (`SleepIsBounded`); `WaitInv` of the proofs |
| `tick_source` | 2 threads, a clock of 5 ticks that is set back and fails | `ReturnedTickIsFresh`, `TicksAscendAlone`; `TickInv` of the proofs |
| `daemon` | 3 names of 2 directories, `MAX_WATCH` 2, a queue of 2, 4 operations, fair threads | what is tracked is what is open (`NoPhantomOpen`, `HeldFileIsTracked`), no directory gets a command (`OnlyFilesReachTracker`), every event is gone through (`EventsAreHandled`), a file that stays open gets its command (`HeldFileIsOpened`); `IInv` of the proofs, which has the types and the tracker's invariant in it |
| `startup` | 4 directories in 3 levels and a file, 2 changes meanwhile, lists of up to 2 directories, `MAX_WATCH` 5, failing system calls and allocations, fair | the array is long enough unless a directory is created (`ArrayIsLongEnough`); the daemon runs with a complete configuration and watches all of it (`WatchingIsComplete`); a tree that nobody changes is watched completely (`QuietTreeIsWatched`); only memory that ran out crashes it (`CrashIsForWantOfMemory`), it exits for a reason (`ExitHasReason`), and does one or the other (`StartsOrStops`); `IInv` of the proofs, which has the types in it |
| `dictionary` | 2 sections and 2 keys of which 3 collide, an array of 2 slots that grows to 4, any allocation may fail | no key twice (`KeyOnce`), `n` covers the keys (in `IInv`), the arrays are a map (`ImplementsMap`); sections are numbered without gaps (`SectionsAreNumbered`), `getseckeys` fills what it allocated (`SectionKeysFill`), a dump has every key but those of a section that is not entered (`DumpIsComplete`) |
| `ini_parser` | files of 4 lines of every kind, names in two cases, any allocation may fail | the last value wins in any case of letters and any continuation of a section (`FileIsFoundAgain`); a file is refused for its last statement (`RefusedForLastError`); `DictionaryHasOwner`; `IInv` of the proofs, which has the types in it |

Runs that are expected to find a violation each show a disagreement between the
code and what is said of it:

| run | the code | what is said |
|---|---|---|
| `second_leap` | the tick leaps by 999001 at the end of a second, so a file opened in its last millisecond is due one millisecond later | `watch_it.conf`: `min_read_close` must elapse before an open event is fired |
| `lost_close` | reopened before its close command ran and closed again at once, a file stays open in the list | `close_command` is run on CLOSE |
| `no_open_cmd` | without an open command `has_fired_open` is never set and the close command never runs | `close_command` is run on CLOSE |
| `two_readers` | the quick close of one process removes the entry of the other's file | OPEN "will fire once on starting to read or write" |
| `partial_tree` | a file that is gone at its `lstat` ends the walk, and its result is not looked at | `recursive=true` "will recursively watch all contents" |

Smaller disagreements that the models contain but no run is kept for: after a
failed `mem_double` `dictionary_del` reads through NULL (`crash` in `Dictionary`), where the
failure is reported and the dictionary to be deleted; a tick can be older than one the same thread was given before,
which `last_tick` is there to prevent (`ReturnedTickIsFresh` says by how much); a close is measured
when the mutex is free and not by its time stamp (`add_close`), so a file that was read
within `min_read_close` can fire; a file closed in the tick it was opened in is dropped
with a delay of 0 too (`has_open_past_delay` is strict); sections are keys whose value
is NULL (`enter` in `IniParser`), which `dictionary_set`'s comment excludes;
`iniparser_set` adds a key it does not find, and is said to return -1.

### Bounds, and why they are enough

- *Files, names, keys.* Entries of different files meet only in the list, in the
  cursor and in the sweep; two files give every relative order. Four keys give a
  collision, a bystander, a section of each kind and a full array of 2 that grows. The theorems hold for any
  number.
- *Clock.* A second of 2 or 3 ms that counts for 4 or 10 ticks has the one feature
  of the real one (1000 and 1000000), the leap at its end. Two seconds contain
  one leap; the delay of 1 ms can pass with and without it. The clock stops at the
  end of second `MaxSec`, after which the threads go on: liveness is not helped by the
  bound, since nothing waits for the clock in the end.
- *Nanoseconds.* 12 to a second of 3 ms, against 6 us, keep what matters of 1000 million and
  a million: the carry comes before the end of a second and may leave either part of it. The
  idle wait is longer than the delay and than a second.
- *Ticks of `TickSource`.* 5 values let one thread be overtaken by calls that begin and end
  at three different times. The theorems hold for any number, and for any number of threads.
- *Queue and operations.* A queue of 2 overflows after three events nobody reads,
  and 4 operations open, close, reopen and delete or move a file, or remove its directory.
  `BUFF_EVENTS` = 1 lets a read take one event and leave the other. The delay is 0 and there
  is one second here; the leap and the delay are the tracker's business (`tracker`). `MaxHandles` = 1 is
  an assumption of `HeldFileIsTracked`, not a bound: `two_readers` is what happens
  without it.
- *Lines.* A section with a key that is continued, in another case, with another value of
  the key takes 4 lines.
- *Tree.* Three levels, two subdirectories in one and a file beside them: a walk can
  fail below, beside or above directories it has still to enter. One removal makes the
  two walks differ; with two operations a directory is also replaced. Six directories come out of a list that names one
  tree twice, against a `MAX_WATCH` of 5.
- *Text.* Three pieces of up to 2 characters around up to 2 `@0`s, with a name that is shorter or
  longer than `@0`, or holds it.

### Fairness

- The consumer (`WF`): it is a thread that is never blocked for ever. The lock is
  released by the producer after a few instructions, a timed wait ends, and a
  command is assumed to terminate, which the code waits for without a limit.
- The main thread (`SF` in `WatchIt`): `add_event` is disabled while the consumer has
  the mutex and enabled in each of its waits. The wait gives the mutex up for at least as
  long as it takes to be granted to the one thread that asks for it.
- `main` up to the first event (`WF` in `Startup`): one thread, with nothing to block it. Other processes
  make finitely many changes (`MaxOps`); without that bound, directories created
  faster than they are walked over would keep it going.
- Nothing is assumed of other processes, of the clock, or of the kernel.

Deadlock is checked for `tracker`, `timed_wait` and `tick_source`. The others stop because their bounds end
(`MaxOps`, a file that is read) or because the program does (`begin_watch` fails, a dictionary is
deleted).

## 4. What is proved

For all values of the constants that meet the named assumptions:
`ConfigAssumption`, `ClockAssumption` and their counterpart `WatchItTrackerAssumption` (the delay is a
natural number, a second counts for at least as many ticks as it has milliseconds), `WaitAssumption`
(a second has at least as many nanoseconds as microseconds), `MaxTickAssumption`, `WatchItAssumption`
(types of the constants; no file is called by the missing name), `ConfigFileAssumption` and
`StartupAssumption` (types; a directory is no plain file, NULL is no configuration; there may be finitely
many directories, and none is inside itself, however far up one goes), `DictionaryAssumption` (NULL and
the default are no keys and no values, hashes are natural numbers, the array begins with a slot),
`SectionAssumption` (every key is a section or has something before its colon that is not a key with
a colon), `IniParserAssumption` (`strlwc` makes words of words, and nothing more when it is applied again).

**Tracker** (`EventHandlingProofs`). `IInv` is inductive (`TrackerInvariant`), and
gives `TypeCorrect`, `OneEntryPerFile`, `NoUseAfterFree`, `ConsistentEntries`,
`PassClearsUp`, `WakeupIsNotLost`, and the action property `EntryStays`. The
invariants are not inductive by themselves. `EntriesConsistent` needs to know what the consumer
tested before it called `system()` (`CommandStillDue`: the producer cannot run
meanwhile, since the consumer has the mutex) and that no time stamp lies in the future
(`TimesArePast`), or a close could be dated before its open. `NoResidue` needs to
know that the sweep leaves nothing behind its cursor (`SweptBehind`).
`DelayIsNeverOverstated` is arithmetic: the leap of the tick can only lengthen a difference,
because `TicksPerSec >= MsPerSec`. `OnlyLeapsShorten` is the other side: when an open command runs,
its file has been open for longer than `min_read_close` but for `Leaps`, what each second that ended
in between counts for too much (999000). So the second that ends is the only way to what `second_leap` shows. It needs
to know that the delay which was tested before `system()` is still past during it (`OpeningIsDue`).

**Commands** (`EventHandlingProofs`). `CommandsAlternate`: the tracker implements
`CommandCycle`. A command that `system()` is waiting for is read off `pc` and
the entry at the cursor, and `opened` off the entries' flags. Each step of the consumer
maps to a step of the cycle or to none. The step of the producer that matters is
`add_close`: it must not remove an entry whose open command has run.

**Command line** (`CommandLineProofs`). `EveryCommandIsMade`: every command, of any length and over any
characters, has a cut into pieces without an `@0` (`CanBeCut`) such that for the name of every file
the shell is given the pieces with the name between them, and the memory that was asked for is what that and the byte
at its end need. So every `@0` is replaced, nothing else is changed, an `@0` in a name stays, and the loop that
counts agrees with the one that copies. It rests on `PlainPiecesAreJoined`, the same from the side of the pieces, of which
`ReferencesReplaced`, the property of the run, is an instance. The argument goes along the
pieces. `Places` says where piece n stands in the command and that an `@0` follows it; `FoundNext` that
`strstr`, from the beginning of a piece, finds this `@0` and none before it, also not
one made of the end of a piece and the `@` behind it (`NoneInside`). With that the equation of each loop
gives its value at a piece from the value at the next one (`ReferencesCounted`, `PiecesCopied`),
and the length grows by the same amount at each (`LongerByReferences`). The
prover has no induction over texts: the recursive functions are shown to exist and to meet their equations
(`JoinsExist`, `CountsExist`, `CopiesExist`), and what holds of one piece is carried to the others by two lemmas
on the least number for which it does not (`Climb`, `Descend`).

**Timed wait** (`TimedWaitProofs`). `TimedTracker`: with its two variables it is still the
tracker, so `IInv` is at hand. `WaitInvariant` says that `cur_wait` is no longer than the delay, or
all entries that the pass has been at have had their open command (`WaitIsShort`,
`Visited`): the pass sets `cur_wait` for each file it finds waiting, and a file that
is entered afterwards sets `signaled`, so the consumer does not sleep on it. `SleepsAreBounded` follows;
`ValidDeadlines` and `SleepsEnd` are about the carry.

**Ticks** (`TickSourceProofs`). `TickInvariant`: while the clock is not set back, nothing that can still get
into `last_tick` is older than the calls that overlap (`FreshInv`); until two calls overlap,
one thread at a time compares and stores (`AloneInv`). `FreshTicks` and `AscendingTicks` follow, for any
number of threads.

**Daemon** (`WatchItProofs`). `DaemonUsesTracker`: each step of the daemon is a step of its
tracker or leaves it alone, so all theorems about the tracker hold in the daemon. Two of them are stated of it:
`DaemonCommandsAlternate` and `DaemonDelays`.
`OnlyFiles`: no event of a directory reaches the tracker, for any watches and queue.
`DaemonInvariant` is about what is on its way. The events that `get_event` has still to go through are
the `inbox`: the rest of its buffer and then the queue. While nothing was lost, the last of them that is about a file says
what became of it: for a file that nobody has open it is a close or a removal, and there is one if an
entry waits for its open command (`willBeClosed`); for one that a process holds it is an open, and there is one
if no entry tracks it (`willBeOpen`). A process adds to the end of the inbox what keeps this true, unless the queue merges it with
an equal last event, which says the same already; `get_event` takes from the front, which only matters
when it was the last, and then the tracker's step has made of the entry what the event said. With an empty inbox `NoPhantom` and `HeldTracked` are left: the
first for every configuration that asks for closes, the second for those that ask for opens and
where one process opens a file at a time, without which `two_readers` shows it false.

**Start** (`StartupProofs`). `StartInvariant`, and from it `CompleteConfiguration` (the daemon that
watches has every command, option and directory of its configuration) and `CrashNeedsStarvation`.
`config_load` gives up in the middle with a `goto` and returns what it has, and
`begin_watch` looks at three of its fields. That this is enough needs to be said of each place in
`config_load`: what it has entered (`EnteredInv`), what it has loaded (`LoadInv`), and that a
configuration it has returned either has an open command, which is loaded last, or no directory, or
malloc has failed (`DoneInv`). `StageInv` carries that to the watches.

`TreeInvariant` is about the two walks. There is one visit for each item of `watch_dir` and each
directory in its tree (`Visits`); `toVisit` is what a walk has still before it, which is found in what it has not read
of its listings (`unread`), and the rest of the visits is behind it. The count has all that is
behind it, and what has been entered leaves room in the array for all that is before it (`CountInv`).
To note a directory moves one visit from before to behind; to list one changes nothing, because the
tree of a directory is that of its listing (`TreeSplit`), provided that no directory is before the walk twice
(`AheadInv`). What other processes remove leaves both sides or shrinks them, which is `ArrayLongEnough`.
While nobody changes anything the walks fail at items only, and the second not at all (`QuietInv`), so that both
visit everything (`CompleteInv`): `QuietTree`, and `ExitReason` for the daemon that stops. The tree is defined as a
least set and not by recursion over its depth, so that what is needed of it (`TreeLeast` to
`TreeWithout`) follows by giving a set that has the property.

**Ini parser** (`IniParserProofs`). `FileInvariant`: as long as the lines have been entered (`entered`), the dictionary holds for each key what
the lines so far say of it last, in the section they are in (`ContentInv`), and `errs` is positive exactly
when the last line that says something is wrong (`ErrorInv`); a new line changes what the file says of one key at
most (`ValueAfter`). `errs` is at most the number of lines, and negative only when `iniparser_load` is about to end with a
dictionary that is still to be deleted (`OwnerInv`). `LastErrorDecides`, `OneOwner` and the action
property `FoundAgain` follow, for files of any length.

**Dictionary** (`DictionaryProofs`). `DictionaryInvariant`, with `TypeCorrect`,
`NoDuplicateKey`, `SearchTerminates` and `DictionaryIsMap`: the arrays implement
`DictionaryMap` whatever the hash function, sizes and failures. `KeyOnce` rests on
`Counted`: the scan before an insertion is left out when `n = 0`, which is right only because
`n` is never less than the number of keys in use. It rests on `HashesOfKeys` too, or a
scan would pass over a key by its hash. The lemmas say how the number of used
slots and the map change when one slot is filled or cleared. The queries of `IniQueries` count slots in one
scan and number or fill them in another, with holes between: `SectionNumbers`, `SectionKeys` and
`DumpsAreComplete` follow from the same invariant and from lemmas on counting (the number of
sections up to a slot grows by one at each of them; the slots of a scan in order are each met once). Where
a proof goes along a list it takes the least number for which the claim fails and shows that there is none
(`LeastOfNat`).

**Only model-checked.** What needs fairness: `DueFileIsOpened`, `ClosedFileSettles`, `EventsAreHandled`,
`HeldFileIsOpened`, `StartsOrStops`, which are out of reach of the prover. Every invariant and
action property of the runs is proved, and both refinements are. The five properties that are
expected to be violated have no proof, of course.

## 5. What is not modelled

- Buffers and their lengths (a command is copied without the byte that ends it), syntax of
  lines, `strtok`. Conversions to numbers (`iniparser_getint`), so that `min_read_close` is never
  negative.
- `str_replace` returning NULL, and commands that fail: both count as run.
- Directories that are created after the walk: they are never watched.
- `closedir` failing; paths longer than `FILENAME_MAX`.
- Lookups that give NULL because a value could not be copied: `config.c` hands it to
  `strcpy`.
- `dictionary_dump`; `config_free`, which `main` calls before it exits; links of the list; the build.

## 6. Plan

Done: the tracker with its timed wait, its ticks and its command lines, its abstract specification and
proofs; the daemon and its proofs; the start of the daemon with its configuration and proofs; the
dictionary, its queries, its abstract specification and proofs; the ini parser and its proofs. Every safety
property of the runs is proved.

Left: that a reader who asks the loaded dictionary of `IniParser` gets the answers that `Dictionary`
would give, as one composed specification; `str_replace` with a `malloc` that fails; the syntax of lines.
