------------------------------- MODULE WatchIt -------------------------------
(***************************************************************************)
(* The daemon (src/src/watch_it.c): begin_watch sets up the watches, and   *)
(* get_event reads inotify events into a buffer and hands the events of    *)
(* plain files to the tracker (module EventHandling), whose consumer       *)
(* thread runs besides.  Around the daemon: the processes that open and    *)
(* close files, and the inotify queue of the kernel.                       *)
(*                                                                         *)
(* The daemon never stops once it watches; it exits when begin_watch fails.*)
(***************************************************************************)
EXTENDS Integers, Sequences, SequencesExt

CONSTANTS
    Dirs,           \* names of directories
    WdOf,           \* what inotify_add_watch returns for each of them, or -1
    WatchDirs,      \* the lists of directories a configuration may name
    fire_on,        \* subset of {"OPEN", "CLOSE"}
    type,           \* subset of {"CONTENT"}: load_watch_content sets no other
    MAX_WATCH,      \* size of name_map
    BUFF_EVENTS,    \* events that fit in the buffer, however long their names
    Names,          \* names of directory entries
    max_delay_before_fire, HasOpenCmd, HasCloseCmd, AllocMayFail,
    MsPerSec, TicksPerSec, MaxSec,
    MaxHandles,     \* bound: processes that have one file open
    MaxQueued,      \* bound: the kernel's max_queued_events
    MaxOps          \* bound: operations of other processes

Wds   == {WdOf[d] : d \in Dirs} \ {-1}
Files == Wds \X Names

NoName == "."           \* an event of the directory itself: len = 0

ASSUME WatchItAssumption ==
    /\ WdOf \in [Dirs -> Nat \cup {-1}]
    /\ WatchDirs \subseteq Seq(Dirs)
    /\ fire_on \subseteq {"OPEN", "CLOSE"}
    /\ type \subseteq {"CONTENT"}
    /\ {MAX_WATCH, BUFF_EVENTS, MaxHandles, MaxQueued, MaxOps} \subseteq Nat
    /\ NoName \notin Names

\* What the tracker assumes of the configuration and of the clock.
ASSUME WatchItTrackerAssumption ==
    /\ max_delay_before_fire \in Nat
    /\ {HasOpenCmd, HasCloseCmd, AllocMayFail} \subseteq BOOLEAN
    /\ MsPerSec \in Nat \ {0}
    /\ TicksPerSec \in Nat
    /\ TicksPerSec >= MsPerSec
    /\ MaxSec \in Nat

VARIABLES
    clock, list, signaled, event, pc, pos,  \* the tracker, see EventHandling
    main,       \* where the main thread is
    watch_dir,  \* the configured directories, in order
    name_map,   \* the watched directories
    buff,       \* events read and not yet gone through
    queue,      \* the inotify queue
    handles,    \* how often each file is open
    deleted,    \* files whose name is gone, though they may still be open
    removed,    \* watched directories that are gone, and their watches
    ops,        \* operations of other processes so far
    lost        \* history: an event of a file was lost, or never reported

trackerVars == <<clock, list, signaled, event, pc, pos>>
mapVars     == <<watch_dir, name_map>>
kernelVars  == <<queue, handles, deleted, removed, ops>>
vars == <<trackerVars, main, mapVars, buff, kernelVars, lost>>

Tracker == INSTANCE EventHandling

-----------------------------------------------------------------------------
(* inotify, and the processes that use the files.                           *)

Overflow == [wd |-> -1, name |-> NoName, mask |-> "IN_Q_OVERFLOW",
             is_dir |-> FALSE]

close_masks == {"IN_CLOSE", "IN_DELETE", "IN_DELETE_SELF"}
open_masks  == {"IN_OPEN", "IN_ACCESS"}

\* Mutant: IN_OPEN is forgotten.
fire_on_masks_of_access ==
    (IF "OPEN"  \in fire_on THEN {"IN_ACCESS"} ELSE {}) \cup
    (IF "CLOSE" \in fire_on THEN close_masks ELSE {})

\* load_fire_on
fire_on_masks ==
    (IF "OPEN"  \in fire_on THEN open_masks  ELSE {}) \cup
    (IF "CLOSE" \in fire_on THEN close_masks ELSE {})

InotifyEvent ==
    [wd : Wds, name : Names \cup {NoName},
     mask : open_masks \cup close_masks \cup {"IN_IGNORED"}, is_dir : BOOLEAN]

merged(e, q) == q # <<>> /\ Last(q) = e

\* An event like the last one is merged with it; a full queue drops the event
\* and ends in an overflow event.
queued(e, q) ==
    IF merged(e, q) THEN q
    ELSE IF Len(q) < MaxQueued THEN Append(q, e)
    ELSE IF merged(Overflow, q) THEN q
    ELSE Append(q, Overflow)

inotify_queue(e) ==
    /\ queue' = queued(e, queue)
    /\ lost' = (lost \/ (~merged(e, queue) /\ Len(queue) >= MaxQueued))

\* The watch that begin_watch has set exists until the directory is removed.
watched(wd) == \E i \in DOMAIN name_map : name_map[i].wd = wd

operation(wd) ==
    /\ main = "watching" \/ main = "adding"
    /\ watched(wd) /\ wd \notin removed
    /\ ops < MaxOps
    /\ ops' = ops + 1
    /\ UNCHANGED <<trackerVars, main, mapVars, buff>>

report(wd, name, mask, is_dir) ==
    /\ operation(wd)
    /\ IF mask \in fire_on_masks
       THEN inotify_queue([wd |-> wd, name |-> name, mask |-> mask,
                           is_dir |-> is_dir])
       ELSE UNCHANGED <<queue, lost>>
    /\ UNCHANGED removed

open_file(f) ==
    /\ handles[f] < MaxHandles
    /\ handles' = [handles EXCEPT ![f] = @ + 1]
    /\ deleted' = deleted \ {f}
    /\ report(f[1], f[2], "IN_OPEN", FALSE)

access_file(f) ==
    /\ handles[f] > 0
    /\ report(f[1], f[2], "IN_ACCESS", FALSE)
    /\ UNCHANGED <<handles, deleted>>

close_file(f) ==
    /\ handles[f] > 0
    /\ handles' = [handles EXCEPT ![f] = @ - 1]
    /\ report(f[1], f[2], "IN_CLOSE", FALSE)
    /\ UNCHANGED deleted

\* A file may be deleted while it is open; its events keep its name.
delete_file(f) ==
    /\ f \notin deleted
    /\ deleted' = deleted \cup {f}
    /\ report(f[1], f[2], "IN_DELETE", FALSE)
    /\ UNCHANGED handles

\* A file is moved to where nothing is watched.  No mask of fire_on asks for
\* moves; if it is open its close is not reported under the old name.
rename_file(f) ==
    /\ f \notin deleted
    /\ operation(f[1])
    /\ deleted' = deleted \cup {f}
    /\ handles' = [handles EXCEPT ![f] = 0]
    /\ lost' = (lost \/ handles[f] > 0)
    /\ UNCHANGED <<queue, removed>>

\* A watched directory goes when nothing in it is open any more.  The events
\* of the directory itself come without a name, the second whether it was
\* asked for or not; nothing sets the watch again.
remove_directory(wd) ==
    /\ operation(wd)
    /\ \A name \in Names : handles[<<wd, name>>] = 0
    /\ removed' = removed \cup {wd}
    /\ LET own(mask) == [wd |-> wd, name |-> NoName, mask |-> mask, is_dir |-> FALSE]
           last == IF "IN_DELETE_SELF" \in fire_on_masks
                   THEN queued(own("IN_DELETE_SELF"), queue) ELSE queue
       IN  queue' = queued(own("IN_IGNORED"), last)
    /\ UNCHANGED <<handles, deleted, lost>>

\* Listing a watched directory, or a directory in it.
list_directory(wd, name) ==
    /\ \E mask \in {"IN_OPEN", "IN_CLOSE"} : report(wd, name, mask, TRUE)
    /\ UNCHANGED <<handles, deleted>>

environment ==
    \/ \E f \in Files : \/ open_file(f) \/ access_file(f) \/ close_file(f)
                         \/ delete_file(f) \/ rename_file(f)
    \/ \E wd \in Wds :
          \/ remove_directory(wd)
          \/ \E name \in Names \cup {NoName} : list_directory(wd, name)

-----------------------------------------------------------------------------
(* begin_watch                                                              *)

Exits == main' = "exited" /\ UNCHANGED mapVars

\* The checks of the configuration, then event_handling_init, which starts the
\* consumer thread.  It may fail, as inotify_init may.
begin_watch ==
    /\ main = "start"
    /\ \/ Exits
       \/ /\ fire_on # {} /\ watch_dir # <<>> /\ type # {}
          /\ main' = "adding"
          /\ UNCHANGED mapVars
    /\ UNCHANGED <<trackerVars, buff, kernelVars, lost>>

\* One turn of the loop over the directories: directory number dir.
dir == Len(name_map) + 1

\* inotify_add_watch may fail: a directory is gone, or out of watches.
inotify_add_watch(d, wd) == wd \in {WdOf[d], -1}

\* Mutant: off by one.
map_is_full_too_late == Len(name_map) > MAX_WATCH

map_is_full == Len(name_map) >= MAX_WATCH

add_to_map ==
    /\ main = "adding"
    /\ dir <= Len(watch_dir)
    /\ \E wd \in Wds \cup {-1} :
          /\ inotify_add_watch(watch_dir[dir], wd)
          /\ IF wd < 0 \/ map_is_full
             THEN Exits
             ELSE /\ name_map' = Append(name_map,
                        [wd |-> wd, name |-> watch_dir[dir], type |-> type])
                  /\ UNCHANGED <<main, watch_dir>>
    /\ UNCHANGED <<trackerVars, buff, kernelVars, lost>>

end_of_watch_dir ==
    /\ main = "adding"
    /\ dir > Len(watch_dir)
    /\ main' = "watching"
    /\ UNCHANGED <<trackerVars, mapVars, buff, kernelVars, lost>>

-----------------------------------------------------------------------------
(* get_event                                                                *)

\* read: the first events of the queue, as many as fit.
read ==
    /\ main = "watching"
    /\ buff = <<>>
    /\ event = Tracker!NoEvent
    /\ \E len \in 1..Len(queue) :
          /\ len >= BUFF_EVENTS \/ len = Len(queue)
          /\ buff' = SubSeq(queue, 1, len)
          /\ queue' = SubSeq(queue, len + 1, Len(queue))
    /\ UNCHANGED <<trackerVars, main, mapVars, handles, deleted, removed, ops, lost>>

find_in_map(wd, i) ==
    /\ name_map[i].wd = wd
    /\ \A j \in 1..i - 1 : name_map[j].wd # wd

\* Mutant: a deletion is not taken for a close.
event_type_of_close(mask) == IF mask = "IN_CLOSE" THEN "close" ELSE "open"

\* What the mask of an event means to the tracker.
event_type(mask) == IF mask \in close_masks THEN "close" ELSE "open"

\* Mutant: the flag IN_ISDIR is not looked at.
not_for_tracker_without_is_dir(e) ==
    \/ ~watched(e.wd)
    \/ \E i \in DOMAIN name_map :
          /\ find_in_map(e.wd, i)
          /\ \/ e.name # NoName /\ "CONTENT" \notin name_map[i].type
             \/ e.name = NoName /\ "DIR" \notin name_map[i].type

\* The events that the loop passes over with continue.
not_for_tracker(e) ==
    \/ ~watched(e.wd)
    \/ \E i \in DOMAIN name_map :
          /\ find_in_map(e.wd, i)
          /\ \/ e.name # NoName /\ "CONTENT" \notin name_map[i].type
             \/ e.name # NoName /\ e.is_dir
             \/ e.name = NoName /\ "DIR" \notin name_map[i].type

next_in_buff ==
    /\ main = "watching"
    /\ buff # <<>>
    /\ event = Tracker!NoEvent

\* Mutant: the index is only advanced at the end of the loop's body.
skip_event_without_advance ==
    /\ next_in_buff
    /\ not_for_tracker(Head(buff))
    /\ UNCHANGED vars

skip_event ==
    /\ next_in_buff
    /\ not_for_tracker(Head(buff))
    /\ buff' = Tail(buff)
    /\ UNCHANGED <<trackerVars, main, mapVars, kernelVars, lost>>

take_event ==
    /\ next_in_buff
    /\ ~not_for_tracker(Head(buff))
    /\ LET e == Head(buff)
       IN  Tracker!stamp_event(<<e.wd, e.name>>, event_type(e.mask))
    /\ buff' = Tail(buff)
    /\ UNCHANGED <<main, mapVars, kernelVars, lost>>

\* When the tracker fails, get_event returns and the rest of the buffer is
\* never looked at.
add_event ==
    /\ main = "watching"
    /\ \/ /\ Tracker!event_handling_add_event(0)
          /\ UNCHANGED <<buff, lost>>
       \/ /\ Tracker!event_handling_add_event(-1)
          /\ buff' = <<>>
          /\ lost' = TRUE
    /\ UNCHANGED <<main, mapVars, kernelVars>>

get_event == read \/ skip_event \/ take_event \/ add_event

-----------------------------------------------------------------------------

main_thread == begin_watch \/ add_to_map \/ end_of_watch_dir \/ get_event

consumer_thread ==
    /\ main \in {"adding", "watching"}
    /\ Tracker!consumer
    /\ UNCHANGED <<main, mapVars, buff, kernelVars, lost>>

time_passes ==
    /\ main # "exited"
    /\ Tracker!ClockAdvances
    /\ UNCHANGED <<main, mapVars, buff, kernelVars, lost>>

Init ==
    /\ Tracker!Init
    /\ main = "start"
    /\ watch_dir \in WatchDirs
    /\ name_map = <<>>
    /\ buff = <<>>
    /\ queue = <<>>
    /\ handles = [f \in Files |-> 0]
    /\ deleted = {}
    /\ removed = {}
    /\ ops = 0
    /\ lost = FALSE

Next == main_thread \/ consumer_thread \/ time_passes \/ environment

Spec == Init /\ [][Next]_vars

\* The consumer gives the mutex up in every timed wait, which lasts long
\* enough for a main thread that waits for the mutex to get it; commands end.
FairSpec == Spec /\ SF_vars(main_thread) /\ WF_vars(consumer_thread)

-----------------------------------------------------------------------------
(* Safety.                                                                  *)

TypeOK ==
    /\ Tracker!TypeOK
    /\ main \in {"start", "adding", "watching", "exited"}
    /\ watch_dir \in WatchDirs
    /\ name_map \in Seq([wd : Wds, name : Dirs, type : {type}])
    /\ Len(name_map) <= MAX_WATCH
    /\ buff \in Seq(InotifyEvent \cup {Overflow})
    /\ queue \in Seq(InotifyEvent \cup {Overflow})
    /\ handles \in [Files -> 0..MaxHandles]
    /\ deleted \subseteq Files /\ removed \subseteq Wds
    /\ ops \in 0..MaxOps
    /\ lost \in BOOLEAN

isOf(e, f) == e.wd = f[1] /\ e.name = f[2] /\ ~e.is_dir

\* The main thread has stamped an event of file f and not yet added it.
stamped(f) == event # Tracker!NoEvent /\ event.file = f

\* An event of file f is still on its way to the tracker.
pending(f) ==
    \/ \E e \in ToSet(queue) \cup ToSet(buff) : isOf(e, f)
    \/ stamped(f)

Tracked(f) == \E i \in DOMAIN list : list[i].file = f /\ ~list[i].is_closed

\* A file that waits for its open command is open: when none of its events is
\* on its way and none was lost, an entry that is open and whose open command
\* has not run is the entry of a file that some process has open.  The quick
\* closes of get_event and add_event leave no phantom behind.
NoPhantomOpen ==
    ~lost => \A i \in DOMAIN list :
        ~list[i].is_closed /\ ~list[i].has_fired_open /\ ~pending(list[i].file)
            => handles[list[i].file] > 0

Held(f) == handles[f] > 0 /\ f \notin deleted

\* A file that a process has open is tracked, once its events have been gone
\* through and none was lost: with MaxHandles = 1, where each file is open in
\* one process at a time.  watch_it.conf says of OPEN that "this will fire once
\* on starting to read or write"; with MaxHandles = 2 a process that opens and
\* closes the file within min_read_close takes the entry of the other away.
HeldFileIsTracked ==
    ~lost => \A f \in Files : Held(f) /\ ~pending(f) => Tracked(f)

\* Directories never get commands: no event with the flag IN_ISDIR, and none
\* of a watched directory itself, reaches the tracker.
OnlyFilesReachTracker ==
    [][event = Tracker!NoEvent /\ event' # Tracker!NoEvent
        => Head(buff).name # NoName /\ ~Head(buff).is_dir]_vars

-----------------------------------------------------------------------------
(* The inductive invariant.                                                 *)

\* What get_event has still to go through.
inbox == buff \o queue

\* What the next events of the inbox are about has been watched.
InboxInv ==
    /\ \A i \in DOMAIN inbox : inbox[i] # Overflow => watched(inbox[i].wd)
    /\ main \in {"adding", "watching"} => type = {"CONTENT"}

says(e, f, t) == isOf(e, f) /\ event_type(e.mask) = t

coming(f, t) == \E i \in DOMAIN inbox : says(inbox[i], f, t)

\* Of the events of f that are on their way the last is of type t.
lastSays(f, t) ==
    /\ \A i \in DOMAIN inbox : isOf(inbox[i], f) =>
          \E j \in i..Len(inbox) : says(inbox[j], f, t)
    /\ stamped(f) /\ event.event_type # t => coming(f, t)

comes(f, t) == (stamped(f) /\ event.event_type = t) \/ coming(f, t)

WaitsForOpen(f) == \E i \in DOMAIN list :
    list[i].file = f /\ ~list[i].is_closed /\ ~list[i].has_fired_open

\* When its events have been gone through f is closed, or it is open.
willBeClosed(f) == lastSays(f, "close") /\ (WaitsForOpen(f) => comes(f, "close"))
willBeOpen(f)   == lastSays(f, "open") /\ (~Tracked(f) => comes(f, "open"))

PhantomInv ==
    ("CLOSE" \in fire_on /\ ~lost) =>
        \A f \in Files : handles[f] = 0 => willBeClosed(f)

HeldInv ==
    ("OPEN" \in fire_on /\ MaxHandles = 1 /\ ~lost) =>
        \A f \in Files : Held(f) => willBeOpen(f)

IInv == TypeOK /\ Tracker!IInv /\ InboxInv /\ PhantomInv /\ HeldInv

-----------------------------------------------------------------------------
(* Liveness.                                                                *)

\* No event of a file stays in the queue, the buffer or the main thread's
\* hands for ever, however many events of directories come between, unless
\* begin_watch fails after the first watches have been set.
EventsAreHandled ==
    \A f \in Files : pending(f) ~> (~pending(f) \/ main = "exited")

Opened(f) == \E i \in DOMAIN list :
    list[i].file = f /\ list[i].has_fired_open /\ ~list[i].is_closed

Early(f) == \E i \in DOMAIN list :
    list[i].file = f /\ ~Tracker!has_open_past_delay(list[i])

\* From the process that opens a file to its open command: a file that stays
\* open has, in the end, had its open command, or it has not been open for
\* longer than min_read_close yet.  (Open in one process at a time.)
HeldFileIsOpened ==
    \A f \in Files : <>[](Held(f) /\ ~lost /\ main # "exited")
                      => <>[](Opened(f) \/ Early(f))
=============================================================================
