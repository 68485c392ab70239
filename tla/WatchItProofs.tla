---------------------------- MODULE WatchItProofs ----------------------------
(***************************************************************************)
(* The daemon uses the tracker only as the tracker's own module allows, so *)
(* what is proved of EventHandling, for any events in any order, holds in  *)
(* the daemon.  No event of a directory reaches the tracker.  And what     *)
(* becomes of each file when the events on their way have been gone        *)
(* through is what the processes have done to it: the invariant IInv of    *)
(* WatchIt, from which follow NoPhantomOpen and HeldFileIsTracked.         *)
(***************************************************************************)
EXTENDS WatchIt, WellFoundedInduction, TLAPS

\* Nothing but the tracker's own actions touches the tracker.
LEMMA TrackerUntouched ==
    ASSUME UNCHANGED trackerVars
    PROVE  [Tracker!Next]_(Tracker!vars)
BY DEF trackerVars, Tracker!vars

\* The processes around the daemon only reach the kernel's queue.
LEMMA EnvironmentStep ==
    ASSUME environment
    PROVE  UNCHANGED trackerVars
BY DEF environment, open_file, access_file, close_file, delete_file,
   rename_file, remove_directory, list_directory, report, operation

\* begin_watch starts the consumer and touches nothing of it afterwards.
LEMMA BeginWatchStep ==
    ASSUME begin_watch \/ add_to_map \/ end_of_watch_dir
    PROVE  UNCHANGED trackerVars
BY DEF begin_watch, add_to_map, end_of_watch_dir

-----------------------------------------------------------------------------
(* What is in the map, in the queue and in the buffer.                      *)

QueueInv ==
    /\ watch_dir \in WatchDirs
    /\ name_map \in Seq([wd : Wds, name : Dirs, type : {type}])
    /\ buff \in Seq(InotifyEvent \cup {Overflow})
    /\ queue \in Seq(InotifyEvent \cup {Overflow})

\* An event, or an overflow, is put at the end of the queue.
LEMMA QueuedType ==
    ASSUME NEW q \in Seq(InotifyEvent \cup {Overflow}), NEW e \in InotifyEvent
    PROVE  queued(e, q) \in Seq(InotifyEvent \cup {Overflow})
<1> DEFINE U == InotifyEvent \cup {Overflow}
<1>1. e \in U /\ Overflow \in U /\ q \in Seq(U)
  OBVIOUS
<1>2. queued(e, q) \in {q, Append(q, e), Append(q, Overflow)}
  BY DEF queued
<1> HIDE DEF U
<1>3. queued(e, q) \in Seq(U)
  BY <1>1, <1>2
<1> QED
  BY <1>3 DEF U

\* Where a report comes from leaves the map and the buffer alone.
LEMMA OperationFrame ==
    ASSUME NEW wd, operation(wd)
    PROVE  UNCHANGED <<watch_dir, name_map, buff>>
BY DEF operation, mapVars

\* What is reported is an event.
LEMMA ReportKeeps ==
    ASSUME QueueInv, NEW wd \in Wds, NEW name \in Names \cup {NoName},
           NEW mask \in open_masks \cup close_masks, NEW is_dir \in BOOLEAN,
           report(wd, name, mask, is_dir)
    PROVE  QueueInv'
<1> DEFINE e == [wd |-> wd, name |-> name, mask |-> mask, is_dir |-> is_dir]
<1>1. e \in InotifyEvent
  BY DEF InotifyEvent
<1>2. UNCHANGED <<watch_dir, name_map, buff>>
  BY OperationFrame DEF report
<1> HIDE DEF e
<1>3. queue' = queue \/ queue' = queued(e, queue)
  BY DEF report, inotify_queue, e
<1>4. queue \in Seq(InotifyEvent \cup {Overflow})
  BY DEF QueueInv
<1>5. queue' \in Seq(InotifyEvent \cup {Overflow})
  BY <1>1, <1>3, <1>4, QueuedType
<1> QED
  BY <1>2, <1>5 DEF QueueInv

\* The last two events of a directory are events.
LEMMA RemoveDirectoryKeeps ==
    ASSUME QueueInv, NEW wd \in Wds, remove_directory(wd)
    PROVE  QueueInv'
<1> DEFINE own(mask) ==
               [wd |-> wd, name |-> NoName, mask |-> mask, is_dir |-> FALSE]
           self == own("IN_DELETE_SELF")
           ignored == own("IN_IGNORED")
<1>1. self \in InotifyEvent /\ ignored \in InotifyEvent
  BY DEF InotifyEvent, close_masks
<1>2. queue' = queued(ignored, queue) \/ queue' = queued(ignored, queued(self, queue))
  BY DEF remove_directory
<1> HIDE DEF self, ignored
<1>3. queue \in Seq(InotifyEvent \cup {Overflow})
  BY DEF QueueInv
<1>4. queued(self, queue) \in Seq(InotifyEvent \cup {Overflow})
  BY <1>1, <1>3, QueuedType
<1>5. queue' \in Seq(InotifyEvent \cup {Overflow})
  BY <1>1, <1>2, <1>3, <1>4, QueuedType
<1>6. UNCHANGED <<watch_dir, name_map, buff>>
  BY OperationFrame DEF remove_directory
<1> QED
  BY <1>5, <1>6 DEF QueueInv

\* Every event of another process has a mask that inotify knows.
LEMMA EnvironmentKeeps ==
    ASSUME QueueInv, environment
    PROVE  QueueInv'
<1>1. \A f \in Files : f[1] \in Wds /\ f[2] \in Names
  BY DEF Files
<1>2. {"IN_OPEN", "IN_ACCESS", "IN_CLOSE", "IN_DELETE"}
          \subseteq open_masks \cup close_masks
  BY DEF open_masks, close_masks
<1>3. CASE \E f \in Files : open_file(f) \/ access_file(f)
                            \/ close_file(f) \/ delete_file(f)
  <2>1. PICK f \in Files : \E mask \in open_masks \cup close_masks :
                               report(f[1], f[2], mask, FALSE)
    BY <1>2, <1>3 DEF open_file, access_file, close_file, delete_file
  <2> QED
    BY <1>1, <2>1, ReportKeeps
<1>4. CASE \E wd \in Wds, name \in Names \cup {NoName} : list_directory(wd, name)
  <2>1. PICK wd \in Wds, name \in Names \cup {NoName} :
            \E mask \in open_masks \cup close_masks : report(wd, name, mask, TRUE)
    BY <1>2, <1>4 DEF list_directory
  <2> QED
    BY <2>1, ReportKeeps
<1>5. CASE \E f \in Files : rename_file(f)
  <2>1. UNCHANGED <<watch_dir, name_map, buff, queue>>
    BY <1>5, OperationFrame DEF rename_file
  <2> QED
    BY <2>1 DEF QueueInv
<1>6. CASE \E wd \in Wds : remove_directory(wd)
  BY <1>6, RemoveDirectoryKeeps
<1> QED
  BY <1>3, <1>4, <1>5, <1>6 DEF environment

\* Only directories with a watch descriptor get into the map.
LEMMA AddToMapKeeps ==
    ASSUME QueueInv, add_to_map
    PROVE  QueueInv'
<1>1. UNCHANGED <<buff, queue>>
  BY DEF add_to_map, kernelVars
<1>2. CASE Exits
  BY <1>1, <1>2 DEF Exits, mapVars, QueueInv
<1>3. ASSUME NEW wd \in Wds \cup {-1}, ~(wd < 0),
             name_map' = Append(name_map,
                 [wd |-> wd, name |-> watch_dir[dir], type |-> type]),
             UNCHANGED watch_dir
      PROVE  QueueInv'
  <2>1. wd \in Wds
    BY <1>3
  <2>2. watch_dir \in Seq(Dirs) /\ dir \in 1..Len(watch_dir)
    BY WatchItAssumption DEF QueueInv, add_to_map, dir
  <2>3. watch_dir[dir] \in Dirs
    BY <2>2
  <2>4. [wd |-> wd, name |-> watch_dir[dir], type |-> type]
            \in [wd : Wds, name : Dirs, type : {type}]
    BY <2>1, <2>3
  <2>5. name_map' \in Seq([wd : Wds, name : Dirs, type : {type}])
    BY <1>3, <2>4 DEF QueueInv
  <2> QED
    BY <1>1, <1>3, <2>5 DEF QueueInv
<1> QED
  BY <1>2, <1>3 DEF add_to_map

\* All actions.
LEMMA QueueInvStep == QueueInv /\ [Next]_vars => QueueInv'
<1> SUFFICES ASSUME QueueInv, [Next]_vars PROVE QueueInv'
  OBVIOUS
<1>1. CASE environment
  BY <1>1, EnvironmentKeeps
<1>2. CASE add_to_map
  BY <1>2, AddToMapKeeps
<1>3. CASE begin_watch \/ end_of_watch_dir \/ consumer_thread \/ time_passes
           \/ UNCHANGED vars
  <2>1. UNCHANGED <<watch_dir, name_map, buff, queue>>
    BY <1>3 DEF begin_watch, Exits, end_of_watch_dir, consumer_thread,
         time_passes, vars, mapVars, kernelVars
  <2> QED
    BY <2>1 DEF QueueInv
<1>4. CASE read
  <2> DEFINE U == InotifyEvent \cup {Overflow}
  <2>1. PICK len \in 1..Len(queue) :
            /\ buff' = SubSeq(queue, 1, len)
            /\ queue' = SubSeq(queue, len + 1, Len(queue))
    BY <1>4 DEF read
  <2>2. queue \in Seq(U)
    BY DEF QueueInv
  <2> HIDE DEF U
  <2>3. buff' \in Seq(U) /\ queue' \in Seq(U)
    BY <2>1, <2>2
  <2>4. UNCHANGED <<watch_dir, name_map>>
    BY <1>4 DEF read, mapVars
  <2> QED
    BY <2>3, <2>4 DEF QueueInv, U
<1>5. CASE skip_event \/ take_event
  <2>1. buff' = Tail(buff) /\ buff # <<>>
        /\ UNCHANGED <<watch_dir, name_map, queue>>
    BY <1>5 DEF skip_event, take_event, next_in_buff, mapVars, kernelVars
  <2> QED
    BY <2>1 DEF QueueInv
<1>6. CASE add_event
  <2>1. /\ buff' = buff \/ buff' = <<>>
        /\ UNCHANGED <<watch_dir, name_map, queue>>
    BY <1>6 DEF add_event, mapVars, kernelVars
  <2>2. buff' \in Seq(InotifyEvent \cup {Overflow})
    <3> DEFINE U == InotifyEvent \cup {Overflow}
    <3>1. buff \in Seq(U) /\ <<>> \in Seq(U)
      BY DEF QueueInv
    <3> HIDE DEF U
    <3>2. buff' \in Seq(U)
      BY <2>1, <3>1
    <3> QED
      BY <3>2 DEF U
  <2> QED
    BY <2>1, <2>2 DEF QueueInv
<1> QED
  BY <1>1, <1>2, <1>3, <1>4, <1>5, <1>6 DEF Next, main_thread, get_event

\* The map, the buffer and the queue hold what they should.
THEOREM QueueInvariant == Spec => []QueueInv
<1>1. Init => QueueInv
  BY DEF Init, QueueInv
<1> QED
  BY <1>1, QueueInvStep, PTL DEF Spec

-----------------------------------------------------------------------------
(* Which events reach the tracker.                                          *)

\* A set of naturals that is not empty has a least element.
LEMMA LeastOfNat ==
    ASSUME NEW S \in SUBSET Nat, S # {}
    PROVE  \E i \in S : \A j \in S : i <= j
<1> DEFINE less == OpToRel(<, Nat)
<1>1. PICK i \in S : \A j \in S : <<j, i>> \notin less
  BY NatLessThanWellFounded, WFMin
<1>2. \A j \in S : ~(j < i)
  BY <1>1 DEF OpToRel
<1> QED
  BY <1>2

\* find_in_map finds an entry for each watch descriptor in the map.
LEMMA FirstInMap ==
    ASSUME QueueInv, NEW wd, watched(wd)
    PROVE  \E i \in DOMAIN name_map : find_in_map(wd, i)
<1> DEFINE S == {i \in DOMAIN name_map : name_map[i].wd = wd}
<1>1. DOMAIN name_map = 1..Len(name_map) /\ Len(name_map) \in Nat
  BY DEF QueueInv
<1>2. S # {} /\ S \in SUBSET Nat
  BY <1>1 DEF watched
<1>3. PICK i \in S : \A j \in S : i <= j
  BY <1>2, LeastOfNat
<1>4. \A j \in 1..i - 1 : j \in DOMAIN name_map /\ ~(i <= j)
  BY <1>1
<1> QED
  BY <1>3, <1>4 DEF find_in_map

\* The tests of get_event: what they let through is an event of a plain entry
\* of a watched directory.
LEMMA WhatIsNotSkipped ==
    ASSUME QueueInv, NEW e \in InotifyEvent \cup {Overflow}, ~not_for_tracker(e)
    PROVE  e \in InotifyEvent /\ e.name # NoName /\ ~e.is_dir
<1>1. watched(e.wd)
  BY DEF not_for_tracker
<1>2. PICK i \in DOMAIN name_map : find_in_map(e.wd, i)
  BY <1>1, FirstInMap
<1>3. name_map[i].wd \in Wds /\ name_map[i].type = type
  <2> DEFINE W == [wd : Wds, name : Dirs, type : {type}]
  <2>1. name_map \in Seq(W)
    BY DEF QueueInv
  <2> HIDE DEF W
  <2>2. name_map[i] \in W
    BY <2>1
  <2> QED
    BY <2>2 DEF W
<1>4. "DIR" \notin name_map[i].type
  BY <1>3, WatchItAssumption
<1>5. e.name # NoName /\ ~e.is_dir
  BY <1>2, <1>4 DEF not_for_tracker
<1>6. e.wd \in Wds
  BY <1>2, <1>3 DEF find_in_map
<1>7. -1 \notin Wds
  BY DEF Wds
<1> QED
  BY <1>5, <1>6, <1>7 DEF Overflow

\* What take_event stamps.
LEMMA TakenEvent ==
    ASSUME QueueInv, take_event
    PROVE  /\ Head(buff) \in InotifyEvent
           /\ Head(buff).name # NoName /\ ~Head(buff).is_dir
           /\ \E f \in Files, t \in Tracker!EventTypes : Tracker!stamp_event(f, t)
<1> DEFINE e == Head(buff)
<1>1. e \in InotifyEvent \cup {Overflow}
  BY DEF QueueInv, take_event, next_in_buff
<1>2. ~not_for_tracker(e) /\ Tracker!stamp_event(<<e.wd, e.name>>, event_type(e.mask))
  BY DEF take_event
<1>3. e \in InotifyEvent /\ e.name # NoName /\ ~e.is_dir
  BY <1>1, <1>2, WhatIsNotSkipped
<1>4. <<e.wd, e.name>> \in Files
  BY <1>3 DEF InotifyEvent, Files
<1>5. event_type(e.mask) \in Tracker!EventTypes
  BY DEF event_type, Tracker!EventTypes
<1> HIDE DEF e
<1>6. \E f \in Files, t \in Tracker!EventTypes : Tracker!stamp_event(f, t)
  BY <1>2, <1>4, <1>5
<1> QED
  BY <1>3, <1>6 DEF e

\* get_event stamps an event of a watched file and adds it, once.
LEMMA GetEventStep ==
    ASSUME QueueInv, get_event
    PROVE  [Tracker!Next]_(Tracker!vars)
<1>1. CASE read \/ skip_event
  BY <1>1, TrackerUntouched DEF read, skip_event
<1>2. CASE add_event
  BY <1>2 DEF add_event, Tracker!Next, Tracker!add_some_event
<1>3. CASE take_event
  BY <1>3, TakenEvent DEF Tracker!Next
<1> QED
  BY <1>1, <1>2, <1>3 DEF get_event

\* Every step of the daemon is one of the tracker, or leaves it alone.
LEMMA DaemonStepsTracker ==
    QueueInv /\ [Next]_vars => [Tracker!Next]_(Tracker!vars)
<1> SUFFICES ASSUME QueueInv, [Next]_vars PROVE [Tracker!Next]_(Tracker!vars)
  OBVIOUS
<1>1. CASE main_thread
  BY <1>1, BeginWatchStep, TrackerUntouched, GetEventStep DEF main_thread
<1>2. CASE consumer_thread \/ time_passes
  BY <1>2 DEF consumer_thread, time_passes, Tracker!Next
<1>3. CASE environment
  BY <1>3, EnvironmentStep, TrackerUntouched
<1>4. CASE UNCHANGED vars
  BY <1>4, TrackerUntouched DEF vars
<1> QED
  BY <1>1, <1>2, <1>3, <1>4 DEF Next

\* The daemon implements the specification of its tracker.
THEOREM DaemonUsesTracker == Spec => Tracker!Spec
<1>1. Init => Tracker!Init
  BY DEF Init
<1> QED
  BY <1>1, DaemonStepsTracker, QueueInvariant, PTL DEF Spec, Tracker!Spec

\* Directories never get commands: the tracker is only given events that have
\* a name and no flag IN_ISDIR.
THEOREM OnlyFiles == Spec => OnlyFilesReachTracker
<1> DEFINE Stamps == event = Tracker!NoEvent /\ event' # Tracker!NoEvent
           Plain  == Head(buff).name # NoName /\ ~Head(buff).is_dir
<1>1. QueueInv /\ [Next]_vars => [Stamps => Plain]_vars
  <2> SUFFICES ASSUME QueueInv, [Next]_vars, Stamps PROVE Plain
    OBVIOUS
  <2>1. CASE take_event
    BY <2>1, TakenEvent
  <2>2. CASE add_event
    BY <2>2 DEF add_event, Tracker!event_handling_add_event
  <2>3. CASE read \/ skip_event \/ begin_watch \/ add_to_map \/ end_of_watch_dir
             \/ environment \/ UNCHANGED vars
    <3>1. UNCHANGED trackerVars
      BY <2>3, EnvironmentStep, BeginWatchStep DEF read, skip_event, vars
    <3> QED
      BY <3>1 DEF trackerVars
  <2>4. CASE time_passes
    BY <2>4 DEF time_passes, Tracker!ClockAdvances
  <2>5. CASE consumer_thread
    BY <2>5 DEF consumer_thread, Tracker!consumer, Tracker!consumer_lock,
       Tracker!begin_pass, Tracker!wait_for_producer, Tracker!visit_open,
       Tracker!execute_open_event, Tracker!visit_close, Tracker!next_entry,
       Tracker!execute_close_event, Tracker!end_of_visits, Tracker!sweep,
       Tracker!consumer_unlock
  <2> QED
    BY <2>1, <2>2, <2>3, <2>4, <2>5 DEF Next, main_thread, get_event
<1> QED
  BY <1>1, QueueInvariant, PTL DEF Spec, OnlyFilesReachTracker
-----------------------------------------------------------------------------
(* The theorems about the tracker, in the daemon.                           *)

TP == INSTANCE EventHandlingProofs

\* The two instances of the tracker's module are the same tracker.
LEMMA SameRemoveFromList ==
    ASSUME NEW i
    PROVE  Tracker!remove_from_list(i) = TP!remove_from_list(i)
BY DEF Tracker!remove_from_list, TP!remove_from_list,
   Tracker!RemoveAt, TP!RemoveAt

\* The tracker of the daemon starts as the tracker does.
LEMMA SameInit == Tracker!Init => TP!Init
BY DEF Tracker!Init, TP!Init, Tracker!NoEvent, TP!NoEvent

\* Its consumer takes the same steps.
LEMMA SameConsumer == Tracker!consumer => TP!consumer
<1>1. Tracker!consumer_lock => TP!consumer_lock
  BY
     DEF Tracker!consumer_lock, TP!consumer_lock, Tracker!begin_pass,
         TP!begin_pass
<1>2. Tracker!wait_for_producer => TP!wait_for_producer
  BY
     DEF Tracker!wait_for_producer, TP!wait_for_producer,
         Tracker!begin_pass, TP!begin_pass
<1>3. Tracker!visit_open => TP!visit_open
  BY
     DEF Tracker!visit_open, TP!visit_open, Tracker!cur, TP!cur,
         Tracker!can_execute_open, TP!can_execute_open,
         Tracker!event_handling_get_tick, TP!event_handling_get_tick,
         Tracker!calc_open_delta, TP!calc_open_delta,
         Tracker!has_open_past_delay, TP!has_open_past_delay
<1>4. Tracker!execute_open_event => TP!execute_open_event
  BY
     DEF Tracker!execute_open_event, TP!execute_open_event
<1>5. Tracker!visit_close => TP!visit_close
  BY
     DEF Tracker!visit_close, TP!visit_close, Tracker!cur, TP!cur,
         Tracker!close_is_due, TP!close_is_due, Tracker!can_execute_close,
         TP!can_execute_close, Tracker!is_valid_close, TP!is_valid_close,
         Tracker!NoTick, TP!NoTick, Tracker!next_entry, TP!next_entry
<1>6. Tracker!execute_close_event => TP!execute_close_event
  BY
     DEF Tracker!execute_close_event, TP!execute_close_event,
         Tracker!next_entry, TP!next_entry
<1>7. Tracker!end_of_visits => TP!end_of_visits
  BY
     DEF Tracker!end_of_visits, TP!end_of_visits
<1>8. Tracker!sweep => TP!sweep
  BY SameRemoveFromList
     DEF Tracker!sweep, TP!sweep, Tracker!cur, TP!cur
<1>9. Tracker!consumer_unlock => TP!consumer_unlock
  BY
     DEF Tracker!consumer_unlock, TP!consumer_unlock
<1> QED
  BY <1>1, <1>2, <1>3, <1>4, <1>5, <1>6, <1>7, <1>8, <1>9 DEF Tracker!consumer, TP!consumer

\* So does its producer.
LEMMA SameAddEvent == Tracker!add_some_event => TP!add_some_event
<1>1. \A f : Tracker!add_close(f) => TP!add_close(f)
  BY SameRemoveFromList
     DEF Tracker!add_close, TP!add_close, Tracker!close_file, TP!close_file,
         Tracker!find_in_file_list, TP!find_in_file_list,
         Tracker!is_file_open, TP!is_file_open,
         Tracker!event_handling_get_tick, TP!event_handling_get_tick,
         Tracker!calc_open_delta, TP!calc_open_delta,
         Tracker!has_open_past_delay, TP!has_open_past_delay
<1>2. \A f, t, res : Tracker!add_open(f, t, res) => TP!add_open(f, t, res)
  BY
     DEF Tracker!add_open, TP!add_open, Tracker!add_new_file,
         TP!add_new_file, Tracker!init_file, TP!init_file,
         Tracker!reset_to_open, TP!reset_to_open, Tracker!NoTick, TP!NoTick,
         Tracker!find_in_file_list, TP!find_in_file_list,
         Tracker!is_file_open, TP!is_file_open
<1> QED
  BY <1>1, <1>2
     DEF Tracker!add_some_event, TP!add_some_event,
         Tracker!event_handling_add_event, TP!event_handling_add_event,
         Tracker!consumer_has_mutex, TP!consumer_has_mutex, Tracker!signal,
         TP!signal, Tracker!NoEvent, TP!NoEvent

\* And so the whole tracker.
LEMMA SameStep == [Tracker!Next]_(Tracker!vars) => [TP!Next]_(TP!vars)
<1>1. Tracker!ClockAdvances => TP!ClockAdvances
  BY
     DEF Tracker!ClockAdvances, TP!ClockAdvances
<1>2. \A f, t : Tracker!stamp_event(f, t) => TP!stamp_event(f, t)
  BY
     DEF Tracker!stamp_event, TP!stamp_event, Tracker!NoEvent, TP!NoEvent,
         Tracker!event_handling_get_tick, TP!event_handling_get_tick
<1> QED
  BY <1>1, <1>2, SameConsumer, SameAddEvent
     DEF Tracker!Next, TP!Next, Tracker!vars, TP!vars, Tracker!EventTypes,
         TP!EventTypes

\* The invariant of the one is the invariant of the other.
LEMMA SameIInv == Tracker!IInv <=> TP!IInv
<1>1. Tracker!TypeOK <=> TP!TypeOK
  BY
     DEF Tracker!TypeOK, TP!TypeOK, Tracker!Clock, TP!Clock, Tracker!Entry,
         TP!Entry, Tracker!Event, TP!Event, Tracker!EventTypes,
         TP!EventTypes, Tracker!NoEvent, TP!NoEvent, Tracker!NoTick,
         TP!NoTick
<1>2. Tracker!TimesArePast <=> TP!TimesArePast
  BY
     DEF Tracker!TimesArePast, TP!TimesArePast,
         Tracker!event_handling_get_tick, TP!event_handling_get_tick,
         Tracker!NoEvent, TP!NoEvent
<1>3. Tracker!UniqueEntries <=> TP!UniqueEntries
  BY
     DEF Tracker!UniqueEntries, TP!UniqueEntries
<1>4. Tracker!CursorValid <=> TP!CursorValid
  BY
     DEF Tracker!CursorValid, TP!CursorValid
<1>5. Tracker!EntriesConsistent <=> TP!EntriesConsistent
  BY
     DEF Tracker!EntriesConsistent, TP!EntriesConsistent,
         Tracker!EntryConsistent, TP!EntryConsistent,
         Tracker!is_valid_close, TP!is_valid_close, Tracker!NoTick,
         TP!NoTick
<1>6. Tracker!NoResidue <=> TP!NoResidue
  BY
     DEF Tracker!NoResidue, TP!NoResidue, Tracker!consumer_has_mutex,
         TP!consumer_has_mutex
<1>7. Tracker!NoLostWakeup <=> TP!NoLostWakeup
  BY
     DEF Tracker!NoLostWakeup, TP!NoLostWakeup
<1>8. Tracker!SweptBehind <=> TP!SweptBehind
  BY
     DEF Tracker!SweptBehind, TP!SweptBehind
<1>9. Tracker!CommandStillDue <=> TP!CommandStillDue
  BY
     DEF Tracker!CommandStillDue, TP!CommandStillDue, Tracker!cur, TP!cur,
         Tracker!can_execute_open, TP!can_execute_open,
         Tracker!close_is_due, TP!close_is_due, Tracker!can_execute_close,
         TP!can_execute_close, Tracker!is_valid_close, TP!is_valid_close,
         Tracker!NoTick, TP!NoTick
<1> QED
  BY <1>1, <1>2, <1>3, <1>4, <1>5, <1>6, <1>7, <1>8, <1>9 DEF Tracker!IInv, TP!IInv

\* So the tracker's inductive invariant is inductive here too.
LEMMA TrackerInit == Init => Tracker!IInv
BY SameInit, SameIInv, TP!InitIInv, WatchItTrackerAssumption DEF Init

\* Its invariant is kept by the daemon's tracker.
LEMMA TrackerKeeps ==
    Tracker!IInv /\ [Tracker!Next]_(Tracker!vars) => (Tracker!IInv)'
<1>1. TP!IInv /\ [TP!Next]_(TP!vars) => (TP!IInv)'
  BY TP!NextIInv, WatchItTrackerAssumption
<1>2. (Tracker!IInv <=> TP!IInv)'
  BY SameIInv, PTL
<1> QED
  BY <1>1, <1>2, SameIInv, SameStep
-----------------------------------------------------------------------------
(* What the steps of the tracker make of the entries.                       *)

\* Of the tracker's invariant, what the daemon rests on.
TrackerFacts ==
    /\ list \in Seq(Tracker!Entry)
    /\ event \in Tracker!Event \cup {Tracker!NoEvent}
    /\ Tracker!UniqueEntries
    /\ \A i \in DOMAIN list : list[i].remove => list[i].is_closed

\* The part of it that the daemon needs.
LEMMA TrackerFactsHold == Tracker!IInv => TrackerFacts
BY DEF Tracker!IInv, Tracker!TypeOK, Tracker!EntriesConsistent,
   Tracker!EntryConsistent, TrackerFacts

\* The entries of f: none starts to wait for its open command, none ceases to
\* be tracked.
FileKept(f) ==
    /\ WaitsForOpen(f)' => WaitsForOpen(f)
    /\ Tracked(f) => Tracked(f)'

\* remove_from_list keeps every entry but one.
LEMMA RemovedEntry ==
    ASSUME TrackerFacts, NEW i \in DOMAIN list,
           list' = Tracker!remove_from_list(i)
    PROVE  /\ \A j \in DOMAIN list' : \E k \in DOMAIN list :
                  k # i /\ (list')[j] = list[k]
           /\ \A k \in DOMAIN list : k # i =>
                  \E j \in DOMAIN list' : (list')[j] = list[k]
<1> DEFINE r == TP!RemoveAt(list, i)
<1>1. list' = r
  BY SameRemoveFromList DEF TP!remove_from_list
<1>2. list \in Seq(Tracker!Entry) /\ DOMAIN list = 1..Len(list) /\ Len(list) \in Nat
  BY DEF TrackerFacts
<1>3. /\ DOMAIN r = 1..Len(list) - 1
      /\ \A j \in 1..Len(list) - 1 : r[j] = IF j < i THEN list[j] ELSE list[j + 1]
  BY <1>2, TP!RemoveAtProps, WatchItTrackerAssumption
<1> HIDE DEF r
<1>4. ASSUME NEW j \in DOMAIN r
      PROVE  \E k \in DOMAIN list : k # i /\ r[j] = list[k]
  <2>1. CASE j < i
    BY <1>2, <1>3, <2>1
  <2>2. CASE ~(j < i)
    <3>1. j + 1 \in DOMAIN list /\ j + 1 # i /\ r[j] = list[j + 1]
      BY <1>2, <1>3, <2>2
    <3> QED
      BY <3>1
  <2> QED
    BY <2>1, <2>2
<1>5. ASSUME NEW k \in DOMAIN list, k # i
      PROVE  \E j \in DOMAIN r : r[j] = list[k]
  <2>1. CASE k < i
    <3>1. k \in DOMAIN r /\ r[k] = list[k]
      BY <1>2, <1>3, <2>1
    <3> QED
      BY <3>1
  <2>2. CASE k > i
    <3>1. k - 1 \in DOMAIN r /\ r[k - 1] = list[k]
      BY <1>2, <1>3, <2>2
    <3> QED
      BY <3>1
  <2> QED
    BY <1>2, <1>5, <2>1, <2>2
<1> QED
  BY <1>1, <1>4, <1>5

\* The files of other entries are not concerned by a change of one entry.
LEMMA ChangedEntry ==
    ASSUME TrackerFacts, NEW i \in DOMAIN list, NEW e, e.file = list[i].file,
           list' = [list EXCEPT ![i] = e]
    PROVE  \A f : f # list[i].file => FileKept(f)
<1>1. /\ DOMAIN list' = DOMAIN list /\ (list')[i] = e
      /\ \A j \in DOMAIN list : j # i => (list')[j] = list[j]
  BY DEF TrackerFacts
<1> QED
  BY <1>1 DEF FileKept, WaitsForOpen, Tracked

\* An entry that changes and is neither closed nor made to wait.
LEMMA MarkedEntry ==
    ASSUME TrackerFacts, NEW i \in DOMAIN list, NEW e,
           list' = [list EXCEPT ![i] = e],
           e.file = list[i].file, e.is_closed = list[i].is_closed,
           list[i].has_fired_open => e.has_fired_open
    PROVE  \A f : FileKept(f)
<1>1. /\ DOMAIN list' = DOMAIN list /\ (list')[i] = e
      /\ \A j \in DOMAIN list : j # i => (list')[j] = list[j]
  BY DEF TrackerFacts
<1> QED
  BY <1>1 DEF FileKept, WaitsForOpen, Tracked

\* The consumer only takes closed entries off the list.
LEMMA ConsumerKeepsFiles ==
    ASSUME Tracker!IInv, Tracker!consumer
    PROVE  \A f : FileKept(f)
<1>1. TrackerFacts /\ Tracker!CursorValid
  BY TrackerFactsHold DEF Tracker!IInv
<1>2. CASE UNCHANGED list
  BY <1>2 DEF FileKept, WaitsForOpen, Tracked
<1>3. CASE Tracker!execute_open_event
  <2> DEFINE e == [list[pos] EXCEPT !.has_fired_open = TRUE]
  <2>1. pos \in DOMAIN list /\ list[pos] \in Tracker!Entry
    BY <1>1, <1>3 DEF Tracker!execute_open_event, Tracker!CursorValid, TrackerFacts
  <2>2. list' = [list EXCEPT ![pos] = e]
    BY <1>3, <2>1 DEF Tracker!execute_open_event
  <2>3. /\ e.file = list[pos].file /\ e.is_closed = list[pos].is_closed
        /\ e.has_fired_open
    BY <2>1 DEF Tracker!Entry
  <2> HIDE DEF e
  <2> QED
    BY <1>1, <2>1, <2>2, <2>3, MarkedEntry
<1>4. CASE Tracker!visit_close /\ list' # list
  <2> DEFINE e == [list[pos] EXCEPT !.remove = TRUE]
  <2>1. pos \in DOMAIN list /\ list[pos] \in Tracker!Entry
    BY <1>1, <1>4 DEF Tracker!visit_close, Tracker!CursorValid, TrackerFacts
  <2>2. list' = [list EXCEPT ![pos] = e]
    BY <1>4, <2>1 DEF Tracker!visit_close
  <2>3. /\ e.file = list[pos].file /\ e.is_closed = list[pos].is_closed
        /\ e.has_fired_open = list[pos].has_fired_open
    BY <2>1 DEF Tracker!Entry
  <2> HIDE DEF e
  <2> QED
    BY <1>1, <2>1, <2>2, <2>3, MarkedEntry
<1>5. CASE Tracker!execute_close_event
  <2> DEFINE e == [list[pos] EXCEPT !.has_fired_closed = TRUE, !.remove = TRUE]
  <2>1. pos \in DOMAIN list /\ list[pos] \in Tracker!Entry
    BY <1>1, <1>5 DEF Tracker!execute_close_event, Tracker!CursorValid, TrackerFacts
  <2>2. list' = [list EXCEPT ![pos] = e]
    BY <1>5, <2>1 DEF Tracker!execute_close_event
  <2>3. /\ e.file = list[pos].file /\ e.is_closed = list[pos].is_closed
        /\ e.has_fired_open = list[pos].has_fired_open
    BY <2>1 DEF Tracker!Entry
  <2> HIDE DEF e
  <2> QED
    BY <1>1, <2>1, <2>2, <2>3, MarkedEntry
<1>6. CASE Tracker!sweep /\ list' # list
  <2>1. /\ pos \in DOMAIN list /\ list[pos].is_closed
        /\ list' = Tracker!remove_from_list(pos)
    BY <1>1, <1>6 DEF Tracker!sweep, Tracker!cur, TrackerFacts
  <2> QED
    BY <1>1, <2>1, RemovedEntry DEF FileKept, WaitsForOpen, Tracked
<1> QED
  BY <1>2, <1>3, <1>4, <1>5, <1>6
     DEF Tracker!consumer, Tracker!consumer_lock, Tracker!begin_pass,
         Tracker!wait_for_producer, Tracker!visit_open, Tracker!end_of_visits,
         Tracker!consumer_unlock

\* A close leaves no entry that waits for the open command of its file.
LEMMA AddCloseFiles ==
    ASSUME TrackerFacts, NEW f, Tracker!add_close(f)
    PROVE  ~(WaitsForOpen(f)') /\ \A g : g # f => FileKept(g)
<1>1. DOMAIN list = 1..Len(list) /\ Len(list) \in Nat
  BY DEF TrackerFacts
<1>2. ASSUME NEW i \in DOMAIN list, list[i].file = f,
             list' = [list EXCEPT ![i] = Tracker!close_file(@, Tracker!event_handling_get_tick)]
      PROVE  ~(WaitsForOpen(f)') /\ \A g : g # f => FileKept(g)
  <2> DEFINE e == Tracker!close_file(list[i], Tracker!event_handling_get_tick)
  <2>1. list[i] \in Tracker!Entry
    BY DEF TrackerFacts
  <2>2. list' = [list EXCEPT ![i] = e]
    BY <1>2
  <2>3. e.file = list[i].file /\ e.is_closed
    BY <2>1 DEF Tracker!close_file, Tracker!Entry
  <2> HIDE DEF e
  <2>4. \A g : g # f => FileKept(g)
    BY <1>2, <2>2, <2>3, ChangedEntry
  <2>5. /\ DOMAIN list' = DOMAIN list /\ (list')[i] = e
        /\ \A j \in DOMAIN list : j # i => (list')[j] = list[j]
    BY <2>2 DEF TrackerFacts
  <2>6. ~(WaitsForOpen(f)')
    BY <1>2, <2>3, <2>5 DEF WaitsForOpen, TrackerFacts, Tracker!UniqueEntries
  <2> QED
    BY <2>4, <2>6
<1>3. ASSUME NEW i \in DOMAIN list, list[i].file = f,
             list' = Tracker!remove_from_list(i)
      PROVE  ~(WaitsForOpen(f)') /\ \A g : g # f => FileKept(g)
  <2>1. ~(WaitsForOpen(f)')
    BY <1>3, RemovedEntry DEF WaitsForOpen, TrackerFacts, Tracker!UniqueEntries
  <2> QED
    BY <1>3, <2>1, RemovedEntry DEF FileKept, WaitsForOpen, Tracked
<1>4. ASSUME NEW i \in DOMAIN list, list[i].file = f, list[i].has_fired_open,
             UNCHANGED list
      PROVE  ~(WaitsForOpen(f)') /\ \A g : g # f => FileKept(g)
  BY <1>4 DEF FileKept, WaitsForOpen, Tracked, TrackerFacts, Tracker!UniqueEntries
<1>5. CASE (\A i \in DOMAIN list : Tracker!find_in_file_list(f, i)
                => ~Tracker!is_file_open(list[i])) /\ UNCHANGED list
  <2>1. ASSUME NEW i \in DOMAIN list, list[i].file = f
        PROVE  list[i].is_closed
    <3>1. Tracker!find_in_file_list(f, i)
      BY <1>1, <2>1 DEF Tracker!find_in_file_list, TrackerFacts, Tracker!UniqueEntries
    <3> QED
      BY <1>5, <3>1 DEF Tracker!is_file_open
  <2> QED
    BY <1>5, <2>1 DEF FileKept, WaitsForOpen, Tracked
<1> QED
  BY <1>2, <1>3, <1>4, <1>5 DEF Tracker!add_close, Tracker!find_in_file_list

\* An open that is added leaves an open entry of its file.
LEMMA AddOpenFiles ==
    ASSUME TrackerFacts, NEW f, NEW t, Tracker!add_open(f, t, 0)
    PROVE  Tracked(f)' /\ \A g : g # f => FileKept(g)
<1>1. ASSUME NEW i \in DOMAIN list, list[i].file = f, ~list[i].is_closed,
             UNCHANGED list
      PROVE  Tracked(f)' /\ \A g : g # f => FileKept(g)
  BY <1>1 DEF FileKept, WaitsForOpen, Tracked
<1>2. ASSUME NEW i \in DOMAIN list, list[i].file = f,
             list' = [list EXCEPT ![i] = Tracker!reset_to_open(@, t)]
      PROVE  Tracked(f)' /\ \A g : g # f => FileKept(g)
  <2> DEFINE e == Tracker!reset_to_open(list[i], t)
  <2>1. list[i] \in Tracker!Entry
    BY DEF TrackerFacts
  <2>2. list' = [list EXCEPT ![i] = e]
    BY <1>2
  <2>3. e.file = list[i].file /\ ~e.is_closed
    BY <2>1 DEF Tracker!reset_to_open, Tracker!Entry
  <2> HIDE DEF e
  <2>4. \A g : g # f => FileKept(g)
    BY <1>2, <2>2, <2>3, ChangedEntry
  <2>5. DOMAIN list' = DOMAIN list /\ (list')[i] = e
    BY <2>2 DEF TrackerFacts
  <2> QED
    BY <1>2, <2>3, <2>4, <2>5 DEF Tracked
<1>3. ASSUME list' = Append(list, Tracker!init_file(f, t))
      PROVE  Tracked(f)' /\ \A g : g # f => FileKept(g)
  <2> DEFINE e == Tracker!init_file(f, t)
  <2>1. e.file = f /\ ~e.is_closed
    BY DEF Tracker!init_file
  <2>2. list' = Append(list, e)
    BY <1>3
  <2> HIDE DEF e
  <2>3. /\ DOMAIN list = 1..Len(list) /\ DOMAIN list' = 1..Len(list) + 1
        /\ Len(list) \in Nat /\ (list')[Len(list) + 1] = e
        /\ \A j \in DOMAIN list : (list')[j] = list[j]
    BY <2>2 DEF TrackerFacts
  <2>4. Tracked(f)'
    BY <2>1, <2>3 DEF Tracked
  <2>5. \A j \in DOMAIN list' : j \in DOMAIN list \/ (list')[j] = e
    BY <2>3
  <2>6. \A j \in DOMAIN list : j \in DOMAIN list'
    BY <2>3
  <2> QED
    BY <2>1, <2>3, <2>4, <2>5, <2>6 DEF FileKept, WaitsForOpen, Tracked
<1> QED
  BY <1>1, <1>2, <1>3 DEF Tracker!add_open, Tracker!add_new_file,
     Tracker!find_in_file_list, Tracker!is_file_open
-----------------------------------------------------------------------------
(* The inbox: the buffer, and after it the queue.                           *)

Arrivals == InotifyEvent \cup {Overflow}

\* The inbox is what is in the buffer and then what is in the queue.
LEMMA InboxType ==
    ASSUME QueueInv
    PROVE  /\ buff \in Seq(Arrivals) /\ queue \in Seq(Arrivals)
           /\ inbox \in Seq(Arrivals)
           /\ Len(buff) \in Nat /\ Len(queue) \in Nat
           /\ Len(inbox) = Len(buff) + Len(queue)
           /\ DOMAIN inbox = 1..Len(inbox)
           /\ \A i \in 1..Len(buff) : inbox[i] = buff[i]
           /\ \A i \in 1..Len(queue) : inbox[Len(buff) + i] = queue[i]
<1>1. buff \in Seq(Arrivals) /\ queue \in Seq(Arrivals)
  BY DEF QueueInv, Arrivals
<1> QED
  BY <1>1 DEF inbox

\* The same after a step.
LEMMA InboxTypePrime ==
    ASSUME QueueInv'
    PROVE  /\ inbox' \in Seq(Arrivals)
           /\ Len(buff') \in Nat /\ Len(queue') \in Nat
           /\ Len(inbox') = Len(buff') + Len(queue')
           /\ DOMAIN inbox' = 1..Len(inbox')
           /\ \A i \in 1..Len(buff') : inbox'[i] = buff'[i]
           /\ \A i \in 1..Len(queue') : inbox'[Len(buff') + i] = queue'[i]
<1>1. buff' \in Seq(Arrivals) /\ queue' \in Seq(Arrivals)
  BY DEF QueueInv, Arrivals
<1> QED
  BY <1>1 DEF inbox

\* What is coming for a file is pending.
LEMMA ComesIsPending ==
    ASSUME QueueInv, NEW f, NEW t, comes(f, t)
    PROVE  pending(f)
<1>1. CASE stamped(f)
  BY <1>1 DEF pending
<1>2. CASE coming(f, t)
  <2>1. PICK i \in DOMAIN inbox : isOf(inbox[i], f)
    BY <1>2 DEF coming, says
  <2>2. CASE i \in 1..Len(buff)
    <3>1. inbox[i] \in ToSet(buff)
      BY <2>2, InboxType DEF ToSet
    <3> QED
      BY <2>1, <3>1 DEF pending
  <2>3. CASE i \notin 1..Len(buff)
    <3>1. /\ i - Len(buff) \in 1..Len(queue)
          /\ inbox[i] = queue[i - Len(buff)]
      <4>1. i \in 1..Len(buff) + Len(queue) /\ i > Len(buff)
        BY <2>1, <2>3, InboxType
      <4>2. i - Len(buff) \in 1..Len(queue) /\ Len(buff) + (i - Len(buff)) = i
        BY <4>1, InboxType
      <4> QED
        BY <4>2, InboxType
    <3>2. inbox[i] \in ToSet(queue)
      BY <3>1, InboxType DEF ToSet
    <3> QED
      BY <2>1, <3>2 DEF pending
  <2> QED
    BY <2>2, <2>3
<1> QED
  BY <1>1, <1>2 DEF comes

\* r is q with some of the events E behind it.
Longer(q, r, E) ==
    /\ r \in Seq(Arrivals) /\ Len(q) <= Len(r)
    /\ \A i \in 1..Len(q) : r[i] = q[i]
    /\ \A i \in 1..Len(r) : i > Len(q) => r[i] \in E

\* The kernel puts an event, or the overflow, at the end or merges it.
LEMMA QueuedLonger ==
    ASSUME NEW q \in Seq(Arrivals), NEW e \in InotifyEvent,
           NEW E, e \in E, Overflow \in E
    PROVE  Longer(q, queued(e, q), E)
<1>1. e \in Arrivals /\ Overflow \in Arrivals
  BY DEF Arrivals
<1>2. queued(e, q) \in {q, Append(q, e), Append(q, Overflow)}
  BY DEF queued
<1>3. ASSUME NEW x \in Arrivals, x \in E
      PROVE  Longer(q, Append(q, x), E)
  <2>1. /\ Append(q, x) \in Seq(Arrivals) /\ Len(Append(q, x)) = Len(q) + 1
        /\ Len(q) \in Nat /\ Append(q, x)[Len(q) + 1] = x
        /\ \A i \in 1..Len(q) : Append(q, x)[i] = q[i]
    OBVIOUS
  <2>2. \A i \in 1..Len(q) + 1 : i > Len(q) => i = Len(q) + 1
    BY <2>1
  <2> QED
    BY <1>3, <2>1, <2>2 DEF Longer
<1>4. Longer(q, q, E)
  BY DEF Longer
<1> QED
  BY <1>1, <1>2, <1>3, <1>4

\* Events that are queued one after the other.
LEMMA LongerTwice ==
    ASSUME NEW q \in Seq(Arrivals), NEW r, NEW s, NEW E,
           Longer(q, r, E), Longer(r, s, E)
    PROVE  Longer(q, s, E)
<1>1. Len(q) \in Nat /\ Len(r) \in Nat /\ Len(s) \in Nat
  BY DEF Longer
<1> QED
  BY <1>1 DEF Longer

\* What is put behind the queue is put behind the inbox.
LEMMA InboxGrows ==
    ASSUME QueueInv, QueueInv', UNCHANGED buff,
           NEW E, Longer(queue, queue', E)
    PROVE  Longer(inbox, inbox', E)
<1>1. /\ Len(buff) \in Nat /\ Len(queue) \in Nat
      /\ Len(inbox) = Len(buff) + Len(queue)
      /\ \A i \in 1..Len(buff) : inbox[i] = buff[i]
      /\ \A i \in 1..Len(queue) : inbox[Len(buff) + i] = queue[i]
  BY InboxType
<1>2. /\ Len(queue') \in Nat
      /\ Len(inbox') = Len(buff) + Len(queue')
      /\ inbox' \in Seq(Arrivals)
      /\ \A i \in 1..Len(buff) : inbox'[i] = buff[i]
      /\ \A i \in 1..Len(queue') : inbox'[Len(buff) + i] = queue'[i]
  BY InboxTypePrime
<1>3. Len(inbox) <= Len(inbox')
  BY <1>1, <1>2 DEF Longer
<1>4. \A i \in 1..Len(buff) + Len(queue') : i > Len(buff) =>
          i - Len(buff) \in 1..Len(queue') /\ Len(buff) + (i - Len(buff)) = i
  BY <1>1, <1>2
<1>5. ASSUME NEW i \in 1..Len(inbox) PROVE inbox'[i] = inbox[i]
  <2>1. CASE i <= Len(buff)
    BY <1>1, <1>2, <2>1
  <2>2. CASE i > Len(buff)
    <3>1. i - Len(buff) \in 1..Len(queue) /\ Len(buff) + (i - Len(buff)) = i
      BY <1>1, <2>2
    <3>2. i - Len(buff) \in 1..Len(queue')
      BY <1>1, <1>2, <3>1 DEF Longer
    <3> DEFINE j == i - Len(buff)
    <3>3. queue'[j] = queue[j]
      BY <3>1 DEF Longer
    <3>4. inbox[Len(buff) + j] = queue[j]
      BY <1>1, <3>1
    <3>5. inbox'[Len(buff) + j] = queue'[j]
      BY <1>2, <3>2
    <3>6. Len(buff) + j = i
      BY <3>1
    <3> HIDE DEF j
    <3> QED
      BY <3>3, <3>4, <3>5, <3>6
  <2> QED
    BY <1>1, <2>1, <2>2
<1>6. ASSUME NEW i \in 1..Len(inbox'), i > Len(inbox) PROVE inbox'[i] \in E
  <2>1. /\ i - Len(buff) \in 1..Len(queue') /\ i - Len(buff) > Len(queue)
        /\ inbox'[i] = queue'[i - Len(buff)]
    <3>1. i \in 1..Len(buff) + Len(queue') /\ i > Len(buff) + Len(queue)
      BY <1>1, <1>2, <1>6
    <3>2. /\ i - Len(buff) \in 1..Len(queue') /\ i - Len(buff) > Len(queue)
          /\ Len(buff) + (i - Len(buff)) = i
      BY <1>1, <1>2, <3>1
    <3>3. inbox'[Len(buff) + (i - Len(buff))] = queue'[i - Len(buff)]
      BY <1>2, <3>2
    <3> QED
      BY <3>2, <3>3
  <2> QED
    BY <2>1 DEF Longer
<1> QED
  BY <1>2, <1>3, <1>5, <1>6 DEF Longer

\* Nothing that concerns f arrives: all that is known of f stays.
SameNews(f) == \A t : /\ lastSays(f, t) => lastSays(f, t)'
                      /\ comes(f, t) => comes(f, t)'

\* Events of other files are no news of f.
LEMMA NoNews ==
    ASSUME QueueInv, NEW E, Longer(inbox, inbox', E), NEW f,
           \A e \in E : ~isOf(e, f), UNCHANGED event
    PROVE  SameNews(f)
<1>1. /\ DOMAIN inbox = 1..Len(inbox) /\ DOMAIN inbox' = 1..Len(inbox')
      /\ Len(inbox) \in Nat /\ Len(inbox') \in Nat /\ Len(inbox) <= Len(inbox')
      /\ \A i \in 1..Len(inbox) : inbox'[i] = inbox[i]
  BY InboxType DEF Longer
<1>2. \A i \in DOMAIN inbox' : isOf(inbox'[i], f) => i \in DOMAIN inbox
  BY <1>1 DEF Longer
<1>3. ASSUME NEW CONSTANT t PROVE coming(f, t) => coming(f, t)'
  BY <1>1 DEF coming, says
<1>4. ASSUME NEW CONSTANT t, lastSays(f, t) PROVE lastSays(f, t)'
  <2>1. ASSUME NEW i \in DOMAIN inbox', isOf(inbox'[i], f)
        PROVE  \E j \in i..Len(inbox') : says(inbox'[j], f, t)
    <3>1. i \in DOMAIN inbox /\ isOf(inbox[i], f)
      BY <1>1, <1>2, <2>1
    <3>2. PICK j \in i..Len(inbox) : says(inbox[j], f, t)
      BY <1>4, <3>1 DEF lastSays
    <3>3. j \in i..Len(inbox') /\ j \in 1..Len(inbox)
      BY <1>1, <3>1, <3>2
    <3> QED
      BY <1>1, <3>2, <3>3
  <2> QED
    BY <1>3, <1>4, <2>1 DEF lastSays, stamped
<1> QED
  BY <1>3, <1>4 DEF SameNews, comes, stamped

\* An event of f arrives: it is the last, and tells of f what its mask says.
LEMMA News ==
    ASSUME QueueInv', inbox' # <<>>, NEW f, NEW t,
           says(inbox'[Len(inbox')], f, t)
    PROVE  lastSays(f, t)' /\ comes(f, t)'
<1>1. DOMAIN inbox' = 1..Len(inbox') /\ Len(inbox') \in Nat /\ Len(inbox') # 0
  BY InboxTypePrime
<1>2. Len(inbox') \in DOMAIN inbox'
  BY <1>1
<1> QED
  BY <1>1, <1>2 DEF lastSays, comes, coming
\* With the same entries what is to become of the file stays as well.
LEMMA SameFate ==
    ASSUME NEW f, SameNews(f), UNCHANGED list
    PROVE  /\ willBeClosed(f) => willBeClosed(f)'
           /\ willBeOpen(f) => willBeOpen(f)'
BY DEF SameNews, willBeClosed, willBeOpen, WaitsForOpen, Tracked

\* What arrives is of a directory that is watched.
LEMMA ArrivalsAreWatched ==
    ASSUME QueueInv, InboxInv, NEW E, Longer(inbox, inbox', E),
           UNCHANGED <<name_map, main>>,
           \A e \in E : e # Overflow => watched(e.wd)
    PROVE  InboxInv'
<1>1. /\ DOMAIN inbox = 1..Len(inbox) /\ DOMAIN inbox' = 1..Len(inbox')
      /\ Len(inbox) \in Nat /\ Len(inbox') \in Nat
  BY InboxType DEF Longer
<1>2. \A wd : watched(wd)' <=> watched(wd)
  BY DEF watched
<1>3. ASSUME NEW i \in DOMAIN inbox', inbox'[i] # Overflow
      PROVE  watched(inbox'[i].wd)
  <2>1. CASE i <= Len(inbox)
    BY <1>1, <1>3, <2>1 DEF Longer, InboxInv
  <2>2. CASE i > Len(inbox)
    BY <1>1, <1>3, <2>2 DEF Longer
  <2> QED
    BY <1>1, <2>1, <2>2
<1>4. ASSUME NEW i \in DOMAIN inbox', inbox'[i] # Overflow
      PROVE  watched(inbox[i].wd)'
  BY <1>2, <1>3, <1>4 DEF watched
<1> QED
  BY <1>4 DEF InboxInv

\* An event that is not lost is the last of the inbox.
LEMMA QueuedIsLast ==
    ASSUME QueueInv, QueueInv', UNCHANGED buff, NEW e \in InotifyEvent,
           inotify_queue(e), ~(lost')
    PROVE  inbox' # <<>> /\ inbox'[Len(inbox')] = e
<1>1. /\ Len(inbox') = Len(buff') + Len(queue')
      /\ Len(buff') \in Nat /\ Len(queue') \in Nat
      /\ \A i \in 1..Len(queue') : inbox'[Len(buff') + i] = queue'[i]
  BY InboxTypePrime
<1>2. queue \in Seq(Arrivals) /\ e \in Arrivals
  BY InboxType DEF Arrivals
<1>3. Len(queue') # 0 /\ queue'[Len(queue')] = e
  <2>1. CASE merged(e, queue)
    BY <1>2, <2>1 DEF inotify_queue, queued, merged, Last
  <2>2. CASE ~merged(e, queue)
    <3>1. MaxQueued \in Nat
      BY WatchItAssumption
    <3>2. ~(Len(queue) >= MaxQueued)
      BY <2>2, Zenon DEF inotify_queue
    <3>3. queue' = Append(queue, e)
      BY <1>2, <2>2, <3>1, <3>2 DEF inotify_queue, queued
    <3> QED
      BY <1>2, <3>3
  <2> QED
    BY <2>1, <2>2
<1>4. Len(queue') \in 1..Len(queue') /\ Len(inbox') # 0
  BY <1>1, <1>3
<1> QED
  BY <1>1, <1>3, <1>4

\* No event of an overflow or of a directory is one of a file.
LEMMA NotOfFile ==
    ASSUME NEW f \in Files
    PROVE  /\ ~isOf(Overflow, f)
           /\ \A e : e.is_dir \/ e.name = NoName => ~isOf(e, f)
<1>1. f[1] # -1 /\ f[2] # NoName
  BY WatchItAssumption DEF Files, Wds
<1> QED
  BY <1>1 DEF isOf, Overflow

\* A report concerns one file, or none, and is the last that is heard of it.
LEMMA ReportStep ==
    ASSUME QueueInv, QueueInv', InboxInv,
           NEW wd \in Wds, NEW name \in Names \cup {NoName},
           NEW mask \in open_masks \cup close_masks, NEW is_dir \in BOOLEAN,
           report(wd, name, mask, is_dir)
    PROVE  /\ InboxInv' /\ UNCHANGED <<list, event>> /\ (lost => lost')
           /\ \A f \in Files : is_dir \/ f # <<wd, name>> => SameNews(f)
           /\ ~is_dir /\ mask \in fire_on_masks /\ ~(lost') =>
                  /\ lastSays(<<wd, name>>, event_type(mask))'
                  /\ comes(<<wd, name>>, event_type(mask))'
<1> DEFINE e == [wd |-> wd, name |-> name, mask |-> mask, is_dir |-> is_dir]
           E == {e, Overflow}
<1>1. e \in InotifyEvent
  BY DEF InotifyEvent
<1>2. /\ UNCHANGED <<list, event, buff, name_map, main>> /\ watched(wd)
      /\ \/ mask \in fire_on_masks /\ inotify_queue(e)
         \/ mask \notin fire_on_masks /\ UNCHANGED <<queue, lost>>
  BY DEF report, operation, trackerVars, mapVars
<1>3. queue \in Seq(Arrivals)
  BY InboxType
<1>4. e \in E /\ Overflow \in E /\ e.wd = wd
  OBVIOUS
<1>5. \A f \in Files : is_dir \/ f # <<wd, name>> =>
          \A x \in E : ~isOf(x, f)
  <2> SUFFICES ASSUME NEW f \in Files, is_dir \/ f # <<wd, name>>
               PROVE  ~isOf(e, f)
    BY NotOfFile
  <2> QED
    BY DEF isOf, Files
<1>6. \A x \in E : x # Overflow => watched(x.wd)
  BY <1>2
<1> HIDE DEF E
<1>7. Longer(queue, queue', E)
  <2>1. CASE UNCHANGED queue
    BY <1>3, <2>1 DEF Longer
  <2>2. CASE queue' = queued(e, queue)
    <3> HIDE DEF e
    <3> QED
      BY <1>1, <1>3, <1>4, <2>2, QueuedLonger
  <2> QED
    BY <1>2, <2>1, <2>2 DEF inotify_queue
<1>8. Longer(inbox, inbox', E)
  BY <1>2, <1>7, InboxGrows
<1>9. InboxInv'
  BY <1>2, <1>6, <1>8, ArrivalsAreWatched
<1>10. lost => lost'
  BY <1>2 DEF inotify_queue
<1>11. \A f \in Files : is_dir \/ f # <<wd, name>> => SameNews(f)
  BY <1>2, <1>5, <1>8, NoNews
<1>12. ASSUME ~is_dir, mask \in fire_on_masks, ~(lost')
       PROVE  /\ lastSays(<<wd, name>>, event_type(mask))'
              /\ comes(<<wd, name>>, event_type(mask))'
  <2>1. says(e, <<wd, name>>, event_type(mask))
    BY <1>12 DEF says, isOf
  <2> HIDE DEF e
  <2>2. inbox' # <<>> /\ inbox'[Len(inbox')] = e
    BY <1>1, <1>2, <1>12, QueuedIsLast
  <2> QED
    BY <2>1, <2>2, News
<1> QED
  BY <1>2, <1>9, <1>10, <1>11, <1>12
-----------------------------------------------------------------------------
(* The other processes.                                                     *)

DaemonTypes ==
    /\ main \in {"start", "adding", "watching", "exited"}
    /\ Len(name_map) <= MAX_WATCH
    /\ handles \in [Files -> 0..MaxHandles]
    /\ deleted \subseteq Files /\ removed \subseteq Wds
    /\ ops \in 0..MaxOps
    /\ lost \in BOOLEAN

FateInv == InboxInv /\ PhantomInv /\ HeldInv

\* Where nothing is heard of any file and nothing else changes for them.
LEMMA NothingHeard ==
    ASSUME FateInv, InboxInv', lost => lost', UNCHANGED list,
           \A f \in Files : SameNews(f),
           \A f \in Files : ~(lost') => /\ handles'[f] = 0 => handles[f] = 0
                                        /\ Held(f)' => Held(f)
    PROVE  FateInv'
<1>1. PhantomInv'
  BY SameFate DEF FateInv, PhantomInv
<1>2. HeldInv'
  BY SameFate DEF FateInv, HeldInv
<1> QED
  BY <1>1, <1>2 DEF FateInv

\* A report of file f that tells the truth about it.
LEMMA FileReported ==
    ASSUME QueueInv, QueueInv', FateInv, NEW f \in Files,
           NEW mask \in open_masks \cup close_masks,
           report(f[1], f[2], mask, FALSE),
           \A g \in Files : g # f => /\ handles'[g] = handles[g]
                                     /\ g \in deleted' <=> g \in deleted,
           handles'[f] = 0 => mask \in close_masks,
           MaxHandles = 1 /\ Held(f)' => mask \in open_masks
    PROVE  FateInv'
<1>1. f[1] \in Wds /\ f[2] \in Names /\ f = <<f[1], f[2]>>
  BY DEF Files
<1>2. /\ InboxInv' /\ UNCHANGED <<list, event>> /\ (lost => lost')
      /\ \A g \in Files : g # f => SameNews(g)
      /\ mask \in fire_on_masks /\ ~(lost') =>
             lastSays(f, event_type(mask))' /\ comes(f, event_type(mask))'
  BY <1>1, ReportStep DEF FateInv
<1>3. ASSUME "CLOSE" \in fire_on, ~(lost'), NEW g \in Files, handles'[g] = 0
      PROVE  willBeClosed(g)'
  <2>1. CASE g = f
    <3>1. mask \in fire_on_masks /\ event_type(mask) = "close"
      BY <1>3, <2>1 DEF fire_on_masks, event_type
    <3> QED
      BY <1>2, <1>3, <2>1, <3>1 DEF willBeClosed
  <2>2. CASE g # f
    BY <1>2, <1>3, <2>2, SameFate DEF FateInv, PhantomInv
  <2> QED
    BY <2>1, <2>2
<1>4. ASSUME "OPEN" \in fire_on, MaxHandles = 1, ~(lost'), NEW g \in Files, Held(g)'
      PROVE  willBeOpen(g)'
  <2>1. CASE g = f
    <3>1. mask \in fire_on_masks /\ event_type(mask) = "open"
      BY <1>4, <2>1 DEF fire_on_masks, event_type, open_masks, close_masks
    <3> QED
      BY <1>2, <1>4, <2>1, <3>1 DEF willBeOpen
  <2>2. CASE g # f
    BY <1>2, <1>4, <2>2, SameFate DEF FateInv, HeldInv, Held
  <2> QED
    BY <2>1, <2>2
<1>5. PhantomInv' /\ HeldInv'
  BY <1>3, <1>4 DEF PhantomInv, HeldInv
<1> QED
  BY <1>2, <1>5 DEF FateInv

\* What other processes do to a file is what the last event of it says.
LEMMA EnvironmentFate ==
    ASSUME QueueInv, QueueInv', FateInv, DaemonTypes, environment
    PROVE  FateInv'
<1>1. /\ handles \in [Files -> 0..MaxHandles] /\ MaxHandles \in Nat
      /\ deleted \subseteq Files
  BY WatchItAssumption DEF DaemonTypes
<1>2. /\ {"IN_OPEN", "IN_ACCESS"} \subseteq open_masks
      /\ {"IN_CLOSE", "IN_DELETE"} \subseteq close_masks
  BY DEF open_masks, close_masks
<1>3. ASSUME NEW f \in Files, open_file(f) PROVE FateInv'
  <2>1. /\ report(f[1], f[2], "IN_OPEN", FALSE) /\ handles'[f] = handles[f] + 1
        /\ \A g \in Files : g # f => /\ handles'[g] = handles[g]
                                     /\ g \in deleted' <=> g \in deleted
    BY <1>1, <1>3 DEF open_file
  <2>2. handles'[f] # 0
    BY <1>1, <2>1
  <2> QED
    BY <1>2, <2>1, <2>2, FileReported
<1>4. ASSUME NEW f \in Files, access_file(f) PROVE FateInv'
  <2>1. /\ report(f[1], f[2], "IN_ACCESS", FALSE) /\ handles[f] > 0
        /\ UNCHANGED <<handles, deleted>>
    BY <1>4 DEF access_file
  <2>2. handles'[f] # 0
    BY <1>1, <2>1
  <2> QED
    BY <1>2, <2>1, <2>2, FileReported
<1>5. ASSUME NEW f \in Files, close_file(f) PROVE FateInv'
  <2>1. /\ report(f[1], f[2], "IN_CLOSE", FALSE) /\ handles[f] > 0
        /\ handles'[f] = handles[f] - 1 /\ UNCHANGED deleted
        /\ \A g \in Files : g # f => handles'[g] = handles[g]
    BY <1>1, <1>5 DEF close_file
  <2>2. MaxHandles = 1 => handles'[f] = 0
    BY <1>1, <2>1
  <2>3. ~(MaxHandles = 1 /\ Held(f)')
    BY <2>2 DEF Held
  <2> QED
    BY <1>2, <2>1, <2>3, FileReported
<1>6. ASSUME NEW f \in Files, delete_file(f) PROVE FateInv'
  <2>1. /\ report(f[1], f[2], "IN_DELETE", FALSE)
        /\ deleted' = deleted \cup {f} /\ UNCHANGED handles
    BY <1>6 DEF delete_file
  <2>2. ~(Held(f)')
    BY <2>1 DEF Held
  <2> QED
    BY <1>2, <2>1, <2>2, FileReported
<1>7. ASSUME NEW f \in Files, rename_file(f) PROVE FateInv'
  <2>1. /\ UNCHANGED <<list, event, buff, queue, name_map, main>>
        /\ deleted' = deleted \cup {f} /\ handles' = [handles EXCEPT ![f] = 0]
    BY <1>7 DEF rename_file, operation, trackerVars, mapVars
  <2>2. (lost => lost') /\ (~(lost') => ~(handles[f] > 0))
    BY <1>7, Zenon DEF rename_file
  <2>3. \A g \in Files : SameNews(g)
    BY <2>1 DEF SameNews, lastSays, comes, coming, inbox, stamped
  <2>4. InboxInv'
    BY <2>1 DEF FateInv, InboxInv, inbox, watched
  <2>5. ~(lost') => handles[f] = 0
    BY <1>1, <2>2
  <2>6. \A g \in Files : ~(lost') => /\ handles'[g] = 0 => handles[g] = 0
                                     /\ Held(g)' => Held(g)
    BY <1>1, <2>1, <2>5 DEF Held
  <2> QED
    BY <2>1, <2>2, <2>3, <2>4, <2>6, NothingHeard
<1>8. ASSUME NEW wd \in Wds, remove_directory(wd) PROVE FateInv'
  <2> DEFINE own(mask) ==
                 [wd |-> wd, name |-> NoName, mask |-> mask, is_dir |-> FALSE]
             self == own("IN_DELETE_SELF")
             ignored == own("IN_IGNORED")
             E == {self, ignored, Overflow}
  <2>1. self \in InotifyEvent /\ ignored \in InotifyEvent
    BY DEF InotifyEvent, close_masks
  <2>2. queue' = queued(ignored, queue) \/ queue' = queued(ignored, queued(self, queue))
    BY <1>8 DEF remove_directory
  <2>3. /\ UNCHANGED <<list, event, buff, name_map, main, handles, deleted, lost>>
        /\ watched(wd)
    BY <1>8 DEF remove_directory, operation, trackerVars, mapVars
  <2>4. \A e \in E : e # Overflow => watched(e.wd)
    BY <2>3
  <2>5. \A f \in Files : \A e \in E : ~isOf(e, f)
    BY NotOfFile
  <2>6. self \in E /\ ignored \in E /\ Overflow \in E
    OBVIOUS
  <2> HIDE DEF E, self, ignored
  <2>7. queue \in Seq(Arrivals)
    BY InboxType
  <2>8. Longer(queue, queue', E)
    <3>1. CASE queue' = queued(ignored, queue)
      BY <2>1, <2>6, <2>7, <3>1, QueuedLonger
    <3>2. CASE queue' = queued(ignored, queued(self, queue))
      <4>1. Longer(queue, queued(self, queue), E)
        BY <2>1, <2>6, <2>7, QueuedLonger
      <4>2. Longer(queued(self, queue), queue', E)
        BY <2>1, <2>6, <3>2, <4>1, QueuedLonger DEF Longer
      <4> QED
        BY <2>7, <4>1, <4>2, LongerTwice
    <3> QED
      BY <2>2, <3>1, <3>2
  <2>9. Longer(inbox, inbox', E)
    BY <2>3, <2>8, InboxGrows
  <2>10. InboxInv'
    BY <2>3, <2>4, <2>9, ArrivalsAreWatched DEF FateInv
  <2>11. \A f \in Files : SameNews(f)
    BY <2>3, <2>5, <2>9, NoNews
  <2>12. \A f \in Files : Held(f)' => Held(f)
    BY <2>3 DEF Held
  <2> QED
    BY <2>3, <2>10, <2>11, <2>12, NothingHeard
<1>9. ASSUME NEW wd \in Wds, NEW name \in Names \cup {NoName},
             list_directory(wd, name)
      PROVE  FateInv'
  <2>1. PICK mask \in {"IN_OPEN", "IN_CLOSE"} : report(wd, name, mask, TRUE)
    BY <1>9 DEF list_directory
  <2>2. mask \in open_masks \cup close_masks
    BY <1>2
  <2>3. /\ InboxInv' /\ UNCHANGED list /\ (lost => lost')
        /\ \A f \in Files : SameNews(f)
    BY <2>1, <2>2, ReportStep DEF FateInv
  <2>4. UNCHANGED <<handles, deleted>>
    BY <1>9 DEF list_directory
  <2>5. \A f \in Files : Held(f)' => Held(f)
    BY <2>4 DEF Held
  <2> QED
    BY <2>3, <2>4, <2>5, NothingHeard
<1> QED
  BY <1>3, <1>4, <1>5, <1>6, <1>7, <1>8, <1>9 DEF environment
-----------------------------------------------------------------------------
(* The main thread.                                                         *)

\* Where the inbox and the stamped event stay, so does what is known of them.
LEMMA SameInbox ==
    ASSUME UNCHANGED <<buff, queue, event>>
    PROVE  \A f : SameNews(f)
BY DEF SameNews, lastSays, comes, coming, inbox, stamped

\* Setting up the watches.
LEMMA BeginWatchFate ==
    ASSUME QueueInv, QueueInv', FateInv,
           begin_watch \/ add_to_map \/ end_of_watch_dir
    PROVE  FateInv'
<1>1. /\ UNCHANGED <<list, event, buff, queue, handles, deleted, lost>>
      /\ name_map' = name_map \/ (\E x : name_map' = Append(name_map, x))
      /\ main' \in {"adding", "watching"} => type # {} \/ main \in {"adding", "watching"}
  BY DEF begin_watch, add_to_map, end_of_watch_dir, Exits, trackerVars,
     mapVars, kernelVars
<1>2. ASSUME NEW wd, watched(wd) PROVE watched(wd)'
  <2> DEFINE W == [wd : Wds, name : Dirs, type : {type}]
  <2>1. name_map \in Seq(W) /\ name_map' \in Seq(W)
    BY DEF QueueInv
  <2> HIDE DEF W
  <2>2. CASE \E x : name_map' = Append(name_map, x)
    <3>1. PICK x : name_map' = Append(name_map, x)
      BY <2>2
    <3>2. /\ DOMAIN name_map = 1..Len(name_map) /\ Len(name_map) \in Nat
          /\ DOMAIN name_map' = 1..Len(name_map')
      BY <2>1
    <3>3. /\ Len(name_map') = Len(name_map) + 1
          /\ \A i \in 1..Len(name_map) : name_map'[i] = name_map[i]
      BY <2>1, <3>1
    <3>4. \A i \in DOMAIN name_map : i \in DOMAIN name_map' /\ name_map'[i] = name_map[i]
      BY <3>2, <3>3
    <3> QED
      BY <1>2, <3>4 DEF watched
  <2>3. CASE name_map' = name_map
    BY <1>2, <2>3 DEF watched
  <2> QED
    BY <1>1, <2>2, <2>3
<1>3. main' \in {"adding", "watching"} => type = {"CONTENT"}
  BY <1>1, WatchItAssumption DEF FateInv, InboxInv
<1>4. inbox' = inbox
  BY <1>1 DEF inbox
<1>5. ASSUME NEW i \in DOMAIN inbox', inbox'[i] # Overflow
      PROVE  watched(inbox[i].wd)'
  <2>1. watched(inbox[i].wd)
    BY <1>4, <1>5 DEF FateInv, InboxInv
  <2>2. PICK wd : wd = inbox[i].wd
    OBVIOUS
  <2>3. watched(wd)'
    BY <1>2, <2>1, <2>2
  <2> QED
    BY <1>4, <2>2, <2>3 DEF watched
<1>6. InboxInv'
  BY <1>3, <1>5 DEF InboxInv
<1>7. \A f \in Files : Held(f)' => Held(f)
  BY <1>1 DEF Held
<1> QED
  BY <1>1, <1>6, <1>7, SameInbox, NothingHeard

\* read moves events from the queue to the empty buffer.
LEMMA ReadFate ==
    ASSUME QueueInv, FateInv, read
    PROVE  FateInv'
<1>1. PICK len \in 1..Len(queue) :
          /\ buff' = SubSeq(queue, 1, len)
          /\ queue' = SubSeq(queue, len + 1, Len(queue))
  BY DEF read
<1>2. /\ buff = <<>> /\ UNCHANGED <<list, event, name_map, main, handles, deleted, lost>>
  BY DEF read, trackerVars, mapVars
<1>3. queue \in Seq(Arrivals)
  BY InboxType
<1>4. inbox = queue
  BY <1>2, <1>3 DEF inbox
<1>5. SubSeq(queue, 1, len) \o SubSeq(queue, len + 1, Len(queue)) = queue
  BY <1>3
<1>6. inbox' = inbox
  BY <1>1, <1>4, <1>5 DEF inbox
<1>7. \A f : SameNews(f)
  BY <1>2, <1>6 DEF SameNews, lastSays, comes, coming, stamped
<1>8. InboxInv'
  BY <1>2, <1>6 DEF FateInv, InboxInv, watched
<1>9. \A f \in Files : Held(f)' => Held(f)
  BY <1>2 DEF Held
<1> QED
  BY <1>2, <1>7, <1>8, <1>9, NothingHeard

\* The first event leaves the inbox.
FirstLeaves ==
    /\ inbox \in Seq(Arrivals) /\ inbox # <<>> /\ inbox[1] = Head(buff)
    /\ inbox' \in Seq(Arrivals) /\ Len(inbox) = Len(inbox') + 1
    /\ \A i \in 1..Len(inbox') : inbox'[i] = inbox[i + 1]

\* The event that get_event has gone through leaves the inbox.
LEMMA TailOfInbox ==
    ASSUME QueueInv, QueueInv', buff # <<>>, buff' = Tail(buff), UNCHANGED queue
    PROVE  FirstLeaves
<1>1. /\ buff \in Seq(Arrivals) /\ inbox \in Seq(Arrivals)
      /\ Len(buff) \in Nat /\ Len(queue) \in Nat
      /\ Len(inbox) = Len(buff) + Len(queue)
      /\ \A i \in 1..Len(buff) : inbox[i] = buff[i]
      /\ \A i \in 1..Len(queue) : inbox[Len(buff) + i] = queue[i]
  BY InboxType
<1>2. /\ inbox' \in Seq(Arrivals)
      /\ Len(inbox') = Len(buff') + Len(queue)
      /\ \A i \in 1..Len(buff') : inbox'[i] = buff'[i]
      /\ \A i \in 1..Len(queue) : inbox'[Len(buff') + i] = queue[i]
  BY InboxTypePrime
<1>3. /\ Len(buff) # 0 /\ Len(buff') = Len(buff) - 1 /\ Head(buff) = buff[1]
      /\ \A i \in 1..Len(buff') : buff'[i] = buff[i + 1]
  BY <1>1
<1>4. inbox # <<>> /\ inbox[1] = Head(buff) /\ Len(inbox) = Len(inbox') + 1
  BY <1>1, <1>2, <1>3
<1>5. ASSUME NEW i \in 1..Len(inbox') PROVE inbox'[i] = inbox[i + 1]
  <2>1. CASE i <= Len(buff')
    <3>1. i \in 1..Len(buff') /\ i + 1 \in 1..Len(buff)
      BY <1>1, <1>3, <2>1
    <3> QED
      BY <1>1, <1>2, <1>3, <3>1
  <2>2. CASE i > Len(buff')
    <3>1. i - Len(buff') \in 1..Len(queue) /\ Len(buff') + (i - Len(buff')) = i
      BY <1>1, <1>2, <1>3, <2>2
    <3>2. Len(buff) + (i - Len(buff')) = i + 1
      BY <1>1, <1>3, <3>1
    <3>3. inbox'[Len(buff') + (i - Len(buff'))] = queue[i - Len(buff')]
      BY <1>2, <3>1
    <3>4. inbox[Len(buff) + (i - Len(buff'))] = queue[i - Len(buff')]
      BY <1>1, <3>1
    <3> QED
      BY <3>1, <3>2, <3>3, <3>4
  <2> QED
    BY <1>1, <1>2, <1>3, <2>1, <2>2
<1> QED
  BY <1>1, <1>2, <1>4, <1>5 DEF FirstLeaves

\* What comes after the first event is still to come.
LEMMA LaterStays ==
    ASSUME FirstLeaves, NEW f, NEW t, NEW i \in DOMAIN inbox, i # 1,
           says(inbox[i], f, t)
    PROVE  /\ i - 1 \in DOMAIN inbox' /\ says(inbox'[i - 1], f, t)
           /\ coming(f, t)'
<1>1. /\ i - 1 \in DOMAIN inbox' /\ i - 1 \in 1..Len(inbox') /\ (i - 1) + 1 = i
  BY DEF FirstLeaves
<1>2. inbox'[i - 1] = inbox[i]
  BY <1>1 DEF FirstLeaves
<1> QED
  BY <1>1, <1>2 DEF coming

\* The last event of f is still the last one.
LEMMA LastSaysStays ==
    ASSUME FirstLeaves, NEW f, NEW t, lastSays(f, t), NEW i \in DOMAIN inbox',
           isOf(inbox'[i], f)
    PROVE  \E j \in i..Len(inbox') : says(inbox'[j], f, t)
<1>1. /\ i \in 1..Len(inbox') /\ i + 1 \in DOMAIN inbox /\ inbox[i + 1] = inbox'[i]
      /\ DOMAIN inbox = 1..Len(inbox) /\ Len(inbox) \in Nat
      /\ DOMAIN inbox' = 1..Len(inbox') /\ Len(inbox') \in Nat
  BY DEF FirstLeaves
<1>2. PICK j \in i + 1..Len(inbox) : says(inbox[j], f, t)
  BY <1>1 DEF lastSays
<1>3. j \in DOMAIN inbox /\ j # 1 /\ j - 1 \in i..Len(inbox')
  BY <1>1, <1>2 DEF FirstLeaves
<1>4. says(inbox'[j - 1], f, t)
  BY <1>2, <1>3, LaterStays
<1> QED
  BY <1>3, <1>4

\* An event leaves that is not of f.
LEMMA OtherLeaves ==
    ASSUME FirstLeaves, NEW f, ~isOf(Head(buff), f),
           stamped(f)' => (stamped(f) /\ UNCHANGED event),
           stamped(f) => UNCHANGED event
    PROVE  SameNews(f)
<1>1. ASSUME NEW CONSTANT t, coming(f, t) PROVE coming(f, t)'
  <2>1. PICK i \in DOMAIN inbox : says(inbox[i], f, t)
    BY <1>1 DEF coming
  <2>2. i # 1
    BY <2>1 DEF says, FirstLeaves
  <2> QED
    BY <2>1, <2>2, LaterStays
<1>2. ASSUME NEW CONSTANT t, lastSays(f, t) PROVE lastSays(f, t)'
  <2>1. \A i \in DOMAIN inbox' : isOf(inbox'[i], f) =>
            \E j \in i..Len(inbox') : says(inbox'[j], f, t)
    BY <1>2, LastSaysStays
  <2>2. stamped(f)' /\ event'.event_type # t => coming(f, t)'
    BY <1>1, <1>2 DEF lastSays
  <2> QED
    BY <2>1, <2>2 DEF lastSays
<1>3. ASSUME NEW CONSTANT t, comes(f, t) PROVE comes(f, t)'
  BY <1>1, <1>3 DEF comes, stamped
<1> QED
  BY <1>2, <1>3 DEF SameNews

\* The loop takes an event of f to stamp it.
LEMMA OwnLeaves ==
    ASSUME FirstLeaves, NEW f, isOf(Head(buff), f), ~stamped(f), stamped(f)',
           event'.event_type = event_type(Head(buff).mask)
    PROVE  SameNews(f)
<1>1. 1 \in DOMAIN inbox /\ Len(inbox) \in Nat
  BY DEF FirstLeaves
<1>2. ASSUME NEW CONSTANT t, NEW i \in DOMAIN inbox, says(inbox[i], f, t)
      PROVE  event'.event_type = t \/ coming(f, t)'
  <2>1. CASE i = 1
    BY <1>2, <2>1 DEF says, FirstLeaves
  <2>2. CASE i # 1
    BY <1>2, <2>2, LaterStays
  <2> QED
    BY <2>1, <2>2
<1>3. ASSUME NEW CONSTANT t, lastSays(f, t) PROVE lastSays(f, t)'
  <2>1. \A i \in DOMAIN inbox' : isOf(inbox'[i], f) =>
            \E j \in i..Len(inbox') : says(inbox'[j], f, t)
    BY <1>3, LastSaysStays
  <2>2. isOf(inbox[1], f)
    BY DEF FirstLeaves
  <2>3. PICK j \in 1..Len(inbox) : says(inbox[j], f, t)
    BY <1>1, <1>3, <2>2 DEF lastSays
  <2>4. j \in DOMAIN inbox
    BY <1>1 DEF FirstLeaves
  <2>5. event'.event_type # t => coming(f, t)'
    BY <1>2, <2>3, <2>4
  <2> QED
    BY <2>1, <2>5 DEF lastSays
<1>4. ASSUME NEW CONSTANT t, comes(f, t) PROVE comes(f, t)'
  <2>1. PICK i \in DOMAIN inbox : says(inbox[i], f, t)
    BY <1>4 DEF comes, coming
  <2> QED
    BY <1>2, <2>1 DEF comes
<1> QED
  BY <1>3, <1>4 DEF SameNews
\* The others are of directories that are watched.
LEMMA FirstLeavesWatched ==
    ASSUME FirstLeaves, InboxInv, UNCHANGED <<name_map, main>>
    PROVE  InboxInv'
<1>1. ASSUME NEW i \in DOMAIN inbox', inbox'[i] # Overflow
      PROVE  watched(inbox[i].wd)'
  <2>1. i + 1 \in DOMAIN inbox /\ inbox'[i] = inbox[i + 1]
    BY DEF FirstLeaves
  <2> QED
    BY <1>1, <2>1 DEF InboxInv, watched
<1> QED
  BY <1>1 DEF InboxInv

\* The loop passes over no event of a file.
LEMMA SkipFate ==
    ASSUME QueueInv, QueueInv', FateInv, skip_event
    PROVE  FateInv'
<1>1. /\ buff # <<>> /\ buff' = Tail(buff) /\ not_for_tracker(Head(buff))
      /\ UNCHANGED <<list, event, queue, name_map, main, handles, deleted, lost>>
      /\ main = "watching" /\ event = Tracker!NoEvent
  BY DEF skip_event, next_in_buff, trackerVars, mapVars, kernelVars
<1>2. FirstLeaves
  BY <1>1, TailOfInbox
<1>3. ASSUME NEW f \in Files, isOf(Head(buff), f) PROVE FALSE
  <2>1. 1 \in DOMAIN inbox /\ inbox[1] = Head(buff)
    BY <1>2 DEF FirstLeaves
  <2>2. Head(buff) # Overflow
    BY <1>3, NotOfFile
  <2>3. watched(Head(buff).wd)
    BY <2>1, <2>2 DEF FateInv, InboxInv
  <2>4. Head(buff).name # NoName /\ ~Head(buff).is_dir
    BY <1>3, NotOfFile
  <2>5. \A i \in DOMAIN name_map : "CONTENT" \in name_map[i].type
    <3> DEFINE W == [wd : Wds, name : Dirs, type : {type}]
    <3>1. name_map \in Seq(W) /\ type = {"CONTENT"}
      BY <1>1 DEF QueueInv, FateInv, InboxInv
    <3> HIDE DEF W
    <3>2. \A i \in DOMAIN name_map : name_map[i] \in W
      BY <3>1
    <3> QED
      BY <3>1, <3>2 DEF W
  <2> QED
    BY <1>1, <2>3, <2>4, <2>5 DEF not_for_tracker
<1>4. \A f \in Files : SameNews(f)
  <2> SUFFICES ASSUME NEW f \in Files PROVE SameNews(f)
    OBVIOUS
  <2> QED
    BY <1>1, <1>2, <1>3, OtherLeaves DEF stamped
<1>5. InboxInv'
  BY <1>1, <1>2, FirstLeavesWatched DEF FateInv
<1>6. \A f \in Files : Held(f)' => Held(f)
  BY <1>1 DEF Held
<1> QED
  BY <1>1, <1>4, <1>5, <1>6, NothingHeard

\* The loop stamps an event of a file.
LEMMA TakeFate ==
    ASSUME QueueInv, QueueInv', FateInv, take_event
    PROVE  FateInv'
<1> DEFINE e == Head(buff)
           g == <<e.wd, e.name>>
<1>1. /\ buff # <<>> /\ buff' = Tail(buff)
      /\ UNCHANGED <<list, queue, name_map, main, handles, deleted, lost>>
      /\ event = Tracker!NoEvent
      /\ event' = [file |-> g, event_type |-> event_type(e.mask),
                   timestamp |-> Tracker!event_handling_get_tick]
  BY DEF take_event, next_in_buff, Tracker!stamp_event, mapVars, kernelVars
<1>2. FirstLeaves /\ ~e.is_dir
  BY <1>1, TailOfInbox, TakenEvent
<1>3. event'.file = g /\ event'.event_type = event_type(e.mask)
  BY <1>1
<1>4. event' # Tracker!NoEvent
  <2>1. event_type(e.mask) # "none"
    BY DEF event_type
  <2> QED
    BY <1>3, <2>1 DEF Tracker!NoEvent
<1>5. \A f \in Files : SameNews(f)
  <2> SUFFICES ASSUME NEW f \in Files PROVE SameNews(f)
    OBVIOUS
  <2>1. ~stamped(f)
    BY <1>1 DEF stamped
  <2>2. isOf(e, f) <=> g = f
    BY <1>2 DEF isOf, Files
  <2>3. stamped(f)' <=> g = f
    BY <1>3, <1>4 DEF stamped
  <2> HIDE DEF g
  <2>4. CASE g = f
    BY <1>2, <1>3, <2>1, <2>2, <2>3, <2>4, OwnLeaves
  <2>5. CASE g # f
    BY <1>2, <2>1, <2>2, <2>3, <2>5, OtherLeaves
  <2> QED
    BY <2>4, <2>5
<1>6. InboxInv'
  BY <1>1, <1>2, FirstLeavesWatched DEF FateInv
<1>7. \A f \in Files : Held(f)' => Held(f)
  BY <1>1 DEF Held
<1> QED
  BY <1>1, <1>5, <1>6, <1>7, NothingHeard

\* When the tracker fails, events leave the buffer and none comes.
LEMMA LostFate ==
    ASSUME QueueInv, QueueInv', FateInv, lost', buff' \in {buff, <<>>},
           UNCHANGED <<queue, name_map, main>>
    PROVE  FateInv'
<1>1. \A wd : watched(wd)' <=> watched(wd)
  BY DEF watched
<1>2. ASSUME NEW i \in DOMAIN inbox', inbox'[i] # Overflow
      PROVE  watched(inbox'[i].wd)
  <2>1. CASE buff' = buff
    BY <1>2, <2>1 DEF FateInv, InboxInv, inbox
  <2>2. CASE buff' = <<>>
    <3>1. Len(buff') = 0
      BY <2>2
    <3>2. i \in 1..Len(queue)
      BY <1>2, <3>1, InboxTypePrime
    <3>3. inbox'[i] = queue[i]
      <4>1. inbox'[0 + i] = queue[i]
        BY <3>1, <3>2, InboxTypePrime
      <4> QED
        BY <3>2, <4>1
    <3>4. Len(buff) + i \in DOMAIN inbox /\ inbox[Len(buff) + i] = queue[i]
      BY <3>2, InboxType
    <3> QED
      BY <1>2, <3>3, <3>4 DEF FateInv, InboxInv
  <2> QED
    BY <2>1, <2>2
<1>3. ASSUME NEW i \in DOMAIN inbox', inbox'[i] # Overflow
      PROVE  watched(inbox[i].wd)'
  BY <1>1, <1>2, <1>3 DEF watched
<1>4. InboxInv'
  BY <1>3 DEF FateInv, InboxInv
<1> QED
  BY <1>4 DEF FateInv, PhantomInv, HeldInv

\* An event is added to the list, and counts no more as stamped.
LEMMA AddEventFate ==
    ASSUME QueueInv, QueueInv', FateInv, TrackerFacts, add_event
    PROVE  FateInv'
<1>1. CASE lost'
  <2>1. buff' \in {buff, <<>>} /\ UNCHANGED <<queue, name_map, main>>
    BY DEF add_event, mapVars, kernelVars
  <2> QED
    BY <1>1, <2>1, LostFate
<1>2. CASE ~(lost')
  <2>1. /\ Tracker!event_handling_add_event(0)
        /\ UNCHANGED <<buff, queue, name_map, main, handles, deleted, lost>>
    BY <1>2 DEF add_event, mapVars, kernelVars
  <2>2. PICK g, type_of, time : event.file = g /\ event.event_type = type_of
                                /\ event.timestamp = time
    OBVIOUS
  <2>3. /\ event # Tracker!NoEvent /\ event' = Tracker!NoEvent
        /\ \/ type_of = "close" /\ Tracker!add_close(g)
           \/ type_of = "open" /\ Tracker!add_open(g, time, 0)
    BY <2>1, <2>2 DEF Tracker!event_handling_add_event
  <2>4. /\ \A f : f # g => FileKept(f)
        /\ \/ type_of = "close" /\ ~(WaitsForOpen(g)')
           \/ type_of = "open" /\ Tracked(g)'
    BY <2>3, AddCloseFiles, AddOpenFiles
  <2>5. inbox' = inbox
    BY <2>1 DEF inbox
  <2>6. InboxInv'
    BY <2>1, <2>5 DEF FateInv, InboxInv, watched
  <2>7. ASSUME NEW CONSTANT f, NEW CONSTANT t
        PROVE  /\ lastSays(f, t) => lastSays(f, t)'
               /\ coming(f, t) => comes(f, t)'
               /\ f # g => (comes(f, t) => coming(f, t))
               /\ lastSays(g, t) /\ type_of # t => coming(g, t)
    BY <2>2, <2>3, <2>5 DEF lastSays, comes, coming, stamped
  <2>8. ASSUME NEW CONSTANT f, willBeClosed(f) PROVE willBeClosed(f)'
    <3>1. lastSays(f, "close")'
      BY <2>7, <2>8 DEF willBeClosed
    <3>2. CASE f = g
      <4>1. CASE type_of = "close"
        BY <2>4, <3>1, <3>2, <4>1 DEF willBeClosed
      <4>2. CASE type_of = "open"
        BY <2>7, <2>8, <3>1, <3>2, <4>2 DEF willBeClosed
      <4> QED
        BY <2>4, <4>1, <4>2
    <3>3. CASE f # g
      BY <2>4, <2>7, <2>8, <3>1, <3>3 DEF willBeClosed, FileKept
    <3> QED
      BY <3>2, <3>3
  <2>9. ASSUME NEW CONSTANT f, willBeOpen(f) PROVE willBeOpen(f)'
    <3>1. lastSays(f, "open")'
      BY <2>7, <2>9 DEF willBeOpen
    <3>2. CASE f = g
      <4>1. CASE type_of = "open"
        BY <2>4, <3>1, <3>2, <4>1 DEF willBeOpen
      <4>2. CASE type_of = "close"
        BY <2>7, <2>9, <3>1, <3>2, <4>2 DEF willBeOpen
      <4> QED
        BY <2>4, <4>1, <4>2
    <3>3. CASE f # g
      BY <2>4, <2>7, <2>9, <3>1, <3>3 DEF willBeOpen, FileKept
    <3> QED
      BY <3>2, <3>3
  <2>10. PhantomInv'
    BY <2>1, <2>8 DEF FateInv, PhantomInv
  <2>11. HeldInv'
    BY <2>1, <2>9 DEF FateInv, HeldInv, Held
  <2> QED
    BY <2>6, <2>10, <2>11 DEF FateInv
<1> QED
  BY <1>1, <1>2

\* The consumer's passes, and time.
LEMMA ConsumerFate ==
    ASSUME FateInv, \A f : FileKept(f),
           UNCHANGED <<event, main, name_map, buff, queue, handles, deleted, lost>>
    PROVE  FateInv'
<1>1. \A f : SameNews(f)
  BY SameInbox
<1>2. InboxInv'
  BY DEF FateInv, InboxInv, inbox, watched
<1>3. \A f : willBeClosed(f) => willBeClosed(f)'
  BY <1>1 DEF SameNews, FileKept, willBeClosed
<1>4. \A f : willBeOpen(f) => willBeOpen(f)'
  BY <1>1 DEF SameNews, FileKept, willBeOpen
<1> QED
  BY <1>2, <1>3, <1>4 DEF FateInv, PhantomInv, HeldInv, Held

-----------------------------------------------------------------------------
(* The daemon's inductive invariant.                                        *)

\* Files are opened and closed within the bounds of the model.
LEMMA EnvironmentTypes ==
    ASSUME DaemonTypes, environment
    PROVE  DaemonTypes'
<1>1. /\ handles \in [Files -> 0..MaxHandles] /\ MaxHandles \in Nat
      /\ deleted \subseteq Files /\ removed \subseteq Wds
      /\ ops \in 0..MaxOps /\ MaxOps \in Nat /\ lost \in BOOLEAN
  BY WatchItAssumption DEF DaemonTypes
<1>2. ASSUME NEW wd, operation(wd)
      PROVE  UNCHANGED <<main, name_map>> /\ ops' \in 0..MaxOps
  BY <1>1, <1>2 DEF operation, mapVars
<1>3. ASSUME NEW wd, NEW name, NEW mask, NEW is_dir, report(wd, name, mask, is_dir)
      PROVE  /\ UNCHANGED <<main, name_map, removed>> /\ ops' \in 0..MaxOps
             /\ lost' \in BOOLEAN
  <2>1. lost' \in BOOLEAN
    BY <1>1, <1>3, Zenon DEF report, inotify_queue
  <2> QED
    BY <1>2, <1>3, <2>1 DEF report
<1>4. ASSUME NEW f \in Files, open_file(f) PROVE DaemonTypes'
  <2>1. handles' \in [Files -> 0..MaxHandles] /\ deleted' \subseteq Files
    BY <1>1, <1>4 DEF open_file
  <2> QED
    BY <1>1, <1>3, <1>4, <2>1 DEF open_file, DaemonTypes
<1>5. ASSUME NEW f \in Files, access_file(f) PROVE DaemonTypes'
  BY <1>1, <1>3, <1>5 DEF access_file, DaemonTypes
<1>6. ASSUME NEW f \in Files, close_file(f) PROVE DaemonTypes'
  <2>1. handles' \in [Files -> 0..MaxHandles] /\ UNCHANGED deleted
    BY <1>1, <1>6 DEF close_file
  <2> QED
    BY <1>1, <1>3, <1>6, <2>1 DEF close_file, DaemonTypes
<1>7. ASSUME NEW f \in Files, delete_file(f) PROVE DaemonTypes'
  <2>1. UNCHANGED handles /\ deleted' \subseteq Files
    BY <1>1, <1>7 DEF delete_file
  <2> QED
    BY <1>1, <1>3, <1>7, <2>1 DEF delete_file, DaemonTypes
<1>8. ASSUME NEW f \in Files, rename_file(f) PROVE DaemonTypes'
  <2>1. /\ handles' \in [Files -> 0..MaxHandles] /\ deleted' \subseteq Files
        /\ UNCHANGED removed
    BY <1>1, <1>8 DEF rename_file
  <2>2. lost' \in BOOLEAN
    BY <1>8, Zenon DEF rename_file
  <2> QED
    BY <1>1, <1>2, <1>8, <2>1, <2>2 DEF rename_file, DaemonTypes
<1>9. ASSUME NEW wd \in Wds, remove_directory(wd) PROVE DaemonTypes'
  <2>1. UNCHANGED <<handles, deleted, lost>> /\ removed' \subseteq Wds
    BY <1>1, <1>9 DEF remove_directory
  <2> QED
    BY <1>1, <1>2, <1>9, <2>1 DEF remove_directory, DaemonTypes
<1>10. ASSUME NEW wd, NEW name, list_directory(wd, name) PROVE DaemonTypes'
  BY <1>1, <1>3, <1>10 DEF list_directory, DaemonTypes
<1> QED
  BY <1>4, <1>5, <1>6, <1>7, <1>8, <1>9, <1>10 DEF environment

\* The map never outgrows its array.
LEMMA BeginWatchTypes ==
    ASSUME QueueInv, DaemonTypes, begin_watch \/ add_to_map \/ end_of_watch_dir
    PROVE  DaemonTypes'
<1>1. UNCHANGED <<handles, deleted, removed, ops, lost>>
  BY DEF begin_watch, add_to_map, end_of_watch_dir, kernelVars
<1>2. main' \in {"start", "adding", "watching", "exited"}
  BY DEF begin_watch, add_to_map, end_of_watch_dir, Exits, DaemonTypes
<1>3. Len(name_map') <= MAX_WATCH
  <2>1. CASE UNCHANGED name_map
    BY <2>1 DEF DaemonTypes
  <2>2. CASE ~map_is_full /\ \E x : name_map' = Append(name_map, x)
    <3> DEFINE W == [wd : Wds, name : Dirs, type : {type}]
    <3>1. name_map \in Seq(W)
      BY DEF QueueInv
    <3> HIDE DEF W
    <3>2. Len(name_map) \in Nat /\ Len(name_map') = Len(name_map) + 1
      BY <2>2, <3>1
    <3>3. MAX_WATCH \in Nat
      BY WatchItAssumption
    <3> QED
      BY <2>2, <3>2, <3>3 DEF map_is_full
  <2> QED
    BY <2>1, <2>2 DEF begin_watch, add_to_map, end_of_watch_dir, Exits, mapVars
<1> QED
  BY <1>1, <1>2, <1>3 DEF DaemonTypes

DaemonInv == QueueInv /\ DaemonTypes /\ Tracker!IInv /\ FateInv

\* The invariant in the form in which it is proved is the one of the module.
LEMMA DaemonInvIsIInv == DaemonInv <=> IInv
<1>1. QueueInv /\ DaemonTypes <=>
          /\ main \in {"start", "adding", "watching", "exited"}
          /\ watch_dir \in WatchDirs
          /\ name_map \in Seq([wd : Wds, name : Dirs, type : {type}])
          /\ Len(name_map) <= MAX_WATCH
          /\ buff \in Seq(InotifyEvent \cup {Overflow})
          /\ queue \in Seq(InotifyEvent \cup {Overflow})
          /\ handles \in [Files -> 0..MaxHandles]
          /\ deleted \subseteq Files /\ removed \subseteq Wds
          /\ ops \in 0..MaxOps
          /\ lost \in BOOLEAN
  BY DEF QueueInv, DaemonTypes
<1>2. Tracker!IInv => Tracker!TypeOK
  BY DEF Tracker!IInv
<1>3. Tracker!IInv /\ QueueInv /\ DaemonTypes <=> Tracker!IInv /\ TypeOK
  BY <1>1, <1>2, Zenon DEF TypeOK
<1> QED
  BY <1>3, Zenon DEF DaemonInv, FateInv, IInv

\* Before any event there is nothing to come, and no entry.
LEMMA DaemonInit == Init => DaemonInv
<1> SUFFICES ASSUME Init PROVE DaemonInv
  OBVIOUS
<1>1. QueueInv
  BY DEF Init, QueueInv
<1>2. DaemonTypes
  <2>1. 0 <= MAX_WATCH /\ 0 \in 0..MaxHandles /\ 0 \in 0..MaxOps
    BY WatchItAssumption
  <2>2. handles \in [Files -> 0..MaxHandles]
    BY <2>1 DEF Init
  <2>3. name_map = <<>> /\ Len(name_map) <= MAX_WATCH
    BY <2>1 DEF Init
  <2> QED
    BY <2>1, <2>2, <2>3, Zenon DEF Init, DaemonTypes
<1>3. inbox = <<>> /\ DOMAIN inbox = {}
  BY DEF Init, inbox
<1>4. list = <<>> /\ event = Tracker!NoEvent
  BY DEF Init, Tracker!Init
<1>5. InboxInv
  BY <1>3 DEF Init, InboxInv
<1>6. \A f : lastSays(f, "close") /\ ~WaitsForOpen(f)
  BY <1>3, <1>4 DEF lastSays, stamped, WaitsForOpen
<1>7. PhantomInv
  BY <1>6 DEF PhantomInv, willBeClosed
<1>8. HeldInv
  BY DEF Init, HeldInv, Held
<1> QED
  BY <1>1, <1>2, <1>5, <1>7, <1>8, TrackerInit DEF DaemonInv, FateInv

\* The consumer, the clock, and steps of nothing.
LEMMA BackgroundStep ==
    ASSUME DaemonInv, consumer_thread \/ time_passes \/ UNCHANGED vars
    PROVE  DaemonTypes' /\ FateInv'
<1>1. UNCHANGED <<event, main, name_map, buff, queue, handles, deleted, removed, ops, lost>>
  <2>1. CASE consumer_thread
    <3>1. UNCHANGED event
      BY <2>1 DEF consumer_thread, Tracker!consumer, Tracker!consumer_lock,
         Tracker!begin_pass, Tracker!wait_for_producer, Tracker!visit_open,
         Tracker!execute_open_event, Tracker!visit_close, Tracker!next_entry,
         Tracker!execute_close_event, Tracker!end_of_visits, Tracker!sweep,
         Tracker!consumer_unlock
    <3> QED
      BY <2>1, <3>1 DEF consumer_thread, mapVars, kernelVars
  <2>2. CASE time_passes
    BY <2>2 DEF time_passes, Tracker!ClockAdvances, mapVars, kernelVars
  <2>3. CASE UNCHANGED vars
    BY <2>3 DEF vars, trackerVars, mapVars, kernelVars
  <2> QED
    BY <2>1, <2>2, <2>3
<1>2. \A f : FileKept(f)
  <2>1. CASE consumer_thread
    BY <2>1, ConsumerKeepsFiles DEF consumer_thread, DaemonInv
  <2>2. CASE UNCHANGED list
    BY <2>2 DEF FileKept, WaitsForOpen, Tracked
  <2> QED
    BY <2>1, <2>2 DEF time_passes, Tracker!ClockAdvances, vars, trackerVars
<1>3. FateInv'
  BY <1>1, <1>2, ConsumerFate DEF DaemonInv
<1>4. DaemonTypes'
  BY <1>1 DEF DaemonInv, DaemonTypes
<1> QED
  BY <1>3, <1>4

\* The main thread's steps through the events.
LEMMA GetEventTypes ==
    ASSUME DaemonTypes, get_event
    PROVE  DaemonTypes'
<1>1. UNCHANGED <<main, name_map, handles, deleted, removed, ops>>
  BY DEF get_event, read, skip_event, take_event, add_event, mapVars, kernelVars
<1>2. lost' \in {lost, TRUE}
  BY DEF get_event, read, skip_event, take_event, add_event
<1> QED
  BY <1>1, <1>2 DEF DaemonTypes

\* Every step of the daemon keeps it.
LEMMA DaemonStep == DaemonInv /\ [Next]_vars => DaemonInv'
<1> SUFFICES ASSUME DaemonInv, [Next]_vars PROVE DaemonInv'
  OBVIOUS
<1>1. QueueInv /\ QueueInv' /\ DaemonTypes /\ Tracker!IInv /\ FateInv
  BY QueueInvStep DEF DaemonInv
<1>2. (Tracker!IInv)'
  BY <1>1, DaemonStepsTracker, TrackerKeeps
<1>3. CASE environment
  BY <1>1, <1>2, <1>3, EnvironmentTypes, EnvironmentFate DEF DaemonInv
<1>4. CASE begin_watch \/ add_to_map \/ end_of_watch_dir
  BY <1>1, <1>2, <1>4, BeginWatchTypes, BeginWatchFate DEF DaemonInv
<1>5. CASE get_event
  <2>1. DaemonTypes'
    BY <1>1, <1>5, GetEventTypes
  <2>2. FateInv'
    BY <1>1, <1>5, ReadFate, SkipFate, TakeFate, AddEventFate, TrackerFactsHold
       DEF get_event
  <2> QED
    BY <1>1, <1>2, <2>1, <2>2 DEF DaemonInv
<1>6. CASE consumer_thread \/ time_passes \/ UNCHANGED vars
  BY <1>1, <1>2, <1>6, BackgroundStep DEF DaemonInv
<1> QED
  BY <1>3, <1>4, <1>5, <1>6 DEF Next, main_thread

\* The daemon's invariant: its types, the tracker's invariant, and what becomes
\* of each file when the events on its way have been gone through.
THEOREM DaemonInvariant == Spec => []IInv
<1>1. IInv /\ [Next]_vars => IInv'
  <2>1. (DaemonInv <=> IInv)'
    BY DaemonInvIsIInv, PTL
  <2> QED
    BY <2>1, DaemonInvIsIInv, DaemonStep
<1>2. Init => IInv
  BY DaemonInit, DaemonInvIsIInv
<1> QED
  BY <1>1, <1>2, PTL DEF Spec

\* No phantom stays open, whatever get_event and add_event do with quick
\* closes, so long as the configuration asks for closes: without "CLOSE" in
\* fire_on the daemon never hears of any.
THEOREM NoPhantom ==
    ASSUME "CLOSE" \in fire_on
    PROVE  Spec => []NoPhantomOpen
<1>1. IInv => NoPhantomOpen
  <2> SUFFICES ASSUME IInv, ~lost, NEW i \in DOMAIN list,
                      ~list[i].is_closed, ~list[i].has_fired_open,
                      ~pending(list[i].file)
               PROVE  handles[list[i].file] > 0
    BY DEF NoPhantomOpen
  <2>1. DaemonInv
    BY DaemonInvIsIInv
  <2>2. PICK f : f = list[i].file
    OBVIOUS
  <2>3. f \in Files
    <3>1. list[i] \in Tracker!Entry
      BY <2>1, TrackerFactsHold DEF DaemonInv, TrackerFacts
    <3> QED
      BY <2>2, <3>1 DEF Tracker!Entry
  <2>4. WaitsForOpen(f)
    BY <2>2 DEF WaitsForOpen
  <2>5. ~comes(f, "close")
    BY <2>1, <2>2, ComesIsPending DEF DaemonInv
  <2>6. handles[f] # 0
    BY <2>1, <2>3, <2>4, <2>5 DEF DaemonInv, FateInv, PhantomInv, willBeClosed
  <2>7. handles[f] \in Nat
    BY <2>1, <2>3, WatchItAssumption DEF DaemonInv, DaemonTypes
  <2> QED
    BY <2>2, <2>6, <2>7
<1> QED
  BY <1>1, DaemonInvariant, PTL

\* A file that a process holds open is tracked, when fire_on asks for opens and
\* each file is open in one process at a time.
THEOREM HeldTracked ==
    ASSUME "OPEN" \in fire_on, MaxHandles = 1
    PROVE  Spec => []HeldFileIsTracked
<1>1. IInv => HeldFileIsTracked
  <2> SUFFICES ASSUME IInv, ~lost, NEW f \in Files, Held(f), ~pending(f)
               PROVE  Tracked(f)
    BY DEF HeldFileIsTracked
  <2>1. DaemonInv
    BY DaemonInvIsIInv
  <2>2. ~comes(f, "open")
    BY <2>1, ComesIsPending DEF DaemonInv
  <2> QED
    BY <2>1, <2>2 DEF DaemonInv, FateInv, HeldInv, willBeOpen
<1> QED
  BY <1>1, DaemonInvariant, PTL
-----------------------------------------------------------------------------
(* What the tracker promises, in the daemon.                                *)

\* The tracker of the daemon is a tracker, so what is proved of one holds of it.
LEMMA DaemonRunsTracker == Spec => TP!Spec
<1>1. Tracker!Spec => TP!Spec
  BY SameInit, SameStep, PTL DEF Tracker!Spec, TP!Spec
<1> QED
  BY DaemonUsesTracker, <1>1, PTL

\* Whatever the main thread reads, and whatever processes do with the files, the
\* commands of the daemon come as CommandCycle says: for each file the open
\* command and the close command alternate, one at a time, and no file whose
\* open command has run is forgotten.
THEOREM DaemonCommandsAlternate == Spec => TP!ImplementsCommandCycle
<1>1. TP!Spec => TP!ImplementsCommandCycle
  BY TP!CommandsAlternate, WatchItTrackerAssumption
<1> QED
  BY DaemonRunsTracker, <1>1, PTL

\* And they come in time: a file that has been open for longer than
\* min_read_close is never taken for one that has not, and one that gets its
\* open command has been open for that long, but for the ends of seconds.
THEOREM DaemonDelays ==
    Spec => [](TP!DelayNeverOverstated /\ TP!OnlyLeapsShortenDelay)
<1>1. TP!Spec => []TP!DelayNeverOverstated
  BY TP!DelayIsNeverOverstated, WatchItTrackerAssumption
<1>2. TP!Spec => []TP!OnlyLeapsShortenDelay
  BY TP!OnlyLeapsShorten, WatchItTrackerAssumption
<1> QED
  BY DaemonRunsTracker, <1>1, <1>2, PTL
==============================================================================
