---------------------------- MODULE EventHandling ----------------------------
(***************************************************************************)
(* The event tracker of watch_it (src/src/event_handling.c): the list of   *)
(* files seen open, the producer that reports open and close events to it  *)
(* (the main thread, through event_handling_add_event) and the consumer    *)
(* thread that runs the configured open and close commands.                *)
(*                                                                         *)
(* All of the list is protected by one mutex.  The consumer holds it from  *)
(* the lock, or the return of the timed wait, to the unlock at the end of  *)
(* a pass, and system() runs inside.  A critical section of the producer   *)
(* is one step: only the clock could change meanwhile, and a close, which  *)
(* reads it twice, uses the second reading for a time stamp that is only   *)
(* tested for being there.  A pass of the consumer is one step per clock   *)
(* reading and per command, because time passes and the main thread reads  *)
(* events while a command runs.                                            *)
(*                                                                         *)
(* A file stands for the pair (id, name) that equals_file compares.        *)
(***************************************************************************)
EXTENDS Integers, Sequences, SequencesExt

CONSTANTS
    Files,                  \* watched items: pairs of a watch id and a name
    max_delay_before_fire,  \* min_read_close of the configuration, in ms
    HasOpenCmd,             \* open_command is not the empty string
    HasCloseCmd,            \* close_command is not the empty string
    AllocMayFail,           \* malloc may return NULL
    MsPerSec,               \* 1000
    TicksPerSec,            \* 1000000: what a tick counts for one second
    MaxSec                  \* bound: the last second of the clock

ASSUME ConfigAssumption ==
    /\ max_delay_before_fire \in Nat
    /\ {HasOpenCmd, HasCloseCmd, AllocMayFail} \subseteq BOOLEAN

ASSUME ClockAssumption ==
    /\ MsPerSec \in Nat \ {0}
    /\ TicksPerSec \in Nat
    /\ TicksPerSec >= MsPerSec
    /\ MaxSec \in Nat

VARIABLES
    clock,      \* CLOCK_REALTIME, truncated to milliseconds
    list,       \* file_event_list, oldest entry first
    signaled,   \* the flag of the same name
    event,      \* the event the main thread has stamped and not yet added
    pc,         \* where the consumer thread is
    pos         \* the entry the consumer's loop is at

vars == <<clock, list, signaled, event, pc, pos>>

NoTick  == -1                       \* UINT32_MAX: not a time stamp yet
NoEvent == [event_type |-> "none"]

EventTypes == {"open", "close"}
Clock == [sec : 0..MaxSec, ms : 0..MsPerSec - 1]
Event == [file : Files, event_type : EventTypes, timestamp : Nat]
Entry == [file : Files,
          open_timestamp : Nat, close_timestamp : Nat \cup {NoTick},
          is_closed : BOOLEAN, has_fired_open : BOOLEAN,
          has_fired_closed : BOOLEAN, remove : BOOLEAN]

-----------------------------------------------------------------------------
(* Time. A tick adds milliseconds to seconds times 1000000, so it counts    *)
(* milliseconds within a second and leaps at the end of one. last_tick only *)
(* matters when the clock is set back, which this module leaves out.        *)

event_handling_get_tick == clock.sec * TicksPerSec + clock.ms

\* Mutant: only the milliseconds of the two readings are compared.
calc_open_delta_in_second(e) ==
    IF clock.ms < e.open_timestamp % TicksPerSec
    THEN 0
    ELSE clock.ms - (e.open_timestamp % TicksPerSec)

calc_open_delta(e) ==
    IF event_handling_get_tick < e.open_timestamp
    THEN 0
    ELSE event_handling_get_tick - e.open_timestamp

has_open_past_delay(e) == calc_open_delta(e) > max_delay_before_fire

ClockAdvances ==
    /\ \/ /\ clock.ms + 1 < MsPerSec
          /\ clock' = [clock EXCEPT !.ms = @ + 1]
       \/ /\ clock.ms + 1 = MsPerSec
          /\ clock.sec < MaxSec
          /\ clock' = [sec |-> clock.sec + 1, ms |-> 0]
    /\ UNCHANGED <<list, signaled, event, pc, pos>>

-----------------------------------------------------------------------------
(* The entries of the list.                                                 *)

is_file_open(e)   == ~e.is_closed
is_valid_close(e) == e.close_timestamp # NoTick

init_file(f, timestamp) ==
    [file |-> f, open_timestamp |-> timestamp, close_timestamp |-> NoTick,
     is_closed |-> FALSE, has_fired_open |-> FALSE,
     has_fired_closed |-> FALSE, remove |-> FALSE]

close_file(e, timestamp) ==
    [e EXCEPT !.is_closed = TRUE, !.close_timestamp = timestamp]

\* Mutant: the close time stamp survives.
reset_only_open(e, timestamp) ==
    [e EXCEPT !.is_closed = FALSE, !.open_timestamp = timestamp]

reset_to_open(e, timestamp) ==
    [e EXCEPT !.is_closed = FALSE, !.close_timestamp = NoTick,
              !.open_timestamp = timestamp]

\* Mutant: closed entries are not looked at.
find_in_open_files(f, i) ==
    /\ list[i].file = f
    /\ ~list[i].is_closed

\* find_in_file_list stops at entry i.
find_in_file_list(f, i) ==
    /\ list[i].file = f
    /\ \A j \in 1..i - 1 : list[j].file # f

remove_from_list(i) == RemoveAt(list, i)

-----------------------------------------------------------------------------
(* The producer.                                                            *)

\* get_event fills in an EVENT; the clock is read before the mutex is taken.
stamp_event(f, type) ==
    /\ event = NoEvent
    /\ event' = [file |-> f, event_type |-> type,
                 timestamp |-> event_handling_get_tick]
    /\ UNCHANGED <<clock, list, signaled, pc, pos>>

\* Mutant: a quick close drops the entry even if its open command has run.
add_close_drops_opened(f) ==
    \E i \in DOMAIN list :
        /\ find_in_file_list(f, i)
        /\ list' = IF has_open_past_delay(list[i])
                   THEN [list EXCEPT ![i] = close_file(@, event_handling_get_tick)]
                   ELSE remove_from_list(i)

add_close(f) ==
    \/ \E i \in DOMAIN list :
          /\ find_in_file_list(f, i)
          /\ is_file_open(list[i])
          /\ has_open_past_delay(list[i])
          /\ list' = [list EXCEPT ![i] = close_file(@, event_handling_get_tick)]
    \/ \E i \in DOMAIN list :
          /\ find_in_file_list(f, i)
          /\ is_file_open(list[i])
          /\ ~has_open_past_delay(list[i])
          /\ IF list[i].has_fired_open THEN UNCHANGED list
                                       ELSE list' = remove_from_list(i)
    \/ /\ \A i \in DOMAIN list :
             find_in_file_list(f, i) => ~is_file_open(list[i])
       /\ UNCHANGED list

\* add_new_file, and its result
add_new_file(f, timestamp, res) ==
    \/ /\ res = 0
       /\ list' = Append(list, init_file(f, timestamp))
    \/ /\ res = -1
       /\ AllocMayFail
       /\ UNCHANGED list

add_open(f, timestamp, res) ==
    \/ \E i \in DOMAIN list :
          /\ find_in_file_list(f, i)
          /\ res = 0
          /\ IF is_file_open(list[i])
             THEN UNCHANGED list
             ELSE list' = [list EXCEPT ![i] = reset_to_open(@, timestamp)]
    \/ /\ \A i \in DOMAIN list : ~find_in_file_list(f, i)
       /\ add_new_file(f, timestamp, res)

\* Mutant: the mutex is released around system().
consumer_has_mutex_between_commands == pc \in {"visit", "check_close", "sweep"}

consumer_has_mutex == pc \notin {"lock", "waiting", "woken"}

\* pthread_cond_signal: a consumer in the timed wait is made to return.
signal(state) == IF state = "waiting" THEN "woken" ELSE state

event_handling_add_event(res) ==
    /\ event # NoEvent
    /\ ~consumer_has_mutex
    /\ \/ /\ event.event_type = "close"
          /\ res = 0
          /\ add_close(event.file)
       \/ /\ event.event_type = "open"
          /\ add_open(event.file, event.timestamp, res)
    /\ pc' = signal(pc)
    /\ signaled' = TRUE
    /\ event' = NoEvent
    /\ UNCHANGED <<clock, pos>>

-----------------------------------------------------------------------------
(* The consumer.                                                            *)

cur == list[pos]

begin_pass ==
    /\ signaled' = FALSE
    /\ pc' = "visit"
    /\ pos' = 1
    /\ UNCHANGED <<clock, list, event>>

\* Mutant: signaled is not looked at before the wait.
consumer_lock_and_wait ==
    /\ pc = "lock"
    /\ pc' = "waiting"
    /\ UNCHANGED <<clock, list, signaled, event, pos>>

\* The lock at the top of the loop; without a signal it goes on to wait.
consumer_lock ==
    /\ pc = "lock"
    /\ \/ /\ signaled
          /\ begin_pass
       \/ /\ ~signaled
          /\ pc' = "waiting"
          /\ UNCHANGED <<clock, list, signaled, event, pos>>

\* pthread_cond_timedwait returns: signalled, timed out or spuriously.
wait_for_producer ==
    /\ pc \in {"waiting", "woken"}
    /\ begin_pass

\* Mutant: a file that has been closed meanwhile is passed over.
can_execute_open_if_open(e) ==
    HasOpenCmd /\ ~e.has_fired_open /\ ~e.is_closed

can_execute_open(e) ==
    /\ HasOpenCmd
    /\ ~e.has_fired_open
    /\ ~e.has_fired_closed

visit_open ==
    /\ pc = "visit"
    /\ pos \in DOMAIN list
    /\ pc' = IF /\ ~cur.has_fired_open
                /\ has_open_past_delay(cur)
                /\ can_execute_open(cur)
             THEN "opening"
             ELSE "check_close"
    /\ UNCHANGED <<clock, list, signaled, event, pos>>

\* system(open_cmd) has returned, with whatever result.
execute_open_event ==
    /\ pc = "opening"
    /\ list' = [list EXCEPT ![pos].has_fired_open = TRUE]
    /\ pc' = "check_close"
    /\ UNCHANGED <<clock, signaled, event, pos>>

can_execute_close(e) ==
    /\ HasCloseCmd
    /\ e.has_fired_open
    /\ ~e.has_fired_closed

close_is_due(e) ==
    /\ ~e.has_fired_closed
    /\ is_valid_close(e)
    /\ e.has_fired_open

next_entry ==
    /\ pos' = pos + 1
    /\ pc' = "visit"
    /\ UNCHANGED <<clock, signaled, event>>

visit_close ==
    /\ pc = "check_close"
    /\ \/ /\ close_is_due(cur)
          /\ can_execute_close(cur)
          /\ pc' = "closing"
          /\ UNCHANGED <<clock, list, signaled, event, pos>>
       \/ /\ close_is_due(cur)
          /\ ~can_execute_close(cur)
          /\ list' = [list EXCEPT ![pos].remove = TRUE]
          /\ next_entry
       \/ /\ ~close_is_due(cur)
          /\ UNCHANGED list
          /\ next_entry

\* Mutant: the entry is not marked for removal.
execute_close_keeps_entry ==
    /\ pc = "closing"
    /\ list' = [list EXCEPT ![pos].has_fired_closed = TRUE]
    /\ next_entry

\* system(close_cmd) has returned, with whatever result.
execute_close_event ==
    /\ pc = "closing"
    /\ list' = [list EXCEPT ![pos].has_fired_closed = TRUE,
                            ![pos].remove = TRUE]
    /\ next_entry

end_of_visits ==
    /\ pc = "visit"
    /\ pos \notin DOMAIN list
    /\ pc' = "sweep"
    /\ pos' = 1
    /\ UNCHANGED <<clock, list, signaled, event>>

sweep ==
    /\ pc = "sweep"
    /\ pos \in DOMAIN list
    /\ IF cur.remove THEN list' = remove_from_list(pos) /\ UNCHANGED pos
                     ELSE pos' = pos + 1 /\ UNCHANGED list
    /\ UNCHANGED <<clock, signaled, event, pc>>

consumer_unlock ==
    /\ pc = "sweep"
    /\ pos \notin DOMAIN list
    /\ signaled' = FALSE
    /\ pc' = "lock"
    /\ UNCHANGED <<clock, list, event, pos>>

consumer ==
    \/ consumer_lock \/ wait_for_producer
    \/ visit_open \/ execute_open_event
    \/ visit_close \/ execute_close_event
    \/ end_of_visits \/ sweep \/ consumer_unlock

-----------------------------------------------------------------------------
(* event_handling_init, and the two threads.                                *)

Init ==
    /\ clock \in [sec : {0}, ms : 0..MsPerSec - 1]
    /\ list = <<>>
    /\ signaled = FALSE
    /\ event = NoEvent
    /\ pc = "lock"
    /\ pos = 1

add_some_event == \E res \in {0, -1} : event_handling_add_event(res)

Next ==
    \/ ClockAdvances
    \/ \E f \in Files, type \in EventTypes : stamp_event(f, type)
    \/ add_some_event
    \/ consumer

Spec == Init /\ [][Next]_vars

\* The mutex is granted to a thread that keeps asking for it, a timed wait
\* ends and a command terminates.
Fairness == WF_vars(consumer) /\ WF_vars(add_some_event)

FairSpec == Spec /\ Fairness

-----------------------------------------------------------------------------
(* Safety.                                                                  *)

\* Every variable has its type, and an entry the consumer is working on is
\* in the list.
TypeOK ==
    /\ clock \in Clock
    /\ list \in Seq(Entry)
    /\ signaled \in BOOLEAN
    /\ event \in Event \cup {NoEvent}
    /\ pc \in {"lock", "waiting", "woken", "visit", "opening", "check_close",
              "closing", "sweep"}
    /\ pos \in Nat \ {0}

\* The list holds at most one entry for a file, whatever the order of open
\* and close events and passes: event_handling_add_event only adds an entry
\* after find_in_file_list has found none.
UniqueEntries ==
    \A i, j \in DOMAIN list : list[i].file = list[j].file => i = j

\* The consumer never works on an entry that is not in the list any more
\* (remove_from_list frees it).
CursorValid ==
    pc \in {"opening", "check_close", "closing"} => pos \in DOMAIN list

\* An entry's fields tell one story.  It is closed exactly when it has a
\* close time stamp, which is not before the open one: the warnings of
\* close_file and reset_to_open cannot be logged.  Its close command ran only
\* after its open command, and it is marked for removal only when closed and,
\* if a close command is configured, when that command has run: the errors of
\* execute_open_event and execute_close_event cannot be logged.
EntryConsistent(e) ==
    /\ e.is_closed <=> is_valid_close(e)
    /\ e.is_closed => e.open_timestamp <= e.close_timestamp
    /\ e.has_fired_closed => e.has_fired_open /\ e.remove
    /\ e.remove => e.has_fired_open /\ e.is_closed
    /\ e.remove => (HasCloseCmd <=> e.has_fired_closed)

EntriesConsistent == \A i \in DOMAIN list : EntryConsistent(list[i])

\* A pass clears up what it marked: when the consumer gives the mutex back,
\* no entry that is marked for removal is left, so no event can be matched
\* with an entry whose close command has run.
NoResidue ==
    ~consumer_has_mutex => \A i \in DOMAIN list : ~list[i].remove

\* A consumer that sleeps in the timed wait has no event to look at:
\* signaled covers the events that come between a pass and the wait, and
\* wait_cond those that come during the wait.
NoLostWakeup == pc = "waiting" => ~signaled

\* While a command runs, and until the entry's flags are updated, the entry
\* at the cursor stays where it is and stays the same file's.
SameEntryAtCursor ==
    /\ pos \in DOMAIN list'
    /\ (list')[pos].file = cur.file

EntryStaysUnderCommand ==
    [][(pc \in {"opening", "check_close", "closing"}) => SameEntryAtCursor]_vars

\* The milliseconds of real time that a tick stands for.
RealMs(tick) ==
    (tick \div TicksPerSec) * MsPerSec + (tick % TicksPerSec)

\* The leap of the tick at the end of a second can only make a file look open
\* for longer: no file that has been open for longer than min_read_close is
\* taken for one that has not.
DelayNeverOverstated ==
    \A i \in DOMAIN list :
        RealMs(event_handling_get_tick) - RealMs(list[i].open_timestamp)
            > max_delay_before_fire
        => has_open_past_delay(list[i])

\* What the ends of seconds between two ticks add to the time between them.
Leaps(now, then) ==
    (now \div TicksPerSec - then \div TicksPerSec) * (TicksPerSec - MsPerSec)

\* When an open command runs, its file has been open for longer than
\* min_read_close, but for what the leaps of the tick count for: nothing that
\* the threads do meanwhile takes any more off it.
OnlyLeapsShortenDelay ==
    pc = "opening" =>
        RealMs(event_handling_get_tick) - RealMs(cur.open_timestamp)
            + Leaps(event_handling_get_tick, cur.open_timestamp)
                > max_delay_before_fire

-----------------------------------------------------------------------------
(* The inductive invariant: the invariants above, and what they rest on.    *)

\* No time stamp lies in the future.
TimesArePast ==
    /\ event # NoEvent => event.timestamp <= event_handling_get_tick
    /\ \A i \in DOMAIN list :
          list[i].open_timestamp <= event_handling_get_tick

\* The sweep leaves nothing behind it.
SweptBehind ==
    pc = "sweep" => \A i \in DOMAIN list : i < pos => ~list[i].remove

\* What the consumer has tested before it calls system() still holds when
\* system() returns: nobody else runs or undoes the same command meanwhile.
CommandStillDue ==
    /\ pc = "opening" => can_execute_open(cur)
    /\ pc = "closing" => close_is_due(cur) /\ can_execute_close(cur)

IInv ==
    /\ TypeOK
    /\ TimesArePast
    /\ UniqueEntries
    /\ CursorValid
    /\ EntriesConsistent
    /\ NoResidue
    /\ NoLostWakeup
    /\ SweptBehind
    /\ CommandStillDue

-----------------------------------------------------------------------------
(* What the documentation says and the code does not do.                    *)

\* watch_it.conf: "min_read_close is the minimum time in milliseconds between
\* read and a close event that must elapse before firing an open event".
\* In the code the end of a second counts for 999 seconds.
MinReadCloseElapses ==
    pc = "opening" =>
        RealMs(event_handling_get_tick) - RealMs(cur.open_timestamp)
            >= max_delay_before_fire

HandlesClose(i) ==
    /\ event.event_type = "close"
    /\ event' = NoEvent
    /\ event.file = list[i].file

\* README: close_command is "The command to execute on CLOSE".  A file that is
\* opened again before the consumer has seen its close, and is then closed
\* within min_read_close, stays open in the list.
CloseOfOpenedFileIsKept ==
    [][\A i \in DOMAIN list :
        HandlesClose(i) /\ list[i].has_fired_open => (list')[i].is_closed]_vars

-----------------------------------------------------------------------------
(* The commands alternate: the refinement of CommandCycle.                  *)

running ==
    CASE pc = "opening" -> [kind |-> "open",  file |-> cur.file]
      [] pc = "closing" -> [kind |-> "close", file |-> cur.file]
      [] OTHER          -> [kind |-> "none"]

opened == {list[i].file : i \in {j \in DOMAIN list :
               list[j].has_fired_open /\ ~list[j].remove}}

CC == INSTANCE CommandCycle

\* The tracker runs the commands as CommandCycle allows: strictly alternating
\* for each file, one at a time, and no opened file is forgotten.
ImplementsCommandCycle == CC!Spec

-----------------------------------------------------------------------------
(* Liveness.                                                                *)

Due(f) == \E i \in DOMAIN list :
    /\ list[i].file = f
    /\ ~list[i].has_fired_open
    /\ has_open_past_delay(list[i])

Closed(f) == \E i \in DOMAIN list : list[i].file = f /\ list[i].is_closed

\* A file that has been open for longer than min_read_close gets its open
\* command, unless it is closed and opened again first.  (HasOpenCmd.)
DueFileIsOpened == \A f \in Files : Due(f) ~> ~Due(f)

\* An entry that is closed gets its commands and leaves the list, unless the
\* file is opened again first: the list does not fill up with closed files.
ClosedFileSettles == \A f \in Files : Closed(f) ~> ~Closed(f)

\* README: close_command is "The command to execute on CLOSE".  With an empty
\* open_command has_fired_open is never set and the close command never runs.
ClosedFileGetsCloseCommand ==
    \A f \in Files :
        Closed(f) ~> ~Closed(f) \/ (pc = "closing" /\ cur.file = f)
=============================================================================
