------------------------- MODULE EventHandlingProofs -------------------------
(***************************************************************************)
(* Theorems about the event tracker, for every set of files, every         *)
(* configuration and every length of a second.                             *)
(***************************************************************************)
EXTENDS EventHandling, TLAPS

-----------------------------------------------------------------------------
(* Sequences.                                                               *)

\* remove_from_list takes out entry i and moves the later ones up by one.
LEMMA RemoveAtProps ==
    ASSUME NEW S, NEW s \in Seq(S), NEW i \in DOMAIN s
    PROVE  /\ RemoveAt(s, i) \in Seq(S)
           /\ Len(RemoveAt(s, i)) = Len(s) - 1
           /\ DOMAIN RemoveAt(s, i) = 1..Len(s) - 1
           /\ \A j \in 1..Len(s) - 1 :
                  RemoveAt(s, i)[j] = IF j < i THEN s[j] ELSE s[j + 1]
<1>1. i \in 1..Len(s) /\ Len(s) \in Nat
  OBVIOUS
<1> DEFINE a == SubSeq(s, 1, i - 1)
           b == SubSeq(s, i + 1, Len(s))
<1>2. a \in Seq(S) /\ Len(a) = i - 1 /\ \A j \in 1..i - 1 : a[j] = s[j]
  BY <1>1
<1>3. b \in Seq(S) /\ Len(b) = Len(s) - i
      /\ \A j \in 1..Len(s) - i : b[j] = s[i + j]
  BY <1>1
<1>4. RemoveAt(s, i) = a \o b
  BY DEF RemoveAt
<1> HIDE DEF a, b
<1>5. a \o b \in Seq(S) /\ Len(a \o b) = Len(s) - 1
  BY <1>1, <1>2, <1>3
<1>6. \A j \in 1..Len(s) - 1 : (a \o b)[j] = IF j < i THEN s[j] ELSE s[j + 1]
  BY <1>1, <1>2, <1>3, SMTT(20)
<1> QED
  BY <1>1, <1>4, <1>5, <1>6

-----------------------------------------------------------------------------
(* Time.                                                                    *)

\* A tick is a natural number.
LEMMA TickType ==
    ASSUME clock \in Clock
    PROVE  event_handling_get_tick \in Nat
BY ClockAssumption DEF event_handling_get_tick, Clock

\* And so is the next one.
LEMMA TickTypePrime ==
    ASSUME clock' \in Clock
    PROVE  event_handling_get_tick' \in Nat
BY ClockAssumption DEF event_handling_get_tick, Clock

\* Time passes without a step back, at the end of a second too: a second
\* counts for at least as many ticks as it has milliseconds.
LEMMA TickMonotone ==
    ASSUME clock \in Clock, ClockAdvances
    PROVE  /\ clock' \in Clock
           /\ event_handling_get_tick <= event_handling_get_tick'
<1>1. /\ clock.sec \in Nat /\ clock.ms \in Nat /\ clock.ms < MsPerSec
      /\ MsPerSec \in Nat /\ TicksPerSec \in Nat /\ MsPerSec <= TicksPerSec
  BY ClockAssumption DEF Clock
<1>2. CASE clock.ms + 1 < MsPerSec /\ clock' = [clock EXCEPT !.ms = @ + 1]
  <2>1. clock' \in Clock /\ clock'.sec = clock.sec /\ clock'.ms = clock.ms + 1
    BY <1>1, <1>2, ClockAssumption DEF Clock
  <2>2. clock.sec * TicksPerSec \in Nat
    BY <1>1
  <2> QED
    BY <1>1, <2>1, <2>2 DEF event_handling_get_tick
<1>3. CASE clock.sec < MaxSec /\ clock' = [sec |-> clock.sec + 1, ms |-> 0]
  <2>1. clock' \in Clock /\ clock'.sec = clock.sec + 1 /\ clock'.ms = 0
    BY <1>1, <1>3, ClockAssumption DEF Clock
  <2>2. (clock.sec + 1) * TicksPerSec = clock.sec * TicksPerSec + TicksPerSec
    BY <1>1
  <2>3. clock.sec * TicksPerSec \in Nat
    BY <1>1
  <2>4. event_handling_get_tick' = (clock.sec + 1) * TicksPerSec + 0
    BY <2>1 DEF event_handling_get_tick
  <2>5. event_handling_get_tick' = clock.sec * TicksPerSec + TicksPerSec
    BY <1>1, <2>2, <2>3, <2>4
  <2> QED
    BY <1>1, <2>1, <2>3, <2>5 DEF event_handling_get_tick
<1> QED
  BY <1>2, <1>3 DEF ClockAdvances

-----------------------------------------------------------------------------
(* What holds of the list whoever has the mutex, and the three ways in      *)
(* which the list changes.                                                  *)

ListInv ==
    /\ list \in Seq(Entry)
    /\ UniqueEntries
    /\ EntriesConsistent
    /\ \A i \in DOMAIN list :
          list[i].open_timestamp <= event_handling_get_tick

NoMarks == \A i \in DOMAIN list : ~list[i].remove

\* What is known of each entry.
LEMMA EntryAt ==
    ASSUME ListInv, NEW i \in DOMAIN list
    PROVE  list[i] \in Entry /\ list[i].file \in Files /\ EntryConsistent(list[i])
<1>1. list[i] \in Entry
  BY DEF ListInv
<1> QED
  BY <1>1 DEF Entry, ListInv, EntriesConsistent

\* An entry is deleted.
LEMMA RemovePreserves ==
    ASSUME ListInv, NEW i \in DOMAIN list,
           list' = remove_from_list(i), UNCHANGED clock
    PROVE  /\ ListInv'
           /\ Len(list') = Len(list) - 1
           /\ \A j \in DOMAIN list' :
                  (list')[j] = IF j < i THEN list[j] ELSE list[j + 1]
<1>1. list \in Seq(Entry)
  BY DEF ListInv
<1>2. /\ list' \in Seq(Entry)
      /\ Len(list') = Len(list) - 1
      /\ DOMAIN list' = 1..Len(list) - 1
      /\ \A j \in DOMAIN list' :
             (list')[j] = IF j < i THEN list[j] ELSE list[j + 1]
  BY <1>1, RemoveAtProps DEF remove_from_list
<1>3. DOMAIN list = 1..Len(list) /\ Len(list) \in Nat
  BY <1>1
<1>4. \A j \in DOMAIN list' : j \in DOMAIN list /\ j + 1 \in DOMAIN list
  BY <1>2, <1>3
<1>5. UniqueEntries'
  BY <1>2, <1>3, <1>4 DEF ListInv, UniqueEntries
<1>6. EntriesConsistent'
  BY <1>2, <1>4 DEF ListInv, EntriesConsistent, EntryConsistent, is_valid_close
<1>7. event_handling_get_tick' = event_handling_get_tick
  BY DEF event_handling_get_tick
<1>8. \A j \in DOMAIN list' :
          (list')[j].open_timestamp <= event_handling_get_tick'
  BY <1>2, <1>4, <1>7 DEF ListInv
<1> QED
  BY <1>2, <1>5, <1>6, <1>8 DEF ListInv

\* An entry is replaced by one of the same file.
LEMMA UpdatePreserves ==
    ASSUME ListInv, NEW i \in DOMAIN list, NEW e \in Entry,
           list' = [list EXCEPT ![i] = e], UNCHANGED clock,
           e.file = list[i].file, EntryConsistent(e),
           e.open_timestamp <= event_handling_get_tick
    PROVE  /\ ListInv'
           /\ DOMAIN list' = DOMAIN list
           /\ (list')[i] = e
           /\ \A j \in DOMAIN list : j # i => (list')[j] = list[j]
<1>1. list \in Seq(Entry)
  BY DEF ListInv
<1>2. /\ list' \in Seq(Entry)
      /\ DOMAIN list' = DOMAIN list
      /\ (list')[i] = e
      /\ \A j \in DOMAIN list : j # i => (list')[j] = list[j]
  BY <1>1
<1>3. \A j \in DOMAIN list' : (list')[j].file = list[j].file
  BY <1>2
<1>4. UniqueEntries'
  BY <1>2, <1>3 DEF ListInv, UniqueEntries
<1>5. EntriesConsistent'
  BY <1>2 DEF ListInv, EntriesConsistent, EntryConsistent, is_valid_close
<1>6. event_handling_get_tick' = event_handling_get_tick
  BY DEF event_handling_get_tick
<1>7. \A j \in DOMAIN list' :
          (list')[j].open_timestamp <= event_handling_get_tick'
  BY <1>2, <1>6 DEF ListInv
<1> QED
  BY <1>2, <1>4, <1>5, <1>7 DEF ListInv

\* An entry of a file that has none is added at the end.
LEMMA AppendPreserves ==
    ASSUME ListInv, NEW e \in Entry,
           list' = Append(list, e), UNCHANGED clock,
           \A j \in DOMAIN list : list[j].file # e.file, EntryConsistent(e),
           e.open_timestamp <= event_handling_get_tick
    PROVE  /\ ListInv'
           /\ DOMAIN list' = 1..Len(list) + 1
           /\ (list')[Len(list) + 1] = e
           /\ \A j \in DOMAIN list : (list')[j] = list[j]
<1>1. list \in Seq(Entry)
  BY DEF ListInv
<1>2. /\ list' \in Seq(Entry)
      /\ DOMAIN list' = 1..Len(list) + 1
      /\ DOMAIN list = 1..Len(list)
      /\ Len(list) \in Nat
      /\ (list')[Len(list) + 1] = e
      /\ \A j \in DOMAIN list : (list')[j] = list[j]
  BY <1>1
<1>3. \A j \in DOMAIN list' : j \in DOMAIN list \/ j = Len(list) + 1
  BY <1>2
<1>4. UniqueEntries'
  BY <1>2, <1>3 DEF ListInv, UniqueEntries
<1>5. EntriesConsistent'
  BY <1>2, <1>3 DEF ListInv, EntriesConsistent, EntryConsistent, is_valid_close
<1>6. event_handling_get_tick' = event_handling_get_tick
  BY DEF event_handling_get_tick
<1>7. \A j \in DOMAIN list' :
          (list')[j].open_timestamp <= event_handling_get_tick'
  BY <1>2, <1>3, <1>6 DEF ListInv
<1> QED
  BY <1>2, <1>4, <1>5, <1>7 DEF ListInv

-----------------------------------------------------------------------------
(* The producer keeps what holds of the list, and marks nothing.            *)

\* An entry never contradicts itself after a close.
LEMMA CloseFileProps ==
    ASSUME NEW e \in Entry, NEW t \in Nat, e.open_timestamp <= t,
           EntryConsistent(e), ~e.remove
    PROVE  /\ close_file(e, t) \in Entry
           /\ EntryConsistent(close_file(e, t))
           /\ close_file(e, t).file = e.file
           /\ close_file(e, t).open_timestamp = e.open_timestamp
           /\ close_file(e, t).has_fired_open = e.has_fired_open
           /\ close_file(e, t).remove = e.remove
<1>1. /\ close_file(e, t) \in Entry
      /\ close_file(e, t).file = e.file
      /\ close_file(e, t).open_timestamp = e.open_timestamp
      /\ close_file(e, t).close_timestamp = t
      /\ close_file(e, t).is_closed = TRUE
      /\ close_file(e, t).has_fired_open = e.has_fired_open
      /\ close_file(e, t).has_fired_closed = e.has_fired_closed
      /\ close_file(e, t).remove = e.remove
  BY DEF close_file, Entry
<1> QED
  BY <1>1 DEF EntryConsistent, is_valid_close, NoTick

\* Nor after it is opened again.
LEMMA ResetToOpenProps ==
    ASSUME NEW e \in Entry, NEW t \in Nat, EntryConsistent(e), ~e.remove
    PROVE  /\ reset_to_open(e, t) \in Entry
           /\ EntryConsistent(reset_to_open(e, t))
           /\ reset_to_open(e, t).file = e.file
           /\ reset_to_open(e, t).open_timestamp = t
           /\ reset_to_open(e, t).has_fired_open = e.has_fired_open
           /\ reset_to_open(e, t).remove = e.remove
<1>1. /\ reset_to_open(e, t) \in Entry
      /\ reset_to_open(e, t).file = e.file
      /\ reset_to_open(e, t).open_timestamp = t
      /\ reset_to_open(e, t).close_timestamp = NoTick
      /\ reset_to_open(e, t).is_closed = FALSE
      /\ reset_to_open(e, t).has_fired_open = e.has_fired_open
      /\ reset_to_open(e, t).has_fired_closed = e.has_fired_closed
      /\ reset_to_open(e, t).remove = e.remove
  BY DEF reset_to_open, Entry, NoTick
<1> QED
  BY <1>1 DEF EntryConsistent, is_valid_close, NoTick

\* A new entry does not contradict itself either.
LEMMA InitFileProps ==
    ASSUME NEW f \in Files, NEW t \in Nat
    PROVE  /\ init_file(f, t) \in Entry
           /\ EntryConsistent(init_file(f, t))
           /\ init_file(f, t).file = f
           /\ init_file(f, t).open_timestamp = t
           /\ ~init_file(f, t).has_fired_open
           /\ ~init_file(f, t).remove
BY DEF init_file, Entry, EntryConsistent, is_valid_close, NoTick

\* Deleting an entry whose open command has not run, or that is marked, does
\* not change which files are opened.
LEMMA RemovedOpened ==
    ASSUME ListInv, NEW i \in DOMAIN list,
           ~list[i].has_fired_open \/ list[i].remove,
           list' = remove_from_list(i), UNCHANGED clock
    PROVE  opened' = opened
<1>1. /\ ListInv' /\ Len(list') = Len(list) - 1
      /\ \A j \in DOMAIN list' :
             (list')[j] = IF j < i THEN list[j] ELSE list[j + 1]
  BY RemovePreserves
<1>2. /\ DOMAIN list = 1..Len(list) /\ Len(list) \in Nat
      /\ DOMAIN list' = 1..Len(list) - 1
  BY <1>1 DEF ListInv
<1>3. opened' \subseteq opened
  BY <1>1, <1>2 DEF opened
<1>4. ASSUME NEW j \in DOMAIN list, list[j].has_fired_open, ~list[j].remove
      PROVE  list[j].file \in opened'
  <2>1. j # i
    BY <1>4
  <2>2. CASE j < i
    <3>1. j \in DOMAIN list' /\ (list')[j] = list[j]
      BY <1>1, <1>2, <2>2
    <3> QED
      BY <1>4, <3>1 DEF opened
  <2>3. CASE j > i
    <3>1. j - 1 \in DOMAIN list' /\ (list')[j - 1] = list[j]
      BY <1>1, <1>2, <2>3
    <3> QED
      BY <1>4, <3>1 DEF opened
  <2> QED
    BY <1>2, <2>1, <2>2, <2>3
<1>5. opened \subseteq opened'
  BY <1>4 DEF opened
<1> QED
  BY <1>3, <1>5

\* A close event: lines 524 to 540 of event_handling_add_event.
LEMMA AddClosePreserves ==
    ASSUME ListInv, NoMarks, clock \in Clock,
           NEW f \in Files, add_close(f), UNCHANGED clock
    PROVE  ListInv' /\ NoMarks' /\ opened' = opened
<1> DEFINE t == event_handling_get_tick
<1>t. t \in Nat
  BY TickType
<1>l. list \in Seq(Entry)
  BY DEF ListInv
<1>1. ASSUME NEW i \in DOMAIN list,
             list' = [list EXCEPT ![i] = close_file(list[i], t)]
      PROVE  ListInv' /\ NoMarks' /\ opened' = opened
  <2> DEFINE e == close_file(list[i], t)
  <2>1. /\ list[i] \in Entry /\ EntryConsistent(list[i]) /\ ~list[i].remove
        /\ list[i].open_timestamp <= t
    BY <1>l DEF ListInv, EntriesConsistent, NoMarks
  <2>2. /\ e \in Entry /\ EntryConsistent(e) /\ e.file = list[i].file
        /\ e.open_timestamp <= t
        /\ e.has_fired_open = list[i].has_fired_open
        /\ e.remove = list[i].remove
    BY <1>t, <2>1, CloseFileProps
  <2> HIDE DEF e
  <2>3. list' = [list EXCEPT ![i] = e]
    BY <1>1 DEF e
  <2>4. /\ ListInv' /\ DOMAIN list' = DOMAIN list /\ (list')[i] = e
        /\ \A j \in DOMAIN list : j # i => (list')[j] = list[j]
    BY <2>2, <2>3, UpdatePreserves
  <2>5. NoMarks'
    BY <2>1, <2>2, <2>4 DEF NoMarks
  <2>6. opened' = opened
    BY <2>2, <2>4 DEF opened
  <2> QED
    BY <2>4, <2>5, <2>6
<1>2. ASSUME NEW i \in DOMAIN list, ~list[i].has_fired_open,
             list' = remove_from_list(i)
      PROVE  ListInv' /\ NoMarks' /\ opened' = opened
  <2>1. /\ ListInv' /\ Len(list') = Len(list) - 1
        /\ \A j \in DOMAIN list' :
               (list')[j] = IF j < i THEN list[j] ELSE list[j + 1]
    BY <1>2, RemovePreserves
  <2>2. /\ DOMAIN list = 1..Len(list) /\ Len(list) \in Nat
        /\ DOMAIN list' = 1..Len(list) - 1
    BY <1>l, <2>1 DEF ListInv
  <2>3. NoMarks'
    BY <2>1, <2>2 DEF NoMarks
  <2>4. opened' = opened
    BY <1>2, RemovedOpened
  <2> QED
    BY <2>1, <2>3, <2>4
<1>3. CASE UNCHANGED list
  BY <1>3 DEF ListInv, UniqueEntries, EntriesConsistent, EntryConsistent,
       is_valid_close, NoMarks, opened, event_handling_get_tick
<1> QED
  BY <1>1, <1>2, <1>3 DEF add_close

\* When find_in_file_list finds nothing, no entry of the list is the file's:
\* with one entry for a file, the first that matches is the only one.
LEMMA NotFoundMeansAbsent ==
    ASSUME ListInv, NEW f,
           \A i \in DOMAIN list : ~find_in_file_list(f, i)
    PROVE  \A i \in DOMAIN list : list[i].file # f
<1>1. DOMAIN list = 1..Len(list) /\ Len(list) \in Nat
  BY DEF ListInv
<1>2. \A i \in DOMAIN list : \A j \in 1..i - 1 : j \in DOMAIN list /\ j # i
  BY <1>1
<1> QED
  BY <1>1, <1>2 DEF find_in_file_list, ListInv, UniqueEntries

\* An open event: lines 541 to 562 of event_handling_add_event.
LEMMA AddOpenPreserves ==
    ASSUME ListInv, NoMarks, clock \in Clock,
           NEW f \in Files, NEW t \in Nat, t <= event_handling_get_tick,
           NEW res, add_open(f, t, res), UNCHANGED clock
    PROVE  ListInv' /\ NoMarks' /\ opened' = opened
<1>l. list \in Seq(Entry)
  BY DEF ListInv
<1>1. ASSUME NEW i \in DOMAIN list,
             list' = [list EXCEPT ![i] = reset_to_open(list[i], t)]
      PROVE  ListInv' /\ NoMarks' /\ opened' = opened
  <2> DEFINE e == reset_to_open(list[i], t)
  <2>1. list[i] \in Entry /\ EntryConsistent(list[i]) /\ ~list[i].remove
    BY <1>l DEF ListInv, EntriesConsistent, NoMarks
  <2>2. /\ e \in Entry /\ EntryConsistent(e) /\ e.file = list[i].file
        /\ e.open_timestamp = t
        /\ e.has_fired_open = list[i].has_fired_open
        /\ e.remove = list[i].remove
    BY <2>1, ResetToOpenProps
  <2> HIDE DEF e
  <2>3. list' = [list EXCEPT ![i] = e]
    BY <1>1 DEF e
  <2>4. /\ ListInv' /\ DOMAIN list' = DOMAIN list /\ (list')[i] = e
        /\ \A j \in DOMAIN list : j # i => (list')[j] = list[j]
    BY <2>2, <2>3, UpdatePreserves
  <2>5. NoMarks'
    BY <2>1, <2>2, <2>4 DEF NoMarks
  <2>6. opened' = opened
    BY <2>2, <2>4 DEF opened
  <2> QED
    BY <2>4, <2>5, <2>6
<1>2. ASSUME \A i \in DOMAIN list : ~find_in_file_list(f, i),
             list' = Append(list, init_file(f, t))
      PROVE  ListInv' /\ NoMarks' /\ opened' = opened
  <2> DEFINE e == init_file(f, t)
  <2>1. /\ e \in Entry /\ EntryConsistent(e) /\ e.file = f
        /\ e.open_timestamp = t /\ ~e.has_fired_open /\ ~e.remove
    BY InitFileProps
  <2> HIDE DEF e
  <2>2. \A j \in DOMAIN list : list[j].file # e.file
    BY <1>2, <2>1, NotFoundMeansAbsent
  <2>3. list' = Append(list, e)
    BY <1>2 DEF e
  <2>4. /\ ListInv' /\ DOMAIN list' = 1..Len(list) + 1
        /\ (list')[Len(list) + 1] = e
        /\ \A j \in DOMAIN list : (list')[j] = list[j]
    BY <2>1, <2>2, <2>3, AppendPreserves
  <2>5. /\ DOMAIN list = 1..Len(list) /\ Len(list) \in Nat
        /\ \A j \in DOMAIN list' : j \in DOMAIN list \/ j = Len(list) + 1
        /\ DOMAIN list \subseteq DOMAIN list'
    BY <1>l, <2>4
  <2>6. NoMarks'
    BY <2>1, <2>4, <2>5 DEF NoMarks
  <2>7. opened' = opened
    BY <2>1, <2>4, <2>5 DEF opened
  <2> QED
    BY <2>4, <2>6, <2>7
<1>3. CASE UNCHANGED list
  BY <1>3 DEF ListInv, UniqueEntries, EntriesConsistent, EntryConsistent,
       is_valid_close, NoMarks, opened, event_handling_get_tick
<1> QED
  BY <1>1, <1>2, <1>3 DEF add_open, add_new_file

-----------------------------------------------------------------------------
(* The consumer's changes of an entry.                                      *)

\* system(open_cmd) has returned.
LEMMA OpenedEntryProps ==
    ASSUME NEW e \in Entry, EntryConsistent(e), ~e.has_fired_open,
           NEW n, n = [e EXCEPT !.has_fired_open = TRUE]
    PROVE  /\ n \in Entry /\ EntryConsistent(n) /\ n.file = e.file
           /\ n.open_timestamp = e.open_timestamp
           /\ n.has_fired_open /\ ~n.remove
<1>1. /\ n \in Entry /\ n.file = e.file
      /\ n.open_timestamp = e.open_timestamp
      /\ n.close_timestamp = e.close_timestamp
      /\ n.is_closed = e.is_closed
      /\ n.has_fired_open = TRUE
      /\ n.has_fired_closed = e.has_fired_closed
      /\ n.remove = e.remove
  BY DEF Entry
<1> QED
  BY <1>1 DEF EntryConsistent, is_valid_close

\* system(close_cmd) has returned, or there is no close command.
LEMMA ClosedEntryProps ==
    ASSUME NEW e \in Entry, EntryConsistent(e), close_is_due(e),
           NEW n,
           \/ HasCloseCmd /\ n = [e EXCEPT !.has_fired_closed = TRUE,
                                           !.remove = TRUE]
           \/ ~HasCloseCmd /\ n = [e EXCEPT !.remove = TRUE]
    PROVE  /\ n \in Entry /\ EntryConsistent(n) /\ n.file = e.file
           /\ n.open_timestamp = e.open_timestamp
           /\ n.remove
<1>1. /\ n \in Entry /\ n.file = e.file
      /\ n.open_timestamp = e.open_timestamp
      /\ n.close_timestamp = e.close_timestamp
      /\ n.is_closed = e.is_closed
      /\ n.has_fired_open = e.has_fired_open
      /\ n.remove = TRUE
  BY DEF Entry
<1>2. /\ HasCloseCmd => n.has_fired_closed = TRUE
      /\ ~HasCloseCmd => n.has_fired_closed = e.has_fired_closed
  BY DEF Entry
<1>3. {HasOpenCmd, HasCloseCmd, AllocMayFail} \subseteq BOOLEAN
  BY ConfigAssumption
<1> QED
  BY <1>1, <1>2, <1>3 DEF EntryConsistent, is_valid_close, close_is_due

\* The invariant is what holds of the list, of the clock and of each thread.
LEMMA IInvParts ==
    IInv <=> /\ ListInv
             /\ clock \in Clock
             /\ signaled \in BOOLEAN
             /\ event \in Event \cup {NoEvent}
             /\ event # NoEvent => event.timestamp <= event_handling_get_tick
             /\ pc \in {"lock", "waiting", "woken", "visit", "opening",
                       "check_close", "closing", "sweep"}
             /\ pos \in Nat \ {0}
             /\ CursorValid
             /\ NoResidue
             /\ NoLostWakeup
             /\ SweptBehind
             /\ CommandStillDue
BY DEF IInv, TypeOK, TimesArePast, ListInv

\* Between passes nothing is marked, so a pass starts with a clean list.
LEMMA FreeMutexMeansNoMarks ==
    ASSUME IInv, ~consumer_has_mutex
    PROVE  NoMarks
BY DEF IInv, NoResidue, NoMarks

-----------------------------------------------------------------------------
(* The invariant is inductive: one lemma for each action.                   *)

\* event_handling_init establishes the invariant.
LEMMA InitIInv == Init => IInv
<1> SUFFICES ASSUME Init PROVE IInv
  OBVIOUS
<1>1. clock \in Clock
  BY ClockAssumption DEF Init, Clock
<1>2. list = <<>> /\ DOMAIN list = {} /\ list \in Seq(Entry)
  BY DEF Init
<1>3. signaled = FALSE /\ event = NoEvent /\ pc = "lock" /\ pos = 1
  BY DEF Init
<1>4. TypeOK
  <2>1. pos \in Nat \ {0}
    BY <1>3
  <2>2. signaled \in BOOLEAN /\ event \in Event \cup {NoEvent}
    BY <1>3
  <2> QED
    BY <1>1, <1>2, <1>3, <2>1, <2>2, Zenon DEF TypeOK
<1>5. TimesArePast /\ UniqueEntries /\ EntriesConsistent /\ NoResidue
  BY <1>2, <1>3 DEF TimesArePast, UniqueEntries, EntriesConsistent, NoResidue
<1>6. CursorValid /\ NoLostWakeup /\ SweptBehind /\ CommandStillDue
  BY <1>3 DEF CursorValid, NoLostWakeup, SweptBehind, CommandStillDue
<1> QED
  BY <1>4, <1>5, <1>6 DEF IInv

\* Time makes no time stamp a later one.
LEMMA ClockIInv == IInv /\ ClockAdvances => IInv'
<1> SUFFICES ASSUME IInv, ClockAdvances PROVE IInv'
  OBVIOUS
<1>1. clock' \in Clock /\ event_handling_get_tick <= event_handling_get_tick'
  BY TickMonotone DEF IInv, TypeOK
<1>2. event_handling_get_tick \in Nat /\ event_handling_get_tick' \in Nat
  <2>1. clock \in Clock
    BY DEF IInv, TypeOK
  <2>2. event_handling_get_tick \in Nat
    BY <2>1, TickType
  <2>3. event_handling_get_tick' \in Nat
    BY <1>1, TickTypePrime
  <2> QED
    BY <2>2, <2>3
<1>3. UNCHANGED <<list, signaled, event, pc, pos>>
  BY DEF ClockAdvances
<1>4. TimesArePast'
  <2>1. event # NoEvent => event.timestamp \in Nat
    BY DEF IInv, TypeOK, Event
  <2>2. \A i \in DOMAIN list : list[i].open_timestamp \in Nat
    <3>1. list \in Seq(Entry)
      BY DEF IInv, TypeOK
    <3>2. \A i \in DOMAIN list : list[i] \in Entry
      BY <3>1
    <3> QED
      BY <3>2 DEF Entry
  <2>3. event' # NoEvent => event'.timestamp <= event_handling_get_tick'
    BY <1>1, <1>2, <1>3, <2>1 DEF IInv, TimesArePast
  <2>4. \A i \in DOMAIN list' :
            (list')[i].open_timestamp <= event_handling_get_tick'
    BY <1>1, <1>2, <1>3, <2>2 DEF IInv, TimesArePast
  <2> QED
    BY <2>3, <2>4 DEF TimesArePast
<1>5. TypeOK'
  BY <1>1, <1>3 DEF IInv, TypeOK
<1>6. UniqueEntries' /\ EntriesConsistent'
  BY <1>3 DEF IInv, UniqueEntries, EntriesConsistent, EntryConsistent,
       is_valid_close
<1>7. CursorValid' /\ NoResidue' /\ NoLostWakeup' /\ SweptBehind'
  BY <1>3 DEF IInv, CursorValid, NoResidue, consumer_has_mutex, NoLostWakeup,
       SweptBehind
<1>8. CommandStillDue'
  BY <1>3 DEF IInv, CommandStillDue, can_execute_open, can_execute_close,
       close_is_due, is_valid_close, cur
<1> QED
  BY <1>4, <1>5, <1>6, <1>7, <1>8 DEF IInv

\* An event is stamped with the present tick.
LEMMA StampIInv ==
    ASSUME IInv, NEW f \in Files, NEW type \in EventTypes,
           stamp_event(f, type)
    PROVE  IInv'
<1>1. UNCHANGED <<clock, list, signaled, pc, pos>>
  BY DEF stamp_event
<1>2. event_handling_get_tick \in Nat
      /\ event_handling_get_tick' = event_handling_get_tick
  BY <1>1, TickType DEF IInv, TypeOK, event_handling_get_tick
<1>3. event' \in Event /\ event'.timestamp <= event_handling_get_tick
  BY <1>2 DEF stamp_event, Event
<1>4. TypeOK' /\ TimesArePast'
  BY <1>1, <1>2, <1>3 DEF IInv, TypeOK, TimesArePast
<1>5. UniqueEntries' /\ EntriesConsistent'
  BY <1>1 DEF IInv, UniqueEntries, EntriesConsistent, EntryConsistent,
       is_valid_close
<1>6. CursorValid' /\ NoResidue' /\ NoLostWakeup' /\ SweptBehind'
  BY <1>1 DEF IInv, CursorValid, NoResidue, consumer_has_mutex, NoLostWakeup,
       SweptBehind
<1>7. CommandStillDue'
  BY <1>1 DEF IInv, CommandStillDue, can_execute_open, can_execute_close,
       close_is_due, is_valid_close, cur
<1> QED
  BY <1>4, <1>5, <1>6, <1>7 DEF IInv

\* What the producer does to the list, whichever event it adds.
LEMMA AddEventList ==
    ASSUME IInv, NEW res, event_handling_add_event(res)
    PROVE  ListInv' /\ NoMarks' /\ opened' = opened
<1>1. ListInv /\ NoMarks /\ clock \in Clock /\ UNCHANGED clock
  BY IInvParts, FreeMutexMeansNoMarks DEF event_handling_add_event
<1>2. /\ event \in Event
      /\ event.file \in Files /\ event.timestamp \in Nat
      /\ event.timestamp <= event_handling_get_tick
  BY DEF event_handling_add_event, IInv, TypeOK, TimesArePast, Event
<1>3. CASE add_close(event.file)
  BY <1>1, <1>2, <1>3, AddClosePreserves
<1>4. CASE add_open(event.file, event.timestamp, res)
  BY <1>1, <1>2, <1>4, AddOpenPreserves
<1> QED
  BY <1>3, <1>4 DEF event_handling_add_event

\* The producer finds and leaves a list without marks.
LEMMA AddEventIInv ==
    ASSUME IInv, NEW res, event_handling_add_event(res)
    PROVE  IInv'
<1>1. ListInv' /\ NoMarks'
  BY AddEventList
<1>2. /\ UNCHANGED <<clock, pos>> /\ event' = NoEvent /\ signaled' = TRUE
      /\ pc \in {"lock", "waiting", "woken"} /\ pc' \in {"lock", "woken"}
  BY DEF event_handling_add_event, signal, consumer_has_mutex, IInv, TypeOK
<1>3. clock' \in Clock /\ pos' \in Nat \ {0}
  BY <1>2 DEF IInv, TypeOK
<1>4. CursorValid' /\ NoLostWakeup' /\ SweptBehind' /\ CommandStillDue'
  BY <1>2 DEF CursorValid, NoLostWakeup, SweptBehind, CommandStillDue
<1>5. NoResidue'
  BY <1>1 DEF NoResidue, NoMarks
<1>6. TypeOK' /\ TimesArePast'
  BY <1>1, <1>2, <1>3 DEF TypeOK, TimesArePast, ListInv
<1> QED
  BY <1>1, <1>4, <1>5, <1>6 DEF IInv, ListInv

\* The list is the same and so is the clock: what holds of them still holds.
LEMMA SameList ==
    ASSUME IInv, UNCHANGED <<clock, list>>
    PROVE  /\ ListInv'
           /\ clock' \in Clock
           /\ event_handling_get_tick' = event_handling_get_tick
<1>1. ListInv /\ clock \in Clock
  BY IInvParts
<1> QED
  BY <1>1 DEF ListInv, UniqueEntries, EntriesConsistent, EntryConsistent,
       is_valid_close, event_handling_get_tick

\* An action of the consumer that keeps the list and the clock only has to
\* bring the parts that speak of pc, pos and signaled.
LEMMA ConsumerKeepsList ==
    ASSUME IInv, UNCHANGED <<clock, event>>, ListInv',
           signaled' \in BOOLEAN, pos' \in Nat \ {0},
           pc' \in {"lock", "waiting", "woken", "visit", "opening",
                   "check_close", "closing", "sweep"},
           CursorValid', NoResidue', NoLostWakeup', SweptBehind',
           CommandStillDue'
    PROVE  IInv'
<1>1. /\ clock \in Clock
      /\ event \in Event \cup {NoEvent}
      /\ event # NoEvent => event.timestamp <= event_handling_get_tick
  BY IInvParts
<1>2. event_handling_get_tick' = event_handling_get_tick
  BY DEF event_handling_get_tick
<1>3. TypeOK'
  BY <1>1 DEF TypeOK, ListInv
<1>4. TimesArePast'
  BY <1>1, <1>2 DEF TimesArePast, ListInv
<1> QED
  BY <1>3, <1>4 DEF IInv, ListInv

\* A pass starts at the first entry with signaled reset.
LEMMA BeginPassIInv ==
    ASSUME IInv, begin_pass
    PROVE  IInv'
<1>1. ListInv'
  BY SameList DEF begin_pass
<1>2. /\ UNCHANGED <<clock, event>>
      /\ signaled' = FALSE /\ pos' = 1 /\ pc' = "visit"
  BY DEF begin_pass
<1>3. NoResidue' /\ CursorValid' /\ NoLostWakeup' /\ SweptBehind'
      /\ CommandStillDue'
  BY <1>2 DEF NoResidue, consumer_has_mutex, CursorValid, NoLostWakeup,
       SweptBehind, CommandStillDue
<1>4. signaled' \in BOOLEAN
  BY <1>2
<1>5. pos' \in Nat \ {0}
  BY <1>2
<1> QED
  BY <1>1, <1>2, <1>3, <1>4, <1>5, ConsumerKeepsList

\* The consumer only goes to sleep when nothing is signalled.
LEMMA ConsumerLockIInv ==
    ASSUME IInv, consumer_lock
    PROVE  IInv'
<1>1. CASE begin_pass
  BY <1>1, BeginPassIInv
<1>2. CASE /\ pc = "lock" /\ ~signaled /\ pc' = "waiting"
           /\ UNCHANGED <<clock, list, signaled, event, pos>>
  <2>1. ListInv'
    BY <1>2, SameList
  <2>2. NoResidue'
    BY <1>2 DEF IInv, NoResidue, consumer_has_mutex
  <2>3. CursorValid' /\ NoLostWakeup' /\ SweptBehind' /\ CommandStillDue'
    BY <1>2 DEF CursorValid, NoLostWakeup, SweptBehind, CommandStillDue
  <2>4. signaled' \in BOOLEAN /\ pos' \in Nat \ {0}
    BY <1>2, IInvParts
  <2> QED
    BY <1>2, <2>1, <2>2, <2>3, <2>4, ConsumerKeepsList
<1> QED
  BY <1>1, <1>2 DEF consumer_lock

\* The open command is only run for an entry for which it has not run.
LEMMA VisitOpenIInv ==
    ASSUME IInv, visit_open
    PROVE  IInv'
<1>1. /\ pc = "visit" /\ pos \in DOMAIN list
      /\ pc' \in {"opening", "check_close"}
      /\ pc' = "opening" => can_execute_open(cur)
      /\ UNCHANGED <<clock, list, signaled, event, pos>>
  BY DEF visit_open
<1>2. ListInv'
  BY <1>1, SameList
<1>3. CursorValid' /\ NoResidue' /\ NoLostWakeup' /\ SweptBehind'
  BY <1>1 DEF CursorValid, NoResidue, consumer_has_mutex, NoLostWakeup,
       SweptBehind
<1>4. CommandStillDue'
  BY <1>1 DEF CommandStillDue, can_execute_open, cur
<1>5. signaled' \in BOOLEAN /\ pos' \in Nat \ {0}
  BY <1>1, IInvParts
<1> QED
  BY <1>1, <1>2, <1>3, <1>4, <1>5, ConsumerKeepsList

\* The sweep has nothing behind it when it starts.
LEMMA EndOfVisitsIInv ==
    ASSUME IInv, end_of_visits
    PROVE  IInv'
<1>1. /\ pc = "visit" /\ pc' = "sweep" /\ pos' = 1
      /\ UNCHANGED <<clock, list, signaled, event>>
  BY DEF end_of_visits
<1>2. ListInv' /\ list \in Seq(Entry)
  BY <1>1, SameList, IInvParts DEF ListInv
<1>3. CursorValid' /\ NoResidue' /\ NoLostWakeup' /\ CommandStillDue'
  BY <1>1 DEF CursorValid, NoResidue, consumer_has_mutex, NoLostWakeup,
       CommandStillDue
<1>4. SweptBehind'
  BY <1>1, <1>2 DEF SweptBehind
<1>5. signaled' \in BOOLEAN /\ pos' \in Nat \ {0}
  BY <1>1, IInvParts
<1> QED
  BY <1>1, <1>2, <1>3, <1>4, <1>5, ConsumerKeepsList

\* At the end of the sweep the whole list is behind it.
LEMMA ConsumerUnlockIInv ==
    ASSUME IInv, consumer_unlock
    PROVE  IInv'
<1>1. /\ pc = "sweep" /\ pc' = "lock" /\ signaled' = FALSE
      /\ pos \notin DOMAIN list
      /\ UNCHANGED <<clock, list, event, pos>>
  BY DEF consumer_unlock
<1>2. ListInv' /\ list \in Seq(Entry) /\ pos \in Nat \ {0} /\ SweptBehind
  BY <1>1, SameList, IInvParts DEF ListInv
<1>3. \A i \in DOMAIN list : i < pos
  BY <1>1, <1>2
<1>4. NoResidue'
  BY <1>1, <1>2, <1>3 DEF NoResidue, SweptBehind
<1>5. CursorValid' /\ NoLostWakeup' /\ SweptBehind' /\ CommandStillDue'
  BY <1>1 DEF CursorValid, NoLostWakeup, SweptBehind, CommandStillDue
<1> QED
  BY <1>1, <1>2, <1>4, <1>5, ConsumerKeepsList

\* The entry at the cursor is replaced, and the consumer goes on.
LEMMA ExecuteOpenIInv ==
    ASSUME IInv, execute_open_event
    PROVE  IInv'
<1> DEFINE e == [list[pos] EXCEPT !.has_fired_open = TRUE]
<1>1. /\ pc = "opening" /\ pc' = "check_close"
      /\ list' = [list EXCEPT ![pos] = e]
      /\ UNCHANGED <<clock, signaled, event, pos>>
  BY DEF execute_open_event
<1>2. /\ ListInv /\ pos \in DOMAIN list /\ list[pos] \in Entry
      /\ EntryConsistent(list[pos]) /\ ~list[pos].has_fired_open
      /\ list[pos].open_timestamp <= event_handling_get_tick
  BY <1>1 DEF IInv, TypeOK, ListInv, CursorValid, EntriesConsistent, TimesArePast,
       CommandStillDue, can_execute_open, cur
<1>3. /\ e \in Entry /\ EntryConsistent(e) /\ e.file = list[pos].file
      /\ e.open_timestamp = list[pos].open_timestamp
  BY <1>2, OpenedEntryProps
<1> HIDE DEF e
<1>4. ListInv' /\ DOMAIN list' = DOMAIN list
  BY <1>1, <1>2, <1>3, UpdatePreserves
<1>5. CursorValid' /\ NoResidue' /\ NoLostWakeup' /\ SweptBehind'
      /\ CommandStillDue'
  BY <1>1, <1>2, <1>4 DEF CursorValid, NoResidue, consumer_has_mutex,
       NoLostWakeup, SweptBehind, CommandStillDue
<1>6. signaled' \in BOOLEAN /\ pos' \in Nat \ {0}
  BY <1>1, IInvParts
<1> QED
  BY <1>1, <1>4, <1>5, <1>6, ConsumerKeepsList

\* After an entry is dealt with, the next one is visited.
LEMMA NextEntryIInv ==
    ASSUME IInv, next_entry, UNCHANGED clock, ListInv'
    PROVE  IInv'
<1>1. /\ UNCHANGED <<signaled, event>> /\ pos' = pos + 1 /\ pc' = "visit"
  BY DEF next_entry
<1>2. signaled' \in BOOLEAN /\ pos' \in Nat \ {0}
  BY <1>1, IInvParts
<1>3. CursorValid' /\ NoResidue' /\ NoLostWakeup' /\ SweptBehind'
      /\ CommandStillDue'
  BY <1>1 DEF CursorValid, NoResidue, consumer_has_mutex, NoLostWakeup,
       SweptBehind, CommandStillDue
<1> QED
  BY <1>1, <1>2, <1>3, ConsumerKeepsList

\* An entry whose close is due is marked, with or without a command.
LEMMA MarkedList ==
    ASSUME IInv, pos \in DOMAIN list, close_is_due(list[pos]), UNCHANGED clock,
           \/ /\ HasCloseCmd
              /\ list' = [list EXCEPT ![pos].has_fired_closed = TRUE,
                                      ![pos].remove = TRUE]
           \/ /\ ~HasCloseCmd
              /\ list' = [list EXCEPT ![pos].remove = TRUE]
    PROVE  /\ ListInv'
           /\ DOMAIN list' = DOMAIN list
           /\ (list')[pos].file = list[pos].file
           /\ (list')[pos].remove
           /\ \A j \in DOMAIN list : j # pos => (list')[j] = list[j]
<1> DEFINE e == IF HasCloseCmd
                THEN [list[pos] EXCEPT !.has_fired_closed = TRUE,
                                       !.remove = TRUE]
                ELSE [list[pos] EXCEPT !.remove = TRUE]
<1>1. /\ ListInv /\ list \in Seq(Entry) /\ list[pos] \in Entry
      /\ EntryConsistent(list[pos])
      /\ list[pos].open_timestamp <= event_handling_get_tick
  BY IInvParts DEF ListInv, EntriesConsistent
<1>2. list' = [list EXCEPT ![pos] = e]
  BY <1>1
<1>3. /\ e \in Entry /\ EntryConsistent(e) /\ e.file = list[pos].file
      /\ e.open_timestamp = list[pos].open_timestamp /\ e.remove
  BY <1>1, ClosedEntryProps
<1> HIDE DEF e
<1> QED
  BY <1>1, <1>2, <1>3, UpdatePreserves

\* The close command is only run after the open command.
LEMMA VisitCloseIInv ==
    ASSUME IInv, visit_close
    PROVE  IInv'
<1>1. pc = "check_close" /\ pos \in DOMAIN list
  BY DEF visit_close, IInv, CursorValid
<1>2. CASE /\ close_is_due(cur) /\ can_execute_close(cur) /\ pc' = "closing"
           /\ UNCHANGED <<clock, list, signaled, event, pos>>
  <2>1. ListInv'
    BY <1>2, SameList
  <2>2. CursorValid' /\ NoResidue' /\ NoLostWakeup' /\ SweptBehind'
    BY <1>1, <1>2 DEF CursorValid, NoResidue, consumer_has_mutex,
         NoLostWakeup, SweptBehind
  <2>3. CommandStillDue'
    BY <1>2 DEF CommandStillDue, close_is_due, can_execute_close,
         is_valid_close, cur
  <2>4. signaled' \in BOOLEAN /\ pos' \in Nat \ {0}
    BY <1>2, IInvParts
  <2> QED
    BY <1>2, <2>1, <2>2, <2>3, <2>4, ConsumerKeepsList
<1>3. CASE /\ close_is_due(cur) /\ ~can_execute_close(cur) /\ next_entry
           /\ list' = [list EXCEPT ![pos].remove = TRUE]
  <2>1. UNCHANGED clock /\ ~HasCloseCmd
    BY <1>3 DEF next_entry, close_is_due, can_execute_close
  <2>2. ListInv'
    BY <1>1, <1>3, <2>1, MarkedList DEF cur
  <2> QED
    BY <1>3, <2>1, <2>2, NextEntryIInv
<1>4. CASE UNCHANGED list /\ next_entry
  <2>1. UNCHANGED clock
    BY <1>4 DEF next_entry
  <2> QED
    BY <1>4, <2>1, SameList, NextEntryIInv
<1> QED
  BY <1>2, <1>3, <1>4 DEF visit_close

\* After the close command the entry is marked.
LEMMA ExecuteCloseIInv ==
    ASSUME IInv, execute_close_event
    PROVE  IInv'
<1>1. /\ pos \in DOMAIN list /\ close_is_due(list[pos]) /\ HasCloseCmd
      /\ next_entry /\ UNCHANGED clock
  BY DEF execute_close_event, next_entry, IInv, CursorValid, CommandStillDue,
       can_execute_close, cur
<1>2. list' = [list EXCEPT ![pos].has_fired_closed = TRUE,
                           ![pos].remove = TRUE]
  BY DEF execute_close_event
<1>3. ListInv'
  BY <1>1, <1>2, MarkedList
<1> QED
  BY <1>1, <1>3, NextEntryIInv

\* The sweep stays at a place whose entry it deletes.
LEMMA SweepIInv ==
    ASSUME IInv, sweep
    PROVE  IInv'
<1>1. /\ pc = "sweep" /\ pc' = "sweep" /\ pos \in DOMAIN list
      /\ UNCHANGED <<clock, signaled, event>>
  BY DEF sweep
<1>2. /\ ListInv /\ list \in Seq(Entry) /\ pos \in Nat \ {0}
      /\ \A i \in DOMAIN list : i < pos => ~list[i].remove
  BY <1>1, IInvParts DEF ListInv, SweptBehind
<1>3. CursorValid' /\ NoResidue' /\ NoLostWakeup' /\ CommandStillDue'
  BY <1>1 DEF CursorValid, NoResidue, consumer_has_mutex, NoLostWakeup,
       CommandStillDue
<1>4. CASE cur.remove /\ list' = remove_from_list(pos) /\ UNCHANGED pos
  <2>1. /\ ListInv' /\ Len(list') = Len(list) - 1
        /\ \A j \in DOMAIN list' :
               (list')[j] = IF j < pos THEN list[j] ELSE list[j + 1]
    BY <1>1, <1>2, <1>4, RemovePreserves
  <2>2. \A j \in DOMAIN list' : j \in DOMAIN list
    BY <1>2, <2>1 DEF ListInv
  <2>3. SweptBehind'
    BY <1>2, <1>4, <2>1, <2>2 DEF SweptBehind
  <2>4. signaled' \in BOOLEAN /\ pos' \in Nat \ {0}
    BY <1>1, <1>4, IInvParts
  <2> QED
    BY <1>1, <1>3, <2>1, <2>3, <2>4, ConsumerKeepsList
<1>5. CASE ~cur.remove /\ pos' = pos + 1 /\ UNCHANGED list
  <2>1. ListInv'
    BY <1>1, <1>5, SameList
  <2>2. SweptBehind'
    BY <1>2, <1>5 DEF SweptBehind, cur
  <2>3. signaled' \in BOOLEAN /\ pos' \in Nat \ {0}
    BY <1>1, <1>2, <1>5, IInvParts
  <2> QED
    BY <1>1, <1>3, <2>1, <2>2, <2>3, ConsumerKeepsList
<1> QED
  BY <1>4, <1>5 DEF sweep

\* All actions of the consumer.
LEMMA ConsumerIInv == IInv /\ consumer => IInv'
BY ConsumerLockIInv, BeginPassIInv, VisitOpenIInv, ExecuteOpenIInv,
   VisitCloseIInv, ExecuteCloseIInv, EndOfVisitsIInv, SweepIInv,
   ConsumerUnlockIInv DEF consumer, wait_for_producer

\* All actions.
LEMMA NextIInv == IInv /\ [Next]_vars => IInv'
<1> SUFFICES ASSUME IInv, [Next]_vars PROVE IInv'
  OBVIOUS
<1>1. CASE ClockAdvances
  BY <1>1, ClockIInv
<1>2. CASE \E f \in Files, type \in EventTypes : stamp_event(f, type)
  BY <1>2, StampIInv
<1>3. CASE add_some_event
  BY <1>3, AddEventIInv DEF add_some_event
<1>4. CASE consumer
  BY <1>4, ConsumerIInv
<1>5. CASE UNCHANGED vars
  <2>1. UNCHANGED <<clock, list, signaled, event, pc, pos>>
    BY <1>5 DEF vars
  <2>2. ListInv'
    BY <2>1, SameList
  <2>3. CursorValid' /\ NoResidue' /\ NoLostWakeup' /\ SweptBehind'
    BY <2>1 DEF IInv, CursorValid, NoResidue, consumer_has_mutex,
         NoLostWakeup, SweptBehind
  <2>4. CommandStillDue'
    BY <2>1 DEF IInv, CommandStillDue, can_execute_open, can_execute_close,
         close_is_due, is_valid_close, cur
  <2>5. signaled' \in BOOLEAN /\ pos' \in Nat \ {0}
        /\ pc' \in {"lock", "waiting", "woken", "visit", "opening",
                    "check_close", "closing", "sweep"}
    BY <2>1, IInvParts
  <2> QED
    BY <2>1, <2>2, <2>3, <2>4, <2>5, ConsumerKeepsList
<1> QED
  BY <1>1, <1>2, <1>3, <1>4, <1>5 DEF Next

-----------------------------------------------------------------------------
(* The safety theorems.                                                     *)

\* Every reachable state of the tracker satisfies the inductive invariant.
THEOREM TrackerInvariant == Spec => []IInv
<1>1. Init => IInv
  BY InitIInv
<1>2. IInv /\ [Next]_vars => IInv'
  BY NextIInv
<1> QED
  BY <1>1, <1>2, PTL DEF Spec

\* Type correctness of the tracker.
THEOREM TypeCorrect == Spec => []TypeOK
<1>1. IInv => TypeOK
  BY DEF IInv
<1> QED
  BY <1>1, TrackerInvariant, PTL

\* One entry for a file, whatever the events: event_handling_add_event.
THEOREM OneEntryPerFile == Spec => []UniqueEntries
<1>1. IInv => UniqueEntries
  BY DEF IInv
<1> QED
  BY <1>1, TrackerInvariant, PTL

\* The consumer's entry is never a freed one: remove_from_list.
THEOREM NoUseAfterFree == Spec => []CursorValid
<1>1. IInv => CursorValid
  BY DEF IInv
<1> QED
  BY <1>1, TrackerInvariant, PTL

\* The close command of a file only runs after its open command, and the
\* "even thought" errors of execute_open_event and execute_close_event are
\* never logged.
THEOREM ConsistentEntries == Spec => []EntriesConsistent
<1>1. IInv => EntriesConsistent
  BY DEF IInv
<1> QED
  BY <1>1, TrackerInvariant, PTL

\* A pass of the consumer leaves no entry that it has marked for removal.
THEOREM PassClearsUp == Spec => []NoResidue
<1>1. IInv => NoResidue
  BY DEF IInv
<1> QED
  BY <1>1, TrackerInvariant, PTL

\* The consumer does not sleep on an event that was added before.
THEOREM WakeupIsNotLost == Spec => []NoLostWakeup
<1>1. IInv => NoLostWakeup
  BY DEF IInv
<1> QED
  BY <1>1, TrackerInvariant, PTL

-----------------------------------------------------------------------------
(* The mutex keeps the producer away from the entry a command runs for.     *)

\* No step of either thread takes that entry away.
LEMMA CursorStep ==
    ASSUME IInv, [Next]_vars, pc \in {"opening", "check_close", "closing"}
    PROVE  SameEntryAtCursor
<1>1. pos \in DOMAIN list /\ list \in Seq(Entry) /\ list[pos] \in Entry
  BY DEF IInv, CursorValid, TypeOK
<1>2. CASE UNCHANGED list
  BY <1>1, <1>2 DEF SameEntryAtCursor, cur
<1>3. CASE execute_open_event
  BY <1>1, <1>3 DEF execute_open_event, SameEntryAtCursor, cur, Entry
<1>4. CASE visit_close
  <2>1. CASE list' = [list EXCEPT ![pos].remove = TRUE]
    BY <1>1, <2>1 DEF SameEntryAtCursor, cur, Entry
  <2> QED
    BY <1>2, <1>4, <2>1 DEF visit_close
<1>5. CASE execute_close_event
  BY <1>1, <1>5 DEF execute_close_event, SameEntryAtCursor, cur, Entry
<1>6. CASE consumer
  <2>1. ~consumer_lock /\ ~wait_for_producer /\ ~visit_open /\ ~end_of_visits
        /\ ~sweep /\ ~consumer_unlock
    BY DEF consumer_lock, wait_for_producer, visit_open, end_of_visits, sweep,
         consumer_unlock
  <2> QED
    BY <1>3, <1>4, <1>5, <1>6, <2>1 DEF consumer
<1>7. CASE add_some_event
  BY <1>7 DEF add_some_event, event_handling_add_event, consumer_has_mutex
<1>8. CASE ClockAdvances
  BY <1>2, <1>8 DEF ClockAdvances
<1>9. CASE \E f \in Files, type \in EventTypes : stamp_event(f, type)
  BY <1>2, <1>9 DEF stamp_event
<1>10. CASE UNCHANGED vars
  BY <1>2, <1>10 DEF vars
<1> QED
  BY <1>6, <1>7, <1>8, <1>9, <1>10 DEF Next

\* While system() runs, and until the flags are updated, the consumer's entry
\* stays in its place in the list and stays the same file's.
THEOREM EntryStays == Spec => EntryStaysUnderCommand
<1>1. IInv /\ [Next]_vars =>
        [(pc \in {"opening", "check_close", "closing"}) => SameEntryAtCursor]_vars
  BY CursorStep
<1> QED
  BY <1>1, TrackerInvariant, PTL DEF Spec, EntryStaysUnderCommand

-----------------------------------------------------------------------------
(* The leap of the tick.                                                    *)

\* A tick counts at least the milliseconds of real time.
LEMMA RealMsOfTick ==
    ASSUME NEW a \in Nat, NEW b \in Nat, b <= a
    PROVE  RealMs(a) - RealMs(b) <= a - b
<1> DEFINE T == TicksPerSec
           M == MsPerSec
           p == a \div T
           q == b \div T
<1>1. T \in Nat \ {0} /\ M \in Nat /\ M <= T
  BY ClockAssumption
<1>2. p \in Nat /\ a = T * p + (a % T) /\ a % T \in 0..T - 1
  BY <1>1
<1>3. q \in Nat /\ b = T * q + (b % T) /\ b % T \in 0..T - 1
  BY <1>1
<1>4. q <= p
  BY <1>1
<1>5. PICK d \in Nat : p = q + d
  <2>1. p - q \in Nat /\ p = q + (p - q)
    BY <1>2, <1>3, <1>4
  <2> QED
    BY <2>1
<1>6. RealMs(a) = p * M + (a % T) /\ RealMs(b) = q * M + (b % T)
  BY DEF RealMs
<1> HIDE DEF T, M, p, q
<1>7. T * p = T * q + T * d /\ p * M = q * M + d * M
  BY <1>1, <1>2, <1>3, <1>5
<1>8. d * M <= T * d
  <2>1. PICK k \in Nat : T = M + k
    <3>1. T - M \in Nat /\ T = M + (T - M)
      BY <1>1
    <3> QED
      BY <3>1
  <2>2. T * d = d * M + k * d
    BY <1>1, <1>5, <2>1
  <2>3. k * d \in Nat /\ d * M \in Nat
    BY <1>1, <1>5, <2>1
  <2> QED
    BY <2>2, <2>3
<1>9. T * q \in Nat /\ T * d \in Nat /\ q * M \in Nat /\ d * M \in Nat
  BY <1>1, <1>3, <1>5
<1> QED
  BY <1>2, <1>3, <1>6, <1>7, <1>8, <1>9

\* A file that has been open for longer than min_read_close is never taken for
\* one that has not: calc_open_delta may overstate the time, never understate
\* it.
THEOREM DelayIsNeverOverstated == Spec => []DelayNeverOverstated
<1>1. IInv => DelayNeverOverstated
  <2> SUFFICES ASSUME IInv, NEW i \in DOMAIN list,
                      RealMs(event_handling_get_tick)
                          - RealMs(list[i].open_timestamp)
                              > max_delay_before_fire
               PROVE  has_open_past_delay(list[i])
    BY DEF DelayNeverOverstated
  <2> DEFINE now == event_handling_get_tick
             then == list[i].open_timestamp
  <2>1. now \in Nat /\ then \in Nat /\ then <= now
    <3>1. ListInv /\ clock \in Clock
      BY IInvParts
    <3>2. list[i] \in Entry /\ now \in Nat
      BY <3>1, EntryAt, TickType
    <3> QED
      BY <3>1, <3>2 DEF Entry, ListInv
  <2>2. RealMs(now) - RealMs(then) <= now - then
    BY <2>1, RealMsOfTick
  <2>3. RealMs(now) \in Int /\ RealMs(then) \in Int
    BY <2>1, ClockAssumption DEF RealMs
  <2>4. calc_open_delta(list[i]) = now - then
    BY <2>1 DEF calc_open_delta
  <2>5. RealMs(now) - RealMs(then) > max_delay_before_fire
    OBVIOUS
  <2> HIDE DEF now, then
  <2> QED
    BY <2>1, <2>2, <2>3, <2>4, <2>5, ConfigAssumption DEF has_open_past_delay
<1> QED
  BY <1>1, TrackerInvariant, PTL

\* The delay that was tested before an open command is still past during it.
OpeningIsDue == pc = "opening" => has_open_past_delay(cur)

\* What has_open_past_delay tests, for a file that was opened in the past.
LEMMA PastDelay ==
    ASSUME clock \in Clock, NEW e, e.open_timestamp \in Nat
    PROVE  has_open_past_delay(e) <=>
               event_handling_get_tick - e.open_timestamp > max_delay_before_fire
BY TickType, ConfigAssumption DEF has_open_past_delay, calc_open_delta

\* Neither the clock nor the producer takes that back.
LEMMA OpeningStaysDue ==
    ASSUME IInv, OpeningIsDue, [Next]_vars
    PROVE  OpeningIsDue'
<1> SUFFICES ASSUME pc' = "opening" PROVE has_open_past_delay(cur)'
  BY DEF OpeningIsDue
<1>1. clock \in Clock
  BY IInvParts
<1>2. CASE visit_open
  BY <1>2 DEF visit_open, has_open_past_delay, calc_open_delta,
     event_handling_get_tick, cur
<1>3. CASE consumer
  <2>1. ~consumer_lock /\ ~wait_for_producer /\ ~execute_open_event /\ ~visit_close
        /\ ~execute_close_event /\ ~end_of_visits /\ ~sweep /\ ~consumer_unlock
    BY DEF consumer_lock, wait_for_producer, begin_pass, execute_open_event,
       visit_close, next_entry, execute_close_event, end_of_visits, sweep,
       consumer_unlock
  <2> QED
    BY <1>2, <1>3, <2>1 DEF consumer
<1>4. CASE add_some_event
  BY <1>4 DEF add_some_event, event_handling_add_event, consumer_has_mutex, signal
<1>5. CASE ClockAdvances
  <2>1. pc = "opening" /\ UNCHANGED <<list, pos>>
    BY <1>5 DEF ClockAdvances
  <2>2. cur.open_timestamp \in Nat /\ cur' = cur
    <3>1. list[pos] \in Entry
      BY <2>1 DEF IInv, CursorValid, TypeOK
    <3> QED
      BY <2>1, <3>1 DEF cur, Entry
  <2>3. /\ clock' \in Clock
        /\ event_handling_get_tick <= event_handling_get_tick'
    BY <1>1, <1>5, TickMonotone
  <2>4. event_handling_get_tick \in Nat /\ event_handling_get_tick' \in Nat
    BY <1>1, <2>3, TickType, TickTypePrime
  <2>5. event_handling_get_tick - cur.open_timestamp > max_delay_before_fire
    <3>1. has_open_past_delay(cur)
      BY <2>1 DEF OpeningIsDue
    <3> QED
      BY <1>1, <2>2, <3>1, PastDelay
  <2>6. event_handling_get_tick' - cur.open_timestamp > max_delay_before_fire
    BY <2>2, <2>3, <2>4, <2>5, ConfigAssumption
  <2>7. ~(event_handling_get_tick' < cur.open_timestamp)
    BY <2>2, <2>4, <2>6, ConfigAssumption
  <2> QED
    BY <2>2, <2>6, <2>7 DEF has_open_past_delay, calc_open_delta
<1>6. CASE \E f \in Files, type \in EventTypes : stamp_event(f, type)
  BY <1>6 DEF stamp_event, OpeningIsDue, has_open_past_delay, calc_open_delta,
     event_handling_get_tick, cur
<1>7. CASE UNCHANGED vars
  BY <1>7 DEF vars, OpeningIsDue, has_open_past_delay, calc_open_delta,
     event_handling_get_tick, cur
<1> QED
  BY <1>3, <1>4, <1>5, <1>6, <1>7 DEF Next

\* Between two ticks lie the real milliseconds and the leaps, and no more.
LEMMA RealMsAndLeaps ==
    ASSUME NEW now \in Nat, NEW then \in Nat
    PROVE  RealMs(now) - RealMs(then) + Leaps(now, then) = now - then
<1> DEFINE T == TicksPerSec
           M == MsPerSec
           p == now \div T
           q == then \div T
           r == now % T
           s == then % T
<1>1. T \in Nat \ {0} /\ M \in Nat
  BY ClockAssumption
<1>2. p \in Nat /\ now = T * p + r /\ r \in Nat
  BY <1>1
<1>3. q \in Nat /\ then = T * q + s /\ s \in Nat
  BY <1>1
<1>4. RealMs(now) = p * M + r /\ RealMs(then) = q * M + s
      /\ Leaps(now, then) = (p - q) * (T - M)
  BY DEF RealMs, Leaps
<1> HIDE DEF T, M, p, q, r, s
<1>5. (p - q) * (T - M) = T * p - T * q - p * M + q * M
  BY <1>1, <1>2, <1>3
<1>6. T * p \in Nat /\ T * q \in Nat /\ p * M \in Nat /\ q * M \in Nat
  BY <1>1, <1>2, <1>3
<1> QED
  BY <1>2, <1>3, <1>4, <1>5, <1>6

\* When an open command runs, min_read_close has elapsed, but for what the ends
\* of seconds count for: watch_it.conf is right about every file that is opened
\* and reported within one second, whatever else happens.
THEOREM OnlyLeapsShorten == Spec => []OnlyLeapsShortenDelay
<1>1. Init => OpeningIsDue
  BY DEF Init, OpeningIsDue
<1>2. IInv /\ OpeningIsDue /\ [Next]_vars => OpeningIsDue'
  BY OpeningStaysDue
<1>3. IInv /\ OpeningIsDue => OnlyLeapsShortenDelay
  <2> SUFFICES ASSUME IInv, OpeningIsDue, pc = "opening" PROVE OnlyLeapsShortenDelay
    BY DEF OnlyLeapsShortenDelay
  <2> DEFINE now == event_handling_get_tick
             then == cur.open_timestamp
  <2>1. clock \in Clock /\ now \in Nat /\ then \in Nat
    <3>1. clock \in Clock /\ list[pos] \in Entry
      BY IInvParts DEF IInv, CursorValid, TypeOK
    <3> QED
      BY <3>1, TickType DEF cur, Entry
  <2>2. now - then > max_delay_before_fire
    BY <2>1, PastDelay DEF OpeningIsDue
  <2>3. RealMs(now) - RealMs(then) + Leaps(now, then) = now - then
    BY <2>1, RealMsAndLeaps
  <2> HIDE DEF now, then
  <2>4. RealMs(now) - RealMs(then) + Leaps(now, then) > max_delay_before_fire
    BY <2>2, <2>3
  <2> QED
    BY <2>4 DEF OnlyLeapsShortenDelay, now, then
<1> QED
  BY <1>1, <1>2, <1>3, TrackerInvariant, PTL DEF Spec

-----------------------------------------------------------------------------
(* The tracker implements CommandCycle: every step of its two threads is a  *)
(* step of the abstract specification, or changes neither the command that  *)
(* runs nor the set of files whose open command has run.                    *)

\* What runs, in terms of the program counter.
LEMMA RunningValue ==
    /\ pc = "opening" => running = CC!Command("open", cur.file)
    /\ pc = "closing" => running = CC!Command("close", cur.file)
    /\ pc \notin {"opening", "closing"} => running = CC!NoCommand
BY DEF running, CC!Command, CC!NoCommand

\* And in the next state.
LEMMA RunningValuePrime ==
    /\ pc' = "opening" => running' = CC!Command("open", (list')[pos'].file)
    /\ pc' = "closing" => running' = CC!Command("close", (list')[pos'].file)
    /\ pc' \notin {"opening", "closing"} => running' = CC!NoCommand
BY DEF running, CC!Command, CC!NoCommand, cur

\* An entry of the list stands for its file in opened.
LEMMA InOpened ==
    ASSUME ListInv, NEW i \in DOMAIN list
    PROVE  list[i].file \in opened
               <=> list[i].has_fired_open /\ ~list[i].remove
BY DEF ListInv, UniqueEntries, opened

\* A step that is neither a command's start nor its end, nor a silent end.
LEMMA Stutter ==
    ASSUME running' = running, opened' = opened
    PROVE  [CC!Next]_(CC!vars)
BY DEF CC!vars

\* Steps that keep the list, between commands.
LEMMA SameListStep ==
    ASSUME UNCHANGED list, pc \notin {"opening", "closing"},
           pc' \notin {"opening", "closing"}
    PROVE  [CC!Next]_(CC!vars)
<1>1. opened' = opened
  BY DEF opened
<1>2. running' = running
  BY RunningValue, RunningValuePrime
<1> QED
  BY <1>1, <1>2, Stutter

\* The open command starts.
LEMMA StartOpenStep ==
    ASSUME IInv, visit_open
    PROVE  [CC!Next]_(CC!vars)
<1>1. /\ ListInv /\ pc = "visit" /\ pos \in DOMAIN list
      /\ list[pos] \in Entry /\ UNCHANGED <<list, pos>>
  BY IInvParts DEF visit_open, ListInv
<1>2. CASE pc' = "opening"
  <2>1. can_execute_open(list[pos])
    BY <1>2 DEF visit_open, cur
  <2>2. list[pos].file \notin opened
    BY <1>1, <2>1, InOpened DEF can_execute_open
  <2>3. opened' = opened
    BY <1>1 DEF opened
  <2>4. running = CC!NoCommand /\ running' = CC!Command("open", list[pos].file)
    BY <1>1, <1>2, RunningValue, RunningValuePrime
  <2>5. list[pos].file \in Files
    BY <1>1 DEF Entry
  <2>6. CC!StartOpen(list[pos].file)
    BY <2>1, <2>2, <2>3, <2>4 DEF CC!StartOpen, can_execute_open
  <2> QED
    BY <2>5, <2>6 DEF CC!Next
<1>3. CASE pc' = "check_close"
  BY <1>1, <1>3, SameListStep
<1> QED
  BY <1>2, <1>3 DEF visit_open

\* The open command returns.
LEMMA OpenReturnsStep ==
    ASSUME IInv, execute_open_event
    PROVE  [CC!Next]_(CC!vars)
<1> DEFINE e == [list[pos] EXCEPT !.has_fired_open = TRUE]
<1>1. /\ pc = "opening" /\ pc' = "check_close"
      /\ list' = [list EXCEPT ![pos] = e]
  BY DEF execute_open_event
<1>2. /\ ListInv /\ pos \in DOMAIN list /\ list[pos] \in Entry
      /\ EntryConsistent(list[pos]) /\ ~list[pos].has_fired_open
  BY <1>1 DEF IInv, TypeOK, ListInv, CursorValid, EntriesConsistent, TimesArePast,
       CommandStillDue, can_execute_open, cur
<1>3. /\ e \in Entry /\ e.file = list[pos].file
      /\ e.has_fired_open /\ ~e.remove
  BY <1>2, OpenedEntryProps
<1> HIDE DEF e
<1>4. /\ list \in Seq(Entry) /\ DOMAIN list' = DOMAIN list /\ (list')[pos] = e
      /\ \A j \in DOMAIN list : j # pos => (list')[j] = list[j]
  BY <1>1, <1>2 DEF ListInv
<1>5. opened' = opened \cup {list[pos].file}
  BY <1>2, <1>3, <1>4 DEF opened
<1>6. /\ running = CC!Command("open", list[pos].file)
      /\ running' = CC!NoCommand
  BY <1>1, RunningValue, RunningValuePrime DEF cur
<1>7. list[pos].file \in Files
  BY <1>2 DEF Entry
<1>8. CC!OpenReturns(list[pos].file)
  BY <1>5, <1>6 DEF CC!OpenReturns
<1> QED
  BY <1>7, <1>8 DEF CC!Next

\* Marking an entry takes its file, and no other, out of opened.
LEMMA MarkedOpened ==
    ASSUME ListInv, pos \in DOMAIN list,
           DOMAIN list' = DOMAIN list,
           (list')[pos].remove,
           \A j \in DOMAIN list : j # pos => (list')[j] = list[j]
    PROVE  opened' = opened \ {list[pos].file}
<1>1. \A j \in DOMAIN list : list[j].file = list[pos].file => j = pos
  BY DEF ListInv, UniqueEntries
<1> QED
  BY <1>1 DEF opened

\* The close command starts, or the entry ends silently.
LEMMA VisitCloseStep ==
    ASSUME IInv, visit_close
    PROVE  [CC!Next]_(CC!vars)
<1>1. /\ pc = "check_close" /\ pos \in DOMAIN list /\ ListInv
      /\ EntryConsistent(list[pos]) /\ list[pos].file \in Files
  BY IInvParts, EntryAt DEF visit_close, CursorValid
<1>2. running = CC!NoCommand
  BY <1>1, RunningValue
<1>3. CASE /\ close_is_due(cur) /\ can_execute_close(cur) /\ pc' = "closing"
           /\ UNCHANGED <<list, pos>>
  <2>1. HasCloseCmd /\ list[pos].has_fired_open /\ ~list[pos].has_fired_closed
    BY <1>3 DEF can_execute_close, cur
  <2>2. ~list[pos].remove
    BY <1>1, <2>1 DEF EntryConsistent
  <2>3. list[pos].file \in opened
    BY <1>1, <2>1, <2>2, InOpened
  <2>4. running' = CC!Command("close", list[pos].file) /\ opened' = opened
    BY <1>3, RunningValuePrime DEF opened
  <2>5. CC!StartClose(list[pos].file)
    BY <1>2, <2>1, <2>3, <2>4 DEF CC!StartClose
  <2> QED
    BY <1>1, <2>5 DEF CC!Next
<1>4. CASE /\ close_is_due(cur) /\ ~can_execute_close(cur) /\ next_entry
           /\ list' = [list EXCEPT ![pos].remove = TRUE]
  <2>1. UNCHANGED clock /\ ~HasCloseCmd /\ close_is_due(list[pos])
        /\ pc' = "visit"
    BY <1>4 DEF next_entry, close_is_due, can_execute_close, cur
  <2>2. opened' = opened \ {list[pos].file}
    BY <1>1, <1>4, <2>1, MarkedList, MarkedOpened
  <2>3. running' = CC!NoCommand
    BY <2>1, RunningValuePrime
  <2>4. CASE list[pos].file \in opened
    <3>1. CC!EndSilently(list[pos].file)
      BY <1>2, <2>1, <2>2, <2>3, <2>4 DEF CC!EndSilently
    <3> QED
      BY <1>1, <3>1 DEF CC!Next
  <2>5. CASE list[pos].file \notin opened
    BY <1>2, <2>2, <2>3, <2>5, Stutter
  <2> QED
    BY <2>4, <2>5
<1>5. CASE UNCHANGED list /\ next_entry
  BY <1>1, <1>5, SameListStep DEF next_entry
<1> QED
  BY <1>3, <1>4, <1>5 DEF visit_close

\* The close command returns.
LEMMA CloseReturnsStep ==
    ASSUME IInv, execute_close_event
    PROVE  [CC!Next]_(CC!vars)
<1>1. /\ pos \in DOMAIN list /\ close_is_due(list[pos]) /\ HasCloseCmd
      /\ pc = "closing" /\ pc' = "visit" /\ UNCHANGED clock
      /\ ListInv /\ list[pos].file \in Files
  BY IInvParts, EntryAt DEF execute_close_event, next_entry, CursorValid,
       CommandStillDue, can_execute_close, cur
<1>2. list' = [list EXCEPT ![pos].has_fired_closed = TRUE,
                           ![pos].remove = TRUE]
  BY DEF execute_close_event
<1>3. opened' = opened \ {list[pos].file}
  BY <1>1, <1>2, MarkedList, MarkedOpened
<1>4. /\ running = CC!Command("close", list[pos].file)
      /\ running' = CC!NoCommand
  BY <1>1, RunningValue, RunningValuePrime DEF cur
<1>5. CC!CloseReturns(list[pos].file)
  BY <1>3, <1>4 DEF CC!CloseReturns
<1> QED
  BY <1>1, <1>5 DEF CC!Next

\* A marked entry that is deleted was no longer in opened.
LEMMA SweepStep ==
    ASSUME IInv, sweep
    PROVE  [CC!Next]_(CC!vars)
<1>1. /\ pc = "sweep" /\ pc' = "sweep" /\ pos \in DOMAIN list
      /\ UNCHANGED clock /\ ListInv /\ list \in Seq(Entry)
  BY IInvParts DEF sweep, ListInv
<1>2. running' = running
  BY <1>1, RunningValue, RunningValuePrime
<1>3. CASE cur.remove /\ list' = remove_from_list(pos)
  <2>1. list[pos].remove
    BY <1>3 DEF cur
  <2>2. opened' = opened
    BY <1>1, <1>3, <2>1, RemovedOpened
  <2> QED
    BY <1>2, <2>2, Stutter
<1>4. CASE UNCHANGED list
  BY <1>1, <1>4, SameListStep
<1> QED
  BY <1>3, <1>4 DEF sweep

\* The producer neither runs a command nor forgets an opened file.
LEMMA AddEventStep ==
    ASSUME IInv, NEW res, event_handling_add_event(res)
    PROVE  [CC!Next]_(CC!vars)
<1>1. opened' = opened
  BY AddEventList
<1>2. pc \notin {"opening", "closing"} /\ pc' \notin {"opening", "closing"}
  BY DEF event_handling_add_event, consumer_has_mutex, signal, IInv, TypeOK
<1>3. running' = running
  BY <1>2, RunningValue, RunningValuePrime
<1> QED
  BY <1>1, <1>3, Stutter

\* All actions.
LEMMA NextStep == IInv /\ [Next]_vars => [CC!Next]_(CC!vars)
<1> SUFFICES ASSUME IInv, [Next]_vars PROVE [CC!Next]_(CC!vars)
  OBVIOUS
<1>1. CASE UNCHANGED <<list, pc, pos>>
  <2>1. running' = running /\ opened' = opened
    BY <1>1 DEF running, opened, cur
  <2> QED
    BY <2>1, Stutter
<1>2. CASE add_some_event
  BY <1>2, AddEventStep DEF add_some_event
<1>3. CASE consumer_lock \/ wait_for_producer \/ end_of_visits \/ consumer_unlock
  <2>1. UNCHANGED list /\ pc \notin {"opening", "closing"}
        /\ pc' \notin {"opening", "closing"}
    BY <1>3 DEF consumer_lock, wait_for_producer, begin_pass, end_of_visits,
         consumer_unlock
  <2> QED
    BY <2>1, SameListStep
<1>4. CASE consumer
  BY <1>3, <1>4, StartOpenStep, OpenReturnsStep, VisitCloseStep,
     CloseReturnsStep, SweepStep DEF consumer
<1>5. CASE ClockAdvances \/ UNCHANGED vars
           \/ \E f \in Files, type \in EventTypes : stamp_event(f, type)
  <2>1. UNCHANGED <<list, pc, pos>>
    BY <1>5 DEF ClockAdvances, vars, stamp_event
  <2> QED
    BY <1>1, <2>1
<1> QED
  BY <1>2, <1>4, <1>5 DEF Next

\* The tracker implements CommandCycle: for each file the open and the close
\* command alternate, beginning with the open command, they run one at a time,
\* and no file whose open command has run is forgotten, whatever events come
\* in whatever order and however often malloc fails.
THEOREM CommandsAlternate == Spec => ImplementsCommandCycle
<1>1. Init => CC!Init
  <2> SUFFICES ASSUME Init PROVE CC!Init
    OBVIOUS
  <2>1. list = <<>> /\ DOMAIN list = {} /\ pc = "lock"
    BY DEF Init
  <2>2. opened = {}
    BY <2>1 DEF opened
  <2>3. running = CC!NoCommand
    BY <2>1, RunningValue
  <2> QED
    BY <2>2, <2>3 DEF CC!Init
<1>2. IInv /\ [Next]_vars => [CC!Next]_(CC!vars)
  BY NextStep
<1> QED
  BY <1>1, <1>2, TrackerInvariant, PTL DEF Spec, ImplementsCommandCycle, CC!Spec
=============================================================================
