------------------------------ MODULE TickSource ------------------------------
(***************************************************************************)
(* event_handling_get_tick (src/src/event_handling.c) at the grain of its  *)
(* readings and writings of last_tick.  get_event calls it in the main     *)
(* thread without the mutex, while the consumer thread, which has the      *)
(* mutex, calls it too.  The clock is the one an administrator may set     *)
(* back, and it is counted in ticks: that a tick leaps at the end of a     *)
(* second is the business of EventHandling, which reads the clock in one   *)
(* step.                                                                   *)
(***************************************************************************)
EXTENDS Integers

CONSTANTS
    Threads,        \* the main thread and the consumer
    MaxTick         \* bound: the last tick of the clock

ASSUME MaxTickAssumption == MaxTick \in Nat

VARIABLES
    now,        \* CLOCK_REALTIME, as a tick
    last_tick,
    at,         \* where in the function each thread is
    cur_tick,   \* the local variable of each thread
    tick,       \* what each thread's last call returned
    last_call,  \* history: what the last call to succeed returned
    quiet,      \* history: the clock when the calls now going on began
    set_back,   \* history: the clock has been set back
    raced       \* history: two calls have overlapped

historyVars == <<last_call, quiet, set_back, raced>>
vars == <<now, last_tick, at, cur_tick, tick, historyVars>>

NoTick == -1        \* a thread has not called yet

calling(t) == at[t] # "out"

-----------------------------------------------------------------------------
(* The clock.                                                               *)

ClockAdvances ==
    /\ now < MaxTick
    /\ now' = now + 1
    /\ UNCHANGED <<last_tick, at, cur_tick, tick, historyVars>>

settimeofday ==
    /\ \E n \in 0..now - 1 : now' = n
    /\ set_back' = TRUE
    /\ UNCHANGED <<last_tick, at, cur_tick, tick, last_call, quiet, raced>>

-----------------------------------------------------------------------------
(* A call.                                                                  *)

clock_gettime(t) ==
    /\ ~calling(t)
    /\ at' = [at EXCEPT ![t] = "compare"]
    /\ cur_tick' = [cur_tick EXCEPT ![t] = now]
    /\ quiet' = IF \E u \in Threads : calling(u) THEN quiet ELSE now
    /\ raced' = (raced \/ \E u \in Threads : calling(u))
    /\ UNCHANGED <<now, last_tick, tick, last_call, set_back>>

\* Mutant: -1 is handed to the caller, who takes it for an unsigned number.
clock_gettime_fails_with_error(t) ==
    /\ ~calling(t)
    /\ tick' = [tick EXCEPT ![t] = MaxTick + 1]
    /\ UNCHANGED <<now, last_tick, at, cur_tick, historyVars>>

clock_gettime_fails(t) ==
    /\ ~calling(t)
    /\ tick' = [tick EXCEPT ![t] = 0]
    /\ UNCHANGED <<now, last_tick, at, cur_tick, historyVars>>

\* Mutant: last_tick is not compared.
compare_with_nothing(t) ==
    /\ at[t] = "compare"
    /\ at' = [at EXCEPT ![t] = "store"]
    /\ UNCHANGED <<now, last_tick, cur_tick, tick, historyVars>>

\* Mutant: the wrong way round.
compare_for_less(t) ==
    /\ at[t] = "compare"
    /\ at' = [at EXCEPT ![t] = IF last_tick < cur_tick[t] THEN "return" ELSE "store"]
    /\ UNCHANGED <<now, last_tick, cur_tick, tick, historyVars>>

\* A clock that is behind last_tick is not believed.
compare(t) ==
    /\ at[t] = "compare"
    /\ at' = [at EXCEPT ![t] = IF last_tick > cur_tick[t] THEN "return" ELSE "store"]
    /\ UNCHANGED <<now, last_tick, cur_tick, tick, historyVars>>

store(t) ==
    /\ at[t] = "store"
    /\ last_tick' = cur_tick[t]
    /\ at' = [at EXCEPT ![t] = "return"]
    /\ UNCHANGED <<now, cur_tick, tick, historyVars>>

\* Both ways out read last_tick again, as it is built without optimisation.
return(t) ==
    /\ at[t] = "return"
    /\ tick' = [tick EXCEPT ![t] = last_tick]
    /\ last_call' = last_tick
    /\ at' = [at EXCEPT ![t] = "out"]
    /\ UNCHANGED <<now, last_tick, cur_tick, quiet, set_back, raced>>

event_handling_get_tick(t) ==
    \/ clock_gettime(t)
    \/ clock_gettime_fails(t)
    \/ compare(t)
    \/ store(t)
    \/ return(t)

-----------------------------------------------------------------------------

Init ==
    /\ now \in 0..MaxTick
    /\ last_tick = 0
    /\ at = [t \in Threads |-> "out"]
    /\ cur_tick = [t \in Threads |-> 0]
    /\ tick = [t \in Threads |-> NoTick]
    /\ last_call = 0
    /\ quiet = now
    /\ set_back = FALSE
    /\ raced = FALSE

Next ==
    \/ ClockAdvances
    \/ settimeofday
    \/ \E t \in Threads : event_handling_get_tick(t)

Spec == Init /\ [][Next]_vars

-----------------------------------------------------------------------------
(* Properties.                                                              *)

Ticks == 0..MaxTick

TypeOK ==
    /\ {now, last_tick, last_call, quiet} \subseteq Ticks
    /\ at \in [Threads -> {"out", "compare", "store", "return"}]
    /\ cur_tick \in [Threads -> Ticks]
    /\ tick \in [Threads -> Ticks \cup {NoTick}]
    /\ {set_back, raced} \subseteq BOOLEAN

\* A tick may be older than one the same thread was given before, although the
\* clock was never set back: another thread, overtaken between its comparison
\* and its store, puts an old time into last_tick.  But it is never older than
\* the calls that overlap: a time stamp is wrong by no more than such a thread
\* was held up.
ReturnedTickIsFresh ==
    [][\A t \in Threads :
          (return(t) /\ ~set_back) => tick'[t] >= quiet]_vars

\* Until two calls overlap, no call returns less than one before it, however
\* often the clock is set back.
TicksAscendAlone ==
    [][~raced' => last_call' >= last_call]_vars

-----------------------------------------------------------------------------
(* The inductive invariant.                                                 *)

\* Nothing that can still get into last_tick is older than the calls going on.
FreshInv ==
    ~set_back =>
        /\ quiet <= now /\ last_tick <= now
        /\ \A t \in Threads :
              /\ calling(t) => cur_tick[t] \in quiet..now
              /\ at[t] = "return" => last_tick >= quiet

\* One call at a time compares and stores.
AloneInv ==
    ~raced =>
        /\ \A t, u \in Threads : calling(t) /\ calling(u) => t = u
        /\ last_tick >= last_call
        /\ \A t \in Threads : at[t] = "store" => cur_tick[t] >= last_tick

TickInv == TypeOK /\ FreshInv /\ AloneInv
=============================================================================
