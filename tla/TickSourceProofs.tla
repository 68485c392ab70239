--------------------------- MODULE TickSourceProofs ---------------------------
(***************************************************************************)
(* The properties of TickSource, for any number of threads and any range of*)
(* the clock.                                                              *)
(***************************************************************************)
EXTENDS TickSource, TLAPS

\* Every step keeps the types.
LEMMA TypeStep == TypeOK /\ [Next]_vars => TypeOK'
<1> SUFFICES ASSUME TypeOK, [Next]_vars PROVE TypeOK'
  OBVIOUS
<1> USE MaxTickAssumption DEF Ticks
<1>1. CASE ClockAdvances
  BY <1>1 DEF TypeOK, ClockAdvances, historyVars
<1>2. CASE settimeofday
  BY <1>2 DEF TypeOK, settimeofday
<1>3. ASSUME NEW t \in Threads, clock_gettime(t) PROVE TypeOK'
  BY <1>3 DEF TypeOK, clock_gettime
<1>4. ASSUME NEW t \in Threads, clock_gettime_fails(t) PROVE TypeOK'
  BY <1>4 DEF TypeOK, clock_gettime_fails, historyVars
<1>5. ASSUME NEW t \in Threads, compare(t) PROVE TypeOK'
  BY <1>5 DEF TypeOK, compare, historyVars
<1>6. ASSUME NEW t \in Threads, store(t) PROVE TypeOK'
  BY <1>6 DEF TypeOK, store, historyVars
<1>7. ASSUME NEW t \in Threads, return(t) PROVE TypeOK'
  BY <1>7 DEF TypeOK, return
<1>8. CASE UNCHANGED vars
  BY <1>8 DEF TypeOK, vars, historyVars
<1> QED
  BY <1>1, <1>2, <1>3, <1>4, <1>5, <1>6, <1>7, <1>8 DEF Next, event_handling_get_tick

\* While the clock only advances, what a call has read is no older than the
\* calls going on, and so is what it stores.
LEMMA FreshStep == TypeOK /\ FreshInv /\ [Next]_vars => FreshInv'
<1> SUFFICES ASSUME TypeOK, FreshInv, [Next]_vars, ~set_back' PROVE FreshInv'
  BY DEF FreshInv
<1> USE MaxTickAssumption DEF Ticks, TypeOK, calling
<1>0. ASSUME ~set_back PROVE
         /\ quiet <= now /\ last_tick <= now
         /\ \A t \in Threads : calling(t) => cur_tick[t] \in quiet..now
         /\ \A t \in Threads : at[t] = "return" => last_tick >= quiet
  BY <1>0 DEF FreshInv
<1>1. CASE ClockAdvances
  BY <1>0, <1>1 DEF ClockAdvances, historyVars, FreshInv
<1>2. CASE settimeofday
  BY <1>2 DEF settimeofday
<1>3. ASSUME NEW t \in Threads, clock_gettime(t) PROVE FreshInv'
  BY <1>0, <1>3 DEF clock_gettime, FreshInv
<1>4. ASSUME NEW t \in Threads, clock_gettime_fails(t) PROVE FreshInv'
  BY <1>0, <1>4 DEF clock_gettime_fails, historyVars, FreshInv
<1>5. ASSUME NEW t \in Threads, compare(t) PROVE FreshInv'
  BY <1>0, <1>5 DEF compare, historyVars, FreshInv
<1>6. ASSUME NEW t \in Threads, store(t) PROVE FreshInv'
  BY <1>0, <1>6 DEF store, historyVars, FreshInv
<1>7. ASSUME NEW t \in Threads, return(t) PROVE FreshInv'
  BY <1>0, <1>7 DEF return, FreshInv
<1>8. CASE UNCHANGED vars
  BY <1>0, <1>8 DEF vars, historyVars, FreshInv
<1> QED
  BY <1>1, <1>2, <1>3, <1>4, <1>5, <1>6, <1>7, <1>8 DEF Next, event_handling_get_tick

\* While calls come one at a time, last_tick ascends.
LEMMA AloneStep == TypeOK /\ AloneInv /\ [Next]_vars => AloneInv'
<1> SUFFICES ASSUME TypeOK, AloneInv, [Next]_vars, ~raced' PROVE AloneInv'
  BY DEF AloneInv
<1> USE MaxTickAssumption DEF Ticks, TypeOK, calling
<1>0. ASSUME ~raced PROVE
         /\ \A t, u \in Threads : calling(t) /\ calling(u) => t = u
         /\ last_tick >= last_call
         /\ \A t \in Threads : at[t] = "store" => cur_tick[t] >= last_tick
  BY <1>0 DEF AloneInv
<1>1. CASE ClockAdvances
  BY <1>0, <1>1 DEF ClockAdvances, historyVars, AloneInv
<1>2. CASE settimeofday
  BY <1>0, <1>2 DEF settimeofday, AloneInv
<1>3. ASSUME NEW t \in Threads, clock_gettime(t) PROVE AloneInv'
  BY <1>0, <1>3 DEF clock_gettime, AloneInv
<1>4. ASSUME NEW t \in Threads, clock_gettime_fails(t) PROVE AloneInv'
  BY <1>0, <1>4 DEF clock_gettime_fails, historyVars, AloneInv
<1>5. ASSUME NEW t \in Threads, compare(t) PROVE AloneInv'
  BY <1>0, <1>5 DEF compare, historyVars, AloneInv
<1>6. ASSUME NEW t \in Threads, store(t) PROVE AloneInv'
  BY <1>0, <1>6 DEF store, historyVars, AloneInv
<1>7. ASSUME NEW t \in Threads, return(t) PROVE AloneInv'
  BY <1>0, <1>7 DEF return, AloneInv
<1>8. CASE UNCHANGED vars
  BY <1>0, <1>8 DEF vars, historyVars, AloneInv
<1> QED
  BY <1>1, <1>2, <1>3, <1>4, <1>5, <1>6, <1>7, <1>8 DEF Next, event_handling_get_tick

\* Types, freshness and order, in every reachable state.
THEOREM TickInvariant == Spec => []TickInv
<1>1. Init => TickInv
  <2> SUFFICES ASSUME Init PROVE TypeOK /\ FreshInv /\ AloneInv
    BY DEF TickInv
  <2> USE MaxTickAssumption DEF Init, Ticks
  <2>0. 0 \in Ticks /\ now \in Ticks
    OBVIOUS
  <2>1. TypeOK
    <3>1. /\ at \in [Threads -> {"out", "compare", "store", "return"}]
          /\ cur_tick \in [Threads -> Ticks]
          /\ tick \in [Threads -> Ticks \cup {NoTick}]
      BY <2>0
    <3> QED
      BY <2>0, <3>1 DEF TypeOK
  <2>2. \A t \in Threads : at[t] = "out"
    OBVIOUS
  <2>3. FreshInv
    BY <2>2 DEF FreshInv, calling
  <2>4. AloneInv
    BY <2>2 DEF AloneInv, calling
  <2> QED
    BY <2>1, <2>3, <2>4
<1>2. TickInv /\ [Next]_vars => TickInv'
  BY TypeStep, FreshStep, AloneStep DEF TickInv
<1> QED
  BY <1>1, <1>2, PTL DEF Spec

\* A time stamp is wrong by no more than a thread was held up between its
\* comparison and its store, while the clock is not set back.
THEOREM FreshTicks == Spec => ReturnedTickIsFresh
<1>1. TickInv /\ [Next]_vars =>
        [\A t \in Threads : (return(t) /\ ~set_back) => tick'[t] >= quiet]_vars
  BY DEF TickInv, TypeOK, FreshInv, return
<1> QED
  BY <1>1, TickInvariant, PTL DEF Spec, ReturnedTickIsFresh

\* Without overlapping calls ticks ascend, although the clock may not.
THEOREM AscendingTicks == Spec => TicksAscendAlone
<1>1. TickInv /\ [Next]_vars => [~raced' => last_call' >= last_call]_vars
  <2> SUFFICES ASSUME TickInv, [Next]_vars, ~raced' PROVE last_call' >= last_call
    OBVIOUS
  <2>1. last_call \in Int
    BY MaxTickAssumption DEF TickInv, TypeOK, Ticks
  <2>2. CASE last_call' = last_call
    BY <2>1, <2>2
  <2>3. ASSUME NEW t \in Threads, return(t) PROVE last_call' >= last_call
    BY <2>3 DEF TickInv, AloneInv, return
  <2> QED
    BY <2>2, <2>3 DEF Next, event_handling_get_tick, ClockAdvances, settimeofday,
       clock_gettime, clock_gettime_fails, compare, store, vars, historyVars
<1> QED
  BY <1>1, TickInvariant, PTL DEF Spec, TicksAscendAlone
=============================================================================
