---------------------------- MODULE DictionaryMap ----------------------------
(***************************************************************************)
(* What dictionary.c promises: a map from keys to values.  A key that was  *)
(* set to NULL is in the map; a key that is not gets the default that the  *)
(* caller of dictionary_get passes.  When memory runs out a set may lose   *)
(* the value, or a new key, and still report success.                      *)
(***************************************************************************)
EXTENDS Integers

CONSTANTS Keys, Vals, NULL, DICT_INVALID_KEY, AllocMayFail

VARIABLES
    map, state,
    ret,        \* what the last operation returned
    call        \* the last operation

vars == <<map, state, ret, call>>

Init ==
    /\ map = [k \in Keys |-> DICT_INVALID_KEY]
    /\ state = "live"
    /\ ret = 0
    /\ call = <<"new">>

store(k, v) == map' = [map EXCEPT ![k] = v]

set(k, v) ==
    /\ state = "live"
    /\ ret' = 0
    /\ \/ store(k, v)
       \/ AllocMayFail /\ store(k, NULL)
       \/ AllocMayFail /\ map[k] = DICT_INVALID_KEY /\ UNCHANGED map
    /\ UNCHANGED state

\* A key that is NULL is an error.
set_null ==
    /\ state = "live"
    /\ ret' = -1
    /\ UNCHANGED <<map, state>>

\* There is no room for a new key.
set_fails ==
    /\ AllocMayFail
    /\ state = "live"
    /\ ret' = -1
    /\ state' = "failed"
    /\ UNCHANGED map

get(k) ==
    /\ state = "live"
    /\ ret' = map[k]
    /\ UNCHANGED <<map, state>>

unset(k) ==
    /\ state = "live"
    /\ store(k, DICT_INVALID_KEY)
    /\ UNCHANGED <<state, ret>>

del ==
    /\ state \in {"live", "failed"}
    /\ state' = "deleted"
    /\ UNCHANGED <<map, ret>>

crash ==
    /\ AllocMayFail
    /\ state \in {"live", "failed"}
    /\ state' = "crashed"
    /\ UNCHANGED <<map, ret>>

Next ==
    \/ \E k \in Keys \cup {NULL}, v \in Vals \cup {NULL} :
          /\ call' = <<"set", k, v>>
          /\ \/ k = NULL /\ set_null
             \/ k # NULL /\ (set(k, v) \/ set_fails \/ crash)
    \/ \E k \in Keys :
          \/ call' = <<"get", k>> /\ (get(k) \/ crash)
          \/ call' = <<"unset", k>> /\ (unset(k) \/ crash)
    \/ call' = <<"del">> /\ (del \/ crash)

Spec == Init /\ [][Next]_vars
==============================================================================
