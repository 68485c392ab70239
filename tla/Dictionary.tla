------------------------------ MODULE Dictionary ------------------------------
(***************************************************************************)
(* The dictionary of the ini parser (src/src/iniparser/dictionary.c): three*)
(* arrays of one size, scanned from the start and compared by hash and then*)
(* by key, filled from slot n on and doubled when n reaches their size.    *)
(*                                                                         *)
(* After a dictionary_set that returns -1 because memory ran out the only  *)
(* caller in the program that looks at the result, iniparser_load, deletes *)
(* the dictionary, so no other operation follows.                          *)
(***************************************************************************)
EXTENDS Integers, FiniteSets

CONSTANTS
    Keys, Vals,         \* the strings in use
    HashOf,             \* dictionary_hash
    NULL,
    DICT_INVALID_KEY,   \* the default that callers of dictionary_get pass
    DICTMINSZ,          \* 128
    AllocMayFail,       \* calloc and malloc may return NULL
    MaxSize             \* bound: the size up to which the dictionary grows

ASSUME DictionaryAssumption ==
    /\ HashOf \in [Keys -> Nat]
    /\ NULL \notin Keys \cup Vals \cup {DICT_INVALID_KEY, 0, -1}
    /\ DICT_INVALID_KEY \notin Vals
    /\ DICTMINSZ \in Nat \ {0}
    /\ AllocMayFail \in BOOLEAN
    /\ MaxSize \in Nat

VARIABLES
    key, val, hash,     \* the arrays
    size, n,
    arrays,             \* the arrays that have been allocated
    state,              \* of the dictionary: live, failed, deleted, crashed
    ret,                \* what the last operation returned
    call                \* history: the last operation

contents == <<key, val, hash, size, n>>
vars == <<contents, arrays, state, ret, call>>

Arrays == {"key", "val", "hash"}
slots  == 0..size - 1

-----------------------------------------------------------------------------
(* Memory.                                                                  *)

\* t is what xstrdup returns for the string s.
xstrdup(s, t) == t = s \/ (AllocMayFail /\ t = NULL)

\* mem_double, when all goes well: the new half is zero.
mem_double(array, zero) ==
    [i \in 0..2 * size - 1 |-> IF i < size THEN array[i] ELSE zero]

crash ==
    /\ state' = "crashed"
    /\ UNCHANGED <<contents, arrays, ret>>

-----------------------------------------------------------------------------
(* Looking a key up.                                                        *)

\* Mutant: the hash is taken for the key.
same_hash(k, i) == key[i] # NULL /\ hash[i] = HashOf[k]

same_key(k, i) ==
    /\ key[i] # NULL
    /\ hash[i] = HashOf[k]
    /\ key[i] = k

\* Mutant: the scan ends at the number of keys.
found_below_n(k, i) == i < n /\ same_key(k, i)

\* The scan for key k stops at slot i.
found(k, i) ==
    /\ same_key(k, i)
    /\ \A j \in 0..i - 1 : ~same_key(k, j)

\* The scan reads an array that is not there.
scan_crashes ==
    \/ "key" \notin arrays
    \/ "hash" \notin arrays /\ \E i \in slots : key[i] # NULL

dictionary_get(k) ==
    /\ state = "live"
    /\ \/ /\ ~scan_crashes
          /\ \/ \E i \in slots : found(k, i) /\ ret' = val[i]
             \/ (\A i \in slots : ~found(k, i)) /\ ret' = DICT_INVALID_KEY
          /\ UNCHANGED <<contents, arrays, state>>
       \/ scan_crashes /\ crash

-----------------------------------------------------------------------------
(* Setting a value.                                                         *)

is_known(k) == n > 0 /\ \E i \in slots : found(k, i)

modify(k, v) ==
    /\ is_known(k)
    /\ \E i \in slots, t \in {v, NULL} :
          /\ found(k, i)
          /\ xstrdup(v, t)
          /\ val' = [val EXCEPT ![i] = t]
    /\ ret' = 0
    /\ UNCHANGED <<key, hash, size, n, arrays, state>>

\* The search for an empty slot starts at n, wraps around and ends at i.
first_empty(keys, sz, i) ==
    /\ keys[i] = NULL
    /\ \/ i >= n /\ \A j \in n..i - 1 : keys[j] # NULL
       \/ i < n /\ \A j \in (n..sz - 1) \cup (0..i - 1) : keys[j] # NULL

insert(k, v, keys, vals, hashes, sz) ==
    \E i \in 0..sz - 1, s \in {k, NULL}, t \in {v, NULL} :
        /\ first_empty(keys, sz, i)
        /\ xstrdup(k, s)
        /\ xstrdup(v, t)
        /\ key'  = [keys EXCEPT ![i] = s]
        /\ val'  = [vals EXCEPT ![i] = t]
        /\ hash' = [hashes EXCEPT ![i] = HashOf[k]]
        /\ size' = sz
        /\ n' = n + 1
        /\ ret' = 0
        /\ UNCHANGED <<arrays, state>>

add(k, v) ==
    /\ ~is_known(k)
    /\ n # size
    /\ insert(k, v, key, val, hash, size)

add_and_grow(k, v) ==
    /\ ~is_known(k)
    /\ n = size
    /\ 2 * size <= MaxSize
    /\ insert(k, v, mem_double(key, NULL), mem_double(val, NULL),
              mem_double(hash, 0), 2 * size)

cannot_grow(k) ==
    /\ ~is_known(k)
    /\ n = size
    /\ AllocMayFail
    /\ \E left \in SUBSET Arrays : left # Arrays /\ arrays' = left
    /\ state' = "failed"
    /\ ret' = -1
    /\ UNCHANGED contents

dictionary_set(k, v) ==
    /\ state = "live"
    /\ \/ /\ k = NULL
          /\ ret' = -1
          /\ UNCHANGED <<contents, arrays, state>>
       \/ /\ k # NULL
          /\ arrays = Arrays
          /\ modify(k, v) \/ add(k, v) \/ add_and_grow(k, v) \/ cannot_grow(k)
       \/ k # NULL /\ arrays # Arrays /\ crash

-----------------------------------------------------------------------------
(* Removing a key, and the dictionary.                                      *)

\* Mutant: a key that is not there is counted as removed.
unset_counts_missing(k) ==
    /\ state = "live"
    /\ ~scan_crashes
    /\ n' = n - 1
    /\ \/ \E i \in slots : found(k, i) /\ key' = [key EXCEPT ![i] = NULL]
       \/ (\A i \in slots : ~found(k, i)) /\ UNCHANGED key
    /\ UNCHANGED <<val, hash, size, arrays, state, ret>>

clear(i) ==
    /\ key'  = [key EXCEPT ![i] = NULL]
    /\ val'  = [val EXCEPT ![i] = NULL]
    /\ hash' = [hash EXCEPT ![i] = 0]
    /\ n' = n - 1
    /\ UNCHANGED <<size, arrays, state, ret>>

dictionary_unset(k) ==
    /\ state = "live"
    /\ \/ /\ ~scan_crashes
          /\ \/ \E i \in slots : found(k, i) /\ clear(i)
             \/ (\A i \in slots : ~found(k, i)) /\ UNCHANGED <<contents, arrays, state, ret>>
       \/ scan_crashes /\ crash

dictionary_del ==
    /\ state \in {"live", "failed"}
    /\ \/ /\ {"key", "val"} \subseteq arrays
          /\ state' = "deleted"
          /\ UNCHANGED <<contents, arrays, ret>>
       \/ /\ ~({"key", "val"} \subseteq arrays)
          /\ crash

-----------------------------------------------------------------------------

dictionary_new ==
    /\ size = DICTMINSZ
    /\ key  = [i \in slots |-> NULL]
    /\ val  = [i \in slots |-> NULL]
    /\ hash = [i \in slots |-> 0]
    /\ n = 0
    /\ arrays \in SUBSET Arrays
    /\ arrays # Arrays => AllocMayFail
    /\ state = "live"
    /\ ret = 0
    /\ call = <<"new">>

Init == dictionary_new

Next ==
    \/ \E k \in Keys \cup {NULL}, v \in Vals \cup {NULL} :
          dictionary_set(k, v) /\ call' = <<"set", k, v>>
    \/ \E k \in Keys :
          \/ dictionary_get(k) /\ call' = <<"get", k>>
          \/ dictionary_unset(k) /\ call' = <<"unset", k>>
    \/ dictionary_del /\ call' = <<"del">>

Spec == Init /\ [][Next]_vars

-----------------------------------------------------------------------------
(* Properties.                                                              *)

\* Every variable of the program has its type.
TypeOK ==
    /\ size \in Nat \ {0}
    /\ key  \in [slots -> Keys \cup {NULL}]
    /\ val  \in [slots -> Vals \cup {NULL}]
    /\ hash \in [slots -> Nat]
    /\ n \in 0..size
    /\ arrays \subseteq Arrays
    /\ state \in {"live", "failed", "deleted", "crashed"}
    /\ ret \in Vals \cup {NULL, DICT_INVALID_KEY, 0, -1}

\* No key is in the dictionary twice, after any sets, removals that leave
\* holes, growth and failing allocations: dictionary_set scans all the slots
\* whenever n > 0 before it adds a key.
Distinct(keys, sz) ==
    \A i, j \in 0..sz - 1 : keys[i] # NULL /\ keys[i] = keys[j] => i = j

KeyOnce == Distinct(key, size)

Used(keys, sz) == {i \in 0..sz - 1 : keys[i] # NULL}

Counted(keys, sz, m) ==
    /\ Cardinality(Used(keys, sz)) <= m
    /\ ~AllocMayFail => Cardinality(Used(keys, sz)) = m

\* n never falls behind the number of keys, and only runs ahead of it when a
\* key could not be copied: the scan of dictionary_set may be left out when
\* n = 0, and its search for an empty slot ends when n < size ("Because d->n <
\* d->size this will necessarily terminate").
CountCoversKeys ==
    /\ Counted(key, size, n)
    /\ n < size => \E i \in slots : key[i] = NULL

\* The dictionary is a map, whatever the hashes: dictionary_get returns the
\* value that was set last.
MapOf(keys, vals, sz) ==
    [k \in Keys |-> IF \E i \in 0..sz - 1 : keys[i] = k
                    THEN vals[CHOOSE i \in 0..sz - 1 : keys[i] = k]
                    ELSE DICT_INVALID_KEY]

contentsMap == MapOf(key, val, size)

Map == INSTANCE DictionaryMap WITH map <- contentsMap

ImplementsMap == Map!Spec

\* The inductive invariant.  The hash kept with a key is the key's own, or
\* the scans would pass the key over; and what is out of order comes from
\* memory that ran out.
HashesOfKeys(keys, hashes, sz) ==
    \A i \in 0..sz - 1 : keys[i] # NULL => hashes[i] = HashOf[keys[i]]

IInv ==
    /\ TypeOK
    /\ KeyOnce
    /\ HashesOfKeys(key, hash, size)
    /\ Counted(key, size, n)
    /\ arrays # Arrays \/ state \in {"failed", "crashed"} => AllocMayFail
==============================================================================
