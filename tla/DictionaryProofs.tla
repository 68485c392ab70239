--------------------------- MODULE DictionaryProofs ---------------------------
(***************************************************************************)
(* Theorems about the dictionary: for every set of keys and values, every  *)
(* hash function, every initial size and every bound on it, whether or not *)
(* memory runs out.                                                        *)
(*                                                                         *)
(* Then about the queries and dumps of IniQueries, which read its arrays:  *)
(* they follow from the same invariant, by counting the slots of a scan.   *)
(* Where a proof goes along a list it takes the least number for which the *)
(* claim fails, and shows that there is none.                              *)
(***************************************************************************)
EXTENDS IniQueries, FiniteSetTheorems, WellFoundedInduction, TLAPS

KeyOrNull   == Keys \cup {NULL}
ValueOrNull == Vals \cup {NULL}

-----------------------------------------------------------------------------
(* Counting the slots in use.                                               *)

\* There are finitely many.
LEMMA UsedFinite ==
    ASSUME NEW keys, NEW sz \in Nat
    PROVE  /\ IsFiniteSet(0..sz - 1) /\ Cardinality(0..sz - 1) = sz
           /\ IsFiniteSet(Used(keys, sz))
           /\ Cardinality(Used(keys, sz)) \in Nat
<1>1. IsFiniteSet(0..sz - 1) /\ Cardinality(0..sz - 1) = sz
  BY FS_Interval
<1>2. Used(keys, sz) \in SUBSET (0..sz - 1)
  BY DEF Used
<1>3. IsFiniteSet(Used(keys, sz))
  BY <1>1, <1>2, FS_Subset
<1> QED
  BY <1>1, <1>3, FS_CardinalityType

\* Filling an empty slot adds one.
LEMMA UsedFill ==
    ASSUME NEW sz \in Nat, NEW keys \in [0..sz - 1 -> KeyOrNull],
           NEW i \in 0..sz - 1, keys[i] = NULL, NEW k, k # NULL
    PROVE  Cardinality(Used([keys EXCEPT ![i] = k], sz))
             = Cardinality(Used(keys, sz)) + 1
<1>1. Used([keys EXCEPT ![i] = k], sz) = Used(keys, sz) \cup {i}
  BY DEF Used
<1>2. i \notin Used(keys, sz)
  BY DEF Used
<1> QED
  BY <1>1, <1>2, UsedFinite, FS_AddElement

\* Emptying a slot in use takes one away.
LEMMA UsedEmpty ==
    ASSUME NEW sz \in Nat, NEW keys \in [0..sz - 1 -> KeyOrNull],
           NEW i \in 0..sz - 1, keys[i] # NULL
    PROVE  Cardinality(Used([keys EXCEPT ![i] = NULL], sz))
             = Cardinality(Used(keys, sz)) - 1
<1>1. Used([keys EXCEPT ![i] = NULL], sz) = Used(keys, sz) \ {i}
  BY DEF Used
<1>2. i \in Used(keys, sz)
  BY DEF Used
<1> QED
  BY <1>1, <1>2, UsedFinite, FS_RemoveElement

\* Where fewer slots are in use than there are, one is empty.
LEMMA EmptySlotExists ==
    ASSUME NEW sz \in Nat, NEW keys, Cardinality(Used(keys, sz)) < sz
    PROVE  \E i \in 0..sz - 1 : keys[i] = NULL
<1> SUFFICES ASSUME \A i \in 0..sz - 1 : keys[i] # NULL
             PROVE  FALSE
  OBVIOUS
<1>1. Used(keys, sz) = 0..sz - 1
  BY DEF Used
<1> QED
  BY <1>1, UsedFinite

-----------------------------------------------------------------------------
(* The map that arrays stand for.                                           *)

\* A key that is there has the value of its slot, one that is not has none.
LEMMA MapAt ==
    ASSUME NEW sz \in Nat, NEW keys, NEW vals, NEW k \in Keys,
           Distinct(keys, sz)
    PROVE  /\ \A i \in 0..sz - 1 :
                  keys[i] = k => MapOf(keys, vals, sz)[k] = vals[i]
           /\ (\A i \in 0..sz - 1 : keys[i] # k)
                => MapOf(keys, vals, sz)[k] = DICT_INVALID_KEY
<1>1. ASSUME NEW i \in 0..sz - 1, keys[i] = k
      PROVE  MapOf(keys, vals, sz)[k] = vals[i]
  <2> DEFINE c == CHOOSE j \in 0..sz - 1 : keys[j] = k
  <2>1. c \in 0..sz - 1 /\ keys[c] = k
    BY <1>1
  <2>2. k # NULL
    BY DictionaryAssumption
  <2>3. c = i
    BY <1>1, <2>1, <2>2 DEF Distinct
  <2>4. MapOf(keys, vals, sz)[k] = vals[c]
    BY <1>1 DEF MapOf
  <2> QED
    BY <2>3, <2>4
<1>2. ASSUME \A i \in 0..sz - 1 : keys[i] # k
      PROVE  MapOf(keys, vals, sz)[k] = DICT_INVALID_KEY
  BY <1>2 DEF MapOf
<1> QED
  BY <1>1, <1>2

\* Array new is array old with x in slot i.
Update(new, old, sz, i, x) ==
    new[i] = x /\ \A j \in 0..sz - 1 : j # i => new[j] = old[j]

\* No slot has key k.
Absent(keys, sz, k) == \A j \in 0..sz - 1 : keys[j] # k

\* Map m with k sent to x.
Put(m, k, x) == [m EXCEPT ![k] = x]

\* The domain of the map.
LEMMA MapDomain ==
    ASSUME NEW sz, NEW keys, NEW vals
    PROVE  MapOf(keys, vals, sz) = [k \in Keys |-> MapOf(keys, vals, sz)[k]]
BY DEF MapOf

\* Replacing the value in a slot replaces the value of its key.
LEMMA MapModify ==
    ASSUME NEW sz \in Nat, NEW keys, Distinct(keys, sz),
           NEW vals,
           NEW i \in 0..sz - 1, NEW k \in Keys, keys[i] = k, NEW t,
           NEW new, Update(new, vals, sz, i, t)
    PROVE  MapOf(keys, new, sz) = Put(MapOf(keys, vals, sz), k, t)
<1>n. new[i] = t /\ \A j \in 0..sz - 1 : j # i => new[j] = vals[j]
  BY DEF Update
<1>1. k # NULL
  BY DictionaryAssumption
<1>2. ASSUME NEW q \in Keys
      PROVE  MapOf(keys, new, sz)[q]
               = [MapOf(keys, vals, sz) EXCEPT ![k] = t][q]
  <2>1. CASE q = k
    <3>1. MapOf(keys, new, sz)[k] = new[i]
      BY MapAt
    <3>2. k \in DOMAIN MapOf(keys, vals, sz)
      BY DEF MapOf
    <3> QED
      BY <2>1, <3>1, <3>2, <1>n
  <2>2. CASE q # k /\ \E j \in 0..sz - 1 : keys[j] = q
    <3>1. PICK j \in 0..sz - 1 : keys[j] = q
      BY <2>2
    <3>2. j # i
      BY <2>2, <3>1
    <3>3. new[j] = vals[j]
      BY <3>2, <1>n
    <3>4. MapOf(keys, new, sz)[q] = new[j] /\ MapOf(keys, vals, sz)[q] = vals[j]
      BY <3>1, MapAt
    <3> QED
      BY <2>2, <3>3, <3>4, MapDomain
  <2>3. CASE \A j \in 0..sz - 1 : keys[j] # q
    <3>1. MapOf(keys, new, sz)[q] = DICT_INVALID_KEY
      BY <2>3, MapAt
    <3>2. MapOf(keys, vals, sz)[q] = DICT_INVALID_KEY
      BY <2>3, MapAt
    <3>3. q # k
      BY <2>3
    <3> QED
      BY <3>1, <3>2, <3>3, MapDomain
  <2> QED
    BY <2>1, <2>2, <2>3
<1>3. DOMAIN MapOf(keys, vals, sz) = Keys /\ DOMAIN MapOf(keys, new, sz) = Keys
  BY DEF MapOf
<1> QED
  BY <1>2, <1>3, MapDomain DEF Put

\* Two sets of arrays that hold a key with the same value, or both do not hold
\* it, agree on it.
LEMMA MapAgree ==
    ASSUME NEW sz \in Nat, NEW keys, NEW vals, Distinct(keys, sz),
           NEW sz2 \in Nat, NEW keys2, NEW vals2, Distinct(keys2, sz2),
           NEW q \in Keys,
           \A i \in 0..sz - 1 : keys[i] = q =>
               \E j \in 0..sz2 - 1 : keys2[j] = q /\ vals2[j] = vals[i],
           \A j \in 0..sz2 - 1 : keys2[j] = q =>
               \E i \in 0..sz - 1 : keys[i] = q
    PROVE  MapOf(keys2, vals2, sz2)[q] = MapOf(keys, vals, sz)[q]
<1>1. CASE \E i \in 0..sz - 1 : keys[i] = q
  <2>1. PICK i \in 0..sz - 1 : keys[i] = q
    BY <1>1
  <2>2. PICK j \in 0..sz2 - 1 : keys2[j] = q /\ vals2[j] = vals[i]
    BY <2>1
  <2>3. MapOf(keys, vals, sz)[q] = vals[i]
    BY <2>1, MapAt
  <2>4. MapOf(keys2, vals2, sz2)[q] = vals2[j]
    BY <2>2, MapAt
  <2> QED
    BY <2>2, <2>3, <2>4
<1>2. CASE \A i \in 0..sz - 1 : keys[i] # q
  <2>1. \A j \in 0..sz2 - 1 : keys2[j] # q
    BY <1>2
  <2>2. MapOf(keys, vals, sz)[q] = DICT_INVALID_KEY
    BY <1>2, MapAt
  <2>3. MapOf(keys2, vals2, sz2)[q] = DICT_INVALID_KEY
    BY <2>1, MapAt
  <2> QED
    BY <2>2, <2>3
<1> QED
  BY <1>1, <1>2

\* A new key in an empty slot is there once.
LEMMA DistinctInsert ==
    ASSUME NEW sz \in Nat, NEW keys, NEW nk, NEW i \in 0..sz - 1, NEW k,
           Distinct(keys, sz), Absent(keys, sz, k), Update(nk, keys, sz, i, k)
    PROVE  Distinct(nk, sz)
BY DEF Absent, Update, Distinct

\* A new key in an empty slot is a new key of the map.
LEMMA MapInsert ==
    ASSUME NEW sz \in Nat, NEW keys, NEW vals, NEW nk, NEW nv,
           NEW i \in 0..sz - 1, NEW k \in Keys, NEW t,
           Distinct(keys, sz), keys[i] = NULL, Absent(keys, sz, k),
           Update(nk, keys, sz, i, k), Update(nv, vals, sz, i, t)
    PROVE  MapOf(nk, nv, sz) = Put(MapOf(keys, vals, sz), k, t)
<1>1. /\ nk[i] = k /\ \A j \in 0..sz - 1 : j # i => nk[j] = keys[j]
      /\ nv[i] = t /\ \A j \in 0..sz - 1 : j # i => nv[j] = vals[j]
  BY DEF Update
<1>2. NULL \notin Keys
  BY DictionaryAssumption
<1>a. \A j \in 0..sz - 1 : keys[j] # k
  BY DEF Absent
<1>3. Distinct(nk, sz)
  BY DistinctInsert
<1>4. ASSUME NEW q \in Keys
      PROVE  MapOf(nk, nv, sz)[q] = [MapOf(keys, vals, sz) EXCEPT ![k] = t][q]
  <2>1. CASE q = k
    <3>1. MapOf(nk, nv, sz)[k] = t
      BY <1>1, <1>3, MapAt
    <3> QED
      BY <2>1, <3>1, MapDomain
  <2>2. CASE q # k
    <3>1. \A j \in 0..sz - 1 : keys[j] = q =>
              \E l \in 0..sz - 1 : nk[l] = q /\ nv[l] = vals[j]
      BY <1>1, <1>2
    <3>2. \A j \in 0..sz - 1 : nk[j] = q => \E l \in 0..sz - 1 : keys[l] = q
      BY <1>1, <2>2
    <3>3. MapOf(nk, nv, sz)[q] = MapOf(keys, vals, sz)[q]
      BY <1>3, <3>1, <3>2, MapAgree
    <3> QED
      BY <2>2, <3>3, MapDomain
  <2> QED
    BY <2>1, <2>2
<1>5. DOMAIN MapOf(keys, vals, sz) = Keys
  BY DEF MapOf
<1> QED
  BY <1>4, <1>5, MapDomain DEF Put

\* What an unused slot holds does not matter.
LEMMA MapUnused ==
    ASSUME NEW sz \in Nat, NEW keys,
           Distinct(keys, sz), NEW vals,
           NEW i \in 0..sz - 1, keys[i] = NULL, NEW t,
           NEW nv, Update(nv, vals, sz, i, t)
    PROVE  MapOf(keys, nv, sz) = MapOf(keys, vals, sz)
<1>1. \A j \in 0..sz - 1 : j # i => nv[j] = vals[j]
  BY DEF Update
<1>2. ASSUME NEW q \in Keys
      PROVE  MapOf(keys, nv, sz)[q] = MapOf(keys, vals, sz)[q]
  <2>1. q # NULL
    BY DictionaryAssumption
  <2>2. CASE \E j \in 0..sz - 1 : keys[j] = q
    <3>1. PICK j \in 0..sz - 1 : keys[j] = q
      BY <2>2
    <3>2. nv[j] = vals[j]
      BY <1>1, <2>1, <3>1
    <3> QED
      BY <3>1, <3>2, MapAt
  <2>3. CASE \A j \in 0..sz - 1 : keys[j] # q
    BY <2>3, MapAt
  <2> QED
    BY <2>2, <2>3
<1> QED
  BY <1>2, MapDomain

\* Emptying a slot makes no key a second one.
LEMMA DistinctClear ==
    ASSUME NEW sz \in Nat, NEW keys, NEW nk, NEW i \in 0..sz - 1,
           Distinct(keys, sz), Update(nk, keys, sz, i, NULL)
    PROVE  Distinct(nk, sz)
BY DEF Update, Distinct

\* Emptying a slot takes its key out of the map.
LEMMA MapClear ==
    ASSUME NEW sz \in Nat, NEW keys,
           Distinct(keys, sz), NEW vals,
           NEW i \in 0..sz - 1, NEW k \in Keys, keys[i] = k, NEW t,
           NEW nk, Update(nk, keys, sz, i, NULL),
           NEW nv, Update(nv, vals, sz, i, t)
    PROVE  MapOf(nk, nv, sz) = Put(MapOf(keys, vals, sz), k, DICT_INVALID_KEY)
<1>1. /\ nk[i] = NULL /\ \A j \in 0..sz - 1 : j # i => nk[j] = keys[j]
      /\ \A j \in 0..sz - 1 : j # i => nv[j] = vals[j]
  BY DEF Update
<1>2. NULL \notin Keys
  BY DictionaryAssumption
<1>3. Distinct(nk, sz)
  BY DistinctClear
<1>4. ASSUME NEW q \in Keys
      PROVE  MapOf(nk, nv, sz)[q]
               = [MapOf(keys, vals, sz) EXCEPT ![k] = DICT_INVALID_KEY][q]
  <2>1. CASE q = k
    <3>1. \A j \in 0..sz - 1 : nk[j] # k
      BY <1>1, <1>2 DEF Distinct
    <3>2. MapOf(nk, nv, sz)[k] = DICT_INVALID_KEY
      BY <1>3, <3>1, MapAt
    <3> QED
      BY <2>1, <3>2, MapDomain
  <2>2. CASE q # k
    <3>1. \A j \in 0..sz - 1 : keys[j] = q =>
              \E l \in 0..sz - 1 : nk[l] = q /\ nv[l] = vals[j]
      BY <1>1, <2>2
    <3>2. \A j \in 0..sz - 1 : nk[j] = q => \E l \in 0..sz - 1 : keys[l] = q
      BY <1>1, <1>2
    <3>3. MapOf(nk, nv, sz)[q] = MapOf(keys, vals, sz)[q]
      BY <1>3, <3>1, <3>2, MapAgree
    <3> QED
      BY <2>2, <3>3, MapDomain
  <2> QED
    BY <2>1, <2>2
<1>5. DOMAIN MapOf(keys, vals, sz) = Keys
  BY DEF MapOf
<1> QED
  BY <1>4, <1>5, MapDomain DEF Put

-----------------------------------------------------------------------------
(* The scans and the growth.                                                *)

\* A scan stops at slot i exactly if the key is there.
LEMMA FoundIsKey ==
    ASSUME TypeOK, KeyOnce, HashesOfKeys(key, hash, size),
           NEW k \in Keys, NEW i \in slots
    PROVE  found(k, i) <=> key[i] = k
<1>1. k # NULL
  BY DictionaryAssumption
<1>2. i \in Nat /\ 0..i - 1 \subseteq slots
  BY DEF slots, TypeOK
<1>3. ASSUME key[i] = k
      PROVE  found(k, i)
  <2>1. same_key(k, i)
    BY <1>1, <1>3 DEF same_key, HashesOfKeys, slots
  <2>2. ASSUME NEW j \in 0..i - 1, same_key(k, j)
        PROVE  FALSE
    BY <1>1, <1>2, <1>3, <2>2 DEF same_key, KeyOnce, Distinct, slots
  <2> QED
    BY <2>1, <2>2 DEF found
<1> QED
  BY <1>3 DEF found, same_key

\* A key that dictionary_set does not know is not there, although the scan is
\* left out when n = 0.
LEMMA UnknownIsAbsent ==
    ASSUME IInv, NEW k \in Keys, ~is_known(k)
    PROVE  \A i \in slots : key[i] # k
<1> SUFFICES ASSUME NEW i \in slots, key[i] = k
             PROVE  FALSE
  OBVIOUS
<1>1. found(k, i)
  BY FoundIsKey DEF IInv
<1>2. n \in Nat /\ size \in Nat
  BY DEF IInv, TypeOK, slots
<1>3. n = 0
  BY <1>1, <1>2 DEF is_known
<1>4. Cardinality(Used(key, size)) = 0
  BY <1>2, <1>3, UsedFinite DEF IInv, Counted
<1>5. Used(key, size) = {}
  BY <1>2, <1>4, UsedFinite, FS_EmptySet
<1>6. i \in Used(key, size)
  BY DictionaryAssumption DEF Used, slots
<1> QED
  BY <1>5, <1>6

\* Doubling the arrays changes neither the keys nor the map.
LEMMA GrowProps ==
    ASSUME IInv
    PROVE  LET keys   == mem_double(key, NULL)
               vals   == mem_double(val, NULL)
               hashes == mem_double(hash, 0)
               sz     == 2 * size
           IN  /\ sz \in Nat \ {0} /\ size < sz
               /\ keys \in [0..sz - 1 -> KeyOrNull]
               /\ vals \in [0..sz - 1 -> ValueOrNull]
               /\ hashes \in [0..sz - 1 -> Nat]
               /\ Distinct(keys, sz)
               /\ HashesOfKeys(keys, hashes, sz)
               /\ Used(keys, sz) = Used(key, size)
               /\ MapOf(keys, vals, sz) = contentsMap
               /\ \A k \in Keys : (\A i \in slots : key[i] # k)
                                   => \A i \in 0..sz - 1 : keys[i] # k
<1> DEFINE keys   == mem_double(key, NULL)
           vals   == mem_double(val, NULL)
           hashes == mem_double(hash, 0)
           sz     == 2 * size
<1>0. /\ size \in Nat \ {0} /\ key \in [0..size - 1 -> KeyOrNull]
      /\ val \in [0..size - 1 -> ValueOrNull] /\ hash \in [0..size - 1 -> Nat]
  BY DEF IInv, TypeOK, slots, KeyOrNull, ValueOrNull
<1>1. sz \in Nat \ {0} /\ size < sz
  BY <1>0
<1>2. /\ \A i \in 0..size - 1 : /\ i \in 0..sz - 1
                                /\ keys[i] = key[i] /\ vals[i] = val[i]
                                /\ hashes[i] = hash[i]
      /\ \A i \in 0..sz - 1 : i \notin 0..size - 1 =>
             keys[i] = NULL /\ vals[i] = NULL /\ hashes[i] = 0
  BY <1>0, <1>1 DEF mem_double
<1>3. /\ keys \in [0..sz - 1 -> KeyOrNull] /\ vals \in [0..sz - 1 -> ValueOrNull]
      /\ hashes \in [0..sz - 1 -> Nat]
  BY <1>0, <1>1 DEF mem_double, KeyOrNull, ValueOrNull
<1> HIDE DEF keys, vals, hashes, sz
<1>4. Distinct(keys, sz)
  BY <1>2 DEF Distinct, IInv, KeyOnce
<1>5. HashesOfKeys(keys, hashes, sz)
  BY <1>2 DEF HashesOfKeys, IInv
<1>6. Used(keys, sz) = Used(key, size)
  BY <1>2 DEF Used
<1>7. ASSUME NEW k \in Keys
      PROVE  \A i \in 0..sz - 1 : keys[i] = k =>
                 i \in 0..size - 1 /\ key[i] = k
  BY <1>2, DictionaryAssumption
<1>8. ASSUME NEW q \in Keys
      PROVE  MapOf(keys, vals, sz)[q] = MapOf(key, val, size)[q]
  <2>1. \A j \in 0..size - 1 : key[j] = q =>
            \E l \in 0..sz - 1 : keys[l] = q /\ vals[l] = val[j]
    BY <1>2
  <2>2. \A j \in 0..sz - 1 : keys[j] = q => \E l \in 0..size - 1 : key[l] = q
    BY <1>7
  <2>3. Distinct(key, size)
    BY DEF IInv, KeyOnce
  <2> QED
    BY <1>0, <1>1, <1>4, <2>1, <2>2, <2>3, MapAgree
<1>9. MapOf(keys, vals, sz) = contentsMap
  BY <1>8, MapDomain DEF contentsMap
<1>10. \A k \in Keys : (\A i \in slots : key[i] # k)
                         => \A i \in 0..sz - 1 : keys[i] # k
  BY <1>7 DEF slots
<1> QED
  BY <1>1, <1>3, <1>4, <1>5, <1>6, <1>9, <1>10 DEF keys, vals, hashes, sz

-----------------------------------------------------------------------------
(* The operations keep the invariant and do what the map does.              *)

\* What a call of dictionary_set may make of map m.
Stored(m, k, v) ==
    \/ contentsMap' = Put(m, k, v)
    \/ AllocMayFail /\ contentsMap' = Put(m, k, NULL)
    \/ AllocMayFail /\ m[k] = DICT_INVALID_KEY /\ contentsMap' = m

\* A key is added to arrays that have room for it.
LEMMA InsertStep ==
    ASSUME NEW k \in Keys, NEW v \in ValueOrNull, NEW sz \in Nat \ {0},
           NEW keys \in [0..sz - 1 -> KeyOrNull],
           NEW vals \in [0..sz - 1 -> ValueOrNull],
           NEW hashes \in [0..sz - 1 -> Nat],
           Distinct(keys, sz), HashesOfKeys(keys, hashes, sz),
           n \in Nat, n < sz, Counted(keys, sz, n),
           \A i \in 0..sz - 1 : keys[i] # k,
           arrays = Arrays, state = "live",
           insert(k, v, keys, vals, hashes, sz)
    PROVE  IInv' /\ ret' = 0 /\ state' = "live"
           /\ Stored(MapOf(keys, vals, sz), k, v)
<1>1. PICK i \in 0..sz - 1, s \in {k, NULL}, t \in {v, NULL} :
          /\ keys[i] = NULL
          /\ xstrdup(k, s) /\ xstrdup(v, t)
          /\ key'  = [keys EXCEPT ![i] = s]
          /\ val'  = [vals EXCEPT ![i] = t]
          /\ hash' = [hashes EXCEPT ![i] = HashOf[k]]
          /\ size' = sz
          /\ n' = n + 1
          /\ ret' = 0
          /\ UNCHANGED <<arrays, state>>
  BY DEF insert, first_empty
<1>2. NULL \notin Keys /\ HashOf[k] \in Nat
  BY DictionaryAssumption
<1>3. TypeOK'
  <2>1. /\ key' \in [0..sz - 1 -> KeyOrNull] /\ val' \in [0..sz - 1 -> ValueOrNull]
        /\ hash' \in [0..sz - 1 -> Nat]
    BY <1>1, <1>2 DEF KeyOrNull, ValueOrNull
  <2>2. n' \in 0..size'
    BY <1>1
  <2>3. slots' = 0..sz - 1
    BY <1>1 DEF slots
  <2>4. ret' = 0 /\ arrays' = Arrays /\ state' = "live"
    BY <1>1
  <2>5. size' \in Nat \ {0}
    BY <1>1
  <2> QED
    BY <2>1, <2>2, <2>3, <2>4, <2>5 DEF TypeOK, KeyOrNull, ValueOrNull
<1>4. HashesOfKeys(key', hash', sz)
  BY <1>1, <1>2 DEF HashesOfKeys
<1>5. Cardinality(Used(keys, sz)) \in Nat
  BY UsedFinite
<1>6. CASE s = k
  <2>0. /\ keys[i] = NULL /\ sz \in Nat
        /\ Update(key', keys, sz, i, k) /\ Update(val', vals, sz, i, t)
    BY <1>1, <1>6 DEF Update
  <2>1. Distinct(key', sz)
        /\ MapOf(key', val', sz) = Put(MapOf(keys, vals, sz), k, t)
    <3>1. sz \in Nat /\ Absent(keys, sz, k)
      BY DEF Absent
    <3> QED
      BY <2>0, <3>1, MapInsert, DistinctInsert
  <2>2. Cardinality(Used(key', sz)) = Cardinality(Used(keys, sz)) + 1
    BY <1>1, <1>2, <1>6, UsedFill
  <2>3. Counted(key', sz, n + 1)
    BY <1>5, <2>2 DEF Counted
  <2>4. IInv'
    BY <1>1, <1>3, <1>4, <2>1, <2>3 DEF IInv, KeyOnce
  <2>5. Stored(MapOf(keys, vals, sz), k, v)
    BY <1>1, <2>1 DEF Stored, contentsMap, xstrdup
  <2> QED
    BY <1>1, <2>4, <2>5
<1>7. CASE s = NULL
  <2>1. key' = keys
    BY <1>1, <1>7
  <2>2. AllocMayFail
    BY <1>1, <1>2, <1>7 DEF xstrdup
  <2>3. Counted(key', sz, n + 1)
    BY <1>5, <2>1, <2>2 DEF Counted
  <2>4. IInv'
    BY <1>1, <1>3, <1>4, <2>1, <2>3 DEF IInv, KeyOnce
  <2>5. MapOf(keys, val', sz) = MapOf(keys, vals, sz)
    <3>1. keys[i] = NULL /\ Update(val', vals, sz, i, t) /\ sz \in Nat
      BY <1>1 DEF Update
    <3> QED
      BY <3>1, MapUnused
  <2>6. MapOf(keys, vals, sz)[k] = DICT_INVALID_KEY
    BY MapAt
  <2>7. Stored(MapOf(keys, vals, sz), k, v)
    BY <1>1, <2>1, <2>2, <2>5, <2>6 DEF Stored, contentsMap
  <2> QED
    BY <1>1, <2>4, <2>7
<1> QED
  BY <1>6, <1>7

\* dictionary_set
LEMMA SetStep ==
    ASSUME IInv, NEW k \in KeyOrNull, NEW v \in ValueOrNull,
           dictionary_set(k, v)
    PROVE  /\ IInv'
           /\ \/ k = NULL /\ Map!set_null
              \/ k # NULL /\ (Map!set(k, v) \/ Map!set_fails \/ Map!crash)
<1>t. /\ size \in Nat \ {0} /\ key \in [0..size - 1 -> KeyOrNull]
      /\ val \in [0..size - 1 -> ValueOrNull] /\ hash \in [0..size - 1 -> Nat]
      /\ n \in Nat /\ n <= size
  BY DEF IInv, TypeOK, slots, KeyOrNull, ValueOrNull
<1>l. state = "live"
  BY DEF dictionary_set
<1>1. CASE k = NULL /\ ret' = -1 /\ UNCHANGED <<contents, arrays, state>>
  <2>1. IInv'
    BY <1>1 DEF IInv, TypeOK, slots, KeyOnce, Distinct, HashesOfKeys, Counted,
                Used, contents
  <2>2. contentsMap' = contentsMap
    BY <1>1 DEF contentsMap, contents, MapOf
  <2> QED
    BY <1>1, <1>l, <2>1, <2>2 DEF Map!set_null
<1>2. CASE k # NULL /\ arrays # Arrays /\ crash
  <2>1. AllocMayFail
    BY <1>2 DEF IInv
  <2>2. IInv'
    BY <1>2, <2>1 DEF crash, IInv, TypeOK, slots, KeyOnce, Distinct,
                      HashesOfKeys, Counted, Used, contents
  <2>3. contentsMap' = contentsMap
    BY <1>2 DEF crash, contentsMap, contents, MapOf
  <2> QED
    BY <1>2, <1>l, <2>1, <2>2, <2>3 DEF Map!crash, crash
<1>3. ASSUME k # NULL, arrays = Arrays, modify(k, v)
      PROVE  IInv' /\ k \in Keys /\ Map!set(k, v)
  <2>1. k \in Keys
    BY <1>3 DEF KeyOrNull
  <2>2. PICK i \in slots, t \in {v, NULL} :
            found(k, i) /\ xstrdup(v, t) /\ val' = [val EXCEPT ![i] = t]
    BY <1>3 DEF modify
  <2>3. key[i] = k
    BY <2>2 DEF found, same_key
  <2>4. /\ ret' = 0 /\ key' = key /\ hash' = hash /\ size' = size /\ n' = n
        /\ arrays' = arrays /\ state' = state
    BY <1>3 DEF modify
  <2>5. IInv'
    <3>1. val' \in [slots -> Vals \cup {NULL}] /\ slots' = slots
      BY <1>t, <2>2, <2>4 DEF slots, ValueOrNull
    <3>2. TypeOK'
      BY <2>4, <3>1 DEF IInv, TypeOK
    <3> QED
      BY <2>4, <3>2 DEF IInv, KeyOnce, HashesOfKeys, Counted, Used, Distinct
  <2>6. contentsMap' = Put(contentsMap, k, t)
    <3>1. Distinct(key, size) /\ i \in 0..size - 1 /\ size \in Nat
      BY <1>t DEF IInv, KeyOnce, slots
    <3>2. Update(val', val, size, i, t)
      BY <1>t, <2>2, <3>1 DEF Update
    <3>3. MapOf(key, val', size) = Put(MapOf(key, val, size), k, t)
      BY <1>t, <2>1, <2>3, <3>1, <3>2, MapModify
    <3> QED
      BY <2>4, <3>3 DEF contentsMap
  <2> QED
    BY <1>l, <2>1, <2>2, <2>4, <2>5, <2>6
       DEF Put, Map!set, Map!store, xstrdup
<1>4. ASSUME k # NULL, arrays = Arrays, add(k, v)
      PROVE  IInv' /\ k \in Keys /\ Map!set(k, v)
  <2>1. k \in Keys
    BY <1>4 DEF KeyOrNull
  <2>2. ~is_known(k) /\ n # size /\ insert(k, v, key, val, hash, size)
    BY <1>4 DEF add
  <2>3. \A i \in 0..size - 1 : key[i] # k
    BY <2>1, <2>2, UnknownIsAbsent DEF slots
  <2>4. n < size
    BY <1>t, <2>2
  <2>5. Distinct(key, size) /\ HashesOfKeys(key, hash, size)
        /\ Counted(key, size, n)
    BY DEF IInv, KeyOnce
  <2>6. IInv' /\ ret' = 0 /\ state' = "live" /\ Stored(contentsMap, k, v)
    BY <1>t, <1>l, <1>4, <2>1, <2>2, <2>3, <2>4, <2>5, InsertStep
       DEF contentsMap
  <2> QED
    BY <1>l, <2>1, <2>6 DEF Stored, Put, Map!set, Map!store
<1>5. ASSUME k # NULL, arrays = Arrays, add_and_grow(k, v)
      PROVE  IInv' /\ k \in Keys /\ Map!set(k, v)
  <2> DEFINE keys   == mem_double(key, NULL)
             vals   == mem_double(val, NULL)
             hashes == mem_double(hash, 0)
             sz     == 2 * size
  <2>1. k \in Keys
    BY <1>5 DEF KeyOrNull
  <2>2. ~is_known(k) /\ n = size /\ insert(k, v, keys, vals, hashes, sz)
    BY <1>5 DEF add_and_grow
  <2>3. /\ sz \in Nat \ {0} /\ size < sz
        /\ keys \in [0..sz - 1 -> KeyOrNull]
        /\ vals \in [0..sz - 1 -> ValueOrNull]
        /\ hashes \in [0..sz - 1 -> Nat]
        /\ Distinct(keys, sz)
        /\ HashesOfKeys(keys, hashes, sz)
        /\ Used(keys, sz) = Used(key, size)
        /\ MapOf(keys, vals, sz) = contentsMap
        /\ \A i \in 0..sz - 1 : keys[i] # k
    BY <2>1, <2>2, GrowProps, UnknownIsAbsent
  <2> HIDE DEF keys, vals, hashes, sz
  <2>4. n < sz
    BY <2>2, <2>3
  <2>5. Counted(keys, sz, n)
    BY <2>3 DEF IInv, Counted
  <2>6. IInv' /\ ret' = 0 /\ state' = "live" /\ Stored(contentsMap, k, v)
    BY <1>t, <1>l, <1>5, <2>1, <2>2, <2>3, <2>4, <2>5, InsertStep
  <2> QED
    BY <1>l, <2>1, <2>6 DEF Stored, Put, Map!set, Map!store
<1>6. ASSUME k # NULL, cannot_grow(k)
      PROVE  IInv' /\ Map!set_fails
  <2>1. /\ AllocMayFail /\ arrays' \subseteq Arrays /\ state' = "failed"
        /\ ret' = -1 /\ UNCHANGED contents
    BY <1>6 DEF cannot_grow
  <2>2. IInv'
    BY <2>1 DEF IInv, TypeOK, slots, KeyOnce, Distinct, HashesOfKeys, Counted,
                Used, contents
  <2>3. contentsMap' = contentsMap
    BY <2>1 DEF contentsMap, contents, MapOf
  <2> QED
    BY <1>l, <2>1, <2>2, <2>3 DEF Map!set_fails
<1> QED
  BY <1>1, <1>2, <1>3, <1>4, <1>5, <1>6 DEF dictionary_set

\* A step that keeps the arrays and the result keeps the invariant and the map.
LEMMA SameContents ==
    ASSUME IInv, UNCHANGED <<contents, arrays>>,
           state' \in {"live", "failed", "deleted", "crashed"},
           state' \in {"failed", "crashed"} => AllocMayFail,
           ret' \in Vals \cup {NULL, DICT_INVALID_KEY, 0, -1}
    PROVE  IInv' /\ contentsMap' = contentsMap
BY DEF IInv, TypeOK, slots, KeyOnce, Distinct, HashesOfKeys, Counted, Used,
       contents, contentsMap, MapOf

\* A scan that would read an array that is not there.
LEMMA CrashStep ==
    ASSUME IInv, crash, arrays # Arrays, state \in {"live", "failed"}
    PROVE  IInv' /\ Map!crash
<1>1. AllocMayFail
  BY DEF IInv
<1>2. state' = "crashed" /\ ret' = ret /\ UNCHANGED <<contents, arrays>>
  BY DEF crash
<1>3. ret' \in Vals \cup {NULL, DICT_INVALID_KEY, 0, -1}
  BY <1>2 DEF IInv, TypeOK
<1>4. IInv' /\ contentsMap' = contentsMap
  BY <1>1, <1>2, <1>3, SameContents
<1> QED
  BY <1>1, <1>2, <1>4 DEF Map!crash

\* dictionary_get
LEMMA GetStep ==
    ASSUME IInv, NEW k \in Keys, dictionary_get(k)
    PROVE  IInv' /\ (Map!crash \/ Map!get(k))
<1>l. state = "live"
  BY DEF dictionary_get
<1>t. size \in Nat /\ Distinct(key, size) /\ val \in [slots -> Vals \cup {NULL}]
  BY DEF IInv, KeyOnce, TypeOK
<1>1. CASE scan_crashes /\ crash
  <2>1. arrays # Arrays
    BY <1>1 DEF scan_crashes, Arrays
  <2> QED
    BY <1>1, <1>l, <2>1, CrashStep
<1>2. ASSUME NEW i \in slots, found(k, i), ret' = val[i],
             UNCHANGED <<contents, arrays, state>>
      PROVE  IInv' /\ Map!get(k)
  <2>1. key[i] = k
    BY <1>2 DEF found, same_key
  <2>2. contentsMap[k] = val[i]
    BY <1>t, <2>1, MapAt DEF contentsMap, slots
  <2>3. ret' \in Vals \cup {NULL, DICT_INVALID_KEY, 0, -1}
    BY <1>t, <1>2
  <2>4. IInv' /\ contentsMap' = contentsMap
    BY <1>2, <1>l, <2>3, SameContents
  <2> QED
    BY <1>2, <1>l, <2>2, <2>4 DEF Map!get
<1>3. ASSUME \A i \in slots : ~found(k, i), ret' = DICT_INVALID_KEY,
             UNCHANGED <<contents, arrays, state>>
      PROVE  IInv' /\ Map!get(k)
  <2>1. \A i \in slots : key[i] # k
    BY <1>3, FoundIsKey DEF IInv
  <2>2. contentsMap[k] = DICT_INVALID_KEY
    BY <1>t, <2>1, MapAt DEF contentsMap, slots
  <2>3. IInv' /\ contentsMap' = contentsMap
    BY <1>3, <1>l, SameContents
  <2> QED
    BY <1>3, <1>l, <2>2, <2>3 DEF Map!get
<1> QED
  BY <1>1, <1>2, <1>3 DEF dictionary_get

\* dictionary_unset
LEMMA UnsetStep ==
    ASSUME IInv, NEW k \in Keys, dictionary_unset(k)
    PROVE  IInv' /\ (Map!crash \/ Map!unset(k))
<1>l. state = "live"
  BY DEF dictionary_unset
<1>t. /\ size \in Nat \ {0} /\ key \in [0..size - 1 -> KeyOrNull]
      /\ val \in [0..size - 1 -> ValueOrNull] /\ hash \in [0..size - 1 -> Nat]
      /\ n \in Nat /\ n <= size /\ Distinct(key, size)
  BY DEF IInv, TypeOK, slots, KeyOrNull, ValueOrNull, KeyOnce
<1>1. CASE scan_crashes /\ crash
  <2>1. arrays # Arrays
    BY <1>1 DEF scan_crashes, Arrays
  <2> QED
    BY <1>1, <1>l, <2>1, CrashStep
<1>2. ASSUME NEW i \in slots, found(k, i), clear(i)
      PROVE  IInv' /\ Map!unset(k)
  <2>1. key[i] = k /\ key[i] # NULL
    BY <1>2 DEF found, same_key
  <2>2. i \in 0..size - 1
    BY DEF slots
  <2>3. /\ key' = [key EXCEPT ![i] = NULL] /\ val' = [val EXCEPT ![i] = NULL]
        /\ hash' = [hash EXCEPT ![i] = 0] /\ n' = n - 1 /\ size' = size
        /\ arrays' = arrays /\ state' = state /\ ret' = ret
    BY <1>2 DEF clear
  <2>4. Update(key', key, size, i, NULL) /\ Update(val', val, size, i, NULL)
    BY <1>t, <2>2, <2>3 DEF Update
  <2>5. Cardinality(Used(key', size)) = Cardinality(Used(key, size)) - 1
    BY <1>t, <2>1, <2>2, <2>3, UsedEmpty
  <2>6. Cardinality(Used(key, size)) \in Nat /\ Cardinality(Used(key', size)) \in Nat
    BY <1>t, UsedFinite
  <2>7. Counted(key', size, n - 1) /\ n - 1 \in Nat
    BY <1>t, <2>5, <2>6 DEF IInv, Counted
  <2>8. TypeOK'
    <3>1. /\ key' \in [0..size - 1 -> Keys \cup {NULL}]
          /\ val' \in [0..size - 1 -> Vals \cup {NULL}]
          /\ hash' \in [0..size - 1 -> Nat]
      BY <1>t, <2>2, <2>3 DEF KeyOrNull, ValueOrNull
    <3>2. slots' = 0..size - 1 /\ n' \in 0..size'
      BY <1>t, <2>3, <2>7 DEF slots
    <3> QED
      BY <1>t, <2>3, <3>1, <3>2 DEF IInv, TypeOK
  <2>9. Distinct(key', size)
    BY <1>t, <2>2, <2>4, DistinctClear
  <2>10. HashesOfKeys(key', hash', size)
    BY <1>t, <2>2, <2>3 DEF HashesOfKeys, IInv
  <2>11. IInv'
    BY <2>3, <2>7, <2>8, <2>9, <2>10 DEF IInv, KeyOnce
  <2>12. MapOf(key', val', size)
           = Put(MapOf(key, val, size), k, DICT_INVALID_KEY)
    BY <1>t, <2>1, <2>2, <2>4, MapClear
  <2>13. contentsMap' = Put(contentsMap, k, DICT_INVALID_KEY)
    BY <2>3, <2>12 DEF contentsMap
  <2> QED
    BY <1>l, <2>3, <2>11, <2>13 DEF Put, Map!unset, Map!store
<1>3. ASSUME \A i \in slots : ~found(k, i),
             UNCHANGED <<contents, arrays, state, ret>>
      PROVE  IInv' /\ Map!unset(k)
  <2>1. \A i \in slots : key[i] # k
    BY <1>3, FoundIsKey DEF IInv
  <2>2. contentsMap[k] = DICT_INVALID_KEY
    BY <1>t, <2>1, MapAt DEF contentsMap, slots
  <2>3. UNCHANGED <<contents, arrays>> /\ state' = state /\ ret' = ret
    BY <1>3
  <2>4. ret' \in Vals \cup {NULL, DICT_INVALID_KEY, 0, -1}
    BY <2>3 DEF IInv, TypeOK
  <2>5. IInv' /\ contentsMap' = contentsMap
    BY <1>l, <2>3, <2>4, SameContents
  <2>6. contentsMap = Put(contentsMap, k, DICT_INVALID_KEY)
    BY <2>2 DEF Put, contentsMap, MapOf
  <2> QED
    BY <1>l, <2>3, <2>5, <2>6 DEF Put, Map!unset, Map!store
<1> QED
  BY <1>1, <1>2, <1>3 DEF dictionary_unset

\* dictionary_del
LEMMA DelStep ==
    ASSUME IInv, dictionary_del
    PROVE  IInv' /\ (Map!crash \/ Map!del)
<1>l. state \in {"live", "failed"}
  BY DEF dictionary_del
<1>1. ASSUME state' = "deleted", UNCHANGED <<contents, arrays, ret>>
      PROVE  IInv' /\ Map!del
  <2>1. ret' \in Vals \cup {NULL, DICT_INVALID_KEY, 0, -1}
    BY <1>1 DEF IInv, TypeOK
  <2>2. IInv' /\ contentsMap' = contentsMap
    BY <1>1, <2>1, SameContents
  <2> QED
    BY <1>1, <1>l, <2>2 DEF Map!del
<1>2. ASSUME ~({"key", "val"} \subseteq arrays), crash
      PROVE  IInv' /\ Map!crash
  <2>1. arrays # Arrays
    BY <1>2 DEF Arrays
  <2> QED
    BY <1>2, <1>l, <2>1, CrashStep
<1> QED
  BY <1>1, <1>2 DEF dictionary_del

-----------------------------------------------------------------------------
(* The theorems.                                                            *)

\* dictionary_new makes an empty dictionary.
LEMMA InitStep == Init => IInv /\ Map!Init
<1> SUFFICES ASSUME Init
             PROVE  IInv /\ Map!Init
  OBVIOUS
<1> USE DEF Init, dictionary_new
<1>1. TypeOK
  BY DictionaryAssumption DEF TypeOK, slots
<1>2. \A i \in 0..size - 1 : key[i] = NULL
  BY DEF slots
<1>3. KeyOnce /\ HashesOfKeys(key, hash, size)
  BY <1>2 DEF KeyOnce, Distinct, HashesOfKeys
<1>4. Used(key, size) = {}
  BY <1>2 DEF Used
<1>5. Counted(key, size, n)
  BY <1>4, FS_EmptySet DEF Counted
<1>6. IInv
  BY <1>1, <1>3, <1>5 DEF IInv
<1>7. \A k \in Keys : \A i \in 0..size - 1 : key[i] # k
  BY <1>2, DictionaryAssumption
<1>8. contentsMap = [k \in Keys |-> DICT_INVALID_KEY]
  BY <1>7 DEF contentsMap, MapOf
<1> QED
  BY <1>6, <1>8 DEF Map!Init

\* Every step keeps the invariant and is one of the map, or stutters.
LEMMA NextStep ==
    IInv /\ [Next]_vars
      => IInv' /\ [Map!Next]_<<contentsMap, state, ret, call>>
<1> SUFFICES ASSUME IInv, [Next]_vars
             PROVE  IInv' /\ [Map!Next]_<<contentsMap, state, ret, call>>
  OBVIOUS
<1>1. ASSUME NEW k \in Keys \cup {NULL}, NEW v \in Vals \cup {NULL},
             dictionary_set(k, v), call' = <<"set", k, v>>
      PROVE  IInv' /\ Map!Next
  BY <1>1, SetStep DEF KeyOrNull, ValueOrNull, Map!Next
<1>2. ASSUME NEW k \in Keys, dictionary_get(k), call' = <<"get", k>>
      PROVE  IInv' /\ Map!Next
  BY <1>2, GetStep DEF Map!Next
<1>3. ASSUME NEW k \in Keys, dictionary_unset(k), call' = <<"unset", k>>
      PROVE  IInv' /\ Map!Next
  BY <1>3, UnsetStep DEF Map!Next
<1>4. ASSUME dictionary_del, call' = <<"del">>
      PROVE  IInv' /\ Map!Next
  BY <1>4, DelStep DEF Map!Next
<1>5. ASSUME UNCHANGED vars
      PROVE  IInv' /\ UNCHANGED <<contentsMap, state, ret, call>>
  BY <1>5 DEF vars, contents, IInv, TypeOK, slots, KeyOnce, Distinct,
              HashesOfKeys, Counted, Used, contentsMap, MapOf
<1> QED
  BY <1>1, <1>2, <1>3, <1>4, <1>5 DEF Next

\* The inductive invariant holds in every reachable state.
THEOREM DictionaryInvariant == Spec => []IInv
<1>1. Init => IInv
  BY InitStep
<1>2. IInv /\ [Next]_vars => IInv'
  BY NextStep
<1> QED
  BY <1>1, <1>2, PTL DEF Spec

\* Type correctness: n never leaves 0..size, whatever is set and removed.
THEOREM TypeCorrect == Spec => []TypeOK
<1>1. IInv => TypeOK
  BY DEF IInv
<1> QED
  BY <1>1, DictionaryInvariant, PTL

\* No key is in the dictionary twice.
THEOREM NoDuplicateKey == Spec => []KeyOnce
<1>1. IInv => KeyOnce
  BY DEF IInv
<1> QED
  BY <1>1, DictionaryInvariant, PTL

\* n covers the keys, and the search for an empty slot ends.
THEOREM SearchTerminates == Spec => []CountCoversKeys
<1>1. IInv => CountCoversKeys
  <2> SUFFICES ASSUME IInv, n < size
               PROVE  \E i \in slots : key[i] = NULL
    BY DEF IInv, CountCoversKeys
  <2>1. size \in Nat /\ n \in Nat
    BY DEF IInv, TypeOK
  <2>2. Cardinality(Used(key, size)) < size
    BY <2>1, UsedFinite DEF IInv, Counted
  <2> QED
    BY <2>1, <2>2, EmptySlotExists DEF slots
<1> QED
  BY <1>1, DictionaryInvariant, PTL

\* The dictionary implements the map: dictionary_get returns the value that
\* was set last, whatever the hash function.
THEOREM DictionaryIsMap == Spec => ImplementsMap
<1>1. Init => Map!Init
  BY InitStep
<1>2. IInv /\ [Next]_vars => [Map!Next]_<<contentsMap, state, ret, call>>
  BY NextStep
<1> QED
  BY <1>1, <1>2, DictionaryInvariant, PTL DEF Spec, ImplementsMap, Map!Spec, Map!vars
-----------------------------------------------------------------------------
(* Slots in the order of a scan.                                            *)

Below(S, i) == {j \in S : j < i}

\* What is before a slot is counted by a number less than all of them.
LEMMA CountBelow ==
    ASSUME NEW S, IsFiniteSet(S), S \subseteq Nat, NEW i \in S
    PROVE  Cardinality(Below(S, i)) \in 0..Cardinality(S) - 1
<1>1. Below(S, i) \in SUBSET S /\ i \notin Below(S, i)
  BY DEF Below
<1>2. /\ IsFiniteSet(Below(S, i)) /\ Cardinality(Below(S, i)) <= Cardinality(S)
      /\ Cardinality(S) = Cardinality(Below(S, i)) => S = Below(S, i)
  BY <1>1, FS_Subset
<1>3. Cardinality(S) \in Nat /\ Cardinality(Below(S, i)) \in Nat
  BY <1>2, FS_CardinalityType
<1> QED
  BY <1>1, <1>2, <1>3

\* More is before a later slot.
LEMMA CountsAscend ==
    ASSUME NEW S, IsFiniteSet(S), S \subseteq Nat, NEW i \in S, NEW j \in S, i < j
    PROVE  Cardinality(Below(S, i)) < Cardinality(Below(S, j))
<1>1. /\ Below(S, j) \in SUBSET S /\ Below(S, i) \in SUBSET Below(S, j)
      /\ i \in Below(S, j) /\ i \notin Below(S, i)
  <2>1. \A k \in S : k < i => k < j
    OBVIOUS
  <2>2. ~(i < i)
    OBVIOUS
  <2> QED
    BY <2>1, <2>2 DEF Below
<1>2. IsFiniteSet(Below(S, j))
  BY <1>1, FS_Subset
<1>3. /\ IsFiniteSet(Below(S, i))
      /\ Cardinality(Below(S, i)) <= Cardinality(Below(S, j))
      /\ Cardinality(Below(S, i)) # Cardinality(Below(S, j))
  BY <1>1, <1>2, FS_Subset
<1>4. Cardinality(Below(S, i)) \in Nat /\ Cardinality(Below(S, j)) \in Nat
  BY <1>2, <1>3, FS_CardinalityType
<1> QED
  BY <1>3, <1>4

\* Every number less than all of them counts what is before some slot.
LEMMA CountsReached ==
    ASSUME NEW S, IsFiniteSet(S), S \subseteq Nat,
           NEW c \in 0..Cardinality(S) - 1
    PROVE  \E i \in S : Cardinality(Below(S, i)) = c
<1> DEFINE f == [i \in S |-> Cardinality(Below(S, i))]
           T == 0..Cardinality(S) - 1
<1>1. f \in [S -> T]
  BY CountBelow
<1>2. ASSUME NEW i \in S, NEW j \in S, f[i] = f[j] PROVE i = j
  <2>1. Cardinality(Below(S, i)) \in Nat /\ Cardinality(Below(S, j)) \in Nat
    <3>1. Below(S, i) \in SUBSET S /\ Below(S, j) \in SUBSET S
      BY DEF Below
    <3>2. IsFiniteSet(Below(S, i)) /\ IsFiniteSet(Below(S, j))
      BY <3>1, FS_Subset
    <3> QED
      BY <3>2, FS_CardinalityType
  <2>2. ASSUME i < j PROVE FALSE
    <3>1. Cardinality(Below(S, i)) < Cardinality(Below(S, j))
      BY <2>2, CountsAscend
    <3> QED
      BY <1>2, <2>1, <3>1
  <2>3. ASSUME j < i PROVE FALSE
    <3>1. Cardinality(Below(S, j)) < Cardinality(Below(S, i))
      BY <2>3, CountsAscend
    <3> QED
      BY <1>2, <2>1, <3>1
  <2> QED
    BY <2>2, <2>3
<1>3. Cardinality(S) \in Nat
  BY FS_CardinalityType
<1>4. IsFiniteSet(T) /\ Cardinality(T) = Cardinality(S)
  <2>1. Cardinality(S) - 1 \in Int /\ 0 \in Int
    BY <1>3
  <2>2. /\ IsFiniteSet(T)
        /\ Cardinality(T) = IF 0 > Cardinality(S) - 1 THEN 0
                            ELSE (Cardinality(S) - 1) - 0 + 1
    BY <2>1, FS_Interval
  <2> HIDE DEF T
  <2> QED
    BY <1>3, <2>2
<1> HIDE DEF f, T
<1>5. f \in Injection(S, T)
  BY <1>1, <1>2 DEF Injection, IsInjective
<1>6. f \in Surjection(S, T)
  BY <1>4, <1>5, FS_Injection
<1>7. c \in T
  BY DEF T
<1>8. \E i \in S : f[i] = c
  BY <1>6, <1>7 DEF Surjection
<1> QED
  BY <1>8 DEF f

\* InOrder lists each slot of a set once, the earlier before the later.
LEMMA InOrderLists ==
    ASSUME NEW S, IsFiniteSet(S), S \subseteq Nat
    PROVE  /\ Cardinality(S) \in Nat
           /\ DOMAIN InOrder(S) = 1..Cardinality(S)
           /\ \A m \in 1..Cardinality(S) :
                 /\ InOrder(S)[m] \in S
                 /\ Cardinality(Below(S, InOrder(S)[m])) = m - 1
           /\ \A l, m \in 1..Cardinality(S) : InOrder(S)[l] = InOrder(S)[m] => l = m
           /\ \A i \in S : \E m \in 1..Cardinality(S) : InOrder(S)[m] = i
<1>1. Cardinality(S) \in Nat
  BY FS_CardinalityType
<1>2. DOMAIN InOrder(S) = 1..Cardinality(S)
  BY DEF InOrder
<1>3. ASSUME NEW m \in 1..Cardinality(S)
      PROVE  /\ InOrder(S)[m] \in S
             /\ Cardinality(Below(S, InOrder(S)[m])) = m - 1
  <2>1. m - 1 \in 0..Cardinality(S) - 1
    BY <1>1
  <2>2. \E i \in S : Cardinality(Below(S, i)) = m - 1
    BY <2>1, CountsReached
  <2>3. InOrder(S)[m] = CHOOSE i \in S : Cardinality(Below(S, i)) = m - 1
    BY DEF InOrder, Below
  <2> QED
    BY <2>2, <2>3
<1>4. ASSUME NEW l \in 1..Cardinality(S), NEW m \in 1..Cardinality(S),
             InOrder(S)[l] = InOrder(S)[m]
      PROVE  l = m
  <2>1. l - 1 = m - 1
    BY <1>3, <1>4
  <2> QED
    BY <2>1
<1>5. ASSUME NEW i \in S
      PROVE  \E m \in 1..Cardinality(S) : InOrder(S)[m] = i
  <2> DEFINE c == Cardinality(Below(S, i))
             at == InOrder(S)[c + 1]
  <2>1. c \in 0..Cardinality(S) - 1
    BY CountBelow
  <2>2. c + 1 \in 1..Cardinality(S) /\ (c + 1) - 1 = c
    BY <1>1, <2>1
  <2> HIDE DEF c
  <2>3. at \in S /\ Cardinality(Below(S, at)) = c
    BY <1>3, <2>2
  <2> HIDE DEF at
  <2>4. ~(i < at) /\ ~(at < i)
    <3>1. ASSUME i < at PROVE FALSE
      <4>1. Cardinality(Below(S, i)) < Cardinality(Below(S, at))
        BY <2>3, <3>1, CountsAscend
      <4> QED
        BY <2>1, <2>3, <4>1 DEF c
    <3>2. ASSUME at < i PROVE FALSE
      <4>1. Cardinality(Below(S, at)) < Cardinality(Below(S, i))
        BY <2>3, <3>2, CountsAscend
      <4> QED
        BY <2>1, <2>3, <4>1 DEF c
    <3> QED
      BY <3>1, <3>2
  <2>5. at = i
    BY <2>3, <2>4
  <2> QED
    BY <2>2, <2>5 DEF at
<1> QED
  BY <1>1, <1>2, <1>3, <1>4, <1>5

\* What stands in the slots of a set, in their order.
Listed(S, g) == [m \in DOMAIN InOrder(S) |-> g[InOrder(S)[m]]]

\* What g has in the slots of S.
AllOf(S, g) == {g[i] : i \in S}

\* Each of it is listed once, if it differs from slot to slot.
LEMMA ListOfSlots ==
    ASSUME NEW S, IsFiniteSet(S), S \subseteq Nat, NEW X, NEW g,
           \A i \in S : g[i] \in X,
           \A i, j \in S : g[i] = g[j] => i = j
    PROVE  /\ Listed(S, g) \in Seq(X) /\ Len(Listed(S, g)) = Cardinality(S)
           /\ IsInjective(Listed(S, g))
           /\ ToSet(Listed(S, g)) = AllOf(S, g)
<1> DEFINE at == InOrder(S)
           s == [m \in DOMAIN at |-> g[at[m]]]
           size_S == Cardinality(S)
<1>1. /\ size_S \in Nat /\ DOMAIN at = 1..size_S
      /\ \A m \in 1..size_S : at[m] \in S
  BY InOrderLists
<1>o. \A l, m \in 1..size_S : at[l] = at[m] => l = m
  BY InOrderLists
<1>a. \A i \in S : \E m \in 1..size_S : at[m] = i
  BY InOrderLists
<1> HIDE DEF at, size_S
<1>2. DOMAIN s = 1..size_S /\ \A m \in 1..size_S : s[m] = g[at[m]]
  BY <1>1
<1>3. s \in [1..size_S -> X]
  BY <1>1
<1> HIDE DEF s
<1>4. s \in Seq(X) /\ Len(s) = size_S
  BY <1>1, <1>2, <1>3
<1>5. ASSUME NEW l \in DOMAIN s, NEW m \in DOMAIN s, s[l] = s[m] PROVE l = m
  <2>1. l \in 1..size_S /\ m \in 1..size_S
    BY <1>2, <1>5
  <2>2. at[l] \in S /\ at[m] \in S /\ g[at[l]] = g[at[m]]
    BY <1>1, <1>2, <1>5, <2>1
  <2>3. at[l] = at[m]
    BY <2>2
  <2> QED
    BY <1>o, <2>1, <2>3
<1>6. ToSet(s) = AllOf(S, g)
  <2>1. ASSUME NEW x \in ToSet(s) PROVE \E i \in S : x = g[i]
    <3>1. PICK m \in 1..size_S : x = s[m]
      BY <1>2 DEF ToSet
    <3>2. at[m] \in S /\ x = g[at[m]]
      BY <1>1, <1>2, <3>1
    <3> QED
      BY <3>2
  <2>2. ASSUME NEW i \in S PROVE g[i] \in ToSet(s)
    <3>1. PICK m \in 1..size_S : at[m] = i
      BY <1>a
    <3>2. m \in DOMAIN s /\ g[i] = s[m]
      BY <1>2, <3>1
    <3> QED
      BY <3>2 DEF ToSet
  <2> QED
    BY <2>1, <2>2 DEF AllOf
<1> QED
  BY <1>4, <1>5, <1>6 DEF s, at, size_S, IsInjective, Listed
-----------------------------------------------------------------------------
(* What the arrays of a dictionary that can be read say about its map.      *)

KeySlots     == {i \in slots : key[i] # NULL}
SectionSlots == {i \in slots : is_section(i)}
KeysOf(s)    == {i \in slots : is_key_of(s, i)}

\* Sets of slots can be listed.
LEMMA SlotSets ==
    ASSUME IInv, NEW S, S \subseteq slots
    PROVE  IsFiniteSet(S) /\ S \subseteq Nat
<1>1. slots \subseteq Nat
  BY DEF slots, IInv, TypeOK
<1>2. IsFiniteSet(slots)
  <2>1. size \in Nat
    BY DEF IInv, TypeOK
  <2> QED
    BY <2>1, UsedFinite DEF slots
<1> QED
  BY <1>1, <1>2, FS_Subset

\* The arrays: each key in one slot.
LEMMA KeyInSlot ==
    ASSUME IInv
    PROVE  /\ \A i \in slots : key[i] \in Keys \cup {NULL} /\ val[i] \in Vals \cup {NULL}
           /\ \A i, j \in slots : key[i] # NULL /\ key[i] = key[j] => i = j
           /\ NULL \notin Keys
BY DictionaryAssumption DEF IInv, TypeOK, KeyOnce, Distinct, slots

\* A key is known to the map if it has a slot; the map gives that slot's value.
LEMMA KnownInSlot ==
    ASSUME IInv, NEW k \in Keys
    PROVE  /\ k \in Known <=> \E i \in slots : key[i] = k
           /\ \A i \in slots : key[i] = k => contentsMap[k] = val[i]
<1>1. size \in Nat /\ Distinct(key, size)
  BY DEF IInv, TypeOK, KeyOnce
<1>2. /\ \A i \in slots : key[i] = k => contentsMap[k] = val[i]
      /\ (\A i \in slots : key[i] # k) => contentsMap[k] = DICT_INVALID_KEY
  BY <1>1, MapAt DEF contentsMap, slots
<1>3. \A i \in slots : val[i] # DICT_INVALID_KEY
  BY KeyInSlot, DictionaryAssumption
<1> QED
  BY <1>2, <1>3 DEF Known

\* iniparser_find_entry finds what the map knows.
LEMMA FindEntry ==
    ASSUME IInv, NEW k \in Keys
    PROVE  iniparser_find_entry(k) <=> k \in Known
<1>1. \A i \in slots : found(k, i) <=> key[i] = k
  BY FoundIsKey DEF IInv
<1>2. CASE \E i \in slots : found(k, i)
  <2> DEFINE i == CHOOSE i \in slots : found(k, i)
  <2>1. i \in slots
    BY <1>2
  <2>2. getstring(k) = val[i]
    BY <1>2 DEF getstring
  <2> HIDE DEF i
  <2>3. getstring(k) # DICT_INVALID_KEY
    BY <2>1, <2>2, KeyInSlot, DictionaryAssumption
  <2> QED
    BY <1>1, <1>2, <2>3, KnownInSlot DEF iniparser_find_entry
<1>3. CASE ~\E i \in slots : found(k, i)
  BY <1>1, <1>3, KnownInSlot DEF iniparser_find_entry, getstring
<1> QED
  BY <1>2, <1>3

-----------------------------------------------------------------------------
(* Sections.                                                                *)

\* Section number m is the one that has m others before it.
LEMMA SectionNumber ==
    ASSUME IInv, NEW m \in 0..iniparser_getnsec - 1
    PROVE  iniparser_getsecname(m) = key[InOrder(SectionSlots)[m + 1]]
<1> DEFINE S == SectionSlots
           i == InOrder(S)[m + 1]
           stops(j) == /\ foundsec(j) > m
                       /\ \A l \in 0..j - 1 : foundsec(l) <= m
<1>1. IsFiniteSet(S) /\ S \subseteq Nat /\ S \subseteq slots
  BY SlotSets DEF SectionSlots
<1>2. iniparser_getnsec = Cardinality(S) /\ Cardinality(S) \in Nat
  BY <1>1, FS_CardinalityType DEF iniparser_getnsec, SectionSlots
<1>3. m + 1 \in 1..Cardinality(S) /\ (m + 1) - 1 = m /\ m \in Nat
  BY <1>2
<1>4. i \in S /\ Cardinality(Below(S, i)) = m
  BY <1>1, <1>3, InOrderLists
<1>5. size \in Nat /\ slots = 0..size - 1 /\ i \in Nat /\ i \in slots
  BY <1>1, <1>4 DEF IInv, TypeOK, slots
<1> HIDE DEF i
<1>6. foundsec(i) = m + 1
  <2>1. {j \in 0..i : is_section(j)} = Below(S, i) \cup {i}
    <3>1. is_section(i)
      BY <1>4 DEF SectionSlots
    <3>2. \A j : j \in 0..i <=> j \in 0..i - 1 \/ j = i
      BY <1>5
    <3>3. \A j : j \in slots /\ j < i <=> j \in 0..i - 1
      BY <1>5
    <3> QED
      BY <3>1, <3>2, <3>3 DEF Below, SectionSlots
  <2>2. IsFiniteSet(Below(S, i)) /\ i \notin Below(S, i)
    <3>1. Below(S, i) \in SUBSET S /\ i \notin Below(S, i)
      BY <1>5 DEF Below
    <3> QED
      BY <1>1, <3>1, FS_Subset
  <2>3. Cardinality(Below(S, i) \cup {i}) = m + 1
    BY <1>4, <2>2, FS_AddElement
  <2> QED
    BY <2>1, <2>3 DEF foundsec
<1>7. ASSUME NEW j \in 0..i - 1 PROVE foundsec(j) <= m
  <2>1. {l \in 0..j : is_section(l)} \in SUBSET Below(S, i)
    <3>1. \A l \in 0..j : l \in slots /\ l < i
      BY <1>5
    <3> QED
      BY <3>1 DEF Below, SectionSlots
  <2>2. IsFiniteSet(Below(S, i))
    <3>1. Below(S, i) \in SUBSET S
      BY DEF Below
    <3> QED
      BY <1>1, <3>1, FS_Subset
  <2>3. Cardinality({l \in 0..j : is_section(l)}) <= Cardinality(Below(S, i))
    BY <2>1, <2>2, FS_Subset
  <2> QED
    BY <1>4, <2>3 DEF foundsec
<1>8. foundsec(i) > m
  BY <1>3, <1>6
<1>9. ASSUME NEW j \in slots, stops(j) PROVE j = i
  <2>1. j \in Nat
    BY <1>5
  <2>2. CASE j < i
    <3>1. foundsec(j) <= m /\ foundsec(j) > m
      BY <1>5, <1>7, <1>9, <2>1, <2>2
    <3>2. foundsec(j) \in Nat
      <4>1. IsFiniteSet(0..j) /\ {l \in 0..j : is_section(l)} \in SUBSET (0..j)
        BY <2>1, FS_Interval
      <4>2. IsFiniteSet({l \in 0..j : is_section(l)})
        BY <4>1, FS_Subset
      <4> QED
        BY <4>2, FS_CardinalityType DEF foundsec
    <3> QED
      BY <1>3, <3>1, <3>2
  <2>3. CASE i < j
    <3>1. i \in 0..j - 1
      BY <1>5, <2>1, <2>3
    <3>2. foundsec(i) <= m
      BY <1>9, <3>1
    <3> QED
      BY <1>3, <1>6, <3>2
  <2> QED
    BY <1>5, <2>1, <2>2, <2>3
<1>10. i = CHOOSE j \in slots : stops(j)
  <2>1. stops(i)
    BY <1>7, <1>8
  <2> HIDE DEF stops
  <2> QED
    BY <1>5, <1>9, <2>1
<1>11. ~(m < 0 \/ iniparser_getnsec <= m)
  BY <1>2
<1> QED
  BY <1>10, <1>11 DEF iniparser_getsecname, i

\* The sections, numbered from 0, are those of the map, each once.
LEMMA SectionsOfMap ==
    ASSUME IInv
    PROVE  /\ iniparser_getnsec \in Nat
           /\ \A m \in 0..iniparser_getnsec - 1 :
                 iniparser_getsecname(m) \in Known \cap Sections
           /\ \A k \in Known \cap Sections :
                 \E m \in 0..iniparser_getnsec - 1 : iniparser_getsecname(m) = k
           /\ \A l, m \in 0..iniparser_getnsec - 1 :
                 iniparser_getsecname(l) = iniparser_getsecname(m) => l = m
<1> DEFINE at == InOrder(SectionSlots)
           nsec == iniparser_getnsec
<1>1. IsFiniteSet(SectionSlots) /\ SectionSlots \subseteq Nat
      /\ SectionSlots \subseteq slots
  BY SlotSets DEF SectionSlots
<1>2. nsec = Cardinality(SectionSlots) /\ nsec \in Nat
  BY <1>1, FS_CardinalityType DEF iniparser_getnsec, SectionSlots
<1>3. /\ \A m \in 1..nsec : at[m] \in SectionSlots
      /\ \A l, m \in 1..nsec : at[l] = at[m] => l = m
  BY <1>1, <1>2, InOrderLists
<1>4. \A i \in SectionSlots : \E m \in 1..nsec : at[m] = i
  BY <1>1, <1>2, InOrderLists
<1>5. \A m \in 0..nsec - 1 : /\ iniparser_getsecname(m) = key[at[m + 1]]
                            /\ m + 1 \in 1..nsec
  BY <1>2, SectionNumber
<1> HIDE DEF at, nsec
<1>6. ASSUME NEW i \in SectionSlots
      PROVE  i \in slots /\ key[i] # NULL /\ key[i] \in Known \cap Sections
  <2>1. i \in slots /\ key[i] # NULL /\ key[i] \in Sections
    BY DEF SectionSlots, is_section
  <2>2. key[i] \in Keys
    BY <2>1, KeyInSlot
  <2> QED
    BY <2>1, <2>2, KnownInSlot
<1>7. ASSUME NEW m \in 0..nsec - 1
      PROVE  iniparser_getsecname(m) \in Known \cap Sections
  BY <1>3, <1>5, <1>6
<1>8. ASSUME NEW k \in Known \cap Sections
      PROVE  \E m \in 0..nsec - 1 : iniparser_getsecname(m) = k
  <2>1. k \in Keys
    BY DEF Known
  <2>2. PICK i \in slots : key[i] = k
    BY <2>1, KnownInSlot
  <2>3. i \in SectionSlots
    BY <2>1, <2>2, KeyInSlot DEF SectionSlots, is_section
  <2>4. PICK m \in 1..nsec : at[m] = i
    BY <1>4, <2>3
  <2>5. m - 1 \in 0..nsec - 1 /\ (m - 1) + 1 = m
    BY <1>2
  <2>6. iniparser_getsecname(m - 1) = key[at[m]]
    BY <1>5, <2>5
  <2> QED
    BY <2>2, <2>4, <2>5, <2>6
<1>9. ASSUME NEW l \in 0..nsec - 1, NEW m \in 0..nsec - 1,
             iniparser_getsecname(l) = iniparser_getsecname(m)
      PROVE  l = m
  <2>1. /\ l + 1 \in 1..nsec /\ m + 1 \in 1..nsec
        /\ key[at[l + 1]] = key[at[m + 1]]
    BY <1>5, <1>9
  <2>2. /\ at[l + 1] \in slots /\ at[m + 1] \in slots /\ key[at[l + 1]] # NULL
    BY <1>3, <1>6, <2>1
  <2>3. at[l + 1] = at[m + 1]
    BY <2>1, <2>2, KeyInSlot
  <2>4. l + 1 = m + 1
    BY <1>3, <2>1, <2>3
  <2> QED
    BY <2>4
<1> QED
  BY <1>2, <1>7, <1>8, <1>9 DEF nsec

\* Sections are numbered without gaps, and no number beyond has one.
THEOREM SectionNumbers == Spec => []SectionsAreNumbered
<1>1. IInv => SectionsAreNumbered
  <2> SUFFICES ASSUME IInv PROVE SectionsAreNumbered
    OBVIOUS
  <2> DEFINE nsec == iniparser_getnsec
  <2>1. nsec \in Nat
    BY SectionsOfMap
  <2>2. {iniparser_getsecname(m) : m \in 0..nsec - 1} = Known \cap Sections
    BY SectionsOfMap
  <2>3. iniparser_getsecname(nsec) = NULL /\ iniparser_getsecname(-1) = NULL
    BY <2>1 DEF iniparser_getsecname
  <2> QED
    BY <2>2, <2>3, SectionsOfMap DEF SectionsAreNumbered
<1> QED
  BY <1>1, DictionaryInvariant, PTL
-----------------------------------------------------------------------------
(* The keys of a section.                                                   *)

\* The slots of the keys of a section.
LEMMA KeysOfMap ==
    ASSUME IInv, NEW s \in Sections
    PROVE  /\ KeysOf(s) \subseteq slots
           /\ \A i \in KeysOf(s) : key[i] \in Known \ Sections
                                   /\ SectionOf[key[i]] = s
           /\ \A k \in Known \ Sections : SectionOf[k] = s =>
                 \E i \in KeysOf(s) : key[i] = k
<1>1. ASSUME NEW i \in KeysOf(s)
      PROVE  key[i] \in Known \ Sections /\ SectionOf[key[i]] = s
  <2>1. i \in slots /\ key[i] # NULL /\ key[i] \notin Sections
        /\ SectionOf[key[i]] = s
    BY DEF KeysOf, is_key_of
  <2>2. key[i] \in Keys
    BY <2>1, KeyInSlot
  <2> QED
    BY <2>1, <2>2, KnownInSlot
<1>2. ASSUME NEW k \in Known \ Sections, SectionOf[k] = s
      PROVE  \E i \in KeysOf(s) : key[i] = k
  <2>1. k \in Keys /\ k # NULL
    BY KeyInSlot DEF Known
  <2>2. PICK i \in slots : key[i] = k
    BY <2>1, KnownInSlot
  <2>3. i \in KeysOf(s)
    BY <1>2, <2>1, <2>2 DEF KeysOf, is_key_of
  <2> QED
    BY <2>2, <2>3
<1> QED
  BY <1>1, <1>2 DEF KeysOf

\* getseckeys returns as many keys as getsecnkeys counts, the keys of the
\* section, each once.
THEOREM SectionKeys == Spec => []SectionKeysFill
<1>1. ASSUME IInv, NEW s \in Sections
      PROVE  LET keys == iniparser_getseckeys(s)
                 inMap == {k \in Known \ Sections : SectionOf[k] = s}
             IN  /\ Len(keys) = iniparser_getsecnkeys(s)
                 /\ IsInjective(keys)
                 /\ ToSet(keys) = IF s \in Known THEN inMap ELSE {}
  <2> DEFINE S == KeysOf(s)
             listed == Listed(S, key)
  <2>1. s \in Keys
    BY SectionAssumption
  <2>2. iniparser_find_entry(s) <=> s \in Known
    BY <1>1, <2>1, FindEntry
  <2>3. CASE s \notin Known
    <3>1. iniparser_getseckeys(s) = <<>> /\ iniparser_getsecnkeys(s) = 0
      BY <2>2, <2>3 DEF iniparser_getseckeys, iniparser_getsecnkeys
    <3>2. ToSet(<<>>) = {} /\ IsInjective(<<>>)
      BY DEF ToSet, IsInjective
    <3> QED
      BY <2>3, <3>1, <3>2
  <2>4. CASE s \in Known
    <3>1. IsFiniteSet(S) /\ S \subseteq Nat /\ S \subseteq slots
      BY <1>1, SlotSets, KeysOfMap
    <3>2. /\ \A i \in S : key[i] \in Keys \cup {NULL}
          /\ \A i, j \in S : key[i] = key[j] => i = j
      BY <1>1, <3>1, KeyInSlot DEF KeysOf, is_key_of
    <3> DEFINE X == Keys \cup {NULL}
    <3>a. IsFiniteSet(S) /\ S \subseteq Nat
      BY <3>1
    <3>b. /\ \A i \in S : key[i] \in X
          /\ \A i, j \in S : key[i] = key[j] => i = j
      BY <3>2
    <3> HIDE DEF S, X
    <3>3. /\ Listed(S, key) \in Seq(X) /\ Len(Listed(S, key)) = Cardinality(S)
          /\ IsInjective(Listed(S, key))
          /\ ToSet(Listed(S, key)) = AllOf(S, key)
      BY <3>a, <3>b, ListOfSlots
    <3> USE DEF S
    <3>4. iniparser_getseckeys(s) = listed
      BY <2>2, <2>4 DEF iniparser_getseckeys, KeysOf, Listed
    <3>5. iniparser_getsecnkeys(s) = Cardinality(S)
      BY <2>2, <2>4 DEF iniparser_getsecnkeys, KeysOf
    <3>6. AllOf(S, key) = {k \in Known \ Sections : SectionOf[k] = s}
      BY <1>1, KeysOfMap DEF AllOf
    <3> QED
      BY <2>4, <3>3, <3>4, <3>5, <3>6
  <2> QED
    BY <2>3, <2>4
<1>2. IInv => SectionKeysFill
  BY <1>1 DEF SectionKeysFill
<1> QED
  BY <1>2, DictionaryInvariant, PTL

-----------------------------------------------------------------------------
(* Sequences one after the other.                                           *)

\* Of two lists without repetition that have nothing in common.
LEMMA JoinedLists ==
    ASSUME NEW A, NEW p \in Seq(A), NEW q \in Seq(A), IsInjective(p), IsInjective(q),
           ToSet(p) \cap ToSet(q) = {}
    PROVE  /\ p \o q \in Seq(A) /\ IsInjective(p \o q)
           /\ ToSet(p \o q) = ToSet(p) \cup ToSet(q)
<1> DEFINE r == p \o q
<1>1. /\ Len(p) \in Nat /\ Len(q) \in Nat
      /\ DOMAIN p = 1..Len(p) /\ DOMAIN q = 1..Len(q)
  OBVIOUS
<1>2. /\ r \in Seq(A) /\ DOMAIN r = 1..Len(p) + Len(q)
      /\ \A i \in DOMAIN p : r[i] = p[i]
      /\ \A i \in DOMAIN q : r[Len(p) + i] = q[i]
  BY <1>1
<1> HIDE DEF r
<1>3. ASSUME NEW i \in DOMAIN r
      PROVE  \/ i \in DOMAIN p
             \/ /\ i - Len(p) \in DOMAIN q /\ Len(p) + (i - Len(p)) = i
  BY <1>1, <1>2
<1>4. ASSUME NEW i \in DOMAIN r
      PROVE  \/ i \in DOMAIN p /\ r[i] = p[i] /\ r[i] \in ToSet(p)
             \/ i - Len(p) \in DOMAIN q /\ r[i] = q[i - Len(p)] /\ r[i] \in ToSet(q)
  <2>1. CASE i \in DOMAIN p
    BY <1>2, <2>1 DEF ToSet
  <2>2. CASE i - Len(p) \in DOMAIN q /\ Len(p) + (i - Len(p)) = i
    <3>1. r[Len(p) + (i - Len(p))] = q[i - Len(p)]
      BY <1>2, <2>2
    <3> QED
      BY <2>2, <3>1 DEF ToSet
  <2> QED
    BY <1>3, <2>1, <2>2
<1>5. ASSUME NEW i \in DOMAIN r, NEW j \in DOMAIN r, r[i] = r[j] PROVE i = j
  <2>1. CASE /\ i \in DOMAIN p /\ r[i] = p[i]
             /\ j \in DOMAIN p /\ r[j] = p[j]
    BY <1>5, <2>1 DEF IsInjective
  <2>2. CASE /\ i - Len(p) \in DOMAIN q /\ r[i] = q[i - Len(p)]
             /\ j - Len(p) \in DOMAIN q /\ r[j] = q[j - Len(p)]
    <3>1. i - Len(p) = j - Len(p)
      BY <1>5, <2>2 DEF IsInjective
    <3>2. i \in Int /\ j \in Int
      BY <1>1, <1>2
    <3> QED
      BY <1>1, <3>1, <3>2
  <2> QED
    BY <1>4, <1>5, <2>1, <2>2
<1>6. ToSet(r) = ToSet(p) \cup ToSet(q)
  <2>1. ToSet(r) \subseteq ToSet(p) \cup ToSet(q)
    <3> SUFFICES ASSUME NEW x \in ToSet(r) PROVE x \in ToSet(p) \cup ToSet(q)
      OBVIOUS
    <3>1. PICK i \in DOMAIN r : x = r[i]
      BY DEF ToSet
    <3> QED
      BY <1>4, <3>1
  <2>2. ASSUME NEW i \in DOMAIN p PROVE p[i] \in ToSet(r)
    <3>1. i \in DOMAIN r /\ r[i] = p[i]
      BY <1>1, <1>2
    <3> QED
      BY <3>1 DEF ToSet
  <2>3. ASSUME NEW i \in DOMAIN q PROVE q[i] \in ToSet(r)
    <3>1. Len(p) + i \in DOMAIN r /\ r[Len(p) + i] = q[i]
      BY <1>1, <1>2
    <3> QED
      BY <3>1 DEF ToSet
  <2> QED
    BY <2>1, <2>2, <2>3 DEF ToSet
<1> QED
  BY <1>2, <1>5, <1>6 DEF r, IsInjective

\* A set of naturals that is not empty has a least element.
LEMMA LeastOfNat ==
    ASSUME NEW S \in SUBSET Nat, S # {}
    PROVE  \E i \in S : \A j \in S : i <= j
<1> DEFINE less == OpToRel(<, Nat)
<1>1. PICK i \in S : \A j \in S : <<j, i>> \notin less
  BY NatLessThanWellFounded, WFMin
<1>2. \A j \in S : ~(j < i)
  BY <1>1 DEF OpToRel
<1> QED
  BY <1>2

\* The recursive function of FlattenSeq, up to its n-th value.
Flattened(seqs, f, n_) ==
    f = [i \in 1..n_ |-> IF i = 1 THEN seqs[i] ELSE f[i - 1] \o seqs[i]]

\* It exists.
LEMMA FlattenedExists ==
    ASSUME NEW seqs, NEW top \in Nat \ {0}
    PROVE  \E f : Flattened(seqs, f, top)
<1> DEFINE Missing == {m \in Nat \ {0} : ~\E f : Flattened(seqs, f, m)}
<1> SUFFICES ASSUME Missing # {} PROVE FALSE
  OBVIOUS
<1>1. PICK m \in Missing : \A j \in Missing : m <= j
  BY LeastOfNat
<1>2. CASE m = 1
  <2>1. Flattened(seqs, [i \in 1..1 |-> seqs[i]], 1)
    BY DEF Flattened
  <2> QED
    BY <1>1, <1>2, <2>1
<1>3. CASE m # 1
  <2>1. m - 1 \in Nat \ {0} /\ ~(m <= m - 1) /\ m \in Nat
    BY <1>1, <1>3
  <2>2. PICK f : Flattened(seqs, f, m - 1)
    BY <1>1, <2>1
  <2> DEFINE g == [i \in 1..m |-> IF i = 1 THEN seqs[i] ELSE f[i - 1] \o seqs[i]]
  <2>3. \A i \in 1..m - 1 : f[i] = IF i = 1 THEN seqs[i] ELSE f[i - 1] \o seqs[i]
    BY <2>2 DEF Flattened
  <2>4. \A i \in 1..m - 1 : g[i] = f[i]
    BY <2>1, <2>3
  <2>5. \A i \in 1..m : i # 1 => i - 1 \in 1..m - 1
    BY <2>1
  <2>6. \A i \in 1..m : i # 1 => g[i - 1] = f[i - 1]
    BY <2>4, <2>5
  <2>7. g = [i \in 1..m |-> IF i = 1 THEN seqs[i] ELSE g[i - 1] \o seqs[i]]
    BY <2>6
  <2>8. Flattened(seqs, g, m)
    BY <2>7 DEF Flattened
  <2> QED
    BY <1>1, <2>8
<1> QED
  BY <1>2, <1>3

\* Flattening lists without repetition that have nothing in common.
LEMMA FlattenedLists ==
    ASSUME NEW A, NEW seqs \in Seq(Seq(A)), seqs # <<>>,
           \A i \in DOMAIN seqs : IsInjective(seqs[i]),
           \A i, j \in DOMAIN seqs : i # j => ToSet(seqs[i]) \cap ToSet(seqs[j]) = {}
    PROVE  /\ IsInjective(FlattenSeq(seqs))
           /\ ToSet(FlattenSeq(seqs)) = UNION {ToSet(seqs[i]) : i \in DOMAIN seqs}
<1> DEFINE top == Len(seqs)
           f == CHOOSE f : Flattened(seqs, f, top)
<1>1. top \in Nat \ {0} /\ DOMAIN seqs = 1..top
      /\ \A i \in 1..top : seqs[i] \in Seq(A)
  OBVIOUS
<1>2. FlattenSeq(seqs) = f[top]
  BY <1>1 DEF FlattenSeq, Flattened
<1> HIDE DEF top
<1>3. Flattened(seqs, f, top)
  BY <1>1, FlattenedExists
<1> HIDE DEF f
<1>4. /\ f[1] = seqs[1]
      /\ \A i \in 1..top : i # 1 => f[i] = f[i - 1] \o seqs[i]
  <2>1. \A i \in 1..top : f[i] = IF i = 1 THEN seqs[i] ELSE f[i - 1] \o seqs[i]
    BY <1>3 DEF Flattened
  <2>2. 1 \in 1..top
    BY <1>1
  <2> QED
    BY <2>1, <2>2
<1> DEFINE Good(m) == /\ f[m] \in Seq(A) /\ IsInjective(f[m])
                      /\ ToSet(f[m]) = UNION {ToSet(seqs[i]) : i \in 1..m}
           Bad == {m \in 1..top : ~Good(m)}
<1>5. ASSUME Bad # {} PROVE FALSE
  <2>1. Bad \in SUBSET Nat
    OBVIOUS
  <2>2. PICK m \in Bad : \A j \in Bad : m <= j
    BY <1>5, <2>1, LeastOfNat
  <2>3. m \in 1..top /\ ~Good(m)
    BY <2>2
  <2>4. CASE m = 1
    <3>1. 1 \in DOMAIN seqs /\ f[1] \in Seq(A) /\ IsInjective(f[1])
      <4>1. 1 \in DOMAIN seqs /\ 1 \in 1..top
        BY <1>1
      <4>2. seqs[1] \in Seq(A) /\ IsInjective(seqs[1])
        BY <1>1, <4>1
      <4> QED
        BY <1>4, <4>1, <4>2
    <3>2. UNION {ToSet(seqs[i]) : i \in 1..1} = ToSet(seqs[1])
      OBVIOUS
    <3> QED
      BY <1>4, <2>3, <2>4, <3>1, <3>2
  <2>5. CASE m # 1
    <3>1. m - 1 \in 1..top /\ ~(m <= m - 1)
      BY <1>1, <2>3, <2>5
    <3>2. Good(m - 1)
      BY <2>2, <3>1
    <3>3. \A i \in 1..m - 1 : i \in DOMAIN seqs /\ i # m
      BY <1>1, <2>3
    <3>4. m \in DOMAIN seqs
      BY <1>1, <2>3
    <3>5. ToSet(f[m - 1]) \cap ToSet(seqs[m]) = {}
      BY <3>2, <3>3, <3>4
    <3>6. f[m] = f[m - 1] \o seqs[m] /\ seqs[m] \in Seq(A) /\ IsInjective(seqs[m])
      BY <1>1, <1>4, <2>3, <2>5, <3>4
    <3>7. /\ f[m] \in Seq(A) /\ IsInjective(f[m])
          /\ ToSet(f[m]) = ToSet(f[m - 1]) \cup ToSet(seqs[m])
      <4>1. f[m - 1] \in Seq(A) /\ IsInjective(f[m - 1])
        BY <3>2
      <4> HIDE DEF Good
      <4> QED
        BY <3>5, <3>6, <4>1, JoinedLists
    <3>8. ToSet(f[m]) = UNION {ToSet(seqs[i]) : i \in 1..m}
      <4>1. 1..m = (1..m - 1) \cup {m}
        BY <2>3
      <4> QED
        BY <3>2, <3>7, <4>1
    <3> QED
      BY <2>3, <3>7, <3>8
  <2> QED
    BY <2>4, <2>5
<1>6. Good(top)
  <2>1. top \in 1..top
    BY <1>1
  <2> QED
    BY <1>5, <2>1
<1> QED
  BY <1>1, <1>2, <1>6
-----------------------------------------------------------------------------
(* Dumps.                                                                   *)

Lines == Keys \X ValueOrNull

\* A key with its value, by the map.
MapLine(k) == <<k, contentsMap[k]>>

\* The keys that the map has in a section.
MapKeysOf(s) == {k \in Known \ Sections : SectionOf[k] = s}

\* The lines of some slots are those of their keys, each once.
LEMMA LinesOfSlots ==
    ASSUME IInv, NEW S, S \subseteq KeySlots
    PROVE  /\ lines_of(S) \in Seq(Lines) /\ IsInjective(lines_of(S))
           /\ ToSet(lines_of(S)) = {MapLine(key[i]) : i \in S}
<1> DEFINE g == [i \in slots |-> <<key[i], val[i]>>]
<1>1. /\ S \subseteq slots /\ IsFiniteSet(S) /\ S \subseteq Nat
  <2>1. S \subseteq slots
    BY DEF KeySlots
  <2> QED
    BY <2>1, SlotSets
<1>2. ASSUME NEW i \in S
      PROVE  /\ g[i] \in Lines /\ g[i] = <<key[i], val[i]>>
             /\ g[i] = MapLine(key[i])
  <2>1. i \in slots /\ key[i] # NULL
    BY DEF KeySlots
  <2>2. key[i] \in Keys /\ val[i] \in ValueOrNull
    BY <2>1, KeyInSlot DEF ValueOrNull
  <2>3. contentsMap[key[i]] = val[i]
    BY <2>1, <2>2, KnownInSlot
  <2> QED
    BY <2>1, <2>2, <2>3 DEF Lines, MapLine
<1>3. \A i \in S : g[i] \in Lines
  BY <1>2
<1>4. \A i, j \in S : g[i] = g[j] => i = j
  <2> SUFFICES ASSUME NEW i \in S, NEW j \in S, g[i] = g[j] PROVE i = j
    OBVIOUS
  <2>1. key[i] = key[j]
    BY <1>2
  <2>2. i \in slots /\ j \in slots /\ key[i] # NULL
    BY DEF KeySlots
  <2> QED
    BY <2>1, <2>2, KeyInSlot
<1>5. lines_of(S) = Listed(S, g)
  <2> DEFINE at == InOrder(S)
  <2>1. \A m \in DOMAIN at : at[m] \in S
    BY <1>1, InOrderLists
  <2> HIDE DEF at, g
  <2>2. \A m \in DOMAIN at : g[at[m]] = <<key[at[m]], val[at[m]]>>
    BY <1>2, <2>1
  <2>3. [m \in DOMAIN at |-> g[at[m]]] = [m \in DOMAIN at |-> <<key[at[m]], val[at[m]]>>]
    BY <2>2
  <2> QED
    BY <2>3 DEF lines_of, Listed, at
<1> HIDE DEF g
<1>6. /\ Listed(S, g) \in Seq(Lines) /\ Len(Listed(S, g)) = Cardinality(S)
      /\ IsInjective(Listed(S, g))
      /\ ToSet(Listed(S, g)) = AllOf(S, g)
  BY <1>1, <1>3, <1>4, ListOfSlots
<1>7. AllOf(S, g) = {MapLine(key[i]) : i \in S}
  BY <1>2 DEF AllOf
<1> QED
  BY <1>5, <1>6, <1>7

\* A dump of everything has each key of the map once, with its value.
LEMMA DumpOfMap ==
    ASSUME IInv
    PROVE  /\ IsInjective(iniparser_dump)
           /\ ToSet(iniparser_dump) = {MapLine(k) : k \in Known}
<1>1. /\ IsInjective(iniparser_dump)
      /\ ToSet(iniparser_dump) = {MapLine(key[i]) : i \in KeySlots}
  BY LinesOfSlots DEF iniparser_dump, KeySlots
<1>2. ASSUME NEW i \in KeySlots PROVE key[i] \in Known
  <2>1. i \in slots /\ key[i] # NULL
    BY DEF KeySlots
  <2>2. key[i] \in Keys
    BY <2>1, KeyInSlot
  <2> QED
    BY <2>1, <2>2, KnownInSlot
<1>3. ASSUME NEW k \in Known PROVE \E i \in KeySlots : key[i] = k
  <2>1. k \in Keys /\ k # NULL
    BY KeyInSlot DEF Known
  <2>2. PICK i \in slots : key[i] = k
    BY <2>1, KnownInSlot
  <2> QED
    BY <2>1, <2>2 DEF KeySlots
<1>4. {MapLine(key[i]) : i \in KeySlots} = {MapLine(k) : k \in Known}
  BY <1>2, <1>3
<1> QED
  BY <1>1, <1>4

\* A dump of a section has the section itself and its keys, each once.
LEMMA DumpOfSection ==
    ASSUME IInv, NEW s \in Known \cap Sections
    PROVE  /\ iniparser_dumpsection_ini(s) \in Seq(Lines)
           /\ IsInjective(iniparser_dumpsection_ini(s))
           /\ ToSet(iniparser_dumpsection_ini(s))
                = {<<s, NULL>>} \cup {MapLine(k) : k \in MapKeysOf(s)}
<1> DEFINE p == <<<<s, NULL>>>>
           q == lines_of(KeysOf(s))
<1>1. s \in Keys /\ iniparser_find_entry(s)
  BY FindEntry DEF Known
<1>2. iniparser_dumpsection_ini(s) = p \o q
  BY <1>1 DEF iniparser_dumpsection_ini, KeysOf
<1>3. KeysOf(s) \subseteq KeySlots
  BY DEF KeysOf, KeySlots, is_key_of
<1>4. /\ q \in Seq(Lines) /\ IsInjective(q)
      /\ ToSet(q) = {MapLine(key[i]) : i \in KeysOf(s)}
  BY <1>3, LinesOfSlots
<1>5. {MapLine(key[i]) : i \in KeysOf(s)} = {MapLine(k) : k \in MapKeysOf(s)}
  <2>1. \A i \in KeysOf(s) : key[i] \in MapKeysOf(s)
    BY KeysOfMap DEF MapKeysOf
  <2>2. \A k \in MapKeysOf(s) : \E i \in KeysOf(s) : key[i] = k
    BY KeysOfMap DEF MapKeysOf
  <2> QED
    BY <2>1, <2>2
<1>6. p \in Seq(Lines) /\ IsInjective(p) /\ ToSet(p) = {<<s, NULL>>}
  <2>1. <<s, NULL>> \in Lines
    BY <1>1 DEF Lines, ValueOrNull
  <2>2. DOMAIN p = {1} /\ p[1] = <<s, NULL>>
    OBVIOUS
  <2>3. p \in Seq(Lines)
    BY <2>1
  <2> HIDE DEF p
  <2> QED
    BY <2>2, <2>3 DEF IsInjective, ToSet
<1>7. ToSet(p) \cap ToSet(q) = {}
  <2>1. \A k \in MapKeysOf(s) : k # s
    BY DEF MapKeysOf
  <2> QED
    BY <1>4, <1>5, <1>6, <2>1 DEF MapLine
<1> HIDE DEF p, q
<1>8. /\ p \o q \in Seq(Lines) /\ IsInjective(p \o q)
      /\ ToSet(p \o q) = ToSet(p) \cup ToSet(q)
  BY <1>4, <1>6, <1>7, JoinedLists
<1> QED
  BY <1>2, <1>4, <1>5, <1>6, <1>8

\* What is left of the map when the keys of sections that are not entered are
\* lost.
Kept ==
    IF Known \cap Sections = {} THEN Known
    ELSE Known \ {k \in Known \ Sections : SectionOf[k] \notin Known}

IniLine(k) == <<k, IF k \in Sections THEN NULL ELSE contentsMap[k]>>

\* Without a section the dump as an ini file is that of everything.
LEMMA DumpWithoutSection ==
    ASSUME IInv, iniparser_getnsec < 1
    PROVE  /\ IsInjective(iniparser_dump_ini)
           /\ ToSet(iniparser_dump_ini) = {IniLine(k) : k \in Kept}
<1>1. Known \cap Sections = {}
  <2> SUFFICES ASSUME NEW k \in Known \cap Sections PROVE FALSE
    OBVIOUS
  <2>1. /\ iniparser_getnsec \in Nat
        /\ \E m \in 0..iniparser_getnsec - 1 : iniparser_getsecname(m) = k
    BY SectionsOfMap
  <2> QED
    BY <2>1
<1>2. iniparser_dump_ini = iniparser_dump
  BY DEF iniparser_dump_ini, iniparser_dump
<1>3. {MapLine(k) : k \in Known} = {IniLine(k) : k \in Kept}
  <2>1. \A k \in Known : MapLine(k) = IniLine(k)
    BY <1>1 DEF MapLine, IniLine
  <2> QED
    BY <1>1, <2>1 DEF Kept
<1> QED
  BY <1>2, <1>3, DumpOfMap

\* Otherwise it is the dumps of the sections, one after the other.
LEMMA DumpWithSections ==
    ASSUME IInv, ~(iniparser_getnsec < 1)
    PROVE  /\ IsInjective(iniparser_dump_ini)
           /\ ToSet(iniparser_dump_ini) = {IniLine(k) : k \in Kept}
<1> DEFINE nsec == iniparser_getnsec
           name(m) == iniparser_getsecname(m - 1)
           dumps == [m \in 1..nsec |-> iniparser_dumpsection_ini(name(m))]
           lines(s) == {<<s, NULL>>} \cup {MapLine(k) : k \in MapKeysOf(s)}
<1>1. nsec \in Nat /\ \A m \in 1..nsec : m - 1 \in 0..nsec - 1
  BY SectionsOfMap
<1>2. /\ \A m \in 1..nsec : name(m) \in Known \cap Sections
      /\ \A l, m \in 1..nsec : name(l) = name(m) => l = m
  <2>1. \A m \in 1..nsec : name(m) \in Known \cap Sections
    BY <1>1, SectionsOfMap
  <2>2. ASSUME NEW l \in 1..nsec, NEW m \in 1..nsec, name(l) = name(m) PROVE l = m
    <3>1. l - 1 = m - 1
      BY <1>1, <2>2, SectionsOfMap
    <3> QED
      BY <1>1, <3>1
  <2> QED
    BY <2>1, <2>2
<1>3. ASSUME NEW s \in Known \cap Sections
      PROVE  \E m \in 1..nsec : name(m) = s
  <2>1. PICK m \in 0..nsec - 1 : iniparser_getsecname(m) = s
    BY SectionsOfMap
  <2>2. m + 1 \in 1..nsec /\ (m + 1) - 1 = m
    BY <1>1
  <2> QED
    BY <2>1, <2>2
<1>4. iniparser_dump_ini = FlattenSeq(dumps)
  BY DEF iniparser_dump_ini
<1>5. 1 \in 1..nsec
  BY <1>1
<1> HIDE DEF nsec, name
<1>6. ASSUME NEW m \in 1..nsec
      PROVE  /\ dumps[m] \in Seq(Lines) /\ IsInjective(dumps[m])
             /\ ToSet(dumps[m]) = lines(name(m))
  BY <1>2, DumpOfSection
<1>7. dumps \in Seq(Seq(Lines)) /\ DOMAIN dumps = 1..nsec /\ dumps # <<>>
  <2>1. dumps \in [1..nsec -> Seq(Lines)] /\ DOMAIN dumps = 1..nsec
    BY <1>6
  <2> HIDE DEF dumps
  <2>2. dumps \in Seq(Seq(Lines))
    BY <1>1, <2>1
  <2>3. DOMAIN <<>> = {}
    OBVIOUS
  <2>4. dumps # <<>>
    BY <1>5, <2>1, <2>3
  <2> QED
    BY <2>1, <2>2, <2>4
<1>8. ASSUME NEW s \in Known \cap Sections, NEW t \in Known \cap Sections, s # t
      PROVE  lines(s) \cap lines(t) = {}
  BY <1>8 DEF MapLine, MapKeysOf
<1> HIDE DEF dumps, lines
<1>9. \A i \in DOMAIN dumps : IsInjective(dumps[i])
  BY <1>6, <1>7
<1>10. \A i, j \in DOMAIN dumps : i # j => ToSet(dumps[i]) \cap ToSet(dumps[j]) = {}
  <2> SUFFICES ASSUME NEW i \in 1..nsec, NEW j \in 1..nsec, i # j
               PROVE  ToSet(dumps[i]) \cap ToSet(dumps[j]) = {}
    BY <1>7
  <2>1. name(i) # name(j)
    BY <1>2
  <2>2. lines(name(i)) \cap lines(name(j)) = {}
    BY <1>2, <1>8, <2>1
  <2> QED
    BY <1>6, <2>2
<1>11. /\ IsInjective(FlattenSeq(dumps))
       /\ ToSet(FlattenSeq(dumps)) = UNION {ToSet(dumps[i]) : i \in DOMAIN dumps}
  BY <1>7, <1>9, <1>10, FlattenedLists
<1>12. UNION {ToSet(dumps[i]) : i \in DOMAIN dumps}
         = UNION {lines(s) : s \in Known \cap Sections}
  <2>1. \A i \in DOMAIN dumps :
           ToSet(dumps[i]) = lines(name(i)) /\ name(i) \in Known \cap Sections
    BY <1>2, <1>6, <1>7
  <2>2. \A s \in Known \cap Sections : \E i \in DOMAIN dumps : name(i) = s
    BY <1>3, <1>7
  <2> QED
    BY <2>1, <2>2
<1>13. UNION {lines(s) : s \in Known \cap Sections} = {IniLine(k) : k \in Kept}
  <2>1. Known \cap Sections # {}
    BY <1>2, <1>5
  <2>2. ASSUME NEW s \in Known \cap Sections, NEW x \in lines(s)
        PROVE  \E k \in Kept : x = IniLine(k)
    <3>1. CASE x = <<s, NULL>>
      BY <2>1, <3>1 DEF Kept, IniLine
    <3>2. CASE \E k \in MapKeysOf(s) : x = MapLine(k)
      BY <2>1, <3>2 DEF Kept, IniLine, MapLine, MapKeysOf
    <3> QED
      BY <3>1, <3>2 DEF lines
  <2>3. ASSUME NEW k \in Kept
        PROVE  \E s \in Known \cap Sections : IniLine(k) \in lines(s)
    <3>1. CASE k \in Sections
      <4>1. k \in Known \cap Sections /\ IniLine(k) = <<k, NULL>>
        BY <2>1, <3>1 DEF Kept, IniLine
      <4> QED
        BY <4>1 DEF lines
    <3>2. CASE k \notin Sections
      <4>1. k \in Known \ Sections /\ SectionOf[k] \in Known
        BY <2>1, <3>2 DEF Kept
      <4>2. SectionOf[k] \in Sections
        BY <4>1, SectionAssumption DEF Known
      <4>3. k \in MapKeysOf(SectionOf[k]) /\ IniLine(k) = MapLine(k)
        BY <3>2, <4>1 DEF MapKeysOf, IniLine, MapLine
      <4> QED
        BY <4>1, <4>2, <4>3 DEF lines
    <3> QED
      BY <3>1, <3>2
  <2> QED
    BY <2>2, <2>3
<1> QED
  BY <1>4, <1>11, <1>12, <1>13

\* A dump has every key of the map once with its value, and a dump as an ini
\* file all but those in a section that was never entered.
THEOREM DumpsAreComplete == Spec => []DumpIsComplete
<1>1. IInv => DumpIsComplete
  <2> SUFFICES ASSUME IInv PROVE DumpIsComplete
    OBVIOUS
  <2>1. ToSet(iniparser_dump) = {<<k, contentsMap[k]>> : k \in Known}
    BY DumpOfMap DEF MapLine
  <2>2. /\ IsInjective(iniparser_dump_ini)
        /\ ToSet(iniparser_dump_ini) = {IniLine(k) : k \in Kept}
    BY DumpWithoutSection, DumpWithSections
  <2> QED
    BY <2>1, <2>2 DEF DumpIsComplete, IniLine, Kept
<1> QED
  BY <1>1, DictionaryInvariant, PTL
==============================================================================
