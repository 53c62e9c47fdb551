----------------------------- MODULE KvsValues -----------------------------
(***************************************************************************)
(* The values the scheduler exchanges with the key-value store, and their  *)
(* names: the timestamp of a put, the lattices and how one value is merged *)
(* into another (lattices/*.hpp), the messages they are serialized to, and *)
(* the object name a bucket key is recovered from (common.hpp).            *)
(*                                                                         *)
(* std::map is a function on a finite set of keys; std::set is a set.      *)
(***************************************************************************)
EXTENDS Integers, Sequences, FiniteSets

CONSTANTS Values,   \* stored values
          Nodes,    \* the names in a vector clock
          KeyNames, \* the keys a causal value depends on
          Chars,    \* the characters of names
          Delim, Underscore,        \* the characters | and _
          BucketPrefix, KeyPrefix,  \* the strings b_ and k_
          Decimal   \* std::to_string

-----------------------------------------------------------------------------
(* generate_timestamp(id): the time in milliseconds, shifted to make room   *)
(* for the digits of the thread id.  Ids stay below MaxThreads.             *)

MaxThreads == 1000
Power(id) == IF id < 10 THEN 10 ELSE IF id < 100 THEN 100 ELSE 1000
Timestamp(time, id) == time * Power(id) + id

-----------------------------------------------------------------------------
(* The lattices: XMerge(x, p) is what merge(p) makes of the element x.      *)

MaxMerge(x, e) == IF x < e THEN e ELSE x

SetMerge(x, e) == x \cup e

\* TimestampValuePair: the newcomer wins a tie.
Stamped == [timestamp : Nat, value : Values]
LWWMerge(x, p) == IF p.timestamp >= x.timestamp THEN p ELSE x

\* PriorityValuePair: the smaller priority wins, the newcomer loses a tie.
Prioritized == [priority : Int, value : Values]
PriorityMerge(x, p) == IF p.priority < x.priority THEN p ELSE x

\* VectorClock = MapLattice<string, MaxLattice<unsigned>>
Clocks == UNION {[S -> Nat] : S \in SUBSET Nodes}
ClockMerge(c, d) ==
    [n \in DOMAIN c \cup DOMAIN d |->
        IF n \notin DOMAIN d THEN c[n]
        ELSE IF n \notin DOMAIN c THEN d[n]
        ELSE MaxMerge(c[n], d[n])]

\* MapLattice<Key, VectorClock>
Dependencies == UNION {[S -> Clocks] : S \in SUBSET KeyNames}
DepMerge(c, d) ==
    [k \in DOMAIN c \cup DOMAIN d |->
        IF k \notin DOMAIN d THEN c[k]
        ELSE IF k \notin DOMAIN c THEN d[k]
        ELSE ClockMerge(c[k], d[k])]

\* SingleKeyCausalLattice<SetLattice>: a dominating version replaces the
\* element, a concurrent one is merged with it, an older one is ignored.
Causal == [clock : Clocks, value : SUBSET Values]
CausalMerge(x, p) ==
    LET now == ClockMerge(x.clock, p.clock)
    IN  [clock |-> now,
         value |-> IF now = p.clock THEN p.value
                   ELSE IF now # x.clock THEN SetMerge(x.value, p.value)
                   ELSE x.value]

\* MultiKeyCausalLattice<SetLattice>
MultiCausal == [clock : Clocks, deps : Dependencies, value : SUBSET Values]
MultiMerge(x, p) ==
    LET now == ClockMerge(x.clock, p.clock)
    IN  [clock |-> now,
         deps |-> IF now = p.clock THEN p.deps
                  ELSE IF now # x.clock THEN DepMerge(x.deps, p.deps)
                  ELSE x.deps,
         value |-> IF now = p.clock THEN p.value
                   ELSE IF now # x.clock THEN SetMerge(x.value, p.value)
                   ELSE x.value]

-----------------------------------------------------------------------------
(* serialize and deserialize: a message has repeated fields (sequences) and *)
(* map fields (functions).                                                  *)

SerializeLWW(timestamp, value) == [timestamp |-> timestamp, value |-> value]
DeserializeLWW(msg) == [timestamp |-> msg.timestamp, value |-> msg.value]

\* A std::set lists each of its elements once.
Listing(S) ==
    CHOOSE q \in [1 .. Cardinality(S) -> S] : \A e \in S : \E i \in DOMAIN q : q[i] = e
SerializeSet(S) == [values |-> Listing(S)]
DeserializeSet(msg) == {msg.values[i] : i \in DOMAIN msg.values}

EmptyClock == [n \in {} |-> 0]
SerializeCausal(x) == [vector_clock |-> x.clock, values |-> Listing(x.value)]
ToVectorClockValuePair(msg) ==
    [clock |-> ClockMerge(EmptyClock, msg.vector_clock), value |-> DeserializeSet(msg)]

\* One KeyVersion message per dependency.
SerializeDeps(d) ==
    LET keys == Listing(DOMAIN d)
    IN  [i \in DOMAIN keys |-> [key |-> keys[i], vector_clock |-> d[keys[i]]]]

\* Inserting them one after the other merges the clocks given for one key.
InsertedDeps(list) ==
    LET of(k) == {i \in DOMAIN list : list[i].key = k}
        names(k) == UNION {DOMAIN list[i].vector_clock : i \in of(k)}
        times(k, n) == {list[i].vector_clock[n] :
                            i \in {j \in of(k) : n \in DOMAIN list[j].vector_clock}}
    IN  [k \in {list[i].key : i \in DOMAIN list} |->
            [n \in names(k) |->
                CHOOSE m \in times(k, n) : \A o \in times(k, n) : m >= o]]

SerializeMulti(x) ==
    [vector_clock |-> x.clock, dependencies |-> SerializeDeps(x.deps),
     values |-> Listing(x.value)]
ToMultiKeyCausalPayload(msg) ==
    [clock |-> ClockMerge(EmptyClock, msg.vector_clock),
     deps |-> InsertedDeps(msg.dependencies), value |-> DeserializeSet(msg)]

-----------------------------------------------------------------------------
(* Object names. *)

Strings == Seq(Chars)
SessionSize == 16

\* get_key_session_name
KeySessionName(key, session) == key \o session

\* BucketKey(bucket, session_key): a name too short to hold a session gives
\* an empty key and an empty session.
BucketKeyOf(bucket, session_key) ==
    LET size == Len(session_key)
        long == size > SessionSize
    IN  [bucket |-> bucket,
         key |-> IF long THEN SubSeq(session_key, 1, size - SessionSize) ELSE <<>>,
         session |-> IF long THEN SubSeq(session_key, size - SessionSize + 1, size)
                     ELSE <<>>]

\* get_local_object_name, and shm_key_name of a BucketKey
LocalObjectName(bucket, key, session) == bucket \o <<Delim>> \o KeySessionName(key, session)
ShmKeyName(bk) == LocalObjectName(bk.bucket, bk.key, bk.session)

\* get_bucket_key_from_string: a name without a delimiter is bucket and key
\* in one, npos + 1 being 0.
Delimiters(name) == {i \in DOMAIN name : name[i] = Delim}
FirstDelimiter(name) == CHOOSE i \in Delimiters(name) : \A j \in Delimiters(name) : i <= j
BucketKeyFromString(name) ==
    IF Delimiters(name) = {} THEN BucketKeyOf(name, name)
    ELSE BucketKeyOf(SubSeq(name, 1, FirstDelimiter(name) - 1),
                     SubSeq(name, FirstDelimiter(name) + 1, Len(name)))

\* The address message that announces an object, and what its reader makes of it.
AddrFromBucketKey(bk) == [bucket |-> bk.bucket, key |-> bk.key, session |-> bk.session]
BucketKeyFromAddr(addr) == [bucket |-> addr.bucket, key |-> addr.key, session |-> addr.session]

-----------------------------------------------------------------------------
(* Objects a function creates: UserLibrary and EpheObjectImpl.  An executor *)
(* has one chan_id_ and numbers its objects with object_id_.                *)

ChanId(thread) == (thread + 1) % 256
NextObjectId(id) == (id + 1) % 2^32

\* The key create_object(size) makes, and gen_unique_key, ip being ip_number_:
\* the node's address without its dots.
DirectKey(chan, id) == Decimal[chan] \o <<Underscore>> \o Decimal[id]
GenUniqueKey(ip, chan, id) == ip \o <<Underscore>> \o DirectKey(chan, id)

\* The name create_object gives to an object for a target function, one for
\* all of the source's objects or a new one each time.
PairObjectName(src, tgt, session) == LocalObjectName(BucketPrefix \o tgt, KeyPrefix \o src, session)
CreatedName(src, tgt, session, manyToOne, unique) ==
    IF manyToOne THEN PairObjectName(src, tgt, session)
    ELSE LocalObjectName(BucketPrefix \o tgt, unique, session)
=============================================================================
