------------------------------- MODULE Dcache -------------------------------
(***************************************************************************)
(* The data cache (dcache.sv, cachemem_rw.sv), its table of outstanding    *)
(* misses (mshr.sv) and the memory behind it (mem.sv).  Loads and one store*)
(* access the cache each cycle; a miss takes an entry of the table, which  *)
(* asks memory for the block once and watches the bus for the answer.      *)
(* Stores are written through once their block is cached, and have the bus *)
(* before the table.  A mispredicted branch clears the table, not the      *)
(* cache, and memory still answers what was asked.                         *)
(*                                                                         *)
(* One step is one clock edge, with what memory does at the negative edge  *)
(* inside it.  The load values that the load/store queue latches at the    *)
(* edge are kept in `loaded', since the cache's outputs are wires.         *)
(***************************************************************************)
EXTENDS Integers, FiniteSets, Functions

CONSTANTS
    LSQ_NUM_LOADS,     \* load ports
    MSHR_NUM_ENTRIES,  \* entries of the table
    Blocks, NoBlock,   \* memory blocks, and the value of an idle port
    Lines, Line,       \* cache lines, and the line of each block
    Values, Value_0,   \* values of a byte, and the one memory starts with
    Stores,            \* <<size, offset>> of the stores the program does
    Tags, NoTag        \* NUM_MEM_TAGS transaction tags, and the invalid one

ASSUME DcacheAssumption ==
    /\ LSQ_NUM_LOADS \in Nat \ {0}
    /\ MSHR_NUM_ENTRIES \in Nat /\ MSHR_NUM_ENTRIES > LSQ_NUM_LOADS
    /\ NoBlock \notin Blocks
    /\ Line \in [Blocks -> Lines]
    /\ Value_0 \in Values
    /\ Stores \subseteq {"BYTE", "HALF", "WORD"} \X (0..7)
    /\ IsFiniteSet(Tags) /\ NoTag \notin Tags

VARIABLES
    mshr,        \* the table of outstanding misses
    cachemem,    \* the block each line holds, and its data
    memory,      \* unified_memory
    in_flight,   \* per tag: the block and data it will answer with
    loaded       \* what the load/store queue has latched at this edge

vars == <<mshr, cachemem, memory, in_flight, loaded>>

Bytes == 0..7
Data == [Bytes -> Values]
Entries == 0..(MSHR_NUM_ENTRIES - 1)
LoadPorts == 0..(LSQ_NUM_LOADS - 1)
StorePort == LSQ_NUM_LOADS
Ports == LoadPorts \cup {StorePort}
Copy == [block : Blocks, data : Data]

Free == [block |-> NoBlock, mem_tag |-> NoTag, requested |-> FALSE]
Unrequested(b) == [block |-> b, mem_tag |-> NoTag, requested |-> FALSE]
Nothing == [block |-> NoBlock, data |-> [i \in Bytes |-> Value_0]]

Init ==
    /\ mshr = [e \in Entries |-> Free]
    /\ cachemem = [l \in Lines |-> Nothing]
    /\ memory = [b \in Blocks |-> [i \in Bytes |-> Value_0]]
    /\ in_flight = [t \in Tags |-> Nothing]
    /\ loaded = {}

-----------------------------------------------------------------------------
(* A cycle: str is the store the load/store queue offers, or NoStore, and  *)
(* rd the block each load port reads; response is memory's answer to the   *)
(* command on the bus, and tag the transaction it returns.                 *)

NoStore == [block |-> NoBlock, size |-> "BYTE", offset |-> 0, value |-> Value_0]

Valid(e) == mshr[e].block # NoBlock
FreeEntries == {e \in Entries : ~Valid(e)}

\* The last line of the free-entry selector carries no grant.
structural_hzd == Cardinality(FreeEntries) < Cardinality(Ports)

Dcachemem_hit(b) == b # NoBlock /\ cachemem[Line[b]].block = b

Dcache_str_try_write(str) == Dcachemem_hit(str.block)

Dcache_str_accepted(str, response) ==
    Dcache_str_try_write(str) /\ response # NoTag

\* The bytes of the block that a store writes.
Written(size, offset) ==
    CASE size = "BYTE" -> {offset}
      [] size = "HALF" -> {i \in Bytes : i \div 2 = offset \div 2}
      [] size = "WORD" -> {i \in Bytes : i \div 4 = offset \div 4}

\* The bytes of a load's block that are replaced by a store of the same cycle.
Forwarded(size, offset) ==
    CASE size = "BYTE" -> {offset \div 2}
      [] size = "HALF" -> {i \in Bytes : i \div 2 = offset \div 4}
      [] size = "WORD" -> {i \in Bytes : i \div 4 = offset \div 4}

Replaced(data, bytes, value) ==
    [i \in Bytes |-> IF i \in bytes THEN value ELSE data[i]]

proc2mem_data(str) ==
    Replaced(cachemem[Line[str.block]].data, Written(str.size, str.offset), str.value)

-----------------------------------------------------------------------------
(* The table of misses                                                     *)

Answered(tag) ==
    {e \in Entries : /\ ~structural_hzd
                     /\ Valid(e) /\ mshr[e].requested
                     /\ tag # NoTag /\ mshr[e].mem_tag = tag}

\* The entry whose block is written, the last one if several should match.
Recieved(tag) == {e \in Answered(tag) : \A f \in Answered(tag) : f <= e}

Answers(tag, b) == \E e \in Recieved(tag) : mshr[e].block = b

Dcache_rd_hit(b, str, response, tag) ==
    \/ Dcachemem_hit(b)
    \/ str.block = b /\ Dcache_str_accepted(str, response)
    \/ Answers(tag, b)

ReadsPast(b, str, response, tag) ==  \* mutated form of Dcache_rd_data
    IF Answers(tag, b) THEN in_flight[tag].data ELSE cachemem[Line[b]].data

Dcache_rd_data(b, str, response, tag) ==
    LET cached == cachemem[Line[b]].data
    IN  IF str.block = b /\ Dcache_str_accepted(str, response)
        THEN Replaced(cached, Forwarded(str.size, str.offset), str.value)
        ELSE IF Answers(tag, b) THEN in_flight[tag].data ELSE cached

\* The ports in the order of the table: the loads, and then the store.
cache_access(str, rd) == [p \in Ports |-> IF p = StorePort THEN str.block ELSE rd[p]]

cache_access_miss(p, str, rd, response, tag) ==
    IF p = StorePort THEN ~Dcachemem_hit(str.block)
                     ELSE ~Dcache_rd_hit(rd[p], str, response, tag)

ForgetsTable(p, access) ==  \* mutated form of cache_access_repeat
    \E q \in Ports : q < p /\ access[q] = access[p]

ForgetsPorts(p, access) ==  \* mutated form of cache_access_repeat
    \E e \in Entries : mshr[e].block = access[p]

cache_access_repeat(p, access) ==
    \/ \E e \in Entries : mshr[e].block = access[p]
    \/ \E q \in Ports : q < p /\ access[q] = access[p]

Misses(str, rd, response, tag) ==
    LET access == cache_access(str, rd)
    IN  {p \in Ports : /\ access[p] # NoBlock
                       /\ cache_access_miss(p, str, rd, response, tag)
                       /\ ~cache_access_repeat(p, access)}

\* The free entries that the selector may grant to the ports that missed.
mshr_free_gnt(misses) ==
    IF structural_hzd THEN {<<>>} ELSE Injection(misses, FreeEntries)

Waiting == {e \in Entries : Valid(e) /\ ~mshr[e].requested}

\* The entry that has the bus: the first one still to be requested.
Requesting(str, response) ==
    {e \in Waiting : /\ ~Dcache_str_accepted(str, response)
                     /\ \A f \in Waiting : e <= f}

RequestsAnyway(str, rd, response, tag, gnt) ==  \* mutated form of n_mshr
    LET access == cache_access(str, rd)
    IN  [e \in Entries |->
            IF e \in Answered(tag) THEN Free
            ELSE IF e \in Range(gnt)
                 THEN Unrequested(access[CHOOSE p \in DOMAIN gnt : gnt[p] = e])
            ELSE IF e \in Requesting(str, response)
                 THEN [mshr[e] EXCEPT !.mem_tag = response, !.requested = TRUE]
            ELSE mshr[e]]

n_mshr(str, rd, response, tag, gnt) ==
    LET access == cache_access(str, rd)
    IN  [e \in Entries |->
            IF e \in Answered(tag) THEN Free
            ELSE IF e \in Range(gnt)
                 THEN Unrequested(access[CHOOSE p \in DOMAIN gnt : gnt[p] = e])
            ELSE IF e \in Requesting(str, response)
                 THEN [mshr[e] EXCEPT !.mem_tag = response,
                                      !.requested = response # NoTag]
            ELSE mshr[e]]

(* Of two writes to one line the store's, on the later port, stays. *)
n_cachemem(str, response, tag) ==
    [l \in Lines |->
        IF Dcache_str_accepted(str, response) /\ Line[str.block] = l
        THEN [block |-> str.block, data |-> proc2mem_data(str)]
        ELSE IF \E e \in Recieved(tag) : Line[mshr[e].block] = l
             THEN [block |-> mshr[CHOOSE e \in Recieved(tag) : TRUE].block,
                   data |-> in_flight[tag].data]
        ELSE cachemem[l]]

Loaded(str, rd, response, tag) ==
    {[block |-> b, data |-> Dcache_rd_data(b, str, response, tag)] :
        b \in {c \in Range(rd) \ {NoBlock} : Dcache_rd_hit(c, str, response, tag)}}

-----------------------------------------------------------------------------
(* Memory, and the clock edge                                              *)

StoreRequests ==
    {[block |-> b, size |-> s[1], offset |-> s[2], value |-> v] :
        b \in Blocks, s \in Stores, v \in Values}

\* Memory refuses the command of an idle bus, and may refuse any other.
Responses(str) ==
    {NoTag} \cup IF Dcache_str_try_write(str) \/ Waiting # {}
                THEN {t \in Tags : in_flight[t] = Nothing} ELSE {}

Memory(str, response, tag) ==
    /\ memory' = IF Dcache_str_accepted(str, response)
                 THEN [memory EXCEPT ![str.block] = proc2mem_data(str)]
                 ELSE memory
    /\ in_flight' =
        [t \in Tags |->
            IF t = tag THEN Nothing
            ELSE IF t = response /\ Requesting(str, response) # {}
                 THEN LET asked == mshr[CHOOSE e \in Requesting(str, response) : TRUE].block
                      IN  [block |-> asked, data |-> memory[asked]]
            ELSE in_flight[t]]

Cycle(str, rd, response, tag) ==
    /\ structural_hzd => Range(rd) = {NoBlock}
    /\ \E gnt \in mshr_free_gnt(Misses(str, rd, response, tag)) :
        mshr' = n_mshr(str, rd, response, tag, gnt)
    /\ cachemem' = n_cachemem(str, response, tag)
    /\ Memory(str, response, tag)
    /\ loaded' = Loaded(str, rd, response, tag)

\* A misprediction clears the table and the load/store queue.
Nuke(str, response, tag) ==
    /\ mshr' = [e \in Entries |-> Free]
    /\ cachemem' = n_cachemem(str, response, tag)
    /\ Memory(str, response, tag)
    /\ loaded' = {}

Next ==
    \E str \in StoreRequests \cup {NoStore} :
    \E response \in Responses(str),
       tag \in {NoTag} \cup {t \in Tags : in_flight[t] # Nothing} :
        \/ \E rd \in [LoadPorts -> Blocks \cup {NoBlock}] : Cycle(str, rd, response, tag)
        \/ Nuke(str, response, tag)

Spec == Init /\ [][Next]_vars

\* What is assumed of memory, as properties of the state it changes: it answers
\* what it has accepted, and if it can it accepts a request that is made again
\* and again.
Accepted == \E t \in Tags : in_flight[t] = Nothing /\ in_flight'[t] # Nothing
Fairness ==
    /\ \A t \in Tags : []<>(in_flight[t] = Nothing)
    /\ []<>(Waiting # {} /\ \E t \in Tags : in_flight[t] = Nothing)
        => []<><<Accepted>>_in_flight

FairSpec == Spec /\ Fairness

-----------------------------------------------------------------------------
(* Properties                                                              *)

TypeOK ==
    /\ mshr \in [Entries -> {Free} \cup {Unrequested(b) : b \in Blocks}
                    \cup [block : Blocks, mem_tag : Tags, requested : {TRUE}]]
    /\ \A l \in Lines : cachemem[l] \in Copy \cup {Nothing}
    /\ memory \in [Blocks -> Data]
    /\ in_flight \in [Tags -> Copy \cup {Nothing}]
    /\ loaded \subseteq Copy

(* The cache holds what memory holds, although stores, late answers and    *)
(* answers to requests that a misprediction has forgotten write to it in   *)
(* any order (cachemem_rw.sv 47-62, dcache.sv 139-142).                    *)
Coherent ==
    \A l \in Lines : LET c == cachemem[l]
                     IN  c.block # NoBlock => Line[c.block] = l /\ c.data = memory[c.block]

(* A block is asked for once: no two entries for one block, none for a     *)
(* block the cache holds, and the tag of an entry is the one memory will   *)
(* answer with that block's present data (mshr.sv 72-102, 121-166) - while *)
(* the table is not so full that it ignores answers.                       *)
OneRequestPerBlock ==
    ~structural_hzd =>
        \A e \in Entries : Valid(e) =>
            /\ \A f \in Entries : mshr[f].block = mshr[e].block => f = e
            /\ ~Dcachemem_hit(mshr[e].block)
            /\ mshr[e].requested =>
                in_flight[mshr[e].mem_tag] = [block |-> mshr[e].block,
                                              data |-> memory[mshr[e].block]]

(* A hit gives a load the block as memory has it at the end of that cycle, *)
(* the store of the same cycle included: dcache.sv 32-33 ("value is memory *)
(* [proc2Icache_addr]", "when this is high"), 194-226.                     *)
LoadsReadMemory == \A l \in loaded : l.data = memory[l.block]

(* Every miss is dealt with, and the block is then there for the load that *)
(* waits for it: no entry is taken for requested when memory has refused   *)
(* it, or waits for an answer that has gone by (mshr.sv 121-134, 151-166). *)
MissesAnswered == \A b \in Blocks : []<>(\A e \in Entries : mshr[e].block # b)

(* The table takes every answer it waits for: dcache.sv 92-93, "Watches    *)
(* memory bus for incoming tag match", "Updates cachemem on tag match".    *)
(* An entry whose answer has gone by stays requested for ever.             *)
AnswersTaken ==
    \A e \in Entries : mshr[e].requested => in_flight[mshr[e].mem_tag] # Nothing
=============================================================================
