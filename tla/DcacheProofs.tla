---------------------------- MODULE DcacheProofs ----------------------------
(***************************************************************************)
(* Theorems about the data cache, for any number of ports, table entries,  *)
(* lines, blocks and tags.                                                 *)
(*                                                                         *)
(* The invariants need one another.  The cache agrees with memory because  *)
(* an answer is written to it only for an entry whose tag memory answers   *)
(* with the present data of the entry's block; that data stays present     *)
(* because a block with an entry is not cached, and only a cached block is *)
(* stored to.  When the table is too full it ignores answers and its tags  *)
(* go stale, but then it takes nothing and frees nothing until a           *)
(* misprediction clears it: the hazard, once there, stays (HazardStays).   *)
(***************************************************************************)
EXTENDS Dcache, FiniteLemmas

DcacheInv == TypeOK /\ Coherent /\ OneRequestPerBlock

\* What the environment gives a cycle: a store or none, an answer to the
\* command on the bus, and a tag that is returned or none.
Inputs(str, response, tag) ==
    /\ str \in StoreRequests \cup {NoStore}
    /\ response \in Responses(str)
    /\ tag \in {NoTag} \cup {t \in Tags : in_flight[t] # Nothing}

Requested(m) == m \in [block : Blocks, mem_tag : Tags, requested : {TRUE}]

-----------------------------------------------------------------------------
(* The parts of the state and of the inputs                                *)

\* An entry is free, waits for the bus, or waits for an answer.
LEMMA EntryKinds ==
    ASSUME TypeOK, NEW e \in Entries
    PROVE  \/ mshr[e] = Free
           \/ mshr[e].block \in Blocks /\ mshr[e] = Unrequested(mshr[e].block)
           \/ Requested(mshr[e])
<1>1. \/ mshr[e] = Free
      \/ mshr[e] \in {Unrequested(b) : b \in Blocks}
      \/ Requested(mshr[e])
    BY DEF TypeOK, Requested
<1>2. ASSUME NEW b \in Blocks, mshr[e] = Unrequested(b)
      PROVE  mshr[e].block \in Blocks /\ mshr[e] = Unrequested(mshr[e].block)
    BY <1>2 DEF Unrequested
<1> QED BY <1>1, <1>2

\* An entry is taken exactly when it has a block.
LEMMA EntryFields ==
    ASSUME TypeOK, NEW e \in Entries
    PROVE  /\ mshr[e].block \in Blocks \cup {NoBlock}
           /\ mshr[e].requested \in BOOLEAN
           /\ ~Valid(e) => mshr[e] = Free
           /\ Valid(e) => mshr[e].block \in Blocks
           /\ mshr[e].requested => Valid(e) /\ mshr[e].mem_tag \in Tags
<1>1. CASE mshr[e] = Free
    BY <1>1 DEF Free, Valid
<1>2. CASE mshr[e].block \in Blocks /\ mshr[e] = Unrequested(mshr[e].block)
    <2>1. PICK b \in Blocks : mshr[e] = Unrequested(b)
        BY <1>2
    <2>2. mshr[e].block = b /\ mshr[e].requested = FALSE
        BY <2>1 DEF Unrequested
    <2> QED BY <2>2, DcacheAssumption DEF Valid
<1>3. CASE Requested(mshr[e])
    BY <1>3, DcacheAssumption DEF Requested, Valid
<1> QED BY <1>1, <1>2, <1>3, EntryKinds

\* A store that is offered has a block, a size and an offset.
LEMMA StoreFields ==
    ASSUME NEW str \in StoreRequests
    PROVE  /\ str.block \in Blocks
           /\ <<str.size, str.offset>> \in Stores
           /\ str.value \in Values
<1>1. PICK b \in Blocks, s \in Stores, v \in Values :
        str = [block |-> b, size |-> s[1], offset |-> s[2], value |-> v]
    BY DEF StoreRequests
<1>2. s \in {"BYTE", "HALF", "WORD"} \X (0..7)
    BY DcacheAssumption
<1>3. s = <<s[1], s[2]>>
    BY <1>2
<1> QED BY <1>1, <1>3

\* A store that memory accepts is one of a cached block.
LEMMA AcceptedStore ==
    ASSUME NEW str \in StoreRequests \cup {NoStore}, NEW response,
           Dcache_str_accepted(str, response)
    PROVE  /\ str \in StoreRequests /\ str.block \in Blocks
           /\ Line[str.block] \in Lines
           /\ Dcachemem_hit(str.block)
           /\ cachemem[Line[str.block]].block = str.block
<1>1. Dcachemem_hit(str.block)
    BY DEF Dcache_str_accepted, Dcache_str_try_write
<1>2. str.block # NoBlock /\ cachemem[Line[str.block]].block = str.block
    BY <1>1 DEF Dcachemem_hit
<1>3. str \in StoreRequests
    BY <1>2 DEF NoStore
<1> QED BY <1>1, <1>2, <1>3, StoreFields, DcacheAssumption

\* At most one entry has the bus; it is not answered at that edge, and the
\* store does not have the bus too.
LEMMA RequestingEntry ==
    ASSUME TypeOK, NEW str, NEW response, NEW e \in Requesting(str, response)
    PROVE  /\ e \in Entries /\ Valid(e) /\ mshr[e].block \in Blocks
           /\ ~mshr[e].requested
           /\ mshr[e] = Unrequested(mshr[e].block)
           /\ ~Dcache_str_accepted(str, response)
           /\ \A f \in Requesting(str, response) : f = e
<1>1. e \in Entries /\ Valid(e) /\ ~mshr[e].requested /\ e \in Waiting
      /\ ~Dcache_str_accepted(str, response)
    BY DEF Requesting, Waiting
<1>2. mshr[e] = Unrequested(mshr[e].block)
    <2>1. mshr[e] # Free
        BY <1>1 DEF Valid, Free
    <2>2. ~Requested(mshr[e])
        BY <1>1 DEF Requested
    <2> QED BY <1>1, <2>1, <2>2, EntryKinds
<1>3. ASSUME NEW f \in Requesting(str, response)
      PROVE  f = e
    <2>1. f \in Waiting /\ e <= f /\ f <= e
        BY <1>1 DEF Requesting
    <2>2. e \in Int /\ f \in Int
        BY <1>1, <2>1, DcacheAssumption DEF Waiting, Entries
    <2> QED BY <2>1, <2>2
<1> QED BY <1>1, <1>2, <1>3, EntryFields

\* The block that is asked for is the one of the entry that has the bus.
LEMMA AskedBlock ==
    ASSUME TypeOK, NEW str, NEW response, NEW e \in Requesting(str, response)
    PROVE  (CHOOSE f \in Requesting(str, response) : TRUE) = e
<1>1. (CHOOSE f \in Requesting(str, response) : TRUE) \in Requesting(str, response)
    OBVIOUS
<1> QED BY <1>1, RequestingEntry

\* A block of data with some of its bytes replaced is a block of data.
LEMMA ReplacedType ==
    ASSUME NEW data \in Data, NEW bytes, NEW value \in Values
    PROVE  Replaced(data, bytes, value) \in Data
BY DEF Replaced, Data

\* What an idle line and an idle tag hold is data too.
LEMMA DataOf ==
    ASSUME TypeOK
    PROVE  /\ Nothing.block = NoBlock /\ Nothing.data \in Data
           /\ \A l \in Lines : /\ cachemem[l].block \in Blocks \cup {NoBlock}
                               /\ cachemem[l].data \in Data
           /\ \A t \in Tags : /\ in_flight[t].block \in Blocks \cup {NoBlock}
                              /\ in_flight[t].data \in Data
                              /\ in_flight[t] # Nothing => in_flight[t] \in Copy
           /\ \A b \in Blocks : memory[b] \in Data
<1>1. Nothing.block = NoBlock /\ Nothing.data \in Data
    BY DcacheAssumption DEF Nothing, Data
<1>2. \A c \in Copy : c.block \in Blocks /\ c.data \in Data
    BY DEF Copy
<1>3. ASSUME NEW l \in Lines
      PROVE  cachemem[l].block \in Blocks \cup {NoBlock} /\ cachemem[l].data \in Data
    <2>1. cachemem[l] \in Copy \/ cachemem[l] = Nothing
        BY DEF TypeOK
    <2> QED BY <2>1, <1>1, <1>2
<1>4. ASSUME NEW t \in Tags
      PROVE  /\ in_flight[t].block \in Blocks \cup {NoBlock}
             /\ in_flight[t].data \in Data
             /\ in_flight[t] # Nothing => in_flight[t] \in Copy
    <2>1. in_flight[t] \in Copy \/ in_flight[t] = Nothing
        BY DEF TypeOK
    <2> QED BY <2>1, <1>1, <1>2
<1>5. \A b \in Blocks : memory[b] \in Data
    BY DEF TypeOK
<1> QED BY <1>1, <1>3, <1>4, <1>5

\* What an accepted store writes to the cache and to memory.
LEMMA StoredType ==
    ASSUME TypeOK, NEW str \in StoreRequests, Line[str.block] \in Lines
    PROVE  proc2mem_data(str) \in Data
<1>1. cachemem[Line[str.block]].data \in Data /\ str.value \in Values
    BY DataOf, StoreFields
<1> QED BY <1>1, ReplacedType DEF proc2mem_data

-----------------------------------------------------------------------------
(* Types of the next state                                                 *)

\* Memory keeps data of blocks, and tags answer with copies of blocks.
LEMMA MemoryTyped ==
    ASSUME TypeOK, NEW str, NEW response, NEW tag,
           Inputs(str, response, tag), Memory(str, response, tag)
    PROVE  /\ memory' \in [Blocks -> Data]
           /\ in_flight' \in [Tags -> Copy \cup {Nothing}]
<1>1. memory' \in [Blocks -> Data]
    <2>1. CASE Dcache_str_accepted(str, response)
        <3>1. str \in StoreRequests /\ str.block \in Blocks /\ Line[str.block] \in Lines
            BY <2>1, AcceptedStore DEF Inputs
        <3>2. proc2mem_data(str) \in Data
            BY <3>1, StoredType
        <3>3. memory' = [memory EXCEPT ![str.block] = proc2mem_data(str)]
            BY <2>1 DEF Memory
        <3> QED BY <3>1, <3>2, <3>3 DEF TypeOK
    <2>2. CASE ~Dcache_str_accepted(str, response)
        BY <2>2 DEF Memory, TypeOK
    <2> QED BY <2>1, <2>2
<1>2. ASSUME NEW t \in Tags
      PROVE  in_flight'[t] \in Copy \cup {Nothing}
    <2>1. CASE t = tag
        BY <2>1 DEF Memory
    <2>2. CASE t # tag /\ t = response /\ Requesting(str, response) # {}
        <3>1. PICK e \in Requesting(str, response) : TRUE
            BY <2>2
        <3>2. mshr[e].block \in Blocks
            BY <3>1, RequestingEntry
        <3>3. (CHOOSE f \in Requesting(str, response) : TRUE) = e
            BY <3>1, AskedBlock
        <3>4. in_flight'[t] = [block |-> mshr[e].block, data |-> memory[mshr[e].block]]
            BY <2>2, <3>3 DEF Memory
        <3>5. memory[mshr[e].block] \in Data
            BY <3>2, DataOf
        <3> QED BY <3>2, <3>4, <3>5 DEF Copy
    <2>3. CASE t # tag /\ ~(t = response /\ Requesting(str, response) # {})
        BY <2>3 DEF Memory, TypeOK
    <2> QED BY <2>1, <2>2, <2>3
<1>3. in_flight' = [t \in Tags |-> in_flight'[t]]
    BY DEF Memory
<1> QED BY <1>1, <1>2, <1>3

\* An entry whose answer is taken waits for that tag, with a block.
LEMMA AnsweredEntry ==
    ASSUME TypeOK, NEW tag, NEW e \in Answered(tag)
    PROVE  /\ e \in Entries /\ Valid(e) /\ mshr[e].requested
           /\ mshr[e].mem_tag = tag /\ tag \in Tags
           /\ mshr[e].block \in Blocks /\ Line[mshr[e].block] \in Lines
           /\ ~structural_hzd
<1>1. /\ e \in Entries /\ Valid(e) /\ mshr[e].requested
      /\ mshr[e].mem_tag = tag /\ ~structural_hzd
    BY DEF Answered
<1> QED BY <1>1, EntryFields, DcacheAssumption

\* A line keeps what it has, is stored to, or takes an answer.
LEMMA LineAfter ==
    ASSUME TypeOK, NEW str, NEW response, NEW tag, Inputs(str, response, tag),
           cachemem' = n_cachemem(str, response, tag), NEW l \in Lines
    PROVE  \/ /\ Dcache_str_accepted(str, response) /\ Line[str.block] = l
              /\ cachemem'[l] = [block |-> str.block, data |-> proc2mem_data(str)]
           \/ /\ ~(Dcache_str_accepted(str, response) /\ Line[str.block] = l)
              /\ \E e \in Answered(tag) :
                    /\ Line[mshr[e].block] = l
                    /\ cachemem'[l] = [block |-> mshr[e].block, data |-> in_flight[tag].data]
           \/ /\ ~(Dcache_str_accepted(str, response) /\ Line[str.block] = l)
              /\ ~ \E e \in Recieved(tag) : Line[mshr[e].block] = l
              /\ cachemem'[l] = cachemem[l]
<1>1. CASE Dcache_str_accepted(str, response) /\ Line[str.block] = l
    BY <1>1 DEF n_cachemem
<1>2. CASE /\ ~(Dcache_str_accepted(str, response) /\ Line[str.block] = l)
           /\ \E e \in Recieved(tag) : Line[mshr[e].block] = l
    <2>1. PICK e : e = CHOOSE f \in Recieved(tag) : TRUE
        OBVIOUS
    <2>2. e \in Recieved(tag)
        BY <1>2, <2>1
    <2>3. cachemem'[l] = [block |-> mshr[e].block, data |-> in_flight[tag].data]
        BY <1>2, <2>1 DEF n_cachemem
    <2>4. PICK f \in Recieved(tag) : Line[mshr[f].block] = l
        BY <1>2
    <2>5. e = f
        <3>1. e <= f /\ f <= e /\ e \in Entries /\ f \in Entries
            BY <2>2, <2>4 DEF Recieved, Answered
        <3>2. e \in Int /\ f \in Int
            BY <3>1, DcacheAssumption DEF Entries
        <3> QED BY <3>1, <3>2
    <2> QED BY <1>2, <2>2, <2>3, <2>4, <2>5 DEF Recieved
<1>3. CASE /\ ~(Dcache_str_accepted(str, response) /\ Line[str.block] = l)
           /\ ~ \E e \in Recieved(tag) : Line[mshr[e].block] = l
    BY <1>3 DEF n_cachemem
<1> QED BY <1>1, <1>2, <1>3

LEMMA CacheTyped ==
    ASSUME TypeOK, NEW str, NEW response, NEW tag, Inputs(str, response, tag),
           cachemem' = n_cachemem(str, response, tag)
    PROVE  \A l \in Lines : cachemem'[l] \in Copy \cup {Nothing}
<1> SUFFICES ASSUME NEW l \in Lines
             PROVE  cachemem'[l] \in Copy \cup {Nothing}
    OBVIOUS
<1>1. CASE /\ Dcache_str_accepted(str, response)
           /\ cachemem'[l] = [block |-> str.block, data |-> proc2mem_data(str)]
    <2>1. str.block \in Blocks /\ proc2mem_data(str) \in Data
        BY <1>1, AcceptedStore, StoredType DEF Inputs
    <2> QED BY <1>1, <2>1 DEF Copy
<1>2. ASSUME NEW e \in Answered(tag),
             cachemem'[l] = [block |-> mshr[e].block, data |-> in_flight[tag].data]
      PROVE  cachemem'[l] \in Copy
    <2>1. mshr[e].block \in Blocks /\ in_flight[tag].data \in Data
        BY AnsweredEntry, DataOf
    <2> QED BY <1>2, <2>1 DEF Copy
<1>3. CASE cachemem'[l] = cachemem[l]
    BY <1>3 DEF TypeOK
<1>4. \/ /\ Dcache_str_accepted(str, response)
         /\ cachemem'[l] = [block |-> str.block, data |-> proc2mem_data(str)]
      \/ \E e \in Answered(tag) :
            cachemem'[l] = [block |-> mshr[e].block, data |-> in_flight[tag].data]
      \/ cachemem'[l] = cachemem[l]
    BY LineAfter
<1> QED BY <1>1, <1>2, <1>3, <1>4

\* The block of a port that misses, and the free entry it is granted.
LEMMA GrantedEntry ==
    ASSUME TypeOK, NEW str, NEW response, NEW tag, Inputs(str, response, tag),
           NEW rd \in [LoadPorts -> Blocks \cup {NoBlock}],
           NEW gnt \in mshr_free_gnt(Misses(str, rd, response, tag)),
           NEW e \in Range(gnt)
    PROVE  /\ ~structural_hzd
           /\ e \in Entries /\ ~Valid(e)
           /\ \E p \in Misses(str, rd, response, tag) :
                /\ p = CHOOSE q \in DOMAIN gnt : gnt[q] = e
                /\ gnt[p] = e
                /\ cache_access(str, rd)[p] \in Blocks
<1>1. PICK m : m = Misses(str, rd, response, tag)
    OBVIOUS
<1>2. ~structural_hzd
    <2>1. Range(<<>>) = {}
        BY DEF Range
    <2> QED BY <2>1 DEF mshr_free_gnt
<1>3. gnt \in Injection(m, FreeEntries)
    BY <1>1, <1>2 DEF mshr_free_gnt
<1>4. gnt \in [m -> FreeEntries]
    BY <1>3 DEF Injection
<1>5. PICK p : p = CHOOSE q \in DOMAIN gnt : gnt[q] = e
    OBVIOUS
<1>6. p \in m /\ gnt[p] = e
    <2>1. \E q \in DOMAIN gnt : gnt[q] = e
        BY DEF Range
    <2> QED BY <1>4, <1>5, <2>1
<1>7. e \in Entries /\ ~Valid(e)
    BY <1>4, <1>6 DEF FreeEntries
<1>8. cache_access(str, rd)[p] \in Blocks
    <2>1. p \in Ports /\ cache_access(str, rd)[p] # NoBlock
        BY <1>1, <1>6 DEF Misses
    <2>2. CASE p = StorePort
        <3>1. cache_access(str, rd)[p] = str.block /\ str.block # NoBlock
            BY <2>1, <2>2 DEF cache_access
        <3>2. str \in StoreRequests
            BY <3>1 DEF Inputs, NoStore
        <3> QED BY <3>1, <3>2, StoreFields
    <2>3. CASE p # StorePort
        BY <2>1, <2>3 DEF cache_access, Ports
    <2> QED BY <2>2, <2>3
<1> QED BY <1>1, <1>2, <1>5, <1>6, <1>7, <1>8

\* What an entry is after the edge: it is freed by its answer, taken by a port
\* that missed, marked requested when memory accepts, or kept.
LEMMA EntryAfter ==
    ASSUME TypeOK, NEW str, NEW response, NEW tag, Inputs(str, response, tag),
           NEW rd \in [LoadPorts -> Blocks \cup {NoBlock}],
           NEW gnt \in mshr_free_gnt(Misses(str, rd, response, tag)),
           mshr' = n_mshr(str, rd, response, tag, gnt),
           NEW e \in Entries
    PROVE  \/ e \in Answered(tag) /\ mshr'[e] = Free
           \/ /\ ~structural_hzd /\ ~Valid(e) /\ e \in Range(gnt)
              /\ \E p \in Misses(str, rd, response, tag) :
                    /\ p = CHOOSE q \in DOMAIN gnt : gnt[q] = e
                    /\ gnt[p] = e
                    /\ cache_access(str, rd)[p] \in Blocks
                    /\ mshr'[e] = Unrequested(cache_access(str, rd)[p])
           \/ /\ e \notin Answered(tag) /\ e \in Requesting(str, response)
              /\ response \in Tags /\ response # NoTag
              /\ mshr'[e] = [block |-> mshr[e].block, mem_tag |-> response,
                             requested |-> TRUE]
           \/ e \notin Answered(tag) /\ mshr'[e] = mshr[e]
<1>1. CASE e \in Answered(tag)
    BY <1>1 DEF n_mshr
<1>2. CASE e \notin Answered(tag) /\ e \in Range(gnt)
    <2>1. PICK p \in Misses(str, rd, response, tag) :
                /\ p = CHOOSE q \in DOMAIN gnt : gnt[q] = e
                /\ gnt[p] = e
                /\ cache_access(str, rd)[p] \in Blocks
        BY <1>2, GrantedEntry
    <2>2. mshr'[e] = Unrequested(cache_access(str, rd)[p])
        BY <1>2, <2>1 DEF n_mshr
    <2>3. ~structural_hzd /\ ~Valid(e)
        BY <1>2, GrantedEntry
    <2> QED BY <1>2, <2>1, <2>2, <2>3
<1>3. CASE /\ e \notin Answered(tag) /\ e \notin Range(gnt)
           /\ e \in Requesting(str, response)
    <2>1. mshr'[e] = [mshr[e] EXCEPT !.mem_tag = response, !.requested = response # NoTag]
        BY <1>3 DEF n_mshr
    <2>2. PICK b : b = mshr[e].block
        OBVIOUS
    <2>3. mshr[e] = [block |-> b, mem_tag |-> NoTag, requested |-> FALSE]
        BY <1>3, <2>2, RequestingEntry DEF Unrequested
    <2>4. response \in Tags \cup {NoTag}
        BY DEF Inputs, Responses
    <2>a. PICK m : m = mshr[e]
        OBVIOUS
    <2>b. mshr'[e] = [m EXCEPT !.mem_tag = response, !.requested = response # NoTag]
        BY <2>1, <2>a, Zenon
    <2>c. m = [block |-> b, mem_tag |-> NoTag, requested |-> FALSE]
        BY <2>3, <2>a
    <2>5. CASE response = NoTag
        <3>0. mshr'[e] = [m EXCEPT !.mem_tag = NoTag, !.requested = FALSE]
            BY <2>b, <2>5, Zenon
        <3>1. mshr'[e] = [block |-> b, mem_tag |-> NoTag, requested |-> FALSE]
            BY <2>c, <3>0
        <3>2. mshr'[e] = mshr[e]
            BY <2>a, <2>c, <3>1
        <3> QED BY <1>3, <3>2
    <2>6. CASE response # NoTag
        <3>0. mshr'[e] = [m EXCEPT !.mem_tag = response, !.requested = TRUE]
            BY <2>b, <2>6, Zenon
        <3>1. mshr'[e] = [block |-> b, mem_tag |-> response, requested |-> TRUE]
            BY <2>c, <3>0
        <3> QED BY <1>3, <2>2, <2>4, <2>6, <3>1
    <2> QED BY <2>5, <2>6
<1>4. CASE /\ e \notin Answered(tag) /\ e \notin Range(gnt)
           /\ e \notin Requesting(str, response)
    BY <1>4 DEF n_mshr
<1> QED BY <1>1, <1>2, <1>3, <1>4

LEMMA TableTyped ==
    ASSUME TypeOK, NEW str, NEW response, NEW tag, Inputs(str, response, tag),
           NEW rd \in [LoadPorts -> Blocks \cup {NoBlock}],
           NEW gnt \in mshr_free_gnt(Misses(str, rd, response, tag)),
           mshr' = n_mshr(str, rd, response, tag, gnt)
    PROVE  mshr' \in [Entries -> {Free} \cup {Unrequested(b) : b \in Blocks}
                        \cup [block : Blocks, mem_tag : Tags, requested : {TRUE}]]
<1> DEFINE Kinds == {Free} \cup {Unrequested(b) : b \in Blocks}
                        \cup [block : Blocks, mem_tag : Tags, requested : {TRUE}]
<1>1. ASSUME NEW e \in Entries
      PROVE  mshr'[e] \in Kinds
    <2>1. CASE mshr'[e] = Free
        BY <2>1
    <2>2. CASE \E b \in Blocks : mshr'[e] = Unrequested(b)
        BY <2>2
    <2>3. CASE /\ e \in Requesting(str, response) /\ response \in Tags
               /\ mshr'[e] = [block |-> mshr[e].block, mem_tag |-> response,
                              requested |-> TRUE]
        <3>1. mshr[e].block \in Blocks
            BY <2>3, RequestingEntry
        <3> QED BY <2>3, <3>1
    <2>4. CASE mshr'[e] = mshr[e]
        BY <2>4 DEF TypeOK
    <2>5. \/ mshr'[e] = Free
          \/ \E b \in Blocks : mshr'[e] = Unrequested(b)
          \/ /\ e \in Requesting(str, response) /\ response \in Tags
             /\ mshr'[e] = [block |-> mshr[e].block, mem_tag |-> response,
                            requested |-> TRUE]
          \/ mshr'[e] = mshr[e]
        BY EntryAfter
    <2> HIDE DEF Kinds
    <2> QED BY <2>1, <2>2, <2>3, <2>4, <2>5
<1>2. mshr' = [e \in Entries |-> mshr'[e]]
    <2> DEFINE After(e) ==
            IF e \in Answered(tag) THEN Free
            ELSE IF e \in Range(gnt)
                 THEN Unrequested(cache_access(str, rd)[CHOOSE p \in DOMAIN gnt : gnt[p] = e])
            ELSE IF e \in Requesting(str, response)
                 THEN [mshr[e] EXCEPT !.mem_tag = response,
                                      !.requested = response # NoTag]
            ELSE mshr[e]
    <2>1. mshr' = [e \in Entries |-> After(e)]
        BY Zenon DEF n_mshr
    <2> HIDE DEF After
    <2> QED BY <2>1
<1> HIDE DEF Kinds
<1>3. mshr' \in [Entries -> Kinds]
    BY <1>1, <1>2
<1> QED BY <1>3 DEF Kinds

LEMMA LoadedTyped ==
    ASSUME TypeOK, NEW str, NEW response, NEW tag, Inputs(str, response, tag),
           NEW rd \in [LoadPorts -> Blocks \cup {NoBlock}],
           loaded' = Loaded(str, rd, response, tag)
    PROVE  loaded' \subseteq Copy
<1> SUFFICES ASSUME NEW x \in loaded'
             PROVE  x \in Copy
    OBVIOUS
<1>1. PICK b \in Range(rd) \ {NoBlock} :
        /\ Dcache_rd_hit(b, str, response, tag)
        /\ x = [block |-> b, data |-> Dcache_rd_data(b, str, response, tag)]
    BY DEF Loaded
<1>2. b \in Blocks /\ Line[b] \in Lines
    BY <1>1, DcacheAssumption DEF Range
<1>3. cachemem[Line[b]].data \in Data
    BY <1>2, DataOf
<1>4. Dcache_rd_data(b, str, response, tag) \in Data
    <2>1. CASE str.block = b /\ Dcache_str_accepted(str, response)
        <3>1. str.value \in Values
            BY <2>1, AcceptedStore, StoreFields DEF Inputs
        <3>2. Dcache_rd_data(b, str, response, tag)
                = Replaced(cachemem[Line[b]].data, Forwarded(str.size, str.offset), str.value)
            BY <2>1 DEF Dcache_rd_data
        <3> QED BY <1>3, <3>1, <3>2, ReplacedType
    <2>2. CASE ~(str.block = b /\ Dcache_str_accepted(str, response)) /\ Answers(tag, b)
        <3>1. Dcache_rd_data(b, str, response, tag) = in_flight[tag].data
            BY <2>2 DEF Dcache_rd_data
        <3>2. tag \in Tags
            BY <2>2, AnsweredEntry DEF Answers, Recieved
        <3> QED BY <3>1, <3>2, DataOf
    <2>3. CASE ~(str.block = b /\ Dcache_str_accepted(str, response)) /\ ~Answers(tag, b)
        BY <1>3, <2>3 DEF Dcache_rd_data
    <2> QED BY <2>1, <2>2, <2>3
<1> QED BY <1>1, <1>2, <1>4 DEF Copy

LEMMA TypeStep == TypeOK /\ [Next]_vars => TypeOK'
<1> SUFFICES ASSUME TypeOK, [Next]_vars
             PROVE  TypeOK'
    OBVIOUS
<1>1. CASE UNCHANGED vars
    BY <1>1 DEF vars, TypeOK
<1>2. ASSUME NEW str, NEW response, NEW tag, Inputs(str, response, tag),
             NEW rd \in [LoadPorts -> Blocks \cup {NoBlock}],
             Cycle(str, rd, response, tag)
      PROVE  TypeOK'
    <2>1. PICK gnt \in mshr_free_gnt(Misses(str, rd, response, tag)) :
            mshr' = n_mshr(str, rd, response, tag, gnt)
        BY <1>2 DEF Cycle
    <2>2. /\ cachemem' = n_cachemem(str, response, tag)
          /\ Memory(str, response, tag)
          /\ loaded' = Loaded(str, rd, response, tag)
        BY <1>2 DEF Cycle
    <2>3. mshr' \in [Entries -> {Free} \cup {Unrequested(b) : b \in Blocks}
                        \cup [block : Blocks, mem_tag : Tags, requested : {TRUE}]]
        BY <1>2, <2>1, TableTyped
    <2>4. \A l \in Lines : cachemem'[l] \in Copy \cup {Nothing}
        BY <1>2, <2>2, CacheTyped
    <2>5. memory' \in [Blocks -> Data] /\ in_flight' \in [Tags -> Copy \cup {Nothing}]
        BY <1>2, <2>2, MemoryTyped
    <2>6. loaded' \subseteq Copy
        BY <1>2, <2>2, LoadedTyped
    <2> QED BY <2>3, <2>4, <2>5, <2>6 DEF TypeOK
<1>3. ASSUME NEW str, NEW response, NEW tag, Inputs(str, response, tag),
             Nuke(str, response, tag)
      PROVE  TypeOK'
    <2>1. /\ mshr' = [e \in Entries |-> Free] /\ loaded' = {}
          /\ cachemem' = n_cachemem(str, response, tag)
          /\ Memory(str, response, tag)
        BY <1>3 DEF Nuke
    <2>2. \A l \in Lines : cachemem'[l] \in Copy \cup {Nothing}
        BY <1>3, <2>1, CacheTyped
    <2>3. memory' \in [Blocks -> Data] /\ in_flight' \in [Tags -> Copy \cup {Nothing}]
        BY <1>3, <2>1, MemoryTyped
    <2> QED BY <2>1, <2>2, <2>3 DEF TypeOK
<1> QED BY <1>1, <1>2, <1>3 DEF Next, Inputs

-----------------------------------------------------------------------------
(* The cache agrees with memory                                            *)

\* The answer that is taken is the one its entry waits for: the present data of
\* a block that is not cached and that no other entry waits for.
LEMMA AnswerFresh ==
    ASSUME DcacheInv, NEW tag, NEW e \in Answered(tag)
    PROVE  /\ in_flight[tag] = [block |-> mshr[e].block,
                                data |-> memory[mshr[e].block]]
           /\ ~Dcachemem_hit(mshr[e].block)
           /\ \A f \in Entries : mshr[f].block = mshr[e].block => f = e
BY AnsweredEntry DEF DcacheInv, OneRequestPerBlock

\* Memory changes only where a store is accepted.
LEMMA MemoryAfter ==
    ASSUME TypeOK, NEW str, NEW response, NEW tag, Inputs(str, response, tag),
           Memory(str, response, tag), NEW b \in Blocks
    PROVE  memory'[b] = IF str.block = b /\ Dcache_str_accepted(str, response)
                        THEN proc2mem_data(str) ELSE memory[b]
<1>1. CASE Dcache_str_accepted(str, response)
    BY <1>1 DEF Memory, TypeOK
<1>2. CASE ~Dcache_str_accepted(str, response)
    BY <1>2 DEF Memory
<1> QED BY <1>1, <1>2

\* A block that is not cached keeps its data in memory.
LEMMA UncachedKept ==
    ASSUME TypeOK, NEW str, NEW response, NEW tag, Inputs(str, response, tag),
           Memory(str, response, tag), NEW b \in Blocks, ~Dcachemem_hit(b)
    PROVE  memory'[b] = memory[b]
<1>1. ~(str.block = b /\ Dcache_str_accepted(str, response))
    BY AcceptedStore DEF Inputs
<1> QED BY <1>1, MemoryAfter

LEMMA CoherentStep ==
    ASSUME DcacheInv, NEW str, NEW response, NEW tag, Inputs(str, response, tag),
           cachemem' = n_cachemem(str, response, tag), Memory(str, response, tag)
    PROVE  Coherent'
<1>0. TypeOK
    BY DEF DcacheInv
<1> SUFFICES ASSUME NEW l \in Lines, cachemem'[l].block # NoBlock
             PROVE  /\ Line[cachemem'[l].block] = l
                    /\ cachemem'[l].data = memory'[cachemem'[l].block]
    BY DEF Coherent
<1>1. CASE /\ Dcache_str_accepted(str, response) /\ Line[str.block] = l
           /\ cachemem'[l] = [block |-> str.block, data |-> proc2mem_data(str)]
    <2>1. str.block \in Blocks
        BY <1>1, AcceptedStore DEF Inputs
    <2>2. memory'[str.block] = proc2mem_data(str)
        BY <1>0, <1>1, <2>1, MemoryAfter
    <2> QED BY <1>1, <2>2
<1>2. ASSUME NEW e \in Answered(tag), Line[mshr[e].block] = l,
             cachemem'[l] = [block |-> mshr[e].block, data |-> in_flight[tag].data]
      PROVE  /\ Line[cachemem'[l].block] = l
             /\ cachemem'[l].data = memory'[cachemem'[l].block]
    <2>1. mshr[e].block \in Blocks
        BY <1>0, AnsweredEntry
    <2>a. /\ in_flight[tag] = [block |-> mshr[e].block, data |-> memory[mshr[e].block]]
          /\ ~Dcachemem_hit(mshr[e].block)
        BY AnswerFresh
    <2>2. in_flight[tag].data = memory[mshr[e].block] /\ ~Dcachemem_hit(mshr[e].block)
        BY <2>a
    <2>3. memory'[mshr[e].block] = memory[mshr[e].block]
        BY <1>0, <2>1, <2>2, UncachedKept
    <2> QED BY <1>2, <2>2, <2>3
<1>3. CASE /\ ~(Dcache_str_accepted(str, response) /\ Line[str.block] = l)
           /\ cachemem'[l] = cachemem[l]
    <2>1. /\ Line[cachemem[l].block] = l
          /\ cachemem[l].data = memory[cachemem[l].block]
        BY <1>3 DEF DcacheInv, Coherent
    <2>2. cachemem[l].block \in Blocks
        BY <1>0, <1>3, DataOf
    <2>3. memory'[cachemem[l].block] = memory[cachemem[l].block]
        BY <1>0, <1>3, <2>1, <2>2, MemoryAfter
    <2> QED BY <1>3, <2>1, <2>3
<1>4. \/ /\ Dcache_str_accepted(str, response) /\ Line[str.block] = l
         /\ cachemem'[l] = [block |-> str.block, data |-> proc2mem_data(str)]
      \/ \E e \in Answered(tag) :
            /\ Line[mshr[e].block] = l
            /\ cachemem'[l] = [block |-> mshr[e].block, data |-> in_flight[tag].data]
      \/ /\ ~(Dcache_str_accepted(str, response) /\ Line[str.block] = l)
         /\ cachemem'[l] = cachemem[l]
    BY <1>0, LineAfter
<1> QED BY <1>1, <1>2, <1>3, <1>4

-----------------------------------------------------------------------------
(* One request per block                                                   *)

\* A table too full to take answers stays so: it frees nothing.
LEMMA HazardStays ==
    ASSUME TypeOK, NEW str, NEW response, NEW tag, Inputs(str, response, tag),
           NEW rd \in [LoadPorts -> Blocks \cup {NoBlock}],
           NEW gnt \in mshr_free_gnt(Misses(str, rd, response, tag)),
           mshr' = n_mshr(str, rd, response, tag, gnt),
           structural_hzd
    PROVE  structural_hzd'
<1>1. ASSUME NEW e \in Entries, Valid(e)
      PROVE  mshr'[e].block # NoBlock
    <2>1. e \notin Answered(tag)
        BY DEF Answered
    <2>2. \/ mshr'[e] = [block |-> mshr[e].block, mem_tag |-> response,
                         requested |-> TRUE]
          \/ mshr'[e] = mshr[e]
        BY <1>1, <2>1, EntryAfter
    <2> QED BY <1>1, <2>2 DEF Valid
<1>2. FreeEntries' \subseteq FreeEntries
    BY <1>1 DEF FreeEntries, Valid
<1>3. IsFiniteSet(FreeEntries)
    <2>1. IsFiniteSet(Entries)
        <3>1. 0 \in Int /\ MSHR_NUM_ENTRIES - 1 \in Int
            BY DcacheAssumption
        <3> QED BY <3>1, FS_Interval DEF Entries
    <2> QED BY <2>1, FS_Subset DEF FreeEntries
<1>4. Cardinality(FreeEntries') <= Cardinality(FreeEntries) /\ IsFiniteSet(FreeEntries')
    BY <1>2, <1>3, FS_Subset
<1>5. IsFiniteSet(Ports)
    <2>1. 0 \in Int /\ LSQ_NUM_LOADS - 1 \in Int
        BY DcacheAssumption
    <2>2. IsFiniteSet(LoadPorts) /\ IsFiniteSet({StorePort})
        BY <2>1, FS_Interval, FS_Singleton DEF LoadPorts
    <2> QED BY <2>2, FS_Union DEF Ports
<1>6. /\ Cardinality(FreeEntries) \in Nat /\ Cardinality(FreeEntries') \in Nat
      /\ Cardinality(Ports) \in Nat
    BY <1>3, <1>4, <1>5, FS_CardinalityType
<1>7. Cardinality(FreeEntries) < Cardinality(Ports)
    BY DEF structural_hzd
<1>8. Cardinality(FreeEntries') < Cardinality(Ports)
    BY <1>4, <1>6, <1>7
<1> QED BY <1>8 DEF structural_hzd

\* A port gets an entry only for a block that is neither cached nor in the
\* table, and no two ports get one for the same block.
LEMMA MissIsNew ==
    ASSUME NEW str, NEW response, NEW tag, NEW rd,
           NEW p \in Misses(str, rd, response, tag)
    PROVE  /\ ~Dcachemem_hit(cache_access(str, rd)[p])
           /\ \A e \in Entries : mshr[e].block # cache_access(str, rd)[p]
           /\ \A q \in Misses(str, rd, response, tag) :
                cache_access(str, rd)[q] = cache_access(str, rd)[p] => q = p
<1>1. PICK access : access = cache_access(str, rd)
    OBVIOUS
<1>2. \A q \in Misses(str, rd, response, tag) :
        /\ q \in Ports /\ cache_access_miss(q, str, rd, response, tag)
        /\ ~cache_access_repeat(q, access)
    BY <1>1 DEF Misses
<1>3. ~Dcachemem_hit(access[p])
    <2>1. CASE p = StorePort
        BY <1>1, <1>2, <2>1 DEF cache_access, cache_access_miss
    <2>2. CASE p # StorePort
        <3>1. access[p] = rd[p]
            BY <1>1, <1>2, <2>2 DEF cache_access
        <3>2. ~Dcache_rd_hit(rd[p], str, response, tag)
            BY <1>2, <2>2 DEF cache_access_miss
        <3> QED BY <3>1, <3>2 DEF Dcache_rd_hit
    <2> QED BY <2>1, <2>2
<1>4. \A e \in Entries : mshr[e].block # access[p]
    BY <1>2 DEF cache_access_repeat
<1>5. ASSUME NEW q \in Misses(str, rd, response, tag), access[q] = access[p]
      PROVE  q = p
    <2>1. ~(q < p) /\ ~(p < q)
        BY <1>2, <1>5 DEF cache_access_repeat
    <2>2. q \in Int /\ p \in Int
        BY <1>2, DcacheAssumption DEF Ports, LoadPorts, StorePort
    <2> QED BY <2>1, <2>2
<1> QED BY <1>1, <1>3, <1>4, <1>5

\* A block is not brought into the cache but by its answer.
LEMMA StaysUncached ==
    ASSUME TypeOK, NEW str, NEW response, NEW tag, Inputs(str, response, tag),
           cachemem' = n_cachemem(str, response, tag),
           NEW b \in Blocks, ~Dcachemem_hit(b),
           \A e \in Answered(tag) : mshr[e].block # b
    PROVE  cachemem'[Line[b]].block # b
<1>1. Line[b] \in Lines
    BY DcacheAssumption
<1>2. CASE /\ Dcache_str_accepted(str, response)
           /\ cachemem'[Line[b]] = [block |-> str.block, data |-> proc2mem_data(str)]
    BY <1>2, AcceptedStore DEF Inputs
<1>3. CASE \E e \in Answered(tag) :
             cachemem'[Line[b]] = [block |-> mshr[e].block, data |-> in_flight[tag].data]
    BY <1>3
<1>4. CASE cachemem'[Line[b]] = cachemem[Line[b]]
    BY <1>4, DcacheAssumption DEF Dcachemem_hit
<1>5. \/ /\ Dcache_str_accepted(str, response)
         /\ cachemem'[Line[b]] = [block |-> str.block, data |-> proc2mem_data(str)]
      \/ \E e \in Answered(tag) :
            cachemem'[Line[b]] = [block |-> mshr[e].block, data |-> in_flight[tag].data]
      \/ cachemem'[Line[b]] = cachemem[Line[b]]
    BY <1>1, LineAfter
<1> QED BY <1>2, <1>3, <1>4, <1>5

\* An entry of the next state has its block from a port that missed, or kept it
\* because it was not answered.
LEMMA BlockAfter ==
    ASSUME TypeOK, NEW str, NEW response, NEW tag, Inputs(str, response, tag),
           NEW rd \in [LoadPorts -> Blocks \cup {NoBlock}],
           NEW gnt \in mshr_free_gnt(Misses(str, rd, response, tag)),
           mshr' = n_mshr(str, rd, response, tag, gnt),
           NEW e \in Entries, mshr'[e].block # NoBlock
    PROVE  \/ \E p \in Misses(str, rd, response, tag) :
                /\ gnt[p] = e
                /\ mshr'[e].block = cache_access(str, rd)[p]
                /\ mshr'[e].block \in Blocks /\ ~mshr'[e].requested
           \/ /\ e \notin Answered(tag) /\ Valid(e) /\ mshr[e].block \in Blocks
              /\ mshr'[e].block = mshr[e].block
<1>1. mshr'[e] # Free
    BY DEF Free
<1>2. ASSUME NEW p \in Misses(str, rd, response, tag), gnt[p] = e,
             cache_access(str, rd)[p] \in Blocks,
             mshr'[e] = Unrequested(cache_access(str, rd)[p])
      PROVE  /\ mshr'[e].block = cache_access(str, rd)[p]
             /\ mshr'[e].block \in Blocks /\ ~mshr'[e].requested
    BY <1>2 DEF Unrequested
<1>3. CASE /\ e \notin Answered(tag) /\ e \in Requesting(str, response)
           /\ mshr'[e] = [block |-> mshr[e].block, mem_tag |-> response,
                          requested |-> TRUE]
    BY <1>3, RequestingEntry
<1>4. CASE e \notin Answered(tag) /\ mshr'[e] = mshr[e]
    <2>1. Valid(e)
        BY <1>4 DEF Valid
    <2> QED BY <1>4, <2>1, EntryFields
<1>5. \/ \E p \in Misses(str, rd, response, tag) :
            /\ gnt[p] = e
            /\ cache_access(str, rd)[p] \in Blocks
            /\ mshr'[e] = Unrequested(cache_access(str, rd)[p])
      \/ /\ e \notin Answered(tag) /\ e \in Requesting(str, response)
         /\ mshr'[e] = [block |-> mshr[e].block, mem_tag |-> response,
                        requested |-> TRUE]
      \/ e \notin Answered(tag) /\ mshr'[e] = mshr[e]
    BY <1>1, EntryAfter
<1> QED BY <1>2, <1>3, <1>4, <1>5

LEMMA OneRequestStep ==
    ASSUME DcacheInv, NEW str, NEW response, NEW tag, Inputs(str, response, tag),
           NEW rd \in [LoadPorts -> Blocks \cup {NoBlock}],
           Cycle(str, rd, response, tag)
    PROVE  OneRequestPerBlock'
<1>0. TypeOK
    BY DEF DcacheInv
<1>1. PICK gnt \in mshr_free_gnt(Misses(str, rd, response, tag)) :
        mshr' = n_mshr(str, rd, response, tag, gnt)
    BY DEF Cycle
<1>2. cachemem' = n_cachemem(str, response, tag) /\ Memory(str, response, tag)
    BY DEF Cycle
<1> SUFFICES ASSUME ~structural_hzd', NEW e \in Entries, mshr'[e].block # NoBlock
             PROVE  /\ \A f \in Entries : mshr'[f].block = mshr'[e].block => f = e
                    /\ cachemem'[Line[mshr'[e].block]].block # mshr'[e].block
                    /\ mshr'[e].requested =>
                        in_flight'[mshr'[e].mem_tag]
                            = [block |-> mshr'[e].block, data |-> memory'[mshr'[e].block]]
    BY DEF OneRequestPerBlock, Valid, Dcachemem_hit
<1>3. ~structural_hzd
    BY <1>0, <1>1, HazardStays
<1>4. \A f \in Entries : Valid(f) =>
        /\ \A g \in Entries : mshr[g].block = mshr[f].block => g = f
        /\ ~Dcachemem_hit(mshr[f].block)
        /\ mshr[f].requested =>
            in_flight[mshr[f].mem_tag] = [block |-> mshr[f].block,
                                          data |-> memory[mshr[f].block]]
    BY <1>3 DEF DcacheInv, OneRequestPerBlock
<1> DEFINE Taken(f, p) ==
            /\ p \in Misses(str, rd, response, tag) /\ gnt[p] = f
            /\ mshr'[f].block = cache_access(str, rd)[p]
            /\ mshr'[f].block \in Blocks /\ ~mshr'[f].requested
           Kept(f) == /\ f \notin Answered(tag) /\ Valid(f) /\ mshr[f].block \in Blocks
                      /\ mshr'[f].block = mshr[f].block
<1>5. \A f \in Entries : mshr'[f].block # NoBlock => (\E p : Taken(f, p)) \/ Kept(f)
    BY <1>0, <1>1, BlockAfter
<1>6. PICK b : b = mshr'[e].block
    OBVIOUS
\* the block is new to the cache and to the answers of this edge
<1>7. b \in Blocks /\ ~Dcachemem_hit(b) /\ \A f \in Answered(tag) : mshr[f].block # b
    <2>1. ASSUME NEW p, Taken(e, p)
          PROVE  b \in Blocks /\ ~Dcachemem_hit(b) /\ \A f \in Answered(tag) : mshr[f].block # b
        <3>1. \A f \in Entries : mshr[f].block # b
            BY <1>6, <2>1, MissIsNew
        <3>2. b \in Blocks /\ ~Dcachemem_hit(b)
            BY <1>6, <2>1, MissIsNew
        <3> QED BY <3>1, <3>2 DEF Answered
    <2>2. CASE Kept(e)
        <3>1. b \in Blocks /\ ~Dcachemem_hit(b) /\ b = mshr[e].block
            BY <1>4, <1>6, <2>2
        <3>2. ASSUME NEW f \in Answered(tag), mshr[f].block = b
              PROVE  FALSE
            <4>1. f \in Entries
                BY DEF Answered
            <4>2. f = e
                BY <1>4, <2>2, <3>1, <3>2, <4>1
            <4> QED BY <2>2, <4>2
        <3> QED BY <3>1, <3>2
    <2> QED BY <1>5, <2>1, <2>2
<1>8. ASSUME NEW f \in Entries, mshr'[f].block = b
      PROVE  f = e
    <2>0. mshr'[f].block # NoBlock
        BY <1>6, <1>8
    <2>1. ASSUME NEW p, Taken(e, p), NEW q, Taken(f, q)
          PROVE  f = e
        <3>1. p = q
            BY <1>6, <1>8, <2>1, MissIsNew
        <3> QED BY <2>1, <3>1
    <2>2. ASSUME NEW p, Taken(e, p), Kept(f)
          PROVE  f = e
        <3>1. mshr[f].block # b
            BY <1>6, <2>2, MissIsNew
        <3> QED BY <1>8, <2>2, <3>1
    <2>3. ASSUME Kept(e), NEW q, Taken(f, q)
          PROVE  f = e
        <3>1. mshr[e].block # mshr'[f].block
            BY <2>3, MissIsNew
        <3> QED BY <1>6, <1>8, <2>3, <3>1
    <2>4. CASE Kept(e) /\ Kept(f)
        BY <1>4, <1>6, <1>8, <2>4
    <2> QED BY <1>5, <2>0, <2>1, <2>2, <2>3, <2>4
<1>9. cachemem'[Line[b]].block # b
    BY <1>0, <1>2, <1>7, StaysUncached
<1>10. memory'[b] = memory[b]
    BY <1>0, <1>2, <1>7, UncachedKept
<1>11. ASSUME mshr'[e].requested
       PROVE  in_flight'[mshr'[e].mem_tag] = [block |-> b, data |-> memory'[b]]
    <2>1. Kept(e)
        BY <1>5, <1>11
    <2>2. CASE /\ e \in Requesting(str, response) /\ response \in Tags
               /\ mshr'[e] = [block |-> mshr[e].block, mem_tag |-> response,
                              requested |-> TRUE]
        <3>1. b = mshr[e].block /\ mshr'[e].mem_tag = response
            BY <1>6, <2>2
        <3>2. in_flight[response] = Nothing
            BY <2>2, DcacheAssumption DEF Inputs, Responses
        <3>3. response # tag
            BY <2>2, <3>2, DcacheAssumption DEF Inputs
        <3>4. (CHOOSE f \in Requesting(str, response) : TRUE) = e
            BY <1>0, <2>2, AskedBlock
        <3>5. in_flight'[response] = [block |-> b, data |-> memory[b]]
            BY <1>2, <2>2, <3>1, <3>3, <3>4 DEF Memory
        <3> QED BY <1>10, <3>1, <3>5
    <2>3. CASE mshr'[e] = mshr[e]
        <3>1. PICK t : t = mshr[e].mem_tag
            OBVIOUS
        <3>2. mshr[e].requested /\ mshr'[e].mem_tag = t /\ b = mshr[e].block
            BY <1>6, <1>11, <2>3, <3>1
        <3>3. t \in Tags /\ t # NoTag
            BY <1>0, <3>1, <3>2, EntryFields, DcacheAssumption
        <3>4. in_flight[t] = [block |-> b, data |-> memory[b]]
            BY <1>4, <2>1, <3>1, <3>2
        <3>5. t # tag
            BY <1>3, <2>1, <3>1, <3>2, <3>3 DEF Answered
        <3>6. in_flight[t] # Nothing
            <4>1. in_flight[t].block \in Blocks
                BY <1>7, <3>4
            <4>2. Nothing.block \notin Blocks
                BY <1>0, DataOf, DcacheAssumption
            <4> QED BY <4>1, <4>2
        <3>7. t # response
            BY <3>3, <3>6 DEF Inputs, Responses
        <3>8. in_flight'[t] = in_flight[t]
            BY <1>2, <3>3, <3>5, <3>7 DEF Memory
        <3> QED BY <1>10, <3>2, <3>4, <3>8
    <2>4. \/ mshr'[e] = Free
          \/ \E p \in Misses(str, rd, response, tag) :
                mshr'[e] = Unrequested(cache_access(str, rd)[p])
          \/ /\ e \in Requesting(str, response) /\ response \in Tags
             /\ mshr'[e] = [block |-> mshr[e].block, mem_tag |-> response,
                            requested |-> TRUE]
          \/ mshr'[e] = mshr[e]
        BY <1>0, <1>1, EntryAfter
    <2>5. /\ mshr'[e] # Free
          /\ \A p \in Misses(str, rd, response, tag) :
                mshr'[e] # Unrequested(cache_access(str, rd)[p])
        <3>1. Free.requested = FALSE
            BY DEF Free
        <3>2. \A p \in Misses(str, rd, response, tag) :
                Unrequested(cache_access(str, rd)[p]).requested = FALSE
            BY DEF Unrequested
        <3> QED BY <1>11, <3>1, <3>2
    <2> QED BY <2>2, <2>3, <2>4, <2>5
<1> HIDE DEF Taken, Kept
<1> QED BY <1>6, <1>8, <1>9, <1>11

-----------------------------------------------------------------------------
(* The invariant and the theorems                                          *)

LEMMA DcacheInit == Init => DcacheInv /\ LoadsReadMemory
<1> SUFFICES ASSUME Init
             PROVE  DcacheInv /\ LoadsReadMemory
    OBVIOUS
<1>0. /\ mshr = [e \in Entries |-> Free] /\ loaded = {}
      /\ cachemem = [l \in Lines |-> Nothing] /\ Nothing.block = NoBlock
      /\ memory = [b \in Blocks |-> [i \in Bytes |-> Value_0]]
      /\ in_flight = [t \in Tags |-> Nothing]
    BY DEF Init, Nothing
<1>1. TypeOK
    <2>1. [i \in Bytes |-> Value_0] \in Data
        BY DcacheAssumption DEF Data
    <2>2. memory \in [Blocks -> Data]
        BY <1>0, <2>1
    <2> QED BY <1>0, <2>2 DEF TypeOK
<1>2. Coherent
    BY <1>0 DEF Coherent
<1>3. OneRequestPerBlock
    BY <1>0 DEF OneRequestPerBlock, Valid, Free
<1> QED BY <1>0, <1>1, <1>2, <1>3 DEF DcacheInv, LoadsReadMemory

LEMMA DcacheStep == DcacheInv /\ [Next]_vars => DcacheInv'
<1> SUFFICES ASSUME DcacheInv, [Next]_vars
             PROVE  DcacheInv'
    OBVIOUS
<1>0. TypeOK /\ TypeOK'
    BY TypeStep DEF DcacheInv
<1>1. CASE UNCHANGED vars
    <2>1. Coherent'
        BY <1>1 DEF vars, DcacheInv, Coherent
    <2>2. OneRequestPerBlock'
        BY <1>1 DEF vars, DcacheInv, OneRequestPerBlock, Valid, Dcachemem_hit,
                    structural_hzd, FreeEntries
    <2> QED BY <1>0, <2>1, <2>2 DEF DcacheInv
<1>2. ASSUME NEW str, NEW response, NEW tag, Inputs(str, response, tag),
             NEW rd \in [LoadPorts -> Blocks \cup {NoBlock}],
             Cycle(str, rd, response, tag)
      PROVE  DcacheInv'
    <2>1. Coherent'
        BY <1>2, CoherentStep DEF Cycle
    <2>2. OneRequestPerBlock'
        BY <1>2, OneRequestStep
    <2> QED BY <1>0, <2>1, <2>2 DEF DcacheInv
<1>3. ASSUME NEW str, NEW response, NEW tag, Inputs(str, response, tag),
             Nuke(str, response, tag)
      PROVE  DcacheInv'
    <2>1. Coherent'
        BY <1>3, CoherentStep DEF Nuke
    <2>2. mshr' = [e \in Entries |-> Free]
        BY <1>3 DEF Nuke
    <2>3. OneRequestPerBlock'
        BY <2>2 DEF OneRequestPerBlock, Valid, Free
    <2> QED BY <1>0, <2>1, <2>3 DEF DcacheInv
<1> QED BY <1>1, <1>2, <1>3 DEF Next, Inputs

LEMMA DcacheInvariant == Spec => []DcacheInv
BY DcacheInit, DcacheStep, PTL DEF Spec

\* Every entry of the table, line, memory block and tag holds what it can.
THEOREM DcacheTypeCorrect == Spec => []TypeOK
BY DcacheInvariant, PTL DEF DcacheInv

\* The cache holds what memory holds.  No bound on the table is needed: one that
\* is too full to take answers does no harm to the cache.
THEOREM CacheAgreesWithMemory == Spec => []Coherent
BY DcacheInvariant, PTL DEF DcacheInv

\* A block is asked for once, and its answer is its present data.
THEOREM RequestsAreUnique == Spec => []OneRequestPerBlock
BY DcacheInvariant, PTL DEF DcacheInv

-----------------------------------------------------------------------------
(* Loads                                                                   *)

\* A store of half a block puts a load's bytes where it puts memory's.
LEMMA WordsForwarded ==
    ASSUME NEW offset
    PROVE  Forwarded("WORD", offset) = Written("WORD", offset)
BY DEF Forwarded, Written

LEMMA LoadStep ==
    ASSUME \A s \in Stores : s[1] = "WORD",
           DcacheInv, [Next]_vars, LoadsReadMemory
    PROVE  LoadsReadMemory'
<1>0. TypeOK
    BY DEF DcacheInv
<1>1. CASE UNCHANGED vars
    BY <1>1 DEF vars, LoadsReadMemory
<1>2. ASSUME NEW str, NEW response, NEW tag, Inputs(str, response, tag),
             NEW rd \in [LoadPorts -> Blocks \cup {NoBlock}],
             Cycle(str, rd, response, tag)
      PROVE  LoadsReadMemory'
    <2> SUFFICES ASSUME NEW x \in loaded'
                 PROVE  x.data = memory'[x.block]
        BY DEF LoadsReadMemory
    <2>1. PICK b \in Range(rd) \ {NoBlock} :
            /\ Dcache_rd_hit(b, str, response, tag)
            /\ x = [block |-> b, data |-> Dcache_rd_data(b, str, response, tag)]
        BY <1>2 DEF Cycle, Loaded
    <2>2. b \in Blocks /\ Memory(str, response, tag)
        BY <1>2, <2>1 DEF Range, Cycle
    <2>3. memory'[b] = IF str.block = b /\ Dcache_str_accepted(str, response)
                       THEN proc2mem_data(str) ELSE memory[b]
        BY <1>0, <1>2, <2>2, MemoryAfter
    <2>4. Dcache_rd_data(b, str, response, tag) = memory'[b]
        \* the bytes of the store of this cycle
        <3>1. CASE str.block = b /\ Dcache_str_accepted(str, response)
            <4>1. <<str.size, str.offset>> \in Stores
                BY <1>2, <3>1, AcceptedStore, StoreFields DEF Inputs
            <4>2. str.size = "WORD"
                BY <4>1
            <4>3. Forwarded(str.size, str.offset) = Written(str.size, str.offset)
                BY <4>2, WordsForwarded
            <4>4. Dcache_rd_data(b, str, response, tag)
                    = Replaced(cachemem[Line[b]].data, Forwarded(str.size, str.offset),
                               str.value)
                BY <3>1 DEF Dcache_rd_data
            <4>5. memory'[b] = proc2mem_data(str)
                BY <2>3, <3>1
            <4> QED BY <3>1, <4>3, <4>4, <4>5 DEF proc2mem_data
        \* the answer of this cycle
        <3>2. CASE /\ ~(str.block = b /\ Dcache_str_accepted(str, response))
                   /\ Answers(tag, b)
            <4>1. PICK e \in Answered(tag) : mshr[e].block = b
                BY <3>2 DEF Answers, Recieved
            <4>2. in_flight[tag] = [block |-> mshr[e].block,
                                    data |-> memory[mshr[e].block]]
                BY AnswerFresh
            <4>3. in_flight[tag].data = memory[b]
                BY <4>1, <4>2
            <4>4. Dcache_rd_data(b, str, response, tag) = in_flight[tag].data
                BY <3>2 DEF Dcache_rd_data
            <4> QED BY <2>3, <3>2, <4>3, <4>4
        \* the line
        <3>3. CASE /\ ~(str.block = b /\ Dcache_str_accepted(str, response))
                   /\ ~Answers(tag, b)
            <4>1. Dcachemem_hit(b)
                BY <2>1, <3>3 DEF Dcache_rd_hit
            <4>2. cachemem[Line[b]].block = b /\ Line[b] \in Lines /\ b # NoBlock
                BY <2>2, <4>1, DcacheAssumption DEF Dcachemem_hit
            <4>3. cachemem[Line[b]].data = memory[b]
                BY <4>2 DEF DcacheInv, Coherent
            <4>4. Dcache_rd_data(b, str, response, tag) = cachemem[Line[b]].data
                BY <3>3 DEF Dcache_rd_data
            <4> QED BY <2>3, <3>3, <4>3, <4>4
        <3> QED BY <3>1, <3>2, <3>3
    <2> QED BY <2>1, <2>4
<1>3. ASSUME NEW str, NEW response, NEW tag, Nuke(str, response, tag)
      PROVE  LoadsReadMemory'
    BY <1>3 DEF Nuke, LoadsReadMemory
<1> QED BY <1>1, <1>2, <1>3 DEF Next, Inputs

\* With stores of whole words (sizes whose forwarded bytes are put elsewhere
\* are a finding), what a load gets is what memory holds, the store of that
\* very cycle included.
THEOREM LoadsGetMemory ==
    ASSUME \A s \in Stores : s[1] = "WORD"
    PROVE  Spec => []LoadsReadMemory
<1>1. DcacheInv /\ LoadsReadMemory /\ [Next]_vars => LoadsReadMemory'
    BY LoadStep
<1> QED BY <1>1, DcacheInit, DcacheInvariant, PTL DEF Spec
=============================================================================
