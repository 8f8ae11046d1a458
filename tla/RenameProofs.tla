---------------------------- MODULE RenameProofs ----------------------------
(***************************************************************************)
(* Theorems about Rename for every superscalar degree, ROB size, register  *)
(* set and instruction mix that satisfy the assumptions of that module: no *)
(* register is lost or shared (Conservation); every instruction reads the  *)
(* register that program order says it reads (DataFlow); the ready bits    *)
(* say whose value is there (ReadyExact, and ReadyBounds when loads to x0  *)
(* broadcast); and the loop of rrat.sv computes the retired tables         *)
(* (RetireLoopAgrees).                                                     *)
(*                                                                         *)
(* The second half is about Wakeup, one half of whose steps is Rename, for *)
(* any number of stations and units.  Wakeup is an instance here, so that  *)
(* what is proved of Rename can be used of it; WakeupTheorems brings the   *)
(* results back to Wakeup.                                                 *)
(***************************************************************************)
EXTENDS Rename, FiniteLemmas, SequenceTheorems

USE RenameAssumption

-----------------------------------------------------------------------------
(* The step of the window                                                  *)

\* The youngest earlier slot that writes a source exists when any does.
LEMMA SourceType ==
    ASSUME TypeOK, NEW n \in 0..N, NEW d \in [1..n -> Slots],
           NEW gnt \in [1..N -> PRF \cup {NoReg}], NEW i \in 1..n
    PROVE  phys_reg_dest(d, gnt, i) \in PRF /\ phys_reg_src(d, gnt, i) \in PRF
<1>1. \A j \in 1..n : phys_reg_dest(d, gnt, j) \in PRF
    BY DEF phys_reg_dest, Renamed
<1>2. CASE Forwarders(d, i) = {}
    <2>1. d[i].src \in ARF
        OBVIOUS
    <2> QED BY <1>1, <1>2, <2>1 DEF phys_reg_src, TypeOK
<1>3. CASE Forwarders(d, i) # {}
    <2>1. Forwarders(d, i) \in SUBSET (1..(i - 1)) /\ i - 1 \in Int
        BY DEF Forwarders
    <2>2. \E j \in Forwarders(d, i) : \A l \in Forwarders(d, i) : l <= j
        BY <1>3, <2>1, MaxExists
    <2>3. (CHOOSE j \in Forwarders(d, i) : \A l \in Forwarders(d, i) : l <= j)
            \in 1..n
        BY <2>1, <2>2
    <2> QED BY <1>1, <1>3, <2>3 DEF phys_reg_src
<1> QED BY <1>2, <1>3

\* The window after a clock edge is a sequence of entries again: the old ones
\* without the k oldest, followed by the renamed group.
LEMMA WindowStep ==
    ASSUME TypeOK, NEW d \in Groups, NEW gnt \in [1..N -> PRF \cup {NoReg}],
           NEW k \in 0..Len(window), NEW done
    PROVE  LET w == n_window(d, gnt, k, done) IN
           /\ Len(window) \in Nat /\ window \in [1..Len(window) -> Entry]
           /\ Len(d) \in 0..N /\ d \in [1..Len(d) -> Slots]
           /\ w \in Seq(Entry)
           /\ Len(w) = Len(window) - k + Len(d)
           /\ \A i \in 1..(Len(window) - k) :
                /\ w[i].dest_arf = window[i + k].dest_arf
                /\ w[i].dest_prf = window[i + k].dest_prf
                /\ w[i].src_arf = window[i + k].src_arf
                /\ w[i].src_prf = window[i + k].src_prf
                /\ w[i].executed = (window[i + k].executed \/ (i + k) \in done)
           /\ \A i \in 1..Len(d) :
                w[Len(window) - k + i] = NewEntry(d, gnt, i)
<1> DEFINE w == n_window(d, gnt, k, done)
<1>1. Len(window) \in Nat /\ window \in [1..Len(window) -> Entry]
    BY LenProperties DEF TypeOK
<1>2. PICK n \in 0..N : d \in [1..n -> Slots]
    BY DEF Groups
<1>3. Len(d) = n
    BY <1>2
<1>4. \A i \in 1..n : NewEntry(d, gnt, i) \in Entry
    BY <1>2, SourceType DEF NewEntry, Entry
<1> DEFINE m == Len(window) - k
           t == m + n
           Old(i) == [window[i + k] EXCEPT
                        !.executed = window[i + k].executed \/ (i + k) \in done]
<1>5. m \in Nat /\ t \in Nat
    BY <1>1
<1>6. w = [i \in 1..t |-> IF i <= m THEN Old(i) ELSE NewEntry(d, gnt, i - m)]
    BY <1>3 DEF n_window
<1>7. \A i \in 1..m : /\ i + k \in 1..Len(window)
                      /\ window[i + k] \in Entry
    BY <1>1
<1>8. \A i \in 1..m : /\ Old(i) \in Entry
                      /\ Old(i).dest_arf = window[i + k].dest_arf
                      /\ Old(i).dest_prf = window[i + k].dest_prf
                      /\ Old(i).src_arf = window[i + k].src_arf
                      /\ Old(i).src_prf = window[i + k].src_prf
                      /\ Old(i).executed = (window[i + k].executed \/ (i + k) \in done)
    BY <1>7 DEF Entry
<1> HIDE DEF Old
<1>9. w \in [1..t -> Entry]
    <2>1. ASSUME NEW i \in 1..t
          PROVE  (IF i <= m THEN Old(i) ELSE NewEntry(d, gnt, i - m)) \in Entry
        <3>1. i <= m => i \in 1..m
            BY <1>5
        <3>2. ~(i <= m) => i - m \in 1..n
            BY <1>5
        <3> QED BY <3>1, <3>2, <1>8, <1>4
    <2> QED BY <2>1, <1>6
<1> HIDE DEF w
<1>10. w \in Seq(Entry) /\ Len(w) = t
    <2> HIDE DEF t
    <2> QED BY <1>9, <1>5, SeqDef
<1>11. \A i \in 1..m : w[i] = Old(i)
    BY <1>5, <1>6
<1>12. \A i \in 1..n : w[m + i] = NewEntry(d, gnt, i)
    BY <1>5, <1>6
<1> QED BY <1>1, <1>2, <1>3, <1>8, <1>10, <1>11, <1>12 DEF w

-----------------------------------------------------------------------------
(* Retirement                                                              *)

\* Of the retiring writers of a register one is the last, and the tables take
\* their mapping from it.
LEMMA LastWriterExists ==
    ASSUME TypeOK, NEW k \in 0..Len(window), NEW i \in Writers(k)
    PROVE  \E l \in LastWriters(k) : window[l].dest_arf = window[i].dest_arf
<1> DEFINE S == {j \in Writers(k) : window[j].dest_arf = window[i].dest_arf}
<1>1. k \in Int /\ S \in SUBSET (1..k) /\ S # {}
    BY LenProperties DEF Writers, TypeOK
<1>2. PICK l \in S : \A x \in S : x <= l
    BY <1>1, MaxExists
<1>3. l \in LastWriters(k)
    BY <1>2 DEF LastWriters
<1> QED BY <1>2, <1>3

LEMMA LastWriterUnique ==
    ASSUME NEW k \in Nat, NEW i \in LastWriters(k), NEW j \in LastWriters(k),
           window[i].dest_arf = window[j].dest_arf
    PROVE  i = j
<1>1. i \in Int /\ j \in Int /\ i <= j /\ j <= i
    BY DEF LastWriters, Writers
<1> QED BY <1>1

LEMMA RetiredEntry ==
    ASSUME TypeOK, NEW k \in 0..Len(window)
    PROVE  /\ Writers(k) \subseteq 1..k
           /\ LastWriters(k) \subseteq Writers(k)
           /\ \A i \in 1..k : window[i] \in Entry
           /\ \A l \in LastWriters(k) :
                n_rrat_entries(k)[window[l].dest_arf] = window[l].dest_prf
           /\ \A a \in ARF :
                (\A i \in Writers(k) : window[i].dest_arf # a)
                    => n_rrat_entries(k)[a] = rrat_entries[a]
<1>1. Len(window) \in Nat /\ window \in [1..Len(window) -> Entry]
    BY LenProperties DEF TypeOK
<1>2. k \in Nat /\ \A i \in 1..k : window[i] \in Entry
    BY <1>1
<1>3. Writers(k) \subseteq 1..k /\ LastWriters(k) \subseteq Writers(k)
    BY DEF Writers, LastWriters
<1>4. ASSUME NEW l \in LastWriters(k)
      PROVE  n_rrat_entries(k)[window[l].dest_arf] = window[l].dest_prf
    <2> DEFINE a == window[l].dest_arf
               c == CHOOSE i \in LastWriters(k) : window[i].dest_arf = a
    <2>1. a \in ARF
        BY <1>2, <1>3 DEF Entry
    <2>2. c \in LastWriters(k) /\ window[c].dest_arf = a
        OBVIOUS
    <2>3. c = l
        BY <2>2, <1>2, LastWriterUnique
    <2> QED BY <2>1, <2>3 DEF n_rrat_entries
<1>5. ASSUME NEW a \in ARF, \A i \in Writers(k) : window[i].dest_arf # a
      PROVE  n_rrat_entries(k)[a] = rrat_entries[a]
    BY <1>3, <1>5 DEF n_rrat_entries
<1> QED BY <1>2, <1>3, <1>4, <1>5

LEMMA RetireType ==
    ASSUME TypeOK, NEW k \in 0..Len(window)
    PROVE  /\ n_rrat_entries(k) \in [ARF -> PRF]
           /\ n_rrat_valid(k) \subseteq ARF \ {ZERO_REG}
           /\ free_vector(k) \subseteq PRF
           /\ n_rrat_free_list(k) \subseteq PRF
<1>1. \A i \in Writers(k) : /\ window[i].dest_prf \in PRF
                            /\ window[i].dest_arf \in ARF \ {ZERO_REG}
    BY RetiredEntry DEF Entry, Writers
<1>2. LastWriters(k) \subseteq Writers(k)
    BY RetiredEntry
<1>3. ASSUME NEW a \in ARF
      PROVE  n_rrat_entries(k)[a] \in PRF
    <2>1. CASE \E i \in Writers(k) : window[i].dest_arf = a
        <3>1. PICK l \in LastWriters(k) : window[l].dest_arf = a
            BY <2>1, LastWriterExists
        <3> QED BY <3>1, <1>1, <1>2, RetiredEntry
    <2>2. CASE \A i \in Writers(k) : window[i].dest_arf # a
        BY <2>2, RetiredEntry DEF TypeOK
    <2> QED BY <2>1, <2>2
<1>4. n_rrat_entries(k) \in [ARF -> PRF]
    BY <1>3 DEF n_rrat_entries
<1>5. free_vector(k) \subseteq PRF
    BY <1>1 DEF free_vector, TypeOK
<1>6. n_rrat_free_list(k) \subseteq PRF
    BY <1>5 DEF n_rrat_free_list, TypeOK
<1>7. n_rrat_valid(k) \subseteq ARF \ {ZERO_REG}
    BY <1>1 DEF n_rrat_valid, TypeOK
<1> QED BY <1>4, <1>5, <1>6, <1>7

-----------------------------------------------------------------------------
(* Type correctness                                                        *)

LEMMA RatType ==
    ASSUME TypeOK, NEW n \in 0..N, NEW d \in [1..n -> Slots],
           NEW gnt \in [1..N -> PRF \cup {NoReg}]
    PROVE  n_rat_entries(d, gnt) \in [ARF -> PRF]
<1>1. \A i \in LastRenamed(d, gnt) : gnt[i] \in PRF
    BY DEF LastRenamed, Renamed
<1> QED BY <1>1 DEF n_rat_entries, TypeOK

\* The empty group of a stall, and the grants of a dispatch, are of the types
\* the lemmas above ask for.
LEMMA GroupTypes ==
    /\ Empty \in Groups /\ Len(Empty) = 0
    /\ NoGrant \in [1..N -> PRF \cup {NoReg}]
    /\ Grants \subseteq [1..N -> PRF \cup {NoReg}]
<1>1. Empty \in [1..0 -> Slots] /\ Len(Empty) = 0 /\ 0 \in 0..N
    BY DEF Empty
<1>2. Empty \in Groups
    BY <1>1 DEF Groups
<1> QED BY <1>1, <1>2 DEF NoGrant, Grants

LEMMA WokenType ==
    ASSUME TypeOK, NEW done \in SUBSET (1..dispatched), NEW x0
    PROVE  Woken(done, x0) \subseteq PRF
<1>1. window \in [1..Len(window) -> Entry] /\ done \subseteq 1..Len(window)
    BY LenProperties DEF TypeOK
<1>2. \A i \in done : window[i].dest_prf \in PRF
    BY <1>1 DEF Entry
<1> QED BY <1>2 DEF Woken

LEMMA StallStep ==
    ASSUME TypeOK, NEW k \in 0..N, NEW done \in SUBSET (1..dispatched),
           NEW x0 \in X0Loads, Stall(k, done, x0)
    PROVE  TypeOK'
<1>1. k \in 0..Len(window) /\ k <= dispatched /\ dispatched \in Nat
    BY LenProperties DEF Stall, Retires, Executed, TypeOK
<1>2. /\ window' \in Seq(Entry)
      /\ Len(window') = Len(window) - k /\ Len(window) \in Nat
    BY <1>1, WindowStep, GroupTypes DEF Stall
<1>3. /\ rrat_entries' \in [ARF -> PRF] /\ rrat_free_list' \subseteq PRF
      /\ rrat_valid' \subseteq ARF \ {ZERO_REG} /\ free_vector(k) \subseteq PRF
    BY <1>1, RetireType DEF Stall, Retire
<1>4. rat_entries' \in [ARF -> PRF] /\ free_list' \subseteq PRF
    BY <1>3 DEF Stall, TypeOK, n_free_list
<1>5. Woken(done, x0) \subseteq PRF
    BY WokenType
<1>6. ready' \subseteq PRF
    BY <1>5 DEF Stall, TypeOK
<1>7. /\ dispatched' \in 0..Len(window') /\ dispatched' <= ROB_NUM_ENTRIES
      /\ Len(window') <= dispatched' + N
    BY <1>1, <1>2 DEF Stall, TypeOK
<1> QED BY <1>2, <1>3, <1>4, <1>6, <1>7 DEF TypeOK

LEMMA DispatchStep ==
    ASSUME TypeOK, NEW k \in 0..N, NEW done \in SUBSET (1..dispatched),
           NEW x0 \in X0Loads, NEW d \in Groups, NEW gnt \in Grants,
           Dispatch(k, done, x0, d, gnt)
    PROVE  TypeOK'
<1>1. k \in 0..Len(window) /\ k <= dispatched /\ dispatched \in Nat
    BY LenProperties DEF Dispatch, Retires, Executed, TypeOK
<1>2. gnt \in [1..N -> PRF \cup {NoReg}]
    BY GroupTypes
<1>3. /\ window' \in Seq(Entry)
      /\ Len(window') = Len(window) - k + Len(d) /\ Len(window) \in Nat
      /\ Len(d) \in 0..N /\ d \in [1..Len(d) -> Slots]
    <2>1. window' = n_window(d, gnt, k, done)
        BY DEF Dispatch
    <2>2. k \in 0..Len(window)
        BY <1>1
    <2>3. /\ n_window(d, gnt, k, done) \in Seq(Entry)
          /\ Len(n_window(d, gnt, k, done)) = Len(window) - k + Len(d)
        BY <1>2, <2>2, WindowStep
    <2>4. Len(window) \in Nat /\ Len(d) \in 0..N /\ d \in [1..Len(d) -> Slots]
        BY <1>2, <2>2, WindowStep
    <2> QED BY <2>1, <2>3, <2>4
<1>4. /\ rrat_entries' \in [ARF -> PRF] /\ rrat_free_list' \subseteq PRF
      /\ rrat_valid' \subseteq ARF \ {ZERO_REG} /\ free_vector(k) \subseteq PRF
    BY <1>1, RetireType DEF Dispatch, Retire
<1>5. rat_entries' \in [ARF -> PRF] /\ free_list' \subseteq PRF
    <2>1. n_rat_entries(d, gnt) \in [ARF -> PRF]
        BY <1>2, <1>3, RatType
    <2> QED BY <2>1, <1>4 DEF Dispatch, TypeOK, n_free_list
<1>6. Woken(done, x0) \subseteq PRF
    BY WokenType
<1>7. ready' \subseteq PRF
    BY <1>6 DEF Dispatch, TypeOK
<1>8. /\ dispatched' \in 0..Len(window') /\ dispatched' <= ROB_NUM_ENTRIES
      /\ Len(window') <= dispatched' + N
    BY <1>1, <1>3 DEF Dispatch, TypeOK, rob_full
<1> QED BY <1>3, <1>4, <1>5, <1>7, <1>8 DEF TypeOK

LEMMA MispredictStep ==
    ASSUME TypeOK, NEW k \in 0..N, NEW done \in SUBSET (1..dispatched),
           NEW x0 \in X0Loads, Mispredict(k, done, x0)
    PROVE  TypeOK'
<1>1. k \in 0..Len(window) /\ Len(window) \in Nat
    BY LenProperties DEF Mispredict, Executed, TypeOK
<1>2. /\ n_rrat_entries(k) \in [ARF -> PRF] /\ n_rrat_free_list(k) \subseteq PRF
      /\ n_rrat_valid(k) \subseteq ARF \ {ZERO_REG}
    BY <1>1, RetireType
<1>3. Woken(done, x0) \subseteq PRF
    BY WokenType
<1>4. window' \in Seq(Entry) /\ Len(window') = 0
    BY EmptySeq DEF Mispredict, Empty
<1> QED BY <1>2, <1>3, <1>4 DEF Mispredict, Retire, TypeOK

LEMMA TypeInductive == TypeOK /\ [Next]_vars => TypeOK'
<1> SUFFICES ASSUME TypeOK, [Next]_vars PROVE TypeOK'
    OBVIOUS
<1>1. CASE UNCHANGED vars
    BY <1>1 DEF vars, TypeOK
<1>2. CASE Next
    <2>1. PICK k \in 0..N, done \in SUBSET (1..dispatched), x0 \in X0Loads :
            \/ Stall(k, done, x0)
            \/ \E d \in Groups, gnt \in Grants : Dispatch(k, done, x0, d, gnt)
            \/ Mispredict(k, done, x0)
        BY <1>2 DEF Next
    <2> QED BY <2>1, StallStep, DispatchStep, MispredictStep
<1> QED BY <1>1, <1>2

\* Every reachable state is well typed; in particular the ROB never holds more
\* than ROB_NUM_ENTRIES instructions and ID/EX never more than N.
THEOREM TypeCorrect == Spec => []TypeOK
<1>1. Init => TypeOK
    BY EmptySeq DEF Init, TypeOK
<1> QED BY <1>1, TypeInductive, PTL DEF Spec

-----------------------------------------------------------------------------
(* Every renamed destination is given a register                           *)

\* While the registers are conserved and the ROB has room for a whole group,
\* the retired mappings and the instructions in flight leave N registers.
LEMMA EnoughFree ==
    ASSUME TypeOK, Conservation, ~rob_full
    PROVE  IsFiniteSet(free_list) /\ Cardinality(free_list) \in Nat
           /\ Cardinality(free_list) >= N
<1> DEFINE L == Len(window)
           P == {window[i].dest_prf : i \in 1..L}
           f == [i \in 1..L |-> window[i].dest_prf]
<1>1. L \in Nat /\ L <= ROB_NUM_ENTRIES
    BY LenProperties DEF TypeOK, rob_full
<1>2. IsFiniteSet(Pending) /\ Cardinality(Pending) <= L
    <2>1. IsFiniteSet(1..L) /\ Cardinality(1..L) = L
        <3> HIDE DEF L
        <3>1. 1 \in Int /\ L \in Int
            BY <1>1
        <3>2. Cardinality(1..L) = IF 1 > L THEN 0 ELSE L - 1 + 1
            BY <3>1, FS_Interval
        <3> QED BY <1>1, <3>1, <3>2, FS_Interval
    <2>2. InFlight \in SUBSET (1..L)
        BY DEF InFlight
    <2>3. IsFiniteSet(InFlight) /\ Cardinality(InFlight) <= L
        BY <2>1, <2>2, FS_Subset
    <2>4. Pending = {f[i] : i \in InFlight}
        BY <2>2 DEF Pending
    <2> HIDE DEF f
    <2>5. IsFiniteSet({f[i] : i \in InFlight})
          /\ Cardinality({f[i] : i \in InFlight}) <= Cardinality(InFlight)
        BY <2>3, ImageBound
    <2>6. Cardinality(InFlight) \in Nat /\ Cardinality(Pending) \in Nat
        BY <2>3, <2>4, <2>5, FS_CardinalityType
    <2> QED BY <2>3, <2>4, <2>5, <2>6, <1>1
<1>3. IsFiniteSet(Mapped) /\ Cardinality(Mapped) <= Cardinality(ARF) - 1
    <2>1. IsFiniteSet(ARF \ {ZERO_REG})
          /\ Cardinality(ARF \ {ZERO_REG}) = Cardinality(ARF) - 1
        BY FS_RemoveElement
    <2>2. IsFiniteSet(rrat_valid)
          /\ Cardinality(rrat_valid) <= Cardinality(ARF \ {ZERO_REG})
        BY <2>1, FS_Subset DEF TypeOK
    <2>3. IsFiniteSet(Mapped) /\ Cardinality(Mapped) <= Cardinality(rrat_valid)
        BY <2>2, ImageBound DEF Mapped
    <2>4. /\ Cardinality(ARF) \in Nat /\ Cardinality(rrat_valid) \in Nat
          /\ Cardinality(Mapped) \in Nat
        BY <2>2, <2>3, FS_CardinalityType
    <2> QED BY <2>1, <2>2, <2>3, <2>4
<1> DEFINE U == Mapped \cup Pending
<1>4. /\ IsFiniteSet(U) /\ Cardinality(U) <= Cardinality(Mapped) + Cardinality(Pending)
      /\ Cardinality(U) \in Nat /\ Cardinality(Mapped) \in Nat
      /\ Cardinality(Pending) \in Nat /\ Cardinality(ARF) \in Nat
    <2>1. IsFiniteSet(U) /\ IsFiniteSet(Mapped \cap Pending)
          /\ Cardinality(U) = Cardinality(Mapped) + Cardinality(Pending)
                                - Cardinality(Mapped \cap Pending)
        <3>1. IsFiniteSet(Mapped \cap Pending)
            BY <1>2, FS_Subset
        <3> QED BY <1>2, <1>3, <3>1, FS_Union
    <2> QED BY <2>1, <1>2, <1>3, FS_CardinalityType
<1> HIDE DEF U
<1>5. /\ IsFiniteSet(PRF \ U)
      /\ Cardinality(PRF \ U) = Cardinality(PRF) - Cardinality(PRF \cap U)
    BY FS_Difference
<1>6. /\ IsFiniteSet(PRF \cap U) /\ Cardinality(PRF \cap U) <= Cardinality(U)
      /\ Cardinality(PRF \cap U) \in Nat /\ Cardinality(PRF) \in Nat
      /\ Cardinality(PRF \ U) \in Nat
    BY <1>4, <1>5, FS_Subset, FS_CardinalityType
<1>7. Cardinality(PRF) >= ROB_NUM_ENTRIES + (Cardinality(ARF) - 1) + N
    BY PrfSizeAssumption
<1>8. free_list = PRF \ U
    BY DEF Conservation, U
<1> HIDE DEF L, f, P
<1> QED BY <1>1, <1>2, <1>3, <1>4, <1>5, <1>6, <1>7, <1>8

\* So each slot of a dispatch has a free register of its own.
LEMMA AllGranted ==
    ASSUME TypeOK, Conservation, ~rob_full, NEW gnt \in Grants
    PROVE  /\ \A i \in 1..N : gnt[i] \in free_list
           /\ \A i, j \in 1..N : gnt[i] = gnt[j] => i = j
<1>1. \A i \in 1..N : gnt[i] # NoReg
    <2>1. Cardinality(free_list) \in Nat /\ Cardinality(free_list) >= N
        BY EnoughFree
    <2> QED BY <2>1 DEF Grants
<1> QED BY <1>1 DEF Grants

-----------------------------------------------------------------------------
(* Retirement hands every register on                                      *)

\* The registers of the k oldest writers.
Retiring(k) == {window[i].dest_prf : i \in Writers(k)}
\* The registers the retired table maps to after they retire.
n_Mapped(k) == {n_rrat_entries(k)[a] : a \in n_rrat_valid(k)}

\* After retirement a register of the old mappings and of the retiring writers
\* is either mapped, by one architectural register, or on its way to the free
\* lists, and nothing else is.
LEMMA RetireMapped ==
    ASSUME TypeOK, SingleOwner, NEW k \in 0..Len(window)
    PROVE  /\ Writers(k) \subseteq InFlight
           /\ free_vector(k) \subseteq Mapped \cup Retiring(k)
           /\ n_Mapped(k) = (Mapped \cup Retiring(k)) \ free_vector(k)
           /\ {window[i].dest_prf : i \in LastWriters(k)}
                = Retiring(k) \ free_vector(k)
           /\ \A a, b \in n_rrat_valid(k) :
                n_rrat_entries(k)[a] = n_rrat_entries(k)[b] => a = b
<1>1. Writers(k) \subseteq InFlight
    BY LenProperties DEF Writers, InFlight, TypeOK
<1>2. LastWriters(k) \subseteq Writers(k)
    BY RetiredEntry
<1>3. free_vector(k) \subseteq Mapped \cup Retiring(k)
    BY DEF free_vector, Mapped, Retiring
<1>4. Retiring(k) \cap Mapped = {}
    BY <1>1 DEF Retiring, SingleOwner, Pending
<1>5. \A i, j \in Writers(k) : window[i].dest_prf = window[j].dest_prf => i = j
    BY <1>1 DEF SingleOwner
<1>6. \A a \in n_rrat_valid(k) :
        \/ \E l \in LastWriters(k) : window[l].dest_arf = a
        \/ a \in rrat_valid /\ \A i \in Writers(k) : window[i].dest_arf # a
    BY LastWriterExists DEF n_rrat_valid
<1>7. \A l \in LastWriters(k) :
        /\ n_rrat_entries(k)[window[l].dest_arf] = window[l].dest_prf
        /\ window[l].dest_arf \in n_rrat_valid(k)
        /\ window[l].dest_prf \in Retiring(k)
    BY <1>2, RetiredEntry DEF n_rrat_valid, Retiring
<1>8. \A a \in rrat_valid :
        (\A i \in Writers(k) : window[i].dest_arf # a)
            => /\ n_rrat_entries(k)[a] = rrat_entries[a]
               /\ a \in n_rrat_valid(k) /\ rrat_entries[a] \in Mapped
    BY RetiredEntry DEF n_rrat_valid, Mapped, TypeOK
<1>9. ASSUME NEW l \in LastWriters(k)
      PROVE  window[l].dest_prf \notin free_vector(k)
    <2>1. \A a \in rrat_valid : rrat_entries[a] # window[l].dest_prf
        BY <1>4, <1>7 DEF Mapped
    <2>2. \A i \in Writers(k) \ LastWriters(k) : window[i].dest_prf # window[l].dest_prf
        BY <1>2, <1>5
    <2> QED BY <2>1, <2>2 DEF free_vector
<1>10. ASSUME NEW a \in rrat_valid, \A i \in Writers(k) : window[i].dest_arf # a
       PROVE  rrat_entries[a] \notin free_vector(k)
    <2>1. \A b \in rrat_valid \cap {window[i].dest_arf : i \in Writers(k)} :
            rrat_entries[b] # rrat_entries[a]
        BY <1>10 DEF SingleOwner
    <2>2. \A i \in Writers(k) : window[i].dest_prf # rrat_entries[a]
        BY <1>4 DEF Retiring, Mapped
    <2> QED BY <2>1, <2>2 DEF free_vector
<1>11. n_Mapped(k) \subseteq (Mapped \cup Retiring(k)) \ free_vector(k)
    BY <1>6, <1>7, <1>8, <1>9, <1>10 DEF n_Mapped
<1>12. ASSUME NEW p \in (Mapped \cup Retiring(k)) \ free_vector(k)
       PROVE  p \in n_Mapped(k)
    <2>1. CASE p \in Mapped
        <3>1. PICK a \in rrat_valid : p = rrat_entries[a]
            BY <2>1 DEF Mapped
        <3>2. \A i \in Writers(k) : window[i].dest_arf # a
            BY <3>1 DEF free_vector
        <3> QED BY <3>1, <3>2, <1>8 DEF n_Mapped
    <2>2. CASE p \in Retiring(k)
        <3>1. PICK i \in Writers(k) : p = window[i].dest_prf
            BY <2>2 DEF Retiring
        <3>2. i \in LastWriters(k)
            BY <3>1 DEF free_vector
        <3> QED BY <3>1, <3>2, <1>7 DEF n_Mapped
    <2> QED BY <2>1, <2>2
<1>13. {window[i].dest_prf : i \in LastWriters(k)} = Retiring(k) \ free_vector(k)
    <2>1. \A i \in Writers(k) : window[i].dest_prf \notin free_vector(k)
                                    => i \in LastWriters(k)
        BY DEF free_vector
    <2> QED BY <1>2, <1>9, <2>1 DEF Retiring
<1>14. ASSUME NEW a \in n_rrat_valid(k), NEW b \in n_rrat_valid(k),
              n_rrat_entries(k)[a] = n_rrat_entries(k)[b]
       PROVE  a = b
    <2>1. CASE /\ \E l \in LastWriters(k) : window[l].dest_arf = a
               /\ \E l \in LastWriters(k) : window[l].dest_arf = b
        BY <2>1, <1>14, <1>7, <1>5, <1>2
    <2>2. CASE /\ \E l \in LastWriters(k) : window[l].dest_arf = a
               /\ b \in rrat_valid /\ \A i \in Writers(k) : window[i].dest_arf # b
        BY <2>2, <1>14, <1>7, <1>8, <1>4
    <2>3. CASE /\ \E l \in LastWriters(k) : window[l].dest_arf = b
               /\ a \in rrat_valid /\ \A i \in Writers(k) : window[i].dest_arf # a
        BY <2>3, <1>14, <1>7, <1>8, <1>4
    <2>4. CASE /\ a \in rrat_valid /\ \A i \in Writers(k) : window[i].dest_arf # a
               /\ b \in rrat_valid /\ \A i \in Writers(k) : window[i].dest_arf # b
        BY <2>4, <1>14, <1>8 DEF SingleOwner
    <2> QED BY <2>1, <2>2, <2>3, <2>4, <1>6
<1> QED BY <1>1, <1>3, <1>11, <1>12, <1>13, <1>14

-----------------------------------------------------------------------------
(* Conservation                                                            *)

LEMMA OwnersType ==
    ASSUME TypeOK
    PROVE  Mapped \subseteq PRF /\ Pending \subseteq PRF
<1>1. window \in [1..Len(window) -> Entry]
    BY LenProperties DEF TypeOK
<1>2. \A i \in InFlight : window[i].dest_prf \in PRF
    BY <1>1 DEF InFlight, Entry
<1> QED BY <1>2 DEF Mapped, Pending, TypeOK

\* The RRAT's free list stays the complement of its mappings.
LEMMA RetireFree ==
    ASSUME TypeOK, Conservation, NEW k \in 0..Len(window)
    PROVE  n_rrat_free_list(k) = PRF \ n_Mapped(k)
<1>1. SingleOwner /\ rrat_free_list = PRF \ Mapped
    BY DEF Conservation
<1>2. /\ Writers(k) \subseteq InFlight
      /\ free_vector(k) \subseteq Mapped \cup Retiring(k)
      /\ n_Mapped(k) = (Mapped \cup Retiring(k)) \ free_vector(k)
      /\ {window[i].dest_prf : i \in LastWriters(k)} = Retiring(k) \ free_vector(k)
    BY <1>1, RetireMapped
<1>3. n_rrat_free_list(k) = (rrat_free_list \cup free_vector(k))
                                \ (Retiring(k) \ free_vector(k))
    BY <1>2 DEF n_rrat_free_list
<1>4. Retiring(k) \subseteq Pending
    BY <1>2 DEF Retiring, Pending
<1>5. /\ Mapped \subseteq PRF /\ Retiring(k) \subseteq PRF
      /\ Retiring(k) \cap Mapped = {}
    BY <1>1, <1>4, OwnersType DEF SingleOwner
<1> QED BY <1>1, <1>2, <1>3, <1>5

\* The in-flight writers after a clock edge: those that did not retire, moved
\* up by k, and the slots of the group that were given a register.
LEMMA InFlightStep ==
    ASSUME TypeOK, NEW d \in Groups, NEW gnt \in [1..N -> PRF \cup {NoReg}],
           NEW k \in 0..Len(window), NEW done,
           window' = n_window(d, gnt, k, done),
           \A i \in 1..Len(d) : d[i].dest # ZERO_REG => gnt[i] # NoReg
    PROVE  /\ Renamed(d, gnt) = {i \in 1..Len(d) : d[i].dest # ZERO_REG}
           /\ \A i \in InFlight' :
                \/ i + k \in InFlight /\ window'[i].dest_prf = window[i + k].dest_prf
                \/ /\ i - (Len(window) - k) \in Renamed(d, gnt)
                   /\ window'[i].dest_prf = gnt[i - (Len(window) - k)]
           /\ \A i \in InFlight \ Writers(k) :
                i - k \in InFlight' /\ window'[i - k].dest_prf = window[i].dest_prf
           /\ \A i \in Renamed(d, gnt) :
                /\ Len(window) - k + i \in InFlight'
                /\ window'[Len(window) - k + i].dest_prf = gnt[i]
<1> DEFINE m == Len(window) - k
<1>1. /\ Len(window) \in Nat /\ Len(d) \in Nat /\ m \in Nat
      /\ d \in [1..Len(d) -> Slots]
      /\ Len(window') = m + Len(d)
      /\ \A i \in 1..m : /\ window'[i].dest_arf = window[i + k].dest_arf
                         /\ window'[i].dest_prf = window[i + k].dest_prf
      /\ \A i \in 1..Len(d) : window'[m + i] = NewEntry(d, gnt, i)
    <2>1. /\ Len(window) \in Nat /\ Len(d) \in 0..N
          /\ d \in [1..Len(d) -> Slots]
          /\ Len(n_window(d, gnt, k, done)) = Len(window) - k + Len(d)
        BY WindowStep
    <2>2. \A i \in 1..(Len(window) - k) :
            /\ n_window(d, gnt, k, done)[i].dest_arf = window[i + k].dest_arf
            /\ n_window(d, gnt, k, done)[i].dest_prf = window[i + k].dest_prf
        BY WindowStep
    <2>3. \A i \in 1..Len(d) :
            n_window(d, gnt, k, done)[Len(window) - k + i] = NewEntry(d, gnt, i)
        BY WindowStep
    <2> QED BY <2>1, <2>2, <2>3
<1>2. Renamed(d, gnt) = {i \in 1..Len(d) : d[i].dest # ZERO_REG}
    BY <1>1 DEF Renamed
<1>3. \A i \in 1..Len(d) : /\ window'[m + i].dest_arf = d[i].dest
                           /\ i \in Renamed(d, gnt) => window'[m + i].dest_prf = gnt[i]
    <2> SUFFICES ASSUME NEW i \in 1..Len(d)
                 PROVE  /\ window'[m + i].dest_arf = d[i].dest
                        /\ i \in Renamed(d, gnt) => window'[m + i].dest_prf = gnt[i]
        OBVIOUS
    <2>1. window'[m + i] = NewEntry(d, gnt, i)
        BY <1>1
    <2>2. /\ NewEntry(d, gnt, i).dest_arf = d[i].dest
          /\ NewEntry(d, gnt, i).dest_prf = phys_reg_dest(d, gnt, i)
        BY DEF NewEntry
    <2> QED BY <2>1, <2>2 DEF phys_reg_dest
<1>4. InFlight' = {i \in 1..(m + Len(d)) : window'[i].dest_arf # ZERO_REG}
    BY <1>1 DEF InFlight
<1> HIDE DEF m
<1>5. ASSUME NEW i \in InFlight'
      PROVE  \/ i + k \in InFlight /\ window'[i].dest_prf = window[i + k].dest_prf
             \/ i - m \in Renamed(d, gnt) /\ window'[i].dest_prf = gnt[i - m]
    <2>1. CASE i <= m
        <3>1. i \in 1..m /\ i + k \in 1..Len(window)
            BY <2>1, <1>1, <1>4 DEF m
        <3> QED BY <3>1, <1>1, <1>4 DEF InFlight
    <2>2. CASE i > m
        <3>1. i - m \in 1..Len(d) /\ m + (i - m) = i
            BY <2>2, <1>1, <1>4
        <3> QED BY <3>1, <1>2, <1>3, <1>4
    <2> QED BY <2>1, <2>2, <1>1, <1>4
<1>6. ASSUME NEW i \in InFlight \ Writers(k)
      PROVE  i - k \in InFlight' /\ window'[i - k].dest_prf = window[i].dest_prf
    <2>1. i \in 1..Len(window) /\ i > k /\ i - k \in 1..m /\ (i - k) + k = i
        BY <1>1 DEF InFlight, Writers, m
    <2>2. /\ window'[i - k].dest_arf = window[i].dest_arf
          /\ window'[i - k].dest_prf = window[i].dest_prf
        BY <1>1, <2>1
    <2>3. i - k \in 1..(m + Len(d))
        BY <1>1, <2>1
    <2> QED BY <2>2, <2>3, <1>4 DEF InFlight
<1>7. ASSUME NEW i \in Renamed(d, gnt)
      PROVE  m + i \in InFlight' /\ window'[m + i].dest_prf = gnt[i]
    <2>1. i \in 1..Len(d) /\ m + i \in 1..(m + Len(d))
        BY <1>1, <1>2
    <2> QED BY <2>1, <1>2, <1>3, <1>4
<1> QED BY <1>2, <1>5, <1>6, <1>7 DEF m

\* A clock edge that is not a mispredict conserves the registers, provided the
\* group's slots are given distinct free registers.
LEMMA ConservationStep ==
    ASSUME TypeOK, Conservation,
           NEW d \in Groups, NEW gnt \in [1..N -> PRF \cup {NoReg}],
           NEW k \in 0..Len(window), NEW done,
           window' = n_window(d, gnt, k, done), Retire(k),
           free_list' = n_free_list(d, gnt, k),
           \A i \in 1..Len(d) : d[i].dest # ZERO_REG => gnt[i] # NoReg,
           \A i \in Renamed(d, gnt) : gnt[i] \in free_list,
           \A i, j \in Renamed(d, gnt) : gnt[i] = gnt[j] => i = j
    PROVE  Conservation'
<1> DEFINE G == {gnt[i] : i \in Renamed(d, gnt)}
           Rest == {window[i].dest_prf : i \in InFlight \ Writers(k)}
<1>0. SingleOwner /\ free_list = PRF \ (Mapped \cup Pending)
      /\ rrat_free_list = PRF \ Mapped
    BY DEF Conservation
<1> DEFINE m == Len(window) - k
<1>a. \A i \in InFlight' :
        \/ /\ i + k \in InFlight \ Writers(k)
           /\ window'[i].dest_prf = window[i + k].dest_prf
        \/ i - m \in Renamed(d, gnt) /\ window'[i].dest_prf = gnt[i - m]
    <2> SUFFICES ASSUME NEW i \in InFlight'
                 PROVE  \/ /\ i + k \in InFlight \ Writers(k)
                           /\ window'[i].dest_prf = window[i + k].dest_prf
                        \/ i - m \in Renamed(d, gnt) /\ window'[i].dest_prf = gnt[i - m]
        OBVIOUS
    <2>1. \/ i + k \in InFlight /\ window'[i].dest_prf = window[i + k].dest_prf
          \/ i - m \in Renamed(d, gnt) /\ window'[i].dest_prf = gnt[i - m]
        BY InFlightStep
    <2>2. i \in Int /\ i >= 1
        BY DEF InFlight
    <2>3. i + k \notin Writers(k)
        BY <2>2 DEF Writers
    <2> QED BY <2>1, <2>3
<1>b. /\ \A i \in InFlight \ Writers(k) :
            i - k \in InFlight' /\ window'[i - k].dest_prf = window[i].dest_prf
      /\ \A i \in Renamed(d, gnt) :
            m + i \in InFlight' /\ window'[m + i].dest_prf = gnt[i]
    BY InFlightStep
<1> HIDE DEF m
<1>1. Mapped' = n_Mapped(k)
    BY DEF Mapped, n_Mapped, Retire
<1>2. /\ Writers(k) \subseteq InFlight
      /\ free_vector(k) \subseteq Mapped \cup Retiring(k)
      /\ n_Mapped(k) = (Mapped \cup Retiring(k)) \ free_vector(k)
      /\ {window[i].dest_prf : i \in LastWriters(k)} = Retiring(k) \ free_vector(k)
    BY <1>0, RetireMapped
<1>3. Pending' = Rest \cup G
    <2>1. Pending' \subseteq Rest \cup G
        BY <1>a DEF Pending
    <2>2. Rest \subseteq Pending' /\ G \subseteq Pending'
        BY <1>b DEF Pending
    <2> QED BY <2>1, <2>2
<1>4. Pending = Rest \cup Retiring(k) /\ Rest \cap Retiring(k) = {}
    BY <1>0, <1>2 DEF Pending, Retiring, SingleOwner
<1>5. /\ G \cap (Mapped \cup Pending) = {} /\ Rest \cap Mapped = {}
      /\ Retiring(k) \cap Mapped = {}
    BY <1>0, <1>4 DEF SingleOwner
<1>6. Mapped \subseteq PRF /\ Pending \subseteq PRF
    BY OwnersType
<1> HIDE DEF G, Rest
<1>7. free_list' = PRF \ (Mapped' \cup Pending')
    <2>1. free_list' = (free_list \ G) \cup free_vector(k)
        BY DEF n_free_list, G
    <2> QED BY <2>1, <1>0, <1>1, <1>2, <1>3, <1>4, <1>5, <1>6
<1>8. rrat_free_list' = PRF \ Mapped'
    BY <1>1, RetireFree DEF Retire
<1>9. Pending' \cap Mapped' = {}
    BY <1>1, <1>2, <1>3, <1>4, <1>5
<1>10. \A a, b \in rrat_valid' : rrat_entries'[a] = rrat_entries'[b] => a = b
    <2>1. \A a, b \in n_rrat_valid(k) :
            n_rrat_entries(k)[a] = n_rrat_entries(k)[b] => a = b
        BY <1>0, RetireMapped
    <2> QED BY <2>1 DEF Retire
<1>11. ASSUME NEW i \in InFlight', NEW j \in InFlight',
              window'[i].dest_prf = window'[j].dest_prf
       PROVE  i = j
    <2>0. i \in Int /\ j \in Int /\ m \in Int /\ k \in Int
        BY WindowStep DEF InFlight, m
    <2>1. \/ i + k \in InFlight \ Writers(k)
                /\ window'[i].dest_prf = window[i + k].dest_prf
          \/ i - m \in Renamed(d, gnt) /\ window'[i].dest_prf = gnt[i - m]
        BY <1>a
    <2>2. \/ j + k \in InFlight \ Writers(k)
                /\ window'[j].dest_prf = window[j + k].dest_prf
          \/ j - m \in Renamed(d, gnt) /\ window'[j].dest_prf = gnt[j - m]
        BY <1>a
    <2>3. \A r \in Renamed(d, gnt) : \A s \in InFlight : gnt[r] # window[s].dest_prf
        BY <1>0 DEF Pending
    <2>4. CASE i + k \in InFlight /\ j + k \in InFlight
               /\ window'[i].dest_prf = window[i + k].dest_prf
               /\ window'[j].dest_prf = window[j + k].dest_prf
        <3>1. i + k = j + k
            BY <2>4, <1>0, <1>11 DEF SingleOwner
        <3> QED BY <3>1, <2>0
    <2>5. CASE i - m \in Renamed(d, gnt) /\ j - m \in Renamed(d, gnt)
               /\ window'[i].dest_prf = gnt[i - m]
               /\ window'[j].dest_prf = gnt[j - m]
        <3>1. i - m = j - m
            BY <2>5, <1>11
        <3> QED BY <3>1, <2>0
    <2> QED BY <2>1, <2>2, <2>3, <2>4, <2>5, <1>11
<1> QED BY <1>7, <1>8, <1>9, <1>10, <1>11 DEF Conservation, SingleOwner

\* A mispredict leaves the retired mappings as the only owners.
LEMMA ConservationMispredict ==
    ASSUME TypeOK, Conservation, NEW k \in 0..N,
           NEW done \in SUBSET (1..dispatched), NEW x0 \in X0Loads,
           Mispredict(k, done, x0)
    PROVE  Conservation'
<1>1. k \in 0..Len(window)
    BY LenProperties DEF Mispredict, Executed, TypeOK
<1>2. Mapped' = n_Mapped(k)
    BY DEF Mapped, n_Mapped, Mispredict, Retire
<1>3. InFlight' = {} /\ Pending' = {}
    BY DEF Mispredict, Empty, InFlight, Pending
<1>4. free_list' = PRF \ Mapped' /\ rrat_free_list' = PRF \ Mapped'
    BY <1>1, <1>2, RetireFree DEF Mispredict, Retire
<1>5. \A a, b \in rrat_valid' : rrat_entries'[a] = rrat_entries'[b] => a = b
    <2>1. \A a, b \in n_rrat_valid(k) :
            n_rrat_entries(k)[a] = n_rrat_entries(k)[b] => a = b
        BY <1>1, RetireMapped DEF Conservation
    <2> QED BY <2>1 DEF Mispredict, Retire
<1> QED BY <1>3, <1>4, <1>5 DEF Conservation, SingleOwner

\* No physical register is ever lost, owned twice, or free while it is owned.
\* The inductive invariant is TypeOK /\ Conservation: a dispatch keeps it only
\* because it already implies that the free list holds N registers.
THEOREM RegistersConserved == Spec => []Conservation
<1>1. Init => Conservation
    BY DEF Init, Conservation, SingleOwner, Mapped, InFlight, Pending
<1>2. TypeOK /\ Conservation /\ [Next]_vars => Conservation'
    <2> SUFFICES ASSUME TypeOK, Conservation, [Next]_vars PROVE Conservation'
        OBVIOUS
    <2>1. CASE UNCHANGED vars
        <3>1. /\ free_list' = free_list /\ window' = window
              /\ rrat_entries' = rrat_entries /\ rrat_valid' = rrat_valid
              /\ rrat_free_list' = rrat_free_list
            BY <2>1 DEF vars
        <3>2. /\ Mapped' = Mapped /\ InFlight' = InFlight
            BY <3>1 DEF Mapped, InFlight
        <3>3. Pending' = Pending
            BY <3>1, <3>2 DEF Pending
        <3> QED BY <3>1, <3>2, <3>3, Zenon DEF Conservation, SingleOwner
    <2>2. ASSUME NEW k \in 0..N, NEW done \in SUBSET (1..dispatched),
                 NEW x0 \in X0Loads, Stall(k, done, x0)
          PROVE  Conservation'
        <3>1. k \in 0..Len(window)
            BY <2>2, LenProperties DEF Stall, Retires, Executed, TypeOK
        <3>2. Renamed(Empty, NoGrant) = {}
            BY DEF Renamed, NoGrant, Empty
        <3>3. /\ Empty \in Groups /\ Len(Empty) = 0
              /\ NoGrant \in [1..N -> PRF \cup {NoReg}]
            BY GroupTypes
        <3>4. /\ window' = n_window(Empty, NoGrant, k, done) /\ Retire(k)
              /\ free_list' = n_free_list(Empty, NoGrant, k)
            BY <2>2 DEF Stall
        <3> QED BY <3>1, <3>2, <3>3, <3>4, ConservationStep
    <2>3. ASSUME NEW k \in 0..N, NEW done \in SUBSET (1..dispatched),
                 NEW x0 \in X0Loads, NEW d \in Groups, NEW gnt \in Grants,
                 Dispatch(k, done, x0, d, gnt)
          PROVE  Conservation'
        <3>1. k \in 0..Len(window)
            BY <2>3, LenProperties DEF Dispatch, Retires, Executed, TypeOK
        <3>2. gnt \in [1..N -> PRF \cup {NoReg}] /\ Len(d) \in 0..N
            BY <3>1, GroupTypes, WindowStep
        <3>3. /\ \A i \in 1..N : gnt[i] \in free_list
              /\ \A i, j \in 1..N : gnt[i] = gnt[j] => i = j
            BY <2>3, AllGranted DEF Dispatch
        <3>4. Renamed(d, gnt) \subseteq 1..N
            BY <3>2 DEF Renamed, Groups
        <3>5. \A i \in 1..Len(d) : d[i].dest # ZERO_REG => gnt[i] # NoReg
            BY <3>2, <3>3 DEF TypeOK
        <3>6. /\ window' = n_window(d, gnt, k, done) /\ Retire(k)
              /\ free_list' = n_free_list(d, gnt, k)
            BY <2>3 DEF Dispatch
        <3> QED BY <3>1, <3>2, <3>3, <3>4, <3>5, <3>6, ConservationStep
    <2>4. CASE Next
        BY <2>2, <2>3, <2>4, ConservationMispredict DEF Next
    <2> QED BY <2>1, <2>4
<1> QED BY <1>1, <1>2, TypeCorrect, PTL DEF Spec

\* Whenever the ROB lets a group through, the RAT can name a register for each
\* of its slots: the register file is large enough that renaming needs no
\* stall of its own.
THEOREM NeverStarves == Spec => []RenameNeverStarves
<1>1. TypeOK /\ Conservation => RenameNeverStarves
    BY EnoughFree DEF RenameNeverStarves
<1> QED BY <1>1, TypeCorrect, RegistersConserved, PTL

-----------------------------------------------------------------------------
(* Data flow                                                               *)

\* Holds for a given window w and retired table map, so that the states before
\* and after a clock edge can be spoken of together.
WritersIn(w) == {j \in 1..Len(w) : w[j].dest_arf # ZERO_REG}
HoldsIn(w, map, i, a, p) ==
    \/ \E j \in WritersIn(w) :
        /\ j < i /\ w[j].dest_arf = a /\ w[j].dest_prf = p
        /\ \A l \in WritersIn(w) : j < l /\ l < i => w[l].dest_arf # a
    \/ /\ \A j \in WritersIn(w) : j < i => w[j].dest_arf # a
       /\ map[a] = p

DataFlowIn(w, map, rat) ==
    /\ \A i \in 1..Len(w) : HoldsIn(w, map, i, w[i].src_arf, w[i].src_prf)
    /\ \A a \in ARF : HoldsIn(w, map, Len(w) + 1, a, rat[a])

LEMMA DataFlowIs ==
    /\ DataFlow <=> DataFlowIn(window, rrat_entries, rat_entries)
    /\ DataFlow' <=> DataFlowIn(window', rrat_entries', rat_entries')
<1>1. DataFlow <=> DataFlowIn(window, rrat_entries, rat_entries)
    BY Zenon DEF DataFlow, DataFlowIn, HoldsIn, Holds, WritersIn, InFlight
<1>2. DataFlow' <=> DataFlowIn(window', rrat_entries', rat_entries')
    BY Zenon DEF DataFlow, DataFlowIn, HoldsIn, Holds, WritersIn, InFlight
<1> QED BY <1>1, <1>2

\* What a clock edge makes of the window: m entries stay, moved up by k, and n
\* new ones, those of group d, follow them.
Edge(w, m, n, d, gnt, k, done) ==
    /\ Len(window) = m + k /\ Len(w) = m + n
    /\ window \in [1..(m + k) -> Entry] /\ d \in [1..n -> Slots]
    /\ \A i \in 1..m :
        /\ w[i].dest_arf = window[i + k].dest_arf
        /\ w[i].dest_prf = window[i + k].dest_prf
        /\ w[i].src_arf = window[i + k].src_arf
        /\ w[i].src_prf = window[i + k].src_prf
        /\ w[i].executed <=> (window[i + k].executed \/ (i + k) \in done)
    /\ \A x \in 1..n :
        /\ w[m + x].dest_arf = d[x].dest
        /\ w[m + x].dest_prf = phys_reg_dest(d, gnt, x)
        /\ w[m + x].src_arf = d[x].src
        /\ w[m + x].src_prf = phys_reg_src(d, gnt, x)
        /\ w[m + x].executed = d[x].executed

LEMMA WindowEdge ==
    ASSUME TypeOK, NEW d \in Groups, NEW gnt \in [1..N -> PRF \cup {NoReg}],
           NEW k \in 0..Len(window), NEW done
    PROVE  \E m \in Nat, n \in 0..N :
             Edge(n_window(d, gnt, k, done), m, n, d, gnt, k, done)
<1> DEFINE w == n_window(d, gnt, k, done)
<1>1. Len(window) \in Nat /\ Len(d) \in 0..N
    BY WindowStep
<1>2. d \in [1..Len(d) -> Slots] /\ window \in [1..Len(window) -> Entry]
    BY WindowStep
<1>3. Len(w) = Len(window) - k + Len(d)
    BY WindowStep
<1>4. \A i \in 1..(Len(window) - k) :
        /\ w[i].dest_arf = window[i + k].dest_arf
        /\ w[i].dest_prf = window[i + k].dest_prf
        /\ w[i].src_arf = window[i + k].src_arf
        /\ w[i].src_prf = window[i + k].src_prf
    BY WindowStep
<1>5. \A i \in 1..(Len(window) - k) :
        w[i].executed = (window[i + k].executed \/ (i + k) \in done)
    BY WindowStep
<1>6. \A x \in 1..Len(d) : w[Len(window) - k + x] = NewEntry(d, gnt, x)
    BY WindowStep
<1> HIDE DEF w
<1>7. PICK m, n : m = Len(window) - k /\ n = Len(d)
    OBVIOUS
<1>8. m \in Nat /\ n \in 0..N /\ Len(window) = m + k
    BY <1>1, <1>7
<1>9. \A x \in 1..n : w[m + x] = NewEntry(d, gnt, x)
    BY <1>6, <1>7
<1>10. ASSUME NEW x \in 1..n
       PROVE  /\ w[m + x].dest_arf = d[x].dest
              /\ w[m + x].dest_prf = phys_reg_dest(d, gnt, x)
              /\ w[m + x].src_arf = d[x].src
              /\ w[m + x].src_prf = phys_reg_src(d, gnt, x)
              /\ w[m + x].executed = d[x].executed
    <2>1. w[m + x] = NewEntry(d, gnt, x)
        BY <1>9
    <2>2. /\ NewEntry(d, gnt, x).dest_arf = d[x].dest
          /\ NewEntry(d, gnt, x).dest_prf = phys_reg_dest(d, gnt, x)
          /\ NewEntry(d, gnt, x).src_arf = d[x].src
          /\ NewEntry(d, gnt, x).src_prf = phys_reg_src(d, gnt, x)
          /\ NewEntry(d, gnt, x).executed = d[x].executed
        BY DEF NewEntry
    <2> QED BY <2>1, <2>2
<1>11. /\ Len(w) = m + n /\ window \in [1..(m + k) -> Entry] /\ d \in [1..n -> Slots]
    BY <1>2, <1>3, <1>7, <1>8
<1>12. Edge(w, m, n, d, gnt, k, done)
    BY <1>4, <1>5, <1>7, <1>8, <1>10, <1>11 DEF Edge
<1> QED BY <1>8, <1>12 DEF w

\* Retirement of k instructions changes nobody's view: the register that held
\* a for position i holds it for the position i has moved to.
LEMMA HoldsShift ==
    ASSUME TypeOK, NEW d, NEW gnt, NEW k \in Nat, NEW done,
           NEW w, NEW m \in Nat, NEW n \in 0..N, Edge(w, m, n, d, gnt, k, done),
           NEW i \in (k + 1)..(m + k + 1), NEW a \in ARF, NEW p,
           HoldsIn(window, rrat_entries, i, a, p)
    PROVE  HoldsIn(w, n_rrat_entries(k), i - k, a, p)
<1>1. /\ Len(window) = m + k /\ k \in 0..Len(window) /\ n \in Nat
      /\ Len(w) = m + n
    BY DEF Edge
<1>0. \A j \in 1..m : /\ w[j].dest_arf = window[j + k].dest_arf
                      /\ w[j].dest_prf = window[j + k].dest_prf
    BY DEF Edge
<1>2. ASSUME NEW l \in WritersIn(w), l < i - k
      PROVE  /\ l + k \in WritersIn(window) /\ l + k < i /\ l \in Int /\ l >= 1
             /\ w[l].dest_arf = window[l + k].dest_arf
    <2>1. l \in 1..m /\ l + k \in 1..Len(window) /\ l + k < i
        BY <1>1, <1>2 DEF WritersIn
    <2> QED BY <2>1, <1>0 DEF WritersIn
<1>3. \A l : l \in Writers(k) => l \in WritersIn(window) /\ l < i
    BY <1>1 DEF Writers, WritersIn
<1>4. CASE /\ \A j \in WritersIn(window) : j < i => window[j].dest_arf # a
           /\ rrat_entries[a] = p
    <2>2. \A j \in Writers(k) : window[j].dest_arf # a
        BY <1>4, <1>3
    <2>3. n_rrat_entries(k)[a] = p
        BY <1>1, <1>4, <2>2, RetiredEntry
    <2>4. \A j \in WritersIn(w) : j < i - k => w[j].dest_arf # a
        BY <1>2, <1>4
    <2> QED BY <2>3, <2>4 DEF HoldsIn
<1>5. ASSUME NEW j \in WritersIn(window), j < i, window[j].dest_arf = a,
             window[j].dest_prf = p,
             \A l \in WritersIn(window) : j < l /\ l < i => window[l].dest_arf # a
      PROVE  HoldsIn(w, n_rrat_entries(k), i - k, a, p)
    <2>0. j \in 1..Len(window) /\ window[j].dest_arf # ZERO_REG
        BY DEF WritersIn
    <2>1. CASE j <= k
        <3>1. j \in Writers(k)
            BY <2>0, <2>1, <1>1 DEF Writers
        <3>2. j \in LastWriters(k)
            <4> SUFFICES ASSUME NEW l \in Writers(k), window[l].dest_arf = a
                         PROVE  l <= j
                BY <3>1, <1>5 DEF LastWriters
            <4>1. l \in Int
                BY DEF Writers
            <4> QED BY <4>1, <1>3, <1>5, <2>0
        <3>3. n_rrat_entries(k)[a] = p
            BY <1>1, <3>2, <1>5, RetiredEntry
        <3>4. ASSUME NEW l \in WritersIn(w), l < i - k
              PROVE  w[l].dest_arf # a
            <4>1. /\ l + k \in WritersIn(window) /\ l + k < i /\ l \in Int /\ l >= 1
                  /\ w[l].dest_arf = window[l + k].dest_arf
                BY <3>4, <1>2
            <4>2. j < l + k
                BY <4>1, <2>0, <2>1, <1>1
            <4> QED BY <4>1, <4>2, <1>5
        <3> QED BY <3>3, <3>4 DEF HoldsIn
    <2>2. CASE j > k
        <3>1. j - k \in 1..m /\ (j - k) + k = j /\ j - k < i - k
            BY <2>0, <2>2, <1>1, <1>5
        <3>2. w[j - k].dest_arf = a /\ w[j - k].dest_prf = p
            BY <3>1, <1>0, <1>5
        <3>3. j - k \in WritersIn(w)
            BY <3>1, <3>2, <2>0, <1>1, <1>5 DEF WritersIn
        <3>4. ASSUME NEW l \in WritersIn(w), j - k < l, l < i - k
              PROVE  w[l].dest_arf # a
            <4>1. /\ l + k \in WritersIn(window) /\ l + k < i /\ l \in Int
                  /\ w[l].dest_arf = window[l + k].dest_arf
                BY <3>4, <1>2
            <4>2. j < l + k
                BY <4>1, <3>4, <2>0, <1>1
            <4> QED BY <4>1, <4>2, <1>5
        <3> QED BY <3>1, <3>2, <3>3, <3>4 DEF HoldsIn
    <2> QED BY <2>0, <2>1, <2>2, <1>1
<1> QED BY <1>4, <1>5 DEF HoldsIn

\* The slots of a renamed group that do not write a leave its holder alone.
LEMMA HoldsExtend ==
    ASSUME TypeOK, NEW d, NEW gnt, NEW k \in Nat, NEW done,
           NEW w, NEW m \in Nat, NEW n \in 0..N, Edge(w, m, n, d, gnt, k, done), NEW map,
           NEW x \in 1..(n + 1), NEW a \in ARF, NEW p,
           HoldsIn(w, map, m + 1, a, p),
           \A y \in 1..(x - 1) : d[y].dest # a \/ d[y].dest = ZERO_REG
    PROVE  HoldsIn(w, map, m + x, a, p)
<1>1. /\ Len(window) = m + k /\ n \in Nat /\ m \in Nat
      /\ Len(w) = m + n
    BY DEF Edge
<1>0. \A y \in 1..n : w[m + y].dest_arf = d[y].dest
    BY DEF Edge
<1>2. ASSUME NEW l \in WritersIn(w), l < m + x, ~(l < m + 1)
      PROVE  w[l].dest_arf # a
    <2>1. l - m \in 1..(x - 1) /\ l - m \in 1..n /\ m + (l - m) = l
        BY <1>1, <1>2 DEF WritersIn
    <2>2. w[l].dest_arf = d[l - m].dest
        BY <2>1, <1>0
    <2> QED BY <2>1, <2>2 DEF WritersIn
<1>3. \A l \in WritersIn(w) : l \in Int
    BY DEF WritersIn
<1>5. HoldsIn(w, map, m + 1, a, p)
    OBVIOUS
<1>4. \A l \in WritersIn(w) : l < m + 1 => l < m + x
    BY <1>1, <1>3
<1>6. CASE /\ \A j \in WritersIn(w) : j < m + 1 => w[j].dest_arf # a
           /\ map[a] = p
    <2>1. \A j \in WritersIn(w) : j < m + x => w[j].dest_arf # a
        BY <1>6, <1>2
    <2> QED BY <1>6, <2>1 DEF HoldsIn
<1>7. ASSUME NEW j \in WritersIn(w), j < m + 1, w[j].dest_arf = a, w[j].dest_prf = p,
             \A l \in WritersIn(w) : j < l /\ l < m + 1 => w[l].dest_arf # a
      PROVE  HoldsIn(w, map, m + x, a, p)
    <2>1. \A l \in WritersIn(w) : j < l /\ l < m + x => w[l].dest_arf # a
        BY <1>7, <1>2
    <2> QED BY <1>7, <2>1, <1>4 DEF HoldsIn
<1> QED BY <1>5, <1>6, <1>7 DEF HoldsIn

\* The youngest slot before x that writes a register holds it for slot x.
LEMMA HoldsNew ==
    ASSUME TypeOK, NEW d, NEW gnt, NEW k \in Nat, NEW done,
           NEW w, NEW m \in Nat, NEW n \in 0..N, Edge(w, m, n, d, gnt, k, done), NEW map,
           NEW x \in 1..(n + 1), NEW f \in 1..(x - 1),
           f \in Renamed(d, gnt),
           \A y \in 1..(x - 1) : d[y].dest = d[f].dest => y <= f
    PROVE  HoldsIn(w, map, m + x, d[f].dest, gnt[f])
<1>1. /\ Len(window) = m + k /\ n \in Nat /\ m \in Nat
      /\ Len(w) = m + n
    BY DEF Edge
<1>0. \A y \in 1..n : /\ w[m + y].dest_arf = d[y].dest
                           /\ w[m + y].dest_prf = phys_reg_dest(d, gnt, y)
    BY DEF Edge
<1>2. f \in 1..n /\ m + f \in 1..Len(w) /\ m + f < m + x
    BY <1>1
<1>3. /\ w[m + f].dest_arf = d[f].dest /\ w[m + f].dest_prf = gnt[f]
      /\ d[f].dest # ZERO_REG
    BY <1>0, <1>2 DEF phys_reg_dest, Renamed
<1>4. m + f \in WritersIn(w)
    BY <1>2, <1>3 DEF WritersIn
<1>5. ASSUME NEW l \in WritersIn(w), m + f < l, l < m + x
      PROVE  w[l].dest_arf # d[f].dest
    <2>1. l - m \in 1..(x - 1) /\ l - m \in 1..n /\ m + (l - m) = l
          /\ ~(l - m <= f)
        BY <1>1, <1>5 DEF WritersIn
    <2>2. w[l].dest_arf = d[l - m].dest
        BY <2>1, <1>0
    <2> QED BY <2>1, <2>2
<1> QED BY <1>2, <1>3, <1>4, <1>5 DEF HoldsIn

\* One clock edge keeps the data flow of what stays and gives that of what is
\* renamed.
LEMMA DataFlowStep ==
    ASSUME TypeOK, DataFlow, NEW d,
           NEW gnt, NEW k \in Nat, NEW done,
           NEW w, NEW m \in Nat, NEW n \in 0..N, Edge(w, m, n, d, gnt, k, done),
           \A i \in 1..n : d[i].dest # ZERO_REG => gnt[i] # NoReg
    PROVE  DataFlowIn(w, n_rrat_entries(k), n_rat_entries(d, gnt))
<1> DEFINE map == n_rrat_entries(k)
<1>1. /\ Len(window) = m + k /\ k \in 0..Len(window) /\ n \in Nat
      /\ window \in [1..Len(window) -> Entry] /\ d \in [1..n -> Slots]
      /\ Len(w) = m + n
    BY DEF Edge
<1>2. /\ \A i \in 1..m : /\ w[i].src_arf = window[i + k].src_arf
                         /\ w[i].src_prf = window[i + k].src_prf
      /\ \A x \in 1..n : /\ w[m + x].src_arf = d[x].src
                         /\ w[m + x].src_prf = phys_reg_src(d, gnt, x)
    BY DEF Edge
<1>3. /\ \A i \in 1..Len(window) :
            HoldsIn(window, rrat_entries, i, window[i].src_arf, window[i].src_prf)
      /\ \A a \in ARF :
            HoldsIn(window, rrat_entries, Len(window) + 1, a, rat_entries[a])
    BY DataFlowIs DEF DataFlowIn
<1>4. ASSUME NEW a \in ARF, NEW x \in 1..(n + 1),
             \A y \in 1..(x - 1) : d[y].dest # a \/ d[y].dest = ZERO_REG
      PROVE  HoldsIn(w, map, m + x, a, rat_entries[a])
    <2>1. /\ Len(window) + 1 \in (k + 1)..(m + k + 1)
          /\ (Len(window) + 1) - k = m + 1
        BY <1>1
    <2>2. HoldsIn(w, map, (Len(window) + 1) - k, a, rat_entries[a])
        BY <2>1, <1>3, HoldsShift
    <2>3. HoldsIn(w, map, m + 1, a, rat_entries[a])
        BY <2>1, <2>2
    <2> QED BY <2>3, <1>4, HoldsExtend
<1>5. ASSUME NEW i \in 1..m
      PROVE  HoldsIn(w, map, i, w[i].src_arf, w[i].src_prf)
    <2>1. /\ i + k \in 1..Len(window) /\ i + k \in (k + 1)..(m + k + 1)
          /\ (i + k) - k = i
        BY <1>1
    <2>2. window[i + k].src_arf \in ARF
        BY <2>1, <1>1 DEF Entry
    <2>3. HoldsIn(window, rrat_entries, i + k, window[i + k].src_arf, window[i + k].src_prf)
        BY <2>1, <1>3
    <2>4. HoldsIn(w, map, (i + k) - k, window[i + k].src_arf, window[i + k].src_prf)
        BY <2>1, <2>2, <2>3, HoldsShift
    <2> QED BY <2>1, <2>4, <1>2
<1>6. ASSUME NEW x \in 1..n
      PROVE  HoldsIn(w, map, m + x, w[m + x].src_arf, w[m + x].src_prf)
    <2> DEFINE F == Forwarders(d, x)
    <2>1. d[x].src \in ARF /\ x \in 1..(n + 1)
        BY <1>1
    <2>4. CASE F = {}
        <3>1. phys_reg_src(d, gnt, x) = rat_entries[d[x].src]
            BY <2>4 DEF phys_reg_src
        <3>2. \A y \in 1..(x - 1) : d[y].dest # d[x].src \/ d[y].dest = ZERO_REG
            BY <2>4 DEF Forwarders
        <3>3. HoldsIn(w, map, m + x, d[x].src, rat_entries[d[x].src])
            BY <3>2, <2>1, <1>4
        <3> QED BY <3>1, <3>3, <1>2
    <2>5. CASE F # {}
        <3>1. F \in SUBSET (1..(x - 1)) /\ x - 1 \in Int
            BY DEF Forwarders
        <3>2. \E j \in F : \A l \in F : l <= j
            BY <3>1, <2>5, MaxExists
        <3>3. PICK f : f = CHOOSE j \in F : \A l \in F : l <= j
            OBVIOUS
        <3>4. f \in F /\ \A l \in F : l <= f
            BY <3>2, <3>3
        <3>5. f \in 1..(x - 1) /\ d[f].dest # ZERO_REG /\ d[f].dest = d[x].src
              /\ \A y \in 1..(x - 1) : d[y].dest = d[f].dest => y <= f
            BY <3>4 DEF Forwarders
        <3>6. f \in Renamed(d, gnt)
            BY <3>5, <1>1 DEF Renamed
        <3>7. phys_reg_src(d, gnt, x) = gnt[f]
            BY <2>5, <3>3, <3>6 DEF phys_reg_src, phys_reg_dest
        <3>8. HoldsIn(w, map, m + x, d[f].dest, gnt[f])
            BY <3>5, <3>6, <2>1, HoldsNew
        <3> QED BY <3>5, <3>7, <3>8, <1>2
    <2> QED BY <2>4, <2>5
<1>7. ASSUME NEW a \in ARF
      PROVE  HoldsIn(w, map, Len(w) + 1, a, n_rat_entries(d, gnt)[a])
    <2>0. n + 1 \in 1..(n + 1) /\ m + (n + 1) = Len(w) + 1 /\ (n + 1) - 1 = n
        BY <1>1
    <2>1. CASE \E i \in LastRenamed(d, gnt) : d[i].dest = a
        <3>1. PICK f : f = CHOOSE i \in LastRenamed(d, gnt) : d[i].dest = a
            OBVIOUS
        <3>2. f \in LastRenamed(d, gnt) /\ d[f].dest = a
            BY <2>1, <3>1
        <3>3. n_rat_entries(d, gnt)[a] = gnt[f]
            BY <2>1, <3>1 DEF n_rat_entries
        <3>4. f \in 1..n /\ f \in Renamed(d, gnt)
              /\ \A y \in 1..n : y \in Renamed(d, gnt) /\ d[y].dest = d[f].dest => y <= f
            BY <3>2, <1>1 DEF LastRenamed, Renamed
        <3>5. \A y \in 1..n : d[y].dest = d[f].dest => y <= f
            BY <3>4, <1>1 DEF Renamed
        <3>6. HoldsIn(w, map, m + (n + 1), d[f].dest, gnt[f])
            BY <3>4, <3>5, <2>0, HoldsNew
        <3> QED BY <3>2, <3>3, <3>6, <2>0
    <2>2. CASE \A i \in LastRenamed(d, gnt) : d[i].dest # a
        <3>1. n_rat_entries(d, gnt)[a] = rat_entries[a]
            BY <2>2 DEF n_rat_entries
        <3>2. \A y \in 1..n : d[y].dest # a \/ d[y].dest = ZERO_REG
            <4> SUFFICES ASSUME NEW y \in 1..n, d[y].dest = a, a # ZERO_REG
                         PROVE  FALSE
                OBVIOUS
            <4> DEFINE S == {i \in Renamed(d, gnt) : d[i].dest = a}
            <4>1. y \in S
                BY <1>1 DEF Renamed
            <4>2. S \in SUBSET (1..n) /\ n \in Int
                BY <1>1 DEF Renamed
            <4>3. PICK l \in S : \A z \in S : z <= l
                BY <4>1, <4>2, MaxExists
            <4>4. l \in LastRenamed(d, gnt)
                BY <4>3 DEF LastRenamed
            <4> QED BY <4>3, <4>4, <2>2
        <3>3. HoldsIn(w, map, m + (n + 1), a, rat_entries[a])
            BY <3>2, <2>0, <1>4
        <3> QED BY <3>1, <3>3, <2>0
    <2> QED BY <2>1, <2>2
<1>8. ASSUME NEW i \in 1..Len(w)
      PROVE  HoldsIn(w, map, i, w[i].src_arf, w[i].src_prf)
    <2>1. CASE i <= m
        BY <2>1, <1>1, <1>5
    <2>2. CASE ~(i <= m)
        <3>1. \E x \in 1..n : i = m + x
            <4>1. i - m \in 1..n /\ m + (i - m) = i
                BY <2>2, <1>1
            <4> QED BY <4>1
        <3> QED BY <3>1, <1>6
    <2> QED BY <2>1, <2>2
<1> QED BY <1>7, <1>8 DEF DataFlowIn

\* A group that is renamed has a register for each of its results.
LEMMA GroupGranted ==
    ASSUME TypeOK, Conservation, NEW k \in 0..N,
           NEW done \in SUBSET (1..dispatched), NEW x0 \in X0Loads,
           NEW d \in Groups, NEW gnt \in Grants, Dispatch(k, done, x0, d, gnt)
    PROVE  k \in 0..Len(window) /\ gnt \in [1..N -> PRF] /\ free_list # {} /\ Len(d) \in 0..N
<1>1. k \in 0..Len(window)
    BY LenProperties DEF Dispatch, Retires, Executed, TypeOK
<1>2. gnt \in [1..N -> PRF \cup {NoReg}] /\ Len(d) \in 0..N
    BY <1>1, GroupTypes, WindowStep
<1>3. \A i \in 1..N : gnt[i] \in free_list
    BY AllGranted DEF Dispatch
<1>4. gnt \in [1..N -> PRF]
    BY <1>2, <1>3 DEF TypeOK
<1>5. 1 \in 1..N
    BY RenameAssumption
<1> QED BY <1>1, <1>2, <1>3, <1>4, <1>5

LEMMA StallEdge ==
    ASSUME TypeOK, NEW k \in 0..N, NEW done, NEW x0, Stall(k, done, x0)
    PROVE  /\ k \in 0..Len(window)
           /\ \E m \in Nat, n \in 0..N : Edge(window', m, n, Empty, NoGrant, k, done)
           /\ \A n \in Nat : Empty \in [1..n -> Slots] => n = 0
<1>1. k \in 0..Len(window)
    BY LenProperties DEF Stall, Retires, Executed, TypeOK
<1>2. \E m \in Nat, n \in 0..N :
        Edge(n_window(Empty, NoGrant, k, done), m, n, Empty, NoGrant, k, done)
    BY <1>1, GroupTypes, WindowEdge
<1>3. window' = n_window(Empty, NoGrant, k, done)
    BY DEF Stall
<1>4. ASSUME NEW n \in Nat, Empty \in [1..n -> Slots]
      PROVE  n = 0
    <2>1. DOMAIN Empty = {}
        BY DEF Empty
    <2>2. DOMAIN Empty = 1..n
        BY <1>4
    <2> QED BY <2>1, <2>2
<1> QED BY <1>1, <1>2, <1>3, <1>4

\* Every instruction in flight names, until it retires, the register that holds
\* the value program order gives it, and so does the RAT.  A stall renames an
\* empty group, and a dispatch has a register for every result because the
\* registers are conserved.
THEOREM ReadsProgramOrder == Spec => []DataFlow
<1>1. Init => DataFlow
    BY DEF Init, DataFlow, Holds, InFlight
<1>2. TypeOK /\ Conservation /\ DataFlow /\ [Next]_vars => DataFlow'
    <2> SUFFICES ASSUME TypeOK, Conservation, DataFlow, [Next]_vars PROVE DataFlow'
        OBVIOUS
    <2>1. CASE UNCHANGED vars
        <3>1. window' = window /\ rrat_entries' = rrat_entries /\ rat_entries' = rat_entries
            BY <2>1 DEF vars
        <3>2. InFlight' = InFlight
            BY <3>1 DEF InFlight
        <3> QED BY <3>1, <3>2 DEF DataFlow, Holds
    <2>2. ASSUME NEW k \in 0..N, NEW done \in SUBSET (1..dispatched),
                 NEW x0 \in X0Loads, Stall(k, done, x0)
          PROVE  DataFlow'
        <3>1. k \in 0..Len(window)
            BY <2>2, StallEdge
        <3>2. PICK m \in Nat, n \in 0..N : Edge(window', m, n, Empty, NoGrant, k, done)
            BY <2>2, StallEdge
        <3>3. n = 0
            <4>1. Empty \in [1..n -> Slots] /\ n \in Nat
                BY <3>2 DEF Edge
            <4> QED BY <4>1, <2>2, StallEdge
        <3>4. DataFlowIn(window', n_rrat_entries(k), n_rat_entries(Empty, NoGrant))
            BY <3>2, <3>3, DataFlowStep
        <3>5. n_rat_entries(Empty, NoGrant) = rat_entries
            BY DEF n_rat_entries, LastRenamed, Renamed, Empty, TypeOK
        <3>6. rrat_entries' = n_rrat_entries(k) /\ rat_entries' = rat_entries
            BY <2>2 DEF Stall, Retire
        <3> QED BY <3>4, <3>5, <3>6, DataFlowIs
    <2>3. ASSUME NEW k \in 0..N, NEW done \in SUBSET (1..dispatched),
                 NEW x0 \in X0Loads, NEW d \in Groups, NEW gnt \in Grants,
                 Dispatch(k, done, x0, d, gnt)
          PROVE  DataFlow'
        <3>1. /\ k \in 0..Len(window) /\ gnt \in [1..N -> PRF \cup {NoReg}]
              /\ free_list # {}
              /\ \A i \in 1..Len(d) : d[i].dest # ZERO_REG => gnt[i] # NoReg
            <4>1. /\ k \in 0..Len(window) /\ gnt \in [1..N -> PRF] /\ free_list # {}
                  /\ Len(d) \in 0..N
                BY <2>3, GroupGranted
            <4>2. NoReg \notin PRF /\ N \in Nat
                BY RenameAssumption
            <4> QED BY <4>1, <4>2
        <3>2. PICK m \in Nat, n \in 0..N :
                Edge(n_window(d, gnt, k, done), m, n, d, gnt, k, done)
            BY <3>1, WindowEdge
        <3>3. n = Len(d)
            BY <3>2 DEF Edge
        <3>4. DataFlowIn(n_window(d, gnt, k, done), n_rrat_entries(k), n_rat_entries(d, gnt))
            BY <3>1, <3>2, <3>3, DataFlowStep
        <3>5. /\ window' = n_window(d, gnt, k, done)
              /\ rrat_entries' = n_rrat_entries(k)
              /\ rat_entries' = n_rat_entries(d, gnt)
            BY <2>3, <3>1 DEF Dispatch, Retire
        <3> QED BY <3>4, <3>5, DataFlowIs
    <2>4. ASSUME NEW k \in 0..N, NEW done \in SUBSET (1..dispatched),
                 NEW x0 \in X0Loads, Mispredict(k, done, x0)
          PROVE  DataFlow'
        <3>1. Len(window') = 0
            BY <2>4 DEF Mispredict, Empty
        <3>2. rat_entries' = rrat_entries'
            BY <2>4 DEF Mispredict, Retire
        <3> QED BY <3>1, <3>2 DEF DataFlow, Holds, InFlight
    <2>5. CASE Next
        BY <2>2, <2>3, <2>4, <2>5 DEF Next
    <2> QED BY <2>1, <2>5
<1> QED BY <1>1, <1>2, TypeCorrect, RegistersConserved, PTL DEF Spec

-----------------------------------------------------------------------------
(* The ready bits                                                          *)

\* The registers whose value has been produced and can still be read: those
\* retired, and those of the executed writers in flight.
ExecutedRegs(w) == {w[i].dest_prf : i \in {j \in WritersIn(w) : w[j].executed}}
Current == Mapped \cup ExecutedRegs(window)

\* What a load to x0, which broadcasts although it has no destination, may set.
Spurious == IF TRUE \in X0Loads THEN {PRF_0} ELSE {}

\* No ready bit is lost; one is set wrongly only by a load to x0, and then it
\* is that of register 0.
ReadyBounds == Current \subseteq ready /\ ready \subseteq Current \cup Spurious

\* The registers the executing instructions in done write.
Finishing(done) ==
    {window[i].dest_prf : i \in {j \in done : window[j].dest_arf # ZERO_REG}}

LEMMA ExecutedStep ==
    ASSUME TypeOK, SingleOwner, NEW d, NEW gnt, NEW k \in Nat,
           NEW done \in SUBSET (1..Len(window)),
           NEW w, NEW m \in Nat, NEW n \in 0..N, Edge(w, m, n, d, gnt, k, done),
           \A i \in 1..k : window[i].executed,
           \A i \in done : ~window[i].executed
    PROVE  /\ ExecutedRegs(w)
                = (ExecutedRegs(window) \cup Finishing(done)) \ Retiring(k)
           /\ Retiring(k) \subseteq ExecutedRegs(window)
           /\ ExecutedRegs(window) \cup Finishing(done) \subseteq Pending
<1>1. /\ Len(window) = m + k /\ Len(w) = m + n /\ n \in Nat
      /\ InFlight = WritersIn(window)
    BY DEF Edge, InFlight, WritersIn
<1>2. /\ Writers(k) \subseteq WritersIn(window)
      /\ \A i \in Writers(k) : window[i].executed
    BY <1>1 DEF Writers, WritersIn
<1>3. Retiring(k) \subseteq ExecutedRegs(window)
    BY <1>2 DEF Retiring, ExecutedRegs
<1>4. ExecutedRegs(window) \cup Finishing(done) \subseteq Pending
    BY <1>1 DEF ExecutedRegs, Finishing, Pending, WritersIn
<1>5. ASSUME NEW p \in ExecutedRegs(w)
      PROVE  p \in (ExecutedRegs(window) \cup Finishing(done)) \ Retiring(k)
    <2>1. PICK i \in WritersIn(w) : w[i].executed /\ p = w[i].dest_prf
        BY <1>5 DEF ExecutedRegs
    <2>2. i \in 1..(m + n) /\ w[i].dest_arf # ZERO_REG
        BY <1>1 DEF WritersIn
    <2>3. i \in 1..m
        <3>1. CASE ~(i <= m)
            <4>1. i - m \in 1..n /\ m + (i - m) = i
                BY <2>2, <3>1, <1>1
            <4>2. PICK x \in 1..n : i = m + x
                BY <4>1
            <4>3. d[x] \in Slots /\ w[i].dest_arf = d[x].dest /\ w[i].executed = d[x].executed
                BY <4>2 DEF Edge
            <4>4. ~d[x].executed
                BY <2>2, <4>3, SlotAssumption
            <4> QED BY <2>1, <4>3, <4>4
        <3> QED BY <2>2, <3>1
    <2>4. /\ w[i].dest_arf = window[i + k].dest_arf
          /\ w[i].dest_prf = window[i + k].dest_prf
          /\ window[i + k].executed \/ (i + k) \in done
        BY <2>1, <2>3 DEF Edge
    <2>5. i + k \in WritersIn(window) /\ i + k \notin Writers(k)
        BY <2>2, <2>3, <2>4, <1>1 DEF WritersIn, Writers
    <2>6. p = window[i + k].dest_prf
        BY <2>1, <2>4
    <2>7. p \in ExecutedRegs(window) \cup Finishing(done)
        BY <2>4, <2>5, <2>6 DEF ExecutedRegs, Finishing, WritersIn
    <2>8. \A j \in Writers(k) : window[j].dest_prf # p
        BY <2>5, <2>6, <1>1, <1>2 DEF SingleOwner
    <2> QED BY <2>7, <2>8 DEF Retiring
<1>6. ASSUME NEW p \in (ExecutedRegs(window) \cup Finishing(done)) \ Retiring(k)
      PROVE  p \in ExecutedRegs(w)
    <2>1. PICK j \in WritersIn(window) : /\ p = window[j].dest_prf
                                         /\ window[j].executed \/ j \in done
        BY DEF ExecutedRegs, Finishing, WritersIn
    <2>2. j \notin Writers(k)
        BY <2>1 DEF Retiring
    <2>3. j \in 1..(m + k) /\ window[j].dest_arf # ZERO_REG /\ j > k
        BY <2>2, <1>1 DEF WritersIn, Writers
    <2>4. j - k \in 1..m /\ (j - k) + k = j /\ j - k \in 1..(m + n)
        BY <2>3, <1>1
    <2>5. /\ w[j - k].dest_arf = window[j].dest_arf
          /\ w[j - k].dest_prf = window[j].dest_prf
          /\ w[j - k].executed
        BY <2>1, <2>4 DEF Edge
    <2> QED BY <2>1, <2>3, <2>4, <2>5, <1>1 DEF ExecutedRegs, WritersIn
<1> QED BY <1>3, <1>4, <1>5, <1>6

\* The registers set by a broadcast are those of the executing writers and, for
\* a load to x0, register 0.
LEMMA WokenIs ==
    ASSUME NEW done, NEW x0 \in X0Loads
    PROVE  /\ Finishing(done) \subseteq Woken(done, x0)
           /\ Woken(done, x0) \subseteq Finishing(done) \cup Spurious
BY DEF Woken, Finishing, Spurious

\* An edge without a mispredict: what retires leaves the ready bits it frees.
LEMMA ReadyStep ==
    ASSUME TypeOK, Conservation, ReadyBounds, NEW k \in 0..N,
           NEW done \in SUBSET (1..dispatched), NEW x0 \in X0Loads,
           Executed(k), CanComplete(done, x0),
           NEW d, NEW gnt, NEW m \in Nat, NEW n \in 0..N,
           Edge(window', m, n, d, gnt, k, done), Retire(k),
           ready' = (ready \cup Woken(done, x0)) \ free_vector(k)
    PROVE  ReadyBounds'
<1>1. /\ k \in 0..Len(window) /\ done \in SUBSET (1..Len(window))
      /\ \A i \in 1..k : window[i].executed
      /\ \A i \in done : ~window[i].executed
    BY LenProperties DEF Executed, CanComplete, TypeOK
<1>2. SingleOwner /\ Mapped \cap Pending = {}
    BY DEF Conservation, SingleOwner
<1>3. /\ ExecutedRegs(window')
            = (ExecutedRegs(window) \cup Finishing(done)) \ Retiring(k)
      /\ Retiring(k) \subseteq ExecutedRegs(window)
      /\ ExecutedRegs(window) \cup Finishing(done) \subseteq Pending
    <2>1. PICK w : w = window'
        OBVIOUS
    <2>2. Edge(w, m, n, d, gnt, k, done) /\ k \in Nat
        BY <2>1
    <2>3. /\ ExecutedRegs(w) = (ExecutedRegs(window) \cup Finishing(done)) \ Retiring(k)
          /\ Retiring(k) \subseteq ExecutedRegs(window)
          /\ ExecutedRegs(window) \cup Finishing(done) \subseteq Pending
        BY <1>1, <1>2, <2>2, ExecutedStep
    <2> QED BY <2>1, <2>3
<1>4. /\ free_vector(k) \subseteq Mapped \cup Retiring(k)
      /\ n_Mapped(k) = (Mapped \cup Retiring(k)) \ free_vector(k)
    BY <1>1, <1>2, RetireMapped
<1>5. Mapped' = n_Mapped(k)
    BY DEF Mapped, n_Mapped, Retire
<1>6. Current' = Mapped' \cup ExecutedRegs(window')
    BY DEF Current
<1>7. Current' = (Current \cup Finishing(done)) \ free_vector(k)
    BY <1>2, <1>3, <1>4, <1>5, <1>6 DEF Current
<1>8. Current \subseteq ready /\ ready \subseteq Current \cup Spurious
    BY DEF ReadyBounds
<1>9. /\ Finishing(done) \subseteq Woken(done, x0)
      /\ Woken(done, x0) \subseteq Finishing(done) \cup Spurious
    BY WokenIs
<1>10. Spurious' = Spurious
    BY DEF Spurious
<1> QED BY <1>7, <1>8, <1>9, <1>10 DEF ReadyBounds

\* A mispredict leaves exactly the retired registers ready.
LEMMA ReadyMispredict ==
    ASSUME TypeOK, Conservation, ReadyBounds, NEW k \in 0..N,
           NEW done \in SUBSET (1..dispatched), NEW x0 \in X0Loads,
           Mispredict(k, done, x0)
    PROVE  ReadyBounds'
<1>1. /\ k \in 0..Len(window) /\ \A i \in 1..k : window[i].executed
    BY LenProperties DEF Mispredict, Executed, TypeOK
<1>2. SingleOwner
    BY DEF Conservation
<1>3. /\ n_Mapped(k) = (Mapped \cup Retiring(k)) \ free_vector(k)
      /\ Writers(k) \subseteq InFlight
    BY <1>1, <1>2, RetireMapped
<1>4. n_rrat_free_list(k) = PRF \ n_Mapped(k)
    BY <1>1, RetireFree
<1>5. Retiring(k) \subseteq ExecutedRegs(window)
    BY <1>1, <1>3 DEF Retiring, ExecutedRegs, Writers, InFlight, WritersIn
<1>6. n_Mapped(k) \subseteq ready
    BY <1>3, <1>5 DEF ReadyBounds, Current
<1>7. ready \subseteq PRF /\ Woken(done, x0) \subseteq PRF
    BY WokenType DEF TypeOK
<1>8. Mapped' = n_Mapped(k)
    BY DEF Mapped, n_Mapped, Mispredict, Retire
<1>9. ready' = n_Mapped(k)
    BY <1>4, <1>6, <1>7 DEF Mispredict
<1>10. ExecutedRegs(window') = {}
    BY DEF Mispredict, Empty, ExecutedRegs, WritersIn
<1> QED BY <1>8, <1>9, <1>10 DEF ReadyBounds, Current

\* Whatever loads to x0 do, no ready bit is ever lost and only that of
\* register 0 can be set wrongly: a load to x0 never disturbs another register.
THEOREM OnlyZeroDisturbed == Spec => []ReadyBounds
<1>1. Init => ReadyBounds
    BY DEF Init, ReadyBounds, Current, Mapped, ExecutedRegs, WritersIn
<1>2. TypeOK /\ Conservation /\ ReadyBounds /\ [Next]_vars => ReadyBounds'
    <2> SUFFICES ASSUME TypeOK, Conservation, ReadyBounds, [Next]_vars
                 PROVE  ReadyBounds'
        OBVIOUS
    <2>1. CASE UNCHANGED vars
        <3>1. Mapped' = Mapped /\ window' = window /\ ready' = ready /\ Spurious' = Spurious
            BY <2>1 DEF vars, Mapped, Spurious
        <3> QED BY <3>1 DEF ReadyBounds, Current
    <2>2. ASSUME NEW k \in 0..N, NEW done \in SUBSET (1..dispatched),
                 NEW x0 \in X0Loads, Stall(k, done, x0)
          PROVE  ReadyBounds'
        <3>1. PICK m \in Nat, n \in 0..N : Edge(window', m, n, Empty, NoGrant, k, done)
            BY <2>2, StallEdge
        <3>2. /\ Executed(k) /\ CanComplete(done, x0) /\ Retire(k)
              /\ ready' = (ready \cup Woken(done, x0)) \ free_vector(k)
            BY <2>2 DEF Stall, Retires
        <3> QED BY <3>1, <3>2, ReadyStep
    <2>3. ASSUME NEW k \in 0..N, NEW done \in SUBSET (1..dispatched),
                 NEW x0 \in X0Loads, NEW d \in Groups, NEW gnt \in Grants,
                 Dispatch(k, done, x0, d, gnt)
          PROVE  ReadyBounds'
        <3>1. k \in 0..Len(window) /\ gnt \in [1..N -> PRF]
            BY <2>3, GroupGranted
        <3>2. /\ Executed(k) /\ CanComplete(done, x0) /\ Retire(k)
              /\ ready' = (ready \cup Woken(done, x0)) \ free_vector(k)
              /\ window' = n_window(d, gnt, k, done)
            BY <2>3 DEF Dispatch, Retires
        <3>3. PICK m \in Nat, n \in 0..N : Edge(window', m, n, d, gnt, k, done)
            BY <3>1, <3>2, WindowEdge
        <3> QED BY <3>2, <3>3, ReadyStep
    <2>4. CASE Next
        BY <2>2, <2>3, <2>4, ReadyMispredict DEF Next
    <2> QED BY <2>1, <2>4
<1> QED BY <1>1, <1>2, TypeCorrect, RegistersConserved, PTL DEF Spec

\* Without loads to x0 the ready bits are exact: no instruction reads an old
\* value and none waits for ever for a lost bit.
THEOREM ReadyBitsExact ==
    ASSUME X0Loads \subseteq {FALSE}
    PROVE  Spec => []ReadyExact
<1>1. ReadyBounds => ReadyExact
    <2>1. Spurious = {}
        BY DEF Spurious
    <2>2. Current = Mapped \cup {window[i].dest_prf : i \in {j \in InFlight : window[j].executed}}
        BY DEF Current, ExecutedRegs, WritersIn, InFlight
    <2> QED BY <2>1, <2>2 DEF ReadyBounds, ReadyExact
<1> QED BY <1>1, OnlyZeroDisturbed, PTL

-----------------------------------------------------------------------------
(* One instruction more retires                                            *)

\* One instruction more retires, the l-th: it is the last writer of its
\* destination.
LEMMA OneMoreWriter ==
    ASSUME NEW k \in Nat, NEW l, l = k + 1
    PROVE  /\ window[l].dest_arf = ZERO_REG =>
                Writers(l) = Writers(k) /\ LastWriters(l) = LastWriters(k)
           /\ window[l].dest_arf # ZERO_REG =>
                /\ Writers(l) = Writers(k) \cup {l}
                /\ LastWriters(l) = {l} \cup
                     {i \in LastWriters(k) : window[i].dest_arf # window[l].dest_arf}
<1>1. 1..l = (1..k) \cup {l} /\ l \notin 1..k /\ \A i \in 1..k : i \in Int /\ i <= l
    OBVIOUS
<1>2. CASE window[l].dest_arf = ZERO_REG
    <2>1. Writers(l) = Writers(k)
        BY <1>1, <1>2 DEF Writers
    <2> QED BY <1>2, <2>1 DEF LastWriters
<1>3. CASE window[l].dest_arf # ZERO_REG
    <2>1. Writers(l) = Writers(k) \cup {l} /\ Writers(k) \subseteq 1..k
        BY <1>1, <1>3 DEF Writers
    <2>2. \A i \in Writers(k) : i <= l /\ ~(l <= i)
        BY <1>1, <2>1
    <2>3. l \in LastWriters(l)
        BY <1>1, <2>1, <2>2 DEF LastWriters
    <2>4. ASSUME NEW i \in Writers(k)
          PROVE  i \in LastWriters(l) <=>
                    i \in LastWriters(k) /\ window[i].dest_arf # window[l].dest_arf
        BY <2>1, <2>2 DEF LastWriters
    <2>5. LastWriters(l) \subseteq Writers(l) /\ LastWriters(k) \subseteq Writers(k)
        BY DEF LastWriters
    <2>6. LastWriters(l) = {l} \cup
                {i \in LastWriters(k) : window[i].dest_arf # window[l].dest_arf}
        BY <2>1, <2>3, <2>4, <2>5
    <2> QED BY <1>3, <2>1, <2>6
<1> QED BY <1>2, <1>3

\* The mapping its destination loses, if there is one.
Replaced(k, a) == IF a \in n_rrat_valid(k) THEN {n_rrat_entries(k)[a]} ELSE {}

LEMMA OneMoreRetires ==
    ASSUME TypeOK, NEW k \in Nat, NEW l \in 1..Len(window), l = k + 1
    PROVE  /\ window[l].dest_arf = ZERO_REG =>
                /\ n_rrat_entries(l) = n_rrat_entries(k) /\ n_rrat_valid(l) = n_rrat_valid(k)
                /\ free_vector(l) = free_vector(k)
                /\ n_rrat_free_list(l) = n_rrat_free_list(k)
           /\ window[l].dest_arf # ZERO_REG =>
                /\ n_rrat_entries(l) =
                    [n_rrat_entries(k) EXCEPT ![window[l].dest_arf] = window[l].dest_prf]
                /\ n_rrat_valid(l) = n_rrat_valid(k) \cup {window[l].dest_arf}
                /\ free_vector(l) = free_vector(k) \cup Replaced(k, window[l].dest_arf)
<1>0. /\ k \in 0..Len(window) /\ l \in 0..Len(window) /\ window[l] \in Entry
      /\ l \in Nat
    BY LenProperties DEF TypeOK
<1>1. CASE window[l].dest_arf = ZERO_REG
    <2>1. Writers(l) = Writers(k) /\ LastWriters(l) = LastWriters(k)
        BY <1>1, OneMoreWriter
    <2>2. n_rrat_entries(l) = n_rrat_entries(k) /\ n_rrat_valid(l) = n_rrat_valid(k)
        BY <2>1, Zenon DEF n_rrat_entries, n_rrat_valid
    <2>3. free_vector(l) = free_vector(k)
        BY <2>1, Zenon DEF free_vector
    <2>4. n_rrat_free_list(l) = n_rrat_free_list(k)
        BY <2>1, <2>3, Zenon DEF n_rrat_free_list
    <2> QED BY <1>1, <2>2, <2>3, <2>4
<1>2. CASE window[l].dest_arf # ZERO_REG
    <2> DEFINE a == window[l].dest_arf
    <2>1. /\ Writers(l) = Writers(k) \cup {l}
          /\ LastWriters(l) = {l} \cup {i \in LastWriters(k) : window[i].dest_arf # a}
        BY <1>2, OneMoreWriter
    <2>2. a \in ARF
        BY <1>0 DEF Entry
    <2>3. /\ \A i \in LastWriters(l) : n_rrat_entries(l)[window[i].dest_arf] = window[i].dest_prf
          /\ \A b \in ARF : (\A i \in Writers(l) : window[i].dest_arf # b)
                               => n_rrat_entries(l)[b] = rrat_entries[b]
        BY <1>0, RetiredEntry
    <2>4. /\ \A i \in LastWriters(k) : n_rrat_entries(k)[window[i].dest_arf] = window[i].dest_prf
          /\ \A b \in ARF : (\A i \in Writers(k) : window[i].dest_arf # b)
                               => n_rrat_entries(k)[b] = rrat_entries[b]
        BY <1>0, RetiredEntry
    <2>5. \A i \in Writers(k) : \E j \in LastWriters(k) : window[j].dest_arf = window[i].dest_arf
        BY <1>0, LastWriterExists
    <2>6. ASSUME NEW b \in ARF, b # a
          PROVE  n_rrat_entries(l)[b] = n_rrat_entries(k)[b]
        <3>1. CASE \E j \in LastWriters(k) : window[j].dest_arf = b
            BY <2>1, <2>3, <2>4, <2>6, <3>1
        <3>2. CASE ~ \E j \in LastWriters(k) : window[j].dest_arf = b
            BY <2>1, <2>3, <2>4, <2>5, <2>6, <3>2
        <3> QED BY <3>1, <3>2
    <2>7. n_rrat_entries(l)[a] = window[l].dest_prf
        BY <2>1, <2>3
    <2>8. n_rrat_entries(l) = [n_rrat_entries(k) EXCEPT ![a] = window[l].dest_prf]
        <3>1. n_rrat_entries(l) \in [ARF -> PRF] /\ n_rrat_entries(k) \in [ARF -> PRF]
            BY <1>0, RetireType
        <3> QED BY <2>2, <2>6, <2>7, <3>1
    <2>9. n_rrat_valid(l) = n_rrat_valid(k) \cup {a}
        BY <2>1 DEF n_rrat_valid
    <2>10. LastWriters(k) \subseteq Writers(k) /\ l \notin Writers(k)
        BY <1>0 DEF LastWriters, Writers
    <2>11. Writers(l) \ LastWriters(l) = (Writers(k) \ LastWriters(k)) \cup
                {i \in LastWriters(k) : window[i].dest_arf = a}
        BY <2>1, <2>10
    <2>12. {rrat_entries[b] : b \in rrat_valid \cap {window[i].dest_arf : i \in Writers(l)}} =
           {rrat_entries[b] : b \in rrat_valid \cap {window[i].dest_arf : i \in Writers(k)}}
             \cup {rrat_entries[b] : b \in rrat_valid \cap {a}}
        BY <2>1
    <2>13. {window[i].dest_prf : i \in Writers(l) \ LastWriters(l)} =
           {window[i].dest_prf : i \in Writers(k) \ LastWriters(k)}
             \cup {window[i].dest_prf : i \in {j \in LastWriters(k) : window[j].dest_arf = a}}
        BY <2>11
    <2>14. free_vector(l) = free_vector(k) \cup {rrat_entries[b] : b \in rrat_valid \cap {a}}
             \cup {window[i].dest_prf : i \in {j \in LastWriters(k) : window[j].dest_arf = a}}
        BY <2>12, <2>13 DEF free_vector
    <2>15. CASE \E j \in LastWriters(k) : window[j].dest_arf = a
        <3>1. PICK j \in LastWriters(k) : window[j].dest_arf = a
            BY <2>15
        <3>2. {i \in LastWriters(k) : window[i].dest_arf = a} = {j}
            BY <3>1, LastWriterUnique
        <3>3. Replaced(k, a) = {window[j].dest_prf}
            BY <2>4, <2>10, <3>1 DEF Replaced, n_rrat_valid
        <3>4. \A b \in rrat_valid \cap {a} : rrat_entries[b] \in free_vector(k)
            BY <2>10, <3>1 DEF free_vector
        <3>5. {window[i].dest_prf : i \in {x \in LastWriters(k) : window[x].dest_arf = a}}
                = {window[j].dest_prf}
            BY <3>2
        <3> QED BY <2>8, <2>9, <1>2, <2>14, <3>3, <3>4, <3>5
    <2>16. CASE ~ \E j \in LastWriters(k) : window[j].dest_arf = a
        <3>1. \A i \in Writers(k) : window[i].dest_arf # a
            BY <2>5, <2>16
        <3>2. n_rrat_entries(k)[a] = rrat_entries[a] /\ (a \in n_rrat_valid(k) <=> a \in rrat_valid)
            BY <2>2, <2>4, <3>1 DEF n_rrat_valid
        <3>3. {rrat_entries[b] : b \in rrat_valid \cap {a}} = Replaced(k, a)
            BY <3>2 DEF Replaced
        <3>4. {i \in LastWriters(k) : window[i].dest_arf = a} = {}
            BY <2>16
        <3>5. {window[i].dest_prf : i \in {x \in LastWriters(k) : window[x].dest_arf = a}} = {}
            BY <3>4
        <3> QED BY <2>8, <2>9, <1>2, <2>14, <3>3, <3>5
    <2> QED BY <2>15, <2>16
<1> QED BY <1>1, <1>2

-----------------------------------------------------------------------------
(* The loop of rrat.sv                                                     *)

\* The states the loop goes through, k iterations.
LoopStates(k, f) ==
    f = [i \in 0..k |-> IF i = 0 THEN RratBefore ELSE RratIteration(f[i - 1], window[i])]

\* There is only one such sequence, so whichever is at hand gives the result.
LEMMA LoopResult ==
    ASSUME NEW k \in Nat, NEW f, LoopStates(k, f)
    PROVE  RratLoop(k) = f[k]
<1>1. PICK g : g = CHOOSE s : LoopStates(k, s)
    OBVIOUS
<1>2. LoopStates(k, g)
    BY <1>1
<1>3. RratLoop(k) = g[k]
    BY Zenon, <1>1 DEF RratLoop, LoopStates
<1> DEFINE S == {i \in 0..k : f[i] # g[i]}
<1>4. /\ \A i \in 0..k : f[i] = IF i = 0 THEN RratBefore
                                        ELSE RratIteration(f[i - 1], window[i])
      /\ \A i \in 0..k : g[i] = IF i = 0 THEN RratBefore
                                        ELSE RratIteration(g[i - 1], window[i])
    BY <1>2, Zenon DEF LoopStates
<1>5. CASE S # {}
    <2>1. k + 1 \in Nat /\ S \in SUBSET (0..((k + 1) - 1))
        OBVIOUS
    <2>2. PICK i \in S : \A x \in S : i <= x
        BY <1>5, <2>1, MinExists
    <2>3. i # 0
        BY <1>4
    <2>4. i \in 0..k /\ i - 1 \in 0..k /\ ~(i <= i - 1)
        BY <2>3
    <2>5. f[i - 1] = g[i - 1]
        BY <2>2, <2>4
    <2>6. f[i] = g[i]
        BY Zenon, <1>4, <2>3, <2>4, <2>5
    <2> QED BY <2>6
<1>6. CASE S = {}
    <2>1. k \in 0..k
        OBVIOUS
    <2> QED BY <1>3, <1>6, <2>1
<1> QED BY <1>5, <1>6

\* The retired tables when the first i instructions have retired.
TablesAfter(i) == [free |-> free_vector(i), list |-> n_rrat_free_list(i),
                   map |-> n_rrat_entries(i), valid |-> n_rrat_valid(i)]

\* Each iteration retires one instruction more.
LEMMA LoopIteration ==
    ASSUME TypeOK, Conservation, NEW k \in Nat, NEW l \in 1..Len(window), l = k + 1
    PROVE  TablesAfter(l) = RratIteration(TablesAfter(k), window[l])
<1>0. k \in 0..Len(window) /\ l \in 0..Len(window)
    BY LenProperties DEF TypeOK
<1> DEFINE a == window[l].dest_arf
           s == TablesAfter(k)
<1>1. /\ s.free = free_vector(k) /\ s.list = n_rrat_free_list(k)
      /\ s.map = n_rrat_entries(k) /\ s.valid = n_rrat_valid(k)
    BY DEF TablesAfter
<1>2. CASE a = ZERO_REG
    <2>1. TablesAfter(l) = s
        BY <1>2, OneMoreRetires DEF TablesAfter
    <2> QED BY <1>2, <2>1 DEF RratIteration
<1>3. CASE a # ZERO_REG
    <2>1. /\ n_rrat_entries(l) = [n_rrat_entries(k) EXCEPT ![a] = window[l].dest_prf]
          /\ n_rrat_valid(l) = n_rrat_valid(k) \cup {a}
          /\ free_vector(l) = free_vector(k) \cup Replaced(k, a)
        BY <1>3, OneMoreRetires
    <2>2. n_rrat_free_list(l) = (n_rrat_free_list(k) \cup Replaced(k, a)) \ {window[l].dest_prf}
        <3>1. /\ n_rrat_free_list(k) = PRF \ n_Mapped(k)
              /\ n_rrat_free_list(l) = PRF \ n_Mapped(l)
            BY <1>0, RetireFree
        <3>2. /\ n_rrat_entries(k) \in [ARF -> PRF] /\ n_rrat_valid(k) \subseteq ARF
              /\ a \in ARF
            BY <1>0, RetireType, RetiredEntry DEF Entry
        <3>3. /\ \A x, y \in n_rrat_valid(k) :
                    n_rrat_entries(k)[x] = n_rrat_entries(k)[y] => x = y
              /\ \A x, y \in n_rrat_valid(l) :
                    n_rrat_entries(l)[x] = n_rrat_entries(l)[y] => x = y
            BY <1>0, RetireMapped DEF Conservation
        <3>4. n_rrat_entries(l)[a] = window[l].dest_prf
            BY <2>1, <3>2
        <3>5. \A x \in n_rrat_valid(k) : x # a =>
                /\ n_rrat_entries(l)[x] = n_rrat_entries(k)[x]
                /\ n_rrat_entries(k)[x] # window[l].dest_prf
                /\ n_rrat_entries(k)[x] \notin Replaced(k, a)
            BY <2>1, <3>2, <3>3, <3>4 DEF Replaced
        <3>6. n_Mapped(l) = (n_Mapped(k) \ Replaced(k, a)) \cup {window[l].dest_prf}
            <4>1. ASSUME NEW p \in n_Mapped(l)
                  PROVE  p \in (n_Mapped(k) \ Replaced(k, a)) \cup {window[l].dest_prf}
                <5>1. PICK x \in n_rrat_valid(l) : p = n_rrat_entries(l)[x]
                    BY DEF n_Mapped
                <5>2. CASE x = a
                    BY <3>4, <5>1, <5>2
                <5>3. CASE x # a
                    BY <2>1, <3>5, <5>1, <5>3 DEF n_Mapped
                <5> QED BY <5>2, <5>3
            <4>2. ASSUME NEW p \in n_Mapped(k), p \notin Replaced(k, a)
                  PROVE  p \in n_Mapped(l)
                <5>1. PICK x \in n_rrat_valid(k) : p = n_rrat_entries(k)[x]
                    BY DEF n_Mapped
                <5>2. x # a
                    BY <4>2, <5>1 DEF Replaced
                <5> QED BY <2>1, <3>5, <5>1, <5>2 DEF n_Mapped
            <4>3. window[l].dest_prf \in n_Mapped(l)
                BY <2>1, <3>4 DEF n_Mapped
            <4> QED BY <4>1, <4>2, <4>3
        <3>7. Replaced(k, a) \subseteq PRF
            BY <3>2 DEF Replaced
        <3> QED BY <3>1, <3>6, <3>7
    <2>3. RratIteration(s, window[l]) =
            [free  |-> s.free \cup Replaced(k, a),
             list  |-> (s.list \cup Replaced(k, a)) \ {window[l].dest_prf},
             map   |-> [s.map EXCEPT ![a] = window[l].dest_prf],
             valid |-> s.valid \cup {a}]
        BY <1>1, <1>3 DEF RratIteration, Replaced
    <2> QED BY <1>1, <2>1, <2>2, <2>3 DEF TablesAfter
<1> QED BY <1>2, <1>3

\* What the loop over the commit slots computes, one slot after the other and
\* each from the tables the one before has left, is what the set-valued
\* definitions say, however many instructions retire and whatever they write.
THEOREM RetireLoopCorrect == Spec => []RetireLoopAgrees
<1>1. TypeOK /\ Conservation => RetireLoopAgrees
    <2> SUFFICES ASSUME TypeOK, Conservation, NEW k \in 0..N, Executed(k)
                 PROVE  RratLoop(k) = TablesAfter(k)
        BY DEF RetireLoopAgrees, TablesAfter
    <2>1. k \in Nat /\ k <= Len(window) /\ Len(window) \in Nat
        BY LenProperties DEF Executed, TypeOK
    <2> DEFINE f == [i \in 0..k |-> TablesAfter(i)]
    <2>2. TablesAfter(0) = RratBefore
        <3>1. Writers(0) = {} /\ LastWriters(0) = {}
            BY DEF Writers, LastWriters
        <3>2. free_vector(0) = {}
            BY <3>1 DEF free_vector
        <3>3. n_rrat_entries(0) = rrat_entries
            BY <3>1 DEF n_rrat_entries, TypeOK
        <3>4. n_rrat_valid(0) = rrat_valid
            BY <3>1 DEF n_rrat_valid
        <3>5. n_rrat_free_list(0) = rrat_free_list
            BY <3>1, <3>2 DEF n_rrat_free_list
        <3> QED BY <3>2, <3>3, <3>4, <3>5 DEF TablesAfter, RratBefore
    <2>3. ASSUME NEW i \in 0..k
          PROVE  f[i] = IF i = 0 THEN RratBefore ELSE RratIteration(f[i - 1], window[i])
        <3>1. CASE i = 0
            BY <2>2, <3>1
        <3>2. CASE i # 0
            <4>1. i \in 1..Len(window) /\ i - 1 \in 0..k /\ i - 1 \in Nat /\ i = (i - 1) + 1
                BY <2>1, <3>2
            <4>2. TablesAfter(i) = RratIteration(TablesAfter(i - 1), window[i])
                BY <4>1, LoopIteration
            <4> QED BY <3>2, <4>1, <4>2
        <3> QED BY <3>1, <3>2
    <2>4. f = [i \in 0..k |-> f[i]] /\ f[k] = TablesAfter(k)
        BY <2>1
    <2> HIDE DEF f
    <2>5. LoopStates(k, f)
        BY Zenon, <2>3, <2>4 DEF LoopStates
    <2> QED BY <2>1, <2>4, <2>5, LoopResult
<1> QED BY <1>1, TypeCorrect, RegistersConserved, PTL

-----------------------------------------------------------------------------
(* Wakeup.                                                                 *)
(*                                                                         *)
(* Wakeup supplies the broadcasts that Rename leaves open: the way of an   *)
(* instruction from rename to the common data bus.  It is shown to         *)
(* implement Rename, so that what is proved above of the registers, of the *)
(* data flow and of the ready bits holds of it too.  That no wakeup is     *)
(* lost rests on all three; that the values the pipeline computes are      *)
(* those of the program run one instruction after the other rests on the   *)
(* wakeups, and on the tables the retiring writers leave.                  *)

CONSTANTS RS_NUM_ENTRIES, Units, FuncUnit, MULT_STAGES  \* see Wakeup
VARIABLES ops, prf, mult, rob_commit                    \* see Wakeup

W == INSTANCE Wakeup

-----------------------------------------------------------------------------
(* The half of Wakeup that is Rename                                       *)

\* The instances count as everybody does.
LEMMA SameCount ==
    ASSUME NEW S
    PROVE  W!R!Cardinality(S) = Cardinality(S) /\ W!Cardinality(S) = Cardinality(S)
<1>1. W!R!Cardinality(S) = Cardinality(S)
    BY DEF W!R!Cardinality, Cardinality
<1>2. W!Cardinality(S) = Cardinality(S)
    BY DEF W!Cardinality, Cardinality
<1> QED BY <1>1, <1>2

LEMMA SameRetire ==
    ASSUME NEW k
    PROVE  /\ W!R!Retires(k) <=> Retires(k)
           /\ W!R!Executed(k) <=> Executed(k)
           /\ W!R!Retire(k) <=> Retire(k)
           /\ W!R!free_vector(k) = free_vector(k)
           /\ W!R!n_rrat_entries(k) = n_rrat_entries(k)
           /\ W!R!n_rrat_free_list(k) = n_rrat_free_list(k)
<1>1. W!R!Executed(k) <=> Executed(k)
    BY Zenon DEF W!R!Executed, Executed
<1>2. W!R!Retires(k) <=> Retires(k)
    BY Zenon, <1>1 DEF W!R!Retires, Retires
<1>3. W!R!Writers(k) = Writers(k) /\ W!R!LastWriters(k) = LastWriters(k)
    BY Zenon DEF W!R!Writers, Writers, W!R!LastWriters, LastWriters
<1>4. W!R!free_vector(k) = free_vector(k)
    BY Zenon DEF W!R!free_vector, free_vector, W!R!Writers, Writers,
                 W!R!LastWriters, LastWriters
<1>5. /\ W!R!n_rrat_entries(k) = n_rrat_entries(k)
      /\ W!R!n_rrat_valid(k) = n_rrat_valid(k)
      /\ W!R!n_rrat_free_list(k) = n_rrat_free_list(k)
    BY Zenon, <1>4 DEF W!R!n_rrat_entries, n_rrat_entries, W!R!n_rrat_valid, n_rrat_valid,
                 W!R!n_rrat_free_list, n_rrat_free_list, W!R!free_vector, free_vector,
                 W!R!Writers, Writers, W!R!LastWriters, LastWriters
<1>6. W!R!Retire(k) <=> Retire(k)
    BY Zenon, <1>5 DEF W!R!Retire, Retire
<1> QED BY <1>1, <1>2, <1>4, <1>5, <1>6

LEMMA SameBroadcast ==
    ASSUME NEW done
    PROVE  /\ W!R!CanComplete(done, FALSE) <=> CanComplete(done, FALSE)
           /\ W!R!Woken(done, FALSE) = Woken(done, FALSE)
<1>1. W!R!CanComplete(done, FALSE) <=> CanComplete(done, FALSE)
    BY SameCount DEF W!R!CanComplete, CanComplete
<1>2. W!R!Woken(done, FALSE) = Woken(done, FALSE)
    BY Zenon DEF W!R!Woken, Woken
<1> QED BY <1>1, <1>2

LEMMA SameRenaming ==
    ASSUME NEW d, NEW gnt, NEW k, NEW done
    PROVE  /\ W!R!n_rat_entries(d, gnt) = n_rat_entries(d, gnt)
           /\ W!R!n_free_list(d, gnt, k) = n_free_list(d, gnt, k)
           /\ W!R!n_window(d, gnt, k, done) = n_window(d, gnt, k, done)
<1>1. W!R!n_rat_entries(d, gnt) = n_rat_entries(d, gnt)
    BY Zenon DEF W!R!n_rat_entries, n_rat_entries, W!R!LastRenamed, LastRenamed,
                 W!R!Renamed, Renamed
<1>2. W!R!n_free_list(d, gnt, k) = n_free_list(d, gnt, k)
    BY Zenon DEF W!R!n_free_list, n_free_list, W!R!Renamed, Renamed,
                 W!R!free_vector, free_vector, W!R!Writers, Writers,
                 W!R!LastWriters, LastWriters
<1>3. W!R!n_window(d, gnt, k, done) = n_window(d, gnt, k, done)
    BY Zenon DEF W!R!n_window, n_window, W!R!NewEntry, NewEntry,
                 W!R!phys_reg_src, phys_reg_src, W!R!phys_reg_dest, phys_reg_dest,
                 W!R!Forwarders, Forwarders, W!R!Renamed, Renamed
<1> QED BY <1>1, <1>2, <1>3

\* The steps of the instance are those of Rename.
LEMMA SameSteps ==
    ASSUME NEW k, NEW done, NEW d, NEW gnt
    PROVE  /\ W!R!Stall(k, done, FALSE) <=> Stall(k, done, FALSE)
           /\ W!R!Dispatch(k, done, FALSE, d, gnt) <=> Dispatch(k, done, FALSE, d, gnt)
           /\ W!R!Mispredict(k, done, FALSE) <=> Mispredict(k, done, FALSE)
<1>0. W!R!Empty = Empty /\ W!R!NoGrant = NoGrant /\ (W!R!rob_full <=> rob_full)
    BY Zenon DEF W!R!Empty, Empty, W!R!NoGrant, NoGrant, W!R!rob_full, rob_full
<1>1. W!R!Stall(k, done, FALSE) <=> Stall(k, done, FALSE)
    BY Zenon, <1>0, SameRetire, SameBroadcast, SameRenaming DEF W!R!Stall, Stall
<1>2. W!R!Dispatch(k, done, FALSE, d, gnt) <=> Dispatch(k, done, FALSE, d, gnt)
    BY Zenon, <1>0, SameRetire, SameBroadcast, SameRenaming DEF W!R!Dispatch, Dispatch
<1>3. W!R!Mispredict(k, done, FALSE) <=> Mispredict(k, done, FALSE)
    BY Zenon, <1>0, SameRetire, SameBroadcast, SameRenaming DEF W!R!Mispredict, Mispredict
<1> QED BY <1>1, <1>2, <1>3

LEMMA SameGroup ==
    ASSUME NEW d, NEW gnt, NEW i
    PROVE  /\ W!R!Groups = Groups /\ W!R!Grants = Grants
           /\ W!R!phys_reg_src(d, gnt, i) = phys_reg_src(d, gnt, i)
<1>0. W!R!Groups = Groups
    BY DEF W!R!Groups, Groups
<1>1. W!R!Grants = Grants
    BY Zenon DEF W!R!Grants, Grants, W!R!Cardinality, Cardinality
<1>2. W!R!phys_reg_src(d, gnt, i) = phys_reg_src(d, gnt, i)
    BY Zenon DEF W!R!phys_reg_src, phys_reg_src, W!R!phys_reg_dest, phys_reg_dest,
                 W!R!Forwarders, Forwarders, W!R!Renamed, Renamed
<1> QED BY <1>0, <1>1, <1>2

\* A grant of which only the used part is kept renames as the whole grant does.
Masked(d, g) ==
    [i \in 1..N |-> IF i \in DOMAIN d /\ d[i].dest # ZERO_REG THEN g[i] ELSE NoReg]

LEMMA MaskedRenames ==
    ASSUME NEW k, NEW done, NEW d \in Groups, NEW g \in Grants,
           Dispatch(k, done, FALSE, d, Masked(d, g))
    PROVE  Dispatch(k, done, FALSE, d, g)
<1> DEFINE h == Masked(d, g)
<1>1. PICK n \in 0..N : d \in [1..n -> Slots]
    BY DEF Groups
<1>2. g \in [1..N -> PRF \cup {NoReg}]
    BY GroupTypes
<1>3. ASSUME NEW i \in DOMAIN d
      PROVE  i \in 1..N /\ (d[i].dest # ZERO_REG => h[i] = g[i])
    <2>1. i \in 1..N
        BY <1>1
    <2> QED BY <2>1 DEF Masked
<1> HIDE DEF h
<1>4. Renamed(d, h) = Renamed(d, g) /\ \A i \in Renamed(d, g) : h[i] = g[i]
    BY <1>3 DEF Renamed
<1>5. \A i : phys_reg_dest(d, h, i) = phys_reg_dest(d, g, i)
    BY <1>4 DEF phys_reg_dest
<1>6. \A i : phys_reg_src(d, h, i) = phys_reg_src(d, g, i)
    BY <1>5 DEF phys_reg_src
<1>7. LastRenamed(d, h) = LastRenamed(d, g)
    BY <1>4 DEF LastRenamed
<1>8. n_rat_entries(d, h) = n_rat_entries(d, g)
    <2>1. ASSUME NEW a \in ARF
          PROVE  n_rat_entries(d, h)[a] = n_rat_entries(d, g)[a]
        <3>1. CASE \E i \in LastRenamed(d, g) : d[i].dest = a
            <4>1. PICK c : c = CHOOSE i \in LastRenamed(d, g) : d[i].dest = a
                OBVIOUS
            <4>2. c \in Renamed(d, g)
                BY <3>1, <4>1 DEF LastRenamed
            <4>3. n_rat_entries(d, h)[a] = h[c] /\ n_rat_entries(d, g)[a] = g[c]
                BY <1>7, <3>1, <4>1 DEF n_rat_entries
            <4> QED BY <1>4, <4>2, <4>3
        <3>2. CASE ~ \E i \in LastRenamed(d, g) : d[i].dest = a
            BY <1>7, <3>2 DEF n_rat_entries
        <3> QED BY <3>1, <3>2
    <2> QED BY <2>1 DEF n_rat_entries
<1>9. n_free_list(d, h, k) = n_free_list(d, g, k)
    <2>1. {h[i] : i \in Renamed(d, h)} = {g[i] : i \in Renamed(d, g)}
        BY <1>4
    <2> QED BY <2>1 DEF n_free_list
<1>10. n_window(d, h, k, done) = n_window(d, g, k, done)
    <2>1. \A i : NewEntry(d, h, i) = NewEntry(d, g, i)
        BY <1>5, <1>6 DEF NewEntry
    <2> QED BY <2>1 DEF n_window
<1> QED BY <1>8, <1>9, <1>10 DEF Dispatch, h

-----------------------------------------------------------------------------
(* Where the instructions are                                              *)

Op == [at : W!Places, fu : W!FuncUnitTypes, ready : BOOLEAN, value : W!Bit]

InOf(o, place) == {i \in 1..Len(o) : o[i].at = place}

\* Placement of operations o beside window w of which the first m are in the ROB.
PlacementOf(o, w, m) ==
    /\ Cardinality(InOf(o, "RS")) <= RS_NUM_ENTRIES
    /\ \A i, j \in 1..Len(o) : o[i].at \in Units /\ o[i].at = o[j].at => i = j
    /\ \A i \in 1..Len(o) :
        /\ i > m <=> o[i].at = "ID_EX"
        /\ w[i].executed <=> o[i].at = "CDB"
        /\ o[i].at \in Units => o[i].ready /\ FuncUnit[o[i].at] = o[i].fu

LEMMA InFinite ==
    ASSUME NEW o, Len(o) \in Nat, NEW place
    PROVE  IsFiniteSet(InOf(o, place))
<1>1. 1 \in Int /\ Len(o) \in Int
    OBVIOUS
<1>2. IsFiniteSet(1..Len(o))
    BY <1>1, FS_Interval
<1> QED BY <1>2, FS_Subset DEF InOf

LEMMA PlacementIs ==
    /\ Len(ops) \in Nat => (W!Placement <=> PlacementOf(ops, window, dispatched))
    /\ Len(ops') \in Nat => (W!Placement' <=> PlacementOf(ops', window', dispatched'))
<1>1. ASSUME NEW o, Len(o) \in Nat
      PROVE  (\A u \in Units : Cardinality(InOf(o, u)) <= 1)
                <=> \A i, j \in 1..Len(o) : o[i].at \in Units /\ o[i].at = o[j].at => i = j
    <2>1. \A u \in Units : Cardinality(InOf(o, u)) <= 1
                            <=> \A i, j \in InOf(o, u) : i = j
        BY <1>1, InFinite, AtMostOne
    <2>2. ASSUME \A u \in Units : \A i, j \in InOf(o, u) : i = j
          PROVE  \A i, j \in 1..Len(o) : o[i].at \in Units /\ o[i].at = o[j].at => i = j
        BY <2>2 DEF InOf
    <2>3. ASSUME \A i, j \in 1..Len(o) : o[i].at \in Units /\ o[i].at = o[j].at => i = j
          PROVE  \A u \in Units : \A i, j \in InOf(o, u) : i = j
        BY <2>3 DEF InOf
    <2> QED BY <2>1, <2>2, <2>3
<1>2. \A place : W!In(place) = InOf(ops, place) /\ W!In(place)' = InOf(ops', place)
    BY DEF W!In, InOf
<1>3. W!Placement <=>
        /\ Cardinality(InOf(ops, "RS")) <= RS_NUM_ENTRIES
        /\ \A u \in Units : Cardinality(InOf(ops, u)) <= 1
        /\ \A i \in 1..Len(ops) :
            /\ i > dispatched <=> ops[i].at = "ID_EX"
            /\ window[i].executed <=> ops[i].at = "CDB"
            /\ ops[i].at \in Units => ops[i].ready /\ FuncUnit[ops[i].at] = ops[i].fu
    BY <1>2, SameCount DEF W!Placement
<1>4. W!Placement' <=>
        /\ Cardinality(InOf(ops', "RS")) <= RS_NUM_ENTRIES
        /\ \A u \in Units : Cardinality(InOf(ops', u)) <= 1
        /\ \A i \in 1..Len(ops') :
            /\ i > dispatched' <=> ops'[i].at = "ID_EX"
            /\ window'[i].executed <=> ops'[i].at = "CDB"
            /\ ops'[i].at \in Units => ops'[i].ready /\ FuncUnit[ops'[i].at] = ops'[i].fu
    BY <1>2, SameCount DEF W!Placement
<1> QED BY <1>1, <1>3, <1>4 DEF PlacementOf

-----------------------------------------------------------------------------
(* The parts of a clock edge                                               *)

WakeupInv == TypeOK /\ W!TypeOK /\ W!Placement

LEMMA OpsFields ==
    ASSUME WakeupInv, W!WakeupAssumption
    PROVE  /\ Len(ops) \in Nat /\ Len(ops) = Len(window)
           /\ ops \in [1..Len(ops) -> Op] /\ ops \in Seq(Op)
           /\ \A i \in 1..Len(ops) : ops[i] \in Op /\ ops[i].at \in W!Places
           /\ PlacementOf(ops, window, dispatched)
           /\ "ID_EX" \notin Units /\ "RS" \notin Units /\ "CDB" \notin Units
           /\ dispatched \in Nat /\ dispatched <= Len(ops)
           /\ Len(ops) <= dispatched + N
<1>1. ops \in Seq(Op) /\ Len(ops) = Len(window)
    BY DEF WakeupInv, W!TypeOK, Op
<1>2. Len(ops) \in Nat /\ ops \in [1..Len(ops) -> Op]
    BY <1>1, LenProperties
<1>3. PlacementOf(ops, window, dispatched)
    BY <1>2, PlacementIs DEF WakeupInv
<1>4. /\ dispatched \in Nat /\ dispatched <= Len(ops)
      /\ Len(ops) <= dispatched + N
    BY <1>1, <1>2 DEF WakeupInv, TypeOK
<1>5. \A i \in 1..Len(ops) : ops[i] \in Op
    BY <1>2
<1>6. \A x \in Op : x.at \in W!Places
    BY DEF Op
<1>7. "ID_EX" \notin Units /\ "RS" \notin Units /\ "CDB" \notin Units
    BY DEF W!WakeupAssumption
<1> QED BY <1>1, <1>2, <1>3, <1>4, <1>5, <1>6, <1>7

\* A unit whose result is taken works on one instruction.
LEMMA SelectedUnit ==
    ASSUME WakeupInv, W!WakeupAssumption, NEW sel \in W!Selections, NEW u \in sel
    PROVE  /\ u \in Units
           /\ W!Holder(u) \in 1..Len(ops) /\ ops[W!Holder(u)].at = u
           /\ \A i \in 1..Len(ops) : ops[i].at = u => i = W!Holder(u)
<1>1. u \in Units /\ W!In(u) # {}
    BY DEF W!Selections, W!output_ready, W!Busy
<1>2. W!Holder(u) \in W!In(u)
    BY <1>1 DEF W!Holder
<1>3. W!Holder(u) \in 1..Len(ops) /\ ops[W!Holder(u)].at = u
    BY <1>2 DEF W!In
<1> QED BY <1>1, <1>3, OpsFields DEF PlacementOf

\* The instructions that complete are those in the units taken.
LEMMA Completed ==
    ASSUME WakeupInv, W!WakeupAssumption, NEW sel \in W!Selections,
           NEW i \in 1..Len(ops)
    PROVE  i \in W!Completing(sel) <=> ops[i].at \in sel
BY SelectedUnit DEF W!Completing

\* Only what is in the ROB completes.
LEMMA CompletingType ==
    ASSUME WakeupInv, W!WakeupAssumption, NEW sel \in W!Selections
    PROVE  W!Completing(sel) \in SUBSET (1..dispatched)
<1> SUFFICES ASSUME NEW u \in sel
             PROVE  W!Holder(u) \in 1..dispatched
    BY DEF W!Completing
<1>1. W!Holder(u) \in 1..Len(ops) /\ ops[W!Holder(u)].at = u /\ u \in Units
    BY SelectedUnit
<1>2. ~(W!Holder(u) > dispatched)
    BY <1>1, OpsFields DEF PlacementOf
<1> QED BY <1>1, <1>2, OpsFields

LEMMA IssuedTo ==
    ASSUME NEW sel, NEW issue \in W!Issues(sel), NEW u \in W!Issuing(issue)
    PROVE  /\ u \in Units /\ issue[u] \in 1..Len(ops)
           /\ ops[issue[u]].at = "RS" /\ ops[issue[u]].ready
           /\ ops[issue[u]].fu = FuncUnit[u]
           /\ W!In(u) = {} \/ u \in sel
BY DEF W!Issues, W!Issuing, W!avail_func_units, W!rs_ready, W!In, W!Busy

\* Values on the buses are bits.
LEMMA CdbType ==
    ASSUME WakeupInv, W!WakeupAssumption, NEW sel \in W!Selections
    PROVE  \A p \in DOMAIN W!Cdb(sel) : W!Cdb(sel)[p] \in W!Bit
<1>1. ASSUME NEW u \in sel
      PROVE  W!Result(u) \in W!Bit
    <2>1. ops[W!Holder(u)].value \in W!Bit
        <3>1. ops[W!Holder(u)] \in Op
            BY SelectedUnit, OpsFields
        <3> QED BY <3>1 DEF Op
    <2>2. u \in W!Mults => mult[u].data[MULT_STAGES] \in W!Bit
        <3>1. MULT_STAGES \in W!Stages
            BY DEF W!WakeupAssumption, W!Stages
        <3>2. mult \in [W!Mults -> [operand : W!Bit, m_reset : BOOLEAN, valid : BOOLEAN,
                            done : [W!Stages -> BOOLEAN], data : [W!Stages -> W!Bit]]]
            BY DEF WakeupInv, W!TypeOK
        <3>3. u \in W!Mults => mult[u].data \in [W!Stages -> W!Bit]
            BY <3>2
        <3> QED BY <3>1, <3>3
    <2> QED BY <2>1, <2>2 DEF W!Result, W!Complement, W!Bit
<1>2. ASSUME NEW p \in DOMAIN W!Cdb(sel)
      PROVE  W!Cdb(sel)[p] \in W!Bit
    <2>1. \E u \in W!value_valid(sel) : W!dest_prf(u) = p
        BY DEF W!Cdb
    <2>2. PICK u : u = CHOOSE v \in W!value_valid(sel) : W!dest_prf(v) = p
        OBVIOUS
    <2>3. u \in sel
        BY <2>1, <2>2 DEF W!value_valid
    <2>4. W!Cdb(sel)[p] = W!Result(u)
        BY <2>2 DEF W!Cdb
    <2> QED BY <1>1, <2>3, <2>4
<1> QED BY <1>2

LEMMA SnoopFields ==
    ASSUME NEW op \in Op, NEW p, NEW cdb, \A q \in DOMAIN cdb : cdb[q] \in W!Bit
    PROVE  /\ W!Snoop(op, p, cdb) \in Op
           /\ W!Snoop(op, p, cdb).at = op.at /\ W!Snoop(op, p, cdb).fu = op.fu
           /\ W!Snoop(op, p, cdb).ready <=> (op.ready \/ p \in DOMAIN cdb)
<1>1. CASE ~op.ready /\ p \in DOMAIN cdb
    <2>1. W!Snoop(op, p, cdb) = [op EXCEPT !.ready = TRUE, !.value = cdb[p]]
        BY <1>1 DEF W!Snoop
    <2> QED BY <1>1, <2>1 DEF Op
<1>2. CASE ~(~op.ready /\ p \in DOMAIN cdb)
    <2>1. W!Snoop(op, p, cdb) = op
        BY <1>2 DEF W!Snoop
    <2> QED BY <1>2, <2>1
<1> QED BY <1>1, <1>2

\* Moved, given the operation as it has snooped the bus.
MovedOf(op, i, sel, issue, stall) ==
    CASE op.at = "ID_EX" -> IF stall THEN op ELSE [op EXCEPT !.at = "RS"]
      [] op.at = "RS" ->
           IF \E u \in W!Issuing(issue) : issue[u] = i
           THEN [op EXCEPT !.at = CHOOSE u \in W!Issuing(issue) : issue[u] = i]
           ELSE op
      [] op.at \in sel -> W!Finished
      [] OTHER -> op

LEMMA MovedIs ==
    ASSUME NEW i, NEW sel, NEW cdb, NEW issue, NEW stall
    PROVE  W!Moved(i, sel, cdb, issue, stall)
            = MovedOf(W!Snoop(ops[i], window[i].src_prf, cdb), i, sel, issue, stall)
BY Zenon DEF W!Moved, MovedOf

\* What becomes of an instruction of the window: it enters the stations, is
\* issued, stays, or has its result taken.
LEMMA MovedFields ==
    ASSUME WakeupInv, W!WakeupAssumption, NEW sel \in W!Selections,
           NEW issue \in W!Issues(sel), NEW stall \in BOOLEAN, NEW i \in 1..Len(ops),
           NEW mo, mo = W!Moved(i, sel, W!Cdb(sel), issue, stall)
    PROVE  /\ mo \in Op
           /\ ops[i].at \notin sel => mo.fu = ops[i].fu
           /\ mo.ready <=> \/ ops[i].at \in sel \/ ops[i].ready
                           \/ window[i].src_prf \in DOMAIN W!Cdb(sel)
           /\ \/ ops[i].at = "ID_EX" /\ ops[i].at \notin sel /\ stall /\ mo.at = "ID_EX"
              \/ ops[i].at = "ID_EX" /\ ops[i].at \notin sel /\ ~stall /\ mo.at = "RS"
              \/ /\ ops[i].at = "RS" /\ ops[i].at \notin sel
                 /\ \E u \in W!Issuing(issue) : issue[u] = i /\ mo.at = u
              \/ /\ ops[i].at = "RS" /\ ops[i].at \notin sel
                 /\ (\A u \in W!Issuing(issue) : issue[u] # i) /\ mo.at = "RS"
              \/ ops[i].at \in sel /\ mo.at = "CDB"
              \/ /\ ops[i].at # "ID_EX" /\ ops[i].at # "RS" /\ ops[i].at \notin sel
                 /\ mo.at = ops[i].at
<1>0. PICK sn : sn = W!Snoop(ops[i], window[i].src_prf, W!Cdb(sel))
    OBVIOUS
<1>1. /\ sn \in Op /\ sn.at = ops[i].at /\ sn.fu = ops[i].fu
      /\ sn.ready <=> (ops[i].ready \/ window[i].src_prf \in DOMAIN W!Cdb(sel))
    BY <1>0, SnoopFields, CdbType, OpsFields
<1>2. mo = MovedOf(sn, i, sel, issue, stall)
    BY <1>0, MovedIs
<1>3. "ID_EX" \notin sel /\ "RS" \notin sel
    BY SelectedUnit, OpsFields
<1>4. CASE ops[i].at = "ID_EX"
    <2>1. mo = IF stall THEN sn ELSE [sn EXCEPT !.at = "RS"]
        BY <1>1, <1>2, <1>3, <1>4 DEF MovedOf
    <2>2. mo \in Op /\ mo.fu = sn.fu /\ mo.ready = sn.ready
            /\ mo.at = IF stall THEN "ID_EX" ELSE "RS"
        BY <1>1, <1>4, <2>1 DEF Op, W!Places
    <2> QED BY <1>1, <1>2, <1>3, <1>4, <2>2
<1>5. CASE ops[i].at = "RS" /\ \E u \in W!Issuing(issue) : issue[u] = i
    <2>1. PICK u : u = CHOOSE v \in W!Issuing(issue) : issue[v] = i
        OBVIOUS
    <2>2. u \in W!Issuing(issue) /\ issue[u] = i
        BY <1>5, <2>1
    <2>3. mo = [sn EXCEPT !.at = u]
        BY <1>1, <1>2, <1>3, <1>5, <2>1 DEF MovedOf
    <2>4. u \in W!Places
        BY <2>2, IssuedTo DEF W!Places
    <2>5. mo \in Op /\ mo.fu = sn.fu /\ mo.ready = sn.ready /\ mo.at = u
        BY <1>1, <2>3, <2>4 DEF Op
    <2> QED BY <1>1, <1>2, <1>3, <1>5, <2>2, <2>5
<1>6. CASE ops[i].at = "RS" /\ ~ \E u \in W!Issuing(issue) : issue[u] = i
    <2>1. mo = sn
        BY <1>1, <1>2, <1>3, <1>6 DEF MovedOf
    <2> QED BY <1>1, <1>2, <1>3, <1>6, <2>1
<1>7. CASE ops[i].at \in sel
    <2>1. mo = W!Finished
        BY <1>1, <1>2, <1>3, <1>7 DEF MovedOf
    <2>2. mo \in Op /\ mo.at = "CDB" /\ mo.ready
        BY <2>1 DEF W!Finished, Op, W!Places, W!FuncUnitTypes, W!Bit
    <2> QED BY <1>2, <1>7, <2>2
<1>8. CASE ops[i].at # "ID_EX" /\ ops[i].at # "RS" /\ ops[i].at \notin sel
    <2>1. mo = sn
        BY <1>1, <1>2, <1>8 DEF MovedOf
    <2> QED BY <1>1, <1>2, <1>8, <2>1
<1> QED BY <1>4, <1>5, <1>6, <1>7, <1>8

\* What decode reads is a bit.
LEMMA DecodedType ==
    ASSUME WakeupInv, W!WakeupAssumption, NEW sel \in W!Selections,
           NEW fu \in W!FuncUnitTypes, NEW p \in PRF, NEW arf
    PROVE  LET op == W!Decoded(fu, p, arf, W!Cdb(sel))
           IN /\ op \in Op /\ op.at = "ID_EX" /\ op.fu = fu
              /\ ~op.ready => /\ arf # ZERO_REG /\ p \notin ready
                              /\ p \notin DOMAIN W!Cdb(sel)
<1>0. PICK op : op = W!Decoded(fu, p, arf, W!Cdb(sel))
    OBVIOUS
<1>1. prf[p] \in W!Bit /\ 0 \in W!Bit
    BY DEF WakeupInv, W!TypeOK, W!Bit
<1>2. W!ReadValue(p, arf, W!Cdb(sel)) \in W!Bit
    <2>1. CASE arf = ZERO_REG
        BY <1>1, <2>1 DEF W!ReadValue
    <2>2. CASE arf # ZERO_REG /\ p \in DOMAIN W!Cdb(sel)
        BY <2>2, CdbType DEF W!ReadValue
    <2>3. CASE arf # ZERO_REG /\ p \notin DOMAIN W!Cdb(sel)
        BY <1>1, <2>3 DEF W!ReadValue
    <2> QED BY <2>1, <2>2, <2>3
<1>3. PICK r \in BOOLEAN : r <=> W!ReadReady(p, arf, W!Cdb(sel))
    BY DEF W!ReadReady
<1>4. CASE W!ReadReady(p, arf, W!Cdb(sel))
    <2>1. op = [at |-> "ID_EX", fu |-> fu, ready |-> W!ReadReady(p, arf, W!Cdb(sel)),
                value |-> W!ReadValue(p, arf, W!Cdb(sel))]
        BY <1>0, <1>4 DEF W!Decoded
    <2>2. op.at = "ID_EX" /\ op.fu = fu /\ op.ready
        BY <1>4, <2>1
    <2>3. op \in Op
        BY <1>2, <1>4, <2>1 DEF Op, W!Places, W!ReadReady
    <2> QED BY <1>0, <2>2, <2>3
<1>5. CASE ~W!ReadReady(p, arf, W!Cdb(sel))
    <2>1. op = [at |-> "ID_EX", fu |-> fu, ready |-> W!ReadReady(p, arf, W!Cdb(sel)),
                value |-> 0]
        BY <1>0, <1>5 DEF W!Decoded
    <2>2. op.at = "ID_EX" /\ op.fu = fu /\ ~op.ready
        BY <1>5, <2>1
    <2>3. op \in Op
        BY <1>1, <1>5, <2>1 DEF Op, W!Places, W!ReadReady
    <2> QED BY <1>0, <1>5, <2>2, <2>3 DEF W!ReadReady
<1> QED BY <1>4, <1>5

\* What a clock edge makes of the operations, beside Edge for the window: m of
\* them stay, moved up by k, and the n of group d follow.
Moves(o, m, n, k, sel, issue, stall, d, types, gnt) ==
    /\ o \in Seq(Op) /\ Len(o) = m + n
    /\ \A i \in 1..m : o[i] = W!Moved(i + k, sel, W!Cdb(sel), issue, stall)
    /\ \A x \in 1..n : /\ types[x] \in W!FuncUnitTypes
                       /\ phys_reg_src(d, gnt, x) \in PRF
                       /\ o[m + x] = W!Decoded(types[x], phys_reg_src(d, gnt, x), d[x].src,
                                               W!Cdb(sel))

\* A clock edge without a misprediction, as the window and the operations see it.
Frame(m, n, k, sel, issue, stall, d, types, gnt) ==
    /\ k \in Nat /\ k <= dispatched /\ \A i \in 1..k : window[i].executed
    /\ Edge(window', m, n, d, gnt, k, W!Completing(sel))
    /\ Moves(ops', m, n, k, sel, issue, stall, d, types, gnt)
    /\ stall => n = 0 /\ dispatched' = dispatched - k
    /\ ~stall => dispatched' = m /\ ~W!rs_full

\* What stays of the operations after k retire.
LEMMA KeptOps ==
    ASSUME WakeupInv, W!WakeupAssumption, NEW sel \in W!Selections,
           NEW issue \in W!Issues(sel), NEW stall \in BOOLEAN,
           NEW k \in 0..Len(ops), NEW m \in Nat, Len(ops) = m + k,
           NEW o, o = W!n_ops(k, sel, W!Cdb(sel), issue, stall)
    PROVE  /\ o \in Seq(Op) /\ Len(o) = m
           /\ \A i \in 1..m : o[i] = W!Moved(i + k, sel, W!Cdb(sel), issue, stall)
<1>0. Len(ops) \in Nat /\ Len(ops) - k = m
    BY OpsFields
<1>2. o = [i \in 1..m |-> W!Moved(i + k, sel, W!Cdb(sel), issue, stall)]
    BY <1>0 DEF W!n_ops
<1>3. ASSUME NEW i \in 1..m
      PROVE  W!Moved(i + k, sel, W!Cdb(sel), issue, stall) \in Op
    <2>1. i + k \in 1..Len(ops)
        BY <1>0
    <2> QED BY <2>1, MovedFields
<1>4. o \in [1..m -> Op]
    BY <1>2, <1>3
<1>5. o \in Seq(Op) /\ Len(o) = m
    BY <1>4
<1> QED BY <1>2, <1>5

LEMMA StallMoves ==
    ASSUME WakeupInv, W!WakeupAssumption, NEW k \in 0..N, NEW sel \in W!Selections,
           NEW issue \in W!Issues(sel), W!Stall(k, sel, W!Cdb(sel), issue)
    PROVE  /\ Stall(k, W!Completing(sel), FALSE)
           /\ k <= dispatched /\ dispatched' = dispatched - k
           /\ \A i \in 1..k : window[i].executed
           /\ \E m \in Nat :
                /\ Edge(window', m, 0, Empty, NoGrant, k, W!Completing(sel))
                /\ Moves(ops', m, 0, k, sel, issue, TRUE, Empty, Empty, NoGrant)
<1>1. Stall(k, W!Completing(sel), FALSE)
    BY SameSteps DEF W!Stall
<1>2. /\ k <= dispatched /\ dispatched' = dispatched - k
      /\ \A i \in 1..k : window[i].executed
    BY <1>1 DEF Stall, Retires, Executed
<1>3. k \in 0..Len(window) /\ TypeOK
    BY <1>1, StallEdge DEF WakeupInv
<1>4. PICK m \in Nat, n \in 0..N :
        Edge(window', m, n, Empty, NoGrant, k, W!Completing(sel))
    BY <1>1, <1>3, StallEdge
<1>5. n = 0
    <2>1. Empty \in [1..n -> Slots] /\ n \in Nat
        BY <1>4 DEF Edge
    <2> QED BY <1>1, <1>3, <2>1, StallEdge
<1>6. Len(ops) = m + k /\ k \in 0..Len(ops)
    BY <1>3, <1>4, OpsFields DEF Edge
<1>7. ops' = W!n_ops(k, sel, W!Cdb(sel), issue, TRUE)
    BY DEF W!Stall
<1>8. /\ ops' \in Seq(Op) /\ Len(ops') = m
      /\ \A i \in 1..m : ops'[i] = W!Moved(i + k, sel, W!Cdb(sel), issue, TRUE)
    <2>1. PICK s \in BOOLEAN : s = TRUE
        OBVIOUS
    <2>2. ops' = W!n_ops(k, sel, W!Cdb(sel), issue, s)
        BY <1>7, <2>1, Zenon
    <2>3. /\ ops' \in Seq(Op) /\ Len(ops') = m
          /\ \A i \in 1..m : ops'[i] = W!Moved(i + k, sel, W!Cdb(sel), issue, s)
        BY <1>6, <2>2, KeptOps
    <2> QED BY <2>1, <2>3, Zenon
<1>9. Moves(ops', m, 0, k, sel, issue, TRUE, Empty, Empty, NoGrant)
    <2>1. Len(ops') = m + 0 /\ 1..0 = {}
        BY <1>8
    <2> QED BY <1>8, <2>1 DEF Moves
<1> QED BY <1>1, <1>2, <1>4, <1>5, <1>9

\* The grants of a dispatch, whose unused part is left out.
LEMMA GrantsType ==
    ASSUME NEW d, NEW gnt \in W!Grants(d)
    PROVE  gnt \in [1..N -> PRF \cup {NoReg}] /\ \E g \in Grants : gnt = Masked(d, g)
<1>1. PICK g \in Grants : gnt = Masked(d, g)
    BY SameGroup DEF W!Grants, Masked
<1>2. g \in [1..N -> PRF \cup {NoReg}]
    BY GroupTypes
<1> QED BY <1>1, <1>2 DEF Masked

LEMMA DispatchRenames ==
    ASSUME NEW k, NEW sel, NEW issue, NEW d \in Groups, NEW types,
           NEW gnt \in W!Grants(d), W!Dispatch(k, sel, W!Cdb(sel), issue, d, types, gnt)
    PROVE  \E g \in Grants : Dispatch(k, W!Completing(sel), FALSE, d, g)
<1>1. Dispatch(k, W!Completing(sel), FALSE, d, gnt)
    BY SameSteps DEF W!Dispatch
<1>2. PICK g \in Grants : gnt = Masked(d, g)
    BY GrantsType
<1> QED BY <1>1, <1>2, MaskedRenames

LEMMA DispatchFrame ==
    ASSUME WakeupInv, W!WakeupAssumption, NEW k \in 0..N, NEW sel \in W!Selections,
           NEW issue \in W!Issues(sel), NEW d \in Groups, NEW types \in W!TypesOf(d),
           NEW gnt \in W!Grants(d), W!Dispatch(k, sel, W!Cdb(sel), issue, d, types, gnt)
    PROVE  \E m \in Nat, n \in 0..N, stall \in BOOLEAN :
             Frame(m, n, k, sel, issue, stall, d, types, gnt)
<1>0. gnt \in [1..N -> PRF \cup {NoReg}]
    BY GrantsType
<1>1. Dispatch(k, W!Completing(sel), FALSE, d, gnt) /\ ~W!rs_full
    BY SameSteps DEF W!Dispatch
<1>3. k <= dispatched /\ \A i \in 1..k : window[i].executed
    BY <1>1 DEF Dispatch, Retires, Executed
<1>4. k \in 0..Len(window) /\ TypeOK
    BY <1>3, OpsFields DEF WakeupInv
<1>5. PICK m \in Nat, n \in 0..N :
        Edge(n_window(d, gnt, k, W!Completing(sel)), m, n, d, gnt, k, W!Completing(sel))
    BY <1>0, <1>4, WindowEdge
<1>6. window' = n_window(d, gnt, k, W!Completing(sel)) /\ dispatched' = Len(window) - k
    BY <1>1 DEF Dispatch
<1>7. Len(ops) = m + k /\ k \in 0..Len(ops) /\ dispatched' = m /\ d \in [1..n -> Slots]
    BY <1>4, <1>5, <1>6, OpsFields DEF Edge
<1>8. PICK o : o = W!n_ops(k, sel, W!Cdb(sel), issue, FALSE)
    OBVIOUS
<1>9. /\ o \in Seq(Op) /\ Len(o) = m
      /\ \A i \in 1..m : o[i] = W!Moved(i + k, sel, W!Cdb(sel), issue, FALSE)
    <2>1. PICK s \in BOOLEAN : s = FALSE
        OBVIOUS
    <2>2. o = W!n_ops(k, sel, W!Cdb(sel), issue, s)
        BY <1>8, <2>1, Zenon
    <2>3. /\ o \in Seq(Op) /\ Len(o) = m
          /\ \A i \in 1..m : o[i] = W!Moved(i + k, sel, W!Cdb(sel), issue, s)
        BY <1>7, <2>2, KeptOps
    <2> QED BY <2>1, <2>3, Zenon
<1>10. PICK new : new = [i \in DOMAIN d |->
            W!Decoded(types[i], W!R!phys_reg_src(d, gnt, i), d[i].src, W!Cdb(sel))]
    OBVIOUS
<1>11. ASSUME NEW x \in 1..n
       PROVE  /\ types[x] \in W!FuncUnitTypes /\ phys_reg_src(d, gnt, x) \in PRF
              /\ new[x] \in Op
              /\ new[x] = W!Decoded(types[x], phys_reg_src(d, gnt, x), d[x].src, W!Cdb(sel))
    <2>1. types[x] \in W!FuncUnitTypes
        BY <1>7 DEF W!TypesOf
    <2>2. phys_reg_src(d, gnt, x) \in PRF
        BY <1>0, <1>4, <1>7, SourceType
    <2>3. new[x] = W!Decoded(types[x], phys_reg_src(d, gnt, x), d[x].src, W!Cdb(sel))
        BY <1>7, <1>10, SameGroup
    <2> QED BY <2>1, <2>2, <2>3, DecodedType
<1>12. new \in Seq(Op) /\ Len(new) = n
    <2>1. DOMAIN new = 1..n /\ new = [x \in 1..n |-> new[x]]
        BY <1>7, <1>10
    <2>2. new \in [1..n -> Op]
        BY <1>11, <2>1
    <2> QED BY <2>2
<1>13. ops' = o \o new
    BY <1>8, <1>10 DEF W!Dispatch
<1>14. /\ ops' \in Seq(Op) /\ Len(ops') = m + n
       /\ \A i \in 1..m : ops'[i] = o[i]
       /\ \A x \in 1..n : ops'[m + x] = new[x]
    <2>1. /\ o \o new \in Seq(Op) /\ Len(o \o new) = m + n
          /\ \A i \in 1..(m + n) : (o \o new)[i] = IF i <= m THEN o[i] ELSE new[i - m]
        <3>1. /\ o \o new \in Seq(Op) /\ Len(o \o new) = Len(o) + Len(new)
              /\ \A i \in 1..(Len(o) + Len(new)) :
                    (o \o new)[i] = IF i <= Len(o) THEN o[i] ELSE new[i - Len(o)]
            BY <1>9, <1>12, ConcatProperties
        <3> QED BY <1>9, <1>12, <3>1
    <2>2. \A i \in 1..m : i \in 1..(m + n) /\ i <= m
        OBVIOUS
    <2>3. \A x \in 1..n : m + x \in 1..(m + n) /\ ~(m + x <= m) /\ (m + x) - m = x
        OBVIOUS
    <2> QED BY <1>13, <2>1, <2>2, <2>3
<1>15. Moves(ops', m, n, k, sel, issue, FALSE, d, types, gnt)
    BY <1>9, <1>11, <1>14 DEF Moves
<1>16. PICK stall \in BOOLEAN : stall = FALSE
    OBVIOUS
<1>17. Moves(ops', m, n, k, sel, issue, stall, d, types, gnt)
    BY <1>15, <1>16, Zenon
<1>18. Frame(m, n, k, sel, issue, stall, d, types, gnt)
    <2>1. k \in Nat /\ ~stall
        BY <1>16
    <2>2. Edge(window', m, n, d, gnt, k, W!Completing(sel))
        BY <1>5, <1>6
    <2> QED BY <1>1, <1>3, <1>7, <1>17, <2>1, <2>2 DEF Frame
<1> QED BY <1>18

LEMMA StallFrame ==
    ASSUME WakeupInv, W!WakeupAssumption, NEW k \in 0..N, NEW sel \in W!Selections,
           NEW issue \in W!Issues(sel), W!Stall(k, sel, W!Cdb(sel), issue)
    PROVE  \E m \in Nat, stall \in BOOLEAN :
             Frame(m, 0, k, sel, issue, stall, Empty, Empty, NoGrant)
<1>1. /\ k <= dispatched /\ dispatched' = dispatched - k
      /\ \A i \in 1..k : window[i].executed
    BY StallMoves
<1>2. PICK m \in Nat :
        /\ Edge(window', m, 0, Empty, NoGrant, k, W!Completing(sel))
        /\ Moves(ops', m, 0, k, sel, issue, TRUE, Empty, Empty, NoGrant)
    BY StallMoves
<1>3. PICK stall \in BOOLEAN : stall = TRUE
    OBVIOUS
<1>4. Moves(ops', m, 0, k, sel, issue, stall, Empty, Empty, NoGrant)
    BY <1>2, <1>3, Zenon
<1>5. Frame(m, 0, k, sel, issue, stall, Empty, Empty, NoGrant)
    <2>1. k \in Nat /\ 0 = 0 /\ stall
        BY <1>3
    <2> QED BY Zenon, <1>1, <1>2, <1>4, <2>1 DEF Frame
<1> QED BY <1>5

-----------------------------------------------------------------------------
(* Placement                                                               *)

\* How the stations fill: what waits and is not issued stays, and a dispatch
\* adds ID/EX, for which there is room when the stations are not full.
LEMMA StationsFit ==
    ASSUME WakeupInv, W!WakeupAssumption, NEW sel \in W!Selections,
           NEW issue \in W!Issues(sel), NEW stall \in BOOLEAN,
           NEW m \in Nat, NEW n \in 0..N, NEW k, NEW d, NEW types, NEW gnt,
           Frame(m, n, k, sel, issue, stall, d, types, gnt)
    PROVE  Cardinality(InOf(ops', "RS")) <= RS_NUM_ENTRIES
<1>0. /\ k \in Nat /\ Len(ops) = m + k /\ Len(ops') = m + n /\ Len(ops) \in Nat
      /\ dispatched \in Nat /\ dispatched <= Len(ops) /\ Len(ops) <= dispatched + N
      /\ RS_NUM_ENTRIES \in Nat
    BY OpsFields DEF Frame, Edge, Moves, W!WakeupAssumption
<1> DEFINE A == InOf(ops, "RS")
           B == IF stall THEN {} ELSE (dispatched + 1)..Len(ops)
           f == [i \in A \cup B |-> i - k]
<1>1. IsFiniteSet(A) /\ Cardinality(A) \in Nat /\ Cardinality(A) <= RS_NUM_ENTRIES
    BY InFinite, FS_CardinalityType, OpsFields DEF PlacementOf
<1>2. IsFiniteSet(B) /\ Cardinality(B) \in Nat
      /\ Cardinality(A) + Cardinality(B) <= RS_NUM_ENTRIES
    <2>1. CASE stall
        <3>1. B = {}
            BY <2>1
        <3>2. IsFiniteSet(B) /\ Cardinality(B) = 0
            BY <3>1, FS_EmptySet
        <3> QED BY <1>1, <3>2
    <2>2. CASE ~stall
        <3>1. B = (dispatched + 1)..Len(ops) /\ dispatched + 1 \in Int /\ Len(ops) \in Int
            BY <1>0, <2>2
        <3>2. /\ IsFiniteSet(B)
              /\ Cardinality(B) = IF dispatched + 1 > Len(ops) THEN 0
                                  ELSE Len(ops) - (dispatched + 1) + 1
            BY <3>1, FS_Interval
        <3>3. Cardinality(B) \in Nat /\ Cardinality(B) <= N
            BY <1>0, <3>2
        <3>4. W!Cardinality(W!In("RS")) = Cardinality(A)
            BY SameCount DEF W!In, InOf
        <3>5. ~(RS_NUM_ENTRIES - Cardinality(A) < N)
            BY <2>2, <3>4 DEF Frame, W!rs_full
        <3> HIDE DEF A, B
        <3> QED BY <1>0, <1>1, <3>2, <3>3, <3>5
    <2> QED BY <2>1, <2>2
<1>3. InOf(ops', "RS") \subseteq {f[i] : i \in A \cup B}
    <2> SUFFICES ASSUME NEW i \in 1..Len(ops'), ops'[i].at = "RS"
                 PROVE  i \in {f[j] : j \in A \cup B}
        BY DEF InOf
    <2>1. i \in 1..m
        <3> SUFFICES ASSUME i \notin 1..m
                     PROVE  FALSE
            OBVIOUS
        <3>1. PICK x \in 1..n : i = m + x
            <4>1. i - m \in 1..n /\ i = m + (i - m)
                BY <1>0
            <4> QED BY <4>1
        <3>2. ops'[i] = W!Decoded(types[x], phys_reg_src(d, gnt, x), d[x].src, W!Cdb(sel))
              /\ types[x] \in W!FuncUnitTypes /\ phys_reg_src(d, gnt, x) \in PRF
            BY <3>1 DEF Frame, Moves
        <3>3. ops'[i].at = "ID_EX"
            BY <3>2, DecodedType
        <3> QED BY <3>3
    <2>2. i + k \in 1..Len(ops) /\ (i + k) - k = i
        BY <1>0, <2>1
    <2>3. ops'[i] = W!Moved(i + k, sel, W!Cdb(sel), issue, stall)
        BY <2>1 DEF Frame, Moves
    <2>4. ops[i + k].at = "RS" \/ (ops[i + k].at = "ID_EX" /\ ~stall)
        <3>1. \A u \in W!Issuing(issue) : u # "RS"
            BY IssuedTo, OpsFields
        <3>2. PICK mo : mo = W!Moved(i + k, sel, W!Cdb(sel), issue, stall)
            OBVIOUS
        <3>3. mo.at = "RS"
            BY <2>3, <3>2
        <3> QED BY <2>2, <3>1, <3>2, <3>3, MovedFields
    <2>5. i + k \in A \cup B
        <3>1. CASE ops[i + k].at = "RS"
            BY <2>2, <3>1 DEF InOf
        <3>2. CASE ops[i + k].at = "ID_EX" /\ ~stall
            <4>1. i + k > dispatched
                BY <2>2, <3>2, OpsFields DEF PlacementOf
            <4> QED BY <1>0, <2>2, <3>2, <4>1
        <3> QED BY <2>4, <3>1, <3>2
    <2>6. f[i + k] = i
        BY <2>2, <2>5
    <2> HIDE DEF A, B, f
    <2> QED BY <2>5, <2>6
<1> HIDE DEF A, B, f
<1>4. /\ IsFiniteSet(A \cup B)
      /\ Cardinality(A \cup B) = Cardinality(A) + Cardinality(B) - Cardinality(A \cap B)
    BY <1>1, <1>2, FS_Union
<1>5. Cardinality(A \cap B) \in Nat
    BY <1>1, FS_Subset, FS_CardinalityType
<1>6. /\ IsFiniteSet({f[i] : i \in A \cup B})
      /\ Cardinality({f[i] : i \in A \cup B}) <= Cardinality(A \cup B)
    BY <1>4, ImageBound
<1>7. /\ IsFiniteSet(InOf(ops', "RS"))
      /\ Cardinality(InOf(ops', "RS")) <= Cardinality({f[i] : i \in A \cup B})
    BY <1>3, <1>6, FS_Subset
<1>8. /\ Cardinality(InOf(ops', "RS")) \in Nat
      /\ Cardinality({f[i] : i \in A \cup B}) \in Nat
      /\ Cardinality(A \cup B) \in Nat
    BY <1>4, <1>6, <1>7, FS_CardinalityType
<1>9. \A r, x, y, u, v, z, w \in Nat :
        /\ x + y <= r /\ u = x + y - v /\ z <= u /\ w <= z
        => w <= r
    OBVIOUS
<1>10. RS_NUM_ENTRIES \in Nat
    BY <1>0
<1> QED BY <1>1, <1>2, <1>4, <1>5, <1>6, <1>7, <1>8, <1>9, <1>10

\* Where operation i of the edge comes from: a place it had, or the group.
OriginOf(i, m, n, k, sel, issue, stall, d, gnt) ==
    \/ /\ i \in 1..m /\ i + k \in 1..Len(ops)
       /\ ops'[i] = W!Moved(i + k, sel, W!Cdb(sel), issue, stall)
    \/ \E x \in 1..n :
         /\ i = m + x /\ ~stall
         /\ ops'[i] \in Op /\ ops'[i].at = "ID_EX"
         /\ ~ops'[i].ready =>
             /\ d[x].src # ZERO_REG
             /\ phys_reg_src(d, gnt, x) \notin ready
             /\ phys_reg_src(d, gnt, x) \notin DOMAIN W!Cdb(sel)

\* An operation after the edge is one of the m that stay or one of the group.
LEMMA OpAfter ==
    ASSUME WakeupInv, W!WakeupAssumption, NEW sel \in W!Selections,
           NEW issue \in W!Issues(sel), NEW stall \in BOOLEAN,
           NEW m \in Nat, NEW n \in 0..N, NEW k, NEW d, NEW types, NEW gnt,
           Frame(m, n, k, sel, issue, stall, d, types, gnt),
           NEW i \in 1..Len(ops')
    PROVE  OriginOf(i, m, n, k, sel, issue, stall, d, gnt)
<1>0. k \in Nat /\ Len(ops) = m + k /\ Len(ops') = m + n
    BY OpsFields DEF Frame, Edge, Moves
<1>1. CASE i \in 1..m
    <2>1. i + k \in 1..Len(ops)
        BY <1>0, <1>1
    <2> QED BY <1>1, <2>1 DEF Frame, Moves, OriginOf
<1>2. CASE i \notin 1..m
    <2>1. PICK x \in 1..n : i = m + x
        <3>1. i - m \in 1..n /\ i = m + (i - m)
            BY <1>0, <1>2
        <3> QED BY <3>1
    <2>2. ~stall
        <3>1. n # 0
            BY <2>1
        <3> QED BY <3>1 DEF Frame
    <2>3. ops'[i] = W!Decoded(types[x], phys_reg_src(d, gnt, x), d[x].src, W!Cdb(sel))
            /\ types[x] \in W!FuncUnitTypes /\ phys_reg_src(d, gnt, x) \in PRF
        BY <2>1 DEF Frame, Moves
    <2>4. /\ ops'[i] \in Op /\ ops'[i].at = "ID_EX"
          /\ ~ops'[i].ready =>
              /\ d[x].src # ZERO_REG
              /\ phys_reg_src(d, gnt, x) \notin ready
              /\ phys_reg_src(d, gnt, x) \notin DOMAIN W!Cdb(sel)
        BY <2>3, DecodedType
    <2> QED BY <2>1, <2>2, <2>4 DEF OriginOf
<1> QED BY <1>1, <1>2

\* Who is in a unit after an edge was there and stays, or has been issued to it.
LEMMA UnitAfter ==
    ASSUME WakeupInv, W!WakeupAssumption, NEW sel \in W!Selections,
           NEW issue \in W!Issues(sel), NEW stall \in BOOLEAN,
           NEW m \in Nat, NEW n \in 0..N, NEW k, NEW d, NEW types, NEW gnt,
           Frame(m, n, k, sel, issue, stall, d, types, gnt),
           NEW i \in 1..Len(ops'), ops'[i].at \in Units
    PROVE  /\ i \in 1..m /\ i + k \in 1..Len(ops)
           /\ ops'[i].ready /\ FuncUnit[ops'[i].at] = ops'[i].fu
           /\ \/ ops[i + k].at = ops'[i].at /\ ops'[i].at \notin sel
              \/ ops'[i].at \in W!Issuing(issue) /\ issue[ops'[i].at] = i + k
<1>1. /\ i \in 1..m /\ i + k \in 1..Len(ops)
      /\ ops'[i] = W!Moved(i + k, sel, W!Cdb(sel), issue, stall)
    <2>1. ops'[i].at # "ID_EX"
        BY OpsFields
    <2>2. OriginOf(i, m, n, k, sel, issue, stall, d, gnt)
        BY OpAfter
    <2> QED BY <2>1, <2>2 DEF OriginOf
<1>2. PICK mo : mo = W!Moved(i + k, sel, W!Cdb(sel), issue, stall)
    OBVIOUS
<1>3. /\ ops[i + k].at \notin sel => mo.fu = ops[i + k].fu
      /\ ops[i + k].ready => mo.ready
      /\ \/ ops[i + k].at \notin sel
            /\ \E u \in W!Issuing(issue) : issue[u] = i + k /\ mo.at = u
         \/ ops[i + k].at \notin sel /\ mo.at = ops[i + k].at
    <2>1. PICK l : l = i + k
        OBVIOUS
    <2>2. l \in 1..Len(ops) /\ mo = W!Moved(l, sel, W!Cdb(sel), issue, stall)
        BY <1>1, <1>2, <2>1
    <2>3. mo.at \in Units
        BY <1>1, <1>2
    <2>4. mo.at # "ID_EX" /\ mo.at # "RS" /\ mo.at # "CDB"
        BY <2>3, OpsFields
    <2>5. /\ ops[l].at \notin sel => mo.fu = ops[l].fu
          /\ ops[l].ready => mo.ready
          /\ \/ ops[l].at \notin sel
                /\ \E u \in W!Issuing(issue) : issue[u] = l /\ mo.at = u
             \/ ops[l].at \notin sel /\ mo.at = ops[l].at
        BY <2>2, <2>4, MovedFields
    <2> QED BY <2>1, <2>5
<1>4. CASE \E u \in W!Issuing(issue) : issue[u] = i + k /\ mo.at = u
    <2>1. PICK u \in W!Issuing(issue) : issue[u] = i + k /\ mo.at = u
        BY <1>4
    <2>2. ops[i + k].ready /\ ops[i + k].fu = FuncUnit[u]
        BY <2>1, IssuedTo
    <2> QED BY <1>1, <1>2, <1>3, <2>1, <2>2
<1>5. CASE ops[i + k].at \notin sel /\ mo.at = ops[i + k].at
    <2>1. ops[i + k].at \in Units
        BY <1>1, <1>2, <1>5
    <2>2. ops[i + k].ready /\ FuncUnit[ops[i + k].at] = ops[i + k].fu
        BY <1>1, <2>1, OpsFields DEF PlacementOf
    <2> QED BY <1>1, <1>2, <1>3, <1>5, <2>2
<1> QED BY <1>3, <1>4, <1>5

\* A unit that is issued to has nothing else in it after the edge, and every
\* instruction is where its state says.
LEMMA PlacementFrame ==
    ASSUME WakeupInv, W!WakeupAssumption, NEW sel \in W!Selections,
           NEW issue \in W!Issues(sel), NEW stall \in BOOLEAN,
           NEW m \in Nat, NEW n \in 0..N, NEW k, NEW d, NEW types, NEW gnt,
           Frame(m, n, k, sel, issue, stall, d, types, gnt)
    PROVE  W!Placement'
<1>0. /\ k \in Nat /\ Len(ops) = m + k /\ Len(ops') = m + n /\ Len(ops) \in Nat
      /\ k <= dispatched /\ dispatched \in Nat /\ dispatched <= Len(ops)
    BY OpsFields DEF Frame, Edge, Moves
<1>1. Cardinality(InOf(ops', "RS")) <= RS_NUM_ENTRIES
    BY StationsFit
<1>2. ASSUME NEW i \in 1..Len(ops'), ops'[i].at \in Units
      PROVE  /\ i \in 1..m /\ i + k \in 1..Len(ops)
             /\ ops'[i].ready /\ FuncUnit[ops'[i].at] = ops'[i].fu
             /\ \/ ops[i + k].at = ops'[i].at /\ ops'[i].at \notin sel
                \/ ops'[i].at \in W!Issuing(issue) /\ issue[ops'[i].at] = i + k
    BY <1>2, UnitAfter
<1>3. ASSUME NEW i \in 1..Len(ops'), NEW j \in 1..Len(ops'),
             ops'[i].at \in Units, ops'[i].at = ops'[j].at
      PROVE  i = j
    <2>1. PICK u : u = ops'[i].at
        OBVIOUS
    <2>2. i + k \in 1..Len(ops) /\ j + k \in 1..Len(ops) /\ u \in Units
        BY <1>2, <1>3, <2>1
    <2>3. /\ \/ ops[i + k].at = u /\ u \notin sel
             \/ u \in W!Issuing(issue) /\ issue[u] = i + k
          /\ \/ ops[j + k].at = u /\ u \notin sel
             \/ u \in W!Issuing(issue) /\ issue[u] = j + k
        BY <1>2, <1>3, <2>1
    <2>4. u \in W!Issuing(issue) /\ u \notin sel =>
            \A l \in 1..Len(ops) : ops[l].at # u
        BY IssuedTo DEF W!In
    <2>5. i + k = j + k
        BY <2>2, <2>3, <2>4, OpsFields DEF PlacementOf
    <2> QED BY <1>0, <2>5
<1>4. ASSUME NEW i \in 1..Len(ops')
      PROVE  /\ i > dispatched' <=> ops'[i].at = "ID_EX"
             /\ window'[i].executed <=> ops'[i].at = "CDB"
    <2>1. ASSUME i \in 1..m, i + k \in 1..Len(ops),
                 ops'[i] = W!Moved(i + k, sel, W!Cdb(sel), issue, stall)
          PROVE  /\ i > dispatched' <=> ops'[i].at = "ID_EX"
                 /\ window'[i].executed <=> ops'[i].at = "CDB"
        <3>1. PICK mo : mo = W!Moved(i + k, sel, W!Cdb(sel), issue, stall)
            OBVIOUS
        <3>2. /\ i + k > dispatched <=> ops[i + k].at = "ID_EX"
              /\ window[i + k].executed <=> ops[i + k].at = "CDB"
            BY <2>1, OpsFields DEF PlacementOf
        <3>3. window'[i].executed <=> (window[i + k].executed \/ ops[i + k].at \in sel)
            BY <2>1, Completed DEF Frame, Edge
        <3>4. mo.at = "CDB" <=> (ops[i + k].at = "CDB" \/ ops[i + k].at \in sel)
            BY <2>1, <3>1, MovedFields, IssuedTo, OpsFields
        <3>5. mo.at = "ID_EX" <=> (ops[i + k].at = "ID_EX" /\ stall)
            <4>1. \A u \in W!Issuing(issue) : u # "ID_EX"
                BY IssuedTo, OpsFields
            <4>2. \/ ops[i + k].at = "ID_EX" /\ stall /\ mo.at = "ID_EX"
                  \/ ops[i + k].at = "ID_EX" /\ ~stall /\ mo.at = "RS"
                  \/ /\ ops[i + k].at = "RS"
                     /\ \E u \in W!Issuing(issue) : issue[u] = i + k /\ mo.at = u
                  \/ ops[i + k].at = "RS" /\ mo.at = "RS"
                  \/ ops[i + k].at \in sel /\ mo.at = "CDB"
                  \/ ops[i + k].at # "ID_EX" /\ mo.at = ops[i + k].at
                <5>1. PICK l : l = i + k
                    OBVIOUS
                <5>2. /\ l \in 1..Len(ops)
                      /\ mo = W!Moved(l, sel, W!Cdb(sel), issue, stall)
                    BY <2>1, <3>1, <5>1
                <5>3. \/ ops[l].at = "ID_EX" /\ ops[l].at \notin sel /\ stall /\ mo.at = "ID_EX"
                      \/ ops[l].at = "ID_EX" /\ ops[l].at \notin sel /\ ~stall /\ mo.at = "RS"
                      \/ /\ ops[l].at = "RS" /\ ops[l].at \notin sel
                         /\ \E u \in W!Issuing(issue) : issue[u] = l /\ mo.at = u
                      \/ /\ ops[l].at = "RS" /\ ops[l].at \notin sel
                         /\ (\A u \in W!Issuing(issue) : issue[u] # l) /\ mo.at = "RS"
                      \/ ops[l].at \in sel /\ mo.at = "CDB"
                      \/ /\ ops[l].at # "ID_EX" /\ ops[l].at # "RS" /\ ops[l].at \notin sel
                         /\ mo.at = ops[l].at
                    BY <5>2, MovedFields
                <5> QED BY <5>1, <5>3
            <4>3. "ID_EX" \notin sel
                BY SelectedUnit, OpsFields
            <4> QED BY <4>1, <4>2, <4>3
        <3>6. i > dispatched' <=> (i + k > dispatched /\ stall)
            <4>1. CASE stall
                <5>1. dispatched' = dispatched - k
                    BY <4>1 DEF Frame
                <5> QED BY <1>0, <4>1, <5>1
            <4>2. CASE ~stall
                <5>1. dispatched' = m
                    BY <4>2 DEF Frame
                <5> QED BY <2>1, <4>2, <5>1
            <4> QED BY <4>1, <4>2
        <3> QED BY <2>1, <3>1, <3>2, <3>3, <3>4, <3>5, <3>6
    <2>2. ASSUME NEW x \in 1..n, i = m + x, ~stall, ops'[i].at = "ID_EX"
          PROVE  /\ i > dispatched' <=> ops'[i].at = "ID_EX"
                 /\ window'[i].executed <=> ops'[i].at = "CDB"
        <3>0. dispatched' = m /\ window'[m + x].executed = d[x].executed /\ d[x] \in Slots
            BY <2>2 DEF Frame, Edge
        <3>1. dispatched' = m /\ ~window'[m + x].executed
            BY <3>0 DEF W!WakeupAssumption
        <3>2. i > dispatched'
            BY <2>2, <3>1
        <3>3. ~window'[i].executed
            BY <2>2, <3>1
        <3>4. ops'[i].at # "CDB"
            BY <2>2
        <3> QED BY <2>2, <3>2, <3>3, <3>4
    <2>3. \/ /\ i \in 1..m /\ i + k \in 1..Len(ops)
             /\ ops'[i] = W!Moved(i + k, sel, W!Cdb(sel), issue, stall)
          \/ \E x \in 1..n : i = m + x /\ ~stall /\ ops'[i].at = "ID_EX"
        <3>1. OriginOf(i, m, n, k, sel, issue, stall, d, gnt)
            BY OpAfter
        <3> QED BY <3>1 DEF OriginOf
    <2> QED BY <2>1, <2>2, <2>3
<1>5. Len(ops') \in Nat
    BY <1>0
<1>6. PlacementOf(ops', window', dispatched')
    BY <1>1, <1>2, <1>3, <1>4 DEF PlacementOf
<1> QED BY <1>5, <1>6, PlacementIs

-----------------------------------------------------------------------------
(* Types                                                                   *)

MultType == [operand : W!Bit, m_reset : BOOLEAN, valid : BOOLEAN,
             done : [W!Stages -> BOOLEAN], data : [W!Stages -> W!Bit]]

LEMMA MultFields ==
    ASSUME WakeupInv, W!WakeupAssumption, NEW sel,
           NEW issue, \A u \in Units : issue[u] # 0 => issue[u] \in 1..Len(ops)
    PROVE  W!n_mult(sel, issue) \in [W!Mults -> MultType]
<1> SUFFICES ASSUME NEW u \in W!Mults
             PROVE  W!n_mult(sel, issue)[u] \in MultType
    BY Zenon DEF W!n_mult
<1> DEFINE m == mult[u]
           operand == IF issue[u] # 0 THEN ops[issue[u]].value ELSE m.operand
           m_reset == issue[u] # 0
           valid == W!n_out_valid(m, u \in sel, W!Busy(u))
           done == [s \in W!Stages |-> /\ ~m.m_reset
                                       /\ IF s = 1 THEN W!Busy(u) ELSE m.done[s - 1]]
           data == [s \in W!Stages |-> IF s = 1 THEN m.operand ELSE m.data[s - 1]]
<1>1. /\ m.operand \in W!Bit /\ m.m_reset \in BOOLEAN /\ m.valid \in BOOLEAN
      /\ m.done \in [W!Stages -> BOOLEAN] /\ m.data \in [W!Stages -> W!Bit]
    BY DEF WakeupInv, W!TypeOK
<1>2. \A s \in W!Stages : s # 1 => s - 1 \in W!Stages
    BY DEF W!Stages, W!WakeupAssumption
<1>3. operand \in W!Bit
    <2>1. CASE issue[u] # 0
        <3>1. ops[issue[u]] \in Op
            BY <2>1, OpsFields DEF W!Mults
        <3> QED BY <2>1, <3>1 DEF Op
    <2> QED BY <1>1, <2>1
<1>4. m_reset \in BOOLEAN
    BY Zenon
<1>5. valid \in BOOLEAN
    BY Zenon DEF W!n_out_valid
<1>6. done \in [W!Stages -> BOOLEAN]
    BY Zenon
<1>7. data \in [W!Stages -> W!Bit]
    BY <1>1, <1>2
<1>8. W!n_mult(sel, issue)[u] = [operand |-> operand, m_reset |-> m_reset,
                                 valid |-> valid, done |-> done, data |-> data]
    BY Zenon DEF W!n_mult
<1> HIDE DEF operand, m_reset, valid, done, data
<1>9. \A o \in W!Bit, r, v \in BOOLEAN, dn \in [W!Stages -> BOOLEAN],
            dt \in [W!Stages -> W!Bit] :
        [operand |-> o, m_reset |-> r, valid |-> v, done |-> dn, data |-> dt] \in MultType
    BY DEF MultType
<1>10. PICK r \in BOOLEAN, v \in BOOLEAN : r = m_reset /\ v = valid
    BY Zenon, <1>4, <1>5
<1>11. W!n_mult(sel, issue)[u] = [operand |-> operand, m_reset |-> r, valid |-> v,
                                  done |-> done, data |-> data]
    BY Zenon, <1>8, <1>10
<1>12. [operand |-> operand, m_reset |-> r, valid |-> v, done |-> done, data |-> data]
        \in MultType
    BY <1>3, <1>6, <1>7, <1>9
<1> QED BY Zenon, <1>11, <1>12

\* Values that can be read come from the register file or from a bus.
LEMMA PrfFields ==
    ASSUME WakeupInv, W!WakeupAssumption, NEW sel \in W!Selections,
           prf' = W!n_prf(W!Cdb(sel))
    PROVE  prf' \in [PRF -> W!Bit]
<1>1. ASSUME NEW p \in PRF
      PROVE  prf'[p] \in W!Bit
    <2>1. prf'[p] = CASE p \in ready' /\ p \in DOMAIN W!Cdb(sel) -> W!Cdb(sel)[p]
                      [] p \in ready' /\ p \notin DOMAIN W!Cdb(sel) -> prf[p]
                      [] p \notin ready' -> 0
        BY DEF W!n_prf
    <2>2. prf[p] \in W!Bit /\ 0 \in W!Bit
        BY DEF WakeupInv, W!TypeOK, W!Bit
    <2>3. CASE p \in ready' /\ p \in DOMAIN W!Cdb(sel)
        BY <2>1, <2>3, CdbType
    <2>4. CASE p \in ready' /\ p \notin DOMAIN W!Cdb(sel)
        BY <2>1, <2>2, <2>4
    <2>5. CASE p \notin ready'
        BY <2>1, <2>2, <2>5
    <2> QED BY <2>3, <2>4, <2>5
<1> QED BY <1>1 DEF W!n_prf

LEMMA TypesFrame ==
    ASSUME WakeupInv, W!WakeupAssumption, NEW sel \in W!Selections,
           NEW issue \in W!Issues(sel), NEW stall \in BOOLEAN,
           NEW m \in Nat, NEW n \in 0..N, NEW k \in 0..N, NEW d, NEW types, NEW gnt,
           Frame(m, n, k, sel, issue, stall, d, types, gnt),
           mult' = W!n_mult(sel, issue), prf' = W!n_prf(W!Cdb(sel)), rob_commit' = k
    PROVE  W!TypeOK'
<1>1. ops' \in Seq(Op) /\ Len(ops') = Len(window')
    BY DEF Frame, Moves, Edge
<1>2. \A u \in Units : issue[u] # 0 => issue[u] \in 1..Len(ops)
    BY IssuedTo DEF W!Issuing
<1>3. mult' \in [W!Mults -> MultType]
    BY <1>2, MultFields
<1>4. prf' \in [PRF -> W!Bit]
    BY PrfFields
<1> QED BY <1>1, <1>3, <1>4 DEF W!TypeOK, Op, MultType

\* After a misprediction nothing is left.
LEMMA MispredictInv ==
    ASSUME WakeupInv, W!WakeupAssumption, NEW sel \in W!Selections, NEW k \in 0..N,
           W!Mispredict(k, sel, W!Cdb(sel))
    PROVE  W!TypeOK' /\ W!Placement'
<1>1. Mispredict(k, W!Completing(sel), FALSE)
    BY SameSteps DEF W!Mispredict
<1>2. window' = <<>> /\ ops' = <<>> /\ Len(ops') = 0
    <2>1. ops' = <<>>
        BY Zenon DEF W!Mispredict
    <2> QED BY <1>1, <2>1 DEF Mispredict, Empty
<1>3. mult' \in [W!Mults -> MultType]
    <2>1. W!n_mult(sel, W!NoIssue) \in [W!Mults -> MultType]
        <3>1. \A u \in Units : W!NoIssue[u] # 0 => W!NoIssue[u] \in 1..Len(ops)
            BY DEF W!NoIssue
        <3> QED BY <3>1, MultFields
    <2>2. ASSUME NEW r \in MultType
          PROVE  [r EXCEPT !.operand = 0, !.m_reset = TRUE, !.valid = FALSE] \in MultType
        <3>1. 0 \in W!Bit
            BY DEF W!Bit
        <3> QED BY <3>1 DEF MultType
    <2> QED BY <2>1, <2>2 DEF W!Mispredict
<1>4. prf' \in [PRF -> W!Bit]
    BY PrfFields DEF W!Mispredict
<1>5. W!TypeOK'
    <2>1. rob_commit' \in 0..N
        BY Zenon DEF W!Mispredict
    <2>2. ops' \in Seq(Op) /\ Len(ops') = Len(window')
        BY <1>2
    <2> QED BY <1>3, <1>4, <2>1, <2>2 DEF W!TypeOK, MultType, Op
<1>6. PlacementOf(ops', window', dispatched')
    <2>1. 1..Len(ops') = {} /\ InOf(ops', "RS") = {}
        BY <1>2 DEF InOf
    <2>2. Cardinality(InOf(ops', "RS")) = 0
        BY <2>1, FS_EmptySet
    <2> QED BY <2>1, <2>2 DEF PlacementOf, W!WakeupAssumption
<1> QED BY <1>2, <1>5, <1>6, PlacementIs

-----------------------------------------------------------------------------
(* Wakeup implements Rename                                                *)

\* What a step is: one of the three actions, with what it chooses.
LEMMA Steps ==
    ASSUME W!Next
    PROVE  \E k \in 0..N, sel \in W!Selections :
             \/ \E issue \in W!Issues(sel) : W!Stall(k, sel, W!Cdb(sel), issue)
             \/ \E issue \in W!Issues(sel), d \in Groups :
                  /\ W!Initialized(d)
                  /\ \E types \in W!TypesOf(d), gnt \in W!Grants(d) :
                        W!Dispatch(k, sel, W!Cdb(sel), issue, d, types, gnt)
             \/ W!Mispredict(k, sel, W!Cdb(sel))
BY Zenon, SameGroup DEF W!Next

LEMMA RenameStep ==
    ASSUME WakeupInv, W!WakeupAssumption, FALSE \in X0Loads, W!Next
    PROVE  Next
<1>1. PICK k \in 0..N, sel \in W!Selections :
        \/ \E issue \in W!Issues(sel) : W!Stall(k, sel, W!Cdb(sel), issue)
        \/ \E issue \in W!Issues(sel), d \in Groups :
             /\ W!Initialized(d)
             /\ \E types \in W!TypesOf(d), gnt \in W!Grants(d) :
                   W!Dispatch(k, sel, W!Cdb(sel), issue, d, types, gnt)
        \/ W!Mispredict(k, sel, W!Cdb(sel))
    BY Steps
<1>2. W!Completing(sel) \in SUBSET (1..dispatched)
    BY CompletingType
<1>3. \/ Stall(k, W!Completing(sel), FALSE)
      \/ \E d \in Groups, gnt \in Grants : Dispatch(k, W!Completing(sel), FALSE, d, gnt)
      \/ Mispredict(k, W!Completing(sel), FALSE)
    <2>1. ASSUME NEW issue \in W!Issues(sel), W!Stall(k, sel, W!Cdb(sel), issue)
          PROVE  Stall(k, W!Completing(sel), FALSE)
        BY <2>1, StallMoves
    <2>2. ASSUME NEW issue \in W!Issues(sel), NEW d \in Groups,
                 NEW types \in W!TypesOf(d), NEW gnt \in W!Grants(d),
                 W!Dispatch(k, sel, W!Cdb(sel), issue, d, types, gnt)
          PROVE  \E g \in Grants : Dispatch(k, W!Completing(sel), FALSE, d, g)
        BY <2>2, DispatchRenames
    <2>3. ASSUME W!Mispredict(k, sel, W!Cdb(sel))
          PROVE  Mispredict(k, W!Completing(sel), FALSE)
        BY <2>3, Zenon, SameSteps DEF W!Mispredict
    <2> QED BY <1>1, <2>1, <2>2, <2>3
<1> QED BY Zenon, <1>2, <1>3 DEF Next

LEMMA FrameInv ==
    ASSUME WakeupInv, W!WakeupAssumption, NEW sel \in W!Selections,
           NEW issue \in W!Issues(sel), NEW stall \in BOOLEAN,
           NEW m \in Nat, NEW n \in 0..N, NEW k \in 0..N, NEW d, NEW types, NEW gnt,
           Frame(m, n, k, sel, issue, stall, d, types, gnt),
           mult' = W!n_mult(sel, issue), prf' = W!n_prf(W!Cdb(sel)), rob_commit' = k
    PROVE  W!TypeOK' /\ W!Placement'
BY TypesFrame, PlacementFrame

LEMMA WakeupInductive ==
    ASSUME W!WakeupAssumption, FALSE \in X0Loads
    PROVE  WakeupInv /\ [W!Next]_(W!vars) => WakeupInv'
<1> SUFFICES ASSUME WakeupInv, [W!Next]_(W!vars) PROVE WakeupInv'
    OBVIOUS
<1>1. CASE UNCHANGED W!vars
    <2>1. /\ ops' = ops /\ prf' = prf /\ mult' = mult /\ rob_commit' = rob_commit
          /\ UNCHANGED vars
        BY <1>1 DEF W!vars, W!renameVars, vars
    <2>2. TypeOK'
        BY <2>1, TypeInductive DEF WakeupInv
    <2>3. window' = window /\ dispatched' = dispatched
        BY <2>1 DEF vars
    <2>4. W!TypeOK'
        BY <2>1, <2>3 DEF WakeupInv, W!TypeOK
    <2>5. W!Placement'
        BY <2>1, <2>3, PlacementIs, OpsFields DEF WakeupInv
    <2> QED BY <2>2, <2>4, <2>5 DEF WakeupInv
<1>2. CASE W!Next
    <2>1. TypeOK'
        BY <1>2, RenameStep, TypeInductive DEF WakeupInv
    <2>2. PICK k \in 0..N, sel \in W!Selections :
            \/ \E issue \in W!Issues(sel) : W!Stall(k, sel, W!Cdb(sel), issue)
            \/ \E issue \in W!Issues(sel), d \in Groups :
                 /\ W!Initialized(d)
                 /\ \E types \in W!TypesOf(d), gnt \in W!Grants(d) :
                       W!Dispatch(k, sel, W!Cdb(sel), issue, d, types, gnt)
            \/ W!Mispredict(k, sel, W!Cdb(sel))
        BY <1>2, Steps
    <2>3. ASSUME NEW issue \in W!Issues(sel), W!Stall(k, sel, W!Cdb(sel), issue)
          PROVE  W!TypeOK' /\ W!Placement'
        <3>1. PICK m \in Nat, stall \in BOOLEAN :
                Frame(m, 0, k, sel, issue, stall, Empty, Empty, NoGrant)
            BY <2>3, StallFrame
        <3>2. /\ mult' = W!n_mult(sel, issue) /\ prf' = W!n_prf(W!Cdb(sel))
              /\ rob_commit' = k
            BY <2>3, Zenon DEF W!Stall
        <3>3. 0 \in 0..N
            OBVIOUS
        <3> QED BY <3>1, <3>2, <3>3, FrameInv
    <2>4. ASSUME NEW issue \in W!Issues(sel), NEW d \in Groups,
                 NEW types \in W!TypesOf(d), NEW gnt \in W!Grants(d),
                 W!Dispatch(k, sel, W!Cdb(sel), issue, d, types, gnt)
          PROVE  W!TypeOK' /\ W!Placement'
        <3>1. PICK m \in Nat, n \in 0..N, stall \in BOOLEAN :
                Frame(m, n, k, sel, issue, stall, d, types, gnt)
            BY <2>4, DispatchFrame
        <3>2. /\ mult' = W!n_mult(sel, issue) /\ prf' = W!n_prf(W!Cdb(sel))
              /\ rob_commit' = k
            BY <2>4, Zenon DEF W!Dispatch
        <3> QED BY <3>1, <3>2, FrameInv
    <2>5. W!TypeOK' /\ W!Placement'
        BY <2>2, <2>3, <2>4, MispredictInv
    <2> QED BY <2>1, <2>5 DEF WakeupInv
<1> QED BY <1>1, <1>2

LEMMA WakeupInit ==
    ASSUME W!WakeupAssumption, W!Init
    PROVE  Init /\ WakeupInv
<1>1. Init
    BY Zenon DEF W!Init, W!R!Init, Init
<1>2. TypeOK
    BY <1>1, EmptySeq DEF Init, TypeOK
<1>3. /\ ops = <<>> /\ prf = [p \in PRF |-> 0] /\ rob_commit = 0
      /\ mult = [u \in W!Mults |-> W!IdleMult]
    BY Zenon DEF W!Init
<1>4. window = <<>> /\ Len(ops) = 0 /\ Len(window) = 0
    BY <1>1, <1>3 DEF Init
<1>5. mult \in [W!Mults -> MultType]
    <2>1. W!IdleMult \in MultType
        BY DEF W!IdleMult, MultType, W!Bit
    <2> QED BY <1>3, <2>1
<1>6. W!TypeOK
    <2>1. ops \in Seq(Op) /\ Len(ops) = Len(window)
        BY <1>3, <1>4
    <2>2. prf \in [PRF -> W!Bit] /\ rob_commit \in 0..N
        BY <1>3 DEF W!Bit
    <2> QED BY <1>5, <2>1, <2>2 DEF W!TypeOK, Op, MultType
<1>7. PlacementOf(ops, window, dispatched)
    <2>1. 1..Len(ops) = {} /\ InOf(ops, "RS") = {}
        BY <1>4 DEF InOf
    <2>2. Cardinality(InOf(ops, "RS")) = 0
        BY <2>1, FS_EmptySet
    <2> QED BY <2>1, <2>2 DEF PlacementOf, W!WakeupAssumption
<1> QED BY <1>1, <1>2, <1>4, <1>6, <1>7, PlacementIs DEF WakeupInv

\* The operations are typed, beside the window, in every reachable state.
THEOREM WakeupTypeCorrect ==
    ASSUME W!WakeupAssumption, FALSE \in X0Loads
    PROVE  W!Spec => []W!TypeOK
<1>1. W!Init => WakeupInv
    BY WakeupInit
<1>2. WakeupInv /\ [W!Next]_(W!vars) => WakeupInv'
    BY WakeupInductive
<1>3. WakeupInv => W!TypeOK
    BY DEF WakeupInv
<1> QED BY <1>1, <1>2, <1>3, PTL DEF W!Spec

\* An instruction on its way from rename to the bus is in exactly one place:
\* no unit ever works on two, the stations never hold more than they have
\* entries, and what waits in ID/EX is what has not been dispatched.
THEOREM NothingLostOnTheWay ==
    ASSUME W!WakeupAssumption, FALSE \in X0Loads
    PROVE  W!Spec => []W!Placement
<1>1. W!Init => WakeupInv
    BY WakeupInit
<1>2. WakeupInv /\ [W!Next]_(W!vars) => WakeupInv'
    BY WakeupInductive
<1>3. WakeupInv => W!Placement
    BY DEF WakeupInv
<1> QED BY <1>1, <1>2, <1>3, PTL DEF W!Spec

\* The stations, units and buses broadcast only as Rename lets its environment
\* do, so that what holds of Rename holds of the two together.
THEOREM WakeupImplementsRename ==
    ASSUME W!WakeupAssumption, FALSE \in X0Loads
    PROVE  W!Spec => Spec
<1>1. W!Init => Init /\ WakeupInv
    BY WakeupInit
<1>2. WakeupInv /\ [W!Next]_(W!vars) => WakeupInv'
    BY WakeupInductive
<1>3. WakeupInv /\ [W!Next]_(W!vars) => [Next]_vars
    <2>1. UNCHANGED W!vars => UNCHANGED vars
        BY DEF W!vars, W!renameVars, vars
    <2> QED BY <2>1, RenameStep
<1> QED BY <1>1, <1>2, <1>3, PTL DEF W!Spec, Spec

-----------------------------------------------------------------------------
(* No lost wakeup                                                          *)

\* NoLostWakeup of operations o beside window w.  It holds on because what is
\* waited for is not x0: a write to x0 would not be broadcast.
Awaits(o, w) ==
    \A i \in 1..Len(o) : ~o[i].ready =>
        /\ w[i].src_arf # ZERO_REG
        /\ \E j \in 1..(i - 1) : /\ ~w[j].executed
                                 /\ w[j].dest_arf = w[i].src_arf
                                 /\ w[j].dest_prf = w[i].src_prf

\* A result with a destination that is taken from its unit is on a bus.
LEMMA Broadcast ==
    ASSUME WakeupInv, W!WakeupAssumption, NEW sel \in W!Selections,
           NEW j \in W!Completing(sel), window[j].dest_arf # ZERO_REG
    PROVE  window[j].dest_prf \in DOMAIN W!Cdb(sel)
<1>1. PICK u \in sel : j = W!Holder(u)
    BY DEF W!Completing
<1>2. u \in W!value_valid(sel) /\ W!dest_prf(u) = window[j].dest_prf
    BY <1>1 DEF W!value_valid, W!dest_prf
<1> QED BY <1>2 DEF W!Cdb

\* A writer in flight that has not executed and whose result is not on a bus
\* is still in flight, and has still not executed, after the edge.
LEMMA StillAwaited ==
    ASSUME WakeupInv, W!WakeupAssumption, NEW sel \in W!Selections,
           NEW issue \in W!Issues(sel), NEW stall \in BOOLEAN,
           NEW m \in Nat, NEW n \in 0..N, NEW k, NEW d, NEW types, NEW gnt,
           Frame(m, n, k, sel, issue, stall, d, types, gnt),
           NEW j \in 1..Len(ops), ~window[j].executed,
           window[j].dest_arf # ZERO_REG, window[j].dest_prf \notin DOMAIN W!Cdb(sel)
    PROVE  \E l \in 1..m : /\ j = l + k /\ ~window'[l].executed
                           /\ window'[l].dest_arf = window[j].dest_arf
                           /\ window'[l].dest_prf = window[j].dest_prf
<1>1. k \in Nat /\ Len(ops) = m + k /\ \A i \in 1..k : window[i].executed
    BY OpsFields DEF Frame, Edge
<1>2. PICK l \in 1..m : j = l + k
    <2>1. j - k \in 1..m /\ j = (j - k) + k
        BY <1>1
    <2> QED BY <2>1
<1>3. j \notin W!Completing(sel)
    BY Broadcast
<1>4. /\ window'[l].dest_arf = window[l + k].dest_arf
      /\ window'[l].dest_prf = window[l + k].dest_prf
      /\ window'[l].executed <=> (window[l + k].executed \/ (l + k) \in W!Completing(sel))
    BY DEF Frame, Edge
<1> QED BY <1>2, <1>3, <1>4

\* An edge keeps it: for what stays by StillAwaited, for a slot of the group
\* because the register it reads is that of an earlier slot, or of a writer in
\* flight, or has been written (DataFlow); in the last two cases the ready bits
\* tell which (ReadyExact).
LEMMA AwaitsFrame ==
    ASSUME WakeupInv, W!WakeupAssumption, DataFlow, ReadyExact, Awaits(ops, window),
           NEW sel \in W!Selections, NEW issue \in W!Issues(sel), NEW stall \in BOOLEAN,
           NEW m \in Nat, NEW n \in 0..N, NEW k, NEW d, NEW types, NEW gnt,
           Frame(m, n, k, sel, issue, stall, d, types, gnt), n # 0 => W!Initialized(d)
    PROVE  Awaits(ops', window')
<1>0. k \in Nat /\ Len(ops) = m + k /\ Len(ops') = m + n
    BY OpsFields DEF Frame, Edge, Moves
<1> SUFFICES ASSUME NEW i \in 1..Len(ops'), ~ops'[i].ready
             PROVE  /\ window'[i].src_arf # ZERO_REG
                    /\ \E j \in 1..(i - 1) :
                        /\ ~window'[j].executed
                        /\ window'[j].dest_arf = window'[i].src_arf
                        /\ window'[j].dest_prf = window'[i].src_prf
    BY DEF Awaits
<1>1. CASE /\ i \in 1..m /\ i + k \in 1..Len(ops)
           /\ ops'[i] = W!Moved(i + k, sel, W!Cdb(sel), issue, stall)
    <2>1. ~ops[i + k].ready /\ window[i + k].src_prf \notin DOMAIN W!Cdb(sel)
        <3>1. PICK l, mo : l = i + k /\ mo = W!Moved(l, sel, W!Cdb(sel), issue, stall)
            OBVIOUS
        <3>2. l \in 1..Len(ops) /\ ~mo.ready
            BY <1>1, <3>1
        <3>3. ~ops[l].ready /\ window[l].src_prf \notin DOMAIN W!Cdb(sel)
            BY <3>1, <3>2, MovedFields
        <3> QED BY <3>1, <3>3
    <2>2. window'[i].src_arf = window[i + k].src_arf
          /\ window'[i].src_prf = window[i + k].src_prf
        BY <1>1 DEF Frame, Edge
    <2>3. PICK j \in 1..(i + k - 1) : /\ ~window[j].executed
                                      /\ window[j].dest_arf = window[i + k].src_arf
                                      /\ window[j].dest_prf = window[i + k].src_prf
        <3>1. PICK l : l = i + k
            OBVIOUS
        <3>2. \E j \in 1..(l - 1) : /\ ~window[j].executed
                                    /\ window[j].dest_arf = window[l].src_arf
                                    /\ window[j].dest_prf = window[l].src_prf
            BY <1>1, <2>1, <3>1 DEF Awaits
        <3>3. l - 1 = i + k - 1
            BY <1>0, <1>1, <3>1
        <3> QED BY <3>1, <3>2, <3>3
    <2>4. window[i + k].src_arf # ZERO_REG
        BY <1>1, <2>1 DEF Awaits
    <2>5. j \in 1..Len(ops)
        BY <1>0, <1>1
    <2>6. PICK l \in 1..m : /\ j = l + k /\ ~window'[l].executed
                            /\ window'[l].dest_arf = window[j].dest_arf
                            /\ window'[l].dest_prf = window[j].dest_prf
        BY <2>1, <2>3, <2>4, <2>5, StillAwaited
    <2>7. l \in 1..(i - 1)
        BY <1>0, <1>1, <2>6
    <2> QED BY <2>2, <2>3, <2>4, <2>6, <2>7
<1>2. ASSUME NEW x \in 1..n, i = m + x, d[x].src # ZERO_REG,
             phys_reg_src(d, gnt, x) \notin ready,
             phys_reg_src(d, gnt, x) \notin DOMAIN W!Cdb(sel)
      PROVE  /\ window'[i].src_arf # ZERO_REG
             /\ \E j \in 1..(i - 1) :
                 /\ ~window'[j].executed
                 /\ window'[j].dest_arf = window'[i].src_arf
                 /\ window'[j].dest_prf = window'[i].src_prf
    <2>1. /\ window'[i].src_arf = d[x].src
          /\ window'[i].src_prf = phys_reg_src(d, gnt, x)
          /\ \A y \in 1..n : /\ window'[m + y].dest_arf = d[y].dest
                             /\ window'[m + y].dest_prf = phys_reg_dest(d, gnt, y)
                             /\ ~window'[m + y].executed
          /\ d \in [1..n -> Slots]
        BY <1>2 DEF Frame, Edge, W!WakeupAssumption
    <2>2. CASE Forwarders(d, x) # {}
        <3>1. Forwarders(d, x) \in SUBSET (1..(x - 1)) /\ x - 1 \in Int
            BY DEF Forwarders
        <3>2. \E j \in Forwarders(d, x) : \A l \in Forwarders(d, x) : l <= j
            BY <3>1, <2>2, MaxExists
        <3>3. PICK f : f = CHOOSE j \in Forwarders(d, x) :
                                \A l \in Forwarders(d, x) : l <= j
            OBVIOUS
        <3>4. f \in Forwarders(d, x)
            BY <3>2, <3>3
        <3>5. f \in 1..(x - 1) /\ d[f].dest = d[x].src
            BY <3>4 DEF Forwarders
        <3>6. phys_reg_src(d, gnt, x) = phys_reg_dest(d, gnt, f)
            BY <2>2, <3>3 DEF phys_reg_src
        <3>7. f \in 1..n /\ m + f \in 1..(i - 1)
            BY <1>2, <3>5
        <3> QED BY <1>2, <2>1, <3>5, <3>6, <3>7
    <2>3. CASE Forwarders(d, x) = {}
        <3> DEFINE a == d[x].src
                   p == rat_entries[d[x].src]
        <3>0. a \in ARF
            BY <2>1
        <3>1. phys_reg_src(d, gnt, x) = p
            BY <2>3 DEF phys_reg_src
        <3>2. Holds(Len(window) + 1, a, p)
            BY <3>0 DEF DataFlow
        <3>3. CASE \E j \in InFlight : window[j].dest_arf = a /\ window[j].dest_prf = p
            <4>1. PICK j \in InFlight : window[j].dest_arf = a /\ window[j].dest_prf = p
                BY <3>3
            <4>2. j \in 1..Len(ops) /\ window[j].dest_arf # ZERO_REG
                BY OpsFields DEF InFlight
            <4>3. ~window[j].executed
                BY <1>2, <3>1, <4>1 DEF ReadyExact
            <4>4. PICK l \in 1..m : /\ j = l + k /\ ~window'[l].executed
                                    /\ window'[l].dest_arf = window[j].dest_arf
                                    /\ window'[l].dest_prf = window[j].dest_prf
                BY <1>2, <3>1, <4>1, <4>2, <4>3, StillAwaited
            <4>5. l \in 1..(i - 1)
                BY <1>2
            <4> QED BY <1>2, <2>1, <3>1, <4>1, <4>4, <4>5
        <3>4. CASE /\ \A j \in InFlight : j < Len(window) + 1 => window[j].dest_arf # a
                   /\ rrat_entries[a] = p
            <4>1. x \in DOMAIN d /\ W!Initialized(d)
                BY <2>1
            <4>2. a \in W!Written \cup {ZERO_REG} \cup {d[j].dest : j \in 1..(x - 1)}
                BY <4>1 DEF W!Initialized
            <4>3. a \notin {d[j].dest : j \in 1..(x - 1)}
                BY <1>2, <2>3 DEF Forwarders
            <4>4. a \notin {window[j].dest_arf : j \in 1..Len(window)}
                <5>1. \A j \in 1..Len(window) : j < Len(window) + 1
                    BY OpsFields
                <5> QED BY <1>2, <3>4, <5>1 DEF InFlight
            <4>5. a \in rrat_valid
                BY <1>2, <4>2, <4>3, <4>4 DEF W!Written
            <4>6. p \in Mapped
                BY <3>4, <4>5 DEF Mapped
            <4>7. p \in ready
                BY <4>6 DEF ReadyExact
            <4> QED BY <1>2, <3>1, <4>7
        <3> QED BY <3>2, <3>3, <3>4 DEF Holds
    <2> QED BY <2>2, <2>3
<1>3. \/ /\ i \in 1..m /\ i + k \in 1..Len(ops)
         /\ ops'[i] = W!Moved(i + k, sel, W!Cdb(sel), issue, stall)
      \/ \E x \in 1..n : /\ i = m + x /\ d[x].src # ZERO_REG
                         /\ phys_reg_src(d, gnt, x) \notin ready
                         /\ phys_reg_src(d, gnt, x) \notin DOMAIN W!Cdb(sel)
    <2>1. OriginOf(i, m, n, k, sel, issue, stall, d, gnt)
        BY OpAfter
    <2> QED BY <2>1 DEF OriginOf
<1> QED BY <1>1, <1>2, <1>3

LEMMA AwaitsInductive ==
    ASSUME W!WakeupAssumption, WakeupInv, DataFlow, ReadyExact, Awaits(ops, window),
           [W!Next]_(W!vars)
    PROVE  Awaits(ops', window')
<1>1. CASE UNCHANGED W!vars
    <2>1. ops' = ops /\ window' = window
        BY <1>1 DEF W!vars, W!renameVars
    <2> QED BY <2>1
<1>2. CASE W!Next
    <2>1. PICK k \in 0..N, sel \in W!Selections :
            \/ \E issue \in W!Issues(sel) : W!Stall(k, sel, W!Cdb(sel), issue)
            \/ \E issue \in W!Issues(sel), d \in Groups :
                 /\ W!Initialized(d)
                 /\ \E types \in W!TypesOf(d), gnt \in W!Grants(d) :
                       W!Dispatch(k, sel, W!Cdb(sel), issue, d, types, gnt)
            \/ W!Mispredict(k, sel, W!Cdb(sel))
        BY <1>2, Steps
    <2>2. ASSUME NEW issue \in W!Issues(sel), W!Stall(k, sel, W!Cdb(sel), issue)
          PROVE  Awaits(ops', window')
        <3>1. PICK m \in Nat, stall \in BOOLEAN :
                Frame(m, 0, k, sel, issue, stall, Empty, Empty, NoGrant)
            BY <2>2, StallFrame
        <3>2. 0 \in 0..N
            OBVIOUS
        <3> QED BY <3>1, <3>2, AwaitsFrame
    <2>3. ASSUME NEW issue \in W!Issues(sel), NEW d \in Groups, W!Initialized(d),
                 NEW types \in W!TypesOf(d), NEW gnt \in W!Grants(d),
                 W!Dispatch(k, sel, W!Cdb(sel), issue, d, types, gnt)
          PROVE  Awaits(ops', window')
        <3>1. PICK m \in Nat, n \in 0..N, stall \in BOOLEAN :
                Frame(m, n, k, sel, issue, stall, d, types, gnt)
            BY <2>3, DispatchFrame
        <3> QED BY <2>3, <3>1, AwaitsFrame
    <2>4. ASSUME W!Mispredict(k, sel, W!Cdb(sel))
          PROVE  Awaits(ops', window')
        <3>1. ops' = <<>>
            BY <2>4, Zenon DEF W!Mispredict
        <3>2. 1..Len(ops') = {}
            BY <3>1
        <3> QED BY <3>2 DEF Awaits
    <2> QED BY <2>1, <2>2, <2>3, <2>4
<1> QED BY <1>1, <1>2

\* An operand that is not ready, in ID/EX or in a station, waits for an older
\* instruction in flight that has yet to broadcast it: nothing waits for ever,
\* however renaming, bypass, snooping and retirement fall together.  The loads
\* to x0 that lsq.sv lets broadcast are not in Wakeup, hence X0Loads = {FALSE}.
THEOREM NoWakeupIsLost ==
    ASSUME W!WakeupAssumption, X0Loads = {FALSE}
    PROVE  W!Spec => []W!NoLostWakeup
<1>0. FALSE \in X0Loads /\ X0Loads \subseteq {FALSE}
    OBVIOUS
<1>1. W!Init => Init /\ WakeupInv /\ Awaits(ops, window)
    <2> SUFFICES ASSUME W!Init PROVE Init /\ WakeupInv /\ Awaits(ops, window)
        OBVIOUS
    <2>1. ops = <<>>
        BY Zenon DEF W!Init
    <2>2. 1..Len(ops) = {}
        BY <2>1
    <2> QED BY <2>2, WakeupInit DEF Awaits
<1>2. WakeupInv /\ [W!Next]_(W!vars) => WakeupInv'
    BY <1>0, WakeupInductive
<1>3. W!Spec => Spec
    BY <1>0, WakeupImplementsRename
<1>4. Spec => []ReadyExact
    BY <1>0, ReadyBitsExact
<1>5. WakeupInv /\ DataFlow /\ ReadyExact /\ Awaits(ops, window) /\ [W!Next]_(W!vars)
        => Awaits(ops, window)'
    BY AwaitsInductive
<1>6. Awaits(ops, window) => W!NoLostWakeup
    BY DEF Awaits, W!NoLostWakeup
<1> QED BY <1>1, <1>2, <1>3, <1>4, <1>5, <1>6, ReadsProgramOrder, PTL DEF W!Spec

-----------------------------------------------------------------------------
(* The program is executed                                                 *)

\* The value that instruction i of window w reads from registers v, and that it
\* can be read: x0 is zero, the others must be ready (r).
SourceOf(w, v, i) == IF w[i].src_arf = ZERO_REG THEN 0 ELSE v[w[i].src_prf]
ReadableIn(w, r, i) == w[i].src_arf = ZERO_REG \/ w[i].src_prf \in r

\* Every register that is read has been written, or will have been.
SourcedIn(w, valid) ==
    \A i \in 1..Len(w) : w[i].src_arf # ZERO_REG =>
        w[i].src_arf \in valid \/ \E j \in 1..(i - 1) : w[j].dest_arf = w[i].src_arf

\* An operand that is ready is the value of the register it was read from.
OperandsIn(o, w, r, v) ==
    \A i \in 1..Len(o) : o[i].ready /\ o[i].at # "CDB" =>
        ReadableIn(w, r, i) /\ o[i].value = SourceOf(w, v, i)

\* What has executed has left its result in its register, and what it was
\* computed from is still in the register it read.
ResultsIn(w, r, v) ==
    \A i \in 1..Len(w) : w[i].executed =>
        /\ ReadableIn(w, r, i)
        /\ w[i].dest_arf # ZERO_REG =>
            v[w[i].dest_prf] = W!Complement(SourceOf(w, v, i))

\* A multiplier works on the operand of its instruction, in every stage that is
\* done, and what it announces comes out of the last stage.
Occupied(o, u) == \E i \in 1..Len(o) : o[i].at = u
MultWorks(o, x, u) ==
    /\ \A i \in 1..Len(o) : o[i].at = u => x.operand = o[i].value
    /\ x.valid => Occupied(o, u) /\ ~x.m_reset /\ x.done[MULT_STAGES]
    /\ ~x.m_reset => \A s \in W!Stages : x.done[s] => x.data[s] = x.operand
    /\ ~x.m_reset /\ Occupied(o, u) =>
        \A s \in W!Stages \ {1} : x.done[s] => x.done[s - 1]
MultsIn(o, mu) == \A u \in W!Mults : MultWorks(o, mu[u], u)

ValuesInv == /\ SourcedIn(window, rrat_valid)
             /\ OperandsIn(ops, window, ready, prf)
             /\ ResultsIn(window, ready, prf)
             /\ MultsIn(ops, mult)

\* What is known of renaming.
RenameInv == Conservation /\ DataFlow /\ ReadyExact

\* The register an instruction reads is owned.
LEMMA LiveSource ==
    ASSUME NEW w, NEW map, NEW rat, NEW valid, DataFlowIn(w, map, rat),
           SourcedIn(w, valid), NEW i \in 1..Len(w), w[i].src_arf # ZERO_REG
    PROVE  w[i].src_prf \in {map[a] : a \in valid} \cup {w[j].dest_prf : j \in WritersIn(w)}
<1>1. HoldsIn(w, map, i, w[i].src_arf, w[i].src_prf)
    BY DEF DataFlowIn
<1>2. CASE \E j \in WritersIn(w) : w[j].dest_prf = w[i].src_prf
    BY <1>2
<1>3. CASE /\ \A j \in WritersIn(w) : j < i => w[j].dest_arf # w[i].src_arf
           /\ map[w[i].src_arf] = w[i].src_prf
    <2>1. \A j \in 1..(i - 1) : w[j].dest_arf # w[i].src_arf
        <3>1. \A j \in 1..(i - 1) : j \in 1..Len(w) /\ j < i
            OBVIOUS
        <3> QED BY <1>3, <3>1 DEF WritersIn
    <2>2. w[i].src_arf \in valid
        BY <2>1 DEF SourcedIn
    <2> QED BY <1>3, <2>2
<1> QED BY <1>1, <1>2, <1>3 DEF HoldsIn

\* What is broadcast is the result of an instruction in flight that has not
\* executed; so nobody has it yet.
LEMMA TakenWriter ==
    ASSUME WakeupInv, W!WakeupAssumption, NEW sel \in W!Selections,
           NEW u \in W!value_valid(sel)
    PROVE  /\ u \in sel /\ W!Holder(u) \in InFlight /\ ~window[W!Holder(u)].executed
           /\ W!dest_prf(u) = window[W!Holder(u)].dest_prf
           /\ W!Holder(u) \in W!Completing(sel)
<1>1. u \in sel /\ window[W!Holder(u)].dest_arf # ZERO_REG
    BY DEF W!value_valid
<1>2. u \in Units /\ W!Holder(u) \in 1..Len(ops) /\ ops[W!Holder(u)].at = u
    BY <1>1, SelectedUnit
<1>3. W!Holder(u) \in InFlight
    BY <1>1, <1>2, OpsFields DEF InFlight
<1>4. ~window[W!Holder(u)].executed
    BY <1>2, OpsFields DEF PlacementOf
<1> QED BY <1>1, <1>3, <1>4 DEF W!dest_prf, W!Completing

LEMMA FreshBroadcast ==
    ASSUME WakeupInv, W!WakeupAssumption, SingleOwner, ReadyExact, NEW sel \in W!Selections
    PROVE  /\ \A p \in DOMAIN W!Cdb(sel) : p \notin ready
           /\ \A p \in DOMAIN W!Cdb(sel) : p \in Woken(W!Completing(sel), FALSE)
<1> SUFFICES ASSUME NEW p \in DOMAIN W!Cdb(sel)
             PROVE  p \notin ready /\ p \in Woken(W!Completing(sel), FALSE)
    OBVIOUS
<1>1. PICK u \in W!value_valid(sel) : W!dest_prf(u) = p
    BY DEF W!Cdb
<1>2. PICK j \in InFlight : /\ ~window[j].executed /\ window[j].dest_prf = p
                            /\ j \in W!Completing(sel)
    BY <1>1, TakenWriter
<1>3. p \notin Mapped
    BY <1>2 DEF SingleOwner, Pending
<1>4. p \notin {window[i].dest_prf : i \in {l \in InFlight : window[l].executed}}
    BY <1>2 DEF SingleOwner
<1>5. p \in Woken(W!Completing(sel), FALSE)
    BY <1>2 DEF Woken, InFlight
<1> QED BY <1>3, <1>4, <1>5 DEF ReadyExact

\* The value on the bus for the destination of what completes is the result of
\* the unit it was in.
LEMMA BroadcastValue ==
    ASSUME WakeupInv, W!WakeupAssumption, SingleOwner, NEW sel \in W!Selections,
           NEW u \in sel, window[W!Holder(u)].dest_arf # ZERO_REG
    PROVE  /\ window[W!Holder(u)].dest_prf \in DOMAIN W!Cdb(sel)
           /\ W!Cdb(sel)[window[W!Holder(u)].dest_prf] = W!Result(u)
<1>1. u \in W!value_valid(sel)
    BY DEF W!value_valid
<1>2. PICK p : p = window[W!Holder(u)].dest_prf
    OBVIOUS
<1>3. W!dest_prf(u) = p
    BY <1>2 DEF W!dest_prf
<1>4. p \in DOMAIN W!Cdb(sel)
    BY <1>1, <1>3 DEF W!Cdb
<1>5. PICK v : v = CHOOSE x \in W!value_valid(sel) : W!dest_prf(x) = p
    OBVIOUS
<1>6. v \in W!value_valid(sel) /\ W!dest_prf(v) = p
    BY <1>1, <1>3, <1>5
<1>7. W!Holder(u) = W!Holder(v)
    BY <1>1, <1>3, <1>6, TakenWriter DEF SingleOwner
<1>8. ops[W!Holder(u)].at = u /\ ops[W!Holder(v)].at = v
    BY <1>6, SelectedUnit, TakenWriter
<1>9. u = v
    BY <1>7, <1>8
<1>10. W!Cdb(sel)[p] = W!Result(v)
    BY <1>4, <1>5 DEF W!Cdb
<1> QED BY <1>2, <1>4, <1>9, <1>10

\* The clock edge, as the registers see it.
RegisterEdge(k, sel) ==
    /\ prf' = W!n_prf(W!Cdb(sel))
    /\ Retire(k)
    /\ \E freed : /\ ready' = (ready \cup Woken(W!Completing(sel), FALSE)) \ freed
                  /\ \A p \in Mapped' \cup Pending' : p \notin freed

\* A register that somebody owns after the edge keeps its value, or has it from
\* a bus.
LEMMA KeptValue ==
    ASSUME WakeupInv, W!WakeupAssumption, SingleOwner, ReadyExact,
           NEW sel \in W!Selections, NEW k, RegisterEdge(k, sel),
           NEW p \in PRF, p \in Mapped' \cup Pending'
    PROVE  /\ p \in ready => p \in ready' /\ prf'[p] = prf[p]
           /\ p \in DOMAIN W!Cdb(sel) => p \in ready' /\ prf'[p] = W!Cdb(sel)[p]
<1>1. p \in ready \/ p \in DOMAIN W!Cdb(sel) => p \in ready'
    BY FreshBroadcast DEF RegisterEdge
<1>2. prf'[p] = CASE p \in ready' /\ p \in DOMAIN W!Cdb(sel) -> W!Cdb(sel)[p]
                  [] p \in ready' /\ p \notin DOMAIN W!Cdb(sel) -> prf[p]
                  [] p \notin ready' -> 0
    BY DEF RegisterEdge, W!n_prf
<1>3. CASE p \in DOMAIN W!Cdb(sel)
    BY <1>1, <1>2, <1>3, FreshBroadcast
<1>4. CASE p \notin DOMAIN W!Cdb(sel)
    BY <1>1, <1>2, <1>4
<1> QED BY <1>3, <1>4

\* A multiplier or an adder gives the result of the instruction in it.
LEMMA ResultIs ==
    ASSUME WakeupInv, W!WakeupAssumption, OperandsIn(ops, window, ready, prf),
           MultsIn(ops, mult), NEW sel \in W!Selections, NEW u \in sel
    PROVE  /\ ReadableIn(window, ready, W!Holder(u))
           /\ W!Result(u) = W!Complement(SourceOf(window, prf, W!Holder(u)))
<1>1. PICK j : j = W!Holder(u)
    OBVIOUS
<1>2. u \in Units /\ j \in 1..Len(ops) /\ ops[j].at = u
    BY <1>1, SelectedUnit
<1>3. ops[j].ready /\ ops[j].at # "CDB"
    BY <1>2, OpsFields DEF PlacementOf
<1>4. ReadableIn(window, ready, j) /\ ops[j].value = SourceOf(window, prf, j)
    BY <1>2, <1>3 DEF OperandsIn
<1>5. CASE u \in W!Mults
    <2>1. mult[u].valid
        BY <1>5 DEF W!Selections, W!output_ready
    <2>2. MultWorks(ops, mult[u], u)
        BY <1>5 DEF MultsIn
    <2>3. mult[u].operand = ops[j].value
        BY <1>2, <2>2 DEF MultWorks
    <2>4. ~mult[u].m_reset /\ mult[u].done[MULT_STAGES] /\ MULT_STAGES \in W!Stages
        BY <2>1, <2>2 DEF MultWorks, W!Stages, W!WakeupAssumption
    <2>5. mult[u].data[MULT_STAGES] = mult[u].operand
        BY <2>2, <2>4 DEF MultWorks
    <2> QED BY <1>1, <1>4, <1>5, <2>3, <2>5 DEF W!Result
<1>6. CASE u \notin W!Mults
    BY <1>1, <1>4, <1>6 DEF W!Result
<1> QED BY <1>5, <1>6

\* Snooping changes the value of an operand that was not ready only.
LEMMA SnoopValue ==
    ASSUME NEW op \in Op, NEW p, NEW cdb
    PROVE  W!Snoop(op, p, cdb).value =
                IF ~op.ready /\ p \in DOMAIN cdb THEN cdb[p] ELSE op.value
<1>1. CASE ~op.ready /\ p \in DOMAIN cdb
    <2>1. W!Snoop(op, p, cdb) = [op EXCEPT !.ready = TRUE, !.value = cdb[p]]
        BY <1>1 DEF W!Snoop
    <2> QED BY <1>1, <2>1 DEF Op
<1>2. CASE ~(~op.ready /\ p \in DOMAIN cdb)
    BY <1>2 DEF W!Snoop
<1> QED BY <1>1, <1>2

LEMMA MovedValue ==
    ASSUME WakeupInv, W!WakeupAssumption, NEW sel \in W!Selections,
           NEW issue \in W!Issues(sel), NEW stall \in BOOLEAN, NEW i \in 1..Len(ops),
           ops[i].at \notin sel, NEW mo, mo = W!Moved(i, sel, W!Cdb(sel), issue, stall)
    PROVE  mo.value = IF ~ops[i].ready /\ window[i].src_prf \in DOMAIN W!Cdb(sel)
                      THEN W!Cdb(sel)[window[i].src_prf] ELSE ops[i].value
<1>0. PICK sn : sn = W!Snoop(ops[i], window[i].src_prf, W!Cdb(sel))
    OBVIOUS
<1>1. sn \in Op /\ sn.at = ops[i].at
    BY <1>0, SnoopFields, CdbType, OpsFields
<1>2. sn.value = IF ~ops[i].ready /\ window[i].src_prf \in DOMAIN W!Cdb(sel)
                 THEN W!Cdb(sel)[window[i].src_prf] ELSE ops[i].value
    BY <1>0, SnoopValue, OpsFields
<1>3. mo = MovedOf(sn, i, sel, issue, stall)
    BY <1>0, MovedIs
<1>4. CASE ops[i].at = "ID_EX"
    <2>1. mo = IF stall THEN sn ELSE [sn EXCEPT !.at = "RS"]
        BY <1>1, <1>3, <1>4 DEF MovedOf
    <2>2. mo.value = sn.value
        BY <1>1, <2>1 DEF Op
    <2> QED BY <1>2, <2>2
<1>5. CASE ops[i].at = "RS" /\ \E u \in W!Issuing(issue) : issue[u] = i
    <2>1. PICK u : u = CHOOSE v \in W!Issuing(issue) : issue[v] = i
        OBVIOUS
    <2>2. mo = [sn EXCEPT !.at = u]
        BY <1>1, <1>3, <1>5, <2>1 DEF MovedOf
    <2>3. mo.value = sn.value
        BY <1>1, <2>2 DEF Op
    <2> QED BY <1>2, <2>3
<1>6. CASE ops[i].at = "RS" /\ ~ \E u \in W!Issuing(issue) : issue[u] = i
    <2>1. mo = sn
        BY <1>1, <1>3, <1>6 DEF MovedOf
    <2> QED BY <1>2, <2>1
<1>7. CASE ops[i].at # "ID_EX" /\ ops[i].at # "RS"
    <2>1. mo = sn
        BY <1>1, <1>3, <1>7 DEF MovedOf
    <2> QED BY <1>2, <2>1
<1> QED BY <1>4, <1>5, <1>6, <1>7

\* Every register that is read after the edge has been written.
LEMMA SourcedFrame ==
    ASSUME WakeupInv, W!WakeupAssumption, SourcedIn(window, rrat_valid),
           NEW sel \in W!Selections, NEW issue, NEW stall \in BOOLEAN,
           NEW m \in Nat, NEW n \in 0..N, NEW k, NEW d, NEW types, NEW gnt,
           Frame(m, n, k, sel, issue, stall, d, types, gnt), n # 0 => W!Initialized(d),
           Retire(k)
    PROVE  SourcedIn(window', rrat_valid')
<1>0. /\ k \in Nat /\ Len(window) = m + k /\ Len(window') = m + n
      /\ d \in [1..n -> Slots]
    BY DEF Frame, Edge
<1> SUFFICES ASSUME NEW i \in 1..Len(window'), window'[i].src_arf # ZERO_REG
             PROVE  \/ window'[i].src_arf \in rrat_valid'
                    \/ \E j \in 1..(i - 1) : window'[j].dest_arf = window'[i].src_arf
    BY DEF SourcedIn
<1>1. rrat_valid' = rrat_valid \cup {window[j].dest_arf : j \in Writers(k)}
    BY DEF Retire, n_rrat_valid
\* a writer of the window that precedes the i-th, or has retired
<1>2. ASSUME NEW j \in 1..Len(window), window[j].dest_arf = window'[i].src_arf, j < i + k
      PROVE  \/ window'[i].src_arf \in rrat_valid'
             \/ \E x \in 1..(i - 1) : window'[x].dest_arf = window'[i].src_arf
    <2>1. CASE j <= k
        <3>1. j \in Writers(k)
            BY <1>0, <1>2, <2>1 DEF Writers
        <3> QED BY <1>1, <1>2, <3>1
    <2>2. CASE ~(j <= k)
        <3>1. PICK x : x = j - k
            OBVIOUS
        <3>2. x \in 1..m /\ x \in 1..(i - 1) /\ j = x + k
            BY <1>0, <1>2, <2>2, <3>1
        <3>3. window'[x].dest_arf = window[x + k].dest_arf
            BY <3>2 DEF Frame, Edge
        <3> QED BY <1>2, <3>2, <3>3
    <2> QED BY <2>1, <2>2
<1>3. CASE i \in 1..m
    <2>1. PICK l : l = i + k
        OBVIOUS
    <2>2. l \in 1..Len(window) /\ window'[i].src_arf = window[l].src_arf
        <3>1. window'[i].src_arf = window[i + k].src_arf
            BY <1>3 DEF Frame, Edge
        <3> QED BY <1>0, <1>3, <2>1, <3>1
    <2>3. window[l].src_arf \in rrat_valid
            \/ \E j \in 1..(l - 1) : window[j].dest_arf = window[l].src_arf
        BY <2>2 DEF SourcedIn
    <2>4. \A j \in 1..(l - 1) : j \in 1..Len(window) /\ j < i + k
        BY <1>0, <1>3, <2>1
    <2> QED BY <1>1, <1>2, <2>2, <2>3, <2>4
<1>4. CASE i \notin 1..m
    <2>1. PICK x \in 1..n : i = m + x
        <3>1. i - m \in 1..n /\ i = m + (i - m)
            BY <1>0, <1>4
        <3> QED BY <3>1
    <2>2. window'[i].src_arf = d[x].src /\ n # 0 /\ x \in DOMAIN d
        BY <1>0, <2>1 DEF Frame, Edge
    <2>3. d[x].src \in W!Written \cup {ZERO_REG} \cup {d[j].dest : j \in 1..(x - 1)}
        BY <2>2 DEF W!Initialized
    <2>4. CASE d[x].src \in rrat_valid
        BY <1>1, <2>2, <2>4
    <2>5. CASE \E j \in 1..Len(window) : window[j].dest_arf = d[x].src
        <3>1. \A j \in 1..Len(window) : j < i + k
            BY <1>0, <2>1
        <3> QED BY <1>2, <2>2, <2>5, <3>1
    <2>6. CASE \E j \in 1..(x - 1) : d[j].dest = d[x].src
        <3>1. PICK j \in 1..(x - 1) : d[j].dest = d[x].src
            BY <2>6
        <3>2. j \in 1..n /\ m + j \in 1..(i - 1)
            BY <2>1, <3>1
        <3>3. window'[m + j].dest_arf = d[j].dest
            BY <3>2 DEF Frame, Edge
        <3> QED BY <2>2, <3>1, <3>2, <3>3
    <2> QED BY <2>2, <2>3, <2>4, <2>5, <2>6 DEF W!Written
<1> QED BY <1>3, <1>4

LEMMA LiveAfter ==
    ASSUME DataFlow', SourcedIn(window', rrat_valid'), NEW i \in 1..Len(window'),
           window'[i].src_arf # ZERO_REG
    PROVE  window'[i].src_prf \in Mapped' \cup Pending'
<1>1. DataFlowIn(window', rrat_entries', rat_entries')
    BY DataFlowIs
<1>2. window'[i].src_prf \in {rrat_entries'[a] : a \in rrat_valid'}
                                \cup {window'[j].dest_prf : j \in WritersIn(window')}
    BY <1>1, LiveSource
<1>3. Mapped' = {rrat_entries'[a] : a \in rrat_valid'}
    BY DEF Mapped
<1>4. Pending' = {window'[j].dest_prf : j \in WritersIn(window')}
    BY DEF Pending, InFlight, WritersIn
<1> QED BY <1>2, <1>3, <1>4

\* What could be read before the edge reads the same after it.
LEMMA SameSource ==
    ASSUME WakeupInv, W!WakeupAssumption, SingleOwner, ReadyExact,
           NEW sel \in W!Selections, NEW k, RegisterEdge(k, sel),
           DataFlow', SourcedIn(window', rrat_valid'),
           NEW i \in 1..Len(window'), NEW l \in 1..Len(window),
           window'[i].src_arf = window[l].src_arf, window'[i].src_prf = window[l].src_prf,
           window[l].src_prf \in PRF, ReadableIn(window, ready, l)
    PROVE  /\ ReadableIn(window', ready', i)
           /\ SourceOf(window', prf', i) = SourceOf(window, prf, l)
<1>1. CASE window[l].src_arf = ZERO_REG
    BY <1>1 DEF ReadableIn, SourceOf
<1>2. CASE window[l].src_arf # ZERO_REG
    <2>1. window[l].src_prf \in ready
        BY <1>2 DEF ReadableIn
    <2>2. window[l].src_prf \in Mapped' \cup Pending'
        BY <1>2, LiveAfter
    <2>3. /\ window[l].src_prf \in ready'
          /\ prf'[window[l].src_prf] = prf[window[l].src_prf]
        BY <2>1, <2>2, KeptValue
    <2> QED BY <1>2, <2>3 DEF ReadableIn, SourceOf
<1> QED BY <1>1, <1>2

LEMMA OperandsFrame ==
    ASSUME WakeupInv, W!WakeupAssumption, SingleOwner, ReadyExact, Awaits(ops, window),
           OperandsIn(ops, window, ready, prf),
           NEW sel \in W!Selections, NEW issue \in W!Issues(sel), NEW stall \in BOOLEAN,
           NEW m \in Nat, NEW n \in 0..N, NEW k, NEW d, NEW types, NEW gnt,
           Frame(m, n, k, sel, issue, stall, d, types, gnt),
           RegisterEdge(k, sel), DataFlow', SourcedIn(window', rrat_valid')
    PROVE  OperandsIn(ops', window', ready', prf')
<1>0. /\ k \in Nat /\ Len(ops) = m + k /\ Len(ops') = m + n /\ Len(window') = m + n
      /\ window \in [1..(m + k) -> Entry] /\ Len(window) = m + k
    BY OpsFields DEF Frame, Edge, Moves
<1> SUFFICES ASSUME NEW i \in 1..Len(ops'), ops'[i].ready, ops'[i].at # "CDB"
             PROVE  /\ ReadableIn(window', ready', i)
                    /\ ops'[i].value = SourceOf(window', prf', i)
    BY DEF OperandsIn
<1>1. CASE i \in 1..m
    <2>1. PICK l, mo : l = i + k /\ mo = W!Moved(l, sel, W!Cdb(sel), issue, stall)
        OBVIOUS
    <2>2. l \in 1..Len(ops) /\ l \in 1..Len(window)
        BY <1>0, <1>1, <2>1
    <2>3. ops'[i] = mo
        BY <1>1, <2>1 DEF Frame, Moves
    <2>4. ops[l].at \notin sel /\ ops[l].at # "CDB"
        <3>1. "CDB" \notin sel
            BY SelectedUnit, OpsFields
        <3> QED BY <2>1, <2>2, <2>3, <3>1, MovedFields
    <2>5. ops[l].ready \/ window[l].src_prf \in DOMAIN W!Cdb(sel)
        BY <2>1, <2>2, <2>3, <2>4, MovedFields
    <2>6. mo.value = IF ~ops[l].ready /\ window[l].src_prf \in DOMAIN W!Cdb(sel)
                     THEN W!Cdb(sel)[window[l].src_prf] ELSE ops[l].value
        BY <2>1, <2>2, <2>4, MovedValue
    <2>7. /\ window'[i].src_arf = window[l].src_arf
          /\ window'[i].src_prf = window[l].src_prf
        BY <1>1, <2>1 DEF Frame, Edge
    <2>8. window[l].src_prf \in PRF /\ i \in 1..Len(window')
        BY <1>0, <2>2 DEF Entry
    <2>9. CASE ops[l].ready
        <3>1. ReadableIn(window, ready, l) /\ ops[l].value = SourceOf(window, prf, l)
            BY <2>2, <2>4, <2>9 DEF OperandsIn
        <3>2. /\ ReadableIn(window', ready', i)
              /\ SourceOf(window', prf', i) = SourceOf(window, prf, l)
            BY <2>2, <2>7, <2>8, <3>1, SameSource
        <3> QED BY <2>3, <2>6, <2>9, <3>1, <3>2
    <2>10. CASE ~ops[l].ready
        <3>1. window[l].src_arf # ZERO_REG
            BY <2>2, <2>10 DEF Awaits
        <3>2. window[l].src_prf \in Mapped' \cup Pending'
            BY <2>7, <2>8, <3>1, LiveAfter
        <3>3. /\ window[l].src_prf \in ready'
              /\ prf'[window[l].src_prf] = W!Cdb(sel)[window[l].src_prf]
            BY <2>5, <2>8, <2>10, <3>2, KeptValue
        <3> QED BY <2>3, <2>5, <2>6, <2>7, <2>10, <3>1, <3>3 DEF ReadableIn, SourceOf
    <2> QED BY <2>9, <2>10
<1>2. CASE i \notin 1..m
    <2>1. PICK x \in 1..n : i = m + x
        <3>1. i - m \in 1..n /\ i = m + (i - m)
            BY <1>0, <1>2
        <3> QED BY <3>1
    <2>2. PICK p : p = phys_reg_src(d, gnt, x)
        OBVIOUS
    <2>3. p \in PRF /\ ops'[i] = W!Decoded(types[x], p, d[x].src, W!Cdb(sel))
        BY <2>1, <2>2 DEF Frame, Moves
    <2>4. /\ window'[i].src_arf = d[x].src /\ window'[i].src_prf = p
          /\ i \in 1..Len(window')
        BY <1>0, <2>1, <2>2 DEF Frame, Edge
    <2>5. CASE ~W!ReadReady(p, d[x].src, W!Cdb(sel))
        <3>1. ops'[i] = [at |-> "ID_EX", fu |-> types[x],
                         ready |-> W!ReadReady(p, d[x].src, W!Cdb(sel)), value |-> 0]
            BY <2>3, <2>5 DEF W!Decoded
        <3>2. ~ops'[i].ready
            BY <2>5, <3>1
        <3> QED BY <3>2
    <2>6. CASE W!ReadReady(p, d[x].src, W!Cdb(sel))
        <3>1. ops'[i] = [at |-> "ID_EX", fu |-> types[x],
                         ready |-> W!ReadReady(p, d[x].src, W!Cdb(sel)),
                         value |-> W!ReadValue(p, d[x].src, W!Cdb(sel))]
            BY <2>3, <2>6 DEF W!Decoded
        <3>2. ops'[i].value = W!ReadValue(p, d[x].src, W!Cdb(sel))
            BY <3>1
        <3>3. CASE d[x].src = ZERO_REG
            BY <2>4, <3>2, <3>3 DEF W!ReadValue, ReadableIn, SourceOf
        <3>4. CASE d[x].src # ZERO_REG /\ p \in DOMAIN W!Cdb(sel)
            <4>1. p \in Mapped' \cup Pending'
                BY <2>4, <3>4, LiveAfter
            <4>2. p \in ready' /\ prf'[p] = W!Cdb(sel)[p]
                BY <2>3, <3>4, <4>1, KeptValue
            <4>3. ops'[i].value = W!Cdb(sel)[p]
                BY <3>2, <3>4 DEF W!ReadValue
            <4> QED BY <2>4, <3>4, <4>2, <4>3 DEF ReadableIn, SourceOf
        <3>5. CASE d[x].src # ZERO_REG /\ p \notin DOMAIN W!Cdb(sel)
            <4>1. p \in Mapped' \cup Pending'
                BY <2>4, <3>5, LiveAfter
            <4>2. p \in ready
                BY <2>6, <3>5 DEF W!ReadReady
            <4>3. p \in ready' /\ prf'[p] = prf[p]
                BY <2>3, <4>1, <4>2, KeptValue
            <4>4. ops'[i].value = prf[p]
                BY <3>2, <3>5 DEF W!ReadValue
            <4> QED BY <2>4, <3>5, <4>3, <4>4 DEF ReadableIn, SourceOf
        <3> QED BY <3>3, <3>4, <3>5
    <2> QED BY <2>5, <2>6
<1> QED BY <1>1, <1>2

LEMMA ResultsFrame ==
    ASSUME WakeupInv, W!WakeupAssumption, SingleOwner, ReadyExact,
           OperandsIn(ops, window, ready, prf), MultsIn(ops, mult),
           ResultsIn(window, ready, prf),
           NEW sel \in W!Selections, NEW issue, NEW stall \in BOOLEAN,
           NEW m \in Nat, NEW n \in 0..N, NEW k, NEW d, NEW types, NEW gnt,
           Frame(m, n, k, sel, issue, stall, d, types, gnt),
           RegisterEdge(k, sel), DataFlow', SourcedIn(window', rrat_valid')
    PROVE  ResultsIn(window', ready', prf')
<1>0. /\ k \in Nat /\ Len(window) = m + k /\ Len(window') = m + n
      /\ window \in [1..(m + k) -> Entry]
    BY DEF Frame, Edge
<1> SUFFICES ASSUME NEW i \in 1..Len(window'), window'[i].executed
             PROVE  /\ ReadableIn(window', ready', i)
                    /\ window'[i].dest_arf # ZERO_REG =>
                         prf'[window'[i].dest_prf] = W!Complement(SourceOf(window', prf', i))
    BY DEF ResultsIn
<1>1. i \in 1..m
    <2>1. \A x \in 1..n : ~window'[m + x].executed
        BY DEF Frame, Edge, W!WakeupAssumption
    <2>2. i \notin 1..m => i - m \in 1..n /\ i = m + (i - m)
        BY <1>0
    <2> QED BY <2>1, <2>2
<1>2. PICK l : l = i + k
    OBVIOUS
<1>3. l \in 1..Len(window) /\ l \in 1..Len(ops)
    BY <1>0, <1>1, <1>2, OpsFields
<1>4. /\ window'[i].dest_arf = window[l].dest_arf
      /\ window'[i].dest_prf = window[l].dest_prf
      /\ window'[i].src_arf = window[l].src_arf
      /\ window'[i].src_prf = window[l].src_prf
      /\ window[l].executed \/ l \in W!Completing(sel)
    BY <1>1, <1>2 DEF Frame, Edge
<1>5. window[l].src_prf \in PRF /\ window[l].dest_prf \in PRF
    BY <1>0, <1>3 DEF Entry
<1>6. window[l].dest_arf # ZERO_REG =>
        l \in InFlight /\ window[l].dest_prf \in Mapped' \cup Pending'
    <2>1. window'[i].dest_arf # ZERO_REG => i \in WritersIn(window')
        BY DEF WritersIn
    <2>2. Pending' = {window'[j].dest_prf : j \in WritersIn(window')}
        BY DEF Pending, InFlight, WritersIn
    <2> QED BY <1>3, <1>4, <2>1, <2>2 DEF InFlight
<1>7. CASE window[l].executed
    <2>1. /\ ReadableIn(window, ready, l)
          /\ window[l].dest_arf # ZERO_REG =>
                prf[window[l].dest_prf] = W!Complement(SourceOf(window, prf, l))
        BY <1>3, <1>7 DEF ResultsIn
    <2>2. /\ ReadableIn(window', ready', i)
          /\ SourceOf(window', prf', i) = SourceOf(window, prf, l)
        BY <1>3, <1>4, <1>5, <2>1, SameSource
    <2>3. window[l].dest_arf # ZERO_REG =>
                prf'[window[l].dest_prf] = prf[window[l].dest_prf]
        <3>1. window[l].dest_arf # ZERO_REG => window[l].dest_prf \in ready
            BY <1>6, <1>7 DEF ReadyExact
        <3> QED BY <1>5, <1>6, <3>1, KeptValue
    <2> QED BY <1>4, <2>1, <2>2, <2>3
<1>8. CASE ~window[l].executed
    <2>1. PICK u \in sel : l = W!Holder(u)
        BY <1>4, <1>8 DEF W!Completing
    <2>2. /\ ReadableIn(window, ready, l)
          /\ W!Result(u) = W!Complement(SourceOf(window, prf, l))
        BY <2>1, ResultIs
    <2>3. /\ ReadableIn(window', ready', i)
          /\ SourceOf(window', prf', i) = SourceOf(window, prf, l)
        BY <1>3, <1>4, <1>5, <2>2, SameSource
    <2>4. window[l].dest_arf # ZERO_REG =>
            prf'[window[l].dest_prf] = W!Result(u)
        <3>1. window[l].dest_arf # ZERO_REG =>
                /\ window[l].dest_prf \in DOMAIN W!Cdb(sel)
                /\ W!Cdb(sel)[window[l].dest_prf] = W!Result(u)
            BY <2>1, BroadcastValue
        <3> QED BY <1>5, <1>6, <3>1, KeptValue
    <2> QED BY <1>4, <2>2, <2>3, <2>4
<1> QED BY <1>7, <1>8

\* A multiplier after an edge, field by field.
LEMMA MultStep ==
    ASSUME NEW sel, NEW issue, NEW u \in W!Mults, NEW x, x = W!n_mult(sel, issue)[u]
    PROVE  /\ x.operand = IF issue[u] # 0 THEN ops[issue[u]].value ELSE mult[u].operand
           /\ x.m_reset <=> issue[u] # 0
           /\ x.valid <=> /\ u \notin sel
                          /\ \/ mult[u].valid
                             \/ /\ mult[u].done[MULT_STAGES] /\ Occupied(ops, u)
                                /\ ~mult[u].m_reset
           /\ \A s \in W!Stages :
                /\ x.done[s] <=> /\ ~mult[u].m_reset
                                 /\ IF s = 1 THEN Occupied(ops, u) ELSE mult[u].done[s - 1]
                /\ x.data[s] = IF s = 1 THEN mult[u].operand ELSE mult[u].data[s - 1]
<1> DEFINE mu == mult[u]
           operand == IF issue[u] # 0 THEN ops[issue[u]].value ELSE mu.operand
           m_reset == issue[u] # 0
           valid == W!n_out_valid(mu, u \in sel, W!Busy(u))
           done == [s \in W!Stages |-> /\ ~mu.m_reset
                                       /\ IF s = 1 THEN W!Busy(u) ELSE mu.done[s - 1]]
           data == [s \in W!Stages |-> IF s = 1 THEN mu.operand ELSE mu.data[s - 1]]
<1>1. x = [operand |-> operand, m_reset |-> m_reset,
           valid |-> valid, done |-> done, data |-> data]
    BY Zenon DEF W!n_mult
<1>2. W!Busy(u) <=> Occupied(ops, u)
    BY DEF W!Busy, W!In, Occupied
<1>3. valid <=> /\ u \notin sel
                /\ mu.valid \/ (mu.done[MULT_STAGES] /\ W!Busy(u) /\ ~mu.m_reset)
    BY Zenon DEF W!n_out_valid
<1>4. \A s \in W!Stages :
        /\ done[s] <=> ~mu.m_reset /\ IF s = 1 THEN W!Busy(u) ELSE mu.done[s - 1]
        /\ data[s] = IF s = 1 THEN mu.operand ELSE mu.data[s - 1]
    BY Zenon
<1>5. m_reset \in BOOLEAN /\ valid \in BOOLEAN
    BY Zenon DEF W!n_out_valid
<1>6. /\ operand = IF issue[u] # 0 THEN ops[issue[u]].value ELSE mu.operand
      /\ m_reset <=> issue[u] # 0
    BY Zenon
<1> HIDE DEF operand, m_reset, valid, done, data
<1>7. PICK r \in BOOLEAN, v \in BOOLEAN : r = m_reset /\ v = valid
    BY Zenon, <1>5
<1>8. x = [operand |-> operand, m_reset |-> r, valid |-> v, done |-> done, data |-> data]
    BY Zenon, <1>1, <1>7
<1>9. x.operand = operand /\ x.m_reset = r /\ x.valid = v /\ x.done = done /\ x.data = data
    BY <1>8
<1>10. x.m_reset <=> issue[u] # 0
    BY Zenon, <1>6, <1>7, <1>9
<1>11. x.valid <=> /\ u \notin sel
                   /\ mu.valid \/ (mu.done[MULT_STAGES] /\ W!Busy(u) /\ ~mu.m_reset)
    BY Zenon, <1>3, <1>7, <1>9
<1>12. \A s \in W!Stages :
        /\ x.done[s] <=> ~mu.m_reset /\ IF s = 1 THEN W!Busy(u) ELSE mu.done[s - 1]
        /\ x.data[s] = IF s = 1 THEN mu.operand ELSE mu.data[s - 1]
    BY Zenon, <1>4, <1>9
<1> QED BY Zenon, <1>2, <1>6, <1>9, <1>10, <1>11, <1>12

\* A unit whose result is not taken keeps its instruction.
LEMMA StaysIn ==
    ASSUME WakeupInv, W!WakeupAssumption, NEW sel \in W!Selections,
           NEW issue \in W!Issues(sel), NEW stall \in BOOLEAN,
           NEW m \in Nat, NEW n \in 0..N, NEW k, NEW d, NEW types, NEW gnt,
           Frame(m, n, k, sel, issue, stall, d, types, gnt),
           NEW u \in Units, u \notin sel, Occupied(ops, u)
    PROVE  Occupied(ops', u)
<1>0. /\ k \in Nat /\ Len(ops) = m + k /\ Len(ops') = m + n
      /\ \A i \in 1..k : window[i].executed
    BY OpsFields DEF Frame, Edge, Moves
<1>1. PICK l \in 1..Len(ops) : ops[l].at = u
    BY DEF Occupied
<1>2. ~window[l].executed /\ u # "ID_EX" /\ u # "RS"
    BY <1>1, OpsFields DEF PlacementOf
<1>3. PICK i \in 1..m : l = i + k
    <2>1. l - k \in 1..m /\ l = (l - k) + k
        BY <1>0, <1>2
    <2> QED BY <2>1
<1>4. ops'[i] = W!Moved(l, sel, W!Cdb(sel), issue, stall) /\ i \in 1..Len(ops')
    BY <1>0, <1>3 DEF Frame, Moves
<1>5. ops'[i].at = u
    BY <1>1, <1>2, <1>4, MovedFields
<1> QED BY <1>4, <1>5 DEF Occupied

LEMMA MultsFrame ==
    ASSUME WakeupInv, W!WakeupAssumption, MultsIn(ops, mult),
           NEW sel \in W!Selections, NEW issue \in W!Issues(sel), NEW stall \in BOOLEAN,
           NEW m \in Nat, NEW n \in 0..N, NEW k, NEW d, NEW types, NEW gnt,
           Frame(m, n, k, sel, issue, stall, d, types, gnt),
           mult' = W!n_mult(sel, issue)
    PROVE  MultsIn(ops', mult')
<1> SUFFICES ASSUME NEW u \in W!Mults
             PROVE  MultWorks(ops', mult'[u], u)
    BY DEF MultsIn
<1>0. k \in Nat /\ Len(ops') = m + n /\ u \in Units /\ MULT_STAGES \in W!Stages
    BY OpsFields DEF Frame, Moves, W!Mults, W!Stages, W!WakeupAssumption
<1>1. PICK x, y : x = mult'[u] /\ y = mult[u]
    OBVIOUS
<1>2. /\ x.operand = IF issue[u] # 0 THEN ops[issue[u]].value ELSE y.operand
      /\ x.m_reset <=> issue[u] # 0
      /\ x.valid <=> /\ u \notin sel
                     /\ \/ y.valid
                        \/ y.done[MULT_STAGES] /\ Occupied(ops, u) /\ ~y.m_reset
      /\ \A s \in W!Stages :
           /\ x.done[s] <=> /\ ~y.m_reset
                            /\ IF s = 1 THEN Occupied(ops, u) ELSE y.done[s - 1]
           /\ x.data[s] = IF s = 1 THEN y.operand ELSE y.data[s - 1]
    BY <1>1, MultStep
<1>3. MultWorks(ops, y, u)
    BY <1>1 DEF MultsIn
<1>4. issue[u] # 0 => ~Occupied(ops, u) \/ u \in sel
    BY <1>0, IssuedTo DEF W!Issuing, W!In, Occupied
<1>5. \A s \in W!Stages : s # 1 => s - 1 \in W!Stages
    BY DEF W!Stages, W!WakeupAssumption
<1>6. ASSUME NEW i \in 1..Len(ops'), ops'[i].at = u
      PROVE  /\ x.operand = ops'[i].value
             /\ issue[u] = 0 => Occupied(ops, u) /\ u \notin sel
    <2>1. PICK l, mo : l = i + k /\ mo = W!Moved(l, sel, W!Cdb(sel), issue, stall)
        OBVIOUS
    <2>2. /\ i \in 1..m /\ l \in 1..Len(ops)
          /\ \/ ops[l].at = u /\ u \notin sel
             \/ u \in W!Issuing(issue) /\ issue[u] = l
        BY <1>0, <1>6, <2>1, UnitAfter
    <2>3. ops'[i] = mo
        BY <2>1, <2>2 DEF Frame, Moves
    <2>4. ops[l].ready /\ ops[l].at \notin sel
        <3>1. CASE ops[l].at = u /\ u \notin sel
            BY <1>0, <2>2, <3>1, OpsFields DEF PlacementOf
        <3>2. CASE u \in W!Issuing(issue) /\ issue[u] = l
            <4>1. ops[l].at = "RS" /\ ops[l].ready
                BY <3>2, IssuedTo
            <4>2. "RS" \notin sel
                BY SelectedUnit, OpsFields
            <4> QED BY <4>1, <4>2
        <3> QED BY <2>2, <3>1, <3>2
    <2>5. ops'[i].value = ops[l].value
        BY <2>1, <2>2, <2>3, <2>4, MovedValue
    <2>6. CASE ops[l].at = u /\ u \notin sel
        <3>1. Occupied(ops, u)
            BY <2>2, <2>6 DEF Occupied
        <3>2. issue[u] = 0
            BY <1>4, <2>6, <3>1
        <3>3. y.operand = ops[l].value
            BY <1>3, <2>2, <2>6 DEF MultWorks
        <3> QED BY <1>2, <2>5, <2>6, <3>1, <3>2, <3>3
    <2>7. CASE u \in W!Issuing(issue) /\ issue[u] = l
        <3>1. issue[u] # 0
            BY <2>7 DEF W!Issuing
        <3> QED BY <1>2, <2>5, <2>7, <3>1
    <2> QED BY <2>2, <2>6, <2>7
<1>7. ASSUME x.valid
      PROVE  Occupied(ops', u) /\ ~x.m_reset /\ x.done[MULT_STAGES]
    <2>1. u \notin sel /\ Occupied(ops, u) /\ ~y.m_reset /\ y.done[MULT_STAGES]
        BY <1>2, <1>3, <1>7 DEF MultWorks
    <2>2. Occupied(ops', u)
        BY <1>0, <2>1, StaysIn
    <2>3. ~x.m_reset
        BY <1>2, <1>4, <2>1
    <2>4. MULT_STAGES # 1 => y.done[MULT_STAGES - 1]
        BY <1>0, <1>3, <2>1 DEF MultWorks
    <2>5. x.done[MULT_STAGES]
        BY <1>0, <1>2, <2>1, <2>4
    <2> QED BY <2>2, <2>3, <2>5
<1>8. ASSUME ~x.m_reset, NEW s \in W!Stages, x.done[s]
      PROVE  x.data[s] = x.operand
    <2>1. x.operand = y.operand /\ ~y.m_reset
        BY <1>2, <1>8
    <2>2. CASE s = 1
        BY <1>2, <2>1, <2>2
    <2>3. CASE s # 1
        <3>1. s - 1 \in W!Stages /\ y.done[s - 1]
            BY <1>2, <1>5, <1>8, <2>3
        <3>2. y.data[s - 1] = y.operand
            BY <1>3, <2>1, <3>1 DEF MultWorks
        <3> QED BY <1>2, <2>1, <2>3, <3>2
    <2> QED BY <2>2, <2>3
<1>9. ASSUME ~x.m_reset, Occupied(ops', u), NEW s \in W!Stages \ {1}, x.done[s]
      PROVE  x.done[s - 1]
    <2>1. Occupied(ops, u)
        BY <1>2, <1>6, <1>9 DEF Occupied
    <2>2. ~y.m_reset /\ y.done[s - 1] /\ s - 1 \in W!Stages
        BY <1>2, <1>5, <1>9
    <2>3. PICK t : t = s - 1
        OBVIOUS
    <2>4. t # 1 => y.done[t - 1]
        BY <1>3, <2>1, <2>2, <2>3 DEF MultWorks
    <2>5. x.done[t]
        BY <1>2, <2>1, <2>2, <2>3, <2>4
    <2> QED BY <2>3, <2>5
<1> QED BY <1>1, <1>6, <1>7, <1>8, <1>9 DEF MultWorks

\* The three kinds of edge: what loses its ready bit is owned by nobody.
LEMMA StallRegisters ==
    ASSUME Conservation', NEW k, NEW sel, NEW issue, W!Stall(k, sel, W!Cdb(sel), issue)
    PROVE  RegisterEdge(k, sel)
<1>1. Stall(k, W!Completing(sel), FALSE) /\ prf' = W!n_prf(W!Cdb(sel))
    BY Zenon, SameSteps DEF W!Stall
<1>2. /\ Retire(k) /\ free_list' = n_free_list(Empty, NoGrant, k)
      /\ ready' = (ready \cup Woken(W!Completing(sel), FALSE)) \ free_vector(k)
    BY <1>1 DEF Stall
<1>3. free_vector(k) \subseteq free_list'
    BY <1>2 DEF n_free_list
<1>4. \A p \in Mapped' \cup Pending' : p \notin free_vector(k)
    BY <1>3 DEF Conservation
<1> QED BY <1>1, <1>2, <1>4 DEF RegisterEdge

LEMMA DispatchRegisters ==
    ASSUME Conservation', NEW k, NEW sel, NEW issue, NEW d, NEW types, NEW gnt,
           W!Dispatch(k, sel, W!Cdb(sel), issue, d, types, gnt)
    PROVE  RegisterEdge(k, sel)
<1>1. Dispatch(k, W!Completing(sel), FALSE, d, gnt) /\ prf' = W!n_prf(W!Cdb(sel))
    BY Zenon, SameSteps DEF W!Dispatch
<1>2. /\ Retire(k) /\ free_list' = n_free_list(d, gnt, k)
      /\ ready' = (ready \cup Woken(W!Completing(sel), FALSE)) \ free_vector(k)
    BY <1>1 DEF Dispatch
<1>3. free_vector(k) \subseteq free_list'
    BY <1>2 DEF n_free_list
<1>4. \A p \in Mapped' \cup Pending' : p \notin free_vector(k)
    BY <1>3 DEF Conservation
<1> QED BY <1>1, <1>2, <1>4 DEF RegisterEdge

LEMMA MispredictRegisters ==
    ASSUME Conservation', NEW k, NEW sel, W!Mispredict(k, sel, W!Cdb(sel))
    PROVE  RegisterEdge(k, sel)
<1>1. Mispredict(k, W!Completing(sel), FALSE) /\ prf' = W!n_prf(W!Cdb(sel))
    BY Zenon, SameSteps DEF W!Mispredict
<1>2. /\ Retire(k) /\ window' = <<>> /\ rrat_free_list' = n_rrat_free_list(k)
      /\ ready' = (ready \cup Woken(W!Completing(sel), FALSE)) \ n_rrat_free_list(k)
    BY <1>1 DEF Mispredict, Retire, Empty
<1>3. Pending' = {}
    <2>1. 1..Len(window') = {}
        BY <1>2
    <2> QED BY <2>1 DEF Pending, InFlight
<1>4. \A p \in Mapped' \cup Pending' : p \notin n_rrat_free_list(k)
    BY <1>2, <1>3 DEF Conservation
<1> QED BY <1>1, <1>2, <1>4 DEF RegisterEdge

LEMMA ValuesFrame ==
    ASSUME WakeupInv, W!WakeupAssumption, RenameInv, RenameInv', Awaits(ops, window), ValuesInv,
           NEW sel \in W!Selections, NEW issue \in W!Issues(sel), NEW stall \in BOOLEAN,
           NEW m \in Nat, NEW n \in 0..N, NEW k, NEW d, NEW types, NEW gnt,
           Frame(m, n, k, sel, issue, stall, d, types, gnt), n # 0 => W!Initialized(d),
           RegisterEdge(k, sel), mult' = W!n_mult(sel, issue)
    PROVE  ValuesInv'
<1>0. SingleOwner /\ ReadyExact /\ DataFlow'
    BY DEF RenameInv, Conservation
<1>1. SourcedIn(window', rrat_valid')
    BY SourcedFrame DEF ValuesInv, RegisterEdge
<1>2. OperandsIn(ops', window', ready', prf')
    BY <1>0, <1>1, OperandsFrame DEF ValuesInv
<1>3. ResultsIn(window', ready', prf')
    BY <1>0, <1>1, ResultsFrame DEF ValuesInv
<1>4. MultsIn(ops', mult')
    BY MultsFrame DEF ValuesInv
<1> QED BY <1>1, <1>2, <1>3, <1>4 DEF ValuesInv

LEMMA ValuesMispredict ==
    ASSUME WakeupInv, W!WakeupAssumption, NEW sel, NEW k, W!Mispredict(k, sel, W!Cdb(sel))
    PROVE  ValuesInv'
<1>1. ops' = <<>> /\ window' = <<>>
    <2>1. Mispredict(k, W!Completing(sel), FALSE) /\ ops' = <<>>
        BY Zenon, SameSteps DEF W!Mispredict
    <2> QED BY <2>1 DEF Mispredict, Empty
<1>2. 1..Len(ops') = {} /\ 1..Len(window') = {}
    BY <1>1
<1>3. ASSUME NEW u \in W!Mults
      PROVE  mult'[u].m_reset /\ ~mult'[u].valid
    <2>1. W!n_mult(sel, W!NoIssue) \in [W!Mults -> MultType]
        <3>1. \A v \in Units : W!NoIssue[v] # 0 => W!NoIssue[v] \in 1..Len(ops)
            BY DEF W!NoIssue
        <3> QED BY <3>1, MultFields
    <2>2. PICK r : r = W!n_mult(sel, W!NoIssue)[u]
        OBVIOUS
    <2>3. mult'[u] = [r EXCEPT !.operand = 0, !.m_reset = TRUE, !.valid = FALSE]
        BY <2>2 DEF W!Mispredict
    <2>4. r \in MultType
        BY <2>1, <2>2
    <2> QED BY <2>3, <2>4 DEF MultType
<1>4. MultsIn(ops', mult')
    BY <1>2, <1>3 DEF MultsIn, MultWorks, Occupied
<1> QED BY <1>2, <1>4 DEF ValuesInv, SourcedIn, OperandsIn, ResultsIn

LEMMA ValuesInductive ==
    ASSUME W!WakeupAssumption, WakeupInv, RenameInv, RenameInv', Awaits(ops, window),
           ValuesInv, [W!Next]_(W!vars)
    PROVE  ValuesInv'
<1>1. CASE UNCHANGED W!vars
    <2>1. /\ ops' = ops /\ window' = window /\ mult' = mult /\ prf' = prf
          /\ ready' = ready /\ rrat_valid' = rrat_valid
        BY <1>1 DEF W!vars, W!renameVars
    <2> QED BY <2>1 DEF ValuesInv
<1>2. CASE W!Next
    <2>0. Conservation'
        BY DEF RenameInv
    <2>1. PICK k \in 0..N, sel \in W!Selections :
            \/ \E issue \in W!Issues(sel) : W!Stall(k, sel, W!Cdb(sel), issue)
            \/ \E issue \in W!Issues(sel), d \in Groups :
                 /\ W!Initialized(d)
                 /\ \E types \in W!TypesOf(d), gnt \in W!Grants(d) :
                       W!Dispatch(k, sel, W!Cdb(sel), issue, d, types, gnt)
            \/ W!Mispredict(k, sel, W!Cdb(sel))
        BY <1>2, Steps
    <2>2. ASSUME NEW issue \in W!Issues(sel), W!Stall(k, sel, W!Cdb(sel), issue)
          PROVE  ValuesInv'
        <3>1. PICK m \in Nat, stall \in BOOLEAN :
                Frame(m, 0, k, sel, issue, stall, Empty, Empty, NoGrant)
            BY <2>2, StallFrame
        <3>2. mult' = W!n_mult(sel, issue)
            BY <2>2, Zenon DEF W!Stall
        <3>3. RegisterEdge(k, sel)
            BY <2>0, <2>2, StallRegisters
        <3>4. 0 \in 0..N
            OBVIOUS
        <3> QED BY <3>1, <3>2, <3>3, <3>4, ValuesFrame
    <2>3. ASSUME NEW issue \in W!Issues(sel), NEW d \in Groups, W!Initialized(d),
                 NEW types \in W!TypesOf(d), NEW gnt \in W!Grants(d),
                 W!Dispatch(k, sel, W!Cdb(sel), issue, d, types, gnt)
          PROVE  ValuesInv'
        <3>1. PICK m \in Nat, n \in 0..N, stall \in BOOLEAN :
                Frame(m, n, k, sel, issue, stall, d, types, gnt)
            BY <2>3, DispatchFrame
        <3>2. mult' = W!n_mult(sel, issue)
            BY <2>3, Zenon DEF W!Dispatch
        <3>3. RegisterEdge(k, sel)
            BY <2>0, <2>3, DispatchRegisters
        <3> QED BY <2>3, <3>1, <3>2, <3>3, ValuesFrame
    <2> QED BY <2>1, <2>2, <2>3, ValuesMispredict
<1> QED BY <1>1, <1>2

LEMMA ValuesInit ==
    ASSUME W!Init
    PROVE  ValuesInv
<1>1. ops = <<>> /\ window = <<>> /\ mult = [u \in W!Mults |-> W!IdleMult]
    <2>1. Init /\ ops = <<>> /\ mult = [u \in W!Mults |-> W!IdleMult]
        BY Zenon DEF W!Init, W!R!Init, Init
    <2> QED BY <2>1 DEF Init
<1>2. 1..Len(ops) = {} /\ 1..Len(window) = {}
    BY <1>1
<1>3. \A u \in W!Mults : mult[u].m_reset /\ ~mult[u].valid
    BY <1>1 DEF W!IdleMult
<1>4. MultsIn(ops, mult)
    BY <1>2, <1>3 DEF MultsIn, MultWorks, Occupied
<1> QED BY <1>2, <1>4 DEF ValuesInv, SourcedIn, OperandsIn, ResultsIn

-----------------------------------------------------------------------------
(* The program, one instruction at a time                                  *)

\* The states the registers go through, n instructions of window w.
Runs(w, n, r, f) ==
    f = [i \in 0..n |->
            IF i = 0 THEN r
            ELSE IF w[i].dest_arf = ZERO_REG THEN f[i - 1]
            ELSE [f[i - 1] EXCEPT ![w[i].dest_arf] = W!Complement(f[i - 1][w[i].src_arf])]]

\* There is only one such sequence, so whichever is at hand gives the result.
LEMMA RunResult ==
    ASSUME NEW w, NEW n \in Nat, NEW r, NEW f, Runs(w, n, r, f)
    PROVE  W!Execute(w, n, r) = f[n]
<1>1. PICK g : g = CHOOSE x : Runs(w, n, r, x)
    OBVIOUS
<1>2. Runs(w, n, r, g)
    BY <1>1
<1>3. W!Execute(w, n, r) = g[n]
    BY Zenon, <1>1 DEF W!Execute, Runs
<1> DEFINE S == {i \in 0..n : f[i] # g[i]}
<1>4. /\ \A i \in 0..n : f[i] =
            IF i = 0 THEN r
            ELSE IF w[i].dest_arf = ZERO_REG THEN f[i - 1]
            ELSE [f[i - 1] EXCEPT ![w[i].dest_arf] = W!Complement(f[i - 1][w[i].src_arf])]
      /\ \A i \in 0..n : g[i] =
            IF i = 0 THEN r
            ELSE IF w[i].dest_arf = ZERO_REG THEN g[i - 1]
            ELSE [g[i - 1] EXCEPT ![w[i].dest_arf] = W!Complement(g[i - 1][w[i].src_arf])]
    BY <1>2, Zenon DEF Runs
<1>5. CASE S # {}
    <2>1. n + 1 \in Nat /\ S \in SUBSET (0..((n + 1) - 1))
        OBVIOUS
    <2>2. PICK i \in S : \A x \in S : i <= x
        BY <1>5, <2>1, MinExists
    <2>3. i # 0
        BY <1>4
    <2>4. i \in 0..n /\ i - 1 \in 0..n /\ ~(i <= i - 1)
        BY <2>3
    <2>5. f[i - 1] = g[i - 1]
        BY <2>2, <2>4
    <2>6. f[i] = g[i]
        BY Zenon, <1>4, <2>3, <2>4, <2>5
    <2> QED BY <2>6
<1>6. CASE S = {}
    <2>1. n \in 0..n
        OBVIOUS
    <2> QED BY <1>3, <1>6, <2>1
<1> QED BY <1>5, <1>6

\* The registers when the first i instructions have retired, from the tables.
RegsAfter(i) == [a \in ARF |-> IF a \in n_rrat_valid(i) THEN prf[n_rrat_entries(i)[a]] ELSE 0]

\* The register that program order says the next instruction reads is the one
\* the retired table has then.
LEMMA HoldsRetired ==
    ASSUME TypeOK, NEW k \in Nat, NEW l \in 1..Len(window), l = k + 1,
           NEW a \in ARF, NEW p, Holds(l, a, p)
    PROVE  n_rrat_entries(k)[a] = p
<1>0. k \in 0..Len(window) /\ Len(window) \in Nat
    BY LenProperties DEF TypeOK
<1>1. \A j \in InFlight : j \in Int /\ (j < l <=> j \in 1..k)
    BY <1>0 DEF InFlight
<1>2. \A j : j \in Writers(k) <=> j \in InFlight /\ j < l
    BY <1>0, <1>1 DEF InFlight, Writers
<1>3. CASE /\ \A j \in InFlight : j < l => window[j].dest_arf # a
           /\ rrat_entries[a] = p
    BY <1>0, <1>2, <1>3, RetiredEntry
<1>4. ASSUME NEW j \in InFlight, j < l, window[j].dest_arf = a, window[j].dest_prf = p,
             \A x \in InFlight : j < x /\ x < l => window[x].dest_arf # a
      PROVE  n_rrat_entries(k)[a] = p
    <2>1. j \in Writers(k)
        BY <1>2, <1>4
    <2>2. ASSUME NEW x \in Writers(k), window[x].dest_arf = window[j].dest_arf
          PROVE  x <= j
        BY <1>1, <1>2, <1>4, <2>2
    <2>3. j \in LastWriters(k)
        BY <2>1, <2>2 DEF LastWriters
    <2> QED BY <1>0, <1>4, <2>3, RetiredEntry
<1> QED BY <1>3, <1>4 DEF Holds

\* One instruction more: the result it has left is that of the program.
LEMMA OneMoreExecutes ==
    ASSUME WakeupInv, RenameInv, ValuesInv, NEW k \in Nat, NEW l \in 1..Len(window),
           l = k + 1, window[l].executed
    PROVE  RegsAfter(l) =
                IF window[l].dest_arf = ZERO_REG THEN RegsAfter(k)
                ELSE [RegsAfter(k) EXCEPT ![window[l].dest_arf] =
                        W!Complement(RegsAfter(k)[window[l].src_arf])]
<1>0. /\ TypeOK /\ k \in 0..Len(window) /\ window[l] \in Entry
    BY LenProperties DEF WakeupInv, TypeOK
<1>1. CASE window[l].dest_arf = ZERO_REG
    <2>1. n_rrat_entries(l) = n_rrat_entries(k) /\ n_rrat_valid(l) = n_rrat_valid(k)
        BY <1>0, <1>1, OneMoreRetires
    <2> QED BY Zenon, <1>1, <2>1 DEF RegsAfter
<1>2. CASE window[l].dest_arf # ZERO_REG
    <2> DEFINE a == window[l].dest_arf
               s == window[l].src_arf
    <2>1. /\ n_rrat_entries(l) = [n_rrat_entries(k) EXCEPT ![a] = window[l].dest_prf]
          /\ n_rrat_valid(l) = n_rrat_valid(k) \cup {a}
        BY <1>0, <1>2, OneMoreRetires
    <2>2. n_rrat_entries(k) \in [ARF -> PRF] /\ n_rrat_valid(k) \subseteq ARF \ {ZERO_REG}
        BY <1>0, RetireType
    <2>3. a \in ARF /\ s \in ARF
        BY <1>0 DEF Entry
    <2>4. RegsAfter(k)[s] = SourceOf(window, prf, l)
        <3>1. CASE s = ZERO_REG
            BY <2>2, <2>3, <3>1 DEF RegsAfter, SourceOf
        <3>2. CASE s # ZERO_REG
            <4>1. Holds(l, s, window[l].src_prf)
                BY DEF RenameInv, DataFlow
            <4>2. n_rrat_entries(k)[s] = window[l].src_prf
                BY <1>0, <2>3, <4>1, HoldsRetired
            <4>3. s \in rrat_valid \/ \E j \in 1..(l - 1) : window[j].dest_arf = s
                BY <3>2 DEF ValuesInv, SourcedIn
            <4>4. \A j \in 1..(l - 1) : j \in 1..k
                OBVIOUS
            <4>5. s \in n_rrat_valid(k)
                BY <3>2, <4>3, <4>4 DEF n_rrat_valid, Writers
            <4> QED BY <2>3, <3>2, <4>2, <4>5 DEF RegsAfter, SourceOf
        <3> QED BY <3>1, <3>2
    <2>5. prf[window[l].dest_prf] = W!Complement(SourceOf(window, prf, l))
        BY <1>2 DEF ValuesInv, ResultsIn
    <2>6. RegsAfter(l)[a] = W!Complement(RegsAfter(k)[s])
        <3>1. n_rrat_entries(l)[a] = window[l].dest_prf /\ a \in n_rrat_valid(l)
            BY <2>1, <2>2, <2>3
        <3>2. RegsAfter(l)[a] = prf[n_rrat_entries(l)[a]]
            BY <2>3, <3>1 DEF RegsAfter
        <3> QED BY Zenon, <2>4, <2>5, <3>1, <3>2
    <2>7. \A b \in ARF : b # a => RegsAfter(l)[b] = RegsAfter(k)[b]
        BY <2>1, <2>2 DEF RegsAfter
    <2>8. RegsAfter(l) = [RegsAfter(k) EXCEPT ![a] = W!Complement(RegsAfter(k)[s])]
        <3>1. /\ RegsAfter(l) = [b \in ARF |-> RegsAfter(l)[b]]
              /\ RegsAfter(k) = [b \in ARF |-> RegsAfter(k)[b]]
            BY Zenon DEF RegsAfter
        <3>2. PICK c : c = W!Complement(RegsAfter(k)[s])
            OBVIOUS
        <3>3. DOMAIN RegsAfter(l) = ARF /\ DOMAIN RegsAfter(k) = ARF
            BY DEF RegsAfter
        <3>4. RegsAfter(l) = [RegsAfter(k) EXCEPT ![a] = c]
            BY <2>3, <2>6, <2>7, <3>1, <3>2, <3>3
        <3> QED BY <3>2, <3>4
    <2> QED BY <1>2, <2>8
<1> QED BY <1>1, <1>2

LEMMA ExecuteIs ==
    ASSUME WakeupInv, RenameInv, ValuesInv, NEW k \in Nat, k <= Len(window),
           \A i \in 1..k : window[i].executed
    PROVE  W!Execute(window, k, W!regs) = RegsAfter(k)
<1> DEFINE f == [i \in 0..k |-> RegsAfter(i)]
<1>0. Len(window) \in Nat
    BY LenProperties DEF WakeupInv, TypeOK
<1>1. RegsAfter(0) = W!regs
    <2>1. Writers(0) = {} /\ LastWriters(0) = {}
        BY DEF Writers, LastWriters
    <2>2. n_rrat_valid(0) = rrat_valid
        BY <2>1 DEF n_rrat_valid
    <2>3. n_rrat_entries(0) = rrat_entries
        BY <2>1 DEF n_rrat_entries, WakeupInv, TypeOK
    <2> QED BY Zenon, <2>2, <2>3 DEF RegsAfter, W!regs
<1>2. ASSUME NEW i \in 0..k
      PROVE  f[i] = IF i = 0 THEN W!regs
                    ELSE IF window[i].dest_arf = ZERO_REG THEN f[i - 1]
                    ELSE [f[i - 1] EXCEPT ![window[i].dest_arf] =
                            W!Complement(f[i - 1][window[i].src_arf])]
    <2>1. CASE i = 0
        BY <1>1, <2>1
    <2>2. CASE i # 0
        <3>1. /\ i \in 1..Len(window) /\ i - 1 \in 0..k /\ i - 1 \in Nat
              /\ i = (i - 1) + 1 /\ i \in 1..k
            BY <1>0, <2>2
        <3>2. PICK j : j = i - 1
            OBVIOUS
        <3>3. RegsAfter(i) =
                IF window[i].dest_arf = ZERO_REG THEN RegsAfter(j)
                ELSE [RegsAfter(j) EXCEPT ![window[i].dest_arf] =
                        W!Complement(RegsAfter(j)[window[i].src_arf])]
            BY <3>1, <3>2, OneMoreExecutes
        <3>4. f[i] = RegsAfter(i) /\ f[j] = RegsAfter(j)
            BY <3>1, <3>2
        <3> QED BY Zenon, <2>2, <3>2, <3>3, <3>4
    <2> QED BY <2>1, <2>2
<1>3. f = [i \in 0..k |-> f[i]] /\ f[k] = RegsAfter(k)
    OBVIOUS
<1> HIDE DEF f
<1>4. Runs(window, k, W!regs, f)
    BY Zenon, <1>2, <1>3 DEF Runs
<1> QED BY <1>3, <1>4, RunResult

\* What retires keeps its values over the edge.
LEMMA RegsStep ==
    ASSUME WakeupInv, W!WakeupAssumption, RenameInv, RenameInv', ValuesInv,
           NEW sel \in W!Selections, NEW k \in Nat, k <= dispatched,
           \A i \in 1..k : window[i].executed, RegisterEdge(k, sel)
    PROVE  W!regs' = W!Execute(window, k, W!regs)
<1>0. k \in 0..Len(window) /\ SingleOwner /\ ReadyExact /\ TypeOK
    BY OpsFields DEF RenameInv, Conservation, WakeupInv
<1>1. W!Execute(window, k, W!regs) = RegsAfter(k)
    BY <1>0, ExecuteIs
<1>2. rrat_entries' = n_rrat_entries(k) /\ rrat_valid' = n_rrat_valid(k)
    BY DEF RegisterEdge, Retire
<1>3. n_rrat_entries(k) \in [ARF -> PRF]
    BY <1>0, RetireType
<1>4. ASSUME NEW a \in ARF, a \in n_rrat_valid(k)
      PROVE  prf'[n_rrat_entries(k)[a]] = prf[n_rrat_entries(k)[a]]
    <2>1. PICK p : p = n_rrat_entries(k)[a]
        OBVIOUS
    <2>2. p \in PRF /\ p \in Mapped' /\ p \in n_Mapped(k)
        BY <1>2, <1>3, <1>4, <2>1 DEF Mapped, n_Mapped
    <2>3. p \in Mapped \cup Retiring(k)
        BY <1>0, <2>2, RetireMapped
    <2>4. Retiring(k) \subseteq ready
        <3>1. \A i \in Writers(k) : i \in InFlight /\ window[i].executed
            BY <1>0, RetireMapped DEF Writers
        <3> QED BY <1>0, <3>1 DEF Retiring, ReadyExact
    <2>5. p \in ready
        BY <1>0, <2>3, <2>4 DEF ReadyExact
    <2> QED BY <1>0, <2>1, <2>2, <2>5, KeptValue
<1>5. W!regs' = [a \in ARF |-> IF a \in n_rrat_valid(k) THEN prf'[n_rrat_entries(k)[a]] ELSE 0]
    BY Zenon, <1>2 DEF W!regs
<1>6. W!regs' = RegsAfter(k)
    BY <1>4, <1>5 DEF RegsAfter
<1> QED BY <1>1, <1>6

\* The action of the property, of any step.
LEMMA ExecutesStep ==
    ASSUME W!WakeupAssumption, WakeupInv, RenameInv, RenameInv', ValuesInv, W!Next
    PROVE  W!regs' = W!Execute(window, rob_commit', W!regs)
<1>0. Conservation'
    BY DEF RenameInv
<1>1. PICK k \in 0..N, sel \in W!Selections :
        \/ \E issue \in W!Issues(sel) : W!Stall(k, sel, W!Cdb(sel), issue)
        \/ \E issue \in W!Issues(sel), d \in Groups :
             /\ W!Initialized(d)
             /\ \E types \in W!TypesOf(d), gnt \in W!Grants(d) :
                   W!Dispatch(k, sel, W!Cdb(sel), issue, d, types, gnt)
        \/ W!Mispredict(k, sel, W!Cdb(sel))
    BY Steps
<1>2. ASSUME NEW issue \in W!Issues(sel), W!Stall(k, sel, W!Cdb(sel), issue)
      PROVE  rob_commit' = k /\ RegisterEdge(k, sel) /\ Executed(k)
    <2>1. rob_commit' = k /\ Stall(k, W!Completing(sel), FALSE)
        BY <1>2, Zenon, SameSteps DEF W!Stall
    <2> QED BY <1>0, <1>2, <2>1, StallRegisters DEF Stall, Retires
<1>3. ASSUME NEW issue \in W!Issues(sel), NEW d, NEW types, NEW gnt,
             W!Dispatch(k, sel, W!Cdb(sel), issue, d, types, gnt)
      PROVE  rob_commit' = k /\ RegisterEdge(k, sel) /\ Executed(k)
    <2>1. rob_commit' = k /\ Dispatch(k, W!Completing(sel), FALSE, d, gnt)
        BY <1>3, Zenon, SameSteps DEF W!Dispatch
    <2> QED BY <1>0, <1>3, <2>1, DispatchRegisters DEF Dispatch, Retires
<1>4. ASSUME W!Mispredict(k, sel, W!Cdb(sel))
      PROVE  rob_commit' = k /\ RegisterEdge(k, sel) /\ Executed(k)
    <2>1. rob_commit' = k /\ Mispredict(k, W!Completing(sel), FALSE)
        BY <1>4, Zenon, SameSteps DEF W!Mispredict
    <2> QED BY <1>0, <1>4, <2>1, MispredictRegisters DEF Mispredict
<1>5. rob_commit' = k /\ RegisterEdge(k, sel) /\ Executed(k)
    BY <1>1, <1>2, <1>3, <1>4
<1>6. k \in Nat /\ k <= dispatched /\ \A i \in 1..k : window[i].executed
    BY <1>5 DEF Executed
<1> QED BY <1>5, <1>6, RegsStep

\* The pipeline executes the program: whatever is renamed, waits, is bypassed,
\* issued and broadcast in whichever order, the architectural registers change,
\* edge by edge, as the retiring instructions change them when they are run one
\* after the other.  As in NoWakeupIsLost there are no loads to x0.
THEOREM PipelineExecutesProgram ==
    ASSUME W!WakeupAssumption, X0Loads = {FALSE}
    PROVE  W!Spec => W!ExecutesProgram
<1>0. FALSE \in X0Loads /\ X0Loads \subseteq {FALSE}
    OBVIOUS
<1>1. W!Init => WakeupInv /\ Awaits(ops, window) /\ ValuesInv
    <2> SUFFICES ASSUME W!Init PROVE WakeupInv /\ Awaits(ops, window) /\ ValuesInv
        OBVIOUS
    <2>1. ops = <<>>
        BY Zenon DEF W!Init
    <2>2. 1..Len(ops) = {}
        BY <2>1
    <2> QED BY <2>2, WakeupInit, ValuesInit DEF Awaits
<1>2. WakeupInv /\ [W!Next]_(W!vars) => WakeupInv'
    BY <1>0, WakeupInductive
<1>3. W!Spec => []RenameInv
    <2>1. W!Spec => Spec
        BY <1>0, WakeupImplementsRename
    <2>2. Spec => []ReadyExact
        BY <1>0, ReadyBitsExact
    <2>3. Conservation /\ DataFlow /\ ReadyExact => RenameInv
        BY DEF RenameInv
    <2> QED BY <2>1, <2>2, <2>3, RegistersConserved, ReadsProgramOrder, PTL
<1>4. WakeupInv /\ RenameInv /\ Awaits(ops, window) /\ [W!Next]_(W!vars)
        => Awaits(ops, window)'
    BY AwaitsInductive DEF RenameInv
<1>5. WakeupInv /\ RenameInv /\ RenameInv' /\ Awaits(ops, window) /\ ValuesInv
        /\ [W!Next]_(W!vars) => ValuesInv'
    BY ValuesInductive
<1>6. WakeupInv /\ RenameInv /\ RenameInv' /\ ValuesInv /\ [W!Next]_(W!vars)
        => [W!regs' = W!Execute(window, rob_commit', W!regs)]_(W!vars)
    BY ExecutesStep
<1> QED BY <1>1, <1>2, <1>3, <1>4, <1>5, <1>6, PTL DEF W!Spec, W!ExecutesProgram
=============================================================================
