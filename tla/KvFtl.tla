------------------------------- MODULE KvFtl -------------------------------
(***************************************************************************)
(* The key-value FTL (kv_ftl.c) of the KV build, with the append-only      *)
(* allocator that every configuration selects.  The mapping table is an    *)
(* array of slots; a key goes to its hash slot, or, when that is taken, to *)
(* the first free slot behind it, to which the hash slot is then chained.  *)
(*                                                                         *)
(* A command is one action: it runs from start to end in the I/O worker,   *)
(* of which there is one (cpus=7,8 of README.md).  Retrieve and exist      *)
(* change nothing; what they answer follows from Lookup.  All keys have    *)
(* one length, as kv_iter_read takes for granted, so that memcmp is        *)
(* equality.  Lengths and offsets are in units of one cell of storage, and *)
(* what a cell holds is abstracted to the key it was written for.          *)
(***************************************************************************)
EXTENDS Integers, FiniteSets

CONSTANTS
  NrSlots,       \* hash_slots
  Keys,
  Hash,          \* hash_function % hash_slots, for every key
  Lens,          \* value lengths
  SmallLen,      \* SMALL_LENGTH
  StorageSize,   \* config.storage_size
  NrIters,       \* the iterator handles 1 .. 16
  IterBuf,       \* keys that fit into the 1024 bytes of one iterator read
  IterKeys       \* what an iterator's prefix and bitmask may select

Slots == 0 .. NrSlots - 1
Cells == 0 .. StorageSize - 1
NIL   == -1

ASSUME KvAssumption ==
  /\ NrSlots \in Nat \ {0}
  /\ Hash \in [Keys -> Slots]
  /\ Lens \subseteq Nat \ {0}
  /\ SmallLen \in Nat
  /\ StorageSize \in Nat \ {0}
  /\ NrIters \in Nat \ {0}
  /\ IterBuf \in Nat \ {0}
  /\ IterKeys \subseteq SUBSET Keys
  /\ NIL \notin Keys

VARIABLES
  key, off, len, next,  \* kv_mapping_table[]: off is NIL in a free slot
  mem,                  \* storage_mapped
  latest,               \* the allocator's next offset
  iter,                 \* iter_handle[1 .. 16]
  stop,                 \* "hang": find_next_slot does not end; "bug": BUG_ON;
                        \* "overrun": a value was copied over the table
  \* History: the slot of the last store of every key; the length that was
  \* allocated for the entry in a slot; and the cells that were last written
  \* behind what was allocated for the value they got
  slotOf, room, spilt

tableVars == <<key, off, len, next>>
histVars  == <<slotOf, room, spilt>>
vars == <<tableVars, mem, latest, iter, stop, histVars>>

NoIter  == [pos |-> NIL, match |-> {}, must |-> {}, seen |-> {}]
Garbage == [NoIter EXCEPT !.pos = NIL - 1]

Free == {s \in Slots : off[s] = NIL}

-----------------------------------------------------------------------------
\* kv_init_namespace.  It clears the handles 0 .. 15, but 1 .. 16 are used:
\* the last one holds whatever kmalloc has left there.
Init ==
  /\ key = [s \in Slots |-> NIL]
  /\ off = [s \in Slots |-> NIL]
  /\ len = [s \in Slots |-> NIL]
  /\ next = [s \in Slots |-> NIL]
  /\ mem = [c \in Cells |-> NIL]
  /\ latest = 0
  /\ \E last \in {NoIter, Garbage} :
       iter = [h \in 1 .. NrIters |-> IF h = NrIters THEN last ELSE NoIter]
  /\ stop = "no"
  /\ slotOf = [k \in Keys |-> NIL]
  /\ room = [s \in Slots |-> NIL]
  /\ spilt = {}

-----------------------------------------------------------------------------
(***************************************************************************)
(* get_mapping_entry and its copies in update_, delete_ and ..._by_key:    *)
(* from the hash slot along next_slot, as long as the slots are in use.    *)
(***************************************************************************)
Ends(s, k) == s = NIL \/ off[s] = NIL \/ key[s] = k

\* Where the search for k is after each of NrSlots moves.
Search(k) ==
  LET at[n \in 0 .. NrSlots] ==
        IF n = 0 THEN Hash[k]
        ELSE LET s == at[n - 1] IN IF Ends(s, k) THEN s ELSE next[s]
  IN  at

\* The slot of k, or NIL: KV_ERR_KEY_NOT_EXIST.
Lookup(k) ==
  LET s == Search(k)[NrSlots]
  IN  IF s # NIL /\ off[s] # NIL /\ key[s] = k THEN s ELSE NIL

-----------------------------------------------------------------------------
(***************************************************************************)
(* kv_store.                                                               *)
(***************************************************************************)
\* The memcpy of the n cells of a value of k to offset o.  What goes past the
\* storage, behind which the mapping table lies, is an overrun.
Written(o, k, n) == [c \in Cells |-> IF o <= c /\ c < o + n THEN k ELSE mem[c]]
Fits(o, n) == o + n <= StorageSize

\* Cells that are written behind the r cells allocated at o, and those within.
Spilt(o, n, r) ==
  {c \in Cells : o + r <= c /\ c < o + n} \cup {c \in spilt : ~(o <= c /\ c < o + n)}

\* Mutant of NextSlot: the search does not go back to slot 0.
NextSlotNoWrap(h) ==
  LET behind == {s \in Free : s >= h}
  IN  IF behind = {} THEN NrSlots ELSE CHOOSE s \in behind : \A t \in behind : s <= t

\* find_next_slot: the first free slot from the hash slot h on, cyclically.
NextSlot(h) ==
  CHOOSE s \in Free : \A t \in Free : (s - h) % NrSlots <= (t - h) % NrSlots

\* Mutant of NewMappingEntry: the arguments of chain_mapping are swapped.
NewMappingEntrySwapped(k, o, n) ==
  LET h == Hash[k]
      s == NextSlot(h)
  IN
  /\ key' = [key EXCEPT ![s] = k]
  /\ off' = [off EXCEPT ![s] = o]
  /\ len' = [len EXCEPT ![s] = n]
  /\ next' = IF s = h THEN next ELSE [next EXCEPT ![s] = h]
  /\ slotOf' = [slotOf EXCEPT ![k] = s]
  /\ room' = [room EXCEPT ![s] = n]

\* new_mapping_entry.  next_slot of the new entry is left as it is.
NewMappingEntry(k, o, n) ==
  LET h == Hash[k]
      s == NextSlot(h)
  IN
  /\ key' = [key EXCEPT ![s] = k]
  /\ off' = [off EXCEPT ![s] = o]
  /\ len' = [len EXCEPT ![s] = n]
  /\ next' = IF s = h THEN next ELSE [next EXCEPT ![h] = s]
  /\ slotOf' = [slotOf EXCEPT ![k] = s]
  /\ room' = [room EXCEPT ![s] = n]

\* A key that is not found is inserted: append_only_allocate, the copy,
\* new_mapping_entry.  The allocator never refuses.  A value that begins in
\* the storage and ends behind it has been copied over the table by then; a
\* later one meets the BUG_ON.  The search for a free slot never ends in a
\* full table.
Insert(k, n) ==
  /\ Lookup(k) = NIL
  /\ latest' = latest + n
  /\ mem' = Written(latest, k, n)
  /\ spilt' = Spilt(latest, n, n)
  /\ \/ /\ Fits(latest, n) /\ Free # {}
        /\ NewMappingEntry(k, latest, n)
        /\ UNCHANGED stop
     \/ /\ ~Fits(latest, n) \/ Free = {}
        /\ stop' = CASE latest >= StorageSize -> "bug"
                     [] latest < StorageSize /\ ~Fits(latest, n) -> "overrun"
                     [] OTHER -> "hang"
        /\ UNCHANGED <<tableVars, slotOf, room>>
  /\ UNCHANGED iter

\* A key that is found is overwritten in place.  Its length is updated when
\* the old and the new one are small and relen says so; otherwise a
\* different length is only logged.
Update(k, n, relen) ==
  LET s     == Lookup(k)
      moves == relen /\ n # len[s] /\ n <= SmallLen /\ len[s] <= SmallLen
  IN
  /\ s # NIL
  /\ mem' = Written(off[s], k, n)
  /\ spilt' = Spilt(off[s], n, room[s])
  /\ stop' = IF Fits(off[s], n) THEN stop ELSE "overrun"
  /\ len' = IF moves THEN [len EXCEPT ![s] = n] ELSE len
  /\ UNCHANGED <<key, off, next, latest, iter, slotOf, room>>

\* kv_store.
Store(k, n) == Insert(k, n) \/ Update(k, n, TRUE)

\* One of the stores of a kv_batch: there the update of the length is
\* commented out.
BatchStore(k, n) == Insert(k, n) \/ Update(k, n, FALSE)

-----------------------------------------------------------------------------
\* Mutant of Delete: only mem_offset is reset.
DeleteKeepNext(k) ==
  LET s == Lookup(k) IN
  /\ s # NIL
  /\ off' = [off EXCEPT ![s] = NIL]
  /\ slotOf' = [slotOf EXCEPT ![k] = NIL]
  /\ room' = [room EXCEPT ![s] = NIL]
  /\ iter' = [h \in 1 .. NrIters |-> [iter[h] EXCEPT !.must = @ \ {s}, !.seen = @ \ {s}]]
  /\ UNCHANGED <<key, len, next, mem, latest, stop, spilt>>

\* Mutant of Delete: the append-only allocator takes the length back, as if
\* the value were the last one.
DeleteGiveBack(k) ==
  LET s == Lookup(k) IN
  /\ s # NIL
  /\ key' = [key EXCEPT ![s] = NIL]
  /\ off' = [off EXCEPT ![s] = NIL]
  /\ len' = [len EXCEPT ![s] = NIL]
  /\ next' = [next EXCEPT ![s] = NIL]
  /\ latest' = latest - len[s]
  /\ slotOf' = [slotOf EXCEPT ![k] = NIL]
  /\ room' = [room EXCEPT ![s] = NIL]
  /\ iter' = [h \in 1 .. NrIters |-> [iter[h] EXCEPT !.must = @ \ {s}, !.seen = @ \ {s}]]
  /\ UNCHANGED <<mem, stop, spilt>>

\* kv_delete: delete_mapping_entry sets the whole entry to -1, its next_slot
\* too.  The space is not given back.
Delete(k) ==
  LET s == Lookup(k) IN
  /\ s # NIL
  /\ key' = [key EXCEPT ![s] = NIL]
  /\ off' = [off EXCEPT ![s] = NIL]
  /\ len' = [len EXCEPT ![s] = NIL]
  /\ next' = [next EXCEPT ![s] = NIL]
  /\ slotOf' = [slotOf EXCEPT ![k] = NIL]
  /\ room' = [room EXCEPT ![s] = NIL]
  /\ iter' = [h \in 1 .. NrIters |-> [iter[h] EXCEPT !.must = @ \ {s}, !.seen = @ \ {s}]]
  /\ UNCHANGED <<mem, latest, stop, spilt>>

-----------------------------------------------------------------------------
(***************************************************************************)
(* Iterators.  must and seen are history: the slots in use when the        *)
(* iterator was opened and not freed since, and which of them have been    *)
(* returned.                                                               *)
(***************************************************************************)
Matching(ks) == {s \in Slots \ Free : key[s] \in ks}

\* kv_iter_open takes the first unused handle.  When there is none it
\* returns 1, as if handle 1 had been opened, and changes nothing.
IterOpen(h, ks) ==
  /\ iter[h] = NoIter
  /\ \A g \in 1 .. h - 1 : iter[g] # NoIter
  /\ iter' = [iter EXCEPT ![h] =
                [pos |-> 0, match |-> ks, must |-> Matching(ks), seen |-> {}]]
  /\ UNCHANGED <<tableVars, mem, latest, stop, histVars>>

\* The host closes and reads only handles it was given.
IsOpen(h) == iter[h].pos >= 0

IterClose(h) ==
  /\ IsOpen(h)
  /\ iter' = [iter EXCEPT ![h] = NoIter]
  /\ UNCHANGED <<tableVars, mem, latest, stop, histVars>>

\* kv_iter_read returns the slots from pos on that match, as many as fit,
\* and goes on next time at the first one that did not fit.
Batch(pos, ks) ==
  {s \in Matching(ks) : s >= pos /\ Cardinality({t \in Matching(ks) : pos <= t /\ t <= s}) <= IterBuf}

\* Mutant of Resume: the slot that did not fit is skipped.
ResumeBehind(pos, ks) ==
  LET rest == {s \in Matching(ks) \ Batch(pos, ks) : s >= pos}
  IN  IF rest = {} THEN NrSlots ELSE 1 + CHOOSE s \in rest : \A t \in rest : s <= t

Resume(pos, ks) ==
  LET rest == {s \in Matching(ks) \ Batch(pos, ks) : s >= pos}
  IN  IF rest = {} THEN NrSlots ELSE CHOOSE s \in rest : \A t \in rest : s <= t

IterRead(h) ==
  LET i == iter[h] IN
  /\ IsOpen(h)
  /\ iter' = [iter EXCEPT ![h].pos = Resume(i.pos, i.match),
                          ![h].seen = @ \cup (i.must \cap Batch(i.pos, i.match))]
  /\ UNCHANGED <<tableVars, mem, latest, stop, histVars>>

-----------------------------------------------------------------------------
\* kv_perform_nvme_io_cmd
Next ==
  /\ stop = "no"
  /\ \/ \E k \in Keys, n \in Lens : Store(k, n) \/ BatchStore(k, n)
     \/ \E k \in Keys : Delete(k)
     \/ \E h \in 1 .. NrIters : IterClose(h) \/ IterRead(h) \/ \E ks \in IterKeys : IterOpen(h, ks)

Spec == Init /\ [][Next]_vars

-----------------------------------------------------------------------------
(***************************************************************************)
(* Properties.                                                             *)
(***************************************************************************)
IterType == [pos : 0 .. NrSlots, match : IterKeys, must : SUBSET Slots, seen : SUBSET Slots]

\* Types of the mapping table, of the iterators and of the storage.
TypeOK ==
  /\ key \in [Slots -> Keys \cup {NIL}]
  /\ off \in [Slots -> Cells \cup {NIL}]
  /\ len \in [Slots -> Lens \cup {NIL}]
  /\ next \in [Slots -> Slots \cup {NIL}]
  /\ mem \in [Cells -> Keys \cup {NIL}]
  /\ latest \in Nat
  /\ iter \in [1 .. NrIters -> IterType \cup {NoIter, Garbage}]
  /\ stop \in {"no", "hang", "bug", "overrun"}
  /\ slotOf \in [Keys -> Slots \cup {NIL}]
  /\ room \in [Slots -> Lens \cup {NIL}]
  /\ spilt \subseteq Cells

\* The search for a key always ends: no sequence of stores and deletes
\* closes a chain of slots into a ring, although deleted slots stay chained
\* and are used again for other keys.
SearchEnds == \A k \in Keys : Ends(Search(k)[NrSlots], k)

\* A key that is found is found in the slot of its last store.  Slots of the
\* same key that were cut off from their chain, and slots of deleted keys,
\* never come back to the surface.
FoundIsCurrent ==
  stop = "no" => \A k \in Keys : Lookup(k) # NIL => Lookup(k) = slotOf[k]

\* What was allocated for a value is its own, through stores, updates in
\* place and deletes in any order: every cell of it holds that value, but for
\* the cells that a longer update of another value has run into, until the
\* next store over them.
ValuesApart ==
  stop = "no" =>
    \A s \in Slots \ Free, c \in Cells :
      off[s] <= c /\ c < off[s] + room[s] => mem[c] = key[s] \/ c \in spilt

\* An iterator has returned exactly those of the slots that stay in use
\* which lie before its position, whatever happens between two reads.
IterExact ==
  \A h \in 1 .. NrIters : IsOpen(h) =>
    iter[h].seen = {s \in iter[h].must : s < iter[h].pos}

\* "if mapping_entry exist -> read from mem_offset, else -> key doesn't
\* exist!": a key with an entry in the table is found by its search.
EntryIsFound ==
  stop = "no" => \A s \in Slots \ Free : Lookup(key[s]) # NIL

=============================================================================
