----------------------------- MODULE TableProofs -----------------------------
(***************************************************************************)
(* Facts about tokens and about the registration table, for every width of *)
(* the token halves and every limit: what a token unpacks into, that every *)
(* operation of RegistrationTable keeps TableInv, and what the settlements *)
(* of src/mutation/ make of the slot they are about; and what filtering a  *)
(* list leaves.                                                            *)
(***************************************************************************)
EXTENDS Settlement, Lists, FiniteSetTheorems, SequenceTheorems,
        WellFoundedInduction, TLAPS

\* Division with remainder undoes packing two halves into one number.
LEMMA HalvesUnpack ==
    ASSUME NEW r \in Nat \ {0}, NEW g \in Nat, NEW s \in 0..(r - 1)
    PROVE  /\ (g * r + s) % r = s
           /\ (g * r + s) \div r = g
  OBVIOUS

\* decode returns exactly what encode was given (token.rs encode and decode),
\* and no encoded token is one that decode refuses.
THEOREM DecodeEncode ==
    ASSUME NEW index \in 0..(U32Max - 1), NEW generation \in 1..U32Max
    PROVE  /\ ~DecodesStale(encode(index, generation))
           /\ decode(encode(index, generation)).index = index
           /\ decode(encode(index, generation)).generation = generation
  <1> DEFINE token == generation * Radix + (index + 1)
  <1>1. /\ Radix \in Nat \ {0}
        /\ index + 1 \in 0..(Radix - 1) /\ index + 1 # 0
        /\ generation \in Nat
    BY U32MaxAssumption DEF Radix
  <1>2. token % Radix = index + 1 /\ token \div Radix = generation
    BY <1>1, HalvesUnpack
  <1>3. encode(index, generation) = token
    BY DEF encode
  <1>4. token # 0
    BY <1>1, <1>2
  <1> HIDE DEF token
  <1> QED
    BY <1>1, <1>2, <1>3, <1>4 DEF decode, DecodesStale

\* EncodedRegistrationId::parts agrees with decode on every encoded token: the
\* unchecked path of delete reads the same slot as the checked path of modify.
THEOREM PartsEncode ==
    ASSUME NEW index \in 0..(U32Max - 1), NEW generation \in 1..U32Max
    PROVE  /\ parts(encode(index, generation)).index = index
           /\ parts(encode(index, generation)).generation = generation
  <1> DEFINE token == generation * Radix + (index + 1)
  <1>1. /\ Radix \in Nat \ {0} /\ U32Max = Radix - 1
        /\ index + 1 \in 0..(Radix - 1) /\ index + 1 # 0
        /\ generation \in Nat
    BY U32MaxAssumption DEF Radix
  <1>2. token % Radix = index + 1 /\ token \div Radix = generation
    BY <1>1, HalvesUnpack
  <1>3. encode(index, generation) = token
    BY DEF encode
  <1>4. ((index + 1) + U32Max) % Radix = index
    <2>1. /\ 1 \in Nat /\ index \in 0..(Radix - 1)
          /\ (index + 1) + U32Max = 1 * Radix + index
      BY <1>1
    <2>2. (1 * Radix + index) % Radix = index
      BY <1>1, <2>1, HalvesUnpack
    <2> QED
      BY <2>1, <2>2
  <1> HIDE DEF token
  <1> QED
    BY <1>1, <1>2, <1>3, <1>4 DEF parts

\* Two different generations of two slots never share a token.
THEOREM EncodeInjective ==
    ASSUME NEW i \in 0..(U32Max - 1), NEW g \in 1..U32Max,
           NEW j \in 0..(U32Max - 1), NEW k \in 1..U32Max,
           encode(i, g) = encode(j, k)
    PROVE  i = j /\ g = k
  <1>1. /\ decode(encode(i, g)).index = i
        /\ decode(encode(i, g)).generation = g
    BY DecodeEncode
  <1>2. /\ decode(encode(j, k)).index = j
        /\ decode(encode(j, k)).generation = k
    BY DecodeEncode
  <1> QED
    BY <1>1, <1>2

------------------------------------------------------------------------------
(* The table.                                                              *)

\* Limits in the form arithmetic needs them; FREE_END is no index.
LEMMA Limits ==
    /\ U32Max \in Nat /\ U32Max >= 1
    /\ Limit \in Nat /\ Limit >= 1 /\ Limit <= U32Max
    /\ Index = 0..(Limit - 1)
    /\ FREE_END \in 0..U32Max /\ FREE_END \notin Index
    /\ \A i \in Index : Encodable(i) /\ i \in 0..U32Max
  BY U32MaxAssumption, LimitAssumption
     DEF MAX_REGISTRATIONS, Index, FREE_END, Encodable

\* The spent slots are finitely many, at most Limit.
LEMMA SpentFinite ==
    ASSUME NEW S \in SUBSET Index
    PROVE  IsFiniteSet(S) /\ Cardinality(S) \in 0..Limit
  <1>1. IsFiniteSet(Index) /\ Cardinality(Index) = Limit
    BY FS_Interval, Limits, 0 \in Int, Limit - 1 \in Int
  <1>2. IsFiniteSet(S) /\ Cardinality(S) <= Cardinality(Index)
    BY <1>1, FS_Subset
  <1>3. Cardinality(S) \in Nat
    BY <1>2, FS_CardinalityType
  <1> QED
    BY <1>1, <1>2, <1>3, Limits

LEMMA NewInv == TableInv(new)
  <1>1. new \in Table /\ SlotsPushed(new)
    BY Limits DEF new, Table, Slot, Unpushed, SlotsPushed
  <1>2. \A i \in Index : ~Vacant(new, i) /\ ~Spent(new, i)
    BY Limits DEF new, Vacant, Spent
  <1>3. HasFreeStack(new)
    <2> DEFINE at == [k \in 1..0 |-> 0]
    <2>1. 0 \in 0..Limit /\ at \in [1..0 -> Index]
      BY Limits
    <2>2. IsFreeStack(new, 0, at)
      BY <1>2 DEF IsFreeStack, new
    <2> QED
      BY <2>1, <2>2 DEF HasFreeStack
  <1>4. SpentSlots(new) = {}
    BY <1>2 DEF SpentSlots
  <1>5. ExhaustedCounted(new)
    BY <1>4, FS_EmptySet DEF ExhaustedCounted, new
  <1> QED
    BY <1>1, <1>3, <1>5 DEF TableInv

\* Changing the entry of an occupied slot to another entry keeps the table.
LEMMA SetEntryInv ==
    ASSUME NEW t, TableInv(t), NEW i \in Index, t.slots[i].entry # None,
           NEW e \in Entry
    PROVE  /\ TableInv(SetEntry(t, i, e))
           /\ SetEntry(t, i, e).slots =
                 [t.slots EXCEPT ![i] = [generation |-> t.slots[i].generation,
                                         entry |-> e,
                                         next_free |-> t.slots[i].next_free]]
           /\ SetEntry(t, i, e).len = t.len
  <1> DEFINE u == SetEntry(t, i, e)
             s == [generation |-> t.slots[i].generation, entry |-> e,
                   next_free |-> t.slots[i].next_free]
  <1>1. t \in Table /\ SlotsPushed(t) /\ HasFreeStack(t) /\ ExhaustedCounted(t)
    BY DEF TableInv
  <1>2. t.slots \in [Index -> Slot]
    BY <1>1 DEF Table
  <1>3. s \in Slot /\ e # None
    BY <1>2, NoneAssumption DEF Slot
  <1>4. /\ u.slots = [t.slots EXCEPT ![i] = s]
        /\ u.len = t.len /\ u.free_head = t.free_head
        /\ u.exhausted = t.exhausted /\ u \in Table
    BY <1>1, <1>2, <1>3 DEF SetEntry, Table
  <1> HIDE DEF u
  <1>5. SlotsPushed(u)
    BY <1>1, <1>2, <1>3, <1>4 DEF SlotsPushed, Unpushed
  <1>6. \A j \in Index : /\ Vacant(u, j) <=> Vacant(t, j)
                         /\ Spent(u, j) <=> Spent(t, j)
                         /\ u.slots[j].next_free = t.slots[j].next_free
    BY <1>2, <1>3, <1>4 DEF Vacant, Spent
  <1>7. HasFreeStack(u)
    <2>1. PICK n \in 0..Limit : \E at \in [1..n -> Index] : IsFreeStack(t, n, at)
      BY <1>1 DEF HasFreeStack
    <2>2. PICK at \in [1..n -> Index] : IsFreeStack(t, n, at)
      BY <2>1
    <2>3. IsFreeStack(u, n, at)
      BY <2>2, <1>4, <1>6 DEF IsFreeStack
    <2> QED
      BY <2>3 DEF HasFreeStack
  <1>8. ExhaustedCounted(u)
    BY <1>1, <1>4, <1>6 DEF ExhaustedCounted, SpentSlots
  <1> QED
    BY <1>4, <1>5, <1>7, <1>8 DEF TableInv, u

\* A free list that is not empty starts at its head; an empty one has no slot.
LEMMA FreeHead ==
    ASSUME NEW t, NEW n \in 0..Limit, NEW at \in [1..n -> Index],
           IsFreeStack(t, n, at)
    PROVE  /\ has_reusable_slot(t) <=> n # 0
           /\ n # 0 => t.free_head = at[n] /\ at[n] \in Index
           /\ n = 0 => \A i \in Index : ~Vacant(t, i)
  BY Limits DEF IsFreeStack, has_reusable_slot

\* With a sound table, no permit reports Error::Invariant (table_reserve.rs
\* fresh_permit, reused_permit): a slot on the free list can be reused.
LEMMA PermitNeverInvariant ==
    ASSUME NEW t, TableInv(t)
    PROVE  /\ has_reusable_slot(t) =>
                 /\ reused_permit(t) = "Ok"
                 /\ t.free_head \in Index /\ Vacant(t, t.free_head)
           /\ ~has_reusable_slot(t) => fresh_permit(t) # "Invariant"
  <1>1. PICK n \in 0..Limit : \E at \in [1..n -> Index] : IsFreeStack(t, n, at)
    BY DEF TableInv, HasFreeStack
  <1>2. PICK at \in [1..n -> Index] : IsFreeStack(t, n, at)
    BY <1>1
  <1>3. has_reusable_slot(t) => t.free_head \in Index /\ Vacant(t, t.free_head)
    BY <1>2, FreeHead, Limits DEF IsFreeStack
  <1>4. has_reusable_slot(t) => reused_permit(t) = "Ok"
    BY <1>3, Limits DEF reused_permit, has_reusable_slot, Vacant
  <1>5. ~has_reusable_slot(t) => fresh_permit(t) # "Invariant"
    BY DEF fresh_permit
  <1> QED
    BY <1>3, <1>4, <1>5

\* Pushing a fresh slot keeps the table: the free list is empty and stays so.
LEMMA ReserveFreshInv ==
    ASSUME NEW t, TableInv(t), NEW e \in Entry,
           ~has_reusable_slot(t), fresh_permit(t) = "Ok"
    PROVE  /\ t.len \in Index
           /\ TableInv(reserve_fresh(t, e))
           /\ reserve_fresh(t, e).slots =
                 [t.slots EXCEPT ![t.len] = [generation |-> 1, entry |-> e,
                                             next_free |-> FREE_END]]
           /\ reserve_fresh(t, e).len = t.len + 1
  <1> DEFINE u == reserve_fresh(t, e)
             s == [generation |-> 1, entry |-> e, next_free |-> FREE_END]
  <1>1. t \in Table /\ SlotsPushed(t) /\ HasFreeStack(t) /\ ExhaustedCounted(t)
    BY DEF TableInv
  <1>2. t.slots \in [Index -> Slot] /\ t.len \in 0..Limit
    BY <1>1 DEF Table
  <1>3. t.len \in Index
    <2>1. t.len < Limit
      BY DEF fresh_permit
    <2> QED
      BY <2>1, <1>2, Limits
  <1>4. s \in Slot /\ e # None
    BY Limits, NoneAssumption DEF Slot
  <1>5. /\ u.slots = [t.slots EXCEPT ![t.len] = s]
        /\ u.len = t.len + 1 /\ u.free_head = t.free_head
        /\ u.exhausted = t.exhausted /\ u \in Table
    <2>1. /\ t.len + 1 \in 0..Limit
          /\ [t.slots EXCEPT ![t.len] = s] \in [Index -> Slot]
      BY <1>2, <1>3, <1>4, Limits
    <2>2. u = [t EXCEPT !.slots = [t.slots EXCEPT ![t.len] = s],
                        !.len = t.len + 1]
      BY DEF reserve_fresh
    <2> HIDE DEF u, s
    <2> QED
      BY <1>1, <2>1, <2>2 DEF Table
  <1> HIDE DEF u
  <1>6. SlotsPushed(u)
    BY <1>1, <1>2, <1>3, <1>4, <1>5, Limits DEF SlotsPushed
  <1>7. \A j \in Index : /\ Vacant(u, j) <=> Vacant(t, j)
                         /\ Spent(u, j) <=> Spent(t, j)
    BY <1>2, <1>3, <1>4, <1>5, Limits DEF Vacant, Spent
  <1>8. HasFreeStack(u)
    <2>1. PICK n \in 0..Limit : \E at \in [1..n -> Index] : IsFreeStack(t, n, at)
      BY <1>1 DEF HasFreeStack
    <2>2. PICK at \in [1..n -> Index] : IsFreeStack(t, n, at)
      BY <2>1
    <2>3. n = 0
      BY <2>2, FreeHead
    <2>4. IsFreeStack(u, n, at)
      BY <2>2, <2>3, <1>5, <1>7 DEF IsFreeStack
    <2> QED
      BY <2>4 DEF HasFreeStack
  <1>9. ExhaustedCounted(u)
    BY <1>1, <1>5, <1>7 DEF ExhaustedCounted, SpentSlots
  <1> QED
    BY <1>3, <1>5, <1>6, <1>8, <1>9 DEF TableInv, u

\* Popping the head of the free list keeps the table: the rest of the list is
\* the free list, and the popped slot is occupied one generation later.
LEMMA ReserveReusedInv ==
    ASSUME NEW t, TableInv(t), NEW e \in Entry, has_reusable_slot(t)
    PROVE  LET i == t.free_head
           IN  /\ i \in Index /\ Vacant(t, i)
               /\ TableInv(reserve_reused(t, e))
               /\ reserve_reused(t, e).slots =
                     [t.slots EXCEPT ![i] =
                         [generation |-> t.slots[i].generation + 1, entry |-> e,
                          next_free |-> t.slots[i].next_free]]
               /\ reserve_reused(t, e).len = t.len
  <1> DEFINE i == t.free_head
             u == reserve_reused(t, e)
             s == [generation |-> t.slots[i].generation + 1, entry |-> e,
                   next_free |-> t.slots[i].next_free]
  <1>1. t \in Table /\ SlotsPushed(t) /\ HasFreeStack(t) /\ ExhaustedCounted(t)
    BY DEF TableInv
  <1>2. t.slots \in [Index -> Slot] /\ t.len \in 0..Limit
    BY <1>1 DEF Table
  <1>3. i \in Index /\ Vacant(t, i)
    BY PermitNeverInvariant
  <1>4. s \in Slot /\ e # None /\ s.generation \in 1..U32Max
    <2>1. t.slots[i].generation \in 0..U32Max /\ t.slots[i].generation # U32Max
      BY <1>2, <1>3 DEF Slot, Vacant, MAX_GENERATION
    <2>2. /\ t.slots[i].generation + 1 \in 1..U32Max
          /\ t.slots[i].generation + 1 \in 0..U32Max
      BY <2>1, Limits
    <2>3. t.slots[i].next_free \in 0..U32Max
      BY <1>2, <1>3 DEF Slot
    <2> QED
      BY <2>2, <2>3, NoneAssumption DEF Slot
  <1>5. /\ u.slots = [t.slots EXCEPT ![i] = s]
        /\ u.len = t.len /\ u.free_head = t.slots[i].next_free
        /\ u.exhausted = t.exhausted /\ u \in Table
    BY <1>1, <1>2, <1>3, <1>4 DEF reserve_reused, Table, Slot
  <1> HIDE DEF u
  <1>6. SlotsPushed(u)
    BY <1>1, <1>2, <1>3, <1>4, <1>5, Limits DEF SlotsPushed, Vacant
  <1>7. \A j \in Index : /\ Vacant(u, j) <=> Vacant(t, j) /\ j # i
                         /\ Spent(u, j) <=> Spent(t, j)
                         /\ u.slots[j].next_free = t.slots[j].next_free
    BY <1>2, <1>3, <1>4, <1>5 DEF Vacant, Spent
  <1>8. HasFreeStack(u)
    <2>1. PICK n \in 0..Limit : \E at \in [1..n -> Index] : IsFreeStack(t, n, at)
      BY <1>1 DEF HasFreeStack
    <2>2. PICK at \in [1..n -> Index] : IsFreeStack(t, n, at)
      BY <2>1
    <2>3. n # 0 /\ i = at[n]
      BY <2>2, FreeHead
    <2> DEFINE rest == [k \in 1..(n - 1) |-> at[k]]
    <2>4. n - 1 \in 0..Limit /\ rest \in [1..(n - 1) -> Index]
      BY <2>3, Limits
    <2>5. IsFreeStack(u, n - 1, rest)
      <3>1. \A k \in 1..(n - 1) :
               /\ Vacant(u, rest[k])
               /\ u.slots[rest[k]].next_free =
                      IF k = 1 THEN FREE_END ELSE rest[k - 1]
        <4> TAKE k \in 1..(n - 1)
        <4>1. /\ k \in 1..n /\ k # n /\ rest[k] = at[k]
              /\ k # 1 => rest[k - 1] = at[k - 1]
          OBVIOUS
        <4>2. at[k] # i
          BY <2>2, <2>3, <4>1 DEF IsFreeStack
        <4> QED
          BY <2>2, <4>1, <4>2, <1>7 DEF IsFreeStack
      <3>2. \A j, k \in 1..(n - 1) : rest[j] = rest[k] => j = k
        BY <2>2 DEF IsFreeStack
      <3>3. \A j \in Index : Vacant(u, j) => \E k \in 1..(n - 1) : rest[k] = j
        BY <2>2, <2>3, <1>7 DEF IsFreeStack
      <3>4. u.free_head = IF n - 1 = 0 THEN FREE_END ELSE rest[n - 1]
        BY <2>2, <2>3, <1>5 DEF IsFreeStack
      <3> QED
        BY <3>1, <3>2, <3>3, <3>4 DEF IsFreeStack
    <2> QED
      BY <2>4, <2>5 DEF HasFreeStack
  <1>9. ExhaustedCounted(u)
    BY <1>1, <1>5, <1>7 DEF ExhaustedCounted, SpentSlots
  <1> QED
    BY <1>3, <1>5, <1>6, <1>8, <1>9 DEF TableInv, u

\* The slot a retired lease leaves behind.
RetiredSlot(t, i) ==
    [generation |-> t.slots[i].generation, entry |-> None,
     next_free |-> IF t.slots[i].generation = MAX_GENERATION
                   THEN FREE_END ELSE t.free_head]

\* Retiring an occupied slot keeps the table: it is pushed on the free list,
\* or counted as exhausted when it has no generation left.
LEMMA RetireInv ==
    ASSUME NEW t, TableInv(t), NEW i \in Index, t.slots[i].entry # None
    PROVE  /\ TableInv(retire(t, i))
           /\ retire(t, i).slots = [t.slots EXCEPT ![i] = RetiredSlot(t, i)]
           /\ retire(t, i).len = t.len
  <1> DEFINE u == retire(t, i)
             s == RetiredSlot(t, i)
  <1>1. t \in Table /\ SlotsPushed(t) /\ HasFreeStack(t) /\ ExhaustedCounted(t)
    BY DEF TableInv
  <1>2. /\ t.slots \in [Index -> Slot] /\ t.len \in 0..Limit
        /\ t.free_head \in 0..U32Max /\ t.exhausted \in 0..Limit
    BY <1>1 DEF Table
  <1>3. i < t.len /\ t.slots[i].generation \in 1..U32Max
    BY <1>1, Limits DEF SlotsPushed, Unpushed
  <1>4. s \in Slot /\ s.entry = None /\ s.generation = t.slots[i].generation
    BY <1>2, <1>3, Limits DEF Slot, RetiredSlot
  <1>5. PICK n \in 0..Limit : \E at \in [1..n -> Index] : IsFreeStack(t, n, at)
    BY <1>1 DEF HasFreeStack
  <1>6. PICK at \in [1..n -> Index] : IsFreeStack(t, n, at)
    BY <1>5
  <1>7. \A k \in 1..n : at[k] # i
    BY <1>6 DEF IsFreeStack, Vacant
  <1>8. CASE t.slots[i].generation = MAX_GENERATION
    <2>1. i \notin SpentSlots(t) /\ SpentSlots(t) \in SUBSET Index
      BY DEF SpentSlots, Spent
    <2>2. /\ Cardinality(SpentSlots(t) \cup {i}) = t.exhausted + 1
          /\ t.exhausted + 1 \in 0..Limit
      <3>1. IsFiniteSet(SpentSlots(t))
        BY <2>1, SpentFinite
      <3>2. Cardinality(SpentSlots(t) \cup {i}) = Cardinality(SpentSlots(t)) + 1
        BY <2>1, <3>1, FS_AddElement
      <3>3. Cardinality(SpentSlots(t) \cup {i}) \in 0..Limit
        BY <2>1, SpentFinite
      <3> QED
        BY <1>1, <3>2, <3>3 DEF ExhaustedCounted
    <2>3. /\ u.slots = [t.slots EXCEPT ![i] = s]
          /\ u.len = t.len /\ u.free_head = t.free_head
          /\ u.exhausted = t.exhausted + 1 /\ u \in Table
      BY <1>1, <1>2, <1>4, <1>8, <2>2 DEF retire, Table, RetiredSlot
    <2> HIDE DEF u
    <2>4. SlotsPushed(u)
      BY <1>1, <1>2, <1>3, <1>4, <2>3 DEF SlotsPushed
    <2>5. \A j \in Index : /\ Vacant(u, j) <=> Vacant(t, j)
                           /\ Spent(u, j) <=> Spent(t, j) \/ j = i
                           /\ j # i => u.slots[j] = t.slots[j]
      BY <1>2, <1>3, <1>4, <1>8, <2>3 DEF Vacant, Spent
    <2>6. IsFreeStack(u, n, at)
      BY <1>6, <1>7, <2>3, <2>5 DEF IsFreeStack
    <2>7. HasFreeStack(u)
      BY <2>6 DEF HasFreeStack
    <2>8. SpentSlots(u) = SpentSlots(t) \cup {i}
      BY <2>5 DEF SpentSlots
    <2>9. ExhaustedCounted(u)
      BY <2>2, <2>3, <2>8 DEF ExhaustedCounted
    <2> QED
      BY <2>3, <2>4, <2>7, <2>9 DEF TableInv, u
  <1>9. CASE t.slots[i].generation # MAX_GENERATION
    <2>1. /\ u.slots = [t.slots EXCEPT ![i] = s]
          /\ u.len = t.len /\ u.free_head = i
          /\ u.exhausted = t.exhausted /\ u \in Table
      BY <1>1, <1>2, <1>4, <1>9, Limits DEF retire, Table, RetiredSlot
    <2> HIDE DEF u
    <2>2. SlotsPushed(u)
      BY <1>1, <1>2, <1>3, <1>4, <2>1 DEF SlotsPushed
    <2>3. \A j \in Index : /\ Vacant(u, j) <=> Vacant(t, j) \/ j = i
                           /\ Spent(u, j) <=> Spent(t, j)
                           /\ j # i => u.slots[j] = t.slots[j]
      BY <1>2, <1>3, <1>4, <1>9, <2>1 DEF Vacant, Spent
    <2> DEFINE more == [k \in 1..(n + 1) |-> IF k = n + 1 THEN i ELSE at[k]]
    <2>4. more \in [1..(n + 1) -> Index]
      OBVIOUS
    <2>5. n + 1 \in 0..Limit
      <3>1. \A j, k \in 1..(n + 1) : more[j] = more[k] => j = k
        BY <1>6, <1>7 DEF IsFreeStack
      <3>2. /\ IsFiniteSet(1..(n + 1)) /\ Cardinality(1..(n + 1)) = n + 1
        BY FS_Interval, 1 \in Int, n + 1 \in Int
      <3>3. IsFiniteSet(Index) /\ Cardinality(Index) = Limit
        BY FS_Interval, Limits, 0 \in Int, Limit - 1 \in Int
      <3>4. more \in Injection(1..(n + 1), Index)
        BY <2>4, <3>1 DEF Injection, IsInjective
      <3> HIDE DEF more
      <3>5. Cardinality(1..(n + 1)) <= Cardinality(Index)
        BY <3>3, <3>4, FS_Injection
      <3> QED
        BY <3>2, <3>3, <3>5, Limits
    <2>6. IsFreeStack(u, n + 1, more)
      <3>1. \A k \in 1..(n + 1) :
               /\ Vacant(u, more[k])
               /\ u.slots[more[k]].next_free =
                      IF k = 1 THEN FREE_END ELSE more[k - 1]
        <4> TAKE k \in 1..(n + 1)
        <4>1. CASE k = n + 1
          <5>1. more[k] = i /\ Vacant(u, i)
            BY <4>1, <2>3
          <5>2. u.slots[i].next_free = t.free_head
            BY <1>2, <1>9, <2>1 DEF RetiredSlot
          <5>3. k # 1 => more[k - 1] = at[n]
            BY <4>1
          <5> QED
            BY <4>1, <5>1, <5>2, <5>3, <1>6 DEF IsFreeStack
        <4>2. CASE k # n + 1
          <5>1. k \in 1..n /\ more[k] = at[k] /\ (k # 1 => more[k - 1] = at[k - 1])
            BY <4>2
          <5>2. /\ Vacant(t, at[k])
                /\ t.slots[at[k]].next_free =
                       IF k = 1 THEN FREE_END ELSE at[k - 1]
            BY <5>1, <1>6 DEF IsFreeStack
          <5> QED
            BY <5>1, <5>2, <1>6, <1>7, <2>3
        <4> QED
          BY <4>1, <4>2
      <3>2. \A j, k \in 1..(n + 1) : more[j] = more[k] => j = k
        BY <1>6, <1>7 DEF IsFreeStack
      <3>3. \A j \in Index : Vacant(u, j) => \E k \in 1..(n + 1) : more[k] = j
        BY <1>6, <2>3 DEF IsFreeStack
      <3>4. u.free_head = IF n + 1 = 0 THEN FREE_END ELSE more[n + 1]
        BY <2>1
      <3> QED
        BY <3>1, <3>2, <3>3, <3>4 DEF IsFreeStack
    <2>7. HasFreeStack(u)
      BY <2>4, <2>5, <2>6 DEF HasFreeStack
    <2>8. ExhaustedCounted(u)
      BY <1>1, <2>1, <2>3 DEF ExhaustedCounted, SpentSlots
    <2> QED
      BY <2>1, <2>2, <2>7, <2>8 DEF TableInv, u
  <1> QED
    BY <1>8, <1>9

------------------------------------------------------------------------------
(* Lookups and settlements, in terms of one slot.                          *)

\* An id of the table unpacks into the slot and the generation it was made of,
\* along both lookups.
LEMMA Unpacks ==
    ASSUME NEW i \in Index, NEW g \in 1..MAX_GENERATION
    PROVE  /\ ~DecodesStale(encode(i, g))
           /\ decode(encode(i, g)).index = i
           /\ decode(encode(i, g)).generation = g
           /\ parts(encode(i, g)).index = i
           /\ parts(encode(i, g)).generation = g
  <1>1. i \in 0..(U32Max - 1) /\ g \in 1..U32Max
    BY Limits DEF MAX_GENERATION
  <1> QED
    BY <1>1, DecodeEncode, PartsEncode

LEMMA IdsDistinct ==
    ASSUME NEW i \in Index, NEW g \in 1..MAX_GENERATION,
           NEW j \in Index, NEW k \in 1..MAX_GENERATION,
           encode(i, g) = encode(j, k)
    PROVE  i = j /\ g = k
  BY Unpacks

\* What the lookups of table.rs answer, in terms of the slot.
LEMMA Lookup ==
    ASSUME NEW t, TableInv(t), NEW i \in Index, NEW g \in 1..MAX_GENERATION
    PROVE  LET id == encode(i, g)
               live == t.slots[i].generation = g /\ t.slots[i].entry # None
           IN  /\ IsLive(t, id) <=> live
               /\ Occupied(t, parts(id)) <=> live
               /\ entry(t, id) = t.slots[i].entry
               /\ state(t, id) = IF live THEN t.slots[i].entry.state ELSE "Stale"
  <1>1. SlotsPushed(t)
    BY DEF TableInv
  <1>2. t.slots[i].generation = g => i < t.len
    BY <1>1, Limits DEF SlotsPushed, Unpushed
  <1>3. IsLive(t, encode(i, g)) <=>
           t.slots[i].generation = g /\ t.slots[i].entry # None
    BY <1>2, Unpacks DEF IsLive, Occupied
  <1>4. Occupied(t, parts(encode(i, g))) <=>
           t.slots[i].generation = g /\ t.slots[i].entry # None
    BY <1>2, Unpacks DEF Occupied
  <1>5. entry(t, encode(i, g)) = t.slots[i].entry
    BY Unpacks DEF entry
  <1> QED
    BY <1>3, <1>4, <1>5 DEF state

\* u is t except for slot i, which has generation g and entry e in u.
SlotBecomes(t, u, i, g, e) ==
    /\ TableInv(u)
    /\ u.slots[i].generation = g
    /\ u.slots[i].entry = e
    /\ \A j \in Index : j # i => u.slots[j] = t.slots[j]

\* The table after register's reservation: the permitted slot holds the new
\* entry, one generation later.  An unpushed slot counts as generation 0.
LEMMA Reserve ==
    ASSUME NEW t, TableInv(t), PermitStatus(t) = "Ok", NEW e \in Entry
    PROVE  LET i == Permit(t).index
           IN  /\ i \in Index
               /\ t.slots[i].entry = None
               /\ Permit(t).generation = t.slots[i].generation + 1
               /\ Permit(t).generation \in 1..MAX_GENERATION
               /\ SlotBecomes(t, reserve_with(t, e), i, Permit(t).generation, e)
  <1>1. t.slots \in [Index -> Slot] /\ SlotsPushed(t)
    BY DEF TableInv, Table
  <1>2. CASE has_reusable_slot(t)
    <2> DEFINE i == t.free_head
    <2>1. /\ i \in Index /\ Vacant(t, i)
          /\ TableInv(reserve_reused(t, e))
          /\ reserve_reused(t, e).slots =
                [t.slots EXCEPT ![i] =
                    [generation |-> t.slots[i].generation + 1, entry |-> e,
                     next_free |-> t.slots[i].next_free]]
      BY <1>2, ReserveReusedInv
    <2>2. Permit(t).index = i /\ Permit(t).generation = t.slots[i].generation + 1
      BY <1>2 DEF Permit, ReusedPermit
    <2>3. t.slots[i].generation + 1 \in 1..MAX_GENERATION
      <3>1. t.slots[i].generation \in 0..U32Max /\ t.slots[i].generation # U32Max
        BY <1>1, <2>1 DEF Slot, Vacant, MAX_GENERATION
      <3> QED
        BY <3>1, Limits DEF MAX_GENERATION
    <2>4. reserve_with(t, e) = reserve_reused(t, e)
      BY <1>2 DEF reserve_with
    <2>5. SlotBecomes(t, reserve_reused(t, e), i, t.slots[i].generation + 1, e)
      <3>1. reserve_reused(t, e).slots[i] =
                [generation |-> t.slots[i].generation + 1, entry |-> e,
                 next_free |-> t.slots[i].next_free]
        BY <1>1, <2>1
      <3>2. \A j \in Index : j # i => reserve_reused(t, e).slots[j] = t.slots[j]
        BY <1>1, <2>1
      <3> QED
        BY <2>1, <3>1, <3>2 DEF SlotBecomes
    <2> QED
      BY <2>1, <2>2, <2>3, <2>4, <2>5 DEF Vacant
  <1>3. CASE ~has_reusable_slot(t)
    <2> DEFINE i == t.len
    <2>1. fresh_permit(t) = "Ok"
      BY <1>3 DEF PermitStatus
    <2>2. /\ i \in Index
          /\ TableInv(reserve_fresh(t, e))
          /\ reserve_fresh(t, e).slots =
                [t.slots EXCEPT ![i] = [generation |-> 1, entry |-> e,
                                        next_free |-> FREE_END]]
      BY <1>3, <2>1, ReserveFreshInv
    <2>3. t.slots[i] = Unpushed
      BY <1>1, <2>2, Limits DEF SlotsPushed
    <2>4. Permit(t).index = i /\ Permit(t).generation = 1
      BY <1>3 DEF Permit, FreshPermit
    <2>5. reserve_with(t, e) = reserve_fresh(t, e)
      BY <1>3 DEF reserve_with
    <2>6. SlotBecomes(t, reserve_fresh(t, e), i, 1, e)
      BY <1>1, <2>2 DEF SlotBecomes
    <2>7. 1 \in 1..MAX_GENERATION
      BY Limits DEF MAX_GENERATION
    <2> QED
      BY <2>2, <2>3, <2>4, <2>5, <2>6, <2>7 DEF Unpushed
  <1> QED
    BY <1>2, <1>3

\* Retiring or changing the entry of an occupied slot, in the same terms.
LEMMA Settle ==
    ASSUME NEW t, TableInv(t), NEW i \in Index, t.slots[i].entry # None
    PROVE  /\ SlotBecomes(t, retire(t, i), i, t.slots[i].generation, None)
           /\ \A e \in Entry :
                 SlotBecomes(t, SetEntry(t, i, e), i, t.slots[i].generation, e)
  <1>1. t.slots \in [Index -> Slot]
    BY DEF TableInv, Table
  <1>2. SlotBecomes(t, retire(t, i), i, t.slots[i].generation, None)
    <2> DEFINE u == retire(t, i)
    <2>1. TableInv(u) /\ u.slots = [t.slots EXCEPT ![i] = RetiredSlot(t, i)]
      BY RetireInv
    <2> HIDE DEF u
    <2>2. SlotBecomes(t, u, i, t.slots[i].generation, None)
      BY <1>1, <2>1 DEF SlotBecomes, RetiredSlot
    <2> QED
      BY <2>2 DEF u
  <1>3. ASSUME NEW e \in Entry
        PROVE  SlotBecomes(t, SetEntry(t, i, e), i, t.slots[i].generation, e)
    <2> DEFINE u == SetEntry(t, i, e)
    <2>1. /\ TableInv(u)
          /\ u.slots = [t.slots EXCEPT ![i] =
                            [generation |-> t.slots[i].generation, entry |-> e,
                             next_free |-> t.slots[i].next_free]]
      BY SetEntryInv
    <2> HIDE DEF u
    <2>2. SlotBecomes(t, u, i, t.slots[i].generation, e)
      BY <1>1, <2>1 DEF SlotBecomes
    <2> QED
      BY <2>2 DEF u
  <1> QED
    BY <1>2, <1>3

\* The changed entries are entries.
LEMMA ChangedEntries ==
    ASSUME NEW e \in Entry, NEW interest \in Interests, NEW mode \in Modes
    PROVE  /\ [e EXCEPT !.state = "Uncertain"] \in Entry
           /\ [e EXCEPT !.state = "Disarmed"] \in Entry
           /\ [e EXCEPT !.interest = interest, !.mode = mode,
                        !.state = "Armed"] \in Entry
  BY DEF Entry, RegistrationStates

\* What the answers of the backend make of the occupied slot a call is about:
\* settle_register_failure, modify and delete of src/mutation/.
Uncertainly(e) == [e EXCEPT !.state = "Uncertain"]
Rearmed(e, interest, mode) ==
    [e EXCEPT !.interest = interest, !.mode = mode, !.state = "Armed"]

LEMMA Settlements ==
    ASSUME NEW t, TableInv(t), NEW i \in Index, t.slots[i].entry # None,
           NEW interest \in Interests, NEW mode \in Modes,
           NEW outcome \in Outcomes
    PROVE  LET e == t.slots[i].entry
               g == t.slots[i].generation
           IN  /\ e \in Entry
               /\ SlotBecomes(t, SettledRegister(t, i, outcome), i, g,
                     CASE outcome \in {"Success", "Applied"} -> e
                       [] outcome = "NotApplied" -> None
                       [] outcome = "Unknown" -> Uncertainly(e))
               /\ SlotBecomes(t, SettledModify(t, i, interest, mode, outcome), i, g,
                     CASE outcome \in {"Success", "Applied"} ->
                             Rearmed(e, interest, mode)
                       [] outcome = "NotApplied" -> e
                       [] outcome = "Unknown" -> Uncertainly(e))
               /\ SlotBecomes(t, SettledDelete(t, i, outcome), i, g,
                     CASE outcome \in {"Success", "Applied"} -> None
                       [] outcome = "NotApplied" -> e
                       [] outcome = "Unknown" -> Uncertainly(e))
  <1> DEFINE e == t.slots[i].entry
             g == t.slots[i].generation
  <1>1. e \in Entry
    BY DEF TableInv, Table, Slot
  <1>2. Uncertainly(e) \in Entry /\ Rearmed(e, interest, mode) \in Entry
    BY <1>1, ChangedEntries DEF Uncertainly, Rearmed
  <1>3. /\ SlotBecomes(t, t, i, g, e)
        /\ SlotBecomes(t, retire(t, i), i, g, None)
        /\ SlotBecomes(t, mark_uncertain(t, i), i, g, Uncertainly(e))
        /\ SlotBecomes(t, commit_modify(t, i, interest, mode), i, g,
                       Rearmed(e, interest, mode))
    BY <1>2, Settle
       DEF SlotBecomes, mark_uncertain, commit_modify, Uncertainly, Rearmed
  <1>4. \/ outcome \in {"Success", "Applied"}
        \/ outcome = "NotApplied"
        \/ outcome = "Unknown"
    BY DEF Outcomes, CommitStatus
  <1> QED
    BY <1>1, <1>3, <1>4 DEF SettledRegister, SettledModify, SettledDelete

------------------------------------------------------------------------------
(* Lists.                                                                  *)

\* Induction up to n, with the set of the numbers for which it is shown.
LEMMA UpTo ==
    ASSUME NEW n \in Nat, NEW T, 0 \in T,
           \A m \in 0..(n - 1) : m \in T => m + 1 \in T
    PROVE  \A m \in 0..n : m \in T
  <1> DEFINE R == {ss \in Nat \X Nat : ss[1] < ss[2]}
             Missing == {m \in 0..n : m \notin T}
  <1>1. IsWellFoundedOn(R, Nat)
    BY NatLessThanWellFounded DEF OpToRel
  <1>2. \A k, m \in Nat : k < m => <<k, m>> \in R
    OBVIOUS
  <1> HIDE DEF R
  <1>3. SUFFICES ASSUME Missing # {} PROVE FALSE
    OBVIOUS
  <1>3a. Missing \subseteq Nat
    OBVIOUS
  <1>4. PICK m \in Missing : \A k \in Missing : ~(<<k, m>> \in R)
    <2> HIDE DEF Missing
    <2> QED
      BY <1>1, <1>3, <1>3a, WFMin
  <1>5. m \in 0..n /\ m \notin T /\ m # 0
    BY <1>4
  <1>6. m - 1 \in Missing
    BY <1>5
  <1>7. <<m - 1, m>> \in R
    BY <1>2, <1>5
  <1> QED
    BY <1>4, <1>6, <1>7

\* The recursion that Only runs has a solution.
LEMMA OnlyRuns ==
    ASSUME NEW S, NEW list \in Seq(S), NEW keep
    PROVE  \E kept :
              /\ kept = [n \in 0..Len(list) |->
                            IF n = 0 THEN <<>>
                            ELSE IF list[n] \in keep
                                 THEN Append(kept[n - 1], list[n])
                                 ELSE kept[n - 1]]
              /\ Only(list, keep) = kept[Len(list)]
  <1> DEFINE Step(v, n) == IF list[n] \in keep THEN Append(v, list[n]) ELSE v
             Runs(m, f) == f = [n \in 0..m |-> IF n = 0 THEN <<>>
                                               ELSE Step(f[n - 1], n)]
             T == {m \in 0..Len(list) : \E f : Runs(m, f)}
  <1>0. Len(list) \in Nat
    OBVIOUS
  <1> HIDE DEF Step
  <1>1. 0 \in T
    <2> DEFINE f == [n \in 0..0 |-> <<>>]
    <2>1. Runs(0, f)
      OBVIOUS
    <2> HIDE DEF f, Runs
    <2> QED
      BY <1>0, <2>1
  <1>2. ASSUME NEW m \in 0..(Len(list) - 1), m \in T PROVE m + 1 \in T
    <2>1. PICK f : Runs(m, f)
      BY <1>2
    <2> DEFINE g == [n \in 0..(m + 1) |->
                        IF n = m + 1 THEN Step(f[m], m + 1) ELSE f[n]]
    <2>2. ASSUME NEW n \in 0..(m + 1)
          PROVE  g[n] = IF n = 0 THEN <<>> ELSE Step(g[n - 1], n)
      <3>1. CASE n = m + 1
        BY <3>1
      <3>2. CASE n # m + 1
        <4>1. n \in 0..m
          BY <3>2
        <4>2. f[n] = IF n = 0 THEN <<>> ELSE Step(f[n - 1], n)
          BY <2>1, <4>1
        <4> QED
          BY <4>1, <4>2
      <3> QED
        BY <3>1, <3>2
    <2>3. g = [n \in 0..(m + 1) |-> g[n]]
      OBVIOUS
    <2> HIDE DEF g
    <2>4. Runs(m + 1, g)
      BY <2>2, <2>3
    <2> HIDE DEF Runs
    <2> QED
      BY <1>0, <2>4
  <1> HIDE DEF T
  <1>3. Len(list) \in T
    <2>1. \A m \in 0..Len(list) : m \in T
      BY <1>0, <1>1, <1>2, UpTo
    <2> QED
      BY <1>0, <2>1
  <1>4. \E f : Runs(Len(list), f)
    BY <1>3 DEF T
  <1> DEFINE kept == CHOOSE f : Runs(Len(list), f)
  <1>5. Only(list, keep) = kept[Len(list)]
    BY DEF Only, Step
  <1>6. Runs(Len(list), kept)
    BY <1>4, Zenon
  <1> HIDE DEF kept
  <1>7. kept = [n \in 0..Len(list) |->
                   IF n = 0 THEN <<>>
                   ELSE IF list[n] \in keep THEN Append(kept[n - 1], list[n])
                                           ELSE kept[n - 1]]
    BY <1>6 DEF Step
  <1> QED
    BY <1>5, <1>7, Zenon

\* Only keeps what is to be kept, once each and in the same order.
InOrder(out, list) ==
    \A j, k \in 1..Len(out) : \A a, b \in 1..Len(list) :
        j < k /\ list[a] = out[j] /\ list[b] = out[k] => a < b

LEMMA OnlyKept ==
    ASSUME NEW S, NEW list \in Seq(S), NEW keep
    PROVE  /\ Only(list, keep) \in Seq(S)
           /\ Len(Only(list, keep)) <= Len(list)
           /\ \A x : Listed(Only(list, keep), x) <=> Listed(list, x) /\ x \in keep
           /\ OnceEach(list) => /\ OnceEach(Only(list, keep))
                                /\ InOrder(Only(list, keep), list)
  <1> DEFINE N == Len(list)
  <1>0. N \in Nat /\ \A n \in 1..N : list[n] \in S
    OBVIOUS
  <1>1. PICK kept : /\ kept = [n \in 0..N |->
                            IF n = 0 THEN <<>>
                            ELSE IF list[n] \in keep
                                 THEN Append(kept[n - 1], list[n])
                                 ELSE kept[n - 1]]
                    /\ Only(list, keep) = kept[N]
    BY OnlyRuns
  <1> HIDE DEF N
  <1>2. kept[0] = <<>>
    BY <1>0, <1>1
  <1>3. ASSUME NEW m \in 0..(N - 1)
        PROVE  kept[m + 1] = IF list[m + 1] \in keep
                             THEN Append(kept[m], list[m + 1]) ELSE kept[m]
    <2>1. m + 1 \in 0..N /\ m + 1 # 0 /\ (m + 1) - 1 = m
      BY <1>0
    <2> QED
      BY <1>1, <2>1
  <1> DEFINE A(m, out) == /\ out \in Seq(S)
                          /\ Len(out) <= m
                          /\ \A k \in 1..Len(out) : out[k] \in keep
                          /\ \A k \in 1..Len(out) : \E a \in 1..m : list[a] = out[k]
             B(m, out) == \A a \in 1..m : list[a] \in keep =>
                              \E k \in 1..Len(out) : out[k] = list[a]
             C(m, out) == OnceEach(list) =>
                              \A j, k \in 1..Len(out) : \A a, b \in 1..m :
                                 j < k /\ list[a] = out[j] /\ list[b] = out[k]
                                     => a < b
             T == {m \in 0..N : A(m, kept[m]) /\ B(m, kept[m]) /\ C(m, kept[m])}
  <1>4. 0 \in T
    <2> DEFINE out == kept[0]
    <2>1. out \in Seq(S) /\ Len(out) = 0
      BY <1>2
    <2>2. 0 \in 0..N /\ 1..0 = {}
      BY <1>0
    <2> HIDE DEF out
    <2>3. A(0, out) /\ B(0, out) /\ C(0, out)
      BY <2>1, <2>2
    <2> QED
      BY <2>2, <2>3 DEF out
  <1>5. ASSUME NEW m \in 0..(N - 1), m \in T PROVE m + 1 \in T
    <2> DEFINE out == kept[m]
    <2>1. A(m, out) /\ B(m, out) /\ C(m, out)
      BY <1>5
    <2>2. m + 1 \in 0..N /\ m \in Nat /\ list[m + 1] \in S /\ m + 1 \in 1..N
      BY <1>0
    <2>3. CASE list[m + 1] \notin keep
      <3>1. kept[m + 1] = out
        BY <1>3, <2>3
      <3> HIDE DEF out
      <3>2. A(m + 1, out)
        BY <2>1, <2>2
      <3>3. B(m + 1, out)
        BY <2>1, <2>2, <2>3
      <3>4. C(m + 1, out)
        <4>1. \A k \in 1..Len(out) : out[k] # list[m + 1]
          BY <2>1, <2>3
        <4>2. SUFFICES ASSUME OnceEach(list), NEW j \in 1..Len(out),
                              NEW k \in 1..Len(out), NEW a \in 1..(m + 1),
                              NEW b \in 1..(m + 1), j < k,
                              list[a] = out[j], list[b] = out[k]
                       PROVE  a < b
          OBVIOUS
        <4>3. a \in 1..m /\ b \in 1..m
          BY <2>2, <4>1, <4>2
        <4> QED
          BY <2>1, <4>2, <4>3
      <3> QED
        BY <2>2, <3>1, <3>2, <3>3, <3>4
    <2>4. CASE list[m + 1] \in keep
      <3> DEFINE longer == Append(out, list[m + 1])
      <3>1. kept[m + 1] = longer
        BY <1>3, <2>4
      <3>2. /\ longer \in Seq(S)
            /\ Len(out) \in Nat
            /\ Len(longer) = Len(out) + 1
            /\ \A k \in 1..Len(out) : longer[k] = out[k]
            /\ longer[Len(out) + 1] = list[m + 1]
        BY <2>1, <2>2, AppendProperties
      <3> HIDE DEF longer, out
      <3>3. A(m + 1, longer)
        <4>1. ASSUME NEW k \in 1..Len(longer)
              PROVE  longer[k] \in keep /\ \E a \in 1..(m + 1) : list[a] = longer[k]
          <5>1. CASE k = Len(out) + 1
            BY <2>2, <2>4, <3>2, <5>1
          <5>2. CASE k # Len(out) + 1
            <6>1. k \in 1..Len(out) /\ longer[k] = out[k]
              BY <3>2, <5>2
            <6>2. out[k] \in keep /\ \E a \in 1..m : list[a] = out[k]
              BY <2>1, <6>1
            <6> QED
              BY <2>2, <6>1, <6>2
          <5> QED
            BY <5>1, <5>2
        <4>2. Len(longer) <= m + 1
          BY <2>1, <2>2, <3>2
        <4> QED
          BY <3>2, <4>1, <4>2
      <3>4. B(m + 1, longer)
        <4>1. ASSUME NEW a \in 1..(m + 1), list[a] \in keep
              PROVE  \E k \in 1..Len(longer) : longer[k] = list[a]
          <5>1. CASE a = m + 1
            BY <3>2, <5>1
          <5>2. CASE a # m + 1
            <6>1. a \in 1..m
              BY <2>2, <5>2
            <6>2. PICK k \in 1..Len(out) : out[k] = list[a]
              BY <2>1, <4>1, <6>1
            <6>3. k \in 1..Len(longer) /\ longer[k] = list[a]
              BY <3>2, <6>2
            <6> QED
              BY <6>3
          <5> QED
            BY <5>1, <5>2
        <4> QED
          BY <4>1
      <3>5. C(m + 1, longer)
        <4>1. SUFFICES ASSUME OnceEach(list), NEW j \in 1..Len(longer),
                              NEW k \in 1..Len(longer), NEW a \in 1..(m + 1),
                              NEW b \in 1..(m + 1), j < k,
                              list[a] = longer[j], list[b] = longer[k]
                       PROVE  a < b
          OBVIOUS
        <4>2. j \in 1..Len(out) /\ longer[j] = out[j]
          BY <3>2, <4>1
        <4>3. PICK c \in 1..m : list[c] = out[j]
          BY <2>1, <4>2
        <4>4. a = c
          BY <2>2, <4>1, <4>2, <4>3 DEF OnceEach, N
        <4>5. CASE k = Len(out) + 1
          <5>1. b = m + 1
            BY <2>2, <3>2, <4>1, <4>5 DEF OnceEach, N
          <5> QED
            BY <2>2, <4>4, <5>1
        <4>6. CASE k # Len(out) + 1
          <5>1. k \in 1..Len(out) /\ longer[k] = out[k]
            BY <3>2, <4>6
          <5>2. PICK d \in 1..m : list[d] = out[k]
            BY <2>1, <5>1
          <5>3. b = d
            BY <2>2, <4>1, <5>1, <5>2 DEF OnceEach, N
          <5> QED
            BY <2>1, <4>1, <4>2, <4>3, <4>4, <5>1, <5>2, <5>3
        <4> QED
          BY <4>5, <4>6
      <3> QED
        BY <2>2, <3>1, <3>3, <3>4, <3>5
    <2> QED
      BY <2>3, <2>4
  <1>6. A(N, kept[N]) /\ B(N, kept[N]) /\ C(N, kept[N])
    <2> HIDE DEF T
    <2>1. \A m \in 0..N : m \in T
      BY <1>0, <1>4, <1>5, UpTo
    <2>2. N \in T
      BY <1>0, <2>1
    <2> QED
      BY <2>2 DEF T
  <1> DEFINE out == kept[N]
  <1>7. out \in Seq(S) /\ Len(out) <= Len(list)
    BY <1>6 DEF N
  <1>8. ASSUME NEW x PROVE Listed(out, x) <=> Listed(list, x) /\ x \in keep
    BY <1>6 DEF Listed, N
  <1>9. ASSUME OnceEach(list) PROVE OnceEach(out) /\ InOrder(out, list)
    <2>1. InOrder(out, list)
      BY <1>6, <1>9 DEF InOrder, N
    <2>2. ASSUME NEW j \in 1..Len(out), NEW k \in 1..Len(out), out[j] = out[k],
                 j < k
          PROVE  FALSE
      <3>1. PICK a \in 1..N : list[a] = out[j]
        BY <1>6, <2>2
      <3>2. a < a
        BY <2>1, <2>2, <3>1 DEF InOrder, N
      <3> QED
        BY <1>0, <3>2
    <2>3. Len(out) \in Nat
      BY <1>7
    <2> HIDE DEF out
    <2> QED
      BY <2>1, <2>2, <2>3 DEF OnceEach
  <1> QED
    BY <1>1, <1>7, <1>8, <1>9, Zenon

\* Chosen lists the members that are to be kept, in increasing order.
LEMMA ChosenUp ==
    ASSUME NEW n \in Nat, NEW keep
    PROVE  LET out == Chosen(n, keep)
           IN  /\ out \in Seq(1..n)
               /\ Len(out) \in 0..n
               /\ \A k \in 1..Len(out) : out[k] \in 1..n /\ out[k] \in keep
               /\ \A m \in 1..n : m \in keep => \E k \in 1..Len(out) : out[k] = m
               /\ \A j, k \in 1..Len(out) : j < k => out[j] < out[k]
               /\ \A j, k \in 1..Len(out) : out[j] = out[k] => j = k
  <1> DEFINE list == [k \in 1..n |-> k]
             out == Only(list, keep)
  <1>1. /\ list \in Seq(1..n) /\ Len(list) = n
        /\ \A k \in 1..n : list[k] = k
    OBVIOUS
  <1> HIDE DEF list
  <1>2. OnceEach(list)
    BY <1>1 DEF OnceEach
  <1>3. /\ out \in Seq(1..n)
        /\ Len(out) <= n
        /\ \A x : Listed(out, x) <=> Listed(list, x) /\ x \in keep
        /\ OnceEach(out) /\ InOrder(out, list)
    BY <1>1, <1>2, OnlyKept, Zenon
  <1> HIDE DEF out
  <1>4. Len(out) \in Nat /\ \A k \in 1..Len(out) : out[k] \in 1..n
    BY <1>3
  <1>5. \A k \in 1..Len(out) : out[k] \in keep
    BY <1>3 DEF Listed
  <1>6. \A m \in 1..n : m \in keep => \E k \in 1..Len(out) : out[k] = m
    BY <1>1, <1>3 DEF Listed
  <1>7. \A j, k \in 1..Len(out) : j < k => out[j] < out[k]
    BY <1>1, <1>3, <1>4 DEF InOrder
  <1>8. Chosen(n, keep) = out
    BY DEF Chosen, out, list
  <1> QED
    BY <1>3, <1>4, <1>5, <1>6, <1>7, <1>8 DEF OnceEach

\* A piece of a list in which nothing is repeated.
LEMMA Piece ==
    ASSUME NEW S, NEW list \in Seq(S), NEW m \in Nat, NEW n \in Nat,
           m <= n, n <= Len(list)
    PROVE  LET piece == SubSeq(list, m + 1, n)
           IN  /\ piece \in Seq(S)
               /\ Len(piece) = n - m
               /\ \A k \in 1..(n - m) : piece[k] = list[m + k]
               /\ OnceEach(list) => OnceEach(piece)
  <1> DEFINE piece == SubSeq(list, m + 1, n)
  <1>1. Len(list) \in Nat /\ \A k \in 1..Len(list) : list[k] \in S
    OBVIOUS
  <1>2. \A k \in (m + 1)..n : list[k] \in S
    BY <1>1
  <1>3. /\ piece \in Seq(S)
        /\ Len(piece) = IF m + 1 <= n THEN n - (m + 1) + 1 ELSE 0
        /\ \A k \in 1..(n - (m + 1) + 1) : piece[k] = list[(m + 1) + k - 1]
    BY <1>2, SubSeqProperties
  <1> HIDE DEF piece
  <1>4. Len(piece) = n - m /\ \A k \in 1..(n - m) : piece[k] = list[m + k]
    <2>1. n - (m + 1) + 1 = n - m /\ \A k \in 1..(n - m) : (m + 1) + k - 1 = m + k
      OBVIOUS
    <2> QED
      BY <1>3, <2>1
  <1>5. ASSUME OnceEach(list) PROVE OnceEach(piece)
    <2>1. ASSUME NEW j \in 1..Len(piece), NEW k \in 1..Len(piece),
                 piece[j] = piece[k]
          PROVE  j = k
      <3>1. m + j \in 1..Len(list) /\ m + k \in 1..Len(list)
        BY <1>1, <1>4
      <3>2. m + j = m + k
        BY <1>4, <1>5, <2>1, <3>1 DEF OnceEach
      <3> QED
        BY <1>4, <3>2
    <2> QED
      BY <2>1 DEF OnceEach
  <1> QED
    BY <1>3, <1>4, <1>5 DEF piece

\* Two lists that share nothing, one after the other.
LEMMA JoinedOnce ==
    ASSUME NEW S, NEW a \in Seq(S), NEW b \in Seq(S), OnceEach(a), OnceEach(b),
           \A j \in 1..Len(a) : \A k \in 1..Len(b) : a[j] # b[k]
    PROVE  a \o b \in Seq(S) /\ OnceEach(a \o b)
  <1> DEFINE c == a \o b
  <1>1. /\ c \in Seq(S)
        /\ Len(c) = Len(a) + Len(b)
        /\ \A i \in 1..(Len(a) + Len(b)) :
              c[i] = IF i <= Len(a) THEN a[i] ELSE b[i - Len(a)]
    BY ConcatProperties
  <1>2. Len(a) \in Nat /\ Len(b) \in Nat
    OBVIOUS
  <1> HIDE DEF c
  <1>3. ASSUME NEW m \in 1..Len(c), NEW n \in 1..Len(c), c[m] = c[n]
        PROVE  m = n
    <2>1. ASSUME NEW i \in 1..Len(c)
          PROVE  \/ i \in 1..Len(a) /\ c[i] = a[i]
                 \/ i - Len(a) \in 1..Len(b) /\ c[i] = b[i - Len(a)]
      BY <1>1, <1>2
    <2>2. CASE m \in 1..Len(a) /\ c[m] = a[m]
      <3>1. n \in 1..Len(a) /\ c[n] = a[n]
        BY <1>3, <2>1, <2>2
      <3> QED
        BY <1>3, <2>2, <3>1 DEF OnceEach
    <2>3. CASE m - Len(a) \in 1..Len(b) /\ c[m] = b[m - Len(a)]
      <3>1. n - Len(a) \in 1..Len(b) /\ c[n] = b[n - Len(a)]
        BY <1>3, <2>1, <2>3
      <3>2. m - Len(a) = n - Len(a)
        BY <1>3, <2>3, <3>1 DEF OnceEach
      <3> QED
        BY <1>1, <1>2, <3>2
    <2> QED
      BY <2>1, <2>2, <2>3
  <1> QED
    BY <1>1, <1>3 DEF OnceEach, c
==============================================================================
