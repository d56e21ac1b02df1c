---------------------------- MODULE BuffersProofs ----------------------------
(***************************************************************************)
(* Proofs about Buffers, for any jobs, any finite set of Buffer variables, *)
(* any ceiling of the ids and any budget: a buffer has one owner, none is  *)
(* forgotten, ids are given once and the budget is exact.                  *)
(***************************************************************************)
EXTENDS Buffers, FiniteSetTheorems, TLAPS

AllIds == 0..(Ceiling - 1)
SlotTypes == [claimed : BOOLEAN, held : BOOLEAN]
ObjectTypes == [pc : {"none", "reserved", "live", "freeing", "garbage"},
                id : AllIds, charge : {0, 1}, armed : BOOLEAN]
ResultTypes == [kind : {"none", "bytes", "error", "buffer", "cancelled", "panic"}, id : AllIds]
Stages == {"new", "queued", "running", "ended", "taken", "done"}

TypeOK ==
    /\ nextId \in 1..Ceiling
    /\ slots \in [0..Ceiling -> SlotTypes \cup {NoSlot}]
    /\ poisoned \in BOOLEAN /\ closed \in BOOLEAN /\ dropped \in BOOLEAN
    /\ goClosed \in BOOLEAN /\ goPoisoned \in BOOLEAN
    /\ cgo \subseteq Objects
    /\ bytes \in Nat
    /\ obj \in [Objects -> ObjectTypes]
    /\ stage \in [Jobs -> Stages]
    /\ input \in [Jobs -> AllIds]
    /\ result \in [Jobs -> ResultTypes]

\* Ids in use were given out.
Fresh ==
    /\ \A i \in 0..Ceiling : slots[i] # NoSlot => 0 < i /\ i < nextId
    /\ \A g \in Objects : obj[g].id < nextId
    /\ \A j \in Jobs : input[j] < nextId /\ result[j].id < nextId

\* What a Buffer variable can be.
Formed(b) ==
    /\ b.pc \in {"none", "reserved"} => b.id = 0 /\ ~b.armed
    /\ b.pc = "none" => b.charge = 0
    /\ b.pc = "reserved" => b.charge = 1
    /\ b.pc = "live" => b.armed = (b.id # 0)
    /\ b.pc = "live" /\ b.charge = 1 => b.armed
    /\ b.pc = "freeing" => ~b.armed
    /\ b.armed => b.id # 0
Forms == \A g \in Objects : Formed(obj[g]) /\ (g \in cgo => obj[g].pc = "reserved")

\* What a result can be.
Results ==
    \A j \in Jobs :
        /\ stage[j] \in {"new", "queued", "running", "done"} => result[j].kind = "none"
        /\ result[j].kind = "buffer" <=> result[j].id # 0

Closing == (closed => goClosed) /\ (dropped => closed)

\* Who will free a buffer: a Buffer variable, or a result.
HasBuffer(b) == b.id # 0 /\ (b.pc \in {"live", "freeing"} \/ b.armed)
Holds(g, i) == HasBuffer(obj[g]) /\ obj[g].id = i
Carries(j, i) == result[j].kind = "buffer" /\ result[j].id = i

\* A buffer has one of them.
Once ==
    \A i \in AllIds :
        /\ \A g, h \in Objects : Holds(g, i) /\ Holds(h, i) => g = h
        /\ \A j, k \in Jobs : Carries(j, i) /\ Carries(k, i) => j = k
        /\ \A g \in Objects, j \in Jobs : ~(Holds(g, i) /\ Carries(j, i))

\* A buffer with one of them is marked in the registry, and is there while the
\* handle is open.
Marked ==
    \A i \in AllIds :
        /\ (\E g \in Objects : Holds(g, i)) =>
                IF slots[i] = NoSlot THEN goClosed ELSE slots[i].held \/ slots[i].claimed
        /\ (\E j \in Jobs : Carries(j, i)) =>
                IF slots[i] = NoSlot THEN goClosed ELSE slots[i].claimed

\* A buffer that was handed out has one.
Kept ==
    \A i \in AllIds :
        slots[i] # NoSlot /\ (slots[i].claimed \/ slots[i].held) /\ ~goClosed =>
            (\E g \in Objects : Holds(g, i)) \/ (\E j \in Jobs : Carries(j, i))

\* No unit reads a buffer that a result carries.
Unread ==
    \A i \in AllIds, j, k \in Jobs :
        Carries(j, i) => ~(stage[k] \in {"queued", "running"} /\ input[k] = i)

\* What costs budget.
Costs(b) == b.charge = 1 /\ (b.pc # "garbage" \/ b.armed)
Charged == {g \in Objects : Costs(obj[g])}

\* The inductive invariant, but for the budget, and with it.
Core == TypeOK /\ Fresh /\ Forms /\ Results /\ Closing /\ Once /\ Marked /\ Kept /\ Unread
IInv == Core /\ BudgetExact

-----------------------------------------------------------------------------
(* What steps do to the buffers, whoever takes them.                       *)

LEMMA CeilingTyped == Ceiling \in Nat /\ 1 < Ceiling
BY BufferConstants

LEMMA BudgetTyped == Budget \in Nat
BY BufferConstants

\* Ids are numbers.
LEMMA IdsTyped ==
    ASSUME TypeOK
    PROVE  /\ nextId \in Int
           /\ \A g \in Objects : obj[g].id \in Int
           /\ \A j \in Jobs : input[j] \in Int /\ result[j].id \in Int
BY CeilingTyped DEF TypeOK, AllIds, ObjectTypes, ResultTypes

\* The rest of the state.
Aside ==
    /\ nextId' \in {nextId, nextId + 1} /\ nextId' <= Ceiling
    /\ poisoned' \in BOOLEAN /\ goPoisoned' \in BOOLEAN
    /\ bytes' \in Nat
    /\ UNCHANGED <<closed, dropped, goClosed>>

\* What was given out stays so.
LEMMA Grows ==
    ASSUME Core, Aside
    PROVE  0 < nextId' /\ \A x \in Int : x < nextId => x < nextId'
<1>1. nextId \in 1..Ceiling /\ nextId' \in {nextId, nextId + 1}
  BY DEF Core, TypeOK, Aside
<1> QED  BY <1>1, CeilingTyped

LEMMA SlotsTyped == \A i \in AllIds : i \in 0..Ceiling /\ i \in Int
BY CeilingTyped DEF AllIds

\* Nothing aside changes.
LEMMA AsideSame ==
    ASSUME Core, UNCHANGED <<nextId, poisoned, closed, dropped, goClosed, goPoisoned, bytes>>
    PROVE  Aside
BY CeilingTyped DEF Core, TypeOK, Aside

\* A Buffer variable changes but not what it holds.
LEMMA ObjectMoves ==
    ASSUME Core, Aside, NEW g \in Objects, NEW b \in ObjectTypes,
           obj' = [obj EXCEPT ![g] = b], Formed(b),
           b.id = 0 \/ b.id = obj[g].id,
           HasBuffer(b) <=> HasBuffer(obj[g]),
           cgo' \subseteq Objects, \A h \in cgo' : obj'[h].pc = "reserved",
           UNCHANGED <<slots, work>>
    PROVE  Core'
<1> USE DEF Core
<1>1. /\ obj'[g] = b /\ \A h \in Objects : h # g => obj'[h] = obj[h]
      /\ TypeOK /\ goClosed' = goClosed
  BY DEF TypeOK, Aside
<1>2. \A h \in Objects, i \in AllIds : Holds(h, i)' <=> Holds(h, i)
  BY <1>1 DEF Holds, HasBuffer
<1>3. \A k \in Jobs, i \in AllIds : Carries(k, i)' <=> Carries(k, i)
  BY DEF Carries, work
<1>4. TypeOK'
  BY CeilingTyped DEF TypeOK, Aside, work
<1>5. Fresh'
  <2>1. \A i \in 0..Ceiling : slots'[i] # NoSlot => 0 < i /\ i < nextId'
    BY Grows DEF Fresh
  <2>2. \A h \in Objects : obj'[h].id < nextId'
    BY <1>1, IdsTyped, Grows DEF Fresh
  <2>3. \A j \in Jobs : input'[j] < nextId' /\ result'[j].id < nextId'
    BY <1>1, IdsTyped, Grows DEF Fresh, work
  <2> QED  BY <2>1, <2>2, <2>3 DEF Fresh
<1>6. Forms'
  BY <1>1 DEF Forms, Formed
<1>7. Results' /\ Closing'
  BY DEF Results, Closing, Aside, work
<1>8. Once'
  BY <1>2, <1>3 DEF Once
<1>9. Marked' /\ Kept'
  BY <1>1, <1>2, <1>3 DEF Marked, Kept
<1>10. Unread'
  BY <1>3 DEF Unread, work
<1> QED  BY <1>4, <1>5, <1>6, <1>7, <1>8, <1>9, <1>10

\* A Buffer variable gives its buffer up, and it is freed or left to the close.
LEMMA ObjectReleases ==
    ASSUME Core, Aside, NEW g \in Objects, NEW b \in ObjectTypes,
           obj' = [obj EXCEPT ![g] = b], Formed(b),
           b.id = 0 \/ b.id = obj[g].id,
           HasBuffer(obj[g]), ~HasBuffer(b),
           b.pc # "reserved", obj[g].pc # "reserved",
           slots' = IF goClosed THEN slots ELSE Freed(obj[g].id),
           UNCHANGED <<cgo, work>>
    PROVE  Core'
<1> USE DEF Core
<1>1. /\ obj'[g] = b /\ \A h \in Objects : h # g => obj'[h] = obj[h]
      /\ obj[g].id \in AllIds
      /\ TypeOK /\ goClosed' = goClosed
  BY DEF TypeOK, Aside, ObjectTypes
<1>2. /\ \A h \in Objects, i \in AllIds : Holds(h, i)' <=> Holds(h, i) /\ h # g
      /\ \A i \in AllIds : Holds(g, i) <=> i = obj[g].id
  BY <1>1 DEF Holds
<1>3. \A k \in Jobs, i \in AllIds : Carries(k, i)' <=> Carries(k, i)
  BY DEF Carries, work
<1>4. /\ slots' \in [0..Ceiling -> SlotTypes \cup {NoSlot}]
      /\ \A i \in 0..Ceiling : slots'[i] = slots[i] \/ slots'[i] = NoSlot
      /\ \A i \in AllIds : i # obj[g].id => slots'[i] = slots[i]
      /\ IF goClosed THEN slots' = slots ELSE slots'[obj[g].id] = NoSlot
  BY <1>1, CeilingTyped DEF Freed, AllIds, TypeOK
<1>5. TypeOK'
  BY <1>4, CeilingTyped DEF TypeOK, Aside, work
<1>6. Fresh'
  <2>1. \A i \in 0..Ceiling : slots'[i] # NoSlot => 0 < i /\ i < nextId'
    BY <1>1, <1>4, Grows DEF Fresh
  <2>2. \A h \in Objects : obj'[h].id < nextId'
    BY <1>1, IdsTyped, Grows DEF Fresh
  <2>3. \A j \in Jobs : input'[j] < nextId' /\ result'[j].id < nextId'
    BY <1>1, IdsTyped, Grows DEF Fresh, work
  <2> QED  BY <2>1, <2>2, <2>3 DEF Fresh
<1>7. Forms'
  BY <1>1 DEF Forms, Formed
<1>8. Results' /\ Closing'
  BY DEF Results, Closing, Aside, work
<1>9. Once'
  BY <1>2, <1>3 DEF Once
<1>10. \A i \in AllIds : i # obj[g].id =>
           /\ (\E h \in Objects : Holds(h, i)') <=> (\E h \in Objects : Holds(h, i))
           /\ (\E k \in Jobs : Carries(k, i)') <=> (\E k \in Jobs : Carries(k, i))
  BY <1>2, <1>3
<1>11. Marked'
  <2>1. PICK m \in AllIds : m = obj[g].id
    BY <1>1
  <2>2. (\A h \in Objects : ~Holds(h, m)') /\ (\A k \in Jobs : ~Carries(k, m)')
    BY <2>1, <1>2, <1>3 DEF Once
  <2> QED  BY <1>1, <1>4, <1>10, <2>1, <2>2 DEF Marked
<1>12. Kept'
  BY <1>1, <1>4, <1>10 DEF Kept
<1>13. Unread'
  BY <1>3 DEF Unread, work
<1> QED  BY <1>5, <1>6, <1>7, <1>8, <1>9, <1>11, <1>12, <1>13

\* A unit moves on with its result, or with one that has no buffer.
LEMMA WorkMoves ==
    ASSUME Core, Aside, NEW j \in Jobs, NEW s \in Stages, NEW r \in ResultTypes,
           stage' = [stage EXCEPT ![j] = s], result' = [result EXCEPT ![j] = r],
           s \in {"queued", "running"} => stage[j] \in {"queued", "running"},
           s \in {"new", "queued", "running", "done"} => r.kind = "none",
           r = result[j] \/ (result[j].kind # "buffer" /\ r.kind # "buffer" /\ r.id = 0),
           UNCHANGED <<slots, obj, cgo, input>>
    PROVE  Core'
<1> USE DEF Core
<1>1. /\ result'[j] = r /\ \A k \in Jobs : k # j => result'[k] = result[k]
      /\ stage'[j] = s /\ \A k \in Jobs : k # j => stage'[k] = stage[k]
      /\ TypeOK /\ goClosed' = goClosed
  BY DEF TypeOK, Aside
<1>2. \A k \in Jobs, i \in AllIds : Carries(k, i)' <=> Carries(k, i)
  BY <1>1 DEF Carries
<1>3. \A h \in Objects, i \in AllIds : Holds(h, i)' <=> Holds(h, i)
  BY DEF Holds
<1>4. TypeOK'
  BY CeilingTyped DEF TypeOK, Aside
<1>5. Fresh'
  <2>1. \A i \in 0..Ceiling : slots'[i] # NoSlot => 0 < i /\ i < nextId'
    BY Grows DEF Fresh
  <2>2. \A g \in Objects : obj'[g].id < nextId'
    BY <1>1, IdsTyped, Grows DEF Fresh
  <2>3. \A k \in Jobs : input'[k] < nextId' /\ result'[k].id < nextId'
    BY <1>1, IdsTyped, Grows DEF Fresh
  <2> QED  BY <2>1, <2>2, <2>3 DEF Fresh
<1>6. Forms' /\ Closing'
  BY DEF Forms, Formed, Closing, Aside
<1>7. Results'
  BY <1>1 DEF Results
<1>8. Once'
  BY <1>2, <1>3 DEF Once
<1>9. Marked' /\ Kept'
  BY <1>1, <1>2, <1>3 DEF Marked, Kept
<1>10. Unread'
  BY <1>1, <1>2 DEF Unread
<1> QED  BY <1>4, <1>5, <1>6, <1>7, <1>8, <1>9, <1>10

\* A unit's result loses its buffer, which is freed or left to the close.
LEMMA WorkReleases ==
    ASSUME Core, Aside, NEW j \in Jobs, NEW s \in {"taken", "done"},
           stage' = [stage EXCEPT ![j] = s], result' = [result EXCEPT ![j] = NoResult],
           result[j].kind = "buffer",
           slots' = IF goClosed THEN slots ELSE Freed(result[j].id),
           UNCHANGED <<obj, cgo, input>>
    PROVE  Core'
<1> USE DEF Core
<1>1. /\ NoResult \in ResultTypes /\ NoResult.kind = "none" /\ NoResult.id = 0
      /\ s \in Stages
  BY CeilingTyped DEF NoResult, ResultTypes, AllIds, Stages
<1>2. /\ result'[j] = NoResult /\ \A k \in Jobs : k # j => result'[k] = result[k]
      /\ stage'[j] = s /\ \A k \in Jobs : k # j => stage'[k] = stage[k]
      /\ result[j].id \in AllIds
      /\ TypeOK /\ goClosed' = goClosed
  BY DEF TypeOK, Aside, ResultTypes
<1>3. /\ \A k \in Jobs, i \in AllIds : Carries(k, i)' <=> Carries(k, i) /\ k # j
      /\ \A i \in AllIds : Carries(j, i) <=> i = result[j].id
  BY <1>1, <1>2 DEF Carries
<1>4. \A h \in Objects, i \in AllIds : Holds(h, i)' <=> Holds(h, i)
  BY DEF Holds
<1>5. /\ slots' \in [0..Ceiling -> SlotTypes \cup {NoSlot}]
      /\ \A i \in 0..Ceiling : slots'[i] = slots[i] \/ slots'[i] = NoSlot
      /\ \A i \in AllIds : i # result[j].id => slots'[i] = slots[i]
      /\ IF goClosed THEN slots' = slots ELSE slots'[result[j].id] = NoSlot
  BY <1>2, CeilingTyped DEF Freed, AllIds, TypeOK
<1>6. TypeOK'
  BY <1>1, <1>5, CeilingTyped DEF TypeOK, Aside
<1>7. Fresh'
  <2>1. \A i \in 0..Ceiling : slots'[i] # NoSlot => 0 < i /\ i < nextId'
    BY <1>5, Grows DEF Fresh
  <2>2. \A g \in Objects : obj'[g].id < nextId'
    BY <1>2, IdsTyped, Grows DEF Fresh
  <2>3. \A k \in Jobs : input'[k] < nextId' /\ result'[k].id < nextId'
    BY <1>1, <1>2, IdsTyped, Grows DEF Fresh
  <2> QED  BY <2>1, <2>2, <2>3 DEF Fresh
<1>8. Forms' /\ Closing'
  BY DEF Forms, Formed, Closing, Aside
<1>9. Results'
  BY <1>1, <1>2 DEF Results
<1>10. Once'
  BY <1>3, <1>4 DEF Once
<1>11. \A i \in AllIds : i # result[j].id =>
           /\ (\E h \in Objects : Holds(h, i)') <=> (\E h \in Objects : Holds(h, i))
           /\ (\E k \in Jobs : Carries(k, i)') <=> (\E k \in Jobs : Carries(k, i))
  BY <1>3, <1>4
<1>12. Marked'
  <2>1. PICK m \in AllIds : m = result[j].id
    BY <1>2
  <2>2. (\A h \in Objects : ~Holds(h, m)') /\ (\A k \in Jobs : ~Carries(k, m)')
    BY <2>1, <1>3, <1>4 DEF Once
  <2> QED  BY <1>2, <1>5, <1>11, <2>1, <2>2 DEF Marked
<1>13. Kept'
  BY <1>2, <1>5, <1>11 DEF Kept
<1>14. Unread'
  BY <1>2, <1>3 DEF Unread
<1> QED  BY <1>6, <1>7, <1>8, <1>9, <1>10, <1>12, <1>13, <1>14

\* A unit ends with a buffer nobody has and nobody reads.
LEMMA WorkGains ==
    ASSUME Core, Aside, NEW j \in Jobs, NEW i \in Ids, NEW n \in SlotTypes,
           stage[j] = "running", stage' = [stage EXCEPT ![j] = "ended"],
           result' = [result EXCEPT ![j] = [kind |-> "buffer", id |-> i]],
           slots' = [slots EXCEPT ![i] = n], n.claimed,
           i < nextId', Reading(i) = {},
           \A g \in Objects : ~Holds(g, i), \A k \in Jobs : ~Carries(k, i),
           UNCHANGED <<obj, cgo, input>>
    PROVE  Core'
<1> USE DEF Core
<1> DEFINE r == [kind |-> "buffer", id |-> i]
<1>1. i \in AllIds /\ i # 0 /\ i \in 0..Ceiling /\ "ended" \in Stages
  BY CeilingTyped DEF AllIds, Ids, Stages
<1>2. r \in ResultTypes /\ r.kind = "buffer" /\ r.id = i
  BY <1>1 DEF ResultTypes
<1>3. /\ result'[j] = r /\ \A k \in Jobs : k # j => result'[k] = result[k]
      /\ stage'[j] = "ended" /\ \A k \in Jobs : k # j => stage'[k] = stage[k]
      /\ TypeOK /\ goClosed' = goClosed /\ result' = [result EXCEPT ![j] = r]
  BY DEF TypeOK, Aside
<1> HIDE DEF r
<1>4. result[j].kind = "none"
  BY DEF Results
<1>5. n # NoSlot
  BY BufferConstants DEF SlotTypes
<1>6. /\ slots' \in [0..Ceiling -> SlotTypes \cup {NoSlot}]
      /\ slots'[i] = n /\ \A k \in 0..Ceiling : k # i => slots'[k] = slots[k]
      /\ \A k \in AllIds : k # i => slots'[k] = slots[k]
  BY <1>1, CeilingTyped DEF AllIds, TypeOK
<1>7. \A k \in Jobs, m \in AllIds : Carries(k, m)' <=> Carries(k, m) \/ (k = j /\ m = i)
  BY <1>2, <1>3, <1>4 DEF Carries
<1>8. \A h \in Objects, m \in AllIds : Holds(h, m)' <=> Holds(h, m)
  BY DEF Holds
<1>9. TypeOK'
  BY <1>1, <1>2, <1>3, <1>6, CeilingTyped DEF TypeOK, Aside
<1>10. Fresh'
  <2>1. \A k \in 0..Ceiling : slots'[k] # NoSlot => 0 < k /\ k < nextId'
    BY <1>6, Grows DEF Fresh, Ids
  <2>2. \A g \in Objects : obj'[g].id < nextId'
    BY <1>3, IdsTyped, Grows DEF Fresh
  <2>3. \A k \in Jobs : input'[k] < nextId' /\ result'[k].id < nextId'
    BY <1>2, <1>3, IdsTyped, Grows DEF Fresh
  <2> QED  BY <2>1, <2>2, <2>3 DEF Fresh
<1>11. Forms' /\ Closing'
  BY DEF Forms, Formed, Closing, Aside
<1>12. Results'
  BY <1>1, <1>2, <1>3 DEF Results
<1>13. Once'
  BY <1>7, <1>8 DEF Once
<1>14. Unread'
  BY <1>3, <1>7 DEF Unread, Reading
<1>15. \A m \in AllIds : m # i =>
           /\ (\E h \in Objects : Holds(h, m)') <=> (\E h \in Objects : Holds(h, m))
           /\ (\E k \in Jobs : Carries(k, m)') <=> (\E k \in Jobs : Carries(k, m))
  BY <1>7, <1>8
<1>16. Marked'
  BY <1>3, <1>5, <1>6, <1>15 DEF Marked
<1>17. Kept'
  BY <1>1, <1>3, <1>6, <1>7, <1>15 DEF Kept
<1> QED  BY <1>9, <1>10, <1>11, <1>12, <1>13, <1>14, <1>16, <1>17

\* Flags go up, and slots go when the handle is dropped.
LEMMA FlagsMove ==
    ASSUME Core, UNCHANGED <<nextId, cgo, bytes, obj, work>>,
           poisoned' \in BOOLEAN, goPoisoned' \in BOOLEAN, closed' \in BOOLEAN,
           dropped' \in BOOLEAN, goClosed' \in BOOLEAN, Closing',
           goClosed => goClosed',
           slots' = slots \/ (goClosed' /\ slots' = [i \in 0..Ceiling |-> NoSlot])
    PROVE  Core'
<1> USE DEF Core
<1>1. /\ slots' \in [0..Ceiling -> SlotTypes \cup {NoSlot}]
      /\ \A i \in 0..Ceiling : slots'[i] = slots[i] \/ (goClosed' /\ slots'[i] = NoSlot)
      /\ \A i \in AllIds : slots'[i] = slots[i] \/ (goClosed' /\ slots'[i] = NoSlot)
  BY CeilingTyped DEF TypeOK, AllIds
<1>2. /\ \A h \in Objects, i \in AllIds : Holds(h, i)' <=> Holds(h, i)
      /\ \A k \in Jobs, i \in AllIds : Carries(k, i)' <=> Carries(k, i)
  BY DEF Holds, Carries, work
<1>3. TypeOK'
  BY <1>1 DEF TypeOK, work
<1>4. Fresh'
  BY <1>1 DEF Fresh, work
<1>5. Forms' /\ Results'
  BY DEF Forms, Formed, Results, work
<1>6. Once' /\ Unread'
  BY <1>2 DEF Once, Unread, work
<1>7. Marked'
  BY <1>1, <1>2 DEF Marked
<1>8. Kept'
  BY <1>1, <1>2 DEF Kept
<1> QED  BY <1>3, <1>4, <1>5, <1>6, <1>7, <1>8

\* A Buffer variable changes and the counter follows what it costs.
LEMMA Charging ==
    ASSUME Core, BudgetExact, NEW g \in Objects, NEW b \in ObjectTypes,
           obj' = [obj EXCEPT ![g] = b],
           bytes' = bytes + (IF Costs(b) THEN 1 ELSE 0) - (IF Costs(obj[g]) THEN 1 ELSE 0),
           bytes' <= Budget
    PROVE  BudgetExact' /\ bytes' \in Nat
<1> DEFINE new == {h \in Objects : Costs(obj'[h])}
<1>1. /\ bytes = Cardinality(Charged) /\ bytes \in Nat
      /\ BudgetExact' <=> bytes' <= Budget /\ bytes' = Cardinality(new)
  BY DEF BudgetExact, Charged, Costs, Core, TypeOK
<1>2. Charged \subseteq Objects /\ IsFiniteSet(Charged)
  BY FS_Subset, BufferConstants DEF Charged
<1>3. new = IF Costs(b) THEN Charged \cup {g} ELSE Charged \ {g}
  BY DEF Charged, Core, TypeOK
<1>4. g \in Charged <=> Costs(obj[g])
  BY DEF Charged
<1> HIDE DEF new
<1>5. CASE Costs(b)
  <2>1. Cardinality(new) = IF g \in Charged THEN Cardinality(Charged) ELSE Cardinality(Charged) + 1
    BY <1>2, <1>3, <1>5, FS_AddElement, Zenon
  <2> QED  BY <2>1, <1>1, <1>4, <1>5
<1>6. CASE ~Costs(b)
  <2>1. Cardinality(new) = IF g \in Charged THEN Cardinality(Charged) - 1 ELSE Cardinality(Charged)
    BY <1>2, <1>3, <1>6, FS_RemoveElement
  <2>2. g \in Charged => Cardinality(Charged) # 0
    BY <1>2, FS_EmptySet
  <2> QED  BY <2>1, <2>2, <1>1, <1>4, <1>6
<1> QED  BY <1>5, <1>6

LEMMA BytesTyped ==
    ASSUME IInv
    PROVE  bytes \in Nat /\ bytes <= Budget /\ Budget \in Nat
BY BudgetTyped DEF IInv, Core, TypeOK, BudgetExact

\* No Buffer variable changes.
LEMMA SameBudget ==
    ASSUME BudgetExact, UNCHANGED <<bytes, obj>>
    PROVE  BudgetExact'
BY DEF BudgetExact

-----------------------------------------------------------------------------
(* The steps of a Buffer variable.                                         *)

LEMMA NoObjectIsNothing ==
    /\ NoObject \in ObjectTypes /\ Formed(NoObject) /\ NoObject.id = 0
    /\ NoObject.pc # "reserved" /\ ~HasBuffer(NoObject) /\ ~Costs(NoObject)
<1>1. NoObject \in ObjectTypes
  BY CeilingTyped DEF ObjectTypes, AllIds, NoObject
<1> QED  BY <1>1 DEF Formed, HasBuffer, Costs, NoObject

LEMMA ReserveBudgetKeeps ==
    ASSUME IInv, NEW g \in Objects, ReserveBudget(g)
    PROVE  IInv'
<1> DEFINE b == [pc |-> "reserved", id |-> 0, charge |-> 1, armed |-> FALSE]
<1>1. b \in ObjectTypes /\ obj[g].charge = 0 /\ Formed(b) /\ ~HasBuffer(b) /\ ~HasBuffer(obj[g])
      /\ Costs(b) /\ ~Costs(obj[g])
  BY CeilingTyped DEF IInv, Core, Forms, Formed, ObjectTypes, AllIds, HasBuffer, Costs, ReserveBudget
<1>2. BudgetExact' /\ bytes' \in Nat
  <2>1. /\ bytes' = bytes + (IF Costs(b) THEN 1 ELSE 0) - (IF Costs(obj[g]) THEN 1 ELSE 0)
        /\ bytes' <= Budget
    BY <1>1, BytesTyped DEF ReserveBudget
  <2> QED  BY <2>1, <1>1, Charging, Zenon DEF IInv, ReserveBudget
<1>3. Aside
  BY <1>2 DEF Aside, ReserveBudget, rust, IInv, Core, TypeOK
<1>4. \A h \in cgo' : obj'[h].pc = "reserved"
  BY DEF ReserveBudget, IInv, Core, TypeOK, Forms
<1>5. Core'
  BY <1>1, <1>3, <1>4, ObjectMoves, Zenon DEF IInv, ReserveBudget, rust, Core, TypeOK
<1> QED  BY <1>2, <1>5 DEF IInv

LEMMA EnterCgoKeeps ==
    ASSUME IInv, NEW g \in Objects, EnterCgo(g)
    PROVE  IInv'
<1>1. BudgetExact'
  BY SameBudget DEF EnterCgo, IInv
<1>2. /\ obj' = [obj EXCEPT ![g] = obj[g]]
      /\ obj[g] \in ObjectTypes /\ Formed(obj[g])
      /\ \A h \in cgo' : h \in Objects /\ obj'[h].pc = "reserved"
  BY DEF EnterCgo, IInv, Core, TypeOK, Forms
<1>3. Aside
  BY AsideSame DEF EnterCgo, rust, IInv
<1>4. Core'
  BY <1>2, <1>3, ObjectMoves, Zenon DEF IInv, EnterCgo, rust
<1> QED  BY <1>1, <1>4 DEF IInv

LEMMA AllocBufferFailsKeeps ==
    ASSUME IInv, NEW g \in Objects, AllocBufferFails(g)
    PROVE  IInv'
<1>1. /\ NoObject \in ObjectTypes /\ Formed(NoObject) /\ NoObject.id = 0
      /\ ~HasBuffer(NoObject) /\ ~HasBuffer(obj[g])
      /\ Costs(obj[g]) /\ ~Costs(NoObject) /\ obj[g].charge = 1
  <2>1. Formed(obj[g]) /\ obj[g].pc = "reserved"
    BY DEF IInv, Core, Forms, AllocBufferFails
  <2>2. ~HasBuffer(obj[g]) /\ Costs(obj[g]) /\ obj[g].charge = 1
    BY <2>1 DEF Formed, HasBuffer, Costs
  <2> QED  BY <2>2, NoObjectIsNothing
<1>2. bytes' = bytes - 1 /\ obj' = [obj EXCEPT ![g] = NoObject] /\ cgo' = cgo \ {g}
  BY <1>1 DEF AllocBufferFails, GiveUp
<1>3. BudgetExact' /\ bytes' \in Nat
  <2>1. /\ bytes' = bytes + (IF Costs(NoObject) THEN 1 ELSE 0) - (IF Costs(obj[g]) THEN 1 ELSE 0)
        /\ bytes' <= Budget
    BY <1>1, <1>2, BytesTyped
  <2> QED  BY <2>1, <1>1, <1>2, Charging, Zenon DEF IInv
<1>4. UNCHANGED <<closed, dropped, goClosed, slots, work>>
  BY DEF AllocBufferFails, Spend, rust
<1>5. Aside
  <2>1. nextId \in 1..Ceiling /\ poisoned \in BOOLEAN /\ goPoisoned \in BOOLEAN
    BY DEF IInv, Core, TypeOK
  <2>2. nextId' = nextId \/ (nextId' = nextId + 1 /\ nextId < Ceiling)
    BY DEF AllocBufferFails, Spend, Refused, HasId, rust
  <2>3. poisoned' = poisoned /\ (goPoisoned' = goPoisoned \/ goPoisoned' = TRUE)
    BY DEF AllocBufferFails, rust
  <2>4. nextId' \in {nextId, nextId + 1} /\ nextId' <= Ceiling
    BY <2>1, <2>2, CeilingTyped
  <2>5. poisoned' \in BOOLEAN /\ goPoisoned' \in BOOLEAN
    BY <2>1, <2>3, Zenon
  <2> QED  BY <2>4, <2>5, <1>3, <1>4 DEF Aside
<1>6. \A h \in cgo' : h \in Objects /\ obj'[h].pc = "reserved"
  BY <1>2 DEF IInv, Core, TypeOK, Forms
<1>7. Core'
  BY <1>1, <1>2, <1>4, <1>5, <1>6, ObjectMoves, Zenon DEF IInv
<1> QED  BY <1>3, <1>7 DEF IInv

LEMMA FreeKeeps ==
    ASSUME IInv, NEW g \in Objects, Free(g)
    PROVE  IInv'
<1> DEFINE b == [obj[g] EXCEPT !.pc = "freeing", !.armed = FALSE]
<1>1. obj[g] \in ObjectTypes /\ obj[g].pc = "live" /\ Formed(obj[g])
  BY DEF IInv, Core, TypeOK, Forms, Free
<1>2. /\ b \in ObjectTypes /\ b.pc = "freeing" /\ ~b.armed
      /\ b.id = obj[g].id /\ b.charge = obj[g].charge
  BY <1>1, Zenon DEF ObjectTypes
<1>3. obj' = [obj EXCEPT ![g] = b]
  BY Zenon DEF Free, IInv, Core, TypeOK
<1> HIDE DEF b
<1>4. Formed(b) /\ (HasBuffer(b) <=> HasBuffer(obj[g])) /\ (Costs(b) <=> Costs(obj[g]))
  BY <1>1, <1>2 DEF Formed, HasBuffer, Costs
<1>5. BudgetExact' /\ bytes' \in Nat
  <2>1. /\ bytes' = bytes + (IF Costs(b) THEN 1 ELSE 0) - (IF Costs(obj[g]) THEN 1 ELSE 0)
        /\ bytes' <= Budget
    BY <1>2, <1>3, <1>4, BytesTyped DEF Free
  <2> QED  BY <2>1, <1>2, <1>3, <1>4, Charging, Zenon DEF IInv
<1>6. Aside
  BY AsideSame DEF Free, rust, IInv
<1>7. \A h \in cgo' : h \in Objects /\ obj'[h].pc = "reserved"
  BY <1>1 DEF Free, IInv, Core, TypeOK, Forms
<1>8. Core'
  BY <1>2, <1>3, <1>4, <1>6, <1>7, ObjectMoves, Zenon DEF IInv, Free, rust
<1> QED  BY <1>5, <1>8 DEF IInv

LEMMA ForgetKeeps ==
    ASSUME IInv, NEW g \in Objects, Forget(g)
    PROVE  IInv'
<1> DEFINE b == [obj[g] EXCEPT !.pc = "garbage"]
<1>1. obj[g] \in ObjectTypes /\ obj[g].pc = "live" /\ Formed(obj[g])
  BY DEF IInv, Core, TypeOK, Forms, Forget
<1>2. /\ b \in ObjectTypes /\ b.pc = "garbage" /\ b.armed = obj[g].armed
      /\ b.id = obj[g].id /\ b.charge = obj[g].charge
  BY <1>1 DEF ObjectTypes
<1>3. obj' = [obj EXCEPT ![g] = b]
  BY DEF Forget, IInv, Core, TypeOK
<1> HIDE DEF b
<1>4. Formed(b) /\ (HasBuffer(b) <=> HasBuffer(obj[g])) /\ (Costs(b) <=> Costs(obj[g]))
  BY <1>1, <1>2, Zenon DEF Formed, HasBuffer, Costs
<1>5. BudgetExact' /\ bytes' \in Nat
  <2>1. /\ bytes' = bytes + (IF Costs(b) THEN 1 ELSE 0) - (IF Costs(obj[g]) THEN 1 ELSE 0)
        /\ bytes' <= Budget
    BY <1>2, <1>3, <1>4, BytesTyped DEF Forget
  <2> QED  BY <2>1, <1>2, <1>3, <1>4, Charging, Zenon DEF IInv
<1>6. Aside
  BY AsideSame DEF Forget, rust, IInv
<1>7. \A h \in cgo' : h \in Objects /\ obj'[h].pc = "reserved"
  BY <1>1 DEF Forget, IInv, Core, TypeOK, Forms
<1>8. Core'
  BY <1>2, <1>3, <1>4, <1>6, <1>7, ObjectMoves, Zenon DEF IInv, Forget, rust
<1> QED  BY <1>5, <1>8 DEF IInv

\* Free with id 0, a Buffer over Go memory, frees nothing.
LEMMA NothingAtZero ==
    ASSUME Core
    PROVE  Freed(0) = slots
BY CeilingTyped DEF Core, TypeOK, Fresh, Freed

LEMMA FreeMemoryKeeps ==
    ASSUME IInv, NEW g \in Objects, FreeMemory(g)
    PROVE  IInv'
<1> DEFINE b == [obj[g] EXCEPT !.pc = "garbage"]
<1>1. obj[g] \in ObjectTypes /\ obj[g].pc = "freeing" /\ Formed(obj[g])
  BY DEF IInv, Core, TypeOK, Forms, FreeMemory
<1>2. /\ b \in ObjectTypes /\ b.pc = "garbage" /\ b.armed = obj[g].armed
      /\ b.id = obj[g].id /\ b.charge = obj[g].charge
  BY <1>1 DEF ObjectTypes
<1>3. obj' = [obj EXCEPT ![g] = b]
  BY DEF FreeMemory, IInv, Core, TypeOK
<1> HIDE DEF b
<1>4. /\ Formed(b) /\ ~HasBuffer(b) /\ (HasBuffer(obj[g]) <=> obj[g].id # 0)
      /\ ~Costs(b) /\ obj[g].charge = IF Costs(obj[g]) THEN 1 ELSE 0
  BY <1>1, <1>2 DEF Formed, HasBuffer, Costs, ObjectTypes
<1>5. BudgetExact' /\ bytes' \in Nat
  <2>1. /\ bytes' = bytes + (IF Costs(b) THEN 1 ELSE 0) - (IF Costs(obj[g]) THEN 1 ELSE 0)
        /\ bytes' <= Budget
    BY <1>2, <1>3, <1>4, BytesTyped DEF FreeMemory
  <2> QED  BY <2>1, <1>2, <1>3, <1>4, Charging, Zenon DEF IInv
<1>6. Aside
  BY <1>5 DEF Aside, FreeMemory, rust, IInv, Core, TypeOK
<1>7. \A h \in cgo' : h \in Objects /\ obj'[h].pc = "reserved"
  BY <1>1 DEF FreeMemory, IInv, Core, TypeOK, Forms
<1>8. CASE obj[g].id = 0
  <2>1. UNCHANGED <<slots, work>>
    BY <1>8, NothingAtZero DEF FreeMemory, IInv
  <2>2. Core'
    BY <2>1, <1>2, <1>3, <1>4, <1>6, <1>7, <1>8, ObjectMoves, Zenon DEF IInv
  <2> QED  BY <2>2, <1>5 DEF IInv
<1>9. CASE obj[g].id # 0
  <2>1. Core'
    BY <1>1, <1>2, <1>3, <1>4, <1>6, <1>9, ObjectReleases, Zenon DEF IInv, FreeMemory
  <2> QED  BY <2>1, <1>5 DEF IInv
<1> QED  BY <1>8, <1>9

LEMMA CollectKeeps ==
    ASSUME IInv, NEW g \in Objects, Collect(g)
    PROVE  IInv'
<1>1. obj[g] \in ObjectTypes /\ obj[g].pc = "garbage" /\ Formed(obj[g])
  BY DEF IInv, Core, TypeOK, Forms, Collect
<1>2. /\ NoObject \in ObjectTypes /\ Formed(NoObject) /\ NoObject.id = 0
      /\ NoObject.pc # "reserved" /\ ~HasBuffer(NoObject) /\ ~Costs(NoObject)
  BY NoObjectIsNothing
<1>3. /\ HasBuffer(obj[g]) <=> obj[g].armed
      /\ Costs(obj[g]) <=> obj[g].armed /\ obj[g].charge = 1
      /\ obj[g].charge \in {0, 1}
  BY <1>1 DEF Formed, HasBuffer, Costs, ObjectTypes
<1>4. obj' = [obj EXCEPT ![g] = NoObject]
  BY DEF Collect
<1>5. BudgetExact' /\ bytes' \in Nat
  <2>1. /\ bytes' = bytes + (IF Costs(NoObject) THEN 1 ELSE 0) - (IF Costs(obj[g]) THEN 1 ELSE 0)
        /\ bytes' <= Budget
    BY <1>2, <1>3, <1>4, BytesTyped DEF Collect
  <2> QED  BY <2>1, <1>2, <1>3, <1>4, Charging, Zenon DEF IInv
<1>6. Aside
  BY <1>5 DEF Aside, Collect, rust, IInv, Core, TypeOK
<1>7. \A h \in cgo' : h \in Objects /\ obj'[h].pc = "reserved"
  BY <1>1 DEF Collect, IInv, Core, TypeOK, Forms
<1>8. CASE ~obj[g].armed
  <2>1. Core'
    BY <1>2, <1>3, <1>4, <1>6, <1>7, <1>8, ObjectMoves, Zenon DEF IInv, Collect
  <2> QED  BY <2>1, <1>5 DEF IInv
<1>9. CASE obj[g].armed
  <2>1. slots' = IF goClosed THEN slots ELSE Freed(obj[g].id)
    BY <1>9 DEF Collect
  <2>2. Core'
    BY <2>1, <1>1, <1>2, <1>3, <1>4, <1>6, <1>9, ObjectReleases, Zenon DEF IInv, Collect
  <2> QED  BY <2>2, <1>5 DEF IInv
<1> QED  BY <1>8, <1>9

LEMMA AllocBufferKeeps ==
    ASSUME IInv, NEW g \in Objects, AllocBuffer(g)
    PROVE  IInv'
<1> DEFINE b == [obj[g] EXCEPT !.pc = "live", !.id = nextId, !.armed = TRUE]
           n == [claimed |-> FALSE, held |-> TRUE]
<1>1. /\ obj[g] \in ObjectTypes /\ Formed(obj[g]) /\ obj[g].pc = "reserved"
      /\ nextId \in AllIds /\ nextId # 0 /\ nextId' = nextId + 1 /\ nextId' \in 1..Ceiling
      /\ nextId \in 0..Ceiling
  <2>1. nextId \in 1..Ceiling /\ obj[g] \in ObjectTypes /\ Formed(obj[g]) /\ obj[g].pc = "reserved"
    BY DEF IInv, Core, TypeOK, Forms, AllocBuffer
  <2> QED  BY <2>1, CeilingTyped DEF AllocBuffer, Register, Refused, HasId, AllIds
<1>2. /\ b \in ObjectTypes /\ b.pc = "live" /\ b.armed /\ b.id = nextId
      /\ b.charge = obj[g].charge
      /\ n # NoSlot /\ ~n.claimed /\ n.held
  <2>1. n \in SlotTypes /\ ~n.claimed /\ n.held
    BY DEF SlotTypes
  <2>2. n # NoSlot
    BY <2>1, BufferConstants, Zenon DEF SlotTypes
  <2> QED  BY <2>1, <2>2, <1>1, Zenon DEF ObjectTypes
<1>3. obj' = [obj EXCEPT ![g] = b] /\ slots' = [slots EXCEPT ![nextId] = n]
  BY DEF AllocBuffer, Register, IInv, Core, TypeOK
<1> HIDE DEF b, n
<1>4. /\ Formed(b) /\ HasBuffer(b) /\ ~HasBuffer(obj[g]) /\ (Costs(b) <=> Costs(obj[g]))
  BY <1>1, <1>2, Zenon DEF Formed, HasBuffer, Costs
<1>5. BudgetExact' /\ bytes' \in Nat
  <2>1. /\ bytes' = bytes + (IF Costs(b) THEN 1 ELSE 0) - (IF Costs(obj[g]) THEN 1 ELSE 0)
        /\ bytes' <= Budget
    BY <1>4, BytesTyped DEF AllocBuffer
  <2> QED  BY <2>1, <1>2, <1>3, Charging, Zenon DEF IInv
<1>6. /\ obj'[g] = b /\ \A h \in Objects : h # g => obj'[h] = obj[h]
      /\ slots' \in [0..Ceiling -> SlotTypes \cup {NoSlot}]
      /\ slots'[nextId] = n /\ \A i \in 0..Ceiling : i # nextId => slots'[i] = slots[i]
      /\ cgo' = cgo \ {g}
  BY <1>1, <1>2, <1>3 DEF IInv, Core, TypeOK, AllocBuffer, n, SlotTypes
<1>7. TypeOK /\ TypeOK'
  BY <1>1, <1>2, <1>3, <1>5, <1>6 DEF IInv, Core, TypeOK, AllocBuffer, work
<1>8. Fresh'
  BY <1>1, <1>2, <1>6, <1>7, IdsTyped DEF IInv, Core, Fresh, AllocBuffer, work
<1>9. Forms' /\ Results' /\ Closing'
  <2>1. Forms'
    <3>1. Forms
      BY DEF IInv, Core
    <3> QED  BY <3>1, <1>4, <1>6 DEF Forms, Formed
  <2>2. Results' /\ Closing'
    BY DEF IInv, Core, Results, Closing, AllocBuffer, work
  <2> QED  BY <2>1, <2>2
<1>10. /\ \A h \in Objects, i \in AllIds : Holds(h, i)' <=> Holds(h, i) \/ (h = g /\ i = nextId)
       /\ \A h \in Objects : ~Holds(h, nextId)
  <2>1. \A h \in Objects, i \in AllIds : Holds(h, i)' <=> Holds(h, i) \/ (h = g /\ i = nextId)
    BY <1>2, <1>4, <1>6 DEF Holds, HasBuffer
  <2>2. \A h \in Objects : obj[h].id < nextId /\ obj[h].id \in Int
    BY <1>7, IdsTyped DEF IInv, Core, Fresh
  <2>3. \A h \in Objects : ~Holds(h, nextId)
    BY <2>2, <1>7, IdsTyped DEF Holds
  <2> QED  BY <2>1, <2>3
<1>11. /\ \A k \in Jobs, i \in AllIds : Carries(k, i)' <=> Carries(k, i)
       /\ \A k \in Jobs : ~Carries(k, nextId)
  BY <1>7, IdsTyped DEF Carries, IInv, Core, Fresh, AllocBuffer, work
<1>12. goClosed' = goClosed /\ \A i \in AllIds : i \in 0..Ceiling
  BY SlotsTyped DEF AllocBuffer
<1>13. Once'
  <2>1. PICK m \in AllIds : m = nextId
    BY <1>1
  <2>2. /\ \A h \in Objects : Holds(h, m)' <=> h = g
        /\ \A k \in Jobs : ~Carries(k, m)'
    BY <2>1, <1>10, <1>11
  <2>3. \A i \in AllIds : i # m =>
            /\ \A h \in Objects : Holds(h, i)' <=> Holds(h, i)
            /\ \A k \in Jobs : Carries(k, i)' <=> Carries(k, i)
    BY <2>1, <1>10, <1>11
  <2> QED  BY <2>2, <2>3 DEF IInv, Core, Once
<1>14. \A i \in AllIds : i # nextId =>
           /\ (\E h \in Objects : Holds(h, i)') <=> (\E h \in Objects : Holds(h, i))
           /\ (\E k \in Jobs : Carries(k, i)') <=> (\E k \in Jobs : Carries(k, i))
           /\ slots'[i] = slots[i]
  BY <1>6, <1>10, <1>11, <1>12
<1>15. Marked'
  <2>1. \A i \in AllIds : i = nextId => slots'[i] = n /\ \A k \in Jobs : ~Carries(k, i)'
    BY <1>6, <1>11
  <2>2. Marked
    BY DEF IInv, Core
  <2> QED  BY <2>1, <2>2, <1>2, <1>12, <1>14 DEF Marked
<1>16. Kept'
  <2>1. \A i \in AllIds : i = nextId => Holds(g, i)'
    BY <1>10
  <2>2. Kept
    BY DEF IInv, Core
  <2> QED  BY <2>1, <2>2, <1>12, <1>14 DEF Kept
<1>17. Unread'
  BY <1>11 DEF IInv, Core, Unread, AllocBuffer, work
<1> QED  BY <1>5, <1>7, <1>8, <1>9, <1>13, <1>15, <1>16, <1>17 DEF IInv, Core

-----------------------------------------------------------------------------
(* The steps of a work unit.                                               *)

\* A buffer an engine allocates is in nobody's hands yet.
LEMMA EngineAllocKeeps ==
    ASSUME IInv, NEW j \in Jobs, EngineAlloc(j)
    PROVE  IInv'
<1> DEFINE n == [claimed |-> FALSE, held |-> FALSE]
<1>1. /\ nextId \in AllIds /\ nextId # 0 /\ nextId' = nextId + 1 /\ nextId' \in 1..Ceiling
      /\ nextId \in 0..Ceiling
      /\ n \in SlotTypes /\ ~n.claimed /\ ~n.held
  <2>1. nextId \in 1..Ceiling
    BY DEF IInv, Core, TypeOK
  <2>2. n \in SlotTypes /\ ~n.claimed /\ ~n.held
    BY DEF SlotTypes
  <2> QED  BY <2>1, <2>2, CeilingTyped DEF EngineAlloc, Register, Refused, HasId, AllIds
<1>2. slots' = [slots EXCEPT ![nextId] = n]
  BY DEF EngineAlloc, Register
<1> HIDE DEF n
<1>3. /\ slots' \in [0..Ceiling -> SlotTypes \cup {NoSlot}]
      /\ slots'[nextId] = n /\ \A i \in 0..Ceiling : i # nextId => slots'[i] = slots[i]
  BY <1>1, <1>2 DEF IInv, Core, TypeOK
<1>4. UNCHANGED <<poisoned, closed, dropped, goClosed, goPoisoned, cgo, bytes, obj, stage, input, result>>
  BY DEF EngineAlloc, go, work
<1>5. TypeOK /\ TypeOK'
  BY <1>1, <1>3, <1>4 DEF IInv, Core, TypeOK
<1>6. Fresh /\ Forms /\ Results /\ Closing /\ Once /\ Marked /\ Kept /\ Unread
  BY DEF IInv, Core
<1>7. Fresh'
  BY <1>1, <1>3, <1>4, <1>5, <1>6, IdsTyped DEF Fresh
<1>8. Forms' /\ Results' /\ Closing'
  BY <1>4, <1>6 DEF Forms, Formed, Results, Closing
<1>9. /\ \A h \in Objects, i \in AllIds : Holds(h, i)' <=> Holds(h, i)
      /\ \A k \in Jobs, i \in AllIds : Carries(k, i)' <=> Carries(k, i)
  BY <1>4 DEF Holds, Carries
<1>10. (\A h \in Objects : ~Holds(h, nextId)) /\ (\A k \in Jobs : ~Carries(k, nextId))
  BY <1>5, <1>6, IdsTyped DEF Holds, Carries, Fresh
<1>11. Once' /\ Unread'
  BY <1>4, <1>6, <1>9 DEF Once, Unread
<1>12. \A i \in AllIds : i # nextId => slots'[i] = slots[i]
  BY <1>3, SlotsTyped
<1>13. Marked'
  BY <1>4, <1>6, <1>9, <1>10, <1>12 DEF Marked
<1>14. Kept'
  BY <1>1, <1>3, <1>4, <1>6, <1>9, <1>12 DEF Kept
<1> QED  BY <1>4, <1>5, <1>7, <1>8, <1>11, <1>13, <1>14, SameBudget DEF IInv, Core

\* A unit may read what a Buffer has or what an engine allocated: never what a
\* result carries.
LEMMA SubmitKeeps ==
    ASSUME IInv, NEW j \in Jobs, NEW i \in 0..(Ceiling - 1), Submit(j, i)
    PROVE  IInv'
<1>1. i \in AllIds /\ i \in 0..Ceiling /\ TypeOK
  BY CeilingTyped DEF AllIds, IInv, Core
<1>2. UNCHANGED <<nextId, slots, poisoned, closed, dropped, goClosed, goPoisoned, cgo, bytes, obj, result>>
  BY DEF Submit, rust, go
<1>3. /\ stage[j] = "new" /\ ~goClosed
      /\ stage' = [stage EXCEPT ![j] = "queued"] /\ input' = [input EXCEPT ![j] = i]
  BY DEF Submit
<1>4. /\ stage'[j] = "queued" /\ \A k \in Jobs : k # j => stage'[k] = stage[k]
      /\ input'[j] = i /\ \A k \in Jobs : k # j => input'[k] = input[k]
  BY <1>3, <1>1 DEF TypeOK
<1>5. TypeOK'
  BY <1>1, <1>2, <1>3 DEF TypeOK, Stages
<1>6. i < nextId
  <2>1. nextId \in 1..Ceiling
    BY <1>1 DEF TypeOK
  <2>2. i = 0 \/ slots[i] # NoSlot
    BY DEF Submit
  <2> QED  BY <2>1, <2>2, <1>1 DEF IInv, Core, Fresh
<1>7. Fresh'
  BY <1>2, <1>4, <1>6 DEF IInv, Core, Fresh
<1>8. Forms' /\ Closing' /\ Once' /\ Marked' /\ Kept'
  BY <1>2 DEF IInv, Core, Forms, Formed, Closing, Once, Marked, Kept, Holds, Carries
<1>9. Results'
  BY <1>2, <1>3, <1>4 DEF IInv, Core, Results
<1>10. \A k \in Jobs : ~Carries(k, i)
  <2>1. CASE i = 0
    BY <2>1 DEF IInv, Core, Results, Carries
  <2>2. CASE \E g \in Objects : obj[g].pc = "live" /\ obj[g].id = i /\ i # 0
    BY <1>1, <2>2 DEF IInv, Core, Once, Holds, HasBuffer
  <2>3. CASE slots[i] # NoSlot /\ ~slots[i].held /\ ~slots[i].claimed
    BY <1>1, <2>3 DEF IInv, Core, Marked
  <2> QED  BY <2>1, <2>2, <2>3 DEF Submit
<1>11. Unread'
  BY <1>2, <1>4, <1>10 DEF IInv, Core, Unread, Carries
<1> QED  BY <1>2, <1>5, <1>7, <1>8, <1>9, <1>11, SameBudget DEF IInv, Core

\* The unit starts, or was cancelled while it waited.
LEMMA StartKeeps ==
    ASSUME IInv, NEW j \in Jobs, Start(j)
    PROVE  IInv'
<1>1. Aside /\ UNCHANGED <<slots, obj, cgo, input, bytes>>
  BY AsideSame DEF Start, rust, go, IInv
<1>2. result[j] \in ResultTypes /\ result[j].kind = "none" /\ result[j].id = 0 /\ stage[j] = "queued"
  BY DEF Start, IInv, Core, TypeOK, Results
<1>3. CASE stage' = [stage EXCEPT ![j] = "running"] /\ UNCHANGED result
  <2>1. result' = [result EXCEPT ![j] = result[j]] /\ "running" \in Stages
    BY <1>3 DEF IInv, Core, TypeOK, Stages
  <2>2. Core'
    BY <1>1, <1>2, <1>3, <2>1, WorkMoves, Zenon DEF IInv
  <2> QED  BY <1>1, <2>2, SameBudget DEF IInv
<1>4. CASE stage' = [stage EXCEPT ![j] = "ended"] /\ result' = [result EXCEPT ![j].kind = "cancelled"]
  <2> DEFINE r == [result[j] EXCEPT !.kind = "cancelled"]
  <2>1. /\ result' = [result EXCEPT ![j] = r] /\ "ended" \in Stages
        /\ r \in ResultTypes /\ r.kind = "cancelled" /\ r.id = 0
    BY <1>2, <1>4 DEF IInv, Core, TypeOK, Stages, ResultTypes
  <2> HIDE DEF r
  <2>2. Core'
    BY <1>1, <1>2, <1>4, <2>1, WorkMoves, Zenon DEF IInv
  <2> QED  BY <1>1, <2>2, SameBudget DEF IInv
<1> QED  BY <1>3, <1>4 DEF Start

\* A unit ends without a buffer.
LEMMA EndKeeps ==
    ASSUME IInv, NEW j \in Jobs, NEW kind \in {"bytes", "error"}, End(j, kind, 0),
           UNCHANGED slots, nextId' \in {nextId, nextId + 1}, nextId' <= Ceiling
    PROVE  IInv'
<1> DEFINE r == [kind |-> kind, id |-> 0]
<1>1. Aside /\ UNCHANGED <<slots, obj, cgo, input, bytes>>
  BY DEF Aside, End, go, IInv, Core, TypeOK
<1>2. result[j].kind = "none" /\ stage[j] = "running"
  BY DEF End, IInv, Core, Results
<1>3. /\ r \in ResultTypes /\ r.kind = kind /\ r.id = 0 /\ "ended" \in Stages
      /\ result' = [result EXCEPT ![j] = r] /\ stage' = [stage EXCEPT ![j] = "ended"]
  BY CeilingTyped DEF ResultTypes, Stages, AllIds, End
<1> HIDE DEF r
<1>4. Core'
  BY <1>1, <1>2, <1>3, WorkMoves, Zenon DEF IInv
<1> QED  BY <1>1, <1>4, SameBudget DEF IInv

LEMMA ReturnLargeKeeps ==
    ASSUME IInv, NEW j \in Jobs, ReturnLarge(j)
    PROVE  IInv'
<1>1. nextId \in 1..Ceiling /\ TypeOK
  BY DEF IInv, Core, TypeOK
<1>2. CASE Register(TRUE, FALSE) /\ End(j, "buffer", nextId)
  <2> DEFINE n == [claimed |-> TRUE, held |-> FALSE]
  <2>1. PICK m \in Ids : m = nextId
    BY <1>1, <1>2, CeilingTyped DEF Register, Refused, HasId, Ids
  <2>2. n \in SlotTypes /\ n.claimed /\ slots' = [slots EXCEPT ![m] = n]
    BY <2>1, <1>2 DEF Register, SlotTypes
  <2> HIDE DEF n
  <2>3. Aside /\ UNCHANGED <<obj, cgo, input, bytes>> /\ m < nextId'
    <3>1. /\ UNCHANGED <<poisoned, closed, dropped, goClosed, goPoisoned, obj, cgo, input, bytes>>
          /\ nextId' = nextId + 1 /\ nextId < Ceiling
      BY <1>2 DEF End, go, Register, Refused, HasId
    <3>2. poisoned \in BOOLEAN /\ goPoisoned \in BOOLEAN /\ bytes \in Nat
      BY <1>1 DEF TypeOK
    <3> QED  BY <3>1, <3>2, <1>1, <2>1, CeilingTyped DEF Aside
  <2>4. /\ \A g \in Objects : ~Holds(g, m)
        /\ \A k \in Jobs : ~Carries(k, m)
        /\ Reading(m) = {}
    BY <1>1, <2>1, IdsTyped DEF Holds, Carries, Reading, IInv, Core, Fresh
  <2>5. /\ stage[j] = "running" /\ stage' = [stage EXCEPT ![j] = "ended"]
        /\ result' = [result EXCEPT ![j] = [kind |-> "buffer", id |-> m]]
    BY <1>2, <2>1 DEF End
  <2>6. Core'
    BY <2>2, <2>3, <2>4, <2>5, WorkGains, Zenon DEF IInv
  <2> QED  BY <2>3, <2>6, SameBudget DEF IInv
<1>3. CASE Spend /\ End(j, "error", 0)
  <2>1. UNCHANGED slots /\ nextId' \in {nextId, nextId + 1} /\ nextId' <= Ceiling
    BY <1>1, <1>3, CeilingTyped DEF Spend, Refused, HasId
  <2> QED  BY <2>1, <1>3, EndKeeps
<1>4. CASE Refused /\ End(j, "error", 0) /\ UNCHANGED <<nextId, slots>>
  BY <1>1, <1>4, EndKeeps
<1> QED  BY <1>2, <1>3, <1>4, Zenon DEF ReturnLarge

\* claim_output: nobody has a buffer that may be claimed.
LEMMA ReturnBufferKeeps ==
    ASSUME IInv, NEW j \in Jobs, NEW i \in 0..(Ceiling - 1), ReturnBuffer(j, i)
    PROVE  IInv'
<1>1. nextId \in 1..Ceiling /\ TypeOK
  BY DEF IInv, Core, TypeOK
<1>2. CASE i # 0 /\ i # input[j] /\ MayClaim(i)
  <2> DEFINE n == [slots[i] EXCEPT !.claimed = TRUE]
  <2>1. i \in Ids /\ i \in AllIds /\ i \in 0..Ceiling
    BY <1>2, CeilingTyped DEF Ids, AllIds
  <2>2. slots[i] \in SlotTypes /\ ~slots[i].claimed /\ ~slots[i].held /\ Reading(i) = {}
    BY <1>1, <1>2, <2>1 DEF MayClaim, TypeOK
  <2>3. n \in SlotTypes /\ n.claimed /\ slots' = [slots EXCEPT ![i] = n]
    BY <1>2, <2>1, <2>2, <1>1, Zenon DEF SlotTypes, ReturnBuffer, TypeOK
  <2> HIDE DEF n
  <2>4. Aside /\ UNCHANGED <<obj, cgo, input, bytes, nextId>>
    BY <1>2, AsideSame DEF ReturnBuffer, End, go, IInv
  <2>5. i < nextId'
    BY <1>2, <2>1, <2>4 DEF IInv, Core, Fresh, MayClaim
  <2>6. (\A g \in Objects : ~Holds(g, i)) /\ (\A k \in Jobs : ~Carries(k, i))
    BY <1>2, <2>1, <2>2 DEF IInv, Core, Marked, MayClaim
  <2>7. /\ stage[j] = "running" /\ stage' = [stage EXCEPT ![j] = "ended"]
        /\ result' = [result EXCEPT ![j] = [kind |-> "buffer", id |-> i]]
    BY <1>2 DEF ReturnBuffer, End
  <2>8. Core'
    BY <2>1, <2>2, <2>3, <2>4, <2>5, <2>6, <2>7, WorkGains, Zenon DEF IInv
  <2> QED  BY <2>4, <2>8, SameBudget DEF IInv
<1>3. CASE ~(i # 0 /\ i # input[j] /\ MayClaim(i))
  BY <1>1, <1>3, EndKeeps DEF ReturnBuffer
<1> QED  BY <1>2, <1>3

LEMMA ReturnPanicKeeps ==
    ASSUME IInv, NEW j \in Jobs, ReturnPanic(j)
    PROVE  IInv'
<1> DEFINE r == [result[j] EXCEPT !.kind = "panic"]
<1>1. Aside /\ UNCHANGED <<slots, obj, cgo, input, bytes>>
  BY DEF Aside, ReturnPanic, go, IInv, Core, TypeOK
<1>2. result[j] \in ResultTypes /\ result[j].kind = "none" /\ result[j].id = 0
  BY DEF ReturnPanic, IInv, Core, Results, TypeOK
<1>3. /\ r \in ResultTypes /\ r.kind = "panic" /\ r.id = 0 /\ "ended" \in Stages
      /\ result' = [result EXCEPT ![j] = r] /\ stage' = [stage EXCEPT ![j] = "ended"]
  BY <1>2 DEF ResultTypes, Stages, ReturnPanic, IInv, Core, TypeOK
<1> HIDE DEF r
<1>4. Core'
  BY <1>1, <1>2, <1>3, WorkMoves, Zenon DEF IInv
<1> QED  BY <1>1, <1>4, SameBudget DEF IInv

-----------------------------------------------------------------------------
(* The steps of a result.                                                  *)

\* Bytes: taken as they are, or lost when no id is left for the copy.
LEMMA TakeBytesKeeps ==
    ASSUME IInv, NEW j \in Jobs, TakeBytes(j)
    PROVE  IInv'
<1>1. Aside /\ UNCHANGED <<slots, obj, cgo, input, bytes>>
  <2>1. nextId \in 1..Ceiling /\ poisoned \in BOOLEAN /\ goPoisoned \in BOOLEAN /\ bytes \in Nat
    BY DEF IInv, Core, TypeOK
  <2>2. /\ UNCHANGED <<slots, poisoned, closed, dropped, goClosed, goPoisoned, obj, cgo, input, bytes>>
        /\ nextId' = nextId \/ (nextId' = nextId + 1 /\ nextId < Ceiling)
    BY DEF TakeBytes, HasId, go
  <2> QED  BY <2>1, <2>2, CeilingTyped DEF Aside
<1>2. /\ result[j] \in ResultTypes /\ result[j].kind = "bytes" /\ result[j].id = 0
      /\ "taken" \in Stages /\ stage' = [stage EXCEPT ![j] = "taken"]
  BY DEF TakeBytes, IInv, Core, TypeOK, Results, Stages
<1>3. PICK r \in ResultTypes : /\ result' = [result EXCEPT ![j] = r]
                               /\ r = result[j] \/ (r.kind = "error" /\ r.id = 0)
  <2>1. CASE UNCHANGED result
    <3>1. result' = [result EXCEPT ![j] = result[j]]
      BY <2>1 DEF IInv, Core, TypeOK
    <3> QED  BY <3>1, <1>2, Zenon
  <2>2. CASE result' = [result EXCEPT ![j].kind = "error"]
    <3> DEFINE r == [result[j] EXCEPT !.kind = "error"]
    <3>1. r \in ResultTypes /\ r.kind = "error" /\ r.id = 0 /\ result' = [result EXCEPT ![j] = r]
      BY <1>2, <2>2 DEF IInv, Core, TypeOK, ResultTypes
    <3> QED  BY <3>1, Zenon
  <2> QED  BY <2>1, <2>2 DEF TakeBytes
<1>4. Core'
  BY <1>1, <1>2, <1>3, WorkMoves, Zenon DEF IInv
<1> QED  BY <1>1, <1>4, SameBudget DEF IInv

\* A Buffer: its slot is there, so the take keeps it, and stripping the owned
\* flag gives the id back.
LEMMA TakeBufferKeeps ==
    ASSUME IInv, NEW j \in Jobs, TakeBuffer(j)
    PROVE  IInv'
<1>1. Aside /\ UNCHANGED <<slots, obj, cgo, input, bytes>>
  BY AsideSame DEF TakeBuffer, rust, go, IInv
<1>2. /\ result[j] \in ResultTypes /\ result[j].kind = "buffer" /\ result[j].id \in AllIds
      /\ "taken" \in Stages /\ stage' = [stage EXCEPT ![j] = "taken"]
  BY DEF TakeBuffer, IInv, Core, TypeOK, Stages, ResultTypes
<1>3. slots[result[j].id] # NoSlot
  BY <1>2 DEF TakeBuffer, IInv, Core, Marked, Carries
<1>4. Stripped(Flagged(result[j].id)) = result[j].id
  BY <1>2, CeilingTyped DEF Stripped, Flagged, AllIds
<1>5. result' = [result EXCEPT ![j] = result[j]]
  <2> DEFINE r == IF slots[result[j].id] = NoSlot
                    THEN [kind |-> "error", id |-> 0]
                    ELSE [kind |-> "buffer", id |-> Stripped(Flagged(result[j].id))]
  <2>1. [kind |-> "buffer", id |-> result[j].id] = result[j]
    BY <1>2 DEF ResultTypes
  <2>2. r = result[j]
    BY <2>1, <1>3, <1>4
  <2>3. result' = [result EXCEPT ![j] = r]
    BY DEF TakeBuffer
  <2> HIDE DEF r
  <2> QED  BY <2>2, <2>3
<1>6. Core'
  BY <1>1, <1>2, <1>5, WorkMoves, Zenon DEF IInv
<1> QED  BY <1>1, <1>6, SameBudget DEF IInv

\* The rest is taken as it is.
LEMMA TakeKeeps ==
    ASSUME IInv, NEW j \in Jobs, TakeFailure(j) \/ TakeInline(j)
    PROVE  IInv'
<1>1. Aside /\ UNCHANGED <<slots, obj, cgo, input, bytes>>
  <2>1. goPoisoned' \in BOOLEAN
    BY Zenon DEF TakeFailure, TakeInline, go, IInv, Core, TypeOK
  <2>2. UNCHANGED <<nextId, slots, poisoned, closed, dropped, goClosed, obj, cgo, bytes, input>>
    BY DEF TakeFailure, TakeInline, rust, go
  <2>3. nextId \in Nat /\ nextId <= Ceiling /\ poisoned \in BOOLEAN /\ bytes \in Nat
    BY CeilingTyped DEF IInv, Core, TypeOK
  <2> QED  BY <2>1, <2>2, <2>3 DEF Aside
<1>2. /\ result[j] \in ResultTypes /\ "taken" \in Stages
      /\ stage' = [stage EXCEPT ![j] = "taken"] /\ result' = [result EXCEPT ![j] = result[j]]
  BY DEF TakeFailure, TakeInline, IInv, Core, TypeOK, Stages
<1>3. Core'
  BY <1>1, <1>2, WorkMoves, Zenon DEF IInv
<1> QED  BY <1>1, <1>3, SameBudget DEF IInv

\* The result is gone: freed with the slot, or left to the close.
LEMMA ResultGoes ==
    ASSUME IInv, NEW j \in Jobs, NEW s \in {"taken", "done"}, Aside,
           stage' = [stage EXCEPT ![j] = s], result' = [result EXCEPT ![j] = NoResult],
           slots' = IF result[j].kind = "buffer" /\ ~goClosed THEN Freed(result[j].id) ELSE slots,
           UNCHANGED <<obj, cgo, input, bytes>>
    PROVE  IInv'
<1>1. NoResult \in ResultTypes /\ NoResult.kind = "none" /\ NoResult.id = 0 /\ s \in Stages
  BY CeilingTyped DEF NoResult, ResultTypes, AllIds, Stages
<1>2. CASE result[j].kind = "buffer"
  <2>1. Core'
    BY <1>2, WorkReleases, Zenon DEF IInv
  <2> QED  BY <2>1, SameBudget DEF IInv
<1>3. CASE result[j].kind # "buffer"
  <2>1. Core'
    BY <1>1, <1>3, WorkMoves, Zenon DEF IInv
  <2> QED  BY <2>1, SameBudget DEF IInv
<1> QED  BY <1>2, <1>3

LEMMA WaitKeeps ==
    ASSUME IInv, NEW j \in Jobs, Wait(j) \/ TakeClosed(j)
    PROVE  IInv'
<1>1. CASE Wait(j)
  <2>1. Aside /\ UNCHANGED <<obj, cgo, input, bytes>>
    BY <1>1, AsideSame DEF Wait, go, IInv
  <2> QED  BY <1>1, <2>1, ResultGoes, Zenon DEF Wait
<1>2. CASE TakeClosed(j)
  <2>1. Aside /\ UNCHANGED <<obj, cgo, input, bytes, slots>>
    BY <1>2, AsideSame DEF TakeClosed, rust, go, IInv
  <2> QED  BY <1>2, <2>1, ResultGoes, Zenon DEF TakeClosed
<1> QED  BY <1>1, <1>2

\* The buffer goes from the result to a Buffer variable.
LEMMA WaitBufferKeeps ==
    ASSUME IInv, NEW j \in Jobs, NEW g \in Objects, WaitBuffer(j, g)
    PROVE  IInv'
<1> DEFINE i == result[j].id
           b == [pc |-> "live", id |-> i, charge |-> 0, armed |-> i > 0]
<1>1. /\ UNCHANGED <<nextId, slots, poisoned, closed, dropped, goClosed, goPoisoned, cgo, bytes, input>>
      /\ ~goClosed /\ stage[j] = "taken" /\ obj[g].pc = "none"
      /\ stage' = [stage EXCEPT ![j] = "done"] /\ result' = [result EXCEPT ![j] = NoResult]
      /\ obj' = [obj EXCEPT ![g] = b]
  BY DEF WaitBuffer, rust
<1>2. i \in AllIds /\ (i # 0 <=> result[j].kind = "buffer") /\ i < nextId
  BY DEF IInv, Core, TypeOK, ResultTypes, Results, Fresh
<1>3. /\ b \in ObjectTypes /\ b.pc = "live" /\ b.id = i /\ b.charge = 0 /\ (b.armed <=> i # 0)
      /\ b.armed \in BOOLEAN
      /\ NoResult \in ResultTypes /\ NoResult.kind = "none" /\ NoResult.id = 0 /\ "done" \in Stages
  <2>1. (i > 0) \in BOOLEAN /\ (i > 0 <=> i # 0)
    BY <1>2, SlotsTyped, CeilingTyped
  <2>2. /\ b \in ObjectTypes /\ b.pc = "live" /\ b.id = i /\ b.charge = 0 /\ (b.armed <=> i # 0)
        /\ b.armed \in BOOLEAN
    BY <1>2, <2>1, Zenon DEF ObjectTypes
  <2>3. NoResult \in ResultTypes /\ NoResult.kind = "none" /\ NoResult.id = 0 /\ "done" \in Stages
    BY CeilingTyped DEF ResultTypes, NoResult, AllIds, Stages
  <2> QED  BY <2>2, <2>3
<1> HIDE DEF b
<1>4. /\ Formed(b) /\ ~Costs(b) /\ (HasBuffer(b) <=> i # 0)
      /\ ~Costs(obj[g]) /\ ~HasBuffer(obj[g])
  <2>1. Formed(b) /\ ~Costs(b) /\ (HasBuffer(b) <=> i # 0)
    BY <1>3 DEF Formed, Costs, HasBuffer
  <2>2. ~Costs(obj[g]) /\ ~HasBuffer(obj[g])
    BY <1>1 DEF Formed, Costs, HasBuffer, IInv, Core, Forms
  <2> QED  BY <2>1, <2>2
<1>5. BudgetExact'
  <2>1. /\ bytes' = bytes + (IF Costs(b) THEN 1 ELSE 0) - (IF Costs(obj[g]) THEN 1 ELSE 0)
        /\ bytes' <= Budget
    BY <1>1, <1>4, BytesTyped
  <2> QED  BY <2>1, <1>1, <1>3, Charging, Zenon DEF IInv
<1>6. /\ TypeOK
      /\ obj'[g] = b /\ \A h \in Objects : h # g => obj'[h] = obj[h]
      /\ stage'[j] = "done" /\ \A k \in Jobs : k # j => stage'[k] = stage[k]
      /\ result'[j] = NoResult /\ \A k \in Jobs : k # j => result'[k] = result[k]
  BY <1>1 DEF IInv, Core, TypeOK
<1>7. TypeOK'
  BY <1>1, <1>3, <1>6 DEF TypeOK
<1>8. Fresh'
  <2>1. Fresh
    BY DEF IInv, Core
  <2>2. 0 < nextId
    BY <1>6 DEF TypeOK
  <2> QED  BY <2>1, <2>2, <1>1, <1>2, <1>3, <1>6 DEF Fresh
<1>9. Forms' /\ Closing' /\ Results'
  <2>1. Forms /\ Closing /\ Results
    BY DEF IInv, Core
  <2>2. Forms'
    BY <2>1, <1>1, <1>4, <1>6 DEF Forms, Formed
  <2>3. Closing'
    BY <2>1, <1>1 DEF Closing
  <2>4. Results'
    BY <2>1, <1>3, <1>6 DEF Results
  <2> QED  BY <2>2, <2>3, <2>4
<1>10. PICK m \in AllIds : m = i
  BY <1>2
<1>11. /\ \A h \in Objects, n \in AllIds : Holds(h, n)' <=> Holds(h, n) \/ (h = g /\ n = m /\ m # 0)
       /\ \A k \in Jobs, n \in AllIds : Carries(k, n)' <=> Carries(k, n) /\ k # j
       /\ m # 0 => Carries(j, m)
       /\ \A n \in AllIds : Carries(j, n) => n = m /\ m # 0
       /\ \A n \in AllIds : ~Holds(g, n)
  <2>1. \A h \in Objects, n \in AllIds : Holds(h, n)' <=> Holds(h, n) \/ (h = g /\ n = m /\ m # 0)
    <3>1. \A n \in AllIds : Holds(g, n)' <=> HasBuffer(b) /\ b.id = n
      BY <1>6 DEF Holds, HasBuffer
    <3>2. \A h \in Objects, n \in AllIds : h # g => (Holds(h, n)' <=> Holds(h, n))
      BY <1>6 DEF Holds, HasBuffer
    <3>3. \A n \in AllIds : ~Holds(g, n)
      BY <1>4 DEF Holds
    <3> QED  BY <3>1, <3>2, <3>3, <1>3, <1>4, <1>10
  <2>2. \A k \in Jobs, n \in AllIds : Carries(k, n)' <=> Carries(k, n) /\ k # j
    BY <1>3, <1>6 DEF Carries
  <2>3. m # 0 => Carries(j, m)
    BY <1>2, <1>10 DEF Carries
  <2>4. \A n \in AllIds : Carries(j, n) => n = m /\ m # 0
    BY <1>2, <1>10 DEF Carries
  <2>5. \A n \in AllIds : ~Holds(g, n)
    BY <1>4 DEF Holds
  <2> QED  BY <2>1, <2>2, <2>3, <2>4, <2>5
<1> HIDE DEF i
<1>12. Once'
  BY <1>11 DEF IInv, Core, Once
<1>13. Marked'
  BY <1>1, <1>11 DEF IInv, Core, Marked
<1>14. Kept'
  BY <1>1, <1>11 DEF IInv, Core, Kept
<1>15. Unread'
  BY <1>1, <1>6, <1>11 DEF IInv, Core, Unread
<1> QED  BY <1>5, <1>7, <1>8, <1>9, <1>12, <1>13, <1>14, <1>15 DEF IInv, Core

\* Close and the latches.
LEMMA FlagsKeep ==
    ASSUME IInv, SubmitPoisoned \/ CloseBegins \/ CloseRust \/ DropHandle \/ UNCHANGED vars
    PROVE  IInv'
<1>1. BudgetExact'
  BY SameBudget DEF IInv, SubmitPoisoned, CloseBegins, CloseRust, DropHandle, vars, go, rust
<1>2. Core'
  <2> USE DEF IInv, Core, TypeOK, Closing
  <2>1. CASE SubmitPoisoned
    BY <2>1, FlagsMove DEF SubmitPoisoned, rust
  <2>2. CASE CloseBegins
    BY <2>2, FlagsMove DEF CloseBegins, rust
  <2>3. CASE CloseRust
    BY <2>3, FlagsMove DEF CloseRust, go
  <2>4. CASE DropHandle
    BY <2>4, FlagsMove DEF DropHandle, go
  <2>5. CASE UNCHANGED vars
    BY <2>5, FlagsMove DEF vars, rust, go
  <2> QED  BY <2>1, <2>2, <2>3, <2>4, <2>5
<1> QED  BY <1>1, <1>2 DEF IInv

-----------------------------------------------------------------------------
(* The theorems.                                                           *)

LEMMA Initially == Init => IInv
<1> SUFFICES ASSUME Init PROVE IInv  OBVIOUS
<1> USE DEF Init, NoObject, NoResult
<1>1. TypeOK
  <2>1. NoObject \in ObjectTypes
    BY CeilingTyped DEF ObjectTypes, AllIds
  <2>2. NoResult \in ResultTypes
    BY CeilingTyped DEF ResultTypes, AllIds
  <2>3. "new" \in Stages /\ 0 \in AllIds /\ 1 \in 1..Ceiling
    BY CeilingTyped DEF Stages, AllIds
  <2> QED  BY <2>1, <2>2, <2>3, Zenon DEF TypeOK
<1>2. /\ \A g \in Objects : obj[g].id = 0 /\ obj[g].pc = "none" /\ obj[g].charge = 0 /\ ~obj[g].armed
      /\ \A j \in Jobs : result[j].kind = "none" /\ result[j].id = 0 /\ input[j] = 0
      /\ \A i \in 0..Ceiling : slots[i] = NoSlot
      /\ nextId = 1 /\ cgo = {} /\ closed = FALSE /\ dropped = FALSE
  OBVIOUS
<1>3. Fresh /\ Forms /\ Results /\ Closing
  <2>1. Fresh /\ Closing
    BY ONLY <1>2 DEF Fresh, Closing
  <2>2. Forms
    BY ONLY <1>2 DEF Forms, Formed
  <2>3. Results
    BY ONLY <1>2 DEF Results
  <2> QED  BY ONLY <2>1, <2>2, <2>3
<1>4. /\ \A g \in Objects, i \in AllIds : ~Holds(g, i)
      /\ \A j \in Jobs, i \in AllIds : ~Carries(j, i)
      /\ \A i \in AllIds : slots[i] = NoSlot
  BY <1>2, SlotsTyped DEF Holds, HasBuffer, Carries
<1>5. Once /\ Marked /\ Kept /\ Unread
  BY ONLY <1>4 DEF Once, Marked, Kept, Unread
<1>6. BudgetExact
  <2>1. {g \in Objects : obj[g].charge = 1 /\ (obj[g].pc # "garbage" \/ obj[g].armed)} = {}
    OBVIOUS
  <2>2. bytes = 0 /\ 0 <= Budget
    BY BudgetTyped
  <2>3. Cardinality({}) = 0
    BY FS_EmptySet
  <2> QED  BY ONLY <2>1, <2>2, <2>3 DEF BudgetExact
<1> QED  BY <1>1, <1>3, <1>5, <1>6 DEF IInv, Core

LEMMA Inductive == IInv /\ [Next]_vars => IInv'
<1> SUFFICES ASSUME IInv, [Next]_vars PROVE IInv'  OBVIOUS
<1>1. ASSUME NEW g \in Objects,
             \/ ReserveBudget(g) \/ EnterCgo(g) \/ AllocBufferFails(g) \/ AllocBuffer(g)
             \/ Free(g) \/ FreeMemory(g) \/ Forget(g) \/ Collect(g)
      PROVE  IInv'
  BY <1>1, ReserveBudgetKeeps, EnterCgoKeeps, AllocBufferFailsKeeps, AllocBufferKeeps,
     FreeKeeps, FreeMemoryKeeps, ForgetKeeps, CollectKeeps
<1>2. ASSUME NEW j \in Jobs, NEW i \in 0..(Ceiling - 1), Submit(j, i) \/ ReturnBuffer(j, i)
      PROVE  IInv'
  BY <1>2, SubmitKeeps, ReturnBufferKeeps
<1>3. ASSUME NEW j \in Jobs, ReturnBytes(j) \/ ReturnError(j)
      PROVE  IInv'
  <2>1. nextId' \in {nextId, nextId + 1} /\ nextId' <= Ceiling /\ UNCHANGED slots
    BY <1>3, CeilingTyped DEF ReturnBytes, ReturnError, IInv, Core, TypeOK
  <2>2. End(j, "bytes", 0) \/ End(j, "error", 0)
    BY <1>3 DEF ReturnBytes, ReturnError
  <2> QED  BY <2>1, <2>2, EndKeeps
<1>4. ASSUME NEW j \in Jobs,
             \/ Start(j) \/ EngineAlloc(j) \/ ReturnLarge(j) \/ ReturnPanic(j)
             \/ TakeBytes(j) \/ TakeBuffer(j) \/ TakeFailure(j) \/ TakeClosed(j)
             \/ TakeInline(j) \/ Wait(j)
      PROVE  IInv'
  BY <1>4, StartKeeps, EngineAllocKeeps, ReturnLargeKeeps, ReturnPanicKeeps,
     TakeBytesKeeps, TakeBufferKeeps, TakeKeeps, WaitKeeps
<1>5. ASSUME NEW j \in Jobs, NEW g \in Objects, WaitBuffer(j, g)
      PROVE  IInv'
  BY <1>5, WaitBufferKeeps
<1> QED  BY <1>1, <1>2, <1>3, <1>4, <1>5, FlagsKeep DEF Next

LEMMA Invariant == Spec => []IInv
BY Initially, Inductive, PTL DEF Spec

\* A buffer has at most one owner, who finds it registered while the handle is
\* open, and no unit reads what is handed out as a result: claim_output, take,
\* Free and the cleanup never release memory under a view.
THEOREM BufferIsNotAliased == Spec => []NotAliased
<1>1. IInv => NotAliased
  <2> SUFFICES ASSUME IInv PROVE OneOwner /\ OutputNotRead  BY DEF NotAliased
  <2>1. ASSUME NEW i \in Ids
        PROVE  /\ Cardinality(Owners(i)) <= 1
               /\ (Owners(i) # {} /\ ~goClosed) => slots[i] # NoSlot
    <3>1. i \in AllIds /\ i # 0
      BY DEF Ids, AllIds
    <3>2. \A x \in Owners(i) : (x \in Objects /\ Holds(x, i)) \/ (x \in Jobs /\ Carries(x, i))
      BY <3>1 DEF Owners, Holds, Carries, HasBuffer
    <3>3. Owners(i) # {} /\ ~goClosed => slots[i] # NoSlot
      BY <3>1, <3>2 DEF IInv, Core, Marked
    <3>4. \A x, y \in Owners(i) : x = y
      BY <3>1, <3>2 DEF IInv, Core, Once
    <3>5. CASE Owners(i) = {}
      BY <3>3, <3>5, FS_EmptySet
    <3>6. CASE Owners(i) # {}
      <4>1. PICK x : x \in Owners(i)
        BY <3>6
      <4>2. Owners(i) = {x}
        BY <3>4, <4>1
      <4>3. Cardinality({x}) = 1
        BY FS_Singleton, Zenon
      <4> QED  BY <3>3, <4>2, <4>3
    <3> QED  BY <3>5, <3>6
  <2>2. OneOwner
    BY <2>1 DEF OneOwner
  <2>3. OutputNotRead
    <3>1. \A j \in Jobs : result[j].id \in AllIds
      BY DEF IInv, Core, TypeOK, ResultTypes
    <3> QED  BY <3>1 DEF IInv, Core, Unread, OutputNotRead, Reading, Carries
  <2> QED  BY <2>2, <2>3
<1> QED  BY <1>1, Invariant, PTL

\* While the handle is open, a registered buffer that was handed out has an
\* owner, or a Free or cleanup of it is still to come.
THEOREM BufferIsNotLeaked == Spec => []NoLeak
<1>1. IInv => NoLeak
  <2> SUFFICES ASSUME IInv, NEW i \in DOMAIN slots,
                      slots[i] # NoSlot, slots[i].claimed \/ slots[i].held, ~goClosed
               PROVE  \/ Owners(i) # {}
                      \/ \E g \in Objects : obj[g].id = i /\ (obj[g].pc = "freeing" \/ obj[g].armed)
    BY DEF NoLeak
  <2>1. i \in AllIds
    <3>1. i \in 0..Ceiling /\ nextId \in 1..Ceiling
      BY DEF IInv, Core, TypeOK
    <3> QED  BY <3>1, CeilingTyped DEF IInv, Core, Fresh, AllIds
  <2>2. (\E g \in Objects : Holds(g, i)) \/ (\E j \in Jobs : Carries(j, i))
    BY <2>1 DEF IInv, Core, Kept
  <2>3. CASE \E g \in Objects : Holds(g, i)
    BY <2>3 DEF Holds, HasBuffer, Owners
  <2>4. CASE \E j \in Jobs : Carries(j, i)
    BY <2>4 DEF Carries, Owners
  <2> QED  BY <2>2, <2>3, <2>4
<1> QED  BY <1>1, Invariant, PTL

\* bufBytes is the buffers allocated against the budget and not yet released,
\* and never exceeds WithBufferBudget, over every refusal, Free and cleanup.
THEOREM BudgetIsExact == Spec => []BudgetExact
<1>1. IInv => BudgetExact
  BY DEF IInv
<1> QED  BY <1>1, Invariant, PTL

\* reserve_id gives an id to one buffer in the life of the process, never zero
\* and never with the bit of the owned flag.
THEOREM IdsAreGivenOnce == Spec => IdsOnce
<1> DEFINE Given == /\ nextId' >= nextId
                    /\ \A i \in DOMAIN slots :
                           (slots[i] = NoSlot /\ slots'[i] # NoSlot) =>
                               i = nextId /\ i < nextId' /\ i \in Ids
<1>1. IInv /\ [Next]_vars => [Given]_vars
  <2> SUFFICES ASSUME IInv, [Next]_vars PROVE Given
    BY DEF vars
  <2>1. /\ nextId \in 1..Ceiling /\ DOMAIN slots = 0..Ceiling
        /\ \A g \in Objects : obj[g].id \in 0..Ceiling
        /\ \A j \in Jobs : result[j].id \in 0..Ceiling
    BY SlotsTyped DEF IInv, Core, TypeOK, ObjectTypes, ResultTypes
  <2>2. CASE UNCHANGED <<nextId, slots>>
    BY <2>1, <2>2
  <2>3. CASE Spend
    BY <2>1, <2>3 DEF Spend
  <2>4. CASE UNCHANGED slots /\ (nextId' = nextId \/ nextId' = nextId + 1)
    BY <2>1, <2>4
  <2>5. ASSUME NEW c \in BOOLEAN, NEW h \in BOOLEAN, Register(c, h)
        PROVE  Given
    <3>1. slots' = [slots EXCEPT ![nextId] = [claimed |-> c, held |-> h]]
          /\ nextId \in Ids /\ nextId' = nextId + 1
      BY <2>1, <2>5, CeilingTyped DEF Register, Refused, HasId, Ids
    <3>2. slots \in [0..Ceiling -> SlotTypes \cup {NoSlot}]
      BY DEF IInv, Core, TypeOK
    <3>3. \A i \in 0..Ceiling : i # nextId => slots'[i] = slots[i]
      BY <3>1, <3>2
    <3> QED  BY <2>1, <3>1, <3>3
  <2>6. CASE nextId' = nextId /\ \A i \in 0..Ceiling : slots'[i] = slots[i] \/ slots'[i] = NoSlot
                                                        \/ slots[i] # NoSlot
    BY <2>1, <2>6
  <2>7. slots \in [0..Ceiling -> SlotTypes \cup {NoSlot}]
    BY DEF IInv, Core, TypeOK
  <2>8. ASSUME NEW m \in 0..Ceiling, slots' = Freed(m), nextId' = nextId
        PROVE  Given
    BY <2>1, <2>6, <2>7, <2>8 DEF Freed
  <2>9. ASSUME NEW g \in Objects,
               \/ ReserveBudget(g) \/ EnterCgo(g) \/ AllocBufferFails(g) \/ AllocBuffer(g)
               \/ Free(g) \/ FreeMemory(g) \/ Forget(g) \/ Collect(g)
        PROVE  Given
    <3>1. CASE ReserveBudget(g) \/ EnterCgo(g) \/ Free(g) \/ Forget(g)
      BY <2>2, <3>1 DEF ReserveBudget, EnterCgo, Free, Forget, rust
    <3>2. CASE AllocBufferFails(g)
      BY <2>2, <2>3, <3>2 DEF AllocBufferFails, rust
    <3>3. CASE AllocBuffer(g)
      BY <2>5, <3>3, Zenon DEF AllocBuffer
    <3>4. CASE FreeMemory(g)
      BY <2>1, <2>2, <2>8, <3>4 DEF FreeMemory
    <3>5. CASE Collect(g)
      BY <2>1, <2>2, <2>8, <3>5 DEF Collect
    <3> QED  BY <2>9, <3>1, <3>2, <3>3, <3>4, <3>5
  <2>10. ASSUME NEW j \in Jobs, NEW i \in 0..(Ceiling - 1), Submit(j, i) \/ ReturnBuffer(j, i)
         PROVE  Given
    <3>1. CASE Submit(j, i)
      BY <2>2, <3>1 DEF Submit, rust
    <3>2. CASE UNCHANGED <<nextId, slots>>
      BY <2>2, <3>2
    <3>3. CASE MayClaim(i) /\ nextId' = nextId /\ slots' = [slots EXCEPT ![i].claimed = TRUE]
      BY <2>6, <2>7, <3>3 DEF MayClaim
    <3> QED  BY <2>10, <3>1, <3>2, <3>3 DEF ReturnBuffer
  <2>11. ASSUME NEW j \in Jobs,
                \/ Start(j) \/ EngineAlloc(j) \/ ReturnBytes(j) \/ ReturnError(j)
                \/ ReturnLarge(j) \/ ReturnPanic(j)
         PROVE  Given
    <3>1. CASE Start(j) \/ ReturnBytes(j) \/ ReturnError(j) \/ ReturnPanic(j)
      BY <2>2, <3>1 DEF Start, ReturnBytes, ReturnError, ReturnPanic, rust
    <3>2. CASE EngineAlloc(j)
      BY <2>5, <3>2, Zenon DEF EngineAlloc
    <3>3. CASE ReturnLarge(j)
      BY <2>2, <2>3, <2>5, <3>3, Zenon DEF ReturnLarge
    <3> QED  BY <2>11, <3>1, <3>2, <3>3
  <2>12. ASSUME NEW j \in Jobs,
                \/ TakeBytes(j) \/ TakeBuffer(j) \/ TakeFailure(j) \/ TakeClosed(j)
                \/ TakeInline(j) \/ Wait(j) \/ \E g \in Objects : WaitBuffer(j, g)
         PROVE  Given
    <3>1. CASE TakeBytes(j)
      BY <2>4, <3>1 DEF TakeBytes
    <3>2. CASE TakeBuffer(j) \/ TakeFailure(j) \/ TakeClosed(j) \/ TakeInline(j)
      BY <2>2, <3>2 DEF TakeBuffer, TakeFailure, TakeClosed, TakeInline, rust
    <3>3. CASE Wait(j)
      BY <2>1, <2>2, <2>8, <3>3 DEF Wait
    <3>4. CASE \E g \in Objects : WaitBuffer(j, g)
      BY <2>2, <3>4 DEF WaitBuffer, rust
    <3> QED  BY <2>12, <3>1, <3>2, <3>3, <3>4
  <2>13. CASE SubmitPoisoned \/ CloseBegins \/ CloseRust \/ UNCHANGED vars
    BY <2>2, <2>13 DEF SubmitPoisoned, CloseBegins, CloseRust, vars, rust
  <2>14. CASE DropHandle
    BY <2>6, <2>14, Zenon DEF DropHandle
  <2> QED  BY <2>9, <2>10, <2>11, <2>12, <2>13, <2>14 DEF Next
<1>2. Spec => [][Given]_vars
  BY <1>1, Invariant, PTL DEF Spec
<1> QED  BY <1>2 DEF IdsOnce
=============================================================================
