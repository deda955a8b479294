------------------------ MODULE ActiveObjectsProofs -------------------------
(***************************************************************************)
(* What is proved of ActiveObjects for every number of entities, blocks    *)
(* and clients and any finite set of identifiers: the variables keep their *)
(* types, m_known_by_count is the number of clients that know an object,   *)
(* and, where no block is unloaded before its objects are managed, an      *)
(* entity that was added and not removed, or whose removal on_deactivate    *)
(* asked for in vain, exists exactly once.                                 *)
(*                                                                         *)
(* That the server is consistent is said for any objects, blocks and       *)
(* database, so that the results of deactivateFarObjects and of the        *)
(* activations after it, which are one step of the server, can be taken    *)
(* one after the other.                                                    *)
(***************************************************************************)
EXTENDS ActiveObjects, FiniteSetTheorems, TLAPS

\* What a variable with a value for some of its keys may be.
Object == [thing : Entities, pending : {"no", "removal", "deactivation"}, known : Nat,
           static : MapBlocks \cup {NoBlock}, pos : MapBlocks]
Copies == [Entities -> Nat]
Actives == UNION {[ids -> Entities] : ids \in SUBSET SaoIds}
Block == [active : Actives, stored : Copies, modified : BOOLEAN]

ObjectsOK(objs) == DOMAIN objs \subseteq SaoIds /\ objs \in [DOMAIN objs -> Object]
MemoryOK(mem) == DOMAIN mem \subseteq MapBlocks /\ mem \in [DOMAIN mem -> Block]
DatabaseOK(db) == db \in [MapBlocks -> Copies]

TypeOK ==
    /\ ObjectsOK(objects) /\ MemoryOK(blocks) /\ DatabaseOK(database)
    /\ m_active_blocks \subseteq MapBlocks
    /\ m_known_objects \in [Viewers -> SUBSET SaoIds]
    /\ added \subseteq Entities /\ removed \subseteq Entities /\ undone \subseteq Entities
    /\ moves \in 0 .. MaxMoves /\ down \in BOOLEAN

\* A block in memory, or what the database has of it.
Em(mem, db, b) == IF b \in DOMAIN mem THEN mem[b]
                  ELSE [active |-> Nothing, stored |-> db[b], modified |-> FALSE]

\* An object has static data in the block it says.
Kept(objs, mem, id) ==
    objs[id].static \in DOMAIN mem /\ id \in DOMAIN mem[objs[id].static].active

\* Static data under an identifier is that of the object, in its static block.
Entries(objs, mem) ==
    \A b \in DOMAIN mem : \A id \in DOMAIN mem[b].active :
        id \in DOMAIN objs /\ objs[id].static = b /\ mem[b].active[id] = objs[id].thing

\* Every object has static data, unless it is removed, or deactivated and
\* its block unloaded.
Anchored(objs, mem) ==
    \A id \in DOMAIN objs :
        /\ objs[id].static = NoBlock => objs[id].pending = "removal"
        /\ objs[id].pending # "deactivation" /\ objs[id].static # NoBlock => Kept(objs, mem, id)

\* A block that is not modified is in the database.
Saved(mem, db) == \A b \in DOMAIN mem : ~ mem[b].modified => db[b] = Written(mem[b])

\* The objects that stand for an entity, and how often the blocks store it.
Holders(objs, mem, e) ==
    {id \in DOMAIN objs : objs[id].thing = e /\ objs[id].pending # "removal" /\ Kept(objs, mem, id)}
Stores(mem, db, e) == [b \in MapBlocks |-> Em(mem, db, b).stored[e]]

\* There is one holder, or one copy in one block, or neither.
Single(H, st, there) ==
    /\ \A b \in MapBlocks : st[b] <= 1
    /\ \A b, c \in MapBlocks : st[b] > 0 /\ st[c] > 0 => b = c
    /\ \A i, j \in H : i = j
    /\ H = {} \/ \A b \in MapBlocks : st[b] = 0
    /\ there <=> H # {} \/ \E b \in MapBlocks : st[b] > 0

Consistent(objs, mem, db) ==
    /\ ObjectsOK(objs) /\ MemoryOK(mem) /\ DatabaseOK(db)
    /\ Entries(objs, mem) /\ Anchored(objs, mem) /\ Saved(mem, db)

Singles(objs, mem, db, there) ==
    \A e \in Entities : Single(Holders(objs, mem, e), Stores(mem, db, e), e \in there)

OnceInv == ~ down => /\ Consistent(objects, blocks, database)
                     /\ Singles(objects, blocks, database, added \ (removed \ undone))
                     /\ removed \subseteq added
-----------------------------------------------------------------------------
(* The parts of the two long steps *)

\* How the steps of the server and the blocks change what is said of both: the
\* intermediate results of removeRemovedObjects and of the management of the
\* active blocks, under names of their own.
Marked == {id \in DOMAIN objects : objects[id].pending = "removal"}
Erased == {id \in Marked : objects[id].static # NoBlock}
StoredIds == {id \in DOMAIN objects \ Marked : Deletable(id) /\ objects[id].static # NoBlock}
Of(ids, b) == {id \in ids : objects[id].static = b}
MovedIn(b) == Of(StoredIds, b) \cap DOMAIN Emerged(b).active
Cleaned(b) ==
    [active |-> Rewritten(Emerged(b).active, Of(Erased, b) \cup MovedIn(b), {}),
     stored |-> PlusStored(Emerged(b).stored, MovedIn(b)),
     modified |-> Emerged(b).modified \/ Of(Erased, b) # {} \/ MovedIn(b) # {}]
CleanedBlocks == {objects[id].static : id \in Erased \cup StoredIds}

Resaved(active) == {id \in Live : /\ objects[id].static # NoBlock
                                  /\ objects[id].static \notin active
                                  /\ objects[id].pos \in active}
Freed(active) == {id \in Far(active) : objects[id].known = 0}
Touched(active) ==
    {objects[id].pos : id \in Resaved(active) \cup Far(active)}
    \cup ({objects[id].static : id \in Resaved(active) \cup Far(active)} \ {NoBlock})
Memory(active, quiet) ==
    [b \in DOMAIN blocks \cup Touched(active) |->
        IF b \in Touched(active)
        THEN Deactivated(b, Resaved(active), Far(active), Freed(active), quiet)
        ELSE blocks[b]]
Remaining(active) ==
    [id \in DOMAIN objects \ Freed(active) |->
        IF id \in Far(active) THEN
            [objects[id] EXCEPT !.pending = "deactivation", !.static = objects[id].pos]
        ELSE IF id \in Resaved(active) THEN
            [objects[id] EXCEPT !.static = objects[id].pos]
        ELSE objects[id]]
\* Objects that on_deactivate removes, of those that stay.
Gone(objs, ids) ==
    [id \in DOMAIN objs |-> IF id \in ids THEN [objs[id] EXCEPT !.pending = "removal"]
                            ELSE objs[id]]
Remains(active, removing) == Gone(Remaining(active), removing \ Freed(active))
Fresh(f, id) == [thing |-> f[id].thing, pending |-> "no", known |-> 0,
                 static |-> f[id].in, pos |-> f[id].in]
WithFresh(objs, f) ==
    [id \in DOMAIN objs \cup DOMAIN f |-> IF id \in DOMAIN objs THEN objs[id] ELSE Fresh(f, id)]
FreshIn(f, b) == {id \in DOMAIN f : f[id].in = b}
Activated(mem, B, f, left) ==
    [b \in DOMAIN mem |->
        IF b \notin B
        THEN [mem[b] EXCEPT !.modified = @ \/ b \in left]
        ELSE [mem[b] EXCEPT !.stored = NoCopy,
                !.active = [id \in DOMAIN @ \cup FreshIn(f, b) |->
                              IF id \in FreshIn(f, b) THEN f[id].thing ELSE @[id]]]]
Become(active, quiet) == (active \ m_active_blocks) \cap DOMAIN Memory(active, quiet)

\* removeRemovedObjects in these names.
LEMMA RemoveMeans ==
    ASSUME RemoveRemovedObjects
    PROVE  /\ blocks' = [b \in DOMAIN blocks \cup CleanedBlocks |->
                            IF b \in CleanedBlocks THEN Cleaned(b) ELSE blocks[b]]
           /\ objects' = [id \in {i \in DOMAIN objects : ~ Deletable(i)} |->
                            IF id \in Marked THEN [objects[id] EXCEPT !.static = NoBlock]
                            ELSE objects[id]]
           /\ UNCHANGED << database, m_active_blocks, m_known_objects, added, removed,
                           undone, moves, down >>
BY DEF RemoveRemovedObjects, Updated, CleanedBlocks, Cleaned, Marked, Erased, StoredIds, Of, MovedIn

\* The management of the active blocks in these names.
Managed(active, quiet, removing, fresh) ==
    /\ quiet \subseteq {id \in Far(active) : objects[id].static = objects[id].pos}
    /\ removing \subseteq Far(active)
    /\ Activates(Become(active, quiet), Remains(active, removing), Memory(active, quiet), fresh)
    /\ \A id \in DOMAIN fresh : fresh[id].in \in Become(active, quiet)
    /\ m_active_blocks' = (active \cap m_active_blocks) \cup Become(active, quiet)
    /\ objects' = WithFresh(Remains(active, removing), fresh)
    /\ blocks' = Activated(Memory(active, quiet), Become(active, quiet), fresh,
                           m_active_blocks \ active)
    /\ removed' = removed \cup Things(removing)
    /\ undone' = (undone \cup Things(removing \cap Freed(active)))
                    \ Things(removing \ Freed(active))
    /\ UNCHANGED << database, m_known_objects, added, moves, down >>

LEMMA ManageMeans ==
    ASSUME ObjectsOK(objects), NEW active, NEW quiet, NEW removing, NEW fresh,
           ManageActiveBlocks(active, quiet, removing, fresh)
    PROVE  Managed(active, quiet, removing, fresh)
<1> DEFINE live == [id \in DOMAIN objects \ Freed(active) |->
                    IF id \in Far(active) THEN
                        [objects[id] EXCEPT
                            !.pending = IF id \in removing THEN "removal" ELSE "deactivation",
                            !.static = objects[id].pos]
                    ELSE IF id \in Resaved(active) THEN
                        [objects[id] EXCEPT !.static = objects[id].pos]
                    ELSE objects[id]]
<1>1. /\ quiet \subseteq {id \in Far(active) : objects[id].static = objects[id].pos}
      /\ removing \subseteq Far(active)
      /\ Activates(Become(active, quiet), live, Memory(active, quiet), fresh)
      /\ \A id \in DOMAIN fresh : fresh[id].in \in Become(active, quiet)
      /\ m_active_blocks' = (active \cap m_active_blocks) \cup Become(active, quiet)
      /\ objects' = WithFresh(live, fresh)
      /\ blocks' = Activated(Memory(active, quiet), Become(active, quiet), fresh,
                             m_active_blocks \ active)
      /\ removed' = removed \cup Things(removing)
      /\ undone' = (undone \cup Things(removing \cap Freed(active)))
                           \ Things(removing \ Freed(active))
      /\ UNCHANGED << database, m_known_objects, added, moves, down >>
  BY DEF ManageActiveBlocks, Updated, Resaved, Far, Freed, Touched, Memory, Fresh,
     WithFresh, FreshIn, Activated, Become
<1>2. live = Remains(active, removing)
  <2>1. ASSUME NEW id \in DOMAIN objects \ Freed(active)
        PROVE  live[id] = Remains(active, removing)[id]
    <3>1. objects[id] \in Object
      BY DEF ObjectsOK
    <3>2. QED
      BY <1>1, <3>1 DEF Remains, Gone, Remaining, Object
  <2>2. QED
    BY <2>1 DEF Remains, Gone, Remaining
<1>3. QED
  BY <1>1, <1>2 DEF Managed
-----------------------------------------------------------------------------
(* Types *)

\* There are finitely many identifiers.
LEMMA IdsFinite ==
    ASSUME NEW ids \in SUBSET SaoIds
    PROVE  IsFiniteSet(ids) /\ Cardinality(ids) \in Nat
BY ActiveObjectsAssumption, FS_Subset, FS_CardinalityType

\* The static data a block keeps under identifiers.
LEMMA ActivesAre ==
    ASSUME NEW f
    PROVE  f \in Actives <=> DOMAIN f \subseteq SaoIds /\ f \in [DOMAIN f -> Entities]
BY DEF Actives

\* A block brought to memory is a block.
LEMMA EmergedType ==
    ASSUME MemoryOK(blocks), DatabaseOK(database), NEW b \in MapBlocks
    PROVE  Emerged(b) \in Block /\ Emerged(b) = Em(blocks, database, b)
<1>1. Nothing \in Actives
  BY DEF Nothing, Actives
<1>2. QED
  BY <1>1 DEF MemoryOK, DatabaseOK, Emerged, Em, Block

\* What is stored is counted in natural numbers.
LEMMA PlusStoredType ==
    ASSUME ObjectsOK(objects), NEW stored \in Copies, NEW ids \in SUBSET DOMAIN objects
    PROVE  PlusStored(stored, ids) \in Copies
<1>1. ASSUME NEW e \in Entities
      PROVE  Cardinality({id \in ids : objects[id].thing = e}) \in Nat
  BY IdsFinite DEF ObjectsOK
<1>2. QED
  BY <1>1 DEF PlusStored, Copies

\* The static data of objects is that of entities.
LEMMA RewrittenType ==
    ASSUME ObjectsOK(objects), NEW active \in Actives, NEW drop, NEW put \in SUBSET DOMAIN objects
    PROVE  Rewritten(active, drop, put) \in Actives
<1>1. DOMAIN active \subseteq SaoIds /\ active \in [DOMAIN active -> Entities]
  BY ActivesAre
<1>2. \A id \in put : id \in SaoIds /\ objects[id].thing \in Entities
  BY DEF ObjectsOK, Object
<1>3. /\ DOMAIN Rewritten(active, drop, put) \subseteq SaoIds
      /\ Rewritten(active, drop, put) \in [DOMAIN Rewritten(active, drop, put) -> Entities]
  BY <1>1, <1>2 DEF Rewritten
<1>4. QED
  BY <1>3, ActivesAre

\* deactivateFarObjects makes blocks of blocks.
LEMMA DeactivatedType ==
    ASSUME ObjectsOK(objects), MemoryOK(blocks), DatabaseOK(database),
           NEW b \in MapBlocks, NEW resaved \in SUBSET DOMAIN objects,
           NEW far \in SUBSET DOMAIN objects, NEW freed, NEW quiet
    PROVE  Deactivated(b, resaved, far, freed, quiet) \in Block
<1> DEFINE old == Outdated(resaved \cup far, b)
           new == {id \in resaved \cup far : objects[id].pos = b}
<1>1. Emerged(b) \in Block
  BY EmergedType
<1>2. Rewritten(Emerged(b).active, old, new \ freed) \in Actives
  BY <1>1, RewrittenType DEF Block
<1>3. PlusStored(Emerged(b).stored, new \cap freed) \in Copies
  BY <1>1, PlusStoredType DEF Block
<1>4. (Emerged(b).modified \/ (old \cup new) \ quiet # {}) \in BOOLEAN
  BY <1>1 DEF Block
<1>5. Deactivated(b, resaved, far, freed, quiet)
         = [active |-> Rewritten(Emerged(b).active, old, new \ freed),
            stored |-> PlusStored(Emerged(b).stored, new \cap freed),
            modified |-> Emerged(b).modified \/ (old \cup new) \ quiet # {}]
  BY DEF Deactivated
<1> HIDE DEF old, new
<1>6. QED
  BY <1>2, <1>3, <1>4, <1>5 DEF Block

\* removeRemovedObjects makes blocks of blocks.
LEMMA CleanedType ==
    ASSUME ObjectsOK(objects), MemoryOK(blocks), DatabaseOK(database), NEW b \in MapBlocks
    PROVE  Cleaned(b) \in Block
<1>1. Emerged(b) \in Block
  BY EmergedType
<1>2. Rewritten(Emerged(b).active, Of(Erased, b) \cup MovedIn(b), {}) \in Actives
  BY <1>1, RewrittenType DEF Block
<1>3. MovedIn(b) \in SUBSET DOMAIN objects
  BY DEF MovedIn, Of, StoredIds
<1>4. PlusStored(Emerged(b).stored, MovedIn(b)) \in Copies
  BY <1>1, <1>3, PlusStoredType DEF Block
<1>5. (Emerged(b).modified \/ Of(Erased, b) # {} \/ MovedIn(b) # {}) \in BOOLEAN
  BY <1>1 DEF Block
<1>6. QED
  BY <1>2, <1>4, <1>5 DEF Cleaned, Block

\* deactivateFarObjects is about objects, and blocks of the map.
LEMMA TouchedAre ==
    ASSUME ObjectsOK(objects), NEW active
    PROVE  /\ Touched(active) \subseteq MapBlocks
           /\ Far(active) \subseteq DOMAIN objects /\ Resaved(active) \subseteq DOMAIN objects
           /\ Far(active) \cap Resaved(active) = {}
BY DEF Touched, Far, Resaved, Live, ObjectsOK, Object

\* The blocks in memory after deactivateFarObjects.
LEMMA MemoryType ==
    ASSUME ObjectsOK(objects), MemoryOK(blocks), DatabaseOK(database), NEW active, NEW quiet
    PROVE  MemoryOK(Memory(active, quiet))
<1>1. \A b \in Touched(active) :
          Deactivated(b, Resaved(active), Far(active), Freed(active), quiet) \in Block
  BY DeactivatedType, TouchedAre
<1>2. QED
  BY <1>1, TouchedAre DEF Memory, MemoryOK

\* The objects after deactivateFarObjects.
LEMMA RemainingType ==
    ASSUME ObjectsOK(objects), NEW active
    PROVE  ObjectsOK(Remaining(active))
<1> SUFFICES ASSUME NEW id \in DOMAIN objects \ Freed(active)
             PROVE  Remaining(active)[id] \in Object
  BY DEF ObjectsOK, Remaining
<1>1. objects[id] \in Object /\ objects[id].pos \in MapBlocks
  BY DEF ObjectsOK, Object
<1>2. QED
  BY <1>1 DEF Remaining, Object

\* The objects after on_deactivate.
LEMMA RemainsType ==
    ASSUME ObjectsOK(objects), NEW active, NEW removing
    PROVE  ObjectsOK(Remains(active, removing))
<1>1. ObjectsOK(Remaining(active))
  BY RemainingType
<1>2. ASSUME NEW id \in DOMAIN Remaining(active)
      PROVE  [Remaining(active)[id] EXCEPT !.pending = "removal"] \in Object
  BY <1>1 DEF ObjectsOK, Object
<1>3. QED
  BY <1>1, <1>2 DEF Remains, Gone, ObjectsOK

\* The things of objects are entities.
LEMMA ThingsAre ==
    ASSUME ObjectsOK(objects), NEW ids \in SUBSET DOMAIN objects
    PROVE  Things(ids) \subseteq Entities
BY DEF Things, ObjectsOK, Object

\* The objects after an activation.
LEMMA WithFreshType ==
    ASSUME NEW objs, ObjectsOK(objs), NEW f, NEW ids \in SUBSET SaoIds, f \in [ids -> Places]
    PROVE  ObjectsOK(WithFresh(objs, f))
<1>1. \A id \in ids : Fresh(f, id) \in Object
  BY DEF Fresh, Places, Object
<1>2. QED
  BY <1>1 DEF WithFresh, ObjectsOK

\* The blocks in memory after an activation.
LEMMA ActivatedType ==
    ASSUME NEW mem, MemoryOK(mem), NEW f, NEW ids \in SUBSET SaoIds, f \in [ids -> Places],
           NEW B, NEW left
    PROVE  MemoryOK(Activated(mem, B, f, left))
<1> SUFFICES ASSUME NEW b \in DOMAIN mem PROVE Activated(mem, B, f, left)[b] \in Block
  BY DEF MemoryOK, Activated
<1>1. mem[b] \in Block /\ DOMAIN mem[b].active \subseteq SaoIds
      /\ mem[b].active \in [DOMAIN mem[b].active -> Entities]
  BY ActivesAre DEF MemoryOK, Block
<1>2. CASE b \notin B
  BY <1>1, <1>2 DEF Activated, Block
<1>3. CASE b \in B
  <2> DEFINE act == [id \in DOMAIN mem[b].active \cup FreshIn(f, b) |->
                        IF id \in FreshIn(f, b) THEN f[id].thing ELSE mem[b].active[id]]
  <2>1. DOMAIN act \subseteq SaoIds /\ act \in [DOMAIN act -> Entities]
    BY <1>1 DEF FreshIn, Places
  <2>2. act \in Actives
    BY <2>1, ActivesAre
  <2>3. NoCopy \in Copies
    BY DEF NoCopy, Copies
  <2>4. Activated(mem, B, f, left)[b] = [mem[b] EXCEPT !.stored = NoCopy, !.active = act]
    BY <1>3 DEF Activated
  <2> HIDE DEF act
  <2>5. QED
    BY <1>1, <2>2, <2>3, <2>4 DEF Block
<1>4. QED
  BY <1>2, <1>3

\* What is written to the database.
LEMMA WrittenType ==
    ASSUME NEW x \in Block
    PROVE  Written(x) \in Copies
<1>1. DOMAIN x.active \subseteq SaoIds /\ x.stored \in Copies
  BY ActivesAre DEF Block
<1>2. \A e \in Entities : CountIn(x.active, e) \in Nat
  <2>1. \A e \in Entities : {i \in DOMAIN x.active : x.active[i] = e} \in SUBSET SaoIds
    BY <1>1
  <2>2. QED
    BY <2>1, IdsFinite DEF CountIn
<1>3. QED
  BY <1>1, <1>2 DEF Written, Copies

\* The types at the start, and then action by action.
LEMMA InitTypes == InitActiveObjects => TypeOK
<1> SUFFICES ASSUME InitActiveObjects PROVE TypeOK
  OBVIOUS
<1>1. ObjectsOK(objects) /\ MemoryOK(blocks)
  BY DEF InitActiveObjects, ObjectsOK, MemoryOK, Nothing
<1>2. DatabaseOK(database)
  BY DEF InitActiveObjects, DatabaseOK, NoCopy, Copies
<1>3. moves \in 0 .. MaxMoves
  BY ActiveObjectsAssumption DEF InitActiveObjects
<1>4. QED
  BY <1>1, <1>2, <1>3 DEF InitActiveObjects, TypeOK

LEMMA AddTypes ==
    ASSUME TypeOK, NEW e \in Entities, NEW b \in MapBlocks, NEW id \in SaoIds, AddEntity(e, b, id)
    PROVE  TypeOK'
<1>1. ObjectsOK(objects')
  <2> DEFINE o == [thing |-> e, pending |-> "no", known |-> 0, static |-> b, pos |-> b]
  <2>1. o \in Object
    BY DEF Object
  <2>2. objects' = [i \in DOMAIN objects \cup {id} |-> IF i # id THEN objects[i] ELSE o]
    BY DEF AddEntity
  <2> HIDE DEF o
  <2>3. QED
    BY <2>1, <2>2 DEF TypeOK, ObjectsOK
<1>2. MemoryOK(blocks')
  <2> DEFINE act == [i \in DOMAIN Emerged(b).active \cup {id} |->
                        IF i = id THEN e ELSE Emerged(b).active[i]]
  <2>1. Emerged(b) \in Block
    BY EmergedType DEF TypeOK
  <2>2. act \in Actives
    <3>1. DOMAIN Emerged(b).active \subseteq SaoIds
          /\ Emerged(b).active \in [DOMAIN Emerged(b).active -> Entities]
      BY <2>1, ActivesAre DEF Block
    <3>2. DOMAIN act \subseteq SaoIds /\ act \in [DOMAIN act -> Entities]
      BY <3>1
    <3>3. QED
      BY <3>2, ActivesAre
  <2>3. blocks' = [x \in DOMAIN blocks \cup {b} |->
                     IF x \in {b} THEN [Emerged(x) EXCEPT !.active = [i \in DOMAIN @ \cup {id} |->
                                                       IF i = id THEN e ELSE @[i]],
                                        !.modified = TRUE]
                     ELSE blocks[x]]
    BY DEF AddEntity, Updated
  <2>4. blocks' = [x \in DOMAIN blocks \cup {b} |->
                     IF x = b THEN [Emerged(b) EXCEPT !.active = act, !.modified = TRUE]
                     ELSE blocks[x]]
    BY <2>3
  <2> HIDE DEF act
  <2>5. [Emerged(b) EXCEPT !.active = act, !.modified = TRUE] \in Block
    BY <2>1, <2>2 DEF Block
  <2>6. QED
    BY <2>4, <2>5 DEF TypeOK, MemoryOK
<1>3. added' = added \cup {e}
      /\ UNCHANGED << database, m_active_blocks, m_known_objects, removed, undone, moves, down >>
  BY DEF AddEntity
<1>4. QED
  BY <1>1, <1>2, <1>3 DEF TypeOK

LEMMA MoveTypes ==
    ASSUME TypeOK, NEW b \in MapBlocks, NEW id \in SaoIds, Move(id, b)
    PROVE  TypeOK'
<1>1. ObjectsOK(objects')
  BY DEF Move, Live, TypeOK, ObjectsOK, Object
<1>2. moves' \in 0 .. MaxMoves
  BY ActiveObjectsAssumption DEF Move, TypeOK
<1>3. QED
  BY <1>1, <1>2 DEF Move, TypeOK

LEMMA MarkTypes ==
    ASSUME TypeOK, NEW id \in SaoIds, MarkForRemoval(id)
    PROVE  TypeOK'
<1>1. ObjectsOK(objects')
  BY DEF MarkForRemoval, Live, TypeOK, ObjectsOK, Object
<1>2. removed' \subseteq Entities
  BY DEF MarkForRemoval, Live, TypeOK, ObjectsOK, Object
<1>3. QED
  BY <1>1, <1>2 DEF MarkForRemoval, TypeOK

LEMMA RemoveTypes ==
    ASSUME TypeOK, RemoveRemovedObjects
    PROVE  TypeOK'
<1>1. ObjectsOK(objects')
  <2>1. \A id \in DOMAIN objects : objects[id] \in Object
    BY DEF TypeOK, ObjectsOK
  <2>2. \A id \in DOMAIN objects : [objects[id] EXCEPT !.static = NoBlock] \in Object
    BY <2>1 DEF Object
  <2>3. QED
    BY <2>1, <2>2, RemoveMeans DEF TypeOK, ObjectsOK
<1>2. MemoryOK(blocks')
  <2>1. CleanedBlocks \subseteq MapBlocks
    BY DEF CleanedBlocks, Erased, StoredIds, Marked, TypeOK, ObjectsOK, Object
  <2>2. \A b \in CleanedBlocks : Cleaned(b) \in Block
    BY <2>1, CleanedType DEF TypeOK
  <2>3. QED
    BY <2>1, <2>2, RemoveMeans DEF TypeOK, MemoryOK
<1>3. QED
  BY <1>1, <1>2, RemoveMeans DEF TypeOK

LEMMA ManageTypes ==
    ASSUME TypeOK, Manage
    PROVE  TypeOK'
<1>1. PICK active \in SUBSET MapBlocks, quiet \in SUBSET Live, removing \in SUBSET Live,
           fresh \in UNION {[ids -> Places] : ids \in SUBSET FreeSaoIds} :
              ManageActiveBlocks(active, quiet, removing, fresh)
  BY DEF Manage, Far
<1>2. PICK ids \in SUBSET SaoIds : fresh \in [ids -> Places]
  BY DEF FreeSaoIds
<1>0. Managed(active, quiet, removing, fresh)
  <2>1. ObjectsOK(objects)
    BY DEF TypeOK
  <2>2. QED
    BY <1>1, <2>1, ManageMeans
<1>3. ObjectsOK(Remains(active, removing)) /\ MemoryOK(Memory(active, quiet))
  BY RemainsType, MemoryType DEF TypeOK
<1>4. ObjectsOK(objects')
  <2>1. ObjectsOK(WithFresh(Remains(active, removing), fresh))
    BY <1>2, <1>3, WithFreshType
  <2>2. QED
    BY <1>0, <2>1 DEF Managed
<1>5. MemoryOK(blocks')
  <2>1. MemoryOK(Activated(Memory(active, quiet), Become(active, quiet), fresh,
                           m_active_blocks \ active))
    BY <1>2, <1>3, ActivatedType
  <2>2. QED
    BY <1>0, <2>1 DEF Managed
<1>6. /\ m_active_blocks' = (active \cap m_active_blocks) \cup Become(active, quiet)
      /\ removed' = removed \cup Things(removing)
      /\ undone' \subseteq undone \cup Things(removing \cap Freed(active))
      /\ UNCHANGED << database, m_known_objects, added, moves, down >>
  BY <1>0 DEF Managed
<1>7. Become(active, quiet) \subseteq MapBlocks
  BY DEF Become
<1>8. Things(removing) \subseteq Entities /\ Things(removing \cap Freed(active)) \subseteq Entities
  BY ThingsAre DEF Live, TypeOK
<1>9. QED
  BY <1>4, <1>5, <1>6, <1>7, <1>8 DEF TypeOK

LEMMA LoadTypes ==
    ASSUME TypeOK, NEW b \in MapBlocks, Load(b)
    PROVE  TypeOK'
<1>1. blocks' = [x \in DOMAIN blocks \cup {b} |-> IF x \in {b} THEN Emerged(x) ELSE blocks[x]]
  BY DEF Load, Updated
<1>2. Emerged(b) \in Block
  BY EmergedType DEF TypeOK
<1>3. MemoryOK(blocks')
  BY <1>1, <1>2 DEF TypeOK, MemoryOK
<1>4. QED
  BY <1>3 DEF Load, TypeOK

LEMMA SaveTypes ==
    ASSUME TypeOK, NEW b \in MapBlocks, Save(b)
    PROVE  TypeOK'
<1>1. b \in DOMAIN blocks /\ blocks[b] \in Block
  BY DEF Save, TypeOK, MemoryOK
<1>2. Written(blocks[b]) \in Copies
  BY <1>1, WrittenType
<1>3. DatabaseOK(database')
  BY <1>2 DEF Save, TypeOK, DatabaseOK
<1>4. [blocks[b] EXCEPT !.modified = FALSE] \in Block
  BY <1>1 DEF Block
<1>5. MemoryOK(blocks')
  BY <1>1, <1>4 DEF Save, TypeOK, MemoryOK
<1>6. QED
  BY <1>3, <1>5 DEF Save, TypeOK

LEMMA UnloadTypes ==
    ASSUME TypeOK, NEW b \in MapBlocks, Unload(b)
    PROVE  TypeOK'
<1>1. b \in DOMAIN blocks /\ blocks[b] \in Block
  BY DEF Unload, TypeOK, MemoryOK
<1>2. Written(blocks[b]) \in Copies
  BY <1>1, WrittenType
<1>3. DatabaseOK(database')
  BY <1>2 DEF Unload, TypeOK, DatabaseOK
<1>4. MemoryOK(blocks')
  BY DEF Unload, Restrict, TypeOK, MemoryOK
<1>5. QED
  BY <1>3, <1>4 DEF Unload, TypeOK

LEMMA KnowsTypes ==
    ASSUME TypeOK, NEW c \in Viewers, NEW ids \in SUBSET SaoIds, Knows(c, ids)
    PROVE  TypeOK'
<1> DEFINE old == m_known_objects[c]
           Less(id) == IF id \in old \ ids /\ objects[id].known > 0 THEN 1 ELSE 0
           More(id) == IF id \in ids \ old THEN 1 ELSE 0
<1>1. objects' = [id \in DOMAIN objects |->
                     [objects[id] EXCEPT !.known = (@ + More(id)) - Less(id)]]
  BY DEF Knows
<1>2. \A id \in DOMAIN objects : objects[id] \in Object /\ (objects[id].known + More(id)) - Less(id) \in Nat
  BY DEF TypeOK, ObjectsOK, Object
<1> HIDE DEF Less, More
<1>3. \A id \in DOMAIN objects :
         [objects[id] EXCEPT !.known = (@ + More(id)) - Less(id)] \in Object
  BY <1>2 DEF Object
<1>4. ObjectsOK(objects')
  BY <1>1, <1>3 DEF TypeOK, ObjectsOK
<1>5. m_known_objects' = [m_known_objects EXCEPT ![c] = ids]
      /\ UNCHANGED << blocks, database, m_active_blocks, added, removed, undone, moves, down >>
  BY DEF Knows
<1>6. QED
  BY <1>4, <1>5 DEF TypeOK

LEMMA ShutdownTypes ==
    ASSUME TypeOK, NEW quiet, NEW removing \in SUBSET Live, Shutdown(quiet, removing)
    PROVE  TypeOK'
<1> DEFINE all == DOMAIN objects
           touched == {objects[id].pos : id \in all}
                      \cup ({objects[id].static : id \in all} \ {NoBlock})
           memory == [b \in DOMAIN blocks \cup touched |->
                         IF b \in touched THEN Deactivated(b, {}, all, all, quiet) ELSE blocks[b]]
<1>1. database' = [b \in MapBlocks |->
               IF b \in DOMAIN memory /\ memory[b].modified THEN Written(memory[b])
               ELSE database[b]]
  BY DEF Shutdown, Updated
<1>2. /\ objects' = Nothing /\ blocks' = Nothing /\ m_active_blocks' = {} /\ down' = TRUE
      /\ removed' = removed \cup Things(removing) /\ undone' = undone \cup Things(removing)
      /\ UNCHANGED << m_known_objects, added, moves >>
  BY DEF Shutdown
<1>3. touched \subseteq MapBlocks
  BY DEF TypeOK, ObjectsOK, Object
<1>4. \A b \in DOMAIN memory : memory[b] \in Block
  <2>1. \A b \in touched : Deactivated(b, {}, all, all, quiet) \in Block
    BY <1>3, DeactivatedType DEF TypeOK
  <2>2. QED
    BY <2>1 DEF TypeOK, MemoryOK
<1> HIDE DEF memory
<1>5. DatabaseOK(database')
  BY <1>1, <1>4, WrittenType DEF TypeOK, DatabaseOK
<1>6. ObjectsOK(objects') /\ MemoryOK(blocks')
  BY <1>2 DEF ObjectsOK, MemoryOK, Nothing
<1>7. Things(removing) \subseteq Entities
  BY ThingsAre DEF Live, TypeOK
<1>8. QED
  BY <1>2, <1>5, <1>6, <1>7 DEF TypeOK

\* No step breaks a type.
LEMMA TypeStep == TypeOK /\ [NextActiveObjects]_aovars => TypeOK'
<1> SUFFICES ASSUME TypeOK, [NextActiveObjects]_aovars PROVE TypeOK'
  OBVIOUS
<1>1. CASE UNCHANGED aovars
  BY <1>1 DEF aovars, TypeOK
<1>2. ASSUME NEW c \in Viewers, DeleteClient(c) PROVE TypeOK'
  BY <1>2, KnowsTypes DEF DeleteClient
<1>3. ASSUME NEW c \in Viewers, NEW ids \in SUBSET SaoIds, SendActiveObjectRemoveAdd(c, ids)
      PROVE  TypeOK'
  BY <1>3, KnowsTypes DEF SendActiveObjectRemoveAdd
<1>4. QED
  BY <1>1, <1>2, <1>3, AddTypes, MoveTypes, MarkTypes, RemoveTypes, ManageTypes, LoadTypes,
     SaveTypes, UnloadTypes, ShutdownTypes DEF NextActiveObjects

\* Every variable keeps its type, for any number of entities, identifiers,
\* blocks and clients.
THEOREM TypeCorrect == SpecActiveObjects => []TypeOK
BY InitTypes, TypeStep, PTL DEF SpecActiveObjects
-----------------------------------------------------------------------------
(* What the clients know. *)

Knowing(id) == {c \in Viewers : id \in m_known_objects[c]}

\* An object that stays is known to as many, one that comes or goes to none.
KnownKept ==
    /\ m_known_objects' = m_known_objects
    /\ \A id \in SaoIds :
        IF id \in DOMAIN objects'
        THEN objects'[id].known = IF id \in DOMAIN objects THEN objects[id].known ELSE 0
        ELSE id \in DOMAIN objects => objects[id].known = 0

\* Then the counts stay exact if nobody learns or forgets anything.
LEMMA KnownKeptExact ==
    ASSUME KnownExact, KnownKept, down' = down
    PROVE  KnownExact'
<1> SUFFICES ASSUME ~ down, NEW id \in SaoIds
             PROVE  IF id \in DOMAIN objects' THEN objects'[id].known = Cardinality(Knowing(id)')
                    ELSE Knowing(id)' = {}
  BY DEF KnownExact, Knowing
<1>1. Knowing(id)' = Knowing(id) /\ IsFiniteSet(Knowing(id))
  BY ActiveObjectsAssumption, FS_Subset DEF KnownKept, Knowing
<1>2. IF id \in DOMAIN objects THEN objects[id].known = Cardinality(Knowing(id))
      ELSE Knowing(id) = {}
  BY DEF KnownExact, Knowing
<1>3. Cardinality(Knowing(id)) = 0 <=> Knowing(id) = {}
  BY <1>1, FS_EmptySet
<1>4. QED
  BY <1>1, <1>2, <1>3 DEF KnownKept

\* The counts stay exact when a client is told which objects it knows.
LEMMA KnowsExact ==
    ASSUME TypeOK, KnownExact, ~ down, NEW c \in Viewers, NEW ids \in SUBSET DOMAIN objects,
           Knows(c, ids)
    PROVE  KnownExact'
<1> DEFINE old == m_known_objects[c]
           Less(id) == IF id \in old \ ids /\ objects[id].known > 0 THEN 1 ELSE 0
           More(id) == IF id \in ids \ old THEN 1 ELSE 0
<1>1. objects' = [id \in DOMAIN objects |->
                     [objects[id] EXCEPT !.known = (@ + More(id)) - Less(id)]]
  BY DEF Knows
<1>2. \A d \in Viewers : m_known_objects'[d] = IF d = c THEN ids ELSE m_known_objects[d]
  BY DEF Knows, TypeOK
<1> SUFFICES ASSUME NEW id \in SaoIds
             PROVE  IF id \in DOMAIN objects' THEN objects'[id].known = Cardinality(Knowing(id)')
                    ELSE Knowing(id)' = {}
  BY DEF KnownExact, Knowing
<1> DEFINE k == Cardinality(Knowing(id))
<1>3. Knowing(id)' = IF id \in ids THEN Knowing(id) \cup {c} ELSE Knowing(id) \ {c}
  BY <1>2 DEF Knowing
<1>4. c \in Knowing(id) <=> id \in old
  BY DEF Knowing
<1>5. IsFiniteSet(Knowing(id)) /\ k \in Nat /\ (k = 0 <=> Knowing(id) = {})
  BY ActiveObjectsAssumption, FS_Subset, FS_EmptySet, FS_CardinalityType DEF Knowing
<1>6. IF id \in DOMAIN objects THEN objects[id].known = k ELSE Knowing(id) = {}
  BY DEF KnownExact, Knowing
<1>7. CASE id \notin DOMAIN objects
  BY <1>1, <1>3, <1>6, <1>7
<1>8. CASE id \in DOMAIN objects
  <2>1. objects'[id].known = (k + More(id)) - Less(id)
    <3>1. objects[id] \in Object
      BY <1>8 DEF TypeOK, ObjectsOK
    <3> HIDE DEF More, Less
    <3>2. QED
      BY <1>1, <1>6, <1>8, <3>1 DEF Object
  <2>2. Cardinality(Knowing(id) \cup {c}) = IF id \in old THEN k ELSE k + 1
    BY <1>4, <1>5, FS_AddElement
  <2>3. Cardinality(Knowing(id) \ {c}) = IF id \in old THEN k - 1 ELSE k
    BY <1>4, <1>5, FS_RemoveElement
  <2>4. id \in old => k > 0
    BY <1>4, <1>5
  <2>5. CASE id \in ids
    BY <1>1, <1>3, <1>5, <1>8, <2>1, <2>2, <2>5
  <2>6. CASE id \notin ids
    BY <1>1, <1>3, <1>5, <1>6, <1>8, <2>1, <2>3, <2>4, <2>6
  <2>7. QED
    BY <2>5, <2>6
<1>9. QED
  BY <1>7, <1>8

\* No step breaks KnownExact.
LEMMA KnownStep == TypeOK /\ KnownExact /\ [NextActiveObjects]_aovars => KnownExact'
<1> SUFFICES ASSUME TypeOK, KnownExact, [NextActiveObjects]_aovars PROVE KnownExact'
  OBVIOUS
<1>1. CASE UNCHANGED aovars
  BY <1>1 DEF aovars, KnownExact
<1> SUFFICES ASSUME ~ down, NextActiveObjects PROVE KnownExact'
  BY <1>1 DEF NextActiveObjects
<1>2. ASSUME NEW e \in Entities, NEW b \in MapBlocks, NEW id \in SaoIds, AddEntity(e, b, id)
      PROVE  KnownExact'
  <2>1. KnownKept
    BY <1>2 DEF AddEntity, KnownKept, FreeSaoIds
  <2>2. QED
    BY <1>2, <2>1, KnownKeptExact DEF AddEntity
<1>3. ASSUME NEW id \in SaoIds, (\E b \in MapBlocks : Move(id, b)) \/ MarkForRemoval(id)
      PROVE  KnownExact'
  <2>1. KnownKept
    BY <1>3 DEF Move, MarkForRemoval, KnownKept, Live, TypeOK, ObjectsOK, Object
  <2>2. QED
    BY <1>3, <2>1, KnownKeptExact DEF Move, MarkForRemoval
<1>4. CASE RemoveRemovedObjects
  <2>1. \A id \in DOMAIN objects : [objects[id] EXCEPT !.static = NoBlock].known = objects[id].known
    BY DEF TypeOK, ObjectsOK, Object
  <2>2. KnownKept
    BY <1>4, <2>1, RemoveMeans DEF KnownKept, Deletable
  <2>3. QED
    BY <1>4, <2>2, RemoveMeans, KnownKeptExact
<1>5. CASE Manage
  <2>1. PICK active \in SUBSET MapBlocks, quiet \in SUBSET Live, removing \in SUBSET Live,
             fresh \in UNION {[ids -> Places] : ids \in SUBSET FreeSaoIds} :
                ManageActiveBlocks(active, quiet, removing, fresh)
    BY <1>5 DEF Manage, Far
  <2> DEFINE live == Remains(active, removing)
  <2>2. \A id \in DOMAIN live : id \in DOMAIN objects /\ live[id].known = objects[id].known
    <3>1. \A id \in DOMAIN Remaining(active) :
             /\ id \in DOMAIN objects /\ Remaining(active)[id] \in Object
             /\ Remaining(active)[id].known = objects[id].known
      BY RemainingType DEF Remaining, TypeOK, ObjectsOK, Object
    <3>2. QED
      BY <3>1 DEF Remains, Gone, Object
  <2>3. \A id \in DOMAIN objects \ DOMAIN live : objects[id].known = 0
    BY DEF Remains, Gone, Remaining, Freed
  <2>4. objects' = WithFresh(live, fresh) /\ m_known_objects' = m_known_objects
        /\ down' = down
    <3>1. ObjectsOK(objects)
      BY DEF TypeOK
    <3>2. Managed(active, quiet, removing, fresh)
      BY <2>1, <3>1, ManageMeans
    <3>3. QED
      BY <3>2 DEF Managed
  <2> HIDE DEF live
  <2>5. KnownKept
    BY <2>2, <2>3, <2>4 DEF KnownKept, WithFresh, Fresh
  <2>6. QED
    BY <2>4, <2>5, KnownKeptExact
<1>6. ASSUME NEW b \in MapBlocks, Load(b) \/ Save(b) \/ Unload(b) PROVE KnownExact'
  BY <1>6 DEF Load, Save, Unload, KnownExact
<1>7. ASSUME NEW c \in Viewers, DeleteClient(c) PROVE KnownExact'
  BY <1>7, KnowsExact DEF DeleteClient
<1>8. ASSUME NEW c \in Viewers, NEW ids \in SUBSET SaoIds, SendActiveObjectRemoveAdd(c, ids)
      PROVE  KnownExact'
  BY <1>8, KnowsExact DEF SendActiveObjectRemoveAdd, Live
<1>9. ASSUME NEW quiet, NEW removing, Shutdown(quiet, removing) PROVE KnownExact'
  BY <1>9 DEF Shutdown, KnownExact
<1>10. QED
  BY <1>2, <1>3, <1>4, <1>5, <1>6, <1>7, <1>8, <1>9 DEF NextActiveObjects

\* The objects a client knows exist and are those it was told of, and the count
\* of an object is the number of clients that know it
\* (serverenvironment.cpp:1775), for any number of clients.
THEOREM KnownExactHolds == SpecActiveObjects => []KnownExact
<1>1. InitActiveObjects => KnownExact
  BY DEF InitActiveObjects, KnownExact, Nothing
<1>2. QED
  BY <1>1, TypeCorrect, KnownStep, PTL DEF SpecActiveObjects
-----------------------------------------------------------------------------
(* One holder or one copy, and the two ways from one to the other. *)

\* Some of those that hold an entity are given up, and it is stored where they were.
LEMMA SingleMoves ==
    ASSUME NEW H, NEW st \in [MapBlocks -> Nat], NEW there, Single(H, st, there),
           NEW F \in SUBSET H, NEW place \in [F -> MapBlocks], NEW st2 \in [MapBlocks -> Nat],
           \A b \in MapBlocks : st2[b] = st[b] + Cardinality({id \in F : place[id] = b})
    PROVE  Single(H \ F, st2, there)
<1>1. CASE F = {}
  <2>1. \A b \in MapBlocks : {id \in F : place[id] = b} = {}
    BY <1>1
  <2>2. \A b \in MapBlocks : st2[b] = st[b]
    BY <2>1, FS_EmptySet
  <2>3. H \ F = H
    BY <1>1
  <2>4. QED
    BY <2>2, <2>3 DEF Single
<1>2. CASE F # {}
  <2>1. PICK h \in F : TRUE
    BY <1>2
  <2>2. F = {h} /\ H \ F = {} /\ \A b \in MapBlocks : st[b] = 0
    BY <2>1 DEF Single
  <2>3. \A b \in MapBlocks : {id \in F : place[id] = b} = IF b = place[h] THEN {h} ELSE {}
    BY <2>2
  <2>4. \A b \in MapBlocks : st2[b] = IF b = place[h] THEN 1 ELSE 0
    <3> DEFINE At(b) == {id \in F : place[id] = b}
    <3>1. \A b \in MapBlocks : st2[b] = st[b] + Cardinality(At(b)) /\ st[b] = 0
      BY <2>2
    <3>2. \A b \in MapBlocks : At(b) = IF b = place[h] THEN {h} ELSE {}
      BY <2>3
    <3> HIDE DEF At
    <3>3. \A b \in MapBlocks : Cardinality(At(b)) = IF b = place[h] THEN 1 ELSE 0
      BY <3>2, FS_EmptySet, FS_Singleton
    <3>4. QED
      BY <3>1, <3>3
  <2>5. place[h] \in MapBlocks /\ st2[place[h]] > 0
    BY <2>1, <2>4
  <2>6. there
    BY <2>1 DEF Single
  <2>7. QED
    BY <2>2, <2>4, <2>5, <2>6 DEF Single
<1>3. QED
  BY <1>1, <1>2

\* The blocks of B store nothing any more, and as many objects have come instead.
Opens(st, B, ids, f, st2) ==
    /\ st \in [MapBlocks -> Nat] /\ st2 \in [MapBlocks -> Nat]
    /\ B \subseteq MapBlocks /\ ids \subseteq SaoIds /\ f \in [ids -> B]
    /\ \A b \in B : CountIn(f, b) = st[b]
    /\ \A b \in MapBlocks : st2[b] = IF b \in B THEN 0 ELSE st[b]

\* What some blocks store is given up, and held as often as it was stored.
LEMMA SingleActivates ==
    ASSUME NEW H, NEW st, NEW there, Single(H, st, there),
           NEW B, NEW ids, NEW f, NEW st2, Opens(st, B, ids, f, st2)
    PROVE  Single(H \cup ids, st2, there)
<1> USE DEF Opens
<1> DEFINE At(b) == {id \in ids : f[id] = b}
<1>1. \A b : IsFiniteSet(At(b)) /\ CountIn(f, b) = Cardinality(At(b))
  BY IdsFinite DEF CountIn
<1>2. CASE ids = {}
  <2>1. \A b \in B : st[b] = 0
    <3>1. \A b \in B : At(b) = {}
      BY <1>2
    <3>2. \A b \in B : st[b] = Cardinality(At(b))
      BY <1>1
    <3> HIDE DEF At
    <3>3. QED
      BY <3>1, <3>2, FS_EmptySet
  <2>2. \A b \in MapBlocks : st2[b] = st[b]
    BY <2>1
  <2>3. H \cup ids = H
    BY <1>2
  <2>4. QED
    BY <2>2, <2>3 DEF Single
<1>3. CASE ids # {}
  <2>1. PICK h \in ids : TRUE
    BY <1>3
  <2>2. \A j \in ids : f[j] \in B /\ st[f[j]] > 0
    <3> SUFFICES ASSUME NEW j \in ids PROVE f[j] \in B /\ st[f[j]] > 0
      OBVIOUS
    <3>1. f[j] \in B /\ j \in At(f[j])
      OBVIOUS
    <3>2. Cardinality(At(f[j])) # 0
      <4> HIDE DEF At
      <4>1. At(f[j]) # {} /\ IsFiniteSet(At(f[j]))
        BY <1>1, <3>1
      <4>2. QED
        BY <4>1, FS_EmptySet
    <3>3. Cardinality(At(f[j])) = st[f[j]]
      BY <1>1, <3>1
    <3>4. QED
      BY <3>1, <3>2, <3>3
  <2>3. H = {} /\ there
    BY <2>1, <2>2 DEF Single
  <2>4. \A j \in ids : f[j] = f[h]
    BY <2>1, <2>2 DEF Single
  <2>5. Cardinality(At(f[h])) = 1
    <3>1. st[f[h]] <= 1 /\ st[f[h]] > 0 /\ st[f[h]] \in Nat
      BY <2>1, <2>2 DEF Single
    <3>2. QED
      BY <1>1, <2>1, <2>2, <3>1
  <2>6. PICK x : At(f[h]) = {x}
    <3> HIDE DEF At
    <3>1. IsFiniteSet(At(f[h]))
      BY <1>1
    <3>2. QED
      BY <2>5, <3>1, FS_Singleton
  <2>7. \A i, j \in ids : i = j
    <3>1. \A i \in ids : i \in At(f[h])
      BY <2>4
    <3>2. QED
      BY <2>6, <3>1
  <2>8. \A b \in MapBlocks : st2[b] = 0
    BY <2>1, <2>2 DEF Single
  <2>9. QED
    BY <2>1, <2>3, <2>7, <2>8 DEF Single
<1>4. QED
  BY <1>2, <1>3

\* A block written is what it stored, and once more what it keeps.
LEMMA CountSplit ==
    ASSUME NEW S \in SUBSET SaoIds, NEW T \in SUBSET SaoIds, S \cap T = {}
    PROVE  Cardinality(S \cup T) = Cardinality(S) + Cardinality(T)
<1>1. IsFiniteSet(S) /\ IsFiniteSet(T) /\ Cardinality(S) \in Nat /\ Cardinality(T) \in Nat
  BY IdsFinite
<1>2. Cardinality(S \cup T) = Cardinality(S) + Cardinality(T) - Cardinality({})
  BY <1>1, FS_Union
<1>3. QED
  BY <1>1, <1>2, FS_EmptySet

\* What the blocks store of an entity is counted in natural numbers.
LEMMA StoresType ==
    ASSUME NEW mem, MemoryOK(mem), NEW db, DatabaseOK(db), NEW e \in Entities
    PROVE  Stores(mem, db, e) \in [MapBlocks -> Nat]
BY DEF MemoryOK, DatabaseOK, Stores, Em, Block, Copies
-----------------------------------------------------------------------------
(* deactivateFarObjects *)

\* What it makes of a block, whether it touches it or not.
LEMMA MemoryOf ==
    ASSUME Consistent(objects, blocks, database), NEW active, NEW quiet,
           NEW b \in DOMAIN Memory(active, quiet)
    PROVE  LET x == Em(blocks, database, b)
               moved == Resaved(active) \cup Far(active)
               old == {id \in moved : objects[id].static = b}
               new == {id \in moved : objects[id].pos = b}
               y == Memory(active, quiet)[b]
           IN  /\ DOMAIN y.active = (DOMAIN x.active \ old) \cup (new \ Freed(active))
               /\ \A id \in DOMAIN y.active :
                     y.active[id] = IF id \in new \ Freed(active) THEN objects[id].thing
                                    ELSE x.active[id]
               /\ \A e \in Entities : y.stored[e] = x.stored[e]
                     + Cardinality({id \in new \cap Freed(active) : objects[id].thing = e})
               /\ ~ y.modified => ~ x.modified /\ old \cup new \subseteq quiet
               /\ b \in MapBlocks /\ x \in Block /\ y \in Block
<1> DEFINE x == Em(blocks, database, b)
           moved == Resaved(active) \cup Far(active)
           old == {id \in moved : objects[id].static = b}
           new == {id \in moved : objects[id].pos = b}
           y == Memory(active, quiet)[b]
<1>1. b \in MapBlocks /\ x \in Block /\ x = Emerged(b)
  BY EmergedType, TouchedAre DEF Memory, Consistent, MemoryOK
<1>2. y \in Block
  BY MemoryType DEF Consistent, MemoryOK
<1>3. CASE b \in Touched(active)
  <2>1. y = [active |-> Rewritten(x.active, old, new \ Freed(active)),
             stored |-> PlusStored(x.stored, new \cap Freed(active)),
             modified |-> x.modified \/ (old \cup new) \ quiet # {}]
    BY <1>1, <1>3 DEF Memory, Deactivated, Outdated
  <2> HIDE DEF x, y, old, new
  <2>2. /\ y.active = Rewritten(x.active, old, new \ Freed(active))
        /\ y.stored = PlusStored(x.stored, new \cap Freed(active))
        /\ y.modified = (x.modified \/ (old \cup new) \ quiet # {})
    BY <2>1
  <2>3. /\ DOMAIN y.active = (DOMAIN x.active \ old) \cup (new \ Freed(active))
        /\ \A id \in DOMAIN y.active :
              y.active[id] = IF id \in new \ Freed(active) THEN objects[id].thing
                             ELSE x.active[id]
    BY <2>2 DEF Rewritten
  <2>4. \A e \in Entities : y.stored[e] = x.stored[e]
                     + Cardinality({id \in new \cap Freed(active) : objects[id].thing = e})
    BY <2>2 DEF PlusStored
  <2>5. ~ y.modified => ~ x.modified /\ old \cup new \subseteq quiet
    BY <2>2
  <2>6. QED
    BY <1>1, <1>2, <2>3, <2>4, <2>5 DEF x, y, old, new
<1>4. CASE b \notin Touched(active)
  <2>1. old = {} /\ new = {} /\ y = x
    BY <1>1, <1>4, ActiveObjectsAssumption DEF Touched, Memory, Em
  <2>2. \A e : {id \in new \cap Freed(active) : objects[id].thing = e} = {}
    BY <2>1
  <2>3. \A e \in Entities : x.stored[e] \in Nat
    BY <1>1 DEF Block, Copies
  <2> HIDE DEF x, y, old, new
  <2>4. \A e \in Entities : y.stored[e] = x.stored[e]
                     + Cardinality({id \in new \cap Freed(active) : objects[id].thing = e})
    BY <2>1, <2>2, <2>3, FS_EmptySet
  <2>5. /\ DOMAIN y.active = (DOMAIN x.active \ old) \cup (new \ Freed(active))
        /\ \A id \in DOMAIN y.active :
              y.active[id] = IF id \in new \ Freed(active) THEN objects[id].thing
                             ELSE x.active[id]
        /\ ~ y.modified => ~ x.modified /\ old \cup new \subseteq quiet
    BY <2>1
  <2>6. QED
    BY <1>1, <1>2, <2>4, <2>5 DEF x, y, old, new
<1>5. QED
  BY <1>3, <1>4

Leaving(active) == Resaved(active) \cup Far(active)

\* What becomes of an object that is not deleted.
LEMMA RemainingOf ==
    ASSUME ObjectsOK(objects), NEW active, NEW id \in DOMAIN Remaining(active)
    PROVE  LET o == objects[id]
               r == Remaining(active)[id]
           IN  /\ id \in DOMAIN objects /\ id \notin Freed(active) /\ o \in Object
               /\ r.thing = o.thing /\ r.pos = o.pos
               /\ r.pending = IF id \in Far(active) THEN "deactivation" ELSE o.pending
               /\ r.static = IF id \in Leaving(active) THEN o.pos ELSE o.static
<1>1. id \in DOMAIN objects /\ id \notin Freed(active) /\ objects[id] \in Object
  BY DEF Remaining, ObjectsOK
<1>2. QED
  BY <1>1 DEF Remaining, Object, Leaving

\* Objects that move are alive, in a block of the map, and have static data.
LEMMA LeavingKept ==
    ASSUME ObjectsOK(objects), Anchored(objects, blocks), NEW active, NEW id \in Leaving(active)
    PROVE  /\ id \in DOMAIN objects /\ objects[id].pending = "no"
           /\ objects[id].pos \in MapBlocks /\ objects[id].pos # NoBlock
           /\ objects[id].pos \in Touched(active)
           /\ objects[id].static # NoBlock /\ objects[id].static \in Touched(active)
           /\ Kept(objects, blocks, id)
<1>1. id \in DOMAIN objects /\ objects[id].pending = "no" /\ objects[id] \in Object
  BY DEF Leaving, Resaved, Far, Live, IsGone, ObjectsOK, Object
<1>2. objects[id].static # NoBlock /\ Kept(objects, blocks, id)
  BY <1>1 DEF Anchored
<1>3. QED
  BY <1>1, <1>2, ActiveObjectsAssumption DEF Touched, Leaving, Object

\* A deactivated object keeps static data after as before, elsewhere perhaps.
LEMMA DeactivateKeeps ==
    ASSUME Consistent(objects, blocks, database), NEW active, NEW quiet,
           NEW id \in DOMAIN Remaining(active)
    PROVE  Kept(Remaining(active), Memory(active, quiet), id) <=> Kept(objects, blocks, id)
<1> DEFINE o == objects[id]
           r == Remaining(active)[id]
           m == Memory(active, quiet)
<1>1. /\ id \in DOMAIN objects /\ id \notin Freed(active) /\ o \in Object
      /\ r.static = IF id \in Leaving(active) THEN o.pos ELSE o.static
  BY RemainingOf DEF Consistent
<1>2. CASE id \in Leaving(active)
  <2>1. /\ o.pos \in Touched(active) /\ Kept(objects, blocks, id)
    BY <1>2, LeavingKept DEF Consistent
  <2>2. o.pos \in DOMAIN m
    BY <2>1 DEF Memory
  <2>3. id \in DOMAIN m[o.pos].active
    BY <1>1, <1>2, <2>2, MemoryOf DEF Leaving
  <2>4. QED
    BY <1>1, <1>2, <2>1, <2>2, <2>3 DEF Kept
<1>3. CASE id \notin Leaving(active)
  <2>1. r.static = o.static
    BY <1>1, <1>3
  <2>2. CASE o.static \in DOMAIN m
    <3>1. id \in DOMAIN m[o.static].active <=> id \in DOMAIN Em(blocks, database, o.static).active
      BY <1>1, <1>3, <2>2, MemoryOf DEF Leaving
    <3>2. id \in DOMAIN Em(blocks, database, o.static).active <=> Kept(objects, blocks, id)
      BY DEF Em, Kept, Nothing
    <3>3. QED
      BY <2>1, <2>2, <3>1, <3>2 DEF Kept
  <2>3. CASE o.static \notin DOMAIN m
    BY <2>1, <2>3 DEF Kept, Memory
  <2>4. QED
    BY <2>2, <2>3
<1>4. QED
  BY <1>2, <1>3

\* deactivateFarObjects keeps each part of Consistent, and Singles.
LEMMA DeactivateEntries ==
    ASSUME Consistent(objects, blocks, database), NEW active, NEW quiet
    PROVE  Entries(Remaining(active), Memory(active, quiet))
<1> DEFINE m == Memory(active, quiet)
<1> SUFFICES ASSUME NEW b \in DOMAIN m, NEW id \in DOMAIN m[b].active
             PROVE  /\ id \in DOMAIN Remaining(active)
                    /\ Remaining(active)[id].static = b
                    /\ m[b].active[id] = Remaining(active)[id].thing
  BY DEF Entries
<1> DEFINE new == {i \in Leaving(active) : objects[i].pos = b}
           old == {i \in Leaving(active) : objects[i].static = b}
           x == Em(blocks, database, b)
<1>1. /\ DOMAIN m[b].active = (DOMAIN x.active \ old) \cup (new \ Freed(active))
      /\ m[b].active[id] = IF id \in new \ Freed(active) THEN objects[id].thing ELSE x.active[id]
  BY MemoryOf DEF Leaving
<1>2. CASE id \in new \ Freed(active)
  <2>1. id \in DOMAIN Remaining(active)
    BY <1>2, LeavingKept DEF Remaining, Consistent
  <2>2. QED
    BY <1>1, <1>2, <2>1, RemainingOf DEF Consistent
<1>3. CASE id \in DOMAIN x.active /\ id \notin old /\ id \notin new \ Freed(active)
  <2>1. id \in DOMAIN objects /\ objects[id].static = b /\ x.active[id] = objects[id].thing
    BY <1>3 DEF Consistent, Entries, Em, Nothing
  <2>2. id \notin Leaving(active) /\ id \notin Freed(active)
    BY <1>3, <2>1 DEF Leaving, Freed
  <2>3. id \in DOMAIN Remaining(active)
    BY <2>1, <2>2 DEF Remaining
  <2>4. QED
    BY <1>1, <1>3, <2>1, <2>2, <2>3, RemainingOf DEF Consistent
<1>4. QED
  BY <1>1, <1>2, <1>3

LEMMA DeactivateAnchored ==
    ASSUME Consistent(objects, blocks, database), NEW active, NEW quiet
    PROVE  Anchored(Remaining(active), Memory(active, quiet))
<1> SUFFICES ASSUME NEW id \in DOMAIN Remaining(active)
             PROVE  LET r == Remaining(active)[id]
                    IN  /\ r.static = NoBlock => r.pending = "removal"
                        /\ r.pending # "deactivation" /\ r.static # NoBlock =>
                              Kept(Remaining(active), Memory(active, quiet), id)
  BY DEF Anchored
<1> DEFINE o == objects[id]
           r == Remaining(active)[id]
<1>1. /\ id \in DOMAIN objects /\ o \in Object
      /\ r.pending = IF id \in Far(active) THEN "deactivation" ELSE o.pending
      /\ r.static = IF id \in Leaving(active) THEN o.pos ELSE o.static
  BY RemainingOf DEF Consistent
<1>2. /\ o.static = NoBlock => o.pending = "removal"
      /\ o.pending # "deactivation" /\ o.static # NoBlock => Kept(objects, blocks, id)
  BY <1>1 DEF Consistent, Anchored
<1>3. id \in Leaving(active) => o.pos # NoBlock /\ Kept(objects, blocks, id)
  BY LeavingKept DEF Consistent
<1>4. Kept(Remaining(active), Memory(active, quiet), id) <=> Kept(objects, blocks, id)
  BY DeactivateKeeps
<1>5. Far(active) \subseteq Leaving(active)
  BY DEF Leaving
<1>6. QED
  BY <1>1, <1>2, <1>3, <1>4, <1>5

\* The copies of an entity a block keeps.
Copied(active, e) == {i \in DOMAIN active : active[i] = e}

\* A block that is not modified is what the database has.
LEMMA EmWritten ==
    ASSUME NEW mem, NEW db, MemoryOK(mem), DatabaseOK(db), Saved(mem, db), NEW b \in MapBlocks,
           ~ Em(mem, db, b).modified
    PROVE  db[b] = Written(Em(mem, db, b))
<1>1. CASE b \in DOMAIN mem
  BY <1>1 DEF Em, Saved
<1>2. CASE b \notin DOMAIN mem
  <2>1. Em(mem, db, b) = [active |-> Nothing, stored |-> db[b], modified |-> FALSE]
    BY <1>2 DEF Em
  <2>2. \A e : Copied(Nothing, e) = {}
    BY DEF Copied, Nothing
  <2>3. \A e : CountIn(Nothing, e) = 0
    BY <2>2, FS_EmptySet DEF CountIn, Copied
  <2>4. db[b] \in [Entities -> Nat]
    BY DEF DatabaseOK, Copies
  <2>5. Written(Em(mem, db, b)) = [e \in Entities |-> db[b][e] + 0]
    BY <2>1, <2>3 DEF Written
  <2>6. QED
    BY <2>4, <2>5
<1>3. QED
  BY <1>1, <1>2

\* The copies are under identifiers.
LEMMA CopiedIds ==
    ASSUME NEW x \in Block, NEW e
    PROVE  Copied(x.active, e) \in SUBSET SaoIds
BY ActivesAre DEF Copied, Block

LEMMA DeactivateSaved ==
    ASSUME Consistent(objects, blocks, database), NEW active, NEW quiet,
           quiet \subseteq {id \in Far(active) : objects[id].static = objects[id].pos}
    PROVE  Saved(Memory(active, quiet), database)
<1> DEFINE m == Memory(active, quiet)
<1> SUFFICES ASSUME NEW b \in DOMAIN m, ~ m[b].modified
             PROVE  database[b] = Written(m[b])
  BY DEF Saved
<1> DEFINE new == {i \in Leaving(active) : objects[i].pos = b}
           old == {i \in Leaving(active) : objects[i].static = b}
           x == Em(blocks, database, b)
           y == m[b]
           G(e) == {id \in new \cap Freed(active) : objects[id].thing = e}
<1>1. /\ DOMAIN y.active = (DOMAIN x.active \ old) \cup (new \ Freed(active))
      /\ \A id \in DOMAIN y.active :
            y.active[id] = IF id \in new \ Freed(active) THEN objects[id].thing ELSE x.active[id]
      /\ \A e \in Entities : y.stored[e] = x.stored[e] + Cardinality(G(e))
      /\ ~ x.modified /\ old \cup new \subseteq quiet
      /\ b \in MapBlocks /\ x \in Block /\ y \in Block
  BY MemoryOf DEF Leaving
<1>2. \A id \in quiet : objects[id].static = objects[id].pos
  OBVIOUS
<1>3. \A id \in new : id \in old
  BY <1>1, <1>2
<1>4. \A id \in old : id \in new
  BY <1>1, <1>2
<1>5. \A id \in DOMAIN x.active : /\ id \in DOMAIN objects /\ objects[id].static = b
                                  /\ x.active[id] = objects[id].thing
  BY DEF Consistent, Entries, Em, Nothing
<1>6. \A id \in new : id \in DOMAIN x.active
  <2> SUFFICES ASSUME NEW id \in new PROVE id \in DOMAIN x.active
    OBVIOUS
  <2>1. Kept(objects, blocks, id) /\ objects[id].static = b
    BY <1>3, LeavingKept DEF Consistent
  <2>2. QED
    BY <2>1 DEF Kept, Em
<1> HIDE DEF new, old, x, y, m
<1>7. ASSUME NEW e \in Entities
      PROVE  y.stored[e] + CountIn(y.active, e) = x.stored[e] + CountIn(x.active, e)
  <2>1. Copied(x.active, e) = G(e) \cup Copied(y.active, e)
    <3>1. ASSUME NEW id \in Copied(x.active, e) PROVE id \in G(e) \cup Copied(y.active, e)
      BY <1>1, <1>3, <1>4, <1>5 DEF Copied
    <3>2. ASSUME NEW id \in G(e) PROVE id \in Copied(x.active, e)
      BY <1>5, <1>6 DEF Copied
    <3>3. ASSUME NEW id \in Copied(y.active, e) PROVE id \in Copied(x.active, e)
      BY <1>1, <1>5, <1>6 DEF Copied
    <3>4. QED
      BY <3>1, <3>2, <3>3
  <2>2. G(e) \cap Copied(y.active, e) = {}
    BY <1>1, <1>3 DEF Copied
  <2>3. Copied(y.active, e) \in SUBSET SaoIds /\ Copied(x.active, e) \in SUBSET SaoIds
    BY <1>1, CopiedIds
  <2>4. G(e) \in SUBSET SaoIds
    BY <2>1, <2>3
  <2> HIDE DEF G
  <2>5. CountIn(x.active, e) = Cardinality(G(e)) + CountIn(y.active, e)
    BY <2>1, <2>2, <2>3, <2>4, CountSplit DEF CountIn, Copied
  <2>6. y.stored[e] = x.stored[e] + Cardinality(G(e))
    BY <1>1
  <2>7. x.stored[e] \in Nat /\ Cardinality(G(e)) \in Nat /\ CountIn(y.active, e) \in Nat
    BY <1>1, <2>3, <2>4, IdsFinite DEF Block, Copies, CountIn, Copied
  <2>8. QED
    BY <2>5, <2>6, <2>7
<1>8. Written(y) = Written(x)
  BY <1>7 DEF Written
<1>9. database[b] = Written(x)
  BY <1>1, EmWritten DEF Consistent, x
<1>10. QED
  BY <1>8, <1>9 DEF y, m

LEMMA DeactivateConsistent ==
    ASSUME Consistent(objects, blocks, database), NEW active, NEW quiet,
           quiet \subseteq {id \in Far(active) : objects[id].static = objects[id].pos}
    PROVE  Consistent(Remaining(active), Memory(active, quiet), database)
BY RemainingType, MemoryType, DeactivateEntries, DeactivateAnchored, DeactivateSaved
   DEF Consistent

LEMMA DeactivateSingles ==
    ASSUME Consistent(objects, blocks, database), NEW active, NEW quiet, NEW there,
           Singles(objects, blocks, database, there)
    PROVE  Singles(Remaining(active), Memory(active, quiet), database, there)
<1> DEFINE m == Memory(active, quiet)
           r == Remaining(active)
<1> SUFFICES ASSUME NEW e \in Entities
             PROVE  Single(Holders(r, m, e), Stores(m, database, e), e \in there)
  BY DEF Singles
<1> DEFINE H == Holders(objects, blocks, e)
           F == {id \in Freed(active) : objects[id].thing = e}
           place == [id \in F |-> objects[id].pos]
           st == Stores(blocks, database, e)
           st2 == Stores(m, database, e)
<1>1. \A id \in Freed(active) : id \in Leaving(active)
  BY DEF Freed, Leaving
<1>2. F \in SUBSET H /\ place \in [F -> MapBlocks]
  BY <1>1, LeavingKept DEF Holders, Consistent
<1>3. Holders(r, m, e) = H \ F
  <2>1. ASSUME NEW id \in DOMAIN r PROVE id \in Holders(r, m, e) <=> id \in H
    <3>1. /\ id \in DOMAIN objects /\ r[id].thing = objects[id].thing
          /\ r[id].pending = IF id \in Far(active) THEN "deactivation" ELSE objects[id].pending
      BY RemainingOf DEF Consistent
    <3>2. id \in Far(active) => objects[id].pending = "no"
      BY LeavingKept DEF Leaving, Consistent
    <3>3. Kept(r, m, id) <=> Kept(objects, blocks, id)
      BY DeactivateKeeps
    <3>4. QED
      BY <3>1, <3>2, <3>3 DEF Holders
  <2>2. DOMAIN r = DOMAIN objects \ Freed(active)
    BY DEF Remaining
  <2>3. QED
    BY <2>1, <2>2 DEF Holders
<1>4. st \in [MapBlocks -> Nat] /\ st2 \in [MapBlocks -> Nat]
  BY StoresType, MemoryType DEF Consistent
<1>5. ASSUME NEW b \in MapBlocks
      PROVE  st2[b] = st[b] + Cardinality({id \in F : place[id] = b})
  <2> DEFINE new == {i \in Leaving(active) : objects[i].pos = b}
  <2>1. {id \in F : place[id] = b} = {id \in new \cap Freed(active) : objects[id].thing = e}
    BY <1>1
  <2>2. CASE b \in DOMAIN m
    <3>1. m[b].stored[e] = Em(blocks, database, b).stored[e]
             + Cardinality({id \in new \cap Freed(active) : objects[id].thing = e})
      BY <2>2, MemoryOf DEF Leaving
    <3>2. st2[b] = m[b].stored[e] /\ st[b] = Em(blocks, database, b).stored[e]
      BY <2>2 DEF Stores, Em
    <3>3. QED
      BY <2>1, <3>1, <3>2
  <2>3. CASE b \notin DOMAIN m
    <3>1. b \notin DOMAIN blocks /\ b \notin Touched(active)
      BY <2>3 DEF Memory
    <3>2. new = {}
      BY <3>1, LeavingKept DEF Consistent
    <3>3. {id \in F : place[id] = b} = {}
      BY <2>1, <3>2
    <3>4. st2[b] = st[b]
      BY <2>3, <3>1 DEF Stores, Em
    <3>5. st[b] \in Nat
      BY <1>4
    <3> DEFINE here == {id \in F : place[id] = b}
    <3>6. here = {}
      BY <3>3
    <3> HIDE DEF here, st, st2
    <3>7. st2[b] = st[b] + Cardinality(here)
      BY <3>4, <3>5, <3>6, FS_EmptySet
    <3>8. QED
      BY <3>7 DEF here
  <2>4. QED
    BY <2>2, <2>3
<1>6. Single(H, st, e \in there)
  BY DEF Singles
<1> HIDE DEF H, F, place, st, st2, m, r
<1>7. Single(H \ F, st2, e \in there)
  BY <1>2, <1>4, <1>5, <1>6, SingleMoves
<1>8. QED
  BY <1>3, <1>7 DEF st2
-----------------------------------------------------------------------------
(* activateBlock *)

\* What activateBlock finds and makes: objects under identifiers that were free,
\* in the blocks it activates, as many as these store.
FreshOK(objs, mem, B, f) ==
    /\ f \in [DOMAIN f -> Places] /\ DOMAIN f \subseteq SaoIds \ DOMAIN objs
    /\ B \subseteq DOMAIN mem /\ \A id \in DOMAIN f : f[id].in \in B
    /\ Activates(B, objs, mem, f)

ActivatedAs(mem, B, f, m) ==
    /\ DOMAIN m = DOMAIN mem
    /\ \A b \in DOMAIN mem :
           /\ DOMAIN m[b].active = DOMAIN mem[b].active \cup FreshIn(f, b)
           /\ \A id \in DOMAIN m[b].active :
                 m[b].active[id] = IF id \in FreshIn(f, b) THEN f[id].thing ELSE mem[b].active[id]
           /\ m[b].stored = IF b \in B THEN NoCopy ELSE mem[b].stored
           /\ ~ m[b].modified => ~ mem[b].modified
           /\ b \in MapBlocks /\ mem[b] \in Block

\* What an activation makes of each block.
LEMMA ActivatedOf ==
    ASSUME NEW objs, NEW mem, MemoryOK(mem), NEW B, NEW f, FreshOK(objs, mem, B, f), NEW left
    PROVE  ActivatedAs(mem, B, f, Activated(mem, B, f, left))
<1> DEFINE m == Activated(mem, B, f, left)
<1>0. DOMAIN m = DOMAIN mem
  BY DEF Activated
<1> SUFFICES ASSUME NEW b \in DOMAIN mem
             PROVE  /\ DOMAIN m[b].active = DOMAIN mem[b].active \cup FreshIn(f, b)
                    /\ \A id \in DOMAIN m[b].active :
                          m[b].active[id] = IF id \in FreshIn(f, b) THEN f[id].thing
                                            ELSE mem[b].active[id]
                    /\ m[b].stored = IF b \in B THEN NoCopy ELSE mem[b].stored
                    /\ ~ m[b].modified => ~ mem[b].modified
                    /\ b \in MapBlocks /\ mem[b] \in Block
  BY <1>0 DEF ActivatedAs
<1>1. b \in MapBlocks /\ mem[b] \in Block
  BY DEF MemoryOK
<1>2. CASE b \in B
  <2>1. Activated(mem, B, f, left)[b] =
            [mem[b] EXCEPT !.stored = NoCopy,
                !.active = [id \in DOMAIN @ \cup FreshIn(f, b) |->
                              IF id \in FreshIn(f, b) THEN f[id].thing ELSE @[id]]]
    BY <1>2 DEF Activated
  <2>2. QED
    BY <1>1, <1>2, <2>1 DEF Block
<1>3. CASE b \notin B
  <2>1. FreshIn(f, b) = {}
    BY <1>3 DEF FreshIn, FreshOK
  <2>2. Activated(mem, B, f, left)[b] = [mem[b] EXCEPT !.modified = @ \/ b \in left]
    BY <1>3 DEF Activated
  <2>3. QED
    BY <1>1, <1>3, <2>1, <2>2 DEF Block
<1>4. QED
  BY <1>2, <1>3

\* It takes no static data from an object, and gives some to each new one.
LEMMA ActivateKeeps ==
    ASSUME NEW objs, NEW mem, MemoryOK(mem), NEW B, NEW f, FreshOK(objs, mem, B, f), NEW left,
           NEW id \in DOMAIN WithFresh(objs, f)
    PROVE  Kept(WithFresh(objs, f), Activated(mem, B, f, left), id)
               <=> id \in DOMAIN f \/ Kept(objs, mem, id)
<1> DEFINE r == WithFresh(objs, f)
           m == Activated(mem, B, f, left)
<1>1. ActivatedAs(mem, B, f, m)
  BY ActivatedOf
<1> SUFFICES Kept(r, m, id) <=> id \in DOMAIN f \/ Kept(objs, mem, id)
  OBVIOUS
<1> HIDE DEF m
<1>2. CASE id \in DOMAIN f
  <2>1. r[id].static = f[id].in /\ f[id].in \in DOMAIN mem /\ id \in FreshIn(f, f[id].in)
    BY <1>2 DEF WithFresh, Fresh, FreshOK, FreshIn
  <2>2. id \in DOMAIN m[f[id].in].active /\ f[id].in \in DOMAIN m
    BY <1>1, <2>1 DEF ActivatedAs
  <2>3. QED
    BY <1>2, <2>1, <2>2 DEF Kept
<1>3. CASE id \notin DOMAIN f
  <2>1. id \in DOMAIN objs /\ r[id] = objs[id]
    BY <1>3 DEF WithFresh
  <2>2. objs[id].static \in DOMAIN mem =>
           (id \in DOMAIN m[objs[id].static].active <=> id \in DOMAIN mem[objs[id].static].active)
    BY <1>1, <1>3 DEF ActivatedAs, FreshIn
  <2>3. QED
    BY <1>1, <1>3, <2>1, <2>2 DEF Kept, ActivatedAs
<1>4. QED
  BY <1>2, <1>3

\* What it turns into objects is still written as it was stored, so that a block
\* that was not modified need not be.
LEMMA ActivateSaved ==
    ASSUME NEW objs, NEW mem, NEW db, Consistent(objs, mem, db),
           NEW B, NEW f, FreshOK(objs, mem, B, f), NEW left
    PROVE  Saved(Activated(mem, B, f, left), db)
<1> DEFINE m == Activated(mem, B, f, left)
<1> SUFFICES ASSUME NEW b \in DOMAIN m, ~ m[b].modified
             PROVE  db[b] = Written(m[b])
  BY DEF Saved
<1> DEFINE x == mem[b]
           y == m[b]
           G(e) == {id \in DOMAIN f : f[id] = [thing |-> e, in |-> b]}
<1>1. b \in DOMAIN mem
  BY DEF Activated
<1>2. /\ DOMAIN y.active = DOMAIN x.active \cup FreshIn(f, b)
      /\ \A id \in DOMAIN y.active :
            y.active[id] = IF id \in FreshIn(f, b) THEN f[id].thing ELSE x.active[id]
      /\ y.stored = IF b \in B THEN NoCopy ELSE x.stored
      /\ ~ x.modified
      /\ b \in MapBlocks /\ x \in Block /\ y \in Block
  <2>1. MemoryOK(mem) /\ MemoryOK(m)
    BY ActivatedType DEF Consistent, FreshOK
  <2>2. ActivatedAs(mem, B, f, m)
    BY <2>1, ActivatedOf
  <2> HIDE DEF m
  <2>3. QED
    BY <1>1, <2>1, <2>2 DEF MemoryOK, ActivatedAs
<1>3. FreshIn(f, b) \cap DOMAIN x.active = {}
  BY <1>1 DEF Consistent, Entries, FreshIn, FreshOK
<1>4. \A id \in DOMAIN f : f[id] \in Places
  BY DEF FreshOK
<1>5. \A e \in Entities : CountIn(f, [thing |-> e, in |-> b]) = IF b \in B THEN x.stored[e] ELSE 0
  <2>1. CASE b \in B
    BY <2>1 DEF FreshOK, Activates
  <2>2. CASE b \notin B
    <3>1. \A e \in Entities : G(e) = {}
      BY <2>2 DEF FreshOK
    <3>2. \A e : CountIn(f, [thing |-> e, in |-> b]) = Cardinality(G(e))
      BY DEF CountIn
    <3> HIDE DEF G
    <3>3. QED
      BY <2>2, <3>1, <3>2, FS_EmptySet
  <2>3. QED
    BY <2>1, <2>2
<1>6. \A e : CountIn(f, [thing |-> e, in |-> b]) = Cardinality(G(e))
  BY DEF CountIn
<1>7. ASSUME NEW e \in Entities
      PROVE  y.stored[e] + CountIn(y.active, e) = x.stored[e] + CountIn(x.active, e)
  <2>1. \A id \in DOMAIN f : id \in G(e) <=> id \in FreshIn(f, b) /\ f[id].thing = e
    BY <1>4 DEF FreshIn, Places
  <2>2. Copied(y.active, e) = Copied(x.active, e) \cup G(e)
    <3>1. ASSUME NEW id \in Copied(y.active, e) PROVE id \in Copied(x.active, e) \cup G(e)
      BY <1>2, <2>1 DEF Copied, FreshIn
    <3>2. ASSUME NEW id \in Copied(x.active, e) PROVE id \in Copied(y.active, e)
      BY <1>2, <1>3 DEF Copied
    <3>3. ASSUME NEW id \in G(e) PROVE id \in Copied(y.active, e)
      BY <1>2, <2>1 DEF Copied
    <3>4. QED
      BY <3>1, <3>2, <3>3
  <2>3. Copied(x.active, e) \cap G(e) = {}
    BY <1>3, <2>1 DEF Copied
  <2>4. Copied(y.active, e) \in SUBSET SaoIds /\ Copied(x.active, e) \in SUBSET SaoIds
    BY <1>2, CopiedIds
  <2>5. G(e) \in SUBSET SaoIds /\ Cardinality(G(e)) = IF b \in B THEN x.stored[e] ELSE 0
    BY <1>5, <1>6, <2>2, <2>4
  <2> HIDE DEF G, x, y, m
  <2>6. CountIn(y.active, e) = CountIn(x.active, e) + Cardinality(G(e))
    BY <2>2, <2>3, <2>4, <2>5, CountSplit DEF CountIn, Copied
  <2>7. x.stored[e] \in Nat /\ CountIn(x.active, e) \in Nat
    BY <1>2, <2>4, IdsFinite DEF Block, Copies, CountIn, Copied
  <2>8. y.stored[e] = IF b \in B THEN 0 ELSE x.stored[e]
    BY <1>2 DEF NoCopy
  <2>9. QED
    BY <2>5, <2>6, <2>7, <2>8
<1>8. Written(y) = Written(x)
  <2> HIDE DEF x, y
  <2>1. QED
    BY <1>7 DEF Written
<1>9. QED
  BY <1>1, <1>2, <1>8 DEF Consistent, Saved

\* An activation keeps Consistent.
LEMMA ActivateConsistent ==
    ASSUME NEW objs, NEW mem, NEW db, Consistent(objs, mem, db),
           NEW B, NEW f, FreshOK(objs, mem, B, f), NEW left
    PROVE  Consistent(WithFresh(objs, f), Activated(mem, B, f, left), db)
<1> DEFINE r == WithFresh(objs, f)
           m == Activated(mem, B, f, left)
<1>1. ObjectsOK(r) /\ MemoryOK(m)
  BY WithFreshType, ActivatedType DEF Consistent, FreshOK
<1>0. ActivatedAs(mem, B, f, m)
  BY ActivatedOf DEF Consistent
<1>2. Entries(r, m)
  <2> SUFFICES ASSUME NEW b \in DOMAIN m, NEW id \in DOMAIN m[b].active
               PROVE  id \in DOMAIN r /\ r[id].static = b /\ m[b].active[id] = r[id].thing
    BY DEF Entries
  <2>1. b \in DOMAIN mem
    BY DEF Activated
  <2>2. /\ DOMAIN m[b].active = DOMAIN mem[b].active \cup FreshIn(f, b)
        /\ m[b].active[id] = IF id \in FreshIn(f, b) THEN f[id].thing ELSE mem[b].active[id]
    BY <1>0, <2>1 DEF ActivatedAs
  <2>3. CASE id \in FreshIn(f, b)
    BY <2>2, <2>3 DEF FreshIn, FreshOK, WithFresh, Fresh
  <2>4. CASE id \notin FreshIn(f, b)
    <3>1. id \in DOMAIN objs /\ objs[id].static = b /\ mem[b].active[id] = objs[id].thing
      BY <2>1, <2>2, <2>4 DEF Consistent, Entries
    <3>2. QED
      BY <2>2, <2>4, <3>1 DEF WithFresh
  <2>5. QED
    BY <2>3, <2>4
<1>3. Anchored(r, m)
  <2> SUFFICES ASSUME NEW id \in DOMAIN r
               PROVE  /\ r[id].static = NoBlock => r[id].pending = "removal"
                      /\ r[id].pending # "deactivation" /\ r[id].static # NoBlock => Kept(r, m, id)
    BY DEF Anchored
  <2>1. Kept(r, m, id) <=> id \in DOMAIN f \/ Kept(objs, mem, id)
    BY ActivateKeeps DEF Consistent
  <2>2. CASE id \in DOMAIN objs
    BY <2>1, <2>2 DEF Consistent, Anchored, WithFresh
  <2>3. CASE id \notin DOMAIN objs
    <3>1. id \in DOMAIN f /\ r[id].static = f[id].in /\ f[id].in \in MapBlocks
      BY <2>3 DEF WithFresh, Fresh, FreshOK, Places
    <3>2. QED
      BY <2>1, <3>1, ActiveObjectsAssumption
  <2>4. QED
    BY <2>2, <2>3
<1>4. Saved(m, db)
  BY ActivateSaved
<1>5. QED
  BY <1>1, <1>2, <1>3, <1>4 DEF Consistent

\* An activation keeps Singles.
LEMMA ActivateSingles ==
    ASSUME NEW objs, NEW mem, NEW db, Consistent(objs, mem, db), NEW there,
           Singles(objs, mem, db, there),
           NEW B, NEW f, FreshOK(objs, mem, B, f), NEW left
    PROVE  Singles(WithFresh(objs, f), Activated(mem, B, f, left), db, there)
<1> DEFINE r == WithFresh(objs, f)
           m == Activated(mem, B, f, left)
<1> SUFFICES ASSUME NEW e \in Entities
             PROVE  Single(Holders(r, m, e), Stores(m, db, e), e \in there)
  BY DEF Singles
<1> DEFINE H == Holders(objs, mem, e)
           ids == {id \in DOMAIN f : f[id].thing = e}
           place == [id \in ids |-> f[id].in]
           st == Stores(mem, db, e)
           st2 == Stores(m, db, e)
<1>0. ActivatedAs(mem, B, f, m)
  BY ActivatedOf DEF Consistent
<1>1. \A id \in DOMAIN f : f[id] \in Places /\ f[id].in \in B /\ id \notin DOMAIN objs
  BY DEF FreshOK
<1>2. B \in SUBSET MapBlocks /\ ids \in SUBSET SaoIds /\ place \in [ids -> B]
  BY DEF FreshOK, Consistent, MemoryOK
<1>3. Holders(r, m, e) = H \cup ids
  <2>1. ASSUME NEW id \in DOMAIN r PROVE id \in Holders(r, m, e) <=> id \in H \cup ids
    <3>1. Kept(r, m, id) <=> id \in DOMAIN f \/ Kept(objs, mem, id)
      BY ActivateKeeps DEF Consistent
    <3>2. CASE id \in DOMAIN objs
      BY <1>1, <3>1, <3>2 DEF Holders, WithFresh
    <3>3. CASE id \notin DOMAIN objs
      BY <1>1, <3>1, <3>3 DEF Holders, WithFresh, Fresh
    <3>4. QED
      BY <3>2, <3>3
  <2>2. DOMAIN r = DOMAIN objs \cup DOMAIN f
    BY DEF WithFresh
  <2>3. QED
    BY <2>1, <2>2 DEF Holders
<1>4. st \in [MapBlocks -> Nat] /\ st2 \in [MapBlocks -> Nat]
  <2>1. MemoryOK(mem) /\ MemoryOK(m) /\ DatabaseOK(db)
    BY ActivatedType DEF Consistent, FreshOK
  <2>2. QED
    BY <2>1, StoresType
<1>5. ASSUME NEW b \in B PROVE CountIn(place, b) = st[b]
  <2>1. {id \in ids : place[id] = b} = {id \in DOMAIN f : f[id] = [thing |-> e, in |-> b]}
    BY <1>1 DEF Places
  <2>2. CountIn(f, [thing |-> e, in |-> b]) = mem[b].stored[e]
    BY DEF FreshOK, Activates
  <2>3. st[b] = mem[b].stored[e]
    BY <1>2 DEF Stores, Em, FreshOK
  <2>4. QED
    BY <2>1, <2>2, <2>3 DEF CountIn
<1>6. ASSUME NEW b \in MapBlocks PROVE st2[b] = IF b \in B THEN 0 ELSE st[b]
  <2>1. CASE b \in DOMAIN mem
    <3>1. m[b].stored = IF b \in B THEN NoCopy ELSE mem[b].stored
      BY <1>0, <2>1 DEF ActivatedAs
    <3>2. QED
      BY <2>1, <3>1 DEF Stores, Em, Activated, NoCopy
  <2>2. CASE b \notin DOMAIN mem
    BY <2>2 DEF Stores, Em, Activated, FreshOK
  <2>3. QED
    BY <2>1, <2>2
<1>7. Single(H, st, e \in there)
  BY DEF Singles
<1>8. Single(H \cup ids, st2, e \in there)
  <2> DEFINE known == e \in there
  <2>1. Single(H, st, known)
    BY <1>7
  <2> HIDE DEF H, ids, place, st, st2, m, r, known
  <2>2. Single(H \cup ids, st2, known)
    <3>1. Opens(st, B, ids, place, st2)
      BY <1>2, <1>4, <1>5, <1>6 DEF Opens
    <3>2. QED
      BY <2>1, <3>1, SingleActivates
  <2>3. QED
    BY <2>2 DEF known
<1>9. QED
  BY <1>3, <1>8
-----------------------------------------------------------------------------
(* removeRemovedObjects *)

Undeleted ==
    [id \in {i \in DOMAIN objects : ~ Deletable(i)} |->
        IF id \in Marked THEN [objects[id] EXCEPT !.static = NoBlock] ELSE objects[id]]
CleanedMemory ==
    [b \in DOMAIN blocks \cup CleanedBlocks |->
        IF b \in CleanedBlocks THEN Cleaned(b) ELSE blocks[b]]

\* The blocks removeRemovedObjects changes are blocks of the map.
LEMMA CleanedBlocksAre ==
    ASSUME ObjectsOK(objects)
    PROVE  CleanedBlocks \subseteq MapBlocks
BY DEF CleanedBlocks, Erased, Marked, StoredIds, ObjectsOK, Object

\* The types of what it makes of them and of the objects.
LEMMA CleanTypes ==
    ASSUME ObjectsOK(objects), MemoryOK(blocks), DatabaseOK(database)
    PROVE  ObjectsOK(Undeleted) /\ MemoryOK(CleanedMemory)
<1>1. ASSUME NEW id \in DOMAIN Undeleted PROVE Undeleted[id] \in Object /\ id \in SaoIds
  BY DEF Undeleted, ObjectsOK, Object
<1>2. ASSUME NEW b \in DOMAIN CleanedMemory PROVE CleanedMemory[b] \in Block /\ b \in MapBlocks
  BY CleanedBlocksAre, CleanedType DEF CleanedMemory, MemoryOK
<1>3. QED
  BY <1>1, <1>2 DEF ObjectsOK, MemoryOK, Undeleted, CleanedMemory

\* What becomes of a block, whether an object of it is gone or not.
LEMMA CleanedMemoryOf ==
    ASSUME Consistent(objects, blocks, database), NEW b \in DOMAIN CleanedMemory
    PROVE  LET x == Em(blocks, database, b)
               y == CleanedMemory[b]
           IN  /\ DOMAIN y.active = DOMAIN x.active \ (Of(Erased, b) \cup Of(StoredIds, b))
               /\ \A id \in DOMAIN y.active : y.active[id] = x.active[id]
               /\ \A e \in Entities : y.stored[e] = x.stored[e]
                     + Cardinality({id \in MovedIn(b) : objects[id].thing = e})
               /\ ~ y.modified => ~ x.modified /\ Of(Erased, b) = {} /\ MovedIn(b) = {}
               /\ b \in MapBlocks /\ x \in Block /\ y \in Block
               /\ MovedIn(b) = Of(StoredIds, b) \cap DOMAIN x.active
<1> DEFINE x == Em(blocks, database, b)
           y == CleanedMemory[b]
<1>1. b \in MapBlocks /\ x \in Block /\ x = Emerged(b)
  BY EmergedType, CleanedBlocksAre DEF CleanedMemory, Consistent, MemoryOK
<1>2. y \in Block /\ MovedIn(b) = Of(StoredIds, b) \cap DOMAIN x.active
  BY <1>1, CleanTypes DEF Consistent, MemoryOK, MovedIn
<1>3. CASE b \in CleanedBlocks
  <2>1. y = [active |-> Rewritten(x.active, Of(Erased, b) \cup MovedIn(b), {}),
             stored |-> PlusStored(x.stored, MovedIn(b)),
             modified |-> x.modified \/ Of(Erased, b) # {} \/ MovedIn(b) # {}]
    BY <1>1, <1>3 DEF CleanedMemory, Cleaned
  <2> HIDE DEF x, y
  <2>2. /\ y.active = Rewritten(x.active, Of(Erased, b) \cup MovedIn(b), {})
        /\ y.stored = PlusStored(x.stored, MovedIn(b))
        /\ y.modified = (x.modified \/ Of(Erased, b) # {} \/ MovedIn(b) # {})
    BY <2>1
  <2>3. /\ DOMAIN y.active = DOMAIN x.active \ (Of(Erased, b) \cup MovedIn(b))
        /\ \A id \in DOMAIN y.active : y.active[id] = x.active[id]
    BY <2>2 DEF Rewritten
  <2>4. \A e \in Entities : y.stored[e] = x.stored[e]
                     + Cardinality({id \in MovedIn(b) : objects[id].thing = e})
    BY <2>2 DEF PlusStored
  <2>5. ~ y.modified => ~ x.modified /\ Of(Erased, b) = {} /\ MovedIn(b) = {}
    BY <2>2
  <2>6. DOMAIN y.active = DOMAIN x.active \ (Of(Erased, b) \cup Of(StoredIds, b))
    BY <1>2, <2>3
  <2>7. QED
    BY <1>1, <1>2, <2>3, <2>4, <2>5, <2>6 DEF x, y
<1>4. CASE b \notin CleanedBlocks
  <2>1. Of(Erased, b) = {} /\ Of(StoredIds, b) = {} /\ MovedIn(b) = {} /\ y = x
    BY <1>1, <1>4 DEF CleanedBlocks, Of, MovedIn, CleanedMemory, Em
  <2>2. \A e : {id \in MovedIn(b) : objects[id].thing = e} = {}
    BY <2>1
  <2>3. \A e \in Entities : x.stored[e] \in Nat
    BY <1>1 DEF Block, Copies
  <2> HIDE DEF x, y
  <2>4. \A e \in Entities : y.stored[e] = x.stored[e]
                     + Cardinality({id \in MovedIn(b) : objects[id].thing = e})
    BY <2>1, <2>2, <2>3, FS_EmptySet
  <2>5. QED
    BY <1>1, <1>2, <2>1, <2>4 DEF x, y
<1>5. QED
  BY <1>3, <1>4

\* What becomes of an object that is not deleted.
LEMMA UndeletedOf ==
    ASSUME ObjectsOK(objects), NEW id \in DOMAIN Undeleted
    PROVE  /\ id \in DOMAIN objects /\ id \notin StoredIds /\ objects[id] \in Object
           /\ id \in Marked => /\ Undeleted[id].static = NoBlock
                               /\ Undeleted[id].pending = "removal"
                               /\ objects[id].pending = "removal"
           /\ id \notin Marked => Undeleted[id] = objects[id]
BY DEF ObjectsOK, Undeleted, StoredIds, Marked, Object

\* An object that is not removed keeps its static data.
LEMMA CleanKeeps ==
    ASSUME Consistent(objects, blocks, database), NEW id \in DOMAIN Undeleted, id \notin Marked
    PROVE  Kept(Undeleted, CleanedMemory, id) <=> Kept(objects, blocks, id)
<1> DEFINE at == objects[id].static
<1>1. id \in DOMAIN objects /\ id \notin StoredIds /\ Undeleted[id].static = at
  BY UndeletedOf DEF Consistent
<1>2. CASE at \in DOMAIN CleanedMemory
  <2>1. id \in DOMAIN CleanedMemory[at].active <=> id \in DOMAIN Em(blocks, database, at).active
    BY <1>1, <1>2, CleanedMemoryOf DEF Of, Erased
  <2>2. id \in DOMAIN Em(blocks, database, at).active <=> Kept(objects, blocks, id)
    BY DEF Em, Kept, Nothing
  <2>3. QED
    BY <1>1, <1>2, <2>1, <2>2 DEF Kept
<1>3. CASE at \notin DOMAIN CleanedMemory
  BY <1>1, <1>3 DEF Kept, CleanedMemory
<1>4. QED
  BY <1>2, <1>3

\* removeRemovedObjects keeps each part of Consistent, and Singles.
LEMMA CleanSaved ==
    ASSUME Consistent(objects, blocks, database)
    PROVE  Saved(CleanedMemory, database)
<1> SUFFICES ASSUME NEW b \in DOMAIN CleanedMemory, ~ CleanedMemory[b].modified
             PROVE  database[b] = Written(CleanedMemory[b])
  BY DEF Saved
<1> DEFINE x == Em(blocks, database, b)
           y == CleanedMemory[b]
<1>1. /\ DOMAIN y.active = DOMAIN x.active /\ \A id \in DOMAIN y.active : y.active[id] = x.active[id]
      /\ \A e \in Entities : y.stored[e] = x.stored[e]
                     + Cardinality({id \in MovedIn(b) : objects[id].thing = e})
      /\ ~ x.modified /\ MovedIn(b) = {} /\ b \in MapBlocks /\ x \in Block /\ y \in Block
  BY CleanedMemoryOf
<1>2. database[b] = Written(x)
  BY <1>1, EmWritten DEF Consistent
<1> HIDE DEF x, y
<1>3. y.active = x.active
  <2>1. y.active \in [DOMAIN y.active -> Entities] /\ x.active \in [DOMAIN x.active -> Entities]
    BY <1>1, ActivesAre DEF Block
  <2>2. QED
    BY <1>1, <2>1
<1>4. ASSUME NEW e \in Entities PROVE y.stored[e] = x.stored[e]
  <2>1. {id \in MovedIn(b) : objects[id].thing = e} = {}
    BY <1>1
  <2>2. x.stored[e] \in Nat
    BY <1>1 DEF Block, Copies
  <2>3. QED
    BY <1>1, <2>1, <2>2, FS_EmptySet
<1>5. Written(y) = Written(x)
  BY <1>3, <1>4 DEF Written
<1>6. QED
  BY <1>2, <1>5 DEF y

LEMMA CleanConsistent ==
    ASSUME Consistent(objects, blocks, database)
    PROVE  Consistent(Undeleted, CleanedMemory, database)
<1>1. ObjectsOK(Undeleted) /\ MemoryOK(CleanedMemory) /\ DatabaseOK(database)
  BY CleanTypes DEF Consistent
<1>2. Entries(Undeleted, CleanedMemory)
  <2> SUFFICES ASSUME NEW b \in DOMAIN CleanedMemory, NEW id \in DOMAIN CleanedMemory[b].active
               PROVE  /\ id \in DOMAIN Undeleted /\ Undeleted[id].static = b
                      /\ CleanedMemory[b].active[id] = Undeleted[id].thing
    BY DEF Entries
  <2> DEFINE x == Em(blocks, database, b)
  <2>1. /\ id \in DOMAIN x.active /\ id \notin Of(Erased, b) /\ id \notin Of(StoredIds, b)
        /\ CleanedMemory[b].active[id] = x.active[id] /\ b \in MapBlocks
    BY CleanedMemoryOf
  <2>2. id \in DOMAIN objects /\ objects[id].static = b /\ x.active[id] = objects[id].thing
    BY <2>1 DEF Consistent, Entries, Em, Nothing
  <2>3. id \notin Marked /\ ~ Deletable(id)
    BY <2>1, <2>2, ActiveObjectsAssumption DEF Of, Erased, StoredIds
  <2>4. id \in DOMAIN Undeleted /\ Undeleted[id] = objects[id]
    BY <2>2, <2>3 DEF Undeleted
  <2>5. QED
    BY <2>1, <2>2, <2>4
<1>3. Anchored(Undeleted, CleanedMemory)
  <2> SUFFICES ASSUME NEW id \in DOMAIN Undeleted
               PROVE  LET o == Undeleted[id]
                      IN  /\ o.static = NoBlock => o.pending = "removal"
                          /\ o.pending # "deactivation" /\ o.static # NoBlock =>
                                Kept(Undeleted, CleanedMemory, id)
    BY DEF Anchored
  <2>1. CASE id \in Marked
    BY <2>1, UndeletedOf DEF Consistent
  <2>2. CASE id \notin Marked
    <3>1. id \in DOMAIN objects /\ Undeleted[id] = objects[id]
      BY <2>2, UndeletedOf DEF Consistent
    <3>2. Kept(Undeleted, CleanedMemory, id) <=> Kept(objects, blocks, id)
      BY <2>2, CleanKeeps
    <3>3. QED
      BY <3>1, <3>2 DEF Consistent, Anchored
  <2>3. QED
    BY <2>1, <2>2
<1>4. Saved(CleanedMemory, database)
  BY CleanSaved
<1>5. QED
  BY <1>1, <1>2, <1>3, <1>4 DEF Consistent

LEMMA CleanSingles ==
    ASSUME Consistent(objects, blocks, database), NEW there,
           Singles(objects, blocks, database, there)
    PROVE  Singles(Undeleted, CleanedMemory, database, there)
<1> SUFFICES ASSUME NEW e \in Entities
             PROVE  Single(Holders(Undeleted, CleanedMemory, e),
                           Stores(CleanedMemory, database, e), e \in there)
  BY DEF Singles
<1> DEFINE H == Holders(objects, blocks, e)
           F == {id \in StoredIds : objects[id].thing = e /\ Kept(objects, blocks, id)}
           place == [id \in F |-> objects[id].static]
           st == Stores(blocks, database, e)
           st2 == Stores(CleanedMemory, database, e)
<1>1. \A id \in DOMAIN blocks : id \in MapBlocks
  BY DEF Consistent, MemoryOK
<1>2. F \in SUBSET H /\ place \in [F -> MapBlocks]
  BY <1>1 DEF Holders, StoredIds, Marked, Kept
<1>3. Holders(Undeleted, CleanedMemory, e) = H \ F
  <2>1. ASSUME NEW id \in DOMAIN Undeleted
        PROVE  id \in Holders(Undeleted, CleanedMemory, e) <=> id \in H \ F
    <3>1. id \in DOMAIN objects /\ id \notin StoredIds
      BY UndeletedOf DEF Consistent
    <3>2. CASE id \in Marked
      BY <3>2, UndeletedOf DEF Consistent, Holders
    <3>3. CASE id \notin Marked
      <4>1. Undeleted[id] = objects[id]
        BY <3>3, UndeletedOf DEF Consistent
      <4>2. Kept(Undeleted, CleanedMemory, id) <=> Kept(objects, blocks, id)
        BY <3>3, CleanKeeps
      <4>3. QED
        BY <3>1, <4>1, <4>2 DEF Holders
    <3>4. QED
      BY <3>2, <3>3
  <2>2. ASSUME NEW id \in H \ F PROVE id \in DOMAIN Undeleted
    <3>1. /\ id \in DOMAIN objects /\ id \notin Marked /\ Kept(objects, blocks, id)
          /\ objects[id].thing = e
      BY DEF Holders, Marked
    <3>2. objects[id].static # NoBlock
      BY <1>1, <3>1, ActiveObjectsAssumption DEF Kept
    <3>3. id \notin StoredIds
      BY <3>1
    <3>4. QED
      BY <3>1, <3>2, <3>3 DEF StoredIds, Undeleted
  <2>3. QED
    BY <2>1, <2>2 DEF Holders
<1>4. st \in [MapBlocks -> Nat] /\ st2 \in [MapBlocks -> Nat]
  BY StoresType, CleanTypes DEF Consistent
<1>5. ASSUME NEW b \in MapBlocks
      PROVE  st2[b] = st[b] + Cardinality({id \in F : place[id] = b})
  <2> DEFINE here == {id \in F : place[id] = b}
  <2>1. here = {id \in MovedIn(b) : objects[id].thing = e}
    BY DEF MovedIn, Of, Kept, Emerged, Nothing
  <2>2. CASE b \in DOMAIN CleanedMemory
    <3>1. CleanedMemory[b].stored[e] = Em(blocks, database, b).stored[e]
             + Cardinality({id \in MovedIn(b) : objects[id].thing = e})
      BY <2>2, CleanedMemoryOf
    <3>2. st2[b] = CleanedMemory[b].stored[e] /\ st[b] = Em(blocks, database, b).stored[e]
      BY <2>2 DEF Stores, Em
    <3>3. QED
      BY <2>1, <3>1, <3>2
  <2>3. CASE b \notin DOMAIN CleanedMemory
    <3>1. b \notin DOMAIN blocks /\ b \notin CleanedBlocks
      BY <2>3 DEF CleanedMemory
    <3>2. here = {}
      BY <3>1 DEF Kept
    <3>3. st2[b] = st[b] /\ st[b] \in Nat
      BY <1>4, <2>3, <3>1 DEF Stores, Em
    <3> HIDE DEF here, st, st2
    <3>4. st2[b] = st[b] + Cardinality(here)
      BY <3>2, <3>3, FS_EmptySet
    <3>5. QED
      BY <3>4 DEF here
  <2>4. QED
    BY <2>2, <2>3
<1>6. Single(H, st, e \in there)
  BY DEF Singles
<1> HIDE DEF H, F, place, st, st2
<1>7. Single(H \ F, st2, e \in there)
  BY <1>2, <1>4, <1>5, <1>6, SingleMoves
<1>8. QED
  BY <1>3, <1>7 DEF st2
-----------------------------------------------------------------------------
(* The other steps *)

\* All that is said of objects and blocks, of a server that is up.
Steady == /\ Consistent(objects, blocks, database)
          /\ Singles(objects, blocks, database, added \ (removed \ undone))
          /\ removed \subseteq added

\* Objects that have neither come nor gone, been marked, nor had static data moved.
Alike(objs, objs2) ==
    /\ DOMAIN objs2 = DOMAIN objs
    /\ \A id \in DOMAIN objs : /\ objs2[id].thing = objs[id].thing
                               /\ objs2[id].pending = objs[id].pending
                               /\ objs2[id].static = objs[id].static

\* Such a change breaks nothing.
LEMMA AlikeKeeps ==
    ASSUME NEW objs, NEW objs2, NEW mem, NEW db, NEW there, ObjectsOK(objs2), Alike(objs, objs2),
           Consistent(objs, mem, db), Singles(objs, mem, db, there)
    PROVE  Consistent(objs2, mem, db) /\ Singles(objs2, mem, db, there)
<1>1. \A id \in DOMAIN objs : Kept(objs2, mem, id) <=> Kept(objs, mem, id)
  BY DEF Alike, Kept
<1>2. Entries(objs2, mem) /\ Anchored(objs2, mem)
  BY <1>1 DEF Alike, Consistent, Entries, Anchored
<1>3. \A e : Holders(objs2, mem, e) = Holders(objs, mem, e)
  BY <1>1 DEF Alike, Holders
<1>4. Consistent(objs2, mem, db)
  BY <1>2 DEF Consistent
<1>5. QED
  BY <1>3, <1>4 DEF Singles

\* Blocks that come to memory, or are saved, as they are.
LEMMA MemoryAlike ==
    ASSUME NEW objs, NEW mem, NEW mem2, NEW db, NEW db2, NEW there,
           Consistent(objs, mem, db), Singles(objs, mem, db, there),
           MemoryOK(mem2), DatabaseOK(db2), Saved(mem2, db2), DOMAIN mem \subseteq DOMAIN mem2,
           \A b \in MapBlocks : /\ Em(mem2, db2, b).active = Em(mem, db, b).active
                                /\ Em(mem2, db2, b).stored = Em(mem, db, b).stored
    PROVE  Consistent(objs, mem2, db2) /\ Singles(objs, mem2, db2, there)
<1>1. \A b \in DOMAIN mem2 : b \in MapBlocks /\ mem2[b].active = Em(mem, db, b).active
  BY DEF MemoryOK, Em
<1>2. \A b \in DOMAIN mem2 \ DOMAIN mem : DOMAIN mem2[b].active = {}
  BY <1>1 DEF Em, Nothing
<1>3. \A b \in DOMAIN mem : mem2[b].active = mem[b].active
  BY <1>1 DEF Em
<1>4. \A id \in DOMAIN objs : Kept(objs, mem2, id) <=> Kept(objs, mem, id)
  BY <1>2, <1>3 DEF Kept
<1>5. Entries(objs, mem2) /\ Anchored(objs, mem2)
  BY <1>2, <1>3, <1>4 DEF Consistent, Entries, Anchored
<1>6. \A e : Holders(objs, mem2, e) = Holders(objs, mem, e)
  BY <1>4 DEF Holders
<1>7. \A e : Stores(mem2, db2, e) = Stores(mem, db, e)
  BY DEF Stores
<1>8. QED
  BY <1>5, <1>6, <1>7 DEF Consistent, Singles

\* The new object is the only one of a new entity.
LEMMA AddSteady ==
    ASSUME Steady, ObjectsOK(objects'), MemoryOK(blocks'),
           NEW e \in Entities, NEW b \in MapBlocks, NEW id \in SaoIds, AddEntity(e, b, id)
    PROVE  Steady'
<1> DEFINE o == [thing |-> e, pending |-> "no", known |-> 0, static |-> b, pos |-> b]
           x(c) == Em(blocks, database, c)
<1>1. /\ objects' = [i \in DOMAIN objects \cup {id} |-> IF i # id THEN objects[i] ELSE o]
      /\ blocks' = [c \in DOMAIN blocks \cup {b} |->
                     IF c \in {b} THEN [Emerged(c) EXCEPT !.active = [i \in DOMAIN @ \cup {id} |->
                                                       IF i = id THEN e ELSE @[i]],
                                        !.modified = TRUE]
                     ELSE blocks[c]]
      /\ database' = database /\ added' = added \cup {e} /\ removed' = removed
      /\ undone' = undone /\ e \notin added /\ id \notin DOMAIN objects
  BY DEF AddEntity, Updated, FreeSaoIds
<1>2. Emerged(b) \in Block /\ Emerged(b) = x(b)
  BY EmergedType DEF Steady, Consistent
<1>3. \A c \in DOMAIN blocks' :
         /\ DOMAIN blocks'[c].active = DOMAIN x(c).active \cup (IF c = b THEN {id} ELSE {})
         /\ \A i \in DOMAIN blocks'[c].active :
               blocks'[c].active[i] = IF c = b /\ i = id THEN e ELSE x(c).active[i]
         /\ blocks'[c].stored = x(c).stored
         /\ ~ blocks'[c].modified => c # b /\ blocks'[c] = blocks[c] /\ c \in DOMAIN blocks
  <2> SUFFICES ASSUME NEW c \in DOMAIN blocks'
      PROVE  /\ DOMAIN blocks'[c].active = DOMAIN x(c).active \cup (IF c = b THEN {id} ELSE {})
             /\ \A i \in DOMAIN blocks'[c].active :
                   blocks'[c].active[i] = IF c = b /\ i = id THEN e ELSE x(c).active[i]
             /\ blocks'[c].stored = x(c).stored
             /\ ~ blocks'[c].modified => c # b /\ blocks'[c] = blocks[c] /\ c \in DOMAIN blocks
    OBVIOUS
  <2>1. CASE c = b
    <3>1. blocks'[c] = [x(b) EXCEPT !.active = [i \in DOMAIN @ \cup {id} |->
                                                       IF i = id THEN e ELSE @[i]],
                                    !.modified = TRUE]
      BY <1>1, <1>2, <2>1
    <3> HIDE DEF x
    <3>2. QED
      BY <1>2, <2>1, <3>1 DEF Block
  <2>2. CASE c # b
    BY <1>1, <2>2 DEF Em
  <2>3. QED
    BY <2>1, <2>2
<1>4. \A c \in MapBlocks : \A i \in DOMAIN x(c).active :
         i # id /\ i \in DOMAIN objects /\ objects[i].static = c /\ x(c).active[i] = objects[i].thing
  BY <1>1 DEF Steady, Consistent, Entries, Em, Nothing
<1>5. \A i \in DOMAIN objects : objects'[i] = objects[i] /\ i # id
  BY <1>1
<1>6. objects'[id] = o /\ Kept(objects, blocks, id)' /\ DOMAIN objects' = DOMAIN objects \cup {id}
  <2>1. objects'[id] = o /\ DOMAIN objects' = DOMAIN objects \cup {id}
    BY <1>1
  <2>2. b \in DOMAIN blocks'
    BY <1>1
  <2>3. id \in DOMAIN blocks'[b].active
    BY <1>3, <2>2
  <2>4. objects'[id].static = b
    BY <2>1
  <2>5. QED
    BY <2>1, <2>2, <2>3, <2>4 DEF Kept
<1>7. \A i \in DOMAIN objects : Kept(objects, blocks, i)' <=> Kept(objects, blocks, i)
  <2> SUFFICES ASSUME NEW i \in DOMAIN objects
               PROVE  Kept(objects, blocks, i)' <=> Kept(objects, blocks, i)
    OBVIOUS
  <2> DEFINE at == objects[i].static
  <2>1. at \in DOMAIN blocks' => (i \in DOMAIN blocks'[at].active <=> i \in DOMAIN x(at).active)
    BY <1>3, <1>5
  <2>2. i \in DOMAIN x(at).active <=> Kept(objects, blocks, i)
    BY DEF Em, Kept, Nothing
  <2>3. at \in DOMAIN blocks => at \in DOMAIN blocks'
    BY <1>1
  <2> HIDE DEF x
  <2>4. QED
    BY <1>5, <2>1, <2>2, <2>3 DEF Kept
<1>8. Entries(objects, blocks)'
  <2> SUFFICES ASSUME NEW c \in DOMAIN blocks', NEW i \in DOMAIN blocks'[c].active
               PROVE  /\ i \in DOMAIN objects' /\ objects'[i].static = c
                      /\ blocks'[c].active[i] = objects'[i].thing
    BY DEF Entries
  <2>1. c \in MapBlocks
    BY DEF MemoryOK
  <2>2. CASE c = b /\ i = id
    BY <1>3, <1>6, <2>2
  <2>3. CASE ~ (c = b /\ i = id)
    <3>1. i \in DOMAIN x(c).active /\ blocks'[c].active[i] = x(c).active[i]
      BY <1>3, <2>3
    <3> HIDE DEF x
    <3>2. QED
      BY <1>4, <1>5, <1>6, <2>1, <3>1
  <2>4. QED
    BY <2>2, <2>3
<1>9. Anchored(objects, blocks)'
  <2>1. \A i \in DOMAIN objects :
           /\ objects'[i].static = NoBlock => objects'[i].pending = "removal"
           /\ objects'[i].pending # "deactivation" /\ objects'[i].static # NoBlock =>
                 Kept(objects, blocks, i)'
    BY <1>5, <1>7 DEF Steady, Consistent, Anchored
  <2>2. objects'[id].static # NoBlock
    BY <1>6, ActiveObjectsAssumption
  <2>3. QED
    BY <1>6, <2>1, <2>2 DEF Anchored
<1>10. Saved(blocks, database)'
  BY <1>1, <1>3 DEF Steady, Consistent, Saved
<1>11. Consistent(objects, blocks, database)'
  BY <1>1, <1>8, <1>9, <1>10 DEF Steady, Consistent
<1>12. ASSUME NEW d \in Entities
       PROVE  Single(Holders(objects, blocks, d), Stores(blocks, database, d),
                     d \in added \ (removed \ undone))'
  <2>1. Single(Holders(objects, blocks, d), Stores(blocks, database, d), d \in added \ (removed \ undone))
    BY DEF Steady, Singles
  <2>2. Stores(blocks, database, d)' = Stores(blocks, database, d)
    <3>1. \A c \in MapBlocks : Em(blocks, database, c)'.stored = Em(blocks, database, c).stored
      <4>1. \A c \in DOMAIN blocks' : Em(blocks, database, c)'.stored = x(c).stored
        BY <1>3 DEF Em
      <4>2. \A c : c \notin DOMAIN blocks' => Em(blocks, database, c)' = x(c)
        BY <1>1 DEF Em
      <4> HIDE DEF x
      <4>3. QED
        BY <4>1, <4>2 DEF x
    <3>2. QED
      BY <3>1 DEF Stores
  <2>3. Holders(objects, blocks, d)' =
            Holders(objects, blocks, d) \cup (IF d = e THEN {id} ELSE {})
    <3>1. \A i \in DOMAIN objects : i \in Holders(objects, blocks, d)' <=> i \in Holders(objects, blocks, d)
      BY <1>5, <1>6, <1>7 DEF Holders
    <3>2. id \in Holders(objects, blocks, d)' <=> d = e
      BY <1>6 DEF Holders
    <3>3. QED
      BY <1>1, <1>6, <3>1, <3>2 DEF Holders
  <2>4. CASE d # e
    <3>1. d \in (added \ (removed \ undone))' <=> d \in added \ (removed \ undone)
      BY <1>1, <2>4
    <3>2. Holders(objects, blocks, d)' = Holders(objects, blocks, d)
      BY <2>3, <2>4
    <3>3. QED
      BY <2>1, <2>2, <3>1, <3>2 DEF Single
  <2>5. CASE d = e
    <3>1. d \in (added \ (removed \ undone))' /\ d \notin added \ (removed \ undone)
      BY <1>1, <2>5 DEF Steady
    <3>2. Holders(objects, blocks, d) = {} /\ \A c \in MapBlocks : ~ Stores(blocks, database, d)[c] > 0
      BY <2>1, <3>1 DEF Single
    <3>3. Stores(blocks, database, d) \in [MapBlocks -> Nat]
      BY StoresType DEF Steady, Consistent
    <3>4. \A c \in MapBlocks : Stores(blocks, database, d)[c] = 0
      BY <3>2, <3>3
    <3>5. Holders(objects, blocks, d)' = {id}
      BY <2>3, <2>5, <3>2
    <3>6. QED
      BY <2>2, <3>1, <3>4, <3>5 DEF Single
  <2>6. QED
    BY <2>4, <2>5
<1>13. Singles(objects, blocks, database, added \ (removed \ undone))'
  BY <1>12 DEF Singles
<1>14. QED
  BY <1>1, <1>11, <1>13 DEF Steady

\* A move changes where an object is, not where its static data is.
LEMMA MoveSteady ==
    ASSUME Steady, ObjectsOK(objects'), NEW id, NEW b, Move(id, b)
    PROVE  Steady'
<1>1. Alike(objects, objects')
  BY DEF Move, Live, Steady, Consistent, ObjectsOK, Object, Alike
<1>2. /\ Consistent(objects', blocks, database)
      /\ Singles(objects', blocks, database, added \ (removed \ undone))
  BY <1>1, AlikeKeeps DEF Steady
<1>3. UNCHANGED << blocks, database, added, removed, undone >>
  BY DEF Move
<1>4. QED
  BY <1>2, <1>3 DEF Steady

\* What clients know changes nothing of an object but its count.
LEMMA KnowsSteady ==
    ASSUME Steady, ObjectsOK(objects'), NEW c, NEW ids, Knows(c, ids)
    PROVE  Steady'
<1>1. Alike(objects, objects')
  <2> DEFINE old == m_known_objects[c]
             Less(id) == IF id \in old \ ids /\ objects[id].known > 0 THEN 1 ELSE 0
             More(id) == IF id \in ids \ old THEN 1 ELSE 0
  <2>1. objects' = [id \in DOMAIN objects |->
                     [objects[id] EXCEPT !.known = (@ + More(id)) - Less(id)]]
    BY DEF Knows
  <2> HIDE DEF Less, More
  <2>2. QED
    BY <2>1 DEF Steady, Consistent, ObjectsOK, Object, Alike
<1>2. /\ Consistent(objects', blocks, database)
      /\ Singles(objects', blocks, database, added \ (removed \ undone))
  BY <1>1, AlikeKeeps DEF Steady
<1>3. UNCHANGED << blocks, database, added, removed, undone >>
  BY DEF Knows
<1>4. QED
  BY <1>2, <1>3 DEF Steady

\* An object that is marked no longer stands for its entity, which is removed.
LEMMA MarkSteady ==
    ASSUME Steady, ObjectsOK(objects'), NEW id, MarkForRemoval(id)
    PROVE  Steady'
<1> DEFINE e == objects[id].thing
<1>1. /\ id \in DOMAIN objects /\ objects[id].pending = "no" /\ e \in Entities
      /\ objects[id].static # NoBlock => Kept(objects, blocks, id)
      /\ objects[id].static # NoBlock
  BY DEF MarkForRemoval, Live, IsGone, Steady, Consistent, ObjectsOK, Object, Anchored
<1>2. /\ DOMAIN objects' = DOMAIN objects
      /\ \A i \in DOMAIN objects :
            /\ objects'[i].thing = objects[i].thing /\ objects'[i].static = objects[i].static
            /\ objects'[i].pending = IF i = id THEN "removal" ELSE objects[i].pending
  BY DEF MarkForRemoval, Steady, Consistent, ObjectsOK, Object
<1>3. /\ removed' = removed \cup {e} /\ undone' = undone \ {e}
      /\ UNCHANGED << blocks, database, added >>
  BY DEF MarkForRemoval
<1>4. \A i \in DOMAIN objects : Kept(objects, blocks, i)' <=> Kept(objects, blocks, i)
  BY <1>2, <1>3 DEF Kept
<1>5. Entries(objects, blocks)' /\ Anchored(objects, blocks)'
  <2>1. Entries(objects, blocks) /\ Anchored(objects, blocks)
    BY DEF Steady, Consistent
  <2>2. Entries(objects, blocks)'
    BY <1>2, <1>3, <2>1 DEF Entries
  <2>3. Anchored(objects, blocks)'
    BY <1>1, <1>2, <1>4, <2>1 DEF Anchored
  <2>4. QED
    BY <2>2, <2>3
<1>6. Consistent(objects, blocks, database)'
  <2>1. MemoryOK(blocks') /\ DatabaseOK(database') /\ Saved(blocks', database')
    BY <1>3 DEF Steady, Consistent
  <2>2. QED
    BY <1>5, <2>1 DEF Consistent
<1>7. id \in Holders(objects, blocks, e)
  BY <1>1 DEF Holders
<1>8. e \in added \ (removed \ undone)
  BY <1>1, <1>7 DEF Steady, Singles, Single
<1>9. ASSUME NEW d \in Entities
      PROVE  Single(Holders(objects, blocks, d), Stores(blocks, database, d),
                    d \in added \ (removed \ undone))'
  <2>1. Single(Holders(objects, blocks, d), Stores(blocks, database, d), d \in added \ (removed \ undone))
    BY DEF Steady, Singles
  <2>2. Stores(blocks, database, d)' = Stores(blocks, database, d)
    BY <1>3 DEF Stores, Em
  <2>3. Holders(objects, blocks, d)' = Holders(objects, blocks, d) \ {id}
    BY <1>2, <1>4 DEF Holders
  <2>4. CASE d # e
    <3>1. d \in (added \ (removed \ undone))' <=> d \in added \ (removed \ undone)
      BY <1>3, <2>4
    <3>2. Holders(objects, blocks, d)' = Holders(objects, blocks, d)
      BY <2>3, <2>4 DEF Holders
    <3>3. QED
      BY <2>1, <2>2, <3>1, <3>2 DEF Single
  <2>5. CASE d = e
    <3>1. d \notin (added \ (removed \ undone))'
      BY <1>3, <2>5
    <3>2. Holders(objects, blocks, d)' = {}
      BY <1>7, <2>1, <2>3, <2>5 DEF Single
    <3>3. \A c \in MapBlocks : Stores(blocks, database, d)[c] = 0
      BY <1>7, <2>1, <2>5 DEF Single
    <3>4. QED
      BY <2>2, <3>1, <3>2, <3>3 DEF Single
  <2>6. QED
    BY <2>4, <2>5
<1>10. Singles(objects, blocks, database, added \ (removed \ undone))'
  BY <1>9 DEF Singles
<1>11. QED
  BY <1>3, <1>6, <1>8, <1>10 DEF Steady

\* A block that is loaded is what the database has.
LEMMA LoadSteady ==
    ASSUME Steady, MemoryOK(blocks'), NEW b \in MapBlocks, Load(b)
    PROVE  Steady'
<1>1. /\ blocks' = [c \in DOMAIN blocks \cup {b} |-> IF c \in {b} THEN Emerged(c) ELSE blocks[c]]
      /\ UNCHANGED << objects, database, added, removed, undone >> /\ b \notin DOMAIN blocks
  BY DEF Load, Updated
<1>2. \A c \in MapBlocks : Em(blocks', database, c) = Em(blocks, database, c)
  BY <1>1, EmergedType DEF Em, Emerged
<1>3. Saved(blocks', database)
  <2> SUFFICES ASSUME NEW c \in DOMAIN blocks', ~ blocks'[c].modified
               PROVE  database[c] = Written(blocks'[c])
    BY DEF Saved
  <2>1. c \in MapBlocks /\ Em(blocks, database, c) = blocks'[c]
    BY <1>2 DEF MemoryOK, Em
  <2>2. QED
    BY <2>1, EmWritten DEF Steady, Consistent
<1>4. DOMAIN blocks \subseteq DOMAIN blocks'
  BY <1>1
<1>5. MemoryOK(blocks') /\ DatabaseOK(database)
  BY DEF Steady, Consistent
<1>6. /\ Consistent(objects, blocks', database)
      /\ Singles(objects, blocks', database, added \ (removed \ undone))
  BY <1>2, <1>3, <1>4, <1>5, MemoryAlike DEF Steady
<1>7. QED
  BY <1>1, <1>6 DEF Steady

\* A block that is saved is as it was.
LEMMA SaveSteady ==
    ASSUME Steady, MemoryOK(blocks'), DatabaseOK(database'), NEW b \in MapBlocks, Save(b)
    PROVE  Steady'
<1>1. /\ b \in DOMAIN blocks /\ database' = [database EXCEPT ![b] = Written(blocks[b])]
      /\ blocks' = [blocks EXCEPT ![b].modified = FALSE]
      /\ UNCHANGED << objects, added, removed, undone >>
  BY DEF Save
<1>2. /\ DOMAIN blocks' = DOMAIN blocks
      /\ \A c \in DOMAIN blocks : c # b => blocks'[c] = blocks[c]
      /\ blocks'[b].active = blocks[b].active /\ blocks'[b].stored = blocks[b].stored
  BY <1>1 DEF Steady, Consistent, MemoryOK, Block
<1>3. database'[b] = Written(blocks[b]) /\ \A c \in MapBlocks : c # b => database'[c] = database[c]
  BY <1>1 DEF Steady, Consistent, DatabaseOK
<1>4. \A c \in MapBlocks : /\ Em(blocks', database', c).active = Em(blocks, database, c).active
                           /\ Em(blocks', database', c).stored = Em(blocks, database, c).stored
  BY <1>1, <1>2, <1>3 DEF Em
<1>5. Saved(blocks', database')
  <2>1. Written(blocks'[b]) = Written(blocks[b])
    BY <1>2 DEF Written
  <2>2. \A c \in DOMAIN blocks : c \in MapBlocks
    BY DEF Steady, Consistent, MemoryOK
  <2>3. QED
    BY <1>2, <1>3, <2>1, <2>2 DEF Steady, Consistent, Saved
<1>6. DOMAIN blocks \subseteq DOMAIN blocks'
  BY <1>2
<1>7. /\ Consistent(objects, blocks', database')
      /\ Singles(objects, blocks', database', added \ (removed \ undone))
  BY <1>4, <1>5, <1>6, MemoryAlike DEF Steady
<1>8. QED
  BY <1>1, <1>7 DEF Steady

\* A block is unloaded when only objects have data in it that are deactivated: what
\* they stand for is from now on in the database.
LEMMA UnloadSteady ==
    ASSUME Steady, ~ UnloadRaces, MemoryOK(blocks'), DatabaseOK(database'),
           NEW b \in MapBlocks, Unload(b)
    PROVE  Steady'
<1>1. /\ b \in DOMAIN blocks /\ UNCHANGED << objects, added, removed, undone >>
      /\ \A id \in DOMAIN objects :
            objects[id].static = b => objects[id].pending = "deactivation"
  BY DEF Unload
<1>2. /\ DOMAIN blocks' = DOMAIN blocks \ {b}
      /\ \A c \in DOMAIN blocks' : blocks'[c] = blocks[c]
  BY DEF Unload, Restrict
<1>3. /\ database'[b] = Written(blocks[b])
      /\ \A c \in MapBlocks : c # b => database'[c] = database[c]
  BY <1>1 DEF Unload, Steady, Consistent, DatabaseOK, Saved
<1>4. \A id \in DOMAIN objects :
         Kept(objects, blocks, id)' <=> objects[id].static # b /\ Kept(objects, blocks, id)
  BY <1>1, <1>2 DEF Kept
<1>5. Entries(objects, blocks)' /\ Anchored(objects, blocks)'
  BY <1>1, <1>2, <1>4 DEF Steady, Consistent, Entries, Anchored
<1>6. Saved(blocks, database)'
  BY <1>2, <1>3 DEF Steady, Consistent, Saved, MemoryOK
<1>7. Consistent(objects, blocks, database)'
  BY <1>1, <1>5, <1>6 DEF Steady, Consistent
<1>8. ASSUME NEW e \in Entities
      PROVE  Single(Holders(objects, blocks, e), Stores(blocks, database, e),
                    e \in added \ (removed \ undone))'
  <2> DEFINE H == Holders(objects, blocks, e)
             F == Copied(blocks[b].active, e)
             place == [id \in F |-> b]
             st == Stores(blocks, database, e)
             st2 == Stores(blocks', database', e)
  <2>1. \A id \in DOMAIN blocks[b].active :
           id \in DOMAIN objects /\ objects[id].static = b /\ blocks[b].active[id] = objects[id].thing
    BY <1>1 DEF Steady, Consistent, Entries
  <2>2. F \in SUBSET H /\ place \in [F -> MapBlocks]
    BY <1>1, <2>1 DEF Holders, Copied, Kept
  <2>3. H' = H \ F
    <3>1. \A id \in H : id \in F <=> objects[id].static = b
      BY <2>1 DEF Holders, Copied, Kept
    <3>2. \A id : id \in H' <=> id \in H /\ objects[id].static # b
      BY <1>1, <1>4 DEF Holders
    <3>3. QED
      BY <3>1, <3>2
  <2>4. st \in [MapBlocks -> Nat] /\ st2 \in [MapBlocks -> Nat]
    BY StoresType DEF Steady, Consistent
  <2>5. ASSUME NEW c \in MapBlocks
        PROVE  st2[c] = st[c] + Cardinality({id \in F : place[id] = c})
    <3> DEFINE here == {id \in F : place[id] = c}
    <3>1. CASE c = b
      <4>1. here = F
        BY <3>1
      <4>2. st2[c] = Written(blocks[b])[e] /\ st[c] = blocks[b].stored[e]
        BY <1>1, <1>2, <1>3, <3>1 DEF Stores, Em
      <4>3. Written(blocks[b])[e] = blocks[b].stored[e] + Cardinality(F)
        BY DEF Written, CountIn, Copied
      <4>4. QED
        BY <4>1, <4>2, <4>3
    <3>2. CASE c # b
      <4>1. here = {}
        BY <3>2
      <4>2. st2[c] = st[c] /\ st[c] \in Nat
        BY <1>2, <1>3, <2>4, <3>2 DEF Stores, Em
      <4> HIDE DEF here, st, st2
      <4>3. st2[c] = st[c] + Cardinality(here)
        BY <4>1, <4>2, FS_EmptySet
      <4>4. QED
        BY <4>3 DEF here
    <3>3. QED
      BY <3>1, <3>2
  <2>6. Single(H, st, e \in added \ (removed \ undone))
    BY DEF Steady, Singles
  <2>7. Single(H \ F, st2, e \in added \ (removed \ undone))
    <3> HIDE DEF H, F, place, st, st2
    <3>1. QED
      BY <2>2, <2>4, <2>5, <2>6, SingleMoves
  <2>8. st2 = Stores(blocks, database, e)' /\ H' = Holders(objects, blocks, e)'
        /\ (e \in added \ (removed \ undone))' = (e \in added \ (removed \ undone))
    BY <1>1
  <2> HIDE DEF H, F, st, st2
  <2>9. QED
    BY <2>3, <2>7, <2>8
<1>9. Singles(objects, blocks, database, added \ (removed \ undone))'
  BY <1>8 DEF Singles
<1>10. QED
  BY <1>1, <1>7, <1>9 DEF Steady

\* removeRemovedObjects keeps all of it.
LEMMA RemoveSteady ==
    ASSUME Steady, RemoveRemovedObjects
    PROVE  Steady'
<1>1. /\ objects' = Undeleted /\ blocks' = CleanedMemory
      /\ UNCHANGED << database, added, removed, undone >>
  BY RemoveMeans DEF Undeleted, CleanedMemory
<1>2. /\ Consistent(Undeleted, CleanedMemory, database)
      /\ Singles(Undeleted, CleanedMemory, database, added \ (removed \ undone))
  BY CleanConsistent, CleanSingles DEF Steady
<1>3. QED
  BY <1>1, <1>2 DEF Steady

\* Objects with static data that are removed no longer stand for their entities.
LEMMA GoneKeeps ==
    ASSUME NEW objs, NEW mem, NEW db, NEW there,
           Consistent(objs, mem, db), Singles(objs, mem, db, there), NEW S \in SUBSET DOMAIN objs,
           \A id \in S : objs[id].pending # "removal" /\ Kept(objs, mem, id)
    PROVE  /\ Consistent(Gone(objs, S), mem, db)
           /\ Singles(Gone(objs, S), mem, db, there \ {objs[id].thing : id \in S})
<1> DEFINE gone == Gone(objs, S)
           things == {objs[id].thing : id \in S}
<1>1. /\ DOMAIN gone = DOMAIN objs /\ ObjectsOK(gone)
      /\ \A id \in DOMAIN objs :
            /\ gone[id].thing = objs[id].thing /\ gone[id].static = objs[id].static
            /\ gone[id].pending = IF id \in S THEN "removal" ELSE objs[id].pending
  <2>1. \A id \in DOMAIN objs : objs[id] \in Object
    BY DEF Consistent, ObjectsOK
  <2>2. \A id \in DOMAIN objs : [objs[id] EXCEPT !.pending = "removal"] \in Object
    BY <2>1 DEF Object
  <2>3. QED
    BY <2>1, <2>2 DEF Gone, Consistent, ObjectsOK, Object
<1> HIDE DEF gone
<1>2. \A id \in DOMAIN objs : Kept(gone, mem, id) <=> Kept(objs, mem, id)
  BY <1>1 DEF Kept
<1>3. Entries(gone, mem)
  BY <1>1 DEF Consistent, Entries
<1>4. Anchored(gone, mem)
  BY <1>1, <1>2 DEF Consistent, Anchored
<1>5. Consistent(gone, mem, db)
  BY <1>1, <1>3, <1>4 DEF Consistent
<1>6. ASSUME NEW e \in Entities
      PROVE  Single(Holders(gone, mem, e), Stores(mem, db, e), e \in there \ things)
  <2>1. Single(Holders(objs, mem, e), Stores(mem, db, e), e \in there)
    BY DEF Singles
  <2>2. Holders(gone, mem, e) = Holders(objs, mem, e) \ S
    BY <1>1, <1>2 DEF Holders
  <2>3. CASE e \in things
    <3>1. PICK id \in S : objs[id].thing = e
      BY <2>3
    <3>2. id \in Holders(objs, mem, e)
      BY <3>1 DEF Holders
    <3>3. Holders(gone, mem, e) = {}
      BY <2>1, <2>2, <3>1, <3>2 DEF Single
    <3>4. \A b \in MapBlocks : Stores(mem, db, e)[b] = 0
      BY <2>1, <3>2 DEF Single
    <3>5. QED
      BY <2>3, <3>3, <3>4 DEF Single
  <2>4. CASE e \notin things
    <3>1. Holders(gone, mem, e) = Holders(objs, mem, e)
      BY <2>2, <2>4 DEF Holders
    <3>2. QED
      BY <2>1, <2>4, <3>1 DEF Single
  <2>5. QED
    BY <2>3, <2>4
<1>7. QED
  BY <1>5, <1>6 DEF Singles, gone

\* So do deactivateFarObjects and the activations after it, one after the other.
LEMMA ManageSteady ==
    ASSUME Steady, Manage
    PROVE  Steady'
<1>1. PICK active \in SUBSET MapBlocks, quiet \in SUBSET Live, removing \in SUBSET Live,
           fresh \in UNION {[ids -> Places] : ids \in SUBSET FreeSaoIds} :
              ManageActiveBlocks(active, quiet, removing, fresh)
  BY DEF Manage, Far
<1> DEFINE rest == Remaining(active)
           stay == removing \ Freed(active)
           objs == Remains(active, removing)
           there == added \ (removed \ undone)
           mem == Memory(active, quiet)
           B == Become(active, quiet)
           left == m_active_blocks \ active
<1>2. /\ quiet \subseteq {id \in Far(active) : objects[id].static = objects[id].pos}
      /\ Activates(B, objs, mem, fresh)
      /\ \A id \in DOMAIN fresh : fresh[id].in \in B
      /\ objects' = WithFresh(objs, fresh)
      /\ blocks' = Activated(mem, B, fresh, left)
      /\ removed' = removed \cup Things(removing)
      /\ undone' = (undone \cup Things(removing \cap Freed(active))) \ Things(stay)
      /\ removing \subseteq Far(active)
      /\ UNCHANGED << database, added >>
  <2>1. ObjectsOK(objects)
    BY DEF Steady, Consistent
  <2>2. Managed(active, quiet, removing, fresh)
    BY <1>1, <2>1, ManageMeans
  <2>3. QED
    BY <2>2 DEF Managed
<1>3. FreshOK(objs, mem, B, fresh)
  <2>1. fresh \in [DOMAIN fresh -> Places]
    OBVIOUS
  <2>2. B \subseteq DOMAIN mem
    BY DEF Become
  <2>3. DOMAIN fresh \subseteq SaoIds \ DOMAIN objs
    BY <1>2 DEF Activates
  <2>4. QED
    BY <1>2, <2>1, <2>2, <2>3 DEF FreshOK
<1>4. /\ Consistent(rest, mem, database)
      /\ Singles(rest, mem, database, there)
  BY <1>2, DeactivateConsistent, DeactivateSingles DEF Steady
\* Those that on_deactivate removes, and that stay for a while, had static data.
<1>5. ASSUME NEW id \in removing
      PROVE  /\ id \in DOMAIN objects /\ objects[id].thing \in there
             /\ id \in stay => /\ id \in DOMAIN rest /\ rest[id].pending # "removal"
                               /\ Kept(rest, mem, id) /\ rest[id].thing = objects[id].thing
  <2>1. /\ id \in Leaving(active) /\ id \in DOMAIN objects /\ objects[id].pending = "no"
        /\ Kept(objects, blocks, id)
    BY <1>2, LeavingKept DEF Leaving, Steady, Consistent
  <2>2. objects[id].thing \in there
    <3>1. objects[id].thing \in Entities
      BY <2>1 DEF Steady, Consistent, ObjectsOK, Object
    <3>2. id \in Holders(objects, blocks, objects[id].thing)
      BY <2>1 DEF Holders
    <3>3. QED
      BY <3>1, <3>2 DEF Steady, Singles, Single
  <2>3. ASSUME id \in stay
        PROVE  /\ id \in DOMAIN rest /\ rest[id].pending # "removal"
               /\ Kept(rest, mem, id) /\ rest[id].thing = objects[id].thing
    <3>1. id \in DOMAIN rest
      BY <2>1, <2>3 DEF Remaining
    <3>2. rest[id].pending = "deactivation" /\ rest[id].thing = objects[id].thing
      BY <1>2, <3>1, RemainingOf DEF Steady, Consistent
    <3>3. Kept(rest, mem, id)
      BY <2>1, <3>1, DeactivateKeeps DEF Steady
    <3>4. QED
      BY <3>1, <3>2, <3>3
  <2>4. QED
    BY <2>1, <2>2, <2>3
<1>6. Things(stay) = {rest[id].thing : id \in stay}
  BY <1>5 DEF Things
<1>7. /\ Consistent(objs, mem, database)
      /\ Singles(objs, mem, database, there \ Things(stay))
  <2>1. stay \in SUBSET DOMAIN rest
    BY <1>5
  <2>2. objs = Gone(rest, stay)
    BY DEF Remains
  <2>3. \A id \in stay : rest[id].pending # "removal" /\ Kept(rest, mem, id)
    BY <1>5
  <2> HIDE DEF rest, stay, objs, mem, there
  <2>4. QED
    BY <1>4, <1>6, <2>1, <2>2, <2>3, GoneKeeps
<1>8. (added \ (removed \ undone))' = there \ Things(stay) /\ removed' \subseteq added
  <2>1. /\ Things(removing) = Things(stay) \cup Things(removing \cap Freed(active))
        /\ Things(removing) \subseteq there
    BY <1>5 DEF Things
  <2>2. removed \subseteq added
    BY DEF Steady
  <2>3. QED
    BY <1>2, <2>1, <2>2
<1> HIDE DEF objs, mem, B, left, rest, stay, there
<1>9. Consistent(WithFresh(objs, fresh), Activated(mem, B, fresh, left), database)
  BY <1>3, <1>7, ActivateConsistent
<1>10. Singles(WithFresh(objs, fresh), Activated(mem, B, fresh, left), database,
               there \ Things(stay))
  BY <1>3, <1>7, ActivateSingles
<1>11. QED
  BY <1>2, <1>8, <1>9, <1>10 DEF Steady
-----------------------------------------------------------------------------
(* All steps *)

\* At the start there is nothing.
LEMMA InitSteady == InitActiveObjects => Steady
<1> SUFFICES ASSUME InitActiveObjects PROVE Steady
  OBVIOUS
<1>1. DOMAIN objects = {} /\ DOMAIN blocks = {} /\ added = {} /\ removed = {} /\ undone = {}
      /\ database = [b \in MapBlocks |-> NoCopy]
  BY DEF InitActiveObjects, Nothing
<1>2. ObjectsOK(objects) /\ MemoryOK(blocks) /\ DatabaseOK(database)
  BY InitTypes DEF TypeOK
<1>3. Consistent(objects, blocks, database)
  BY <1>1, <1>2 DEF Consistent, Entries, Anchored, Saved
<1>4. Singles(objects, blocks, database, added \ (removed \ undone))
  <2> SUFFICES ASSUME NEW e \in Entities
               PROVE  Single(Holders(objects, blocks, e), Stores(blocks, database, e),
                             e \in added \ (removed \ undone))
    BY DEF Singles
  <2>1. Holders(objects, blocks, e) = {}
    BY <1>1 DEF Holders
  <2>2. \A b \in MapBlocks : Stores(blocks, database, e)[b] = 0
    BY <1>1 DEF Stores, Em, NoCopy
  <2>3. QED
    BY <1>1, <2>1, <2>2 DEF Single
<1>5. QED
  BY <1>1, <1>3, <1>4 DEF Steady

SteadyUp == ~ down => Steady

\* No step of a server that is up breaks it.
LEMMA SteadyStep ==
    ~ UnloadRaces => (TypeOK /\ SteadyUp /\ [NextActiveObjects]_aovars => SteadyUp')
<1> SUFFICES ASSUME ~ UnloadRaces, TypeOK, SteadyUp, [NextActiveObjects]_aovars PROVE SteadyUp'
  OBVIOUS
<1>1. CASE UNCHANGED aovars
  BY <1>1 DEF aovars, SteadyUp, Steady
<1>2. CASE down
  BY <1>1, <1>2 DEF NextActiveObjects, aovars, SteadyUp
<1> SUFFICES ASSUME NextActiveObjects, ~ down, ~ down' PROVE Steady'
  BY <1>1, <1>2 DEF SteadyUp
<1>3. TypeOK' /\ Steady
  BY TypeStep DEF SteadyUp
<1>4. ObjectsOK(objects') /\ MemoryOK(blocks') /\ DatabaseOK(database')
  BY <1>3 DEF TypeOK
<1>5. ASSUME NEW e \in Entities, NEW b \in MapBlocks, NEW id \in SaoIds, AddEntity(e, b, id)
      PROVE  Steady'
  BY <1>3, <1>4, <1>5, AddSteady
<1>6. ASSUME NEW b \in MapBlocks, NEW id \in SaoIds, Move(id, b) PROVE Steady'
  BY <1>3, <1>4, <1>6, MoveSteady
<1>7. ASSUME NEW id \in SaoIds, MarkForRemoval(id) PROVE Steady'
  BY <1>3, <1>4, <1>7, MarkSteady
<1>8. ASSUME NEW b \in MapBlocks, Load(b) \/ Save(b) \/ Unload(b) PROVE Steady'
  BY <1>3, <1>4, <1>8, LoadSteady, SaveSteady, UnloadSteady
<1>9. ASSUME NEW c \in Viewers, DeleteClient(c) PROVE Steady'
  BY <1>3, <1>4, <1>9, KnowsSteady DEF DeleteClient
<1>10. ASSUME NEW c \in Viewers, NEW ids \in SUBSET SaoIds, SendActiveObjectRemoveAdd(c, ids)
       PROVE  Steady'
  BY <1>3, <1>4, <1>10, KnowsSteady DEF SendActiveObjectRemoveAdd
<1>11. ASSUME NEW quiet, NEW removing, Shutdown(quiet, removing) PROVE FALSE
  BY <1>11 DEF Shutdown
<1>12. CASE RemoveRemovedObjects
  BY <1>3, <1>12, RemoveSteady
<1>13. CASE Manage
  BY <1>3, <1>13, ManageSteady
<1>14. QED
  BY <1>5, <1>6, <1>7, <1>8, <1>9, <1>10, <1>11, <1>12, <1>13 DEF NextActiveObjects
-----------------------------------------------------------------------------
(* What Instances counts. *)

\* There is at most one of it.
Lone(S) == \A i, j \in S : i = j

\* Then there is one or none.
LEMMA LoneCardinality ==
    ASSUME NEW S, Lone(S)
    PROVE  Cardinality(S) = IF S = {} THEN 0 ELSE 1
<1>1. CASE S = {}
  BY <1>1, FS_EmptySet
<1>2. CASE S # {}
  <2>1. PICK x \in S : S = {x}
    BY <1>2 DEF Lone
  <2>2. QED
    BY <1>2, <2>1, FS_Singleton
<1>3. QED
  BY <1>1, <1>2

\* The objects alive that stand for an entity are its live instances; one that is
\* deactivated is what its block keeps; and otherwise one block stores it.
LEMMA SteadyOnce ==
    ASSUME Steady, NEW e \in added, added \subseteq Entities
    PROVE  /\ Instances(e).live + Cardinality(Instances(e).blocks)
                  = IF e \in removed \ undone THEN 0 ELSE 1
           /\ Instances(e).single
<1> DEFINE H == Holders(objects, blocks, e)
           st == Stores(blocks, database, e)
           live == {id \in Live : objects[id].thing = e}
           KeptIn(b) == {id \in DOMAIN Emerged(b).active :
                      /\ Emerged(b).active[id] = e
                      /\ id \in DOMAIN objects => objects[id].pending = "deactivation"}
           in == {b \in MapBlocks : Emerged(b).stored[e] > 0 \/ KeptIn(b) # {}}
<1>1. /\ Instances(e).live = Cardinality(live)
      /\ Instances(e).blocks = in
      /\ Instances(e).single <=> \A b \in in : Emerged(b).stored[e] + Cardinality(KeptIn(b)) = 1
  BY DEF Instances
<1>2. Single(H, st, e \in added \ (removed \ undone)) /\ st \in [MapBlocks -> Nat]
  BY StoresType DEF Steady, Singles, Consistent
<1>3. \A b \in MapBlocks : Emerged(b) = Em(blocks, database, b) /\ Emerged(b).stored[e] = st[b]
  BY EmergedType DEF Stores, Steady, Consistent
\* The objects alive that stand for e hold it, and the others that do are
\* deactivated, and hold it in the one block they have their data in.
<1>4. \A id \in DOMAIN objects : objects[id].pending \in {"no", "removal", "deactivation"}
  BY DEF Steady, Consistent, ObjectsOK, Object
<1>5. live = {id \in H : objects[id].pending = "no"}
  <2>1. \A id \in DOMAIN objects : objects[id].pending = "no" => Kept(objects, blocks, id)
    BY DEF Steady, Consistent, Anchored
  <2>2. QED
    BY <1>4, <2>1 DEF Holders, Live, IsGone
<1>6. \A b \in MapBlocks : KeptIn(b) =
         {id \in H : objects[id].pending = "deactivation" /\ objects[id].static = b}
  <2> SUFFICES ASSUME NEW b \in MapBlocks
               PROVE  KeptIn(b) = {id \in H : /\ objects[id].pending = "deactivation"
                                             /\ objects[id].static = b}
    OBVIOUS
  <2>1. \A id \in DOMAIN Emerged(b).active :
           /\ id \in DOMAIN objects /\ objects[id].static = b /\ b \in DOMAIN blocks
           /\ Emerged(b).active[id] = objects[id].thing /\ Kept(objects, blocks, id)
    BY <1>3 DEF Steady, Consistent, Entries, Em, Nothing, Kept
  <2>2. \A id \in H : objects[id].static = b => id \in DOMAIN Emerged(b).active
    BY <1>3 DEF Holders, Kept, Em
  <2>3. QED
    BY <2>1, <2>2 DEF Holders
<1>7. \A id \in H : objects[id].static \in MapBlocks
  BY DEF Holders, Kept, Steady, Consistent, MemoryOK
<1> HIDE DEF H, st, KeptIn
<1>8. CASE \E h \in H : objects[h].pending = "no"
  <2>1. PICK h \in H : objects[h].pending = "no"
    BY <1>8
  <2>2. H = {h} /\ \A b \in MapBlocks : st[b] = 0
    BY <1>2, <2>1 DEF Single
  <2>3. live = {h} /\ \A b \in MapBlocks : KeptIn(b) = {}
    BY <1>5, <1>6, <2>1, <2>2
  <2>4. in = {}
    BY <1>3, <2>2, <2>3
  <2>5. e \notin removed \ undone
    BY <1>2, <2>1 DEF Single
  <2> HIDE DEF live, in
  <2>6. Cardinality(live) = 1 /\ Cardinality(in) = 0
    BY <2>3, <2>4, FS_EmptySet, FS_Singleton
  <2>7. QED
    BY <1>1, <2>4, <2>5, <2>6
<1>9. CASE H # {} /\ \A h \in H : objects[h].pending # "no"
  <2>1. PICK h \in H : H = {h} /\ \A b \in MapBlocks : st[b] = 0
    BY <1>2, <1>9 DEF Single
  <2>2. objects[h].pending = "deactivation"
    BY <1>4, <1>9 DEF H, Holders
  <2>3. \A b \in MapBlocks : KeptIn(b) = IF b = objects[h].static THEN {h} ELSE {}
    BY <1>6, <2>1, <2>2
  <2>4. live = {}
    BY <1>5, <1>9
  <2>5. in = {objects[h].static}
    BY <1>3, <1>7, <2>1, <2>3
  <2>6. e \notin removed \ undone
    BY <1>2, <2>1 DEF Single
  <2>7. \A b \in in : st[b] = 0 /\ Emerged(b).stored[e] = st[b] /\ KeptIn(b) = {h}
    BY <1>3, <1>7, <2>1, <2>3, <2>5
  <2> HIDE DEF live, in
  <2>8. Cardinality(live) = 0 /\ Cardinality(in) = 1
    BY <2>4, <2>5, FS_EmptySet, FS_Singleton
  <2>9. \A b \in in : Emerged(b).stored[e] + Cardinality(KeptIn(b)) = 1
    <3>1. \A b \in in : Emerged(b).stored[e] = 0
      BY <2>7
    <3>2. \A b \in in : Cardinality(KeptIn(b)) = 1
      BY <2>7, FS_Singleton
    <3>3. QED
      BY <3>1, <3>2
  <2>10. QED
    BY <1>1, <2>6, <2>8, <2>9
<1>10. CASE H = {}
  <2>1. live = {} /\ \A b \in MapBlocks : KeptIn(b) = {}
    BY <1>5, <1>6, <1>10
  <2>2. in = {b \in MapBlocks : st[b] > 0}
    BY <1>3, <2>1
  <2>3. Lone(in) /\ (in # {} <=> e \notin removed \ undone)
    BY <1>2, <1>10, <2>2 DEF Single, Lone
  <2>4. \A b \in in : Emerged(b).stored[e] = 1 /\ KeptIn(b) = {}
    <3>1. \A b \in in : b \in MapBlocks /\ st[b] > 0 /\ st[b] <= 1 /\ st[b] \in Nat
      BY <1>2, <2>2 DEF Single
    <3>2. QED
      BY <1>3, <2>1, <3>1
  <2> HIDE DEF live, in
  <2>5. Cardinality(live) = 0 /\ Cardinality(in) = IF in = {} THEN 0 ELSE 1
    BY <2>1, <2>3, FS_EmptySet, LoneCardinality
  <2>6. \A b \in in : Emerged(b).stored[e] + Cardinality(KeptIn(b)) = 1
    BY <2>4, FS_EmptySet
  <2>7. QED
    BY <1>1, <2>3, <2>5, <2>6
<1>11. QED
  BY <1>8, <1>9, <1>10

\* An entity that was added and not removed exists once.
THEOREM EachOnceHolds == ~ UnloadRaces => (SpecActiveObjects => []EachOnce)
<1> SUFFICES ASSUME ~ UnloadRaces PROVE SpecActiveObjects => []EachOnce
  OBVIOUS
<1>1. InitActiveObjects => SteadyUp
  BY InitSteady DEF SteadyUp
<1>2. TypeOK /\ SteadyUp /\ [NextActiveObjects]_aovars => SteadyUp'
  BY SteadyStep
<1>3. TypeOK /\ SteadyUp => EachOnce
  <2> SUFFICES ASSUME TypeOK, SteadyUp, ~ down, NEW e \in added
               PROVE  /\ Instances(e).live + Cardinality(Instances(e).blocks)
                            = IF e \in removed \ undone THEN 0 ELSE 1
                      /\ Instances(e).single
    BY DEF EachOnce
  <2>1. Steady /\ added \subseteq Entities
    BY DEF SteadyUp, TypeOK
  <2>2. QED
    BY <2>1, SteadyOnce
<1>4. QED
  BY <1>1, <1>2, <1>3, TypeCorrect, PTL DEF SpecActiveObjects
=============================================================================
