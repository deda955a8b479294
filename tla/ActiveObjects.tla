--------------------------- MODULE ActiveObjects ---------------------------
(***************************************************************************)
(* The entities of the world (src/src/serverenvironment.cpp).  Near the    *)
(* players an entity is an active object; elsewhere it is static data in   *)
(* a map block, which may be in memory or only in the database.  A block   *)
(* that becomes active turns what it stores into objects; objects outside  *)
(* the active blocks are turned back.  An active object has a copy of its  *)
(* static data in a block under its identifier, and is not deleted, so     *)
(* that its identifier is not used again, as long as a client knows it.    *)
(*                                                                         *)
(* The order among the objects of a block is left out: what a block stores *)
(* is how often it stores each entity.  So are entities without            *)
(* static_save, the limit on the objects of a block, clearObjects, and     *)
(* that a block is activated as well when it has just been generated.      *)
(*                                                                         *)
(* Lua runs in the middle of the management of the active blocks.  What    *)
(* on_deactivate does to its own object is part of that step, for the      *)
(* object may be gone when the step is over; what it or on_activate does   *)
(* to anything else could as well be done before the step or after it, and *)
(* is an action of its own.                                                *)
(***************************************************************************)
EXTENDS Naturals, FiniteSets, Functions

CONSTANTS
    Entities,        \* entities that are ever added, with static_save
    SaoIds,          \* identifiers of active objects, of which some is always free
    MapBlocks,       \* map blocks
    NoBlock,         \* where the static data of an object is that has none
    Viewers,         \* clients
    UnloadRaces,     \* whether a block may be unloaded before its objects are managed
    MaxMoves         \* bound on the moves from block to block

\* Identifiers are of 16 bits, and there is a client for each peer.
ASSUME ActiveObjectsAssumption ==
    /\ NoBlock \notin MapBlocks /\ UnloadRaces \in BOOLEAN /\ MaxMoves \in Nat
    /\ IsFiniteSet(SaoIds) /\ IsFiniteSet(Viewers)

VARIABLES
    objects,         \* m_ao_manager: the active object of each identifier in use
    blocks,          \* the static objects of the blocks in memory
    database,        \* how often the database has each entity in each block
    m_active_blocks,
    m_known_objects, \* of each client
    added, removed,  \* entities ever added, and those that were removed
    undone,          \* history: entities that were stored before on_deactivate removed them
    moves,           \* bound
    down             \* the server has shut down

aovars == << objects, blocks, database, m_active_blocks, m_known_objects,
             added, removed, undone, moves, down >>

Nothing == [x \in {} |-> 0]
NoCopy == [e \in Entities |-> 0]

InitActiveObjects ==
    /\ objects = Nothing /\ blocks = Nothing
    /\ database = [b \in MapBlocks |-> NoCopy]
    /\ m_active_blocks = {} /\ m_known_objects = [c \in Viewers |-> {}]
    /\ added = {} /\ removed = {} /\ undone = {} /\ moves = 0 /\ down = FALSE

\* isGone() is pending "removal" or "deactivation".
IsGone(id) == objects[id].pending # "no"
Live == {id \in DOMAIN objects : ~ IsGone(id)}
FreeSaoIds == SaoIds \ DOMAIN objects
Things(ids) == {objects[id].thing : id \in ids}

-----------------------------------------------------------------------------
(* What a block keeps: static data under the identifier of an active       *)
(* object, and stored.                                                     *)

\* ServerMap::emergeBlock: the block in memory, else from the database.
Emerged(b) ==
    IF b \in DOMAIN blocks THEN blocks[b]
    ELSE [active |-> Nothing, stored |-> database[b], modified |-> FALSE]

CountIn(f, e) == Cardinality({i \in DOMAIN f : f[i] = e})

\* How an entity each of the ids stands for adds to what is stored.
PlusStored(stored, ids) ==
    [e \in Entities |-> stored[e] + Cardinality({id \in ids : objects[id].thing = e})]

\* Under the ids of drop nothing is left, and under those of put the object.
Rewritten(active, drop, put) ==
    [id \in (DOMAIN active \ drop) \cup put |->
        IF id \in put THEN objects[id].thing ELSE active[id]]

\* The blocks in memory once those of B have been brought there and changed.
Updated(B, New(_)) ==
    [b \in DOMAIN blocks \cup B |-> IF b \in B THEN New(b) ELSE blocks[b]]

\* ServerMap::saveBlock writes both kinds as one list.
Written(block) == [e \in Entities |-> block.stored[e] + CountIn(block.active, e)]

-----------------------------------------------------------------------------
(* What Lua does *)

(* addActiveObjectRaw of a new entity *)
AddEntity(e, b, id) ==
    /\ e \notin added /\ id \in FreeSaoIds
    /\ added' = added \cup {e}
    /\ objects' = [i \in DOMAIN objects \cup {id} |-> IF i # id THEN objects[i] ELSE
                      [thing |-> e, pending |-> "no", known |-> 0, static |-> b, pos |-> b]]
    /\ blocks' = Updated({b}, LAMBDA x :
                     [Emerged(x) EXCEPT !.active = [i \in DOMAIN @ \cup {id} |->
                                                       IF i = id THEN e ELSE @[i]],
                                        !.modified = TRUE])
    /\ UNCHANGED << database, m_active_blocks, m_known_objects, removed, undone,
                    moves, down >>

Move(id, b) ==
    /\ id \in Live /\ b # objects[id].pos
    /\ moves < MaxMoves /\ moves' = moves + 1
    /\ objects' = [objects EXCEPT ![id].pos = b]
    /\ UNCHANGED << blocks, database, m_active_blocks, m_known_objects, added,
                    removed, undone, down >>

(* markForRemoval, of an object Lua can still reach *)
MarkForRemoval(id) ==
    /\ id \in Live
    /\ objects' = [objects EXCEPT ![id].pending = "removal"]
    /\ removed' = removed \cup {objects[id].thing}
    /\ undone' = undone \ {objects[id].thing}
    /\ UNCHANGED << blocks, database, m_active_blocks, m_known_objects, added,
                    moves, down >>

-----------------------------------------------------------------------------
(* ServerEnvironment::step *)

\* Mutant: an object is deleted though a client knows it.
Bug_Deletable(id) == IsGone(id)

\* Objects that are gone and that no client knows are deleted at last.
Deletable(id) == IsGone(id) /\ objects[id].known = 0

(* removeRemovedObjects *)
RemoveRemovedObjects ==
    LET marked == {id \in DOMAIN objects : objects[id].pending = "removal"}
        erased == {id \in marked : objects[id].static # NoBlock}
        stored == {id \in DOMAIN objects \ marked :
                      Deletable(id) /\ objects[id].static # NoBlock}
        Of(ids, b) == {id \in ids : objects[id].static = b}
        New(b) ==
            LET moved == Of(stored, b) \cap DOMAIN Emerged(b).active
            IN  [active |-> Rewritten(Emerged(b).active, Of(erased, b) \cup moved, {}),
                 stored |-> PlusStored(Emerged(b).stored, moved),
                 modified |-> \/ Emerged(b).modified \/ Of(erased, b) # {}
                              \/ moved # {}]
    IN  /\ \E id \in DOMAIN objects : IsGone(id)
        /\ blocks' = Updated({objects[id].static : id \in erased \cup stored}, New)
        /\ objects' = [id \in {i \in DOMAIN objects : ~ Deletable(i)} |->
                          IF id \in marked THEN [objects[id] EXCEPT !.static = NoBlock]
                          ELSE objects[id]]
        /\ UNCHANGED << database, m_active_blocks, m_known_objects, added, removed,
                        undone, moves, down >>

\* Mutant: old static data is deleted only in the block the object is in.
Bug_Outdated(ids, b) == {id \in ids : objects[id].static = b /\ objects[id].pos = b}

\* Static data that deactivateFarObjects deletes from a block.
Outdated(ids, b) == {id \in ids : objects[id].static = b}

\* What deactivateFarObjects makes of block b: the objects of resaved and
\* deactivated have their static data written to the block they are in, stored
\* for those of freed; those of quiet have not changed since it was written.
Deactivated(b, resaved, deactivated, freed, quiet) ==
    LET old == Outdated(resaved \cup deactivated, b)
        new == {id \in resaved \cup deactivated : objects[id].pos = b}
    IN  [active |-> Rewritten(Emerged(b).active, old, new \ freed),
         stored |-> PlusStored(Emerged(b).stored, new \cap freed),
         modified |-> Emerged(b).modified \/ (old \cup new) \ quiet # {}]

\* The blocks activateBlock is called for turn what they store into objects,
\* each under a free identifier: fresh says which and where.
Activates(B, live, memory, fresh) ==
    /\ DOMAIN fresh \subseteq SaoIds \ DOMAIN live
    /\ \A b \in B, e \in Entities :
          CountIn(fresh, [thing |-> e, in |-> b]) = memory[b].stored[e]

\* Where objects may be that have just been activated.
Places == [thing : Entities, in : MapBlocks]

\* The objects that are far from the active blocks.
Far(active) == {id \in Live : objects[id].pos \notin active}

(* The management of the active blocks: the new list, deactivateFarObjects, *)
(* and the activation of the blocks that were added, if in memory.          *)
(* on_deactivate removes the objects of removing: their static data has     *)
(* been written by then, and that of those that are deleted stays stored.   *)
ManageActiveBlocks(active, quiet, removing, fresh) ==
    LET resaved == {id \in Live : /\ objects[id].static # NoBlock
                                  /\ objects[id].static \notin active
                                  /\ objects[id].pos \in active}
        far == Far(active)
        freed == {id \in far : objects[id].known = 0}
        touched == {objects[id].pos : id \in resaved \cup far}
                   \cup ({objects[id].static : id \in resaved \cup far} \ {NoBlock})
        memory == Updated(touched, LAMBDA b : Deactivated(b, resaved, far, freed, quiet))
        live == [id \in DOMAIN objects \ freed |->
                    IF id \in far THEN
                        [objects[id] EXCEPT
                            !.pending = IF id \in removing THEN "removal" ELSE "deactivation",
                            !.static = objects[id].pos]
                    ELSE IF id \in resaved THEN
                        [objects[id] EXCEPT !.static = objects[id].pos]
                    ELSE objects[id]]
        new == (active \ m_active_blocks) \cap DOMAIN memory
        In(b) == {id \in DOMAIN fresh : fresh[id].in = b}
    IN  /\ quiet \subseteq {id \in far : objects[id].static = objects[id].pos}
        /\ removing \subseteq far
        /\ Activates(new, live, memory, fresh)
        /\ \A id \in DOMAIN fresh : fresh[id].in \in new
        /\ m_active_blocks' = (active \cap m_active_blocks) \cup new
        /\ objects' = [id \in DOMAIN live \cup DOMAIN fresh |->
               IF id \in DOMAIN live THEN live[id]
               ELSE [thing |-> fresh[id].thing, pending |-> "no", known |-> 0,
                     static |-> fresh[id].in, pos |-> fresh[id].in]]
        /\ blocks' = [b \in DOMAIN memory |->
               LET left == b \in m_active_blocks \ active
               IN  IF b \notin new
                   THEN [memory[b] EXCEPT !.modified = @ \/ left]
                   ELSE [memory[b] EXCEPT !.stored = NoCopy,
                           !.active = [id \in DOMAIN @ \cup In(b) |->
                              IF id \in In(b) THEN fresh[id].thing ELSE @[id]]]]
        /\ removed' = removed \cup Things(removing)
        /\ undone' = (undone \cup Things(removing \cap freed)) \ Things(removing \ freed)
        /\ UNCHANGED << database, m_known_objects, added, moves, down >>

-----------------------------------------------------------------------------
(* The map: blocks are loaded on demand, saved, and unloaded when unused   *)

Load(b) ==
    /\ b \notin DOMAIN blocks
    /\ blocks' = Updated({b}, Emerged)
    /\ UNCHANGED << objects, database, m_active_blocks, m_known_objects, added,
                    removed, undone, moves, down >>

Save(b) ==
    /\ b \in DOMAIN blocks /\ blocks[b].modified
    /\ database' = [database EXCEPT ![b] = Written(blocks[b])]
    /\ blocks' = [blocks EXCEPT ![b].modified = FALSE]
    /\ UNCHANGED << objects, m_active_blocks, m_known_objects, added, removed,
                    undone, moves, down >>

(* Map::timerUpdate, of a block nobody used for the 29 seconds of           *)
(* server_unload_unused_data_timeout.  The objects are managed every two    *)
(* seconds and removed every half a second, so that by then no object is    *)
(* left that has data in the block, except one that clients still know.     *)
Unload(b) ==
    /\ b \in DOMAIN blocks \ m_active_blocks
    /\ UnloadRaces \/ \A id \in DOMAIN objects :
                         objects[id].static = b => objects[id].pending = "deactivation"
    /\ database' = IF blocks[b].modified THEN [database EXCEPT ![b] = Written(blocks[b])]
                   ELSE database
    /\ blocks' = Restrict(blocks, DOMAIN blocks \ {b})
    /\ UNCHANGED << objects, m_active_blocks, m_known_objects, added, removed,
                    undone, moves, down >>

-----------------------------------------------------------------------------
(* Server: what its clients know *)

\* Client c knows the objects of ids from now on.
Knows(c, ids) ==
    LET old == m_known_objects[c]
        Less(id) == IF id \in old \ ids /\ objects[id].known > 0 THEN 1 ELSE 0
        More(id) == IF id \in ids \ old THEN 1 ELSE 0
    IN  /\ m_known_objects' = [m_known_objects EXCEPT ![c] = ids]
        /\ objects' = [id \in DOMAIN objects |->
                          [objects[id] EXCEPT !.known = (@ + More(id)) - Less(id)]]
        /\ UNCHANGED << blocks, database, m_active_blocks, added, removed, undone,
                        moves, down >>

(* SendActiveObjectRemoveAdd: those that are gone are removed, those that   *)
(* are near enough added.                                                   *)
SendActiveObjectRemoveAdd(c, ids) == ids \subseteq Live /\ Knows(c, ids)

(* ClientInterface::DeleteClient *)
DeleteClient(c) == m_known_objects[c] # {} /\ Knows(c, {})

(* ~Server: deactivateBlocksAndObjects, then the map is saved and deleted.  *)
Shutdown(quiet, removing) ==
    LET all == DOMAIN objects
        touched == {objects[id].pos : id \in all}
                   \cup ({objects[id].static : id \in all} \ {NoBlock})
        memory == Updated(touched, LAMBDA b : Deactivated(b, {}, all, all, quiet))
    IN  /\ quiet \subseteq {id \in all : objects[id].static = objects[id].pos}
        /\ database' = [b \in MapBlocks |->
               IF b \in DOMAIN memory /\ memory[b].modified THEN Written(memory[b])
               ELSE database[b]]
        /\ objects' = Nothing /\ blocks' = Nothing /\ m_active_blocks' = {}
        /\ down' = TRUE
        /\ removed' = removed \cup Things(removing)
        /\ undone' = undone \cup Things(removing)
        /\ UNCHANGED << m_known_objects, added, moves >>

-----------------------------------------------------------------------------
Manage ==
    \E active \in SUBSET MapBlocks :
       \E quiet \in SUBSET Far(active), removing \in SUBSET Far(active),
          fresh \in UNION {[ids -> Places] : ids \in SUBSET FreeSaoIds} :
           ManageActiveBlocks(active, quiet, removing, fresh)

NextActiveObjects ==
    \/ /\ ~ down
       /\ \/ \E e \in Entities, b \in MapBlocks, id \in SaoIds : AddEntity(e, b, id)
          \/ \E id \in SaoIds, b \in MapBlocks : Move(id, b)
          \/ \E id \in SaoIds : MarkForRemoval(id)
          \/ RemoveRemovedObjects
          \/ Manage
          \/ \E b \in MapBlocks : Load(b) \/ Save(b) \/ Unload(b)
          \/ \E c \in Viewers : \/ DeleteClient(c)
                                \/ \E ids \in SUBSET SaoIds : SendActiveObjectRemoveAdd(c, ids)
          \/ \E quiet \in SUBSET DOMAIN objects, removing \in SUBSET Live :
                Shutdown(quiet, removing)
    \/ down /\ UNCHANGED aovars

SpecActiveObjects == InitActiveObjects /\ [][NextActiveObjects]_aovars

-----------------------------------------------------------------------------
\* serverenvironment.cpp:1775 "objects should be removed only after all clients
\* have been informed about removal": the objects a client knows exist, and are
\* still those it was told of, and m_known_by_count is the number of such clients.
KnownExact ==
    ~ down => \A id \in SaoIds :
        LET knowing == {c \in Viewers : id \in m_known_objects[c]}
        IN  IF id \in DOMAIN objects THEN objects[id].known = Cardinality(knowing)
            ELSE knowing = {}

\* What there is of an entity: objects that are not gone, and static data that
\* is not the copy an object keeps for as long as it is not deactivated.
Instances(e) ==
    LET Kept(b) == {id \in DOMAIN Emerged(b).active :
                      /\ Emerged(b).active[id] = e
                      /\ id \in DOMAIN objects => objects[id].pending = "deactivation"}
        in == {b \in MapBlocks : Emerged(b).stored[e] > 0 \/ Kept(b) # {}}
    IN  [live |-> Cardinality({id \in Live : objects[id].thing = e}),
         blocks |-> in,
         single |-> \A b \in in : Emerged(b).stored[e] + Cardinality(Kept(b)) = 1]

\* An entity that was added and not removed exists once, as an object or as
\* static data: it is neither lost nor doubled by its way between active and
\* inactive blocks, memory and database; and one that was removed is nowhere,
\* unless on_deactivate removed it when no client knew it: then it exists once
\* as if it had not been removed, until it is removed again.
EachOnce ==
    ~ down => \A e \in added :
        /\ Instances(e).live + Cardinality(Instances(e).blocks)
              = IF e \in removed \ undone THEN 0 ELSE 1
        /\ Instances(e).single

\* Once Lua has removed an entity there is nothing of it that could come back, as
\* doc/lua_api.md:8348 has it: "remove(): remove object".
RemovedForGood ==
    ~ down => \A e \in removed : Instances(e).live = 0 /\ Instances(e).blocks = {}

\* An entity that was marked for removal does not come back with the next start
\* of the server: doc/lua_api.md:8348 "remove(): remove object".
RemovedStays ==
    down => \A e \in removed \ undone, b \in MapBlocks : database[b][e] = 0
=============================================================================
