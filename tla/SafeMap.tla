------------------------------ MODULE SafeMap -------------------------------
(***************************************************************************)
(* ActiveObjectMgr (src/src/activeobjectmgr.h, server/activeobjectmgr.cpp) *)
(* and the ModifySafeMap it keeps its objects in (util/container.h).       *)
(*                                                                         *)
(* The map is iterated over while the callbacks of the iteration, which    *)
(* run Lua, add and remove objects and iterate again.  While it is         *)
(* iterated over what is added goes to a second map, and what is removed   *)
(* leaves a null behind; both are tidied up after the outermost iteration. *)
(***************************************************************************)
EXTENDS Naturals, Sequences, FiniteSets, FiniteSetsExt

CONSTANTS
    MaxId,           \* largest identifier: 65535
    Objects,         \* objects
    NoObject,        \* the null pointer
    GC_MIN_SIZE,     \* the map is not collected when it is smaller
    MaxIterations,   \* bound: iterations in one another
    MaxGarbage       \* bound on m_garbage

ASSUME SafeMapAssumption == MaxId \in Nat \ {0} /\ NoObject \notin Objects

VARIABLES
    m_values, m_new,   \* the two maps
    m_garbage,
    iterations,        \* where the IterationHelpers are; m_iterating is their number
    clearing,          \* ActiveObjectMgr::clear is running
    last_used_id

safemapvars == << m_values, m_new, m_garbage, iterations, clearing, last_used_id >>

ObjectIds == 1..MaxId
NoEntries == [id \in {} |-> NoObject]
Iterating == iterations # << >>

InitSafeMap ==
    /\ m_values = NoEntries /\ m_new = NoEntries /\ m_garbage = 0
    /\ iterations = << >> /\ clearing = FALSE
    /\ last_used_id = 0

\* The loop of clear goes on at once when its iteration ends.
Resting == ~(clearing /\ ~Iterating)

-----------------------------------------------------------------------------
(* ModifySafeMap *)

Get(id) ==
    IF Iterating /\ id \in DOMAIN m_new THEN m_new[id]
    ELSE IF id \in DOMAIN m_values THEN m_values[id] ELSE NoObject

WithEntry(map, id, obj) == [i \in DOMAIN map \cup {id} |-> IF i = id THEN obj ELSE map[i]]
Minus(map, id) == [i \in DOMAIN map \ {id} |-> map[i]]

\* What is in the first map is replaced by a null.
Nulled(id) ==
    IF id \in DOMAIN m_values
    THEN /\ m_values' = [m_values EXCEPT ![id] = NoObject]
         /\ m_garbage < MaxGarbage /\ m_garbage' = m_garbage + 1
    ELSE UNCHANGED << m_values, m_garbage >>

PutEntry(id, obj) ==
    IF Iterating
    THEN m_new' = WithEntry(m_new, id, obj) /\ Nulled(id)
    ELSE m_values' = WithEntry(m_values, id, obj) /\ UNCHANGED << m_new, m_garbage >>

TakeEntry(id) ==
    IF Iterating
    THEN m_new' = Minus(m_new, id) /\ Nulled(id)
    ELSE m_values' = Minus(m_values, id) /\ UNCHANGED << m_new, m_garbage >>

Empty ==
    IF m_garbage = 0 THEN m_values = NoEntries
    ELSE \A id \in DOMAIN m_values : m_values[id] = NoObject

\* Mutant: map::merge keeps what the map has, the nulls included.
Bug_Merged ==
    [id \in DOMAIN m_new \cup DOMAIN m_values |->
        IF id \in DOMAIN m_values THEN m_values[id] ELSE m_new[id]]

\* merge_new: the new entries take precedence.
Merged ==
    IF m_new = NoEntries THEN m_values
    ELSE [id \in DOMAIN m_new \cup DOMAIN m_values |->
             IF id \in DOMAIN m_new THEN m_new[id] ELSE m_values[id]]

(* ~IterationHelper, with collect_garbage. *)
LeaveIteration ==
    LET kept == {id \in DOMAIN Merged : Merged[id] # NoObject}
        collect == Cardinality(DOMAIN Merged) >= GC_MIN_SIZE
                   /\ m_garbage >= Cardinality(DOMAIN Merged) \div 2
    IN  /\ iterations' = SubSeq(iterations, 1, Len(iterations) - 1)
        /\ IF Len(iterations) > 1 THEN UNCHANGED << m_values, m_new, m_garbage >>
           ELSE /\ m_new' = NoEntries
                /\ m_values' = IF collect THEN [id \in kept |-> Merged[id]] ELSE Merged
                /\ m_garbage' = IF collect THEN 0 ELSE m_garbage

-----------------------------------------------------------------------------
(* ActiveObjectMgr *)

IsFreeId(id) == id # 0 /\ Get(id) = NoObject

\* getFreeId: the next one that is free, counting from the one used last.
FreeIds == {k \in 1..(MaxId + 1) : IsFreeId((last_used_id + k) % (MaxId + 1))}

(* registerObject, of an object without an identifier: fails when none is  *)
(* free and, the identifier spent, when the object is outside the world.   *)
RegisterObject(obj, over_limit) ==
    LET id == (last_used_id + Min(FreeIds)) % (MaxId + 1)
    IN  /\ Resting
        /\ FreeIds # {}
        /\ last_used_id' = id
        /\ IF over_limit THEN UNCHANGED << m_values, m_new, m_garbage >> ELSE PutEntry(id, obj)
        /\ UNCHANGED << iterations, clearing >>

(* removeObject, and what clearIf does with an object *)
RemoveObject(id) ==
    /\ Resting
    /\ Get(id) # NoObject
    /\ TakeEntry(id)
    /\ UNCHANGED << iterations, clearing, last_used_id >>

(* step, clearIf and the searches begin to iterate. *)
Iterate ==
    /\ Resting
    /\ Len(iterations) < MaxIterations
    /\ iterations' = Append(iterations, [at |-> 0, object |-> NoObject])
    /\ UNCHANGED << m_values, m_new, m_garbage, clearing, last_used_id >>

At == iterations[Len(iterations)].at
Ahead == {id \in DOMAIN m_values : id > At /\ m_values[id] # NoObject}

\* The iteration moves on to an entry that is not null, and in clear removes it.
Visit ==
    /\ Iterating /\ Ahead # {}
    /\ LET id == Min(Ahead)
       IN  /\ iterations' = [iterations EXCEPT ![Len(iterations)] =
                                [at |-> id, object |-> m_values[id]]]
           /\ IF clearing /\ Len(iterations) = 1 THEN TakeEntry(id)
              ELSE UNCHANGED << m_values, m_new, m_garbage >>
    /\ UNCHANGED << clearing, last_used_id >>

Finish ==
    /\ Iterating /\ Ahead = {}
    /\ LeaveIteration
    /\ UNCHANGED << clearing, last_used_id >>

(* clear: iterates and removes until the map is empty, as what is removed  *)
(* may add objects; called when the environment is destroyed.              *)
ClearBegins ==
    /\ ~clearing /\ ~Iterating
    /\ clearing' = TRUE
    /\ UNCHANGED << m_values, m_new, m_garbage, iterations, last_used_id >>

ClearAgain ==
    /\ clearing /\ ~Iterating /\ ~Empty
    /\ iterations' = << [at |-> 0, object |-> NoObject] >>
    /\ UNCHANGED << m_values, m_new, m_garbage, clearing, last_used_id >>

ClearEnds ==
    /\ clearing /\ ~Iterating /\ Empty
    /\ clearing' = FALSE
    /\ UNCHANGED << m_values, m_new, m_garbage, iterations, last_used_id >>

NextSafeMap ==
    \/ \E obj \in Objects, over_limit \in BOOLEAN : RegisterObject(obj, over_limit)
    \/ \E id \in ObjectIds : RemoveObject(id)
    \/ Iterate \/ Visit \/ Finish
    \/ ClearBegins \/ ClearAgain \/ ClearEnds

SpecSafeMap == InitSafeMap /\ [][NextSafeMap]_safemapvars

-----------------------------------------------------------------------------
LiveIds == {id \in ObjectIds : Get(id) # NoObject}
LiveObjects == [id \in LiveIds |-> Get(id)]

\* The identifiers whose object was there when iterating began and still is.
Lasting == IF Iterating THEN {id \in DOMAIN m_values : m_values[id] # NoObject} ELSE {}

\* Where the iterations are; before the first object they have none.
Pass(it) == IF it.at = 0 THEN [at |-> 0, object |-> 0] ELSE it
Passes == [i \in DOMAIN iterations |-> Pass(iterations[i])]

(* container.h:314 and activeobjectmgr.h:37: however it is changed while   *)
(* it is iterated over, the map is a map, an iteration comes to what was   *)
(* there and still is, and clear leaves nothing.                           *)
Plain == INSTANCE PlainMap WITH
    objects <- LiveObjects, lasting <- Lasting, iterations <- Passes

SafeToModify == Plain!PlainMapSpec
=============================================================================
