------------------------------ MODULE PlainMap ------------------------------
(***************************************************************************)
(* What the manager of the active objects promises while its objects, as   *)
(* they are stepped, add and remove others: it is a map from identifiers   *)
(* to objects; an iteration comes to each object that was there when the   *)
(* outermost one began and is still there, once, in the order of the       *)
(* identifiers, and to no other; and clearing it leaves nothing.           *)
(***************************************************************************)
EXTENDS Naturals, Sequences

CONSTANTS ObjectIds, Objects

VARIABLES
    objects,      \* the object of each identifier in use
    lasting,      \* the identifiers whose object was there when iterating began
    iterations,   \* the iterations under way, the innermost last
    clearing      \* the manager is being cleared

plainmapvars == << objects, lasting, iterations, clearing >>

PlainMapInit ==
    /\ objects = [id \in {} |-> 0] /\ lasting = {}
    /\ iterations = << >> /\ clearing = FALSE

Add(id, obj) ==
    /\ id \notin DOMAIN objects
    /\ objects' = [i \in DOMAIN objects \cup {id} |-> IF i = id THEN obj ELSE objects[i]]
    /\ UNCHANGED << lasting, iterations, clearing >>

Without(id) ==
    /\ objects' = [i \in DOMAIN objects \ {id} |-> objects[i]]
    /\ lasting' = lasting \ {id}

Drop(id) == Without(id) /\ UNCHANGED << iterations, clearing >>

StartIteration ==
    /\ iterations' = Append(iterations, [at |-> 0, object |-> 0])
    /\ lasting' = IF iterations = << >> THEN DOMAIN objects ELSE lasting
    /\ UNCHANGED << objects, clearing >>

Innermost == iterations[Len(iterations)]
Outer == SubSeq(iterations, 1, Len(iterations) - 1)

\* An iteration comes to its next object; one that clears removes it.
ComeTo(id) ==
    /\ iterations # << >>
    /\ id \in lasting /\ id > Innermost.at
    /\ \A i \in lasting : i > Innermost.at => id <= i
    /\ iterations' = Append(Outer, [at |-> id, object |-> objects[id]])
    /\ IF clearing /\ Outer = << >> THEN Without(id) ELSE UNCHANGED << objects, lasting >>
    /\ UNCHANGED clearing

EndIteration ==
    /\ iterations # << >>
    /\ \A i \in lasting : i <= Innermost.at
    /\ iterations' = Outer
    /\ lasting' = IF Outer = << >> THEN {} ELSE lasting
    /\ UNCHANGED << objects, clearing >>

StartClear == ~clearing /\ clearing' = TRUE /\ UNCHANGED << objects, lasting, iterations >>

EndClear ==
    /\ clearing /\ objects = [id \in {} |-> 0]
    /\ clearing' = FALSE
    /\ UNCHANGED << objects, lasting, iterations >>

PlainMapNext ==
    \/ \E id \in ObjectIds : \/ \E obj \in Objects : Add(id, obj)
                             \/ Drop(id)
                             \/ ComeTo(id)
    \/ StartIteration \/ EndIteration
    \/ StartClear \/ EndClear

PlainMapSpec == PlainMapInit /\ [][PlainMapNext]_plainmapvars
=============================================================================
