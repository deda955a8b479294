--------------------------- MODULE ContainerProofs ---------------------------
(***************************************************************************)
(* The two containers of the server that keep one thing in two places:     *)
(*   - the map of the active objects, which has a second map while it is   *)
(*     iterated over, implements a plain map (PlainMap) for every number   *)
(*     of identifiers and objects, however deep iterations are nested and  *)
(*     whatever they add and remove;                                       *)
(*   - the node timers of a block, a list in the order in which they run   *)
(*     out with an index by node and the time of the first, implement a    *)
(*     set of timers (TimerSet) for every node, timeout and step of time,  *)
(*     as long as no timer runs out at the time that stands for none.      *)
(***************************************************************************)
EXTENDS SafeMap, NodeTimers, SequenceTheorems, WellFoundedInduction, TLAPS

Iteration == [at : 0 .. MaxId, object : Objects \cup {NoObject}]

MapTypeOK ==
    /\ DOMAIN m_values \subseteq ObjectIds
    /\ m_values \in [DOMAIN m_values -> Objects \cup {NoObject}]
    /\ DOMAIN m_new \subseteq ObjectIds
    /\ m_new \in [DOMAIN m_new -> Objects]
    /\ m_garbage \in Nat
    /\ iterations \in Seq(Iteration)
    /\ clearing \in BOOLEAN
    /\ last_used_id \in 0 .. MaxId

\* The second map is for the time of an iteration, and has nothing that is in
\* the first.
Apart ==
    /\ ~ Iterating => m_new = NoEntries
    /\ \A id \in DOMAIN m_new \cap DOMAIN m_values : m_values[id] = NoObject

MapInv == MapTypeOK /\ Apart

-----------------------------------------------------------------------------
(* The map seen as one *)

\* A step leaves the map as one, or puts obj at k (takes what is there: NoObject).
Unmoved == \A id \in ObjectIds : Get(id)' = Get(id)
Moved(k, obj) ==
    /\ Get(k)' = obj
    /\ \A id \in ObjectIds : id # k => Get(id)' = Get(id)

\* What no identifier gets a different object from is the same map.
LEMMA SameObjects ==
    ASSUME Unmoved
    PROVE  LiveObjects' = LiveObjects
<1>1. LiveIds' = LiveIds
  BY DEF Unmoved, LiveIds
<1>2. \A id \in LiveIds : Get(id)' = Get(id)
  BY DEF Unmoved, LiveIds
<1>3. QED
  BY <1>1, <1>2 DEF LiveObjects

\* An object put at a free identifier is one entry more.
LEMMA ObjectAdded ==
    ASSUME NEW k \in ObjectIds, NEW obj \in Objects, Get(k) = NoObject, Moved(k, obj)
    PROVE  /\ k \notin DOMAIN LiveObjects
           /\ LiveObjects' = [i \in DOMAIN LiveObjects \cup {k} |->
                                 IF i = k THEN obj ELSE LiveObjects[i]]
<1>1. LiveIds' = LiveIds \cup {k} /\ k \notin LiveIds
  BY SafeMapAssumption DEF Moved, LiveIds
<1>2. \A id \in LiveIds' : Get(id)' = IF id = k THEN obj ELSE Get(id)
  BY DEF Moved, LiveIds
<1>3. QED
  BY <1>1, <1>2 DEF LiveObjects

\* A null put at an identifier is its entry less.
LEMMA ObjectDropped ==
    ASSUME NEW k \in ObjectIds, Moved(k, NoObject)
    PROVE  LiveObjects' = [i \in DOMAIN LiveObjects \ {k} |-> LiveObjects[i]]
<1>1. LiveIds' = LiveIds \ {k}
  BY DEF Moved, LiveIds
<1>2. \A id \in LiveIds' : Get(id)' = Get(id)
  BY <1>1 DEF Moved, LiveIds
<1>3. QED
  BY <1>1, <1>2 DEF LiveObjects

-----------------------------------------------------------------------------
(* ModifySafeMap *)

\* What the operations leave behind.
MapsOK ==
    /\ DOMAIN m_values \subseteq ObjectIds
    /\ m_values \in [DOMAIN m_values -> Objects \cup {NoObject}]
    /\ DOMAIN m_new \subseteq ObjectIds
    /\ m_new \in [DOMAIN m_new -> Objects]
    /\ m_garbage \in Nat
    /\ Apart

\* Nulling an identifier leaves the domain of the first map alone.
LEMMA NulledIs ==
    ASSUME MapInv, NEW k \in ObjectIds, Nulled(k)
    PROVE  /\ DOMAIN m_values' = DOMAIN m_values
           /\ m_values' \in [DOMAIN m_values -> Objects \cup {NoObject}]
           /\ \A i \in DOMAIN m_values : m_values'[i] = IF i = k THEN NoObject ELSE m_values[i]
           /\ m_garbage' \in Nat
<1>1. CASE k \in DOMAIN m_values
  BY <1>1 DEF Nulled, MapInv, MapTypeOK
<1>2. CASE k \notin DOMAIN m_values
  BY <1>2 DEF Nulled, MapInv, MapTypeOK
<1>3. QED
  BY <1>1, <1>2

\* ModifySafeMap::put, of an identifier that is free.
LEMMA PutIs ==
    ASSUME MapInv, NEW k \in ObjectIds, NEW obj \in Objects, Get(k) = NoObject,
           PutEntry(k, obj), iterations' = iterations
    PROVE  MapsOK' /\ Moved(k, obj) /\ Lasting' = Lasting
<1>1. Iterating' = Iterating
  BY DEF Iterating
<1>2. CASE Iterating
  <2>1. m_new' = WithEntry(m_new, k, obj) /\ Nulled(k)
    BY <1>2 DEF PutEntry
  <2>2. /\ DOMAIN m_values' = DOMAIN m_values
        /\ m_values' \in [DOMAIN m_values -> Objects \cup {NoObject}]
        /\ \A i \in DOMAIN m_values : m_values'[i] = IF i = k THEN NoObject ELSE m_values[i]
        /\ m_garbage' \in Nat
    BY <2>1, NulledIs
  <2>3. /\ DOMAIN m_new' = DOMAIN m_new \cup {k}
        /\ \A i \in DOMAIN m_new' : m_new'[i] = IF i = k THEN obj ELSE m_new[i]
        /\ m_new' \in [DOMAIN m_new' -> Objects]
    BY <2>1 DEF WithEntry, MapInv, MapTypeOK
  <2>4. k \notin DOMAIN m_new /\ (k \in DOMAIN m_values => m_values[k] = NoObject)
    BY <1>2, SafeMapAssumption DEF Get, MapInv, MapTypeOK
  <2>5. MapsOK'
    BY <1>1, <1>2, <2>2, <2>3 DEF MapsOK, MapInv, MapTypeOK, Apart
  <2>6. Moved(k, obj)
    BY <1>1, <1>2, <2>2, <2>3 DEF Moved, Get
  <2>7. Lasting' = Lasting
    BY <1>1, <2>2, <2>4 DEF Lasting
  <2>8. QED
    BY <2>5, <2>6, <2>7
<1>3. CASE ~ Iterating
  <2>1. m_values' = WithEntry(m_values, k, obj) /\ UNCHANGED << m_new, m_garbage >>
    BY <1>3 DEF PutEntry
  <2>2. /\ DOMAIN m_values' = DOMAIN m_values \cup {k}
        /\ \A i \in DOMAIN m_values' : m_values'[i] = IF i = k THEN obj ELSE m_values[i]
        /\ m_values' \in [DOMAIN m_values' -> Objects \cup {NoObject}]
    BY <2>1 DEF WithEntry, MapInv, MapTypeOK
  <2>3. MapsOK'
    BY <1>1, <1>3, <2>1, <2>2 DEF MapsOK, MapInv, MapTypeOK, Apart, NoEntries
  <2>4. Moved(k, obj)
    BY <1>1, <1>3, <2>2 DEF Moved, Get
  <2>5. QED
    BY <1>1, <1>3, <2>3, <2>4 DEF Lasting
<1>4. QED
  BY <1>2, <1>3

\* ModifySafeMap::take and remove.
LEMMA TakeIs ==
    ASSUME MapInv, NEW k \in ObjectIds, TakeEntry(k), Iterating' = Iterating
    PROVE  MapsOK' /\ Moved(k, NoObject) /\ Lasting' = Lasting \ {k}
<1>2. CASE Iterating
  <2>1. m_new' = Minus(m_new, k) /\ Nulled(k)
    BY <1>2 DEF TakeEntry
  <2>2. /\ DOMAIN m_values' = DOMAIN m_values
        /\ m_values' \in [DOMAIN m_values -> Objects \cup {NoObject}]
        /\ \A i \in DOMAIN m_values : m_values'[i] = IF i = k THEN NoObject ELSE m_values[i]
        /\ m_garbage' \in Nat
    BY <2>1, NulledIs
  <2>3. /\ DOMAIN m_new' = DOMAIN m_new \ {k}
        /\ \A i \in DOMAIN m_new' : m_new'[i] = m_new[i]
        /\ m_new' \in [DOMAIN m_new' -> Objects]
    BY <2>1 DEF Minus, MapInv, MapTypeOK
  <2>4. MapsOK'
    BY <1>2, <2>2, <2>3 DEF MapsOK, MapInv, MapTypeOK, Apart
  <2>5. Moved(k, NoObject)
    BY <1>2, <2>2, <2>3 DEF Moved, Get
  <2>6. Lasting' = Lasting \ {k}
    BY <1>2, <2>2 DEF Lasting
  <2>7. QED
    BY <2>4, <2>5, <2>6
<1>3. CASE ~ Iterating
  <2>1. m_values' = Minus(m_values, k) /\ UNCHANGED << m_new, m_garbage >>
    BY <1>3 DEF TakeEntry
  <2>2. /\ DOMAIN m_values' = DOMAIN m_values \ {k}
        /\ \A i \in DOMAIN m_values' : m_values'[i] = m_values[i]
        /\ m_values' \in [DOMAIN m_values' -> Objects \cup {NoObject}]
    BY <2>1 DEF Minus, MapInv, MapTypeOK
  <2>3. MapsOK'
    BY <1>3, <2>1, <2>2 DEF MapsOK, MapInv, MapTypeOK, Apart, NoEntries
  <2>4. Moved(k, NoObject)
    BY <1>3, <2>2 DEF Moved, Get
  <2>5. QED
    BY <1>3, <2>3, <2>4 DEF Lasting
<1>4. QED
  BY <1>2, <1>3

\* merge_new
LEMMA MergedIs ==
    ASSUME MapInv
    PROVE  /\ DOMAIN Merged \subseteq ObjectIds
           /\ Merged \in [DOMAIN Merged -> Objects \cup {NoObject}]
           /\ \A i \in ObjectIds :
                 (IF i \in DOMAIN Merged THEN Merged[i] ELSE NoObject)
                 = IF i \in DOMAIN m_new THEN m_new[i]
                   ELSE IF i \in DOMAIN m_values THEN m_values[i] ELSE NoObject
<1>1. CASE m_new = NoEntries
  <2>1. DOMAIN m_new = {} /\ Merged = m_values
    BY <1>1 DEF NoEntries, Merged
  <2>2. QED
    BY <2>1 DEF MapInv, MapTypeOK
<1>2. CASE m_new # NoEntries
  <2>1. Merged = [id \in DOMAIN m_new \cup DOMAIN m_values |->
                     IF id \in DOMAIN m_new THEN m_new[id] ELSE m_values[id]]
    BY <1>2 DEF Merged
  <2>2. QED
    BY <2>1 DEF MapInv, MapTypeOK
<1>3. QED
  BY <1>1, <1>2

-----------------------------------------------------------------------------
(* The iterations under way *)

\* A sequence without its last element.
LEMMA AllButLast ==
    ASSUME NEW T, NEW s \in Seq(T), s # <<>>
    PROVE  /\ SubSeq(s, 1, Len(s) - 1) \in Seq(T)
           /\ Len(SubSeq(s, 1, Len(s) - 1)) = Len(s) - 1
           /\ \A i \in 1 .. Len(s) - 1 : SubSeq(s, 1, Len(s) - 1)[i] = s[i]
<1>1. Len(s) \in Nat \ {0} /\ \A i \in 1 .. Len(s) : s[i] \in T
  BY EmptySeq, ElementOfSeq
<1>2. PICK n \in Int : n = Len(s) - 1
  BY <1>1
<1>3. \A i \in 1 .. n : s[i] \in T
  BY <1>1, <1>2
<1>4. /\ SubSeq(s, 1, n) \in Seq(T)
      /\ Len(SubSeq(s, 1, n)) = IF 1 <= n THEN n - 1 + 1 ELSE 0
      /\ \A i \in 1 .. n - 1 + 1 : SubSeq(s, 1, n)[i] = s[1 + i - 1]
  BY <1>3, SubSeqProperties
<1>5. QED
  BY <1>1, <1>2, <1>4

Passing == [at : 0 .. MaxId, object : Objects \cup {NoObject, 0}]

PassesOf(s) == [i \in DOMAIN s |-> Pass(s[i])]

\* Each iteration is one pass over the plain map.
LEMMA PassesAre ==
    ASSUME NEW s \in Seq(Iteration)
    PROVE  /\ PassesOf(s) \in Seq(Passing) /\ Len(PassesOf(s)) = Len(s)
           /\ \A i \in 1 .. Len(s) : PassesOf(s)[i] = Pass(s[i])
<1>1. /\ DOMAIN s = 1 .. Len(s) /\ Len(s) \in Nat
      /\ \A i \in 1 .. Len(s) : s[i] \in Iteration
  BY LenProperties, ElementOfSeq
<1>2. \A i \in 1 .. Len(s) : Pass(s[i]) \in Passing
  BY <1>1, SafeMapAssumption DEF Pass, Passing, Iteration
<1> DEFINE p == [i \in 1 .. Len(s) |-> Pass(s[i])]
<1>3. PassesOf(s) = p
  BY <1>1 DEF PassesOf
<1>4. p \in Seq(Passing)
  <2>1. \A i \in 1 .. Len(s) : p[i] \in Passing
    BY <1>2
  <2>2. QED
    BY <1>1, <2>1
<1>5. DOMAIN p = 1 .. Len(s) /\ \A i \in 1 .. Len(s) : p[i] = Pass(s[i])
  OBVIOUS
<1> HIDE DEF p
<1>6. Len(p) = Len(s)
  BY <1>1, <1>4, <1>5
<1>7. QED
  BY <1>3, <1>4, <1>5, <1>6

\* An iteration that begins is a pass at its beginning.
LEMMA PassesStart ==
    ASSUME iterations \in Seq(Iteration),
           iterations' = Append(iterations, [at |-> 0, object |-> NoObject])
    PROVE  /\ iterations' \in Seq(Iteration) /\ iterations' # <<>>
           /\ Passes' = Append(Passes, [at |-> 0, object |-> 0])
<1>1. [at |-> 0, object |-> NoObject] \in Iteration /\ [at |-> 0, object |-> 0] \in Passing
  BY SafeMapAssumption DEF Iteration, Passing
<1>2. /\ iterations' \in Seq(Iteration) /\ iterations' # <<>>
      /\ Len(iterations) \in Nat /\ Len(iterations') = Len(iterations) + 1
      /\ \A i \in 1 .. Len(iterations) : iterations'[i] = iterations[i]
      /\ iterations'[Len(iterations) + 1] = [at |-> 0, object |-> NoObject]
  BY <1>1, AppendProperties, LenProperties
<1>3. /\ Passes \in Seq(Passing) /\ Len(Passes) = Len(iterations)
      /\ \A i \in 1 .. Len(iterations) : Passes[i] = Pass(iterations[i])
  BY PassesAre DEF Passes, PassesOf
<1>4. /\ Passes' \in Seq(Passing) /\ Len(Passes') = Len(iterations')
      /\ \A i \in 1 .. Len(iterations') : Passes'[i] = Pass(iterations'[i])
  BY <1>2, PassesAre DEF Passes, PassesOf
<1>5. PICK e : e = [at |-> 0, object |-> 0] /\ e \in Passing
  BY <1>1
<1>6. /\ Append(Passes, e) \in Seq(Passing) /\ Len(Append(Passes, e)) = Len(Passes) + 1
      /\ \A i \in 1 .. Len(Passes) : Append(Passes, e)[i] = Passes[i]
      /\ Append(Passes, e)[Len(Passes) + 1] = e
  BY <1>3, <1>5, AppendProperties
<1>7. Pass([at |-> 0, object |-> NoObject]) = e
  BY <1>5 DEF Pass
<1>8. \A i \in 1 .. Len(Passes') : Passes'[i] = Append(Passes, e)[i]
  BY <1>2, <1>3, <1>4, <1>6, <1>7
<1>9. Passes' = Append(Passes, e)
  BY <1>2, <1>3, <1>4, <1>6, <1>8, SeqEqual
<1>10. QED
  BY <1>2, <1>5, <1>9

\* The innermost iteration ends: so does the last pass.
LEMMA PassesEnd ==
    ASSUME iterations \in Seq(Iteration), iterations # <<>>,
           iterations' = SubSeq(iterations, 1, Len(iterations) - 1)
    PROVE  Passes' = SubSeq(Passes, 1, Len(Passes) - 1)
<1>1. /\ Passes \in Seq(Passing) /\ Len(Passes) = Len(iterations)
      /\ \A i \in 1 .. Len(iterations) : Passes[i] = Pass(iterations[i])
      /\ Len(iterations) \in Nat \ {0}
  BY PassesAre, EmptySeq DEF Passes, PassesOf
<1>2. /\ iterations' \in Seq(Iteration) /\ Len(iterations') = Len(iterations) - 1
      /\ \A i \in 1 .. Len(iterations) - 1 : iterations'[i] = iterations[i]
  BY AllButLast
<1>3. /\ Passes' \in Seq(Passing) /\ Len(Passes') = Len(iterations')
      /\ \A i \in 1 .. Len(iterations') : Passes'[i] = Pass(iterations'[i])
  BY <1>2, PassesAre DEF Passes, PassesOf
<1>4. PICK q : q = SubSeq(Passes, 1, Len(Passes) - 1)
  OBVIOUS
<1>5. /\ q \in Seq(Passing) /\ Len(q) = Len(Passes) - 1
      /\ \A i \in 1 .. Len(Passes) - 1 : q[i] = Passes[i]
  <2>1. Passes # <<>>
    BY <1>1, EmptySeq
  <2>2. QED
    BY <1>1, <1>4, <2>1, AllButLast
<1>6. \A i \in 1 .. Len(Passes') : Passes'[i] = q[i]
  BY <1>1, <1>2, <1>3, <1>5
<1>7. Passes' = q
  BY <1>1, <1>2, <1>3, <1>5, <1>6, SeqEqual
<1>8. QED
  BY <1>4, <1>7

\* The innermost iteration comes to an object: so does the last pass.
LEMMA PassesVisit ==
    ASSUME iterations \in Seq(Iteration), iterations # <<>>,
           NEW k \in ObjectIds, NEW obj \in Objects,
           iterations' = [iterations EXCEPT ![Len(iterations)] = [at |-> k, object |-> obj]]
    PROVE  /\ iterations' \in Seq(Iteration) /\ iterations' # <<>>
           /\ Passes' = Append(SubSeq(Passes, 1, Len(Passes) - 1), [at |-> k, object |-> obj])
<1>1. /\ Passes \in Seq(Passing) /\ Len(Passes) = Len(iterations)
      /\ \A i \in 1 .. Len(iterations) : Passes[i] = Pass(iterations[i])
      /\ Len(iterations) \in Nat \ {0}
  BY PassesAre, EmptySeq DEF Passes, PassesOf
<1>2. PICK e : e = [at |-> k, object |-> obj]
  OBVIOUS
<1>3. e \in Iteration /\ e \in Passing /\ Pass(e) = e
  BY <1>2, SafeMapAssumption DEF Iteration, Passing, Pass, ObjectIds
<1>4. /\ iterations' \in Seq(Iteration) /\ Len(iterations') = Len(iterations)
      /\ \A i \in 1 .. Len(iterations) :
            iterations'[i] = IF i = Len(iterations) THEN e ELSE iterations[i]
  <2>1. PICK n \in 1 .. Len(iterations) : n = Len(iterations)
    BY <1>1
  <2>2. iterations' = [iterations EXCEPT ![n] = e]
    BY <1>2, <2>1
  <2>3. QED
    BY <1>3, <2>1, <2>2, ExceptSeq
<1>5. /\ Passes' \in Seq(Passing) /\ Len(Passes') = Len(iterations')
      /\ \A i \in 1 .. Len(iterations') : Passes'[i] = Pass(iterations'[i])
  BY <1>4, PassesAre DEF Passes, PassesOf
<1>6. PICK q : q = SubSeq(Passes, 1, Len(Passes) - 1)
  OBVIOUS
<1>7. /\ q \in Seq(Passing) /\ Len(q) = Len(Passes) - 1
      /\ \A i \in 1 .. Len(Passes) - 1 : q[i] = Passes[i]
  <2>1. Passes # <<>>
    BY <1>1, EmptySeq
  <2>2. QED
    BY <1>1, <1>6, <2>1, AllButLast
<1>8. /\ Append(q, e) \in Seq(Passing) /\ Len(Append(q, e)) = Len(q) + 1
      /\ \A i \in 1 .. Len(q) : Append(q, e)[i] = q[i]
      /\ Append(q, e)[Len(q) + 1] = e
  BY <1>3, <1>7, AppendProperties
<1>9. ASSUME NEW i \in 1 .. Len(Passes')
      PROVE  Passes'[i] = Append(q, e)[i]
  <2>1. i \in 1 .. Len(iterations) /\ Passes'[i] = Pass(iterations'[i])
    BY <1>4, <1>5
  <2>2. CASE i = Len(iterations)
    BY <1>1, <1>3, <1>4, <1>7, <1>8, <2>1, <2>2
  <2>3. CASE i # Len(iterations)
    <3>1. i \in 1 .. Len(q) /\ i \in 1 .. Len(Passes) - 1
      BY <1>1, <1>7, <2>1, <2>3
    <3>2. Append(q, e)[i] = Passes[i]
      BY <1>7, <1>8, <3>1
    <3>3. iterations'[i] = iterations[i]
      BY <1>4, <2>1, <2>3
    <3>4. QED
      BY <1>1, <2>1, <3>2, <3>3
  <2>4. QED
    BY <2>2, <2>3
<1>10. Passes' = Append(q, e)
  BY <1>1, <1>4, <1>5, <1>7, <1>8, <1>9, SeqEqual
<1>11. iterations' # <<>>
  BY <1>1, <1>4, EmptySeq
<1>12. QED
  BY <1>2, <1>4, <1>6, <1>10, <1>11

-----------------------------------------------------------------------------
\* ~IterationHelper
LEMMA LeaveIs ==
    ASSUME MapInv, Iterating, LeaveIteration
    PROVE  /\ MapsOK' /\ Unmoved
           /\ iterations' = SubSeq(iterations, 1, Len(iterations) - 1)
           /\ iterations' \in Seq(Iteration)
           /\ Lasting' = IF Iterating' THEN Lasting ELSE {}
<1>1. /\ iterations \in Seq(Iteration) /\ Len(iterations) \in Nat /\ Len(iterations) > 0
      /\ iterations' = SubSeq(iterations, 1, Len(iterations) - 1)
  BY DEF LeaveIteration, MapInv, MapTypeOK, Iterating
<1>2. /\ iterations' \in Seq(Iteration)
      /\ Len(iterations') = Len(iterations) - 1
  BY <1>1, AllButLast
<1>3. CASE Len(iterations) > 1
  <2>1. UNCHANGED << m_values, m_new, m_garbage >>
    BY <1>3 DEF LeaveIteration
  <2>0. Iterating'
    <3>1. Len(iterations') > 0
      BY <1>1, <1>2, <1>3
    <3>2. QED
      BY <3>1, EmptySeq DEF Iterating
  <2>2. QED
    BY <1>1, <1>2, <2>0, <2>1 DEF MapsOK, MapInv, MapTypeOK, Apart, Unmoved, Get, Lasting
<1>4. CASE ~ (Len(iterations) > 1)
  <2>1. PICK M : M = Merged
    OBVIOUS
  <2> DEFINE kept == {id \in DOMAIN M : M[id] # NoObject}
  <2>2. /\ m_new' = NoEntries
        /\ \/ m_values' = M /\ m_garbage' = m_garbage
           \/ m_values' = [id \in kept |-> M[id]] /\ m_garbage' = 0
    BY <1>4, <2>1 DEF LeaveIteration
  <2>3. ~ Iterating'
    BY <1>1, <1>2, <1>4 DEF Iterating
  <2>4. DOMAIN m_new' = {}
    BY <2>2 DEF NoEntries
  <2>5. /\ DOMAIN M \subseteq ObjectIds
        /\ M \in [DOMAIN M -> Objects \cup {NoObject}]
        /\ \A i \in ObjectIds : (IF i \in DOMAIN M THEN M[i] ELSE NoObject) = Get(i)
    BY <2>1, MergedIs DEF Get
  <2>6. /\ DOMAIN m_values' \subseteq ObjectIds
        /\ m_values' \in [DOMAIN m_values' -> Objects \cup {NoObject}]
        /\ \A i \in ObjectIds : (IF i \in DOMAIN m_values' THEN m_values'[i] ELSE NoObject) = Get(i)
        /\ m_garbage' \in Nat
    <3>1. CASE m_values' = M /\ m_garbage' = m_garbage
      BY <2>5, <3>1 DEF MapInv, MapTypeOK
    <3>2. CASE m_values' = [id \in kept |-> M[id]] /\ m_garbage' = 0
      BY <2>5, <3>2
    <3>3. QED
      BY <2>2, <3>1, <3>2
  <2>7. Unmoved
    BY <2>3, <2>6 DEF Unmoved, Get
  <2>8. MapsOK'
    BY <2>2, <2>3, <2>4, <2>6 DEF MapsOK, Apart, NoEntries
  <2>9. QED
    BY <1>1, <1>2, <2>3, <2>7, <2>8 DEF Lasting
<1>5. QED
  BY <1>3, <1>4

-----------------------------------------------------------------------------
(* The steps *)

\* A nonempty set of naturals has a least element.
LEMMA MinOf ==
    ASSUME NEW S \in SUBSET Nat, S # {}
    PROVE  Min(S) \in S /\ \A y \in S : Min(S) <= y
<1>1. PICK x \in S : \A y \in S : ~ (<<y, x>> \in OpToRel(<, Nat))
  BY NatLessThanWellFounded, WFMin
<1>2. \A y \in S : x <= y
  <2> SUFFICES ASSUME NEW y \in S PROVE x <= y
    OBVIOUS
  <2>1. y \in Nat /\ x \in Nat
    OBVIOUS
  <2>2. ~ (y < x)
    BY <1>1, <2>1 DEF OpToRel
  <2>3. QED
    BY <2>1, <2>2
<1>3. QED
  BY <1>2 DEF Min

\* A step keeps the invariant and is one of the plain map, or a stutter.
Good == MapInv' /\ [Plain!PlainMapNext]_(Plain!plainmapvars)

\* Nothing that matters to the plain map changes.
LEMMA StutterGood ==
    ASSUME MapInv, UNCHANGED << m_values, m_new, m_garbage, iterations, clearing >>,
           last_used_id' \in 0 .. MaxId
    PROVE  Good
<1>1. Iterating' = Iterating
  BY DEF Iterating
<1>2. MapInv'
  BY <1>1 DEF MapInv, MapTypeOK, Apart
<1>3. Unmoved /\ Lasting' = Lasting /\ Passes' = Passes
  BY <1>1 DEF Unmoved, Get, Lasting, Passes
<1>4. UNCHANGED Plain!plainmapvars
  BY <1>3, SameObjects DEF Plain!plainmapvars
<1>5. QED
  BY <1>2, <1>4 DEF Good

\* registerObject, whether or not it finds a free identifier.
LEMMA RegisterGood ==
    ASSUME MapInv, NEW obj \in Objects, NEW over_limit \in BOOLEAN,
           RegisterObject(obj, over_limit)
    PROVE  Good
<1> DEFINE k == (last_used_id + Min(FreeIds)) % (MaxId + 1)
<1>1. k \in ObjectIds /\ Get(k) = NoObject
  <2>1. FreeIds # {} /\ FreeIds \in SUBSET Nat
    BY SafeMapAssumption DEF RegisterObject, FreeIds
  <2>2. Min(FreeIds) \in FreeIds
    BY <2>1, MinOf
  <2>3. IsFreeId(k) /\ Min(FreeIds) \in 1 .. MaxId + 1
    BY <2>2 DEF FreeIds
  <2>4. last_used_id \in 0 .. MaxId /\ MaxId \in Nat
    BY SafeMapAssumption DEF MapInv, MapTypeOK
  <2>5. k \in 0 .. MaxId
    <3>1. PICK m \in Nat, n \in Nat : m = last_used_id + Min(FreeIds) /\ n = MaxId + 1 /\ n > 0
      BY <2>3, <2>4
    <3>2. m % n \in 0 .. n - 1
      BY <3>1
    <3>3. QED
      BY <2>4, <3>1, <3>2
  <2>6. QED
    BY <2>3, <2>4, <2>5 DEF IsFreeId, ObjectIds
<1>2. /\ last_used_id' = k /\ UNCHANGED << iterations, clearing >>
      /\ IF over_limit THEN UNCHANGED << m_values, m_new, m_garbage >> ELSE PutEntry(k, obj)
  BY DEF RegisterObject
<1> HIDE DEF k
<1>3. last_used_id' \in 0 .. MaxId
  BY <1>1, <1>2, SafeMapAssumption DEF ObjectIds
<1>4. CASE over_limit
  BY <1>2, <1>3, <1>4, StutterGood
<1>5. CASE ~ over_limit
  <2>1. MapsOK' /\ Moved(k, obj) /\ Lasting' = Lasting
    BY <1>1, <1>2, <1>5, PutIs
  <2>2. MapInv'
    BY <1>2, <1>3, <2>1 DEF MapsOK, MapInv, MapTypeOK
  <2>3. /\ k \notin DOMAIN LiveObjects
        /\ LiveObjects' = [i \in DOMAIN LiveObjects \cup {k} |->
                              IF i = k THEN obj ELSE LiveObjects[i]]
    BY <1>1, <2>1, ObjectAdded
  <2>4. Passes' = Passes
    BY <1>2 DEF Passes
  <2>5. Plain!Add(k, obj)
    BY <1>2, <2>1, <2>3, <2>4 DEF Plain!Add
  <2>6. QED
    BY <1>1, <2>2, <2>5 DEF Good, Plain!PlainMapNext
<1>6. QED
  BY <1>4, <1>5

\* removeObject.
LEMMA RemoveGood ==
    ASSUME MapInv, NEW k \in ObjectIds, RemoveObject(k)
    PROVE  Good
<1>1. TakeEntry(k) /\ UNCHANGED << iterations, clearing, last_used_id >>
  BY DEF RemoveObject
<1>2. Iterating' = Iterating /\ Passes' = Passes
  BY <1>1 DEF Iterating, Passes
<1>3. MapsOK' /\ Moved(k, NoObject) /\ Lasting' = Lasting \ {k}
  BY <1>1, <1>2, TakeIs
<1>4. MapInv'
  BY <1>1, <1>3 DEF MapsOK, MapInv, MapTypeOK
<1>5. Plain!Drop(k)
  BY <1>1, <1>2, <1>3, ObjectDropped DEF Plain!Drop, Plain!Without
<1>6. QED
  BY <1>4, <1>5 DEF Good, Plain!PlainMapNext

\* An iteration begins: of the outermost, all objects last.
LEMMA StartGood ==
    ASSUME MapInv, iterations' = Append(iterations, [at |-> 0, object |-> NoObject]),
           UNCHANGED << m_values, m_new, m_garbage, clearing, last_used_id >>
    PROVE  Good
<1>1. /\ iterations' \in Seq(Iteration) /\ iterations' # <<>>
      /\ Passes' = Append(Passes, [at |-> 0, object |-> 0])
  BY PassesStart DEF MapInv, MapTypeOK
<1>2. Iterating'
  BY <1>1 DEF Iterating
<1>3. DOMAIN m_new # {} => Iterating
  BY DEF MapInv, Apart, NoEntries
<1>4. MapInv'
  BY <1>1, <1>2 DEF MapInv, MapTypeOK, Apart
<1>5. Unmoved
  BY <1>2, <1>3 DEF Unmoved, Get
<1>6. Passes = <<>> <=> ~ Iterating
  BY PassesAre, EmptySeq DEF Passes, PassesOf, Iterating, MapInv, MapTypeOK
<1>7. ~ Iterating => Lasting' = DOMAIN LiveObjects
  BY <1>2 DEF Lasting, LiveObjects, LiveIds, Get, MapInv, MapTypeOK
<1>8. Iterating => Lasting' = Lasting
  BY <1>2 DEF Lasting
<1>9. Plain!StartIteration
  BY <1>1, <1>5, <1>6, <1>7, <1>8, SameObjects DEF Plain!StartIteration
<1>10. QED
  BY <1>4, <1>9 DEF Good, Plain!PlainMapNext

\* The innermost iteration goes on to the next object.
LEMMA VisitGood ==
    ASSUME MapInv, Visit
    PROVE  Good
<1>1. /\ Iterating /\ Ahead # {} /\ UNCHANGED << clearing, last_used_id >>
      /\ iterations \in Seq(Iteration) /\ iterations # <<>>
  BY DEF Visit, MapInv, MapTypeOK, Iterating
<1>2. PICK k : k = Min(Ahead)
  OBVIOUS
<1>3. k \in Ahead /\ \A i \in Ahead : k <= i
  <2>1. Ahead \in SUBSET Nat
    BY DEF Ahead, MapInv, MapTypeOK, ObjectIds
  <2>2. QED
    BY <1>1, <1>2, <2>1, MinOf
<1>4. k \in ObjectIds /\ m_values[k] \in Objects /\ k \in DOMAIN m_values /\ k > At
  BY <1>3 DEF Ahead, MapInv, MapTypeOK
<1>5. PICK obj \in Objects : obj = m_values[k]
  BY <1>4
<1>6. /\ iterations' = [iterations EXCEPT ![Len(iterations)] = [at |-> k, object |-> obj]]
      /\ IF clearing /\ Len(iterations) = 1 THEN TakeEntry(k)
         ELSE UNCHANGED << m_values, m_new, m_garbage >>
  BY <1>2, <1>5 DEF Visit
<1>7. /\ iterations' \in Seq(Iteration) /\ iterations' # <<>>
      /\ Passes' = Append(SubSeq(Passes, 1, Len(Passes) - 1), [at |-> k, object |-> obj])
  BY <1>1, <1>4, <1>6, PassesVisit
<1>8. Iterating' = Iterating
  BY <1>1, <1>7 DEF Iterating
<1>9. /\ Passes \in Seq(Passing) /\ Len(Passes) = Len(iterations)
      /\ Passes[Len(Passes)].at = At /\ Passes # <<>>
      /\ SubSeq(Passes, 1, Len(Passes) - 1) = <<>> <=> Len(iterations) = 1
  <2>1. /\ Passes \in Seq(Passing) /\ Len(Passes) = Len(iterations)
        /\ \A i \in 1 .. Len(iterations) : Passes[i] = Pass(iterations[i])
        /\ Len(iterations) \in Nat \ {0}
    BY <1>1, PassesAre, EmptySeq DEF Passes, PassesOf
  <2>2. Passes # <<>>
    BY <2>1, EmptySeq
  <2>3. PICK q : q = SubSeq(Passes, 1, Len(Passes) - 1)
    OBVIOUS
  <2>4. q \in Seq(Passing) /\ Len(q) = Len(Passes) - 1
    BY <2>1, <2>2, <2>3, AllButLast
  <2>5. q = <<>> <=> Len(iterations) = 1
    BY <2>1, <2>4, EmptySeq
  <2>6. Passes[Len(Passes)].at = At
    BY <2>1 DEF At, Pass
  <2>7. QED
    BY <2>1, <2>2, <2>3, <2>5, <2>6
<1>10. k \in Lasting /\ \A i \in Lasting : i > At => k <= i
  BY <1>1, <1>3 DEF Ahead, Lasting
<1>11. LiveObjects[k] = obj
  <2>1. Get(k) = obj /\ obj # NoObject
    BY <1>4, <1>5, SafeMapAssumption DEF Get, MapInv, Apart
  <2>2. QED
    BY <1>4, <2>1 DEF LiveObjects, LiveIds
<1>12. CASE clearing /\ Len(iterations) = 1
  <2>1. MapsOK' /\ Moved(k, NoObject) /\ Lasting' = Lasting \ {k}
    BY <1>4, <1>6, <1>8, <1>12, TakeIs
  <2>2. MapInv'
    BY <1>1, <1>7, <2>1 DEF MapsOK, MapInv, MapTypeOK
  <2>3. Plain!ComeTo(k)
    BY <1>1, <1>4, <1>7, <1>9, <1>10, <1>11, <1>12, <2>1, ObjectDropped
       DEF Plain!ComeTo, Plain!Innermost, Plain!Outer, Plain!Without
  <2>4. QED
    BY <1>4, <2>2, <2>3 DEF Good, Plain!PlainMapNext
<1>13. CASE ~ (clearing /\ Len(iterations) = 1)
  <2>1. UNCHANGED << m_values, m_new, m_garbage >>
    BY <1>6, <1>13
  <2>2. MapInv' /\ Unmoved /\ Lasting' = Lasting
    BY <1>1, <1>7, <1>8, <2>1 DEF MapInv, MapTypeOK, Apart, Unmoved, Get, Lasting
  <2>3. Plain!ComeTo(k)
    BY <1>1, <1>4, <1>7, <1>9, <1>10, <1>11, <1>13, <2>2, SameObjects
       DEF Plain!ComeTo, Plain!Innermost, Plain!Outer
  <2>4. QED
    BY <1>4, <2>2, <2>3 DEF Good, Plain!PlainMapNext
<1>14. QED
  BY <1>12, <1>13

\* An iteration ends; the outermost merges and collects.
LEMMA FinishGood ==
    ASSUME MapInv, Finish
    PROVE  Good
<1>1. /\ Iterating /\ Ahead = {} /\ LeaveIteration /\ UNCHANGED << clearing, last_used_id >>
      /\ iterations \in Seq(Iteration) /\ iterations # <<>>
  BY DEF Finish, MapInv, MapTypeOK, Iterating
<1>2. /\ MapsOK' /\ Unmoved
      /\ iterations' = SubSeq(iterations, 1, Len(iterations) - 1)
      /\ iterations' \in Seq(Iteration)
      /\ Lasting' = IF Iterating' THEN Lasting ELSE {}
  BY <1>1, LeaveIs
<1>3. MapInv'
  BY <1>1, <1>2 DEF MapsOK, MapInv, MapTypeOK
<1>4. /\ Passes' = SubSeq(Passes, 1, Len(Passes) - 1)
      /\ Passes' = <<>> <=> ~ Iterating'
  <2>1. Passes' \in Seq(Passing) /\ Len(Passes') = Len(iterations')
    BY <1>2, PassesAre DEF Passes, PassesOf
  <2>2. Passes' = <<>> <=> iterations' = <<>>
    BY <1>2, <2>1, EmptySeq
  <2>3. QED
    BY <1>1, <1>2, <2>2, PassesEnd DEF Iterating
<1>5. Passes # <<>> /\ Passes[Len(Passes)].at = At
  <2>1. /\ Passes \in Seq(Passing) /\ Len(Passes) = Len(iterations)
        /\ \A i \in 1 .. Len(iterations) : Passes[i] = Pass(iterations[i])
        /\ Len(iterations) \in Nat \ {0}
    BY <1>1, PassesAre, EmptySeq DEF Passes, PassesOf
  <2>2. QED
    BY <2>1, EmptySeq DEF At, Pass
<1>6. \A i \in Lasting : i <= At
  <2>1. At \in Nat
    <3>1. Len(iterations) \in 1 .. Len(iterations)
      BY <1>1, EmptySeq
    <3>2. iterations[Len(iterations)] \in Iteration
      BY <1>1, <3>1, ElementOfSeq
    <3>3. QED
      BY <3>2 DEF At, Iteration
  <2>2. QED
    BY <1>1, <2>1 DEF Ahead, Lasting, MapInv, MapTypeOK, ObjectIds
<1>7. Plain!EndIteration
  BY <1>1, <1>2, <1>4, <1>5, <1>6, SameObjects
     DEF Plain!EndIteration, Plain!Innermost, Plain!Outer
<1>8. QED
  BY <1>3, <1>7 DEF Good, Plain!PlainMapNext

\* clear, in rounds.
LEMMA ClearGood ==
    ASSUME MapInv, ClearBegins \/ ClearAgain \/ ClearEnds
    PROVE  Good
<1>1. CASE ClearAgain
  <2>1. /\ iterations = <<>> /\ iterations' = << [at |-> 0, object |-> NoObject] >>
        /\ UNCHANGED << m_values, m_new, m_garbage, clearing, last_used_id >>
    BY <1>1 DEF ClearAgain, Iterating
  <2>2. iterations' = Append(iterations, [at |-> 0, object |-> NoObject])
    BY <2>1
  <2>3. QED
    BY <2>1, <2>2, StartGood
<1>2. CASE ClearBegins \/ ClearEnds
  <2>1. /\ UNCHANGED << m_values, m_new, m_garbage, iterations, last_used_id >>
        /\ clearing' \in BOOLEAN /\ ~ Iterating
    BY <1>2 DEF ClearBegins, ClearEnds
  <2>2. /\ MapInv'
        /\ Unmoved /\ Lasting' = Lasting /\ Passes' = Passes
    BY <2>1 DEF MapInv, MapTypeOK, Apart, Iterating, Unmoved, Get, Lasting, Passes
  <2>3. LiveObjects' = LiveObjects
    BY <2>2, SameObjects
  <2>4. ClearBegins => Plain!StartClear
    BY <2>2, <2>3 DEF ClearBegins, Plain!StartClear
  <2>5. ClearEnds => Plain!EndClear
    <3>1. ASSUME ClearEnds PROVE \A id \in ObjectIds : Get(id) = NoObject
      BY <2>1, <3>1 DEF ClearEnds, Empty, Get, NoEntries
    <3>2. ASSUME ClearEnds PROVE LiveObjects = [id \in {} |-> 0]
      <4>1. LiveIds = {}
        BY <3>1, <3>2 DEF LiveIds
      <4>2. QED
        BY <4>1 DEF LiveObjects
    <3>3. QED
      BY <2>2, <2>3, <3>2 DEF ClearEnds, Plain!EndClear
  <2>6. QED
    BY <1>2, <2>2, <2>4, <2>5 DEF Good, Plain!PlainMapNext
<1>3. QED
  BY <1>1, <1>2

\* Each step keeps the invariant and is one of the plain map, or none.
LEMMA MapStep ==
    ASSUME MapInv, [NextSafeMap]_safemapvars
    PROVE  Good
<1>1. CASE UNCHANGED safemapvars
  BY <1>1, StutterGood DEF safemapvars, MapInv, MapTypeOK
<1>2. CASE \E obj \in Objects, over_limit \in BOOLEAN : RegisterObject(obj, over_limit)
  BY <1>2, RegisterGood
<1>3. CASE \E id \in ObjectIds : RemoveObject(id)
  BY <1>3, RemoveGood
<1>4. CASE Iterate
  BY <1>4, StartGood DEF Iterate
<1>5. CASE Visit
  BY <1>5, VisitGood
<1>6. CASE Finish
  BY <1>6, FinishGood
<1>7. CASE ClearBegins \/ ClearAgain \/ ClearEnds
  BY <1>7, ClearGood
<1>8. QED
  BY <1>1, <1>2, <1>3, <1>4, <1>5, <1>6, <1>7 DEF NextSafeMap

\* A new manager has no objects.
LEMMA MapInit ==
    ASSUME InitSafeMap
    PROVE  MapInv /\ Plain!PlainMapInit
<1>1. DOMAIN m_values = {} /\ DOMAIN m_new = {} /\ ~ Iterating
  BY DEF InitSafeMap, NoEntries, Iterating
<1>2. MapInv
  <2>1. /\ m_values = NoEntries /\ m_new = NoEntries /\ iterations = <<>>
        /\ m_garbage = 0 /\ clearing = FALSE /\ last_used_id = 0
    BY DEF InitSafeMap
  <2>2. /\ m_values \in [DOMAIN m_values -> Objects \cup {NoObject}]
        /\ m_new \in [DOMAIN m_new -> Objects]
    BY <1>1, <2>1 DEF NoEntries
  <2>3. iterations \in Seq(Iteration)
    BY <2>1, EmptySeq
  <2>4. 0 \in 0 .. MaxId
    BY SafeMapAssumption
  <2>5. QED
    BY <1>1, <2>1, <2>2, <2>3, <2>4 DEF MapInv, MapTypeOK, Apart
<1>3. LiveIds = {}
  BY <1>1 DEF LiveIds, Get
<1>4. Lasting = {} /\ LiveObjects = [id \in {} |-> 0]
  BY <1>1, <1>3 DEF Lasting, LiveObjects
<1>5. Passes = <<>>
  <2>1. Passes \in Seq(Passing) /\ Len(Passes) = Len(iterations) /\ Len(iterations) = 0
    BY <1>2, PassesAre, EmptySeq DEF Passes, PassesOf, MapInv, MapTypeOK, InitSafeMap
  <2>2. QED
    BY <2>1, EmptySeq
<1>6. QED
  BY <1>2, <1>4, <1>5 DEF Plain!PlainMapInit, InitSafeMap

\* The two maps hold identifiers and objects, iterations are at one of them.
THEOREM MapTypeCorrect == SpecSafeMap => []MapTypeOK
<1>1. InitSafeMap => MapInv
  BY MapInit
<1>2. MapInv /\ [NextSafeMap]_safemapvars => MapInv'
  BY MapStep DEF Good
<1>3. MapInv => MapTypeOK
  BY DEF MapInv
<1>4. QED
  BY <1>1, <1>2, <1>3, PTL DEF SpecSafeMap

(* ModifySafeMap (util/container.h:314) is a map that may be changed while *)
(* it is iterated over: an iteration comes, in order and once, to what was *)
(* there when the outermost began and still is, nothing added meanwhile is *)
(* lost, and clear leaves nothing.                                         *)
THEOREM SafeToModifyHolds == SpecSafeMap => SafeToModify
<1>1. InitSafeMap => MapInv /\ Plain!PlainMapInit
  BY MapInit
<1>2. MapInv /\ [NextSafeMap]_safemapvars
          => MapInv' /\ [Plain!PlainMapNext]_(Plain!plainmapvars)
  BY MapStep DEF Good
<1>3. QED
  BY <1>1, <1>2, PTL DEF SpecSafeMap, SafeToModify, Plain!PlainMapSpec

-----------------------------------------------------------------------------
(* The list of node timers *)

Timeouts == {s.timeout : s \in Settings}

TimerEntry == [trigger : Int, timeout : Timeouts, position : Positions]

Indexes == UNION {[ps -> TimerEntry] : ps \in SUBSET Positions}

Lists == [m_timers : Seq(TimerEntry), m_iterators : Indexes, m_next_trigger_time : Int]

Ordered(timers) ==
    \A i, j \in DOMAIN timers : i < j => timers[i].trigger <= timers[j].trigger

OnePerNode(timers) ==
    \A i, j \in DOMAIN timers : timers[i].position = timers[j].position => i = j

\* The index has the timers of the list and no others.
Indexed(l) ==
    /\ \A i \in DOMAIN l.m_timers :
          /\ l.m_timers[i].position \in DOMAIN l.m_iterators
          /\ l.m_iterators[l.m_timers[i].position] = l.m_timers[i]
    /\ \A p \in DOMAIN l.m_iterators :
          \E i \in DOMAIN l.m_timers : l.m_timers[i].position = p

\* The index with another timer for p, and without one.
IndexWith(index, p, timeout, trigger) ==
    [q \in DOMAIN index \cup {p} |->
        IF q = p THEN [trigger |-> trigger, timeout |-> timeout, position |-> p]
        ELSE index[q]]
IndexWithout(index, p) == [q \in DOMAIN index \ {p} |-> index[q]]

FirstKnown(l) == l.m_next_trigger_time = FirstTrigger(l.m_timers)

ListOK(l) ==
    /\ l \in Lists
    /\ Ordered(l.m_timers) /\ OnePerNode(l.m_timers) /\ Indexed(l) /\ FirstKnown(l)

\* No timer runs out at the time that stands for none.
NeverNoTrigger(l) ==
    \A p \in DOMAIN l.m_iterators : l.m_iterators[p].trigger # NoTrigger

TimerInv ==
    /\ ListOK(list)
    /\ m_time \in Nat
    /\ elapsed_timers \in Seq(TimerSet!Run)

(* What Lua sets are numbers, of either sign.                              *)
LEMMA SettingsAre ==
    /\ \A s \in Settings : /\ s.timeout \in Timeouts
                           /\ s.timeout \in Int /\ s.elapsed \in Int
    /\ \A timeout \in Timeouts : timeout \in Int
  BY TimersAssumption DEF Timeouts

(* A list has timers in it, and their fields are of their types.           *)
LEMMA EntriesAre ==
    ASSUME NEW s \in Seq(TimerEntry)
    PROVE  /\ Len(s) \in Nat /\ DOMAIN s = 1 .. Len(s)
           /\ \A i \in DOMAIN s : /\ s[i] \in TimerEntry /\ s[i].trigger \in Int
                                  /\ s[i].timeout \in Timeouts /\ s[i].position \in Positions
<1>1. Len(s) \in Nat /\ DOMAIN s = 1 .. Len(s)
  BY LenProperties
<1>2. \A i \in DOMAIN s : s[i] \in TimerEntry
  BY <1>1, ElementOfSeq
<1>3. \A e \in TimerEntry : e.trigger \in Int /\ e.timeout \in Timeouts /\ e.position \in Positions
  BY DEF TimerEntry
<1>4. QED
  BY <1>1, <1>2, <1>3

(* upper_bound, of any list: all before it run out in time, and it does not. *)
LEMMA UpperBoundIs ==
    ASSUME NEW s \in Seq(TimerEntry), NEW time \in Int
    PROVE  /\ UpperBound(s, time) \in 1 .. Len(s) + 1
           /\ \A j \in 1 .. UpperBound(s, time) - 1 : s[j].trigger <= time
           /\ UpperBound(s, time) <= Len(s) => s[UpperBound(s, time)].trigger > time
<1> DEFINE S == {i \in 1 .. Len(s) + 1 : i <= Len(s) => s[i].trigger > time}
<1>1. Len(s) + 1 \in S /\ S \in SUBSET Nat
  OBVIOUS
<1>2. PICK i \in S : \A y \in S : i <= y
  BY <1>1, MinOf
<1>3. \A j \in 1 .. i - 1 : s[j].trigger <= time
  <2> SUFFICES ASSUME NEW j \in 1 .. i - 1 PROVE s[j].trigger <= time
    OBVIOUS
  <2>1. j \in 1 .. Len(s) /\ j \notin S
    BY <1>2
  <2>2. s[j] \in TimerEntry
    BY <2>1, ElementOfSeq
  <2>3. QED
    BY <2>1, <2>2 DEF TimerEntry
<1>4. \E k \in 1 .. Len(s) + 1 : /\ \A j \in 1 .. k - 1 : s[j].trigger <= time
                                 /\ k <= Len(s) => s[k].trigger > time
  BY <1>2, <1>3
<1>5. QED
  BY <1>4 DEF UpperBound

(* Of an ordered list the timers that run out in time are those before it. *)
LEMMA UpperBoundSplits ==
    ASSUME NEW s \in Seq(TimerEntry), NEW time \in Int, Ordered(s)
    PROVE  \A j \in DOMAIN s : s[j].trigger <= time <=> j < UpperBound(s, time)
<1> DEFINE k == UpperBound(s, time)
<1>1. /\ k \in 1 .. Len(s) + 1
      /\ \A j \in 1 .. k - 1 : s[j].trigger <= time
      /\ k <= Len(s) => s[k].trigger > time
  BY UpperBoundIs
<1> HIDE DEF k
<1> SUFFICES ASSUME NEW j \in DOMAIN s PROVE s[j].trigger <= time <=> j < k
  BY DEF k
<1>2. j \in 1 .. Len(s) /\ DOMAIN s = 1 .. Len(s) /\ Len(s) \in Nat
  BY EntriesAre
<1>3. \A i \in 1 .. Len(s) : s[i].trigger \in Int
  BY EntriesAre
<1>4. CASE j < k
  BY <1>1, <1>2, <1>4
<1>5. CASE ~ (j < k)
  <2>1. k \in DOMAIN s /\ s[k].trigger > time
    BY <1>1, <1>2, <1>5
  <2>2. s[k].trigger <= s[j].trigger
    BY <1>1, <1>2, <1>3, <1>5, <2>1 DEF Ordered
  <2>3. QED
    BY <1>2, <1>3, <1>5, <2>1, <2>2
<1>6. QED
  BY <1>4, <1>5

(* What InsertAt makes. *)
LEMMA InsertAtIs ==
    ASSUME NEW S, NEW s \in Seq(S), NEW k \in 1 .. Len(s) + 1, NEW e \in S
    PROVE  /\ InsertAt(s, k, e) \in Seq(S)
           /\ Len(InsertAt(s, k, e)) = Len(s) + 1
           /\ \A i \in 1 .. Len(s) + 1 :
                 InsertAt(s, k, e)[i] = IF i < k THEN s[i] ELSE IF i = k THEN e ELSE s[i - 1]
<1> DEFINE a == SubSeq(s, 1, k - 1)
           b == SubSeq(s, k, Len(s))
<1>1. \A i \in 1 .. Len(s) : s[i] \in S
  BY ElementOfSeq
<1>2. /\ a \in Seq(S) /\ Len(a) = k - 1
      /\ \A i \in 1 .. k - 1 : a[i] = s[i]
  BY <1>1, SubSeqProperties, k - 1 \in Int
<1>3. /\ b \in Seq(S) /\ Len(b) = Len(s) - k + 1
      /\ \A i \in 1 .. Len(s) - k + 1 : b[i] = s[k + i - 1]
  BY <1>1, SubSeqProperties, k \in Int, Len(s) \in Int
<1>4. << e >> \in Seq(S) /\ Len(<< e >>) = 1 /\ << e >>[1] = e
  OBVIOUS
<1> HIDE DEF a, b
<1>5. /\ a \o << e >> \in Seq(S) /\ Len(a \o << e >>) = k
      /\ \A i \in 1 .. k : (a \o << e >>)[i] = IF i < k THEN s[i] ELSE e
  BY <1>2, <1>4, ConcatProperties
<1> DEFINE c == a \o << e >>
<1>6. InsertAt(s, k, e) = c \o b
  BY DEF InsertAt, a, b
<1>7. /\ c \in Seq(S) /\ Len(c) = k
      /\ \A i \in 1 .. k : c[i] = IF i < k THEN s[i] ELSE e
  BY <1>5
<1> HIDE DEF c
<1>8. /\ c \o b \in Seq(S) /\ Len(c \o b) = Len(c) + Len(b)
      /\ \A i \in 1 .. Len(c) + Len(b) : (c \o b)[i] = IF i <= Len(c) THEN c[i] ELSE b[i - Len(c)]
  BY <1>3, <1>7, ConcatProperties
<1>9. Len(c) + Len(b) = Len(s) + 1
  BY <1>3, <1>7
<1>10. \A i \in 1 .. Len(s) + 1 :
          (c \o b)[i] = IF i < k THEN s[i] ELSE IF i = k THEN e ELSE s[i - 1]
  <2> SUFFICES ASSUME NEW i \in 1 .. Len(s) + 1
               PROVE  (c \o b)[i] = IF i < k THEN s[i] ELSE IF i = k THEN e ELSE s[i - 1]
    OBVIOUS
  <2>1. CASE i <= k
    BY <1>7, <1>8, <1>9, <2>1
  <2>2. CASE ~ (i <= k)
    <3>1. i - k \in 1 .. Len(s) - k + 1 /\ k \in Int /\ i \in Int
      BY <2>2, LenProperties
    <3>2. b[i - k] = s[k + (i - k) - 1] /\ k + (i - k) - 1 = i - 1
      BY <1>3, <3>1
    <3>3. QED
      BY <1>7, <1>8, <1>9, <2>2, <3>2
  <2>3. QED
    BY <2>1, <2>2
<1>11. QED
  BY <1>6, <1>8, <1>9, <1>10

(* What RemoveAt leaves. *)
LEMMA RemoveAtIs ==
    ASSUME NEW S, NEW s \in Seq(S), NEW k \in 1 .. Len(s)
    PROVE  /\ RemoveAt(s, k) \in Seq(S)
           /\ Len(RemoveAt(s, k)) = Len(s) - 1
           /\ \A i \in 1 .. Len(s) - 1 :
                 RemoveAt(s, k)[i] = IF i < k THEN s[i] ELSE s[i + 1]
<1> DEFINE a == SubSeq(s, 1, k - 1)
           b == SubSeq(s, k + 1, Len(s))
<1>1. \A i \in 1 .. Len(s) : s[i] \in S
  BY ElementOfSeq
<1>2. /\ a \in Seq(S) /\ Len(a) = k - 1
      /\ \A i \in 1 .. k - 1 : a[i] = s[i]
  BY <1>1, SubSeqProperties, k - 1 \in Int
<1>3. /\ b \in Seq(S) /\ Len(b) = Len(s) - k
      /\ \A i \in 1 .. Len(s) - k : b[i] = s[k + 1 + i - 1]
  BY <1>1, SubSeqProperties, k + 1 \in Int, Len(s) \in Int
<1>4. RemoveAt(s, k) = a \o b
  BY DEF RemoveAt
<1> HIDE DEF a, b
<1>5. /\ a \o b \in Seq(S) /\ Len(a \o b) = Len(s) - 1
      /\ \A i \in 1 .. Len(s) - 1 : (a \o b)[i] = IF i <= Len(a) THEN a[i] ELSE b[i - Len(a)]
  <2>1. /\ a \o b \in Seq(S) /\ Len(a \o b) = Len(a) + Len(b)
        /\ \A i \in 1 .. Len(a) + Len(b) : (a \o b)[i] = IF i <= Len(a) THEN a[i] ELSE b[i - Len(a)]
    BY <1>2, <1>3, ConcatProperties
  <2>2. Len(a) + Len(b) = Len(s) - 1
    BY <1>2, <1>3, LenProperties
  <2>3. QED
    BY <2>1, <2>2
<1>6. \A i \in 1 .. Len(s) - 1 : (a \o b)[i] = IF i < k THEN s[i] ELSE s[i + 1]
  <2> SUFFICES ASSUME NEW i \in 1 .. Len(s) - 1
               PROVE  (a \o b)[i] = IF i < k THEN s[i] ELSE s[i + 1]
    OBVIOUS
  <2>1. CASE i < k
    BY <1>2, <1>5, <2>1
  <2>2. CASE ~ (i < k)
    <3>1. i - (k - 1) \in 1 .. Len(s) - k
      BY <2>2
    <3>2. b[i - (k - 1)] = s[k + 1 + (i - (k - 1)) - 1] /\ k + 1 + (i - (k - 1)) - 1 = i + 1
      BY <1>3, <3>1
    <3>3. QED
      BY <1>2, <1>5, <2>2, <3>2
  <2>3. i \in Int /\ k \in Int
    BY LenProperties
  <2>4. QED
    BY <2>1, <2>2, <2>3
<1>7. QED
  BY <1>4, <1>5, <1>6

(* The fields of a list.                                                   *)
LEMMA ListsAre ==
    ASSUME NEW l \in Lists
    PROVE  /\ l.m_timers \in Seq(TimerEntry)
           /\ DOMAIN l.m_iterators \subseteq Positions
           /\ l.m_iterators \in [DOMAIN l.m_iterators -> TimerEntry]
           /\ l.m_next_trigger_time \in Int
<1>1. PICK ps \in SUBSET Positions : l.m_iterators \in [ps -> TimerEntry]
  BY DEF Lists, Indexes
<1>2. DOMAIN l.m_iterators = ps
  BY <1>1
<1>3. QED
  BY <1>1, <1>2 DEF Lists

(* The first timer of a list that has one is the one at its head.          *)
LEMMA FirstTriggerIs ==
    ASSUME NEW s \in Seq(TimerEntry)
    PROVE  FirstTrigger(s) = IF Len(s) = 0 THEN NoTrigger ELSE s[1].trigger
<1>1. s = << >> <=> Len(s) = 0
  BY EmptySeq, LenProperties
<1>2. s # << >> => Head(s) = s[1]
  OBVIOUS
<1>3. QED
  BY <1>1, <1>2 DEF FirstTrigger

(* remove takes p's timer, whatever its place, and leaves the others.      *)
LEMMA RemovedIs ==
    ASSUME NEW l, ListOK(l), NEW p
    PROVE  /\ ListOK(Removed(l, p))
           /\ Removed(l, p).m_iterators = IndexWithout(l.m_iterators, p)
<1> DEFINE s == l.m_timers
           it == l.m_iterators
           at == CHOOSE i \in DOMAIN s : s[i] = it[p]
           left == RemoveAt(s, at)
           src(i) == IF i < at THEN i ELSE i + 1
<1>1. /\ s \in Seq(TimerEntry) /\ DOMAIN it \subseteq Positions
      /\ it \in [DOMAIN it -> TimerEntry] /\ l.m_next_trigger_time \in Int
  BY ListsAre DEF ListOK
<1>2. CASE p \notin DOMAIN it
  <2>1. it = [q \in DOMAIN it \ {p} |-> it[q]]
    BY <1>1, <1>2
  <2>2. QED
    BY <1>2, <2>1 DEF Removed, IndexWithout
<1>3. CASE p \in DOMAIN it
  <2>1. /\ Removed(l, p).m_timers = left
        /\ Removed(l, p).m_iterators = [q \in DOMAIN it \ {p} |-> it[q]]
        /\ Removed(l, p).m_next_trigger_time =
              IF it[p].trigger = l.m_next_trigger_time THEN FirstTrigger(left)
              ELSE l.m_next_trigger_time
        /\ Removed(l, p) = [m_timers |-> Removed(l, p).m_timers,
                            m_iterators |-> Removed(l, p).m_iterators,
                            m_next_trigger_time |-> Removed(l, p).m_next_trigger_time]
    BY <1>3 DEF Removed
  <2>2. /\ Len(s) \in Nat /\ DOMAIN s = 1 .. Len(s)
        /\ \A i \in DOMAIN s : s[i] \in TimerEntry /\ s[i].trigger \in Int
    BY <1>1, EntriesAre
  <2>3. /\ \A i \in DOMAIN s : s[i].position \in DOMAIN it /\ it[s[i].position] = s[i]
        /\ \A q \in DOMAIN it : \E i \in DOMAIN s : s[i].position = q
        /\ \A i, j \in DOMAIN s : s[i].position = s[j].position => i = j
        /\ \A i, j \in DOMAIN s : i < j => s[i].trigger <= s[j].trigger
        /\ l.m_next_trigger_time = FirstTrigger(s)
    BY DEF ListOK, Indexed, OnePerNode, Ordered, FirstKnown
  <2>4. at \in DOMAIN s /\ s[at] = it[p] /\ s[at].position = p
    <3>1. PICK i \in DOMAIN s : s[i].position = p
      BY <1>3, <2>3
    <3>2. s[i] = it[p]
      BY <2>3, <3>1
    <3>3. at \in DOMAIN s /\ s[at] = it[p]
      BY <3>2
    <3>4. QED
      BY <3>1, <3>2, <3>3
  <2> HIDE DEF at
  <2>5. /\ left \in Seq(TimerEntry) /\ Len(left) = Len(s) - 1
        /\ \A i \in 1 .. Len(s) - 1 : left[i] = IF i < at THEN s[i] ELSE s[i + 1]
    <3>1. at \in 1 .. Len(s)
      BY <2>2, <2>4
    <3>2. QED
      BY <1>1, <3>1, RemoveAtIs
  <2> HIDE DEF left
  <2>6. DOMAIN left = 1 .. Len(s) - 1
    BY <2>2, <2>5, EntriesAre
  <2>7. \A i \in DOMAIN left : src(i) \in DOMAIN s /\ src(i) # at /\ left[i] = s[src(i)]
    BY <2>2, <2>4, <2>5, <2>6
  <2>8. \A i, j \in DOMAIN left : (i < j <=> src(i) < src(j)) /\ (src(i) = src(j) => i = j)
    BY <2>2, <2>4, <2>6
  <2>9. \A j \in DOMAIN s \ {at} : \E i \in DOMAIN left : src(i) = j
    <3> SUFFICES ASSUME NEW j \in DOMAIN s \ {at} PROVE \E i \in DOMAIN left : src(i) = j
      OBVIOUS
    <3> DEFINE i == IF j < at THEN j ELSE j - 1
    <3>1. i \in DOMAIN left /\ src(i) = j
      BY <2>2, <2>4, <2>6
    <3>2. QED
      BY <3>1
  <2> HIDE DEF src
  <2>10. Ordered(left) /\ OnePerNode(left)
    BY <2>3, <2>7, <2>8 DEF Ordered, OnePerNode
  <2>11. Indexed(Removed(l, p))
    <3>1. \A i \in DOMAIN left :
             /\ left[i].position \in DOMAIN it \ {p}
             /\ it[left[i].position] = left[i]
      BY <2>3, <2>4, <2>7
    <3>2. \A q \in DOMAIN it \ {p} : \E i \in DOMAIN left : left[i].position = q
      <4> SUFFICES ASSUME NEW q \in DOMAIN it \ {p}
                   PROVE  \E i \in DOMAIN left : left[i].position = q
        OBVIOUS
      <4>1. PICK j \in DOMAIN s : s[j].position = q
        BY <2>3
      <4>2. j # at
        BY <2>4, <4>1
      <4>3. PICK i \in DOMAIN left : src(i) = j
        BY <2>9, <4>2
      <4>4. QED
        BY <2>7, <4>1, <4>3
    <3>3. QED
      BY <2>1, <3>1, <3>2 DEF Indexed
  <2>12. FirstKnown(Removed(l, p))
    <3>1. CASE it[p].trigger = l.m_next_trigger_time
      BY <2>1, <3>1 DEF FirstKnown
    <3>2. CASE it[p].trigger # l.m_next_trigger_time
      <4>1. Len(s) # 0 /\ FirstTrigger(s) = s[1].trigger
        BY <1>1, <2>2, <2>4, FirstTriggerIs
      <4>2. at # 1 /\ Len(left) # 0
        BY <2>2, <2>3, <2>4, <2>5, <3>2, <4>1
      <4>3. left[1] = s[1]
        BY <2>2, <2>4, <2>5, <4>2
      <4>4. FirstTrigger(left) = s[1].trigger
        BY <2>5, <4>2, <4>3, FirstTriggerIs
      <4>5. QED
        BY <2>1, <2>3, <3>2, <4>1, <4>4 DEF FirstKnown
    <3>3. QED
      BY <3>1, <3>2
  <2>13. Removed(l, p) \in Lists
    <3>1. FirstTrigger(left) \in Int
      BY <2>5, FirstTriggerIs, EntriesAre DEF NoTrigger
    <3>2. [q \in DOMAIN it \ {p} |-> it[q]] \in Indexes
      <4>1. [q \in DOMAIN it \ {p} |-> it[q]] \in [DOMAIN it \ {p} -> TimerEntry]
        BY <1>1
      <4>2. QED
        BY <1>1, <4>1 DEF Indexes
    <3>3. QED
      BY <1>1, <2>1, <2>5, <3>1, <3>2 DEF Lists
  <2>14. QED
    BY <2>1, <2>10, <2>11, <2>12, <2>13 DEF ListOK, IndexWithout
<1>4. QED
  BY <1>2, <1>3

(* insert puts the timer behind those that run out no later.               *)
LEMMA InsertedIs ==
    ASSUME NEW l, ListOK(l), NeverNoTrigger(l),
           NEW p \in Positions \ DOMAIN l.m_iterators, NEW timeout \in Timeouts,
           NEW trigger \in Int
    PROVE  /\ ListOK(Inserted(l, p, timeout, trigger))
           /\ Inserted(l, p, timeout, trigger).m_iterators =
                 IndexWith(l.m_iterators, p, timeout, trigger)
<1> DEFINE s == l.m_timers
           it == l.m_iterators
           entry == [trigger |-> trigger, timeout |-> timeout, position |-> p]
           k == UpperBound(s, trigger)
           new == InsertAt(s, k, entry)
           made == Inserted(l, p, timeout, trigger)
           index == [q \in DOMAIN it \cup {p} |-> IF q = p THEN entry ELSE it[q]]
           src(i) == IF i < k THEN i ELSE i - 1
<1>1. /\ s \in Seq(TimerEntry) /\ DOMAIN it \subseteq Positions
      /\ it \in [DOMAIN it -> TimerEntry] /\ l.m_next_trigger_time \in Int
  BY ListsAre DEF ListOK
<1>2. /\ made.m_timers = new
      /\ made.m_iterators = index
      /\ made.m_next_trigger_time =
             IF l.m_next_trigger_time = NoTrigger \/ trigger < l.m_next_trigger_time
             THEN trigger ELSE l.m_next_trigger_time
      /\ made = [m_timers |-> made.m_timers, m_iterators |-> made.m_iterators,
                 m_next_trigger_time |-> made.m_next_trigger_time]
  <2>1. index = [q \in DOMAIN it \cup {p} |-> IF q \in DOMAIN it THEN it[q] ELSE entry]
    OBVIOUS
  <2>2. QED
    BY <2>1 DEF Inserted
<1> HIDE DEF made
<1>3. /\ Len(s) \in Nat /\ DOMAIN s = 1 .. Len(s)
      /\ \A i \in DOMAIN s : s[i] \in TimerEntry /\ s[i].trigger \in Int
  BY <1>1, EntriesAre
<1>4. /\ \A i \in DOMAIN s : s[i].position \in DOMAIN it /\ it[s[i].position] = s[i]
      /\ \A q \in DOMAIN it : \E i \in DOMAIN s : s[i].position = q
      /\ \A i, j \in DOMAIN s : s[i].position = s[j].position => i = j
      /\ \A i, j \in DOMAIN s : i < j => s[i].trigger <= s[j].trigger
      /\ l.m_next_trigger_time = FirstTrigger(s)
  BY DEF ListOK, Indexed, OnePerNode, Ordered, FirstKnown
<1>5. /\ k \in 1 .. Len(s) + 1
      /\ \A j \in DOMAIN s : s[j].trigger <= trigger <=> j < k
  <2>1. Ordered(s)
    BY DEF ListOK
  <2>2. QED
    BY <1>1, <2>1, UpperBoundIs, UpperBoundSplits
<1>6. entry \in TimerEntry /\ entry.trigger = trigger /\ entry.position = p
  BY DEF TimerEntry
<1> HIDE DEF k, entry
<1>7. /\ new \in Seq(TimerEntry) /\ Len(new) = Len(s) + 1
      /\ \A i \in 1 .. Len(s) + 1 :
            new[i] = IF i < k THEN s[i] ELSE IF i = k THEN entry ELSE s[i - 1]
  <2> HIDE DEF s, it, index, src
  <2>1. s \in Seq(TimerEntry) /\ k \in 1 .. Len(s) + 1 /\ entry \in TimerEntry
    BY <1>1, <1>5, <1>6
  <2>2. QED
    BY <2>1, InsertAtIs
<1> HIDE DEF new
<1>8. DOMAIN new = 1 .. Len(s) + 1
  BY <1>3, <1>7, EntriesAre
<1>9. /\ k \in DOMAIN new /\ new[k] = entry
      /\ \A i \in DOMAIN new \ {k} : src(i) \in DOMAIN s /\ new[i] = s[src(i)]
  BY <1>3, <1>5, <1>7, <1>8
<1>10. \A i, j \in DOMAIN new \ {k} : (i < j <=> src(i) < src(j)) /\ (src(i) = src(j) => i = j)
  BY <1>3, <1>5, <1>8
<1>11. \A i \in DOMAIN new \ {k} : i < k <=> src(i) < k
  BY <1>3, <1>5, <1>8
<1>12. \A j \in DOMAIN s : \E i \in DOMAIN new \ {k} : src(i) = j
  <2> SUFFICES ASSUME NEW j \in DOMAIN s PROVE \E i \in DOMAIN new \ {k} : src(i) = j
    OBVIOUS
  <2> DEFINE i == IF j < k THEN j ELSE j + 1
  <2>1. i \in DOMAIN new \ {k} /\ src(i) = j
    BY <1>3, <1>5, <1>8
  <2>2. QED
    BY <2>1
<1> HIDE DEF src
<1>13. Ordered(new)
  <2> SUFFICES ASSUME NEW i \in DOMAIN new, NEW j \in DOMAIN new, i < j
               PROVE  new[i].trigger <= new[j].trigger
    BY DEF Ordered
  <2>1. CASE i = k
    <3>1. j # k /\ ~ (j < k)
      BY <1>5, <1>8, <2>1
    <3>2. ~ (s[src(j)].trigger <= trigger) /\ s[src(j)].trigger \in Int
      BY <1>3, <1>5, <1>9, <1>11, <3>1
    <3>3. QED
      BY <1>6, <1>9, <2>1, <3>1, <3>2
  <2>2. CASE j = k
    <3>1. i # k /\ i < k
      BY <1>5, <1>8, <2>2
    <3>2. s[src(i)].trigger <= trigger
      BY <1>5, <1>9, <1>11, <3>1
    <3>3. QED
      BY <1>6, <1>9, <2>2, <3>1, <3>2
  <2>3. CASE i # k /\ j # k
    BY <1>4, <1>9, <1>10, <2>3
  <2>4. QED
    BY <2>1, <2>2, <2>3
<1>14. \A i \in DOMAIN new : i # k => new[i].position \in DOMAIN it /\ new[i].position # p
  BY <1>4, <1>9
<1>15. OnePerNode(new)
  <2> SUFFICES ASSUME NEW i \in DOMAIN new, NEW j \in DOMAIN new,
                      new[i].position = new[j].position
               PROVE  i = j
    BY DEF OnePerNode
  <2>1. CASE i = k \/ j = k
    BY <1>6, <1>9, <1>14, <2>1
  <2>2. CASE i # k /\ j # k
    BY <1>4, <1>9, <1>10, <2>2
  <2>3. QED
    BY <2>1, <2>2
<1>16. Indexed(made)
  <2>1. \A i \in DOMAIN new :
           new[i].position \in DOMAIN index /\ index[new[i].position] = new[i]
    BY <1>4, <1>6, <1>9, <1>14
  <2>2. \A q \in DOMAIN index : \E i \in DOMAIN new : new[i].position = q
    <3> SUFFICES ASSUME NEW q \in DOMAIN index PROVE \E i \in DOMAIN new : new[i].position = q
      OBVIOUS
    <3>1. CASE q = p
      BY <1>6, <1>9, <3>1
    <3>2. CASE q # p
      <4>1. PICK j \in DOMAIN s : s[j].position = q
        BY <1>4, <3>2
      <4>2. PICK i \in DOMAIN new \ {k} : src(i) = j
        BY <1>12
      <4>3. QED
        BY <1>9, <4>1, <4>2
    <3>3. QED
      BY <3>1, <3>2
  <2> HIDE DEF index
  <2>3. QED
    BY <1>2, <2>1, <2>2 DEF Indexed
<1>17. FirstKnown(made)
  <2>1. FirstTrigger(new) = new[1].trigger
    BY <1>3, <1>7, FirstTriggerIs
  <2>2. CASE Len(s) = 0
    <3>1. l.m_next_trigger_time = NoTrigger
      BY <1>1, <1>4, <2>2, FirstTriggerIs
    <3>2. k = 1
      BY <1>5, <2>2
    <3>3. QED
      BY <1>2, <1>6, <1>9, <2>1, <3>1, <3>2 DEF FirstKnown
  <2>3. CASE Len(s) # 0
    <3>1. 1 \in DOMAIN s /\ l.m_next_trigger_time = s[1].trigger
      BY <1>1, <1>3, <1>4, <2>3, FirstTriggerIs
    <3>2. l.m_next_trigger_time # NoTrigger
      BY <1>4, <3>1 DEF NeverNoTrigger
    <3>3. CASE trigger < l.m_next_trigger_time
      <4>1. k = 1
        BY <1>3, <1>5, <3>1, <3>3
      <4>2. QED
        BY <1>2, <1>6, <1>9, <2>1, <3>3, <4>1 DEF FirstKnown
    <3>4. CASE ~ (trigger < l.m_next_trigger_time)
      <4>1. 1 < k
        BY <1>3, <1>5, <3>1, <3>4
      <4>2. new[1] = s[1]
        BY <1>3, <1>7, <4>1
      <4>3. QED
        BY <1>2, <2>1, <3>1, <3>2, <3>4, <4>2 DEF FirstKnown
    <3>5. QED
      BY <3>3, <3>4
  <2>4. QED
    BY <2>2, <2>3
<1>18. made \in Lists
  <2>1. index \in [DOMAIN it \cup {p} -> TimerEntry]
    BY <1>1, <1>6
  <2>2. index \in Indexes
    BY <1>1, <2>1 DEF Indexes
  <2> HIDE DEF index
  <2>3. made.m_next_trigger_time \in Int
    BY <1>1, <1>2
  <2>4. QED
    BY <1>2, <1>7, <2>2, <2>3 DEF Lists
<1>19. QED
  BY <1>2, <1>13, <1>15, <1>16, <1>17, <1>18 DEF ListOK, IndexWith, entry, made

(* set: p has the new timer and no other, and the rest is as it was.       *)
LEMMA RenewedIs ==
    ASSUME NEW l, ListOK(l), NeverNoTrigger(l), m_time \in Nat,
           NEW p \in Positions, NEW timeout \in Timeouts, NEW elapsed \in Int
    PROVE  /\ ListOK(Renewed(l, p, timeout, elapsed))
           /\ Renewed(l, p, timeout, elapsed).m_iterators =
                 IndexWith(l.m_iterators, p, timeout, m_time + timeout - elapsed)
<1> DEFINE left == Removed(l, p)
           trigger == m_time + timeout - elapsed
<1>1. ListOK(left) /\ left.m_iterators = IndexWithout(l.m_iterators, p)
  BY RemovedIs
<1> HIDE DEF left
<1>2. NeverNoTrigger(left) /\ p \in Positions \ DOMAIN left.m_iterators
  BY <1>1 DEF NeverNoTrigger, IndexWithout
<1>3. trigger \in Int
  BY SettingsAre
<1>4. Renewed(l, p, timeout, elapsed) = Inserted(left, p, timeout, trigger)
  BY DEF Renewed, left
<1> HIDE DEF trigger
<1>5. /\ ListOK(Inserted(left, p, timeout, trigger))
      /\ Inserted(left, p, timeout, trigger).m_iterators =
            IndexWith(left.m_iterators, p, timeout, trigger)
  BY <1>1, <1>2, <1>3, InsertedIs
<1>6. IndexWith(left.m_iterators, p, timeout, trigger)
      = IndexWith(l.m_iterators, p, timeout, trigger)
  BY <1>1 DEF IndexWith, IndexWithout
<1>7. QED
  BY <1>4, <1>5, <1>6 DEF trigger

\* A timer as the block that is loaded has it, its clock at 0.
Reset(entry) ==
    [trigger |-> entry.trigger - m_time, timeout |-> entry.timeout,
     position |-> entry.position]

(* A new list has no timers.                                               *)
LEMMA ClearedOK == ListOK(Cleared) /\ DOMAIN Cleared.m_iterators = {}
<1>1. /\ DOMAIN Cleared.m_iterators = {} /\ Cleared.m_timers = << >>
      /\ Cleared.m_next_trigger_time = NoTrigger
  BY DEF Cleared
<1>2. Cleared \in Lists
  <2>1. [p \in {} |-> 0] \in [{} -> TimerEntry] /\ {} \in SUBSET Positions
    OBVIOUS
  <2>2. [p \in {} |-> 0] \in Indexes
    BY <2>1 DEF Indexes
  <2>3. << >> \in Seq(TimerEntry) /\ NoTrigger \in Int
    BY DEF NoTrigger
  <2>4. QED
    BY <2>2, <2>3 DEF Lists, Cleared
<1>3. DOMAIN << >> = {}
  OBVIOUS
<1>4. QED
  BY <1>1, <1>2, <1>3 DEF ListOK, Ordered, OnePerNode, Indexed, FirstKnown, FirstTrigger

(* deSerialize inserts the saved timers one after the other, each at its   *)
(* place: the new list has those whose timeout is above 0, counted from a  *)
(* clock at 0.                                                             *)
LEMMA LoadedIs ==
    ASSUME NEW l, ListOK(l), m_time \in Nat,
           \A p \in DOMAIN l.m_iterators : l.m_iterators[p].trigger - m_time # NoTrigger
    PROVE  /\ ListOK(Loaded(l.m_timers))
           /\ Loaded(l.m_timers).m_iterators =
                 [p \in {q \in DOMAIN l.m_iterators : l.m_iterators[q].timeout > 0} |->
                     Reset(l.m_iterators[p])]
<1> DEFINE s == l.m_timers
           it == l.m_iterators
           kept(n) == {s[i].position : i \in {j \in 1 .. n : s[j].timeout > 0}}
           index(n) == [q \in kept(n) |-> Reset(it[q])]
           insert(b, n) == Inserted(b, s[n].position, s[n].timeout, s[n].trigger - m_time)
           step(b, n) == IF s[n].timeout <= 0 \/ s[n].position \in DOMAIN b.m_iterators
                         THEN b ELSE insert(b, n)
           Upto(f, n) == f = [i \in 0 .. n |-> IF i = 0 THEN Cleared ELSE step(f[i - 1], i)]
           upto == CHOOSE f : Upto(f, Len(s))
<1>1. Loaded(s) = upto[Len(s)]
  BY DEF Loaded
<1>2. s \in Seq(TimerEntry) /\ DOMAIN it \subseteq Positions /\ it \in [DOMAIN it -> TimerEntry]
  BY ListsAre DEF ListOK
<1>3. /\ Len(s) \in Nat /\ DOMAIN s = 1 .. Len(s)
      /\ \A i \in DOMAIN s : /\ s[i] \in TimerEntry /\ s[i].trigger \in Int
                             /\ s[i].timeout \in Timeouts /\ s[i].timeout \in Int
                             /\ s[i].position \in Positions
  BY <1>2, EntriesAre, SettingsAre
<1>4. /\ \A i \in DOMAIN s : s[i].position \in DOMAIN it /\ it[s[i].position] = s[i]
      /\ \A q \in DOMAIN it : \E i \in DOMAIN s : s[i].position = q
      /\ \A i, j \in DOMAIN s : s[i].position = s[j].position => i = j
  BY DEF ListOK, Indexed, OnePerNode
<1>5. \A q \in DOMAIN it : it[q].trigger - m_time # NoTrigger
  OBVIOUS
<1> HIDE DEF s, it, step
<1>6. \A n \in 0 .. Len(s) : \E f : Upto(f, n)
  <2> DEFINE D == {n \in 0 .. Len(s) : ~ \E f : Upto(f, n)}
  <2> SUFFICES ASSUME D # {} PROVE FALSE
    OBVIOUS
  <2>1. D \in SUBSET Nat
    BY <1>3
  <2>2. PICK n \in D : \A y \in D : n <= y
    BY <2>1, MinOf
  <2>3. n \in 0 .. Len(s) /\ n \in Nat /\ ~ \E f : Upto(f, n)
    BY <1>3
  <2> HIDE DEF D
  <2>4. n # 0
    <3> DEFINE f == [i \in 0 .. 0 |-> Cleared]
    <3>1. f = [i \in 0 .. 0 |-> IF i = 0 THEN Cleared ELSE step(f[i - 1], i)]
      OBVIOUS
    <3>2. Upto(f, 0)
      BY <3>1
    <3>3. QED
      BY <2>3, <3>2
  <2>5. n - 1 \in 0 .. Len(s) /\ ~ (n <= n - 1)
    BY <1>3, <2>3, <2>4
  <2>6. n - 1 \notin D
    BY <2>2, <2>5
  <2>7. PICK f : Upto(f, n - 1)
    BY <2>5, <2>6 DEF D
  <2> DEFINE g == [i \in 0 .. n |-> IF i = n THEN step(f[n - 1], n) ELSE f[i]]
  <2>8. \A i \in 0 .. n : g[i] = IF i = 0 THEN Cleared ELSE step(g[i - 1], i)
    <3> SUFFICES ASSUME NEW i \in 0 .. n
                 PROVE  g[i] = IF i = 0 THEN Cleared ELSE step(g[i - 1], i)
      OBVIOUS
    <3>1. CASE i = n
      <4>1. n - 1 \in 0 .. n /\ n - 1 # n
        BY <2>3, <2>4
      <4>2. g[n - 1] = f[n - 1] /\ g[n] = step(f[n - 1], n)
        BY <2>3, <4>1
      <4>3. QED
        BY <2>4, <3>1, <4>2
    <3>2. CASE i # n /\ i # 0
      <4>1. i \in 0 .. n - 1 /\ i - 1 \in 0 .. n /\ i - 1 # n
        BY <2>3, <3>2
      <4>2. g[i] = f[i] /\ g[i - 1] = f[i - 1]
        BY <3>2, <4>1
      <4>3. f[i] = step(f[i - 1], i)
        BY <2>7, <3>2, <4>1
      <4>4. QED
        BY <3>2, <4>2, <4>3
    <3>3. CASE i = 0
      <4>1. 0 \in 0 .. n - 1 /\ g[0] = f[0]
        BY <2>3, <2>4
      <4>2. QED
        BY <2>7, <3>3, <4>1
    <3>4. QED
      BY <3>1, <3>2, <3>3
  <2>9. Upto(g, n)
    <3>1. g = [i \in 0 .. n |-> g[i]]
      OBVIOUS
    <3> HIDE DEF g
    <3>2. QED
      BY <2>8, <3>1
  <2>10. QED
    BY <2>3, <2>9
<1>7. Upto(upto, Len(s))
  <2>1. \E f : Upto(f, Len(s))
    BY <1>3, <1>6
  <2>2. QED
    BY <2>1
<1>8. /\ upto[0] = Cleared
      /\ \A n \in 1 .. Len(s) : upto[n] = step(upto[n - 1], n)
  <2> HIDE DEF upto
  <2>1. 0 \in 0 .. Len(s) /\ \A n \in 1 .. Len(s) : n \in 0 .. Len(s) /\ n # 0
    BY <1>3
  <2>2. QED
    BY <1>7, <2>1
<1> HIDE DEF upto, Upto
<1> DEFINE P(n) == ListOK(upto[n]) /\ upto[n].m_iterators = index(n)
<1>9. P(0)
  <2>1. kept(0) = {}
    OBVIOUS
  <2>2. Cleared.m_iterators = index(0)
    BY <2>1 DEF Cleared
  <2> HIDE DEF index
  <2>3. QED
    BY <1>8, <2>2, ClearedOK
<1>10. \A n \in 1 .. Len(s) : P(n - 1) => P(n)
  <2> SUFFICES ASSUME NEW n \in 1 .. Len(s), P(n - 1) PROVE P(n)
    OBVIOUS
  <2> DEFINE old == upto[n - 1]
             p == s[n].position
             trigger == s[n].trigger - m_time
  <2>1. /\ n \in DOMAIN s /\ trigger \in Int /\ p \in Positions
        /\ s[n].timeout \in Timeouts /\ s[n].timeout \in Int
    BY <1>3
  <2>2. 1 .. n = 1 .. n - 1 \cup {n}
    BY <1>3
  <2>3. upto[n] = step(old, n)
    BY <1>8
  <2>4. CASE s[n].timeout <= 0
    <3>1. kept(n) = kept(n - 1)
      BY <2>1, <2>2, <2>4
    <3>2. upto[n] = old
      BY <2>3, <2>4 DEF step
    <3>3. QED
      BY <3>1, <3>2
  <2>5. CASE ~ (s[n].timeout <= 0)
    <3>1. kept(n) = kept(n - 1) \cup {p}
      <4>1. {j \in 1 .. n : s[j].timeout > 0} = {j \in 1 .. n - 1 : s[j].timeout > 0} \cup {n}
        BY <2>1, <2>2, <2>5
      <4>2. QED
        BY <4>1
    <3>2. p \notin kept(n - 1)
      <4>1. \A i \in 1 .. n - 1 : i \in DOMAIN s /\ i # n
        BY <1>3
      <4>2. QED
        BY <1>4, <2>1, <4>1
    <3>3. \A q \in kept(n - 1) : q \in DOMAIN it
      <4>1. \A i \in 1 .. n - 1 : i \in DOMAIN s
        BY <1>3
      <4>2. QED
        BY <1>4, <4>1
    <3>4. NeverNoTrigger(old)
      <4>1. \A q \in kept(n - 1) : Reset(it[q]).trigger # NoTrigger
        BY <1>5, <3>3 DEF Reset
      <4>2. DOMAIN old.m_iterators = kept(n - 1)
            /\ \A q \in kept(n - 1) : old.m_iterators[q] = Reset(it[q])
        OBVIOUS
      <4> HIDE DEF kept
      <4>3. QED
        BY <4>1, <4>2 DEF NeverNoTrigger
    <3>5. upto[n] = insert(old, n) /\ p \in Positions \ DOMAIN old.m_iterators
      BY <2>1, <2>3, <2>5, <3>2 DEF step
    <3>6. /\ ListOK(upto[n])
          /\ upto[n].m_iterators = IndexWith(old.m_iterators, p, s[n].timeout, trigger)
      <4> HIDE DEF old, p, trigger
      <4>1. ListOK(old) /\ upto[n] = Inserted(old, p, s[n].timeout, trigger)
        BY <3>5 DEF old, p, trigger
      <4>2. QED
        BY <2>1, <3>4, <3>5, <4>1, InsertedIs
    <3>7. IndexWith(old.m_iterators, p, s[n].timeout, trigger) = index(n)
      <4>1. it[p] = s[n]
        BY <1>4, <2>1
      <4>2. Reset(it[p]) = [trigger |-> trigger, timeout |-> s[n].timeout, position |-> p]
        BY <4>1 DEF Reset
      <4> HIDE DEF kept, p, trigger
      <4>3. QED
        BY <3>1, <3>2, <4>2 DEF IndexWith
    <3>8. QED
      BY <3>6, <3>7
  <2>6. QED
    BY <2>4, <2>5
<1> HIDE DEF P
<1>11. P(Len(s))
  <2> DEFINE D == {n \in 0 .. Len(s) : ~ P(n)}
  <2>1. D = {}
    <3> SUFFICES ASSUME D # {} PROVE FALSE
      OBVIOUS
    <3>1. D \in SUBSET Nat
      BY <1>3
    <3>2. PICK n \in D : \A y \in D : n <= y
      BY <3>1, MinOf
    <3>3. n \in 0 .. Len(s) /\ ~ P(n) /\ n # 0
      BY <1>9
    <3>4. n - 1 \in 0 .. Len(s) /\ n \in 1 .. Len(s) /\ ~ (n <= n - 1)
      BY <1>3, <3>3
    <3>5. P(n - 1)
      BY <3>2, <3>4
    <3>6. QED
      BY <1>10, <3>3, <3>4, <3>5
  <2>2. QED
    BY <1>3, <2>1
<1>12. kept(Len(s)) = {q \in DOMAIN it : it[q].timeout > 0}
  <2>1. \A i \in 1 .. Len(s) :
           s[i].position \in DOMAIN it /\ it[s[i].position].timeout = s[i].timeout
    BY <1>3, <1>4
  <2>2. \A q \in DOMAIN it : \E i \in 1 .. Len(s) : s[i].position = q
    BY <1>3, <1>4
  <2>3. QED
    BY <2>1, <2>2
<1> HIDE DEF kept
<1>13. QED
  BY <1>1, <1>11, <1>12 DEF P, s, it

-----------------------------------------------------------------------------
(* The steps *)

\* A step keeps the invariant and is one of the set of timers, or a stutter.
TimersGood == TimerInv' /\ [TimerSet!TimerSetNext]_(TimerSet!timersetvars)

(* A list with a timer set for p is the set with that timer.               *)
LEMMA TimersWith ==
    ASSUME TimerInv, NEW p, NEW timeout \in Int, NEW elapsed \in Int,
           list'.m_iterators =
              IndexWith(list.m_iterators, p, timeout, m_time + timeout - elapsed),
           m_time' = m_time
    PROVE  Timers' = TimerSet!WithTimer(p, timeout, elapsed)
<1> DEFINE it == list.m_iterators
           new == list'.m_iterators
<1>1. DOMAIN new = DOMAIN it \cup {p} /\ DOMAIN Timers = DOMAIN it
  BY DEF IndexWith, Timers
<1>2. \A q \in DOMAIN new :
         [left |-> new[q].trigger - m_time, timeout |-> new[q].timeout]
         = IF q = p THEN [left |-> timeout - elapsed, timeout |-> timeout] ELSE Timers[q]
  <2> SUFFICES ASSUME NEW q \in DOMAIN new
               PROVE  [left |-> new[q].trigger - m_time, timeout |-> new[q].timeout]
                      = IF q = p THEN [left |-> timeout - elapsed, timeout |-> timeout]
                        ELSE Timers[q]
    OBVIOUS
  <2>1. CASE q = p
    <3>1. new[q].trigger = m_time + timeout - elapsed /\ new[q].timeout = timeout
      BY <2>1 DEF IndexWith
    <3>2. new[q].trigger - m_time = timeout - elapsed
      BY <3>1 DEF TimerInv
    <3> HIDE DEF new
    <3>3. QED
      BY <2>1, <3>1, <3>2
  <2>2. CASE q # p
    <3>1. q \in DOMAIN it /\ new[q] = it[q]
      BY <1>1, <2>2 DEF IndexWith
    <3>2. QED
      BY <2>2, <3>1 DEF Timers
  <2>3. QED
    BY <2>1, <2>2
<1>3. Timers' = [q \in DOMAIN new |-> [left |-> new[q].trigger - m_time, timeout |-> new[q].timeout]]
  BY DEF Timers
<1>4. QED
  BY <1>1, <1>2, <1>3 DEF TimerSet!WithTimer

(* NodeTimerRef::l_set sets one timer of the set.                          *)
LEMMA LuaSetGood ==
    ASSUME TimerInv, NeverNoTrigger(list),
           NEW p \in Positions, NEW setting \in Settings,
           LuaSet(p, setting.timeout, setting.elapsed)
    PROVE  TimersGood
<1> DEFINE t == setting.timeout
           e == setting.elapsed
<1>1. t \in Timeouts /\ t \in Int /\ e \in Int /\ m_time \in Nat /\ ListOK(list)
  BY SettingsAre DEF TimerInv
<1>2. list' = Renewed(list, p, t, e) /\ m_time' = m_time /\ elapsed_timers' = elapsed_timers
  BY DEF LuaSet
<1>3. /\ ListOK(list')
      /\ list'.m_iterators = IndexWith(list.m_iterators, p, t, m_time + t - e)
  <2> HIDE DEF t, e
  <2>1. QED
    BY <1>1, <1>2, RenewedIs
<1>4. TimerInv'
  BY <1>2, <1>3 DEF TimerInv
<1>5. TimerSet!SetTimer(p, t, e)
  <2> HIDE DEF t, e
  <2>1. QED
    BY <1>1, <1>2, <1>3, TimersWith DEF TimerSet!SetTimer
<1>6. QED
  BY <1>4, <1>5 DEF TimersGood, TimerSet!TimerSetNext

(* NodeTimerRef::l_stop takes one timer out of the set.                    *)
LEMMA LuaStopGood ==
    ASSUME TimerInv, NEW p \in Positions, LuaStop(p)
    PROVE  TimersGood
<1>1. list' = Removed(list, p) /\ m_time' = m_time /\ elapsed_timers' = elapsed_timers
  BY DEF LuaStop
<1>2. ListOK(list') /\ list'.m_iterators = IndexWithout(list.m_iterators, p)
  BY <1>1, RemovedIs DEF TimerInv
<1>3. TimerInv'
  BY <1>1, <1>2 DEF TimerInv
<1>4. Timers' = [q \in DOMAIN Timers \ {p} |-> Timers[q]]
  BY <1>1, <1>2 DEF Timers, IndexWithout
<1>5. TimerSet!StopTimer(p)
  BY <1>1, <1>4 DEF TimerSet!StopTimer
<1>6. QED
  BY <1>3, <1>5 DEF TimersGood, TimerSet!TimerSetNext

(* The callback of the first timer returns, with or without another cycle. *)
LEMMA TimerCallbackGood ==
    ASSUME TimerInv, NeverNoTrigger(list), NEW again \in BOOLEAN, TimerCallback(again)
    PROVE  TimersGood
<1> DEFINE first == Head(elapsed_timers)
<1>1. /\ elapsed_timers # << >> /\ elapsed_timers' = Tail(elapsed_timers)
      /\ list' = IF again THEN Renewed(list, first.position, first.timeout, 0) ELSE list
      /\ m_time' = m_time
  BY DEF TimerCallback
<1>2. /\ elapsed_timers \in Seq(TimerSet!Run) /\ m_time \in Nat /\ ListOK(list)
  BY DEF TimerInv
<1>3. first \in TimerSet!Run /\ Tail(elapsed_timers) \in Seq(TimerSet!Run)
  BY <1>1, <1>2, HeadTailProperties
<1>4. first.position \in Positions /\ first.timeout \in Timeouts /\ first.timeout \in Int
  BY <1>3, SettingsAre DEF TimerSet!Run, Timeouts
<1> HIDE DEF first
<1>5. CASE again
  <2>1. /\ ListOK(list')
        /\ list'.m_iterators = IndexWith(list.m_iterators, first.position, first.timeout,
                                         m_time + first.timeout - 0)
    BY <1>1, <1>2, <1>4, <1>5, RenewedIs, 0 \in Int
  <2>2. Timers' = TimerSet!WithTimer(first.position, first.timeout, 0)
    BY <1>1, <1>4, <2>1, TimersWith
  <2>3. TimerSet!CallbackReturns(again)
    BY <1>1, <1>5, <2>2 DEF TimerSet!CallbackReturns, first
  <2>4. TimerInv'
    BY <1>1, <1>2, <1>3, <2>1 DEF TimerInv
  <2>5. QED
    BY <2>3, <2>4 DEF TimersGood, TimerSet!TimerSetNext
<1>6. CASE ~ again
  <2>1. Timers' = Timers
    BY <1>1, <1>6 DEF Timers
  <2>2. TimerSet!CallbackReturns(again)
    BY <1>1, <1>6, <2>1 DEF TimerSet!CallbackReturns
  <2>3. TimerInv'
    BY <1>1, <1>2, <1>3, <1>6 DEF TimerInv
  <2>4. QED
    BY <2>2, <2>3 DEF TimersGood, TimerSet!TimerSetNext
<1>7. QED
  BY <1>5, <1>6

(* Saving and loading forgets the timers whose timeout is not above 0;     *)
(* each other has as much left as before.                                  *)
LEMMA SaveAndLoadGood ==
    ASSUME TimerInv, SaveAndLoad,
           \A p \in DOMAIN list.m_iterators : list.m_iterators[p].trigger - m_time # NoTrigger
    PROVE  TimersGood
<1> DEFINE it == list.m_iterators
           kept == {q \in DOMAIN it : it[q].timeout > 0}
<1>1. /\ elapsed_timers = << >>
      /\ m_time' = 0 /\ list' = Loaded(list.m_timers) /\ elapsed_timers' = elapsed_timers
  BY DEF SaveAndLoad
<1>2. /\ ListOK(list')
      /\ list'.m_iterators = [p \in kept |-> Reset(it[p])]
  BY <1>1, LoadedIs DEF TimerInv
<1>3. TimerInv'
  BY <1>1, <1>2 DEF TimerInv
<1>4. \A p \in DOMAIN it : it[p].trigger \in Int
  <2>1. it \in [DOMAIN it -> TimerEntry]
    BY ListsAre DEF TimerInv, ListOK
  <2>2. QED
    BY <2>1 DEF TimerEntry
<1>5. \A p \in kept :
         [left |-> list'.m_iterators[p].trigger - m_time', timeout |-> list'.m_iterators[p].timeout]
         = Timers[p]
  <2> SUFFICES ASSUME NEW p \in kept
               PROVE  /\ list'.m_iterators[p].trigger - m_time' = it[p].trigger - m_time
                      /\ list'.m_iterators[p].timeout = it[p].timeout
    BY DEF Timers
  <2>1. list'.m_iterators[p] = Reset(it[p])
    BY <1>2
  <2>2. /\ Reset(it[p]).trigger = it[p].trigger - m_time
        /\ Reset(it[p]).timeout = it[p].timeout
    BY DEF Reset
  <2>3. it[p].trigger - m_time \in Int
    BY <1>4 DEF TimerInv
  <2>4. QED
    BY <1>1, <2>1, <2>2, <2>3
<1>6. DOMAIN list'.m_iterators = kept
  BY <1>2
<1>7. kept = {q \in DOMAIN Timers : Timers[q].timeout > 0}
  BY DEF Timers
<1>8. Timers' = [q \in kept |-> Timers[q]]
  <2>1. Timers' = [p \in DOMAIN list'.m_iterators |->
                     [left |-> list'.m_iterators[p].trigger - m_time',
                      timeout |-> list'.m_iterators[p].timeout]]
    BY DEF Timers
  <2> HIDE DEF kept
  <2>2. QED
    BY <1>5, <1>6, <2>1
<1>9. TimerSet!Reload
  BY <1>1, <1>7, <1>8 DEF TimerSet!Reload
<1>10. QED
  BY <1>3, <1>9 DEF TimersGood, TimerSet!TimerSetNext

(* NodeTimerList::step takes exactly the timers that run out by now from   *)
(* the list, the earlier ones first, whether or not it looks at the list.  *)
LEMMA StepTakes ==
    ASSUME TimerInv, NeverNoTrigger(list), NEW dtime \in Steps, StepTimers(dtime)
    PROVE  LET s == list.m_timers
               it == list.m_iterators
               now == m_time + dtime
               k == UpperBound(s, now)
           IN  /\ ListOK(list')
               /\ list'.m_iterators = [p \in {q \in DOMAIN it : ~ (it[q].trigger <= now)} |-> it[p]]
               /\ elapsed_timers' = [j \in 1 .. k - 1 |->
                     [position |-> s[j].position, timeout |-> s[j].timeout,
                      elapsed |-> s[j].timeout + now - s[j].trigger]]
<1> DEFINE s == list.m_timers
           it == list.m_iterators
           now == m_time + dtime
           k == UpperBound(s, now)
           out == SubSeq(s, 1, k - 1)
           left == SubSeq(s, k, Len(s))
           later == {q \in DOMAIN it : ~ (it[q].trigger <= now)}
           index == [p \in later |-> it[p]]
           told(j) == [position |-> s[j].position, timeout |-> s[j].timeout,
                       elapsed |-> s[j].timeout + now - s[j].trigger]
<1>1. /\ s \in Seq(TimerEntry) /\ DOMAIN it \subseteq Positions
      /\ it \in [DOMAIN it -> TimerEntry] /\ list.m_next_trigger_time \in Int
  BY ListsAre DEF TimerInv, ListOK
<1>2. /\ Len(s) \in Nat /\ DOMAIN s = 1 .. Len(s)
      /\ \A i \in DOMAIN s : s[i] \in TimerEntry /\ s[i].trigger \in Int
  BY <1>1, EntriesAre
<1>3. /\ \A i \in DOMAIN s : s[i].position \in DOMAIN it /\ it[s[i].position] = s[i]
      /\ \A q \in DOMAIN it : \E i \in DOMAIN s : s[i].position = q
      /\ \A i, j \in DOMAIN s : s[i].position = s[j].position => i = j
      /\ \A i, j \in DOMAIN s : i < j => s[i].trigger <= s[j].trigger
      /\ list.m_next_trigger_time = FirstTrigger(s)
  BY DEF TimerInv, ListOK, Indexed, OnePerNode, Ordered, FirstKnown
<1>4. now \in Int /\ m_time \in Nat
  BY TimersAssumption DEF TimerInv
<1>5. /\ k \in 1 .. Len(s) + 1
      /\ \A j \in DOMAIN s : s[j].trigger <= now <=> j < k
  <2>1. Ordered(s)
    BY DEF TimerInv, ListOK
  <2>2. QED
    BY <1>1, <1>4, <2>1, UpperBoundIs, UpperBoundSplits
<1>6. elapsed_timers = << >> /\ m_time' = now
  BY DEF StepTimers
<1>7. CASE list.m_next_trigger_time # NoTrigger /\ now >= list.m_next_trigger_time
  <2>1. /\ list' = [m_timers |-> left,
                    m_iterators |-> [p \in DOMAIN it \ {out[j].position : j \in DOMAIN out} |-> it[p]],
                    m_next_trigger_time |-> FirstTrigger(left)]
        /\ elapsed_timers' = [j \in DOMAIN out |->
               [position |-> out[j].position, timeout |-> out[j].timeout,
                elapsed |-> out[j].timeout + now - out[j].trigger]]
    BY <1>7 DEF StepTimers
  <2> HIDE DEF k, now
  <2>2. \A i \in 1 .. Len(s) : s[i] \in TimerEntry
    BY <1>2
  <2>3. /\ DOMAIN out = 1 .. k - 1
        /\ \A j \in 1 .. k - 1 : out[j] = s[j]
    <3>1. k - 1 \in Int /\ \A i \in 1 .. k - 1 : s[i] \in TimerEntry
      BY <1>2, <1>5, <2>2
    <3>2. /\ out \in Seq(TimerEntry)
          /\ Len(out) = IF 1 <= k - 1 THEN k - 1 - 1 + 1 ELSE 0
          /\ \A j \in 1 .. k - 1 - 1 + 1 : out[j] = s[1 + j - 1]
      BY <3>1, SubSeqProperties
    <3> HIDE DEF out
    <3>3. Len(out) = k - 1 /\ 1 .. k - 1 - 1 + 1 = 1 .. k - 1
      BY <1>2, <1>5, <3>2
    <3>4. DOMAIN out = 1 .. Len(out)
      BY <3>2, EntriesAre
    <3>5. QED
      BY <3>2, <3>3, <3>4
  <2>4. /\ left \in Seq(TimerEntry) /\ Len(left) = Len(s) - k + 1
        /\ DOMAIN left = 1 .. Len(s) - k + 1
        /\ \A j \in 1 .. Len(s) - k + 1 : left[j] = s[k + j - 1]
    <3>1. k \in Int /\ Len(s) \in Int /\ \A i \in k .. Len(s) : s[i] \in TimerEntry
      BY <1>2, <1>5, <2>2
    <3>2. /\ left \in Seq(TimerEntry)
          /\ Len(left) = IF k <= Len(s) THEN Len(s) - k + 1 ELSE 0
          /\ \A j \in 1 .. Len(s) - k + 1 : left[j] = s[k + j - 1]
      BY <3>1, SubSeqProperties
    <3> HIDE DEF left
    <3>3. Len(left) = Len(s) - k + 1
      <4>1. CASE k <= Len(s)
        BY <3>2, <4>1
      <4>2. CASE ~ (k <= Len(s))
        <5>1. Len(s) - k + 1 = 0
          BY <1>2, <1>5, <4>2
        <5>2. QED
          BY <3>2, <4>2, <5>1
      <4>3. QED
        BY <4>1, <4>2
    <3>4. DOMAIN left = 1 .. Len(left)
      BY <3>2, EntriesAre
    <3>5. QED
      BY <3>2, <3>3, <3>4
  <2> HIDE DEF out, left
  <2>5. DOMAIN it \ {out[j].position : j \in DOMAIN out} = later
    <3> SUFFICES ASSUME NEW q \in DOMAIN it
                 PROVE  (\E j \in DOMAIN out : out[j].position = q) <=> it[q].trigger <= now
      OBVIOUS
    <3>1. PICK i \in DOMAIN s : s[i].position = q
      BY <1>3
    <3>2. it[q] = s[i] /\ (it[q].trigger <= now <=> i < k)
      BY <1>3, <1>5, <3>1
    <3>3. \A j \in DOMAIN out : j \in DOMAIN s /\ j < k /\ out[j] = s[j]
      BY <1>2, <1>5, <2>3
    <3>4. i < k => i \in DOMAIN out
      BY <1>2, <1>5, <2>3
    <3>5. QED
      BY <1>3, <3>1, <3>2, <3>3, <3>4
  <2>6. list' = [m_timers |-> left, m_iterators |-> index, m_next_trigger_time |-> FirstTrigger(left)]
    BY <2>1, <2>5
  <2>7. elapsed_timers' = [j \in 1 .. k - 1 |-> told(j)]
    BY <2>1, <2>3
  <2>8. \A j \in DOMAIN left :
           /\ k + j - 1 \in DOMAIN s /\ ~ (k + j - 1 < k) /\ left[j] = s[k + j - 1]
    <3> SUFFICES ASSUME NEW j \in DOMAIN left
                 PROVE  /\ k + j - 1 \in DOMAIN s /\ ~ (k + j - 1 < k)
                        /\ left[j] = s[k + j - 1]
      OBVIOUS
    <3>1. j \in 1 .. Len(s) - k + 1
      BY <2>4
    <3>2. k + j - 1 \in DOMAIN s /\ ~ (k + j - 1 < k)
      BY <1>2, <1>5, <3>1
    <3>3. QED
      BY <2>4, <3>1, <3>2
  <2>9. Ordered(left) /\ OnePerNode(left)
    <3>1. \A i, j \in DOMAIN left : i < j => left[i].trigger <= left[j].trigger
      <4> SUFFICES ASSUME NEW i \in DOMAIN left, NEW j \in DOMAIN left, i < j
                   PROVE  left[i].trigger <= left[j].trigger
        OBVIOUS
      <4>1. k + i - 1 < k + j - 1
        BY <1>5, <2>4
      <4>2. QED
        BY <1>3, <2>8, <4>1
    <3>2. \A i, j \in DOMAIN left : left[i].position = left[j].position => i = j
      <4> SUFFICES ASSUME NEW i \in DOMAIN left, NEW j \in DOMAIN left,
                          left[i].position = left[j].position
                   PROVE  i = j
        OBVIOUS
      <4>1. k + i - 1 = k + j - 1
        BY <1>3, <2>8
      <4>2. QED
        BY <1>5, <2>4, <4>1
    <3>3. QED
      BY <3>1, <3>2 DEF Ordered, OnePerNode
  <2>10. /\ \A j \in DOMAIN left : left[j].position \in later /\ it[left[j].position] = left[j]
         /\ \A q \in later : \E j \in DOMAIN left : left[j].position = q
    <3>1. \A j \in DOMAIN left : left[j].position \in later /\ it[left[j].position] = left[j]
      BY <1>3, <1>5, <2>8
    <3>2. \A q \in later : \E j \in DOMAIN left : left[j].position = q
      <4> SUFFICES ASSUME NEW q \in later PROVE \E j \in DOMAIN left : left[j].position = q
        OBVIOUS
      <4>1. PICK i \in DOMAIN s : s[i].position = q
        BY <1>3
      <4>2. ~ (i < k)
        BY <1>3, <1>5, <4>1
      <4>3. i - k + 1 \in DOMAIN left /\ k + (i - k + 1) - 1 = i
        BY <1>2, <1>5, <2>4, <4>2
      <4>4. left[i - k + 1] = s[i]
        BY <2>8, <4>3
      <4>5. QED
        BY <4>1, <4>3, <4>4
    <3>3. QED
      BY <3>1, <3>2
  <2>11. index \in Indexes /\ DOMAIN index = later /\ \A q \in later : index[q] = it[q]
    <3>1. index \in [later -> TimerEntry] /\ later \in SUBSET Positions
      BY <1>1
    <3>2. QED
      BY <3>1 DEF Indexes
  <2>12. FirstTrigger(left) \in Int
    BY <2>4, FirstTriggerIs, EntriesAre DEF NoTrigger
  <2> HIDE DEF index, later
  <2>13. /\ list'.m_timers = left /\ list'.m_iterators = index
         /\ list'.m_next_trigger_time = FirstTrigger(left)
    BY <2>6
  <2>14. list' \in Lists
    BY <2>4, <2>6, <2>11, <2>12 DEF Lists
  <2>15. Indexed(list')
    BY <2>10, <2>11, <2>13 DEF Indexed
  <2>16. ListOK(list')
    BY <2>9, <2>13, <2>14, <2>15 DEF ListOK, FirstKnown
  <2>17. QED
    BY <2>7, <2>13, <2>16 DEF index, later, now, k
<1>8. CASE ~ (list.m_next_trigger_time # NoTrigger /\ now >= list.m_next_trigger_time)
  <2>1. list' = list /\ elapsed_timers' = << >>
    BY <1>6, <1>8 DEF StepTimers
  <2> HIDE DEF now, k
  <2>2. \A j \in DOMAIN s : ~ (s[j].trigger <= now)
    <3> SUFFICES ASSUME NEW j \in DOMAIN s PROVE ~ (s[j].trigger <= now)
      OBVIOUS
    <3>1. 1 \in DOMAIN s /\ Len(s) # 0
      BY <1>2
    <3>2. list.m_next_trigger_time = s[1].trigger
      BY <1>1, <1>3, <3>1, FirstTriggerIs
    <3>3. s[1].trigger # NoTrigger
      BY <1>3, <3>1 DEF NeverNoTrigger
    <3>4. ~ (now >= s[1].trigger)
      BY <1>8, <3>2, <3>3
    <3>5. s[1].trigger <= s[j].trigger
      <4>1. CASE j = 1
        BY <1>2, <4>1
      <4>2. CASE j # 1
        BY <1>2, <1>3, <3>1, <4>2
      <4>3. QED
        BY <4>1, <4>2
    <3>6. QED
      BY <1>2, <1>4, <3>1, <3>4, <3>5
  <2>3. k = 1
    <3>1. CASE 1 \in DOMAIN s
      BY <1>2, <1>5, <2>2, <3>1
    <3>2. CASE 1 \notin DOMAIN s
      BY <1>2, <1>5, <3>2
    <3>3. QED
      BY <3>1, <3>2
  <2>4. [j \in 1 .. k - 1 |-> told(j)] = << >>
    <3>1. 1 .. k - 1 = {}
      BY <2>3
    <3>2. QED
      BY <3>1
  <2>5. later = DOMAIN it
    BY <1>3, <2>2
  <2>6. index = it
    BY <1>1, <2>5
  <2>7. ListOK(list)
    BY DEF TimerInv
  <2>8. QED
    BY <2>1, <2>4, <2>6, <2>7 DEF now, k
<1>9. QED
  BY <1>7, <1>8

(* MapBlock::step up to its first callback is time passing for the set.    *)
LEMMA StepTimersGood ==
    ASSUME TimerInv, NeverNoTrigger(list), NEW dtime \in Steps, StepTimers(dtime)
    PROVE  TimersGood
<1> DEFINE s == list.m_timers
           it == list.m_iterators
           now == m_time + dtime
           k == UpperBound(s, now)
           run(j) == [position |-> s[j].position, timeout |-> s[j].timeout,
                      elapsed |-> s[j].timeout + now - s[j].trigger]
           out == {p \in DOMAIN Timers : Timers[p].left <= dtime}
<1>1. /\ ListOK(list')
      /\ list'.m_iterators = [p \in {q \in DOMAIN it : ~ (it[q].trigger <= now)} |-> it[p]]
      /\ elapsed_timers' = [j \in 1 .. k - 1 |-> run(j)]
  BY StepTakes
<1>2. s \in Seq(TimerEntry) /\ it \in [DOMAIN it -> TimerEntry]
  BY ListsAre DEF TimerInv, ListOK
<1>3. /\ Len(s) \in Nat /\ DOMAIN s = 1 .. Len(s)
      /\ \A i \in DOMAIN s : /\ s[i] \in TimerEntry /\ s[i].trigger \in Int
                             /\ s[i].timeout \in Timeouts /\ s[i].position \in Positions
  BY <1>2, EntriesAre
<1>4. /\ \A i \in DOMAIN s : s[i].position \in DOMAIN it /\ it[s[i].position] = s[i]
      /\ \A q \in DOMAIN it : \E i \in DOMAIN s : s[i].position = q
      /\ \A i, j \in DOMAIN s : s[i].position = s[j].position => i = j
      /\ \A i, j \in DOMAIN s : i < j => s[i].trigger <= s[j].trigger
  BY DEF TimerInv, ListOK, Indexed, OnePerNode, Ordered
<1>5. /\ now \in Nat /\ m_time \in Nat /\ dtime \in Nat
      /\ m_time' = now /\ elapsed_timers = << >>
  BY TimersAssumption DEF TimerInv, StepTimers
<1>6. /\ k \in 1 .. Len(s) + 1
      /\ \A j \in DOMAIN s : s[j].trigger <= now <=> j < k
  <2>1. Ordered(s)
    BY DEF TimerInv, ListOK
  <2>2. QED
    BY <1>2, <1>5, <2>1, UpperBoundIs, UpperBoundSplits
<1>7. \A p \in DOMAIN it : /\ it[p].trigger \in Int
                           /\ it[p].trigger - m_time <= dtime <=> it[p].trigger <= now
  <2>1. \A p \in DOMAIN it : it[p].trigger \in Int
    BY <1>2 DEF TimerEntry
  <2>2. QED
    BY <1>5, <2>1
<1>8. /\ DOMAIN Timers = DOMAIN it
      /\ \A p \in DOMAIN it : /\ Timers[p].left = it[p].trigger - m_time
                              /\ Timers[p].timeout = it[p].timeout
                              /\ [Timers[p] EXCEPT !.left = @ - dtime]
                                   = [left |-> it[p].trigger - m_time - dtime,
                                      timeout |-> it[p].timeout]
  <2>1. DOMAIN Timers = DOMAIN it
    BY DEF Timers
  <2>2. \A p \in DOMAIN it :
           Timers[p] = [left |-> it[p].trigger - m_time, timeout |-> it[p].timeout]
    BY DEF Timers
  <2> HIDE DEF it
  <2>3. QED
    BY <2>1, <2>2
<1>9. \A p \in DOMAIN it : p \in out <=> it[p].trigger <= now
  BY <1>7, <1>8
<1> HIDE DEF k, now
<1>10. 1 .. k - 1 \subseteq DOMAIN s /\ \A j \in DOMAIN s : j < k <=> j \in 1 .. k - 1
  BY <1>3, <1>6
<1>11. elapsed_timers' \in Seq(TimerSet!Run)
  <2>1. \A j \in 1 .. k - 1 : run(j) \in TimerSet!Run
    <3> SUFFICES ASSUME NEW j \in 1 .. k - 1 PROVE run(j) \in TimerSet!Run
      OBVIOUS
    <3>1. /\ s[j].timeout \in Timeouts /\ s[j].timeout \in Int /\ s[j].trigger \in Int
          /\ s[j].position \in Positions
      BY <1>3, <1>10, SettingsAre
    <3>2. s[j].timeout + now - s[j].trigger \in Int
      BY <1>5, <3>1
    <3>3. QED
      BY <3>1, <3>2 DEF TimerSet!Run, Timeouts
  <2>2. k - 1 \in Nat
    BY <1>3, <1>6
  <2> HIDE DEF run
  <2>3. [j \in 1 .. k - 1 |-> run(j)] \in Seq(TimerSet!Run)
    BY <2>1, <2>2, IsASeq
  <2>4. QED
    BY <1>1, <2>3
<1>12. TimerInv'
  BY <1>1, <1>5, <1>11 DEF TimerInv
<1>13. Timers' = [p \in DOMAIN Timers \ out |-> [Timers[p] EXCEPT !.left = @ - dtime]]
  <2>1. DOMAIN list'.m_iterators = DOMAIN Timers \ out
    BY <1>1, <1>8, <1>9
  <2>2. \A p \in DOMAIN Timers \ out :
           [left |-> list'.m_iterators[p].trigger - m_time', timeout |-> list'.m_iterators[p].timeout]
           = [Timers[p] EXCEPT !.left = @ - dtime]
    <3> SUFFICES ASSUME NEW p \in DOMAIN Timers \ out
                 PROVE  [left |-> list'.m_iterators[p].trigger - m_time',
                         timeout |-> list'.m_iterators[p].timeout]
                        = [Timers[p] EXCEPT !.left = @ - dtime]
      OBVIOUS
    <3>1. p \in DOMAIN it /\ list'.m_iterators[p] = it[p]
      BY <1>1, <1>8, <1>9
    <3>2. it[p].trigger - m_time' = it[p].trigger - m_time - dtime
      BY <1>5, <1>7, <3>1 DEF now
    <3>3. QED
      BY <1>8, <3>1, <3>2
  <2>3. Timers' = [p \in DOMAIN list'.m_iterators |->
                     [left |-> list'.m_iterators[p].trigger - m_time',
                      timeout |-> list'.m_iterators[p].timeout]]
    BY DEF Timers
  <2>4. QED
    BY <2>1, <2>2, <2>3
<1> DEFINE place == [i \in DOMAIN elapsed_timers' |-> elapsed_timers'[i].position]
<1>14. /\ DOMAIN elapsed_timers' = 1 .. k - 1 /\ DOMAIN place = 1 .. k - 1
       /\ \A j \in 1 .. k - 1 : elapsed_timers'[j] = run(j) /\ place[j] = s[j].position
  BY <1>1
<1>15. {place[i] : i \in DOMAIN place} = out
  <2>1. \A i \in 1 .. k - 1 : s[i].position \in out
    BY <1>4, <1>6, <1>9, <1>10
  <2>2. \A p \in out : \E i \in 1 .. k - 1 : s[i].position = p
    <3> SUFFICES ASSUME NEW p \in out PROVE \E i \in 1 .. k - 1 : s[i].position = p
      OBVIOUS
    <3>1. p \in DOMAIN it
      BY <1>8
    <3>2. PICK i \in DOMAIN s : s[i].position = p
      BY <1>4, <3>1
    <3>3. s[i].trigger <= now
      BY <1>4, <1>9, <3>1, <3>2
    <3>4. QED
      BY <1>6, <1>10, <3>2, <3>3
  <2> HIDE DEF out, place
  <2>3. QED
    BY <1>14, <2>1, <2>2
<1>16. \A i \in DOMAIN elapsed_timers' : elapsed_timers'[i] = TimerSet!RunOut(place[i], dtime)
  <2> SUFFICES ASSUME NEW i \in 1 .. k - 1
               PROVE  run(i) = TimerSet!RunOut(s[i].position, dtime)
    BY <1>14
  <2> DEFINE p == s[i].position
  <2>1. i \in DOMAIN s /\ p \in DOMAIN it /\ it[p] = s[i]
    BY <1>4, <1>10
  <2>2. Timers[p].timeout = s[i].timeout /\ Timers[p].left = s[i].trigger - m_time
    BY <1>8, <2>1
  <2>3. s[i].timeout + dtime - (s[i].trigger - m_time) = s[i].timeout + now - s[i].trigger
    BY <1>3, <1>5, <2>1, SettingsAre DEF now
  <2>4. QED
    BY <2>2, <2>3 DEF TimerSet!RunOut
<1>17. \A i, j \in DOMAIN elapsed_timers' : i < j =>
          place[i] # place[j] /\ Timers[place[i]].left <= Timers[place[j]].left
  <2> SUFFICES ASSUME NEW i \in 1 .. k - 1, NEW j \in 1 .. k - 1, i < j
               PROVE  /\ s[i].position # s[j].position
                      /\ Timers[s[i].position].left <= Timers[s[j].position].left
    BY <1>14
  <2>1. i \in DOMAIN s /\ j \in DOMAIN s
    BY <1>10
  <2>2. s[i].position # s[j].position /\ s[i].trigger <= s[j].trigger
    BY <1>4, <2>1
  <2>3. \A h \in DOMAIN s : Timers[s[h].position].left = s[h].trigger - m_time
    <3> SUFFICES ASSUME NEW h \in DOMAIN s
                 PROVE  Timers[s[h].position].left = s[h].trigger - m_time
      OBVIOUS
    <3>1. s[h].position \in DOMAIN it /\ it[s[h].position] = s[h]
      BY <1>4
    <3>2. QED
      BY <1>8, <3>1
  <2>4. QED
    BY <1>3, <1>5, <2>1, <2>2, <2>3
<1>18. TimerSet!PassTime(dtime)
  <2> HIDE DEF place
  <2>1. QED
    BY <1>5, <1>11, <1>13, <1>15, <1>16, <1>17 DEF TimerSet!PassTime, place
<1>19. QED
  BY <1>12, <1>18 DEF TimersGood, TimerSet!TimerSetNext

\* No timer of the block runs out at the time that stands for none, as it is or
\* as it would be in the block loaded again.
NoneAtNoTrigger ==
    /\ NeverNoTrigger(list)
    /\ \A p \in DOMAIN list.m_iterators : list.m_iterators[p].trigger - m_time # NoTrigger

(* A new block has no timers.                                              *)
LEMMA InitTimerInv == InitTimers => TimerInv /\ TimerSet!TimerSetInit
<1> SUFFICES ASSUME InitTimers PROVE TimerInv /\ TimerSet!TimerSetInit
  OBVIOUS
<1>1. /\ list = Cleared /\ m_time = 0 /\ elapsed_timers = << >>
  BY DEF InitTimers
<1>2. DOMAIN list.m_iterators = {} /\ list.m_timers = << >> /\ list.m_next_trigger_time = NoTrigger
  BY <1>1 DEF Cleared
<1>4. ListOK(list)
  BY <1>1, ClearedOK
<1>5. TimerInv
  BY <1>1, <1>4 DEF TimerInv
<1>6. Timers = TimerSet!NoTimers
  BY <1>2 DEF Timers, TimerSet!NoTimers
<1>7. QED
  BY <1>1, <1>5, <1>6 DEF TimerSet!TimerSetInit

(* Each step keeps the invariant and is one of the set, or none.           *)
LEMMA TimersStep == TimerInv /\ NoneAtNoTrigger /\ [NextTimers]_timervars => TimersGood
<1> SUFFICES ASSUME TimerInv, NoneAtNoTrigger, [NextTimers]_timervars PROVE TimersGood
  OBVIOUS
<1>1. /\ NeverNoTrigger(list)
      /\ \A p \in DOMAIN list.m_iterators : list.m_iterators[p].trigger - m_time # NoTrigger
  BY DEF NoneAtNoTrigger
<1>2. ASSUME NEW p \in Positions, NEW s \in Settings, LuaSet(p, s.timeout, s.elapsed)
      PROVE  TimersGood
  BY <1>1, <1>2, LuaSetGood
<1>3. ASSUME NEW p \in Positions, LuaStop(p) PROVE TimersGood
  BY <1>3, LuaStopGood
<1>4. ASSUME NEW dtime \in Steps, StepTimers(dtime) PROVE TimersGood
  BY <1>1, <1>4, StepTimersGood
<1>5. ASSUME NEW again \in BOOLEAN, TimerCallback(again) PROVE TimersGood
  BY <1>1, <1>5, TimerCallbackGood
<1>6. CASE SaveAndLoad
  BY <1>1, <1>6, SaveAndLoadGood
<1>7. CASE UNCHANGED timervars
  <2>1. list' = list /\ m_time' = m_time /\ elapsed_timers' = elapsed_timers
    BY <1>7 DEF timervars
  <2>2. TimerInv' /\ Timers' = Timers
    BY <2>1 DEF TimerInv, Timers
  <2>3. QED
    BY <2>1, <2>2 DEF TimersGood, TimerSet!timersetvars
<1>8. QED
  BY <1>2, <1>3, <1>4, <1>5, <1>6, <1>7 DEF NextTimers

(* As long as no timer runs out at -1, the number that m_next_trigger_time *)
(* has for none: the list with its index and its first time is a set of    *)
(* timers, of which each runs out when nothing is left of it, the earlier  *)
(* ones first, and saving and loading forgets none but those whose timeout *)
(* is not above 0 (nodetimer.h:62-102, nodetimer.cpp:93).                  *)
THEOREM TimersAreSetUnlessNoTrigger ==
    SpecTimers /\ []NoneAtNoTrigger => TimersAreSet
<1>1. TimersGood => TimerInv' /\ [TimerSet!TimerSetNext]_(TimerSet!timersetvars)
  BY DEF TimersGood
<1>2. QED
  BY <1>1, InitTimerInv, TimersStep, PTL DEF SpecTimers, TimersAreSet, TimerSet!TimerSetSpec

(* When time moves on no timer that has run out stays in the list: what    *)
(* timers_never.cfg shows needs a timer that runs out at -1.               *)
LEMMA NoneLateStep ==
    ASSUME TimerInv, NoneAtNoTrigger, NextTimers, m_time' > m_time
    PROVE  \A t \in Range(list'.m_timers) : t.trigger > m_time'
<1>1. m_time \in Nat
  BY DEF TimerInv
<1>2. PICK dtime \in Steps : StepTimers(dtime)
  <2>1. \A p, t, e : LuaSet(p, t, e) => m_time' = m_time
    BY DEF LuaSet
  <2>2. \A p : LuaStop(p) => m_time' = m_time
    BY DEF LuaStop
  <2>3. \A again : TimerCallback(again) => m_time' = m_time
    BY DEF TimerCallback
  <2>4. SaveAndLoad => m_time' = 0
    BY DEF SaveAndLoad
  <2>5. ~ (m_time > m_time) /\ ~ (0 > m_time)
    BY <1>1
  <2>6. QED
    BY <2>1, <2>2, <2>3, <2>4, <2>5 DEF NextTimers
<1> DEFINE now == m_time + dtime
           it == list.m_iterators
<1>3. /\ ListOK(list')
      /\ list'.m_iterators = [p \in {q \in DOMAIN it : ~ (it[q].trigger <= now)} |-> it[p]]
  BY <1>2, StepTakes DEF NoneAtNoTrigger
<1>4. m_time' = now /\ now \in Int
  BY <1>1, <1>2, TimersAssumption DEF StepTimers
<1>5. list'.m_timers \in Seq(TimerEntry)
  BY <1>3, ListsAre DEF ListOK
<1> SUFFICES ASSUME NEW i \in DOMAIN list'.m_timers
             PROVE  list'.m_timers[i].trigger > m_time'
  BY DEF Range
<1> DEFINE entry == list'.m_timers[i]
<1>6. entry.trigger \in Int
  BY <1>5, EntriesAre
<1>7. entry.position \in DOMAIN list'.m_iterators /\ list'.m_iterators[entry.position] = entry
  BY <1>3 DEF ListOK, Indexed
<1>8. ~ (entry.trigger <= now)
  BY <1>3, <1>7
<1>9. QED
  BY <1>4, <1>6, <1>8

(* doc/lua_api.md:8101, with the one exception that the code makes.        *)
THEOREM NoneLateUnlessNoTrigger == SpecTimers /\ []NoneAtNoTrigger => NoneLate
<1>1. TimersGood => TimerInv'
  BY DEF TimersGood
<1>2. TimerInv /\ NoneAtNoTrigger /\ [NextTimers]_timervars =>
         [m_time' > m_time => \A t \in Range(list'.m_timers) : t.trigger > m_time']_timervars
  BY NoneLateStep
<1>3. QED
  BY <1>1, <1>2, InitTimerInv, TimersStep, PTL DEF SpecTimers, NoneLate

-----------------------------------------------------------------------------
(* Timers of which no more has elapsed than there is *)

\* Lua sets no timeout below 0, and never says that more of a timer has passed
\* than it has.
ElapsedWithin == \A s \in Settings : 0 <= s.timeout /\ s.elapsed <= s.timeout

\* Every timer runs out now or later.
NoneOverdue == \A p \in DOMAIN list.m_iterators : list.m_iterators[p].trigger >= m_time

(* Then none is ever overdue.                                              *)
LEMMA OverdueStep ==
    ElapsedWithin /\ TimerInv /\ NoneOverdue /\ [NextTimers]_timervars => NoneOverdue'
<1> SUFFICES ASSUME ElapsedWithin, TimerInv, NoneOverdue, [NextTimers]_timervars
             PROVE  NoneOverdue'
  OBVIOUS
<1> DEFINE it == list.m_iterators
<1>1. m_time \in Nat /\ ListOK(list) /\ elapsed_timers \in Seq(TimerSet!Run)
  BY DEF TimerInv
<1>2. \A p \in DOMAIN it : it[p].trigger \in Int /\ it[p].trigger >= m_time
  <2>1. it \in [DOMAIN it -> TimerEntry]
    BY <1>1, ListsAre DEF ListOK
  <2>2. QED
    BY <2>1 DEF NoneOverdue, TimerEntry
<1>3. NoneAtNoTrigger
  BY <1>1, <1>2 DEF NoneAtNoTrigger, NeverNoTrigger, NoTrigger
<1>4. NeverNoTrigger(list)
  BY <1>3 DEF NoneAtNoTrigger
<1>5. ASSUME NEW p, NEW timeout \in Int, NEW elapsed \in Int, elapsed <= timeout,
             list'.m_iterators = IndexWith(it, p, timeout, m_time + timeout - elapsed),
             m_time' = m_time
      PROVE  NoneOverdue'
  <2> SUFFICES ASSUME NEW q \in DOMAIN list'.m_iterators
               PROVE  list'.m_iterators[q].trigger >= m_time'
    BY DEF NoneOverdue
  <2>1. CASE q = p
    <3>1. list'.m_iterators[q].trigger = m_time + timeout - elapsed
      BY <1>5, <2>1 DEF IndexWith
    <3>2. m_time + timeout - elapsed >= m_time
      BY <1>1, <1>5
    <3>3. QED
      BY <1>5, <3>1, <3>2
  <2>2. CASE q # p
    <3>1. q \in DOMAIN it /\ list'.m_iterators[q] = it[q]
      BY <1>5, <2>2 DEF IndexWith
    <3>2. QED
      BY <1>2, <1>5, <3>1
  <2>3. QED
    BY <2>1, <2>2
<1>6. ASSUME NEW p \in Positions, NEW s \in Settings, LuaSet(p, s.timeout, s.elapsed)
      PROVE  NoneOverdue'
  <2> DEFINE t == s.timeout
             e == s.elapsed
  <2>1. t \in Timeouts /\ t \in Int /\ e \in Int /\ e <= t
    BY SettingsAre DEF ElapsedWithin
  <2>2. list' = Renewed(list, p, t, e) /\ m_time' = m_time
    BY <1>6 DEF LuaSet
  <2> HIDE DEF t, e
  <2>3. list'.m_iterators = IndexWith(it, p, t, m_time + t - e)
    BY <1>1, <1>4, <2>1, <2>2, RenewedIs
  <2>4. QED
    BY <1>5, <2>1, <2>2, <2>3
<1>7. ASSUME NEW p \in Positions, LuaStop(p) PROVE NoneOverdue'
  <2>1. list' = Removed(list, p) /\ m_time' = m_time
    BY <1>7 DEF LuaStop
  <2>2. list'.m_iterators = IndexWithout(it, p)
    BY <1>1, <2>1, RemovedIs
  <2>3. QED
    BY <1>2, <2>1, <2>2 DEF NoneOverdue, IndexWithout
<1>8. ASSUME NEW dtime \in Steps, StepTimers(dtime) PROVE NoneOverdue'
  <2>1. list'.m_iterators = [p \in {q \in DOMAIN it : ~ (it[q].trigger <= m_time + dtime)} |-> it[p]]
    BY <1>4, <1>8, StepTakes
  <2>2. m_time' = m_time + dtime /\ m_time + dtime \in Int
    BY <1>1, <1>8, TimersAssumption DEF StepTimers
  <2>3. QED
    BY <1>2, <2>1, <2>2 DEF NoneOverdue
<1>9. ASSUME NEW again \in BOOLEAN, TimerCallback(again) PROVE NoneOverdue'
  <2> DEFINE first == Head(elapsed_timers)
  <2>1. /\ elapsed_timers # << >> /\ m_time' = m_time
        /\ list' = IF again THEN Renewed(list, first.position, first.timeout, 0) ELSE list
    BY <1>9 DEF TimerCallback
  <2>2. first \in TimerSet!Run
    BY <1>1, <2>1, HeadTailProperties
  <2> HIDE DEF first
  <2>3. /\ first.position \in Positions /\ first.timeout \in Timeouts
        /\ first.timeout \in Int /\ 0 <= first.timeout
    <3>1. first.position \in Positions /\ first.timeout \in Timeouts
      BY <2>2 DEF TimerSet!Run, Timeouts
    <3>2. \A t \in Timeouts : t \in Int /\ 0 <= t
      BY SettingsAre DEF ElapsedWithin, Timeouts
    <3>3. QED
      BY <3>1, <3>2
  <2>4. CASE again
    <3>1. list'.m_iterators =
             IndexWith(it, first.position, first.timeout, m_time + first.timeout - 0)
      BY <1>1, <1>4, <2>1, <2>3, <2>4, RenewedIs
    <3>2. QED
      BY <1>5, <2>1, <2>3, <3>1
  <2>5. CASE ~ again
    BY <1>2, <2>1, <2>5 DEF NoneOverdue
  <2>6. QED
    BY <2>4, <2>5
<1>10. CASE SaveAndLoad
  <2>1. list' = Loaded(list.m_timers) /\ m_time' = 0
    BY <1>10 DEF SaveAndLoad
  <2>2. list'.m_iterators = [p \in {q \in DOMAIN it : it[q].timeout > 0} |-> Reset(it[p])]
    BY <1>1, <1>3, <2>1, LoadedIs DEF NoneAtNoTrigger
  <2>3. \A p \in DOMAIN it : Reset(it[p]).trigger = it[p].trigger - m_time
    BY DEF Reset
  <2>4. QED
    BY <1>1, <1>2, <2>1, <2>2, <2>3 DEF NoneOverdue
<1>11. CASE UNCHANGED timervars
  BY <1>2, <1>11 DEF NoneOverdue, timervars
<1>12. QED
  BY <1>6, <1>7, <1>8, <1>9, <1>10, <1>11 DEF NextTimers

(* If Lua sets no negative timeout and never more elapsed time than a      *)
(* timer has, the timers of a block are a set of timers without any        *)
(* premise about their times.                                              *)
THEOREM TimersAreSetHolds ==
    ASSUME ElapsedWithin
    PROVE  SpecTimers => TimersAreSet
<1>1. InitTimers => NoneOverdue
  BY DEF InitTimers, Cleared, NoneOverdue
<1>2. TimerInv /\ NoneOverdue => NoneAtNoTrigger
  <2> SUFFICES ASSUME TimerInv, NoneOverdue PROVE NoneAtNoTrigger
    OBVIOUS
  <2>1. list.m_iterators \in [DOMAIN list.m_iterators -> TimerEntry]
    BY ListsAre DEF TimerInv, ListOK
  <2>2. \A p \in DOMAIN list.m_iterators :
           list.m_iterators[p].trigger \in Int /\ list.m_iterators[p].trigger >= m_time
    BY <2>1 DEF NoneOverdue, TimerEntry
  <2>3. QED
    BY <2>2 DEF NoneAtNoTrigger, NeverNoTrigger, NoTrigger, TimerInv
<1>3. TimersGood => TimerInv'
  BY DEF TimersGood
<1>4. TimerInv /\ NoneOverdue /\ [NextTimers]_timervars => NoneOverdue'
  BY OverdueStep
<1>5. SpecTimers => []NoneAtNoTrigger
  BY <1>1, <1>2, <1>3, <1>4, InitTimerInv, TimersStep, PTL DEF SpecTimers
<1>6. QED
  BY <1>5, TimersAreSetUnlessNoTrigger, PTL
=============================================================================
