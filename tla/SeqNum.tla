------------------------------- MODULE SeqNum -------------------------------
(***************************************************************************)
(* The 16-bit sequence numbers of the MTP reliable channels                *)
(* (network/mtp/internal.h).  SEQNUM_MAX + 1 = 65536 is exactly twice      *)
(* MAX_RELIABLE_WINDOW_SIZE = 0x8000; the ring is scaled by that window.   *)
(***************************************************************************)
EXTENDS Integers

CONSTANT MAX_RELIABLE_WINDOW_SIZE

ASSUME WindowAssumption == MAX_RELIABLE_WINDOW_SIZE \in Nat \ {0, 1}

SEQNUM_MAX == 2 * MAX_RELIABLE_WINDOW_SIZE - 1

SeqNums == 0 .. SEQNUM_MAX

\* SEQNUM_MAX / 2 in C: an integer division of an odd number.
HalfMax == MAX_RELIABLE_WINDOW_SIZE - 1

(* Conversion of an int to u16.  No expression of the code leaves          *)
(* -(SEQNUM_MAX+1) .. 2*SEQNUM_MAX+1, so one correction is enough.         *)
U16(x) == IF x < 0 THEN x + SEQNUM_MAX + 1
          ELSE IF x > SEQNUM_MAX THEN x - (SEQNUM_MAX + 1) ELSE x

\* How far b is ahead of a, going up around the ring.
Dist(a, b) == IF a <= b THEN b - a ELSE b - a + SEQNUM_MAX + 1

\* Mutant: the comparison without the wrap.
Bug_higher(totest, base) == totest > base

seqnum_higher(totest, base) ==
    \/ totest > base /\ totest - base <= HalfMax
    \/ totest <= base /\ base - totest > HalfMax

seqnum_in_window(seqnum, next, window_size) ==
    LET window_end == U16(next + window_size)
    IN  IF next < window_end
        THEN seqnum >= next /\ seqnum < window_end
        ELSE seqnum < window_end \/ seqnum >= next

(* The remainder operator of C, which takes the sign of the dividend. *)
CRem(a, b) == IF a >= 0 THEN a % b ELSE -((-a) % b)

(* The base sendAsPacketReliable hands to the outgoing buffer's insert.    *)
WindowBase(next) ==
    U16(CRem(next - MAX_RELIABLE_WINDOW_SIZE, MAX_RELIABLE_WINDOW_SIZE + 1))

(* What handlePacketType_Reliable makes of a sequence number: first the    *)
(* window test, then "future", then "old", else it falls through.          *)
IsFuture(s, next) == /\ ~ seqnum_in_window(s, next, MAX_RELIABLE_WINDOW_SIZE)
                     /\ seqnum_higher(s, next)

\* Mutant: an old packet is dropped without another ACK.
Bug_IsOld(s, next) == FALSE

IsOld(s, next) == /\ ~ seqnum_in_window(s, next, MAX_RELIABLE_WINDOW_SIZE)
                  /\ ~ seqnum_higher(s, next)
                  /\ seqnum_higher(next, s)

\* Mutant: "later than expected" tested without the wrap.
Bug_Insertable(s, next_expected) ==
    /\ seqnum_in_window(s, next_expected, MAX_RELIABLE_WINDOW_SIZE)
    /\ s > next_expected

(* The guard of ReliablePacketBuffer::insert.                              *)
Insertable(s, next_expected) ==
    /\ seqnum_in_window(s, next_expected, MAX_RELIABLE_WINDOW_SIZE)
    /\ s # next_expected
=============================================================================
