---------------------------- MODULE FrameBudget -----------------------------
(***************************************************************************)
(* The budget of an embedded payload: what the sizer advertises, what the  *)
(* pipeline charges, what the coder accepts for the two regions, and what  *)
(* the receiver's gate lets through.  Four places compute a limit, from    *)
(* different counts, two of them in f32, and they have to agree that a     *)
(* payload the first accepts is refused by none of the others.             *)
(*                                                                         *)
(* An f32 product is a real product with a relative error of a few ulps;   *)
(* truncated, it is one of the integers that error allows.                 *)
(***************************************************************************)
EXTENDS Integers

CONSTANTS
    Positions,          \* pixel counts of the images
    Unusable,           \* how many of their positions have no cost
    Offsets,            \* how far ciphertext lengths are from what is advertised
    LENGTH_HEADER_BITS,         \* 32
    POSITIONS_PER_HEADER_BIT,   \* 64
    FRAME_OVERHEAD_BYTES,       \* 8
    MAC_OVERHEAD_BYTES          \* 16, also MIN_CIPHERTEXT_BYTES

\* What the constants have to satisfy for the limits to agree: enough positions
\* for each bit of the header at 50 positions a bit, and not so many that the
\* overhead charged to the payload does not pay for them.
ASSUME BudgetAssumption ==
    /\ Positions \subseteq Nat \ {0} /\ Unusable \subseteq Nat /\ Offsets \subseteq Int
    /\ LENGTH_HEADER_BITS = 32 /\ POSITIONS_PER_HEADER_BIT \in 52 .. 200
    /\ FRAME_OVERHEAD_BYTES \in Nat /\ FRAME_OVERHEAD_BYTES >= 8
    /\ MAC_OVERHEAD_BYTES \in Nat /\ MAC_OVERHEAD_BYTES >= 16

\* Mutant of HEADER_POSITIONS: positions for the bytes of the header, not for
\* its bits.
HEADER_POSITIONSOfBytes == (LENGTH_HEADER_BITS \div 8) * POSITIONS_PER_HEADER_BIT

HEADER_POSITIONS == LENGTH_HEADER_BITS * POSITIONS_PER_HEADER_BIT

\* Three roundings of an f32 stay within 2^-22 of the product.
Error(count) == count \div 4194304

\* (positions as f32 * MAX_BPP) as usize, with MAX_BPP = 0.02.
CeilingOf(count, bits) ==
    /\ 50 * bits <= count + Error(count)
    /\ count - Error(count) - 1 < 50 * (bits + 1)

\* (gross as f32 * STC_EFFICIENCY) as usize, with STC_EFFICIENCY = 0.85.
NetOf(gross, bits) ==
    /\ 100 * bits <= 85 * gross + Error(85 * gross)
    /\ 85 * gross - Error(85 * gross) - 1 < 100 * (bits + 1)

VARIABLES
    positions,  \* positions of the container
    usable,     \* those with a positive cost
    ceilings,   \* capacity_bits of the three counts it is asked for
    net,        \* net_capacity_bits
    sealed,     \* length of the ciphertext, tag included
    pc,
    result

vars == <<positions, usable, ceilings, net, sealed, pc, result>>

Smaller(a, b) == IF a <= b THEN a ELSE b

\* split_regions.
HeaderRegion == Smaller(HEADER_POSITIONS, positions)
PayloadRegion == positions - HeaderRegion

\* available_bytes.
Available == IF net \div 8 >= MAC_OVERHEAD_BYTES THEN net \div 8 - MAC_OVERHEAD_BYTES ELSE 0

Ceilings == [usable : Nat, header : Nat, payload : Nat]

\* The candidates for a truncated product, around the quotient.
Around(n) == {b \in n \div 50 - 1 .. n \div 50 + 1 + n \div 50000000 : b >= 0 /\ CeilingOf(n, b)}

Init ==
    /\ positions \in Positions
    /\ usable \in {positions - u : u \in {v \in Unusable : v <= positions}}
    /\ ceilings \in [usable : Around(usable), header : Around(HeaderRegion),
                     payload : Around(PayloadRegion)]
    /\ net = 0 /\ sealed = 0
    /\ pc = "measure"
    /\ result = "pending"

Return(r) == result' = r /\ pc' = "done"
Step(from, to) == pc = from /\ pc' = to /\ UNCHANGED result

\* compute_capacity.
Measure ==
    /\ Step("measure", "fit")
    /\ \E n \in (85 * ceilings.usable) \div 100 - 1 .. (85 * ceilings.usable) \div 100 + 2 :
        n >= 0 /\ NetOf(ceilings.usable, n) /\ net' = n
    /\ UNCHANGED <<positions, usable, ceilings, sealed>>

\* validate_payload_fits, as embed calls it.
Fits(len) == len + FRAME_OVERHEAD_BYTES <= Available

Fit ==
    /\ \E len \in {Available + d : d \in Offsets} :
        /\ len >= MAC_OVERHEAD_BYTES
        /\ sealed' = len
        /\ \/ Fits(len) /\ Step("fit", "header")
           \/ pc = "fit" /\ ~Fits(len) /\ Return("payload_too_large")
    /\ UNCHANGED <<positions, usable, ceilings, net>>

\* stc_encode_safe over the header region ...
EncodeHeader ==
    /\ \/ LENGTH_HEADER_BITS <= ceilings.header /\ Step("header", "payload")
       \/ pc = "header" /\ LENGTH_HEADER_BITS > ceilings.header /\ Return("exceeds_capacity")
    /\ UNCHANGED <<positions, usable, ceilings, net, sealed>>

\* ... and over the rest.
EncodePayload ==
    /\ \/ 8 * sealed <= ceilings.payload /\ Step("payload", "decode")
       \/ pc = "payload" /\ 8 * sealed > ceilings.payload /\ Return("exceeds_capacity")
    /\ UNCHANGED <<positions, usable, ceilings, net, sealed>>

\* decode_trellis: the length it reads is judged before it is used.
Decode ==
    /\ \/ /\ MAC_OVERHEAD_BYTES <= sealed /\ 8 * sealed <= ceilings.payload
          /\ pc = "decode" /\ Return("read")
       \/ /\ pc = "decode" /\ ~(MAC_OVERHEAD_BYTES <= sealed /\ 8 * sealed <= ceilings.payload)
          /\ Return("implausible")
    /\ UNCHANGED <<positions, usable, ceilings, net, sealed>>

Finished == pc = "done" /\ UNCHANGED vars

Next == Measure \/ Fit \/ EncodeHeader \/ EncodePayload \/ Decode \/ Finished

Spec == Init /\ [][Next]_vars
-----------------------------------------------------------------------------
TypeOK ==
    /\ positions \in Positions /\ usable \in 0 .. positions
    /\ ceilings \in Ceilings /\ net \in Nat /\ sealed \in Nat
    /\ pc \in {"measure", "fit", "header", "payload", "decode", "done"}
    /\ result \in {"pending", "payload_too_large", "exceeds_capacity", "implausible", "read"}

\* A payload the sizer accepts is embedded: the coder refuses neither the header
\* nor the payload, although it is asked about two regions and the sizer about
\* the whole image, and the receiver does not take its length for nonsense.
AcceptedIsCoded == result \notin {"exceeds_capacity", "implausible"}
=============================================================================
