------------------------------ MODULE Carrier ------------------------------
(***************************************************************************)
(* A drawn container, sample by sample: the texture it is drawn from, the  *)
(* draw of a sample whose lowest bit is given, and the two readers of      *)
(* those bits.                                                             *)
(*                                                                         *)
(* Levels are hundredths, and so is the grain.  The ridge between two      *)
(* cells, which is a distance, is any of those it may be.  Encryption      *)
(* gives bytes that say nothing: what opens is what was sealed, whole and  *)
(* under the same key.                                                     *)
(***************************************************************************)
EXTENDS Integers, Sequences

CONSTANTS
    BITS,                   \* of a byte, 8
    TAG_BYTES,              \* 16
    LENGTH_HEADER_BYTES,    \* 4
    key_transport_overhead_bytes(_),    \* of a mode: 1568 or none
    CELLS,                  \* cells along a side, 32
    UNITS,                  \* places along the side of a cell
    Grain                   \* what a draw adds to a level

CHANNELS == 3
CELL_AMPLITUDE == 15000
MID_LEVEL == 12800
RIDGE_CEILING == 3000
RIDGE_BIAS == 1500
LEVEL_FLOOR == 2400
LEVEL_CEILING == 23100

\* Two draws that are a level apart are within twelve standard deviations.
ASSUME CarrierAssumption ==
    /\ {BITS, CELLS, UNITS} \subseteq Nat \ {0} /\ {TAG_BYTES, LENGTH_HEADER_BYTES} \subseteq Nat
    /\ \A m \in {"password", "recipient"} : key_transport_overhead_bytes(m) \in Nat
    /\ Grain \subseteq Int
    /\ \E g \in Grain : g + 100 \in Grain /\ -LEVEL_FLOOR <= g /\ g + 100 <= 25500 - LEVEL_CEILING

Clamp(v, low, high) == IF v < low THEN low ELSE IF v > high THEN high ELSE v

\* The cells of the image and a ring around them; each has a point somewhere in
\* it and a level of its own.
Grid == (-1 .. CELLS) \X (-1 .. CELLS)
Fields == [Grid -> [x : 0 .. UNITS - 1, y : 0 .. UNITS - 1,
                    level : -(CELL_AMPLITUDE \div 2) .. CELL_AMPLITUDE \div 2 - 1]]

\* The cell of a pixel, and the nine that may hold the point next to it.
CellOf(job, x, y) == <<(x * CELLS) \div job.width, (y * CELLS) \div job.height>>
Around(job, x, y) ==
    {<<CellOf(job, x, y)[1] + ox, CellOf(job, x, y)[2] + oy>> : ox, oy \in -1 .. 1}

\* The square of a distance, the two sides of a cell being one.
Distance(job, x, y, cell) ==
    LET point == job.field[cell]
        dx == x * CELLS * UNITS - (cell[1] * UNITS + point.x) * job.width
        dy == y * CELLS * UNITS - (cell[2] * UNITS + point.y) * job.height
        Square(n) == n * n
    IN  Square(dx * job.height) + Square(dy * job.width)

\* Of several that are as near, the first in the order of the search.
Nearest(job, x, y) ==
    CHOOSE c \in Around(job, x, y) : \A d \in Around(job, x, y) :
        \/ Distance(job, x, y, c) < Distance(job, x, y, d)
        \/ /\ Distance(job, x, y, c) = Distance(job, x, y, d)
           /\ c[2] < d[2] \/ (c[2] = d[2] /\ c[1] <= d[1])

\* Texture::base_levels, for a ridge of a height.
base_levels(job, x, y, ridge) ==
    LET level == Clamp(MID_LEVEL + job.field[Nearest(job, x, y)].level + ridge - RIDGE_BIAS,
                       LEVEL_FLOOR, LEVEL_CEILING)
    IN  <<level, (level * 98) \div 100 + 300, (level * 94) \div 100 + 800>>

\* draw_free, and draw_with_lsb while it does not give up.
draw_free(base) == {Clamp(base + g, 0, 25500) \div 100 : g \in Grain}
draw_with_lsb(base, bit) == {v \in draw_free(base) : v % 2 = bit}

\* How many bytes the lowest bits hold, and how many of them are payload.
Held(job) == CHANNELS * job.width * job.height
capacity(job) == Held(job) \div BITS
Sealed(job) == capacity(job) - key_transport_overhead_bytes(job.mode)
payload_capacity(job) == Sealed(job) - TAG_BYTES - LENGTH_HEADER_BYTES

\* seal: the buffer is full to the last byte.
Buffer(job) ==
    [announced |-> Len(job.msg),
     rest |-> job.msg \o [i \in 1 .. payload_capacity(job) - Len(job.msg) |-> "padding"]]

\* b >> n; of a byte nothing is left behind its last bit.
Shifted(b, n) ==
    LET Half[k \in 0 .. n] == IF k = 0 THEN b ELSE Half[k - 1] \div 2
    IN  Half[n]
IsByte(b) == b \in Nat /\ Shifted(b, BITS) = 0

\* The encapsulation and the ciphertext behind it, as bytes, and their bits, the
\* most significant first.
Carried(job) == SubSeq(job.noise, 1, capacity(job))
BitOf(bytes, position) ==
    Shifted(bytes[position \div BITS + 1], BITS - 1 - (position % BITS)) % 2

\* What generate goes on to draw: a message that fits, sealed into a buffer that
\* is full.
IsJob(job) ==
    /\ job.mode \in {"password", "recipient"}
    /\ {job.width, job.height} \subseteq Nat \ {0} /\ job.field \in Fields
    /\ job.ridge \in [1 .. job.width * job.height -> 0 .. RIDGE_CEILING]
    /\ job.msg \in Seq(STRING) /\ Len(job.msg) \in 1 .. payload_capacity(job)
    /\ job.noise \in Seq(Nat) /\ Len(job.noise) >= capacity(job)
    /\ \A i \in DOMAIN job.noise : IsByte(job.noise[i])

VARIABLES
    job,        \* mode, size, field, ridges, message, and what encryption gives
    samples,    \* those that were drawn
    reader,     \* the mode the container is read in
    got         \* and what came out

carrierVars == <<job, samples, reader, got>>

NoJob == [mode |-> "none"]
Rejected == <<>>        \* no message is empty

CarrierInit(jobs) == job \in jobs /\ samples = <<>> /\ reader = "none" /\ got = Rejected

Drawn == job # NoJob /\ Len(samples) = Held(job)
Position == Len(samples)
Pixel == [x |-> (Position \div CHANNELS) % job.width, y |-> (Position \div CHANNELS) \div job.width]
Base(ridge) == base_levels(job, Pixel.x, Pixel.y, ridge)[(Position % CHANNELS) + 1]

\* render, one turn of its loop: what is past the carrier is drawn freely.
DrawSample ==
    /\ ~Drawn
    /\ LET base == Base(job.ridge[Position \div CHANNELS + 1])
       IN  \E value \in IF Position < capacity(job) * BITS
                        THEN draw_with_lsb(base, BitOf(Carried(job), Position))
                        ELSE draw_free(base) :
                samples' = Append(samples, value)
    /\ UNCHANGED <<job, reader, got>>

\* draw_with_lsb gives up: each of its MAX_DRAWS draws had the other bit, which
\* any number of them may have if one may.
RejectionExhausted ==
    /\ ~Drawn /\ Position < capacity(job) * BITS
    /\ \E value \in draw_free(Base(job.ridge[Position \div CHANNELS + 1])) :
          value % 2 # BitOf(Carried(job), Position)
    /\ UNCHANGED carrierVars

\* Mutant of gather_carrier_bits: the first sample is the lowest bit.
gather_carrier_bitsReversed(skip, bytes) ==
    [i \in 1 .. bytes |->
        LET Bit(k) == samples[(skip + i - 1) * BITS + k] % 2
            Value[k \in 0 .. BITS] == IF k = 0 THEN 0 ELSE Value[k - 1] + Bit(k) * 2 ^ (k - 1)
        IN  Value[BITS]]

gather_carrier_bits(skip, bytes) ==
    [i \in 1 .. bytes |->
        LET Bit(k) == samples[(skip + i - 1) * BITS + k] % 2
            Value[k \in 0 .. BITS] == IF k = 0 THEN 0 ELSE 2 * Value[k - 1] + Bit(k)
        IN  Value[BITS]]

\* The key of a recipient is decapsulated from read_key_transport, that of a
\* password from the picture.
KeyIsRight(mode) ==
    /\ mode = job.mode
    /\ LET transport == key_transport_overhead_bytes(mode)
       IN  gather_carrier_bits(0, transport) = SubSeq(Carried(job), 1, transport)

\* read_generated_after.
ReadGenerated(mode) ==
    LET skip == key_transport_overhead_bytes(mode)
        available == IF Len(samples) \div BITS < skip THEN 0 ELSE Len(samples) \div BITS - skip
        opens == /\ available > TAG_BYTES + LENGTH_HEADER_BYTES
                 /\ KeyIsRight(mode)
                 /\ gather_carrier_bits(skip, available)
                      = SubSeq(Carried(job), capacity(job) - Sealed(job) + 1, capacity(job))
        buffer == Buffer(job)
    IN  IF opens /\ buffer.announced <= Len(buffer.rest)
        THEN SubSeq(buffer.rest, 1, buffer.announced) ELSE Rejected

ReadDrawn ==
    /\ Drawn
    /\ reader' \in {"password", "recipient"}
    /\ got' = ReadGenerated(reader')
    /\ UNCHANGED <<job, samples>>
=============================================================================
