-------------------------- MODULE SyndromeTrellis ---------------------------
(***************************************************************************)
(* stego/stc/native.rs: the coder that hides one message bit in each block *)
(* of carrier samples at the least total cost, and the decoder that reads  *)
(* the bits back without knowing the costs.                                *)
(*                                                                         *)
(* A register of the code is the set of its bits that are one: exclusive   *)
(* or is the symmetric difference and the shift renumbers the members.     *)
(* Costs and path metrics are naturals, so the rounding of single          *)
(* precision is not modelled.                                              *)
(***************************************************************************)
EXTENDS Integers, Sequences, FiniteSets

CONSTANTS
    Height,             \* constraint height, bits of the register (10)
    Length,             \* positions of the cover
    Covers,             \* sample vectors the coder is called with
    CostMaps,           \* cost vectors it is called with
    Payloads,           \* the messages, as sequences of bits
    Capacity,           \* capacity_bits(Length) under MAX_BPP
    MaxBlockWidth,      \* positions one bit is spread over at most (64)
    MaxSegmentColumns,  \* positions one forward pass remembers (1 << 16)
    Infinity            \* the metric of a register no path reaches

Positions == 0 .. Length - 1
Registers == SUBSET (0 .. Height - 1)

\* The sums of a vector over the positions before each position.
Cumulated(f) ==
    LET sum[p \in 0 .. Length] == IF p = 0 THEN 0 ELSE sum[p - 1] + f[p - 1]
    IN  sum

ASSUME TrellisAssumption ==
    /\ Height \in Nat /\ Height >= 2
    /\ Length \in Nat \ {0}
    /\ Covers \subseteq [Positions -> 0 .. 255]
    /\ CostMaps \subseteq [Positions -> Int]
    /\ Payloads \subseteq Seq({0, 1})
    /\ Capacity \in 0 .. Length
    /\ MaxBlockWidth \in Nat \ {0} /\ MaxSegmentColumns \in Nat \ {0}
    /\ Infinity \in Nat
    /\ \A costs \in CostMaps : Cumulated(costs)[Length] < Infinity

VARIABLES
    cover,      \* the samples the coder was given
    rho,        \* what changing each of them costs
    message,    \* the bits to hide
    columns,    \* the parity-check columns
    pc,         \* where the coder, and then the decoder, is
    position,   \* next position of the pass
    block,      \* block of that position
    first,      \* first block of the segment
    metric,     \* cheapest path into each register
    survivors,  \* per position, the registers best reached by a stego bit of one
    register,   \* the register of the backward pass, and of the decoder
    stego,      \* positions whose stego bit is one
    samples,    \* the samples as the coder leaves them
    decoded,    \* the bits read back
    result      \* what the coder returned

inputs == <<cover, rho, message, columns>>
vars == <<inputs, pc, position, block, first, metric, survivors, register, stego,
          samples, decoded, result>>
-----------------------------------------------------------------------------
Least(a, b) == IF a < b THEN a ELSE b
Most(a, b) == IF a < b THEN b ELSE a

\* TrellisLayout::plan and block_start.  A Capacity below Length leaves every
\* block at least one position, so the plan always exists.
MessageBits == Len(message)
UsedPositions == Least(Length, MessageBits * MaxBlockWidth)
BlocksPerSegment ==
    Most(1, MaxSegmentColumns \div Most(1, UsedPositions \div MessageBits))
BlockStart(index) == (index * UsedPositions) \div MessageBits
SegmentEnd == Least(first + BlocksPerSegment, MessageBits)
Bit(index) == message[index + 1]

Xor(a, b) == (a \ b) \cup (b \ a)
ShiftRight(r) == {i - 1 : i \in r \ {0}}
ShiftLeft(r, bit) == {i + 1 : i \in r} \cup (IF bit = 1 THEN {0} ELSE {})
Emitted(r) == IF 0 \in r THEN 1 ELSE 0

\* The order of the states as numbers: by the highest bit that differs.
Precedes(r, s) == \E i \in s \ r : \A j \in Xor(r, s) : j <= i

\* Mutant of Folded: the states are folded in descending order.
FoldedDescending(s, r) == Height - 1 \notin s /\ Precedes(r, s)

\* The states a closing block folds are those without the top bit, in ascending
\* order: whether s already is when the turn has come to r.
Folded(s, r) == Height - 1 \notin s /\ Precedes(s, r)

Plus(a, b) == IF a = Infinity THEN Infinity ELSE a + b

\* parity_columns: whatever the keystream draws, both end bits are forced on.
Columns == {draw \cup {0, Height - 1} : draw \in Registers \ {{}}}

Origin == [r \in Registers |-> IF r = {} THEN 0 ELSE Infinity]

Init ==
    /\ cover \in Covers
    /\ rho \in CostMaps
    /\ message \in Payloads
    /\ columns \in [Positions -> Columns]
    /\ pc = "check"
    /\ position = 0 /\ block = 0 /\ first = 0
    /\ metric = Origin
    /\ survivors = [p \in Positions |-> {}]
    /\ register = {}
    /\ stego = {}
    /\ samples = cover
    /\ decoded = <<>>
    /\ result = "pending"

Goto(from, to) == pc = from /\ pc' = to

\* The pre-conditions of stc_encode_safe.
Check ==
    /\ pc = "check"
    /\ \/ /\ MessageBits > Capacity
          /\ result' = "exceeds_capacity" /\ pc' = "done"
       \/ /\ MessageBits <= Capacity /\ \E p \in Positions : rho[p] < 0
          /\ result' = "invalid_costs" /\ pc' = "done"
       \/ /\ MessageBits = 0 /\ \A p \in Positions : rho[p] >= 0
          /\ result' = "ok" /\ pc' = "done"
       \/ /\ MessageBits \in 1 .. Capacity /\ \A p \in Positions : rho[p] >= 0
          /\ pc' = "forward" /\ UNCHANGED result
    /\ UNCHANGED <<inputs, position, block, first, metric, survivors, register,
                   stego, samples, decoded>>

\* Forward pass of solve_trellis, one position: a register is reached by keeping
\* the register (stego bit zero) or by crossing over its column (stego bit one).
Extend ==
    /\ pc = "forward" /\ position < BlockStart(block + 1)
    /\ LET odd == cover[position] % 2 = 1
           keep == IF odd THEN rho[position] ELSE 0
           flip == IF odd THEN 0 ELSE rho[position]
           stay(r) == Plus(metric[r], keep)
           cross(r) == Plus(metric[Xor(r, columns[position])], flip)
           crossed == {r \in Registers : cross(r) < stay(r)}
       IN  /\ metric' = [r \in Registers |-> IF r \in crossed THEN cross(r) ELSE stay(r)]
           /\ survivors' = [survivors EXCEPT ![position] = crossed]
    /\ position' = position + 1
    /\ UNCHANGED <<inputs, pc, block, first, register, stego, samples, decoded, result>>

\* The block is closed: registers that would emit the wrong bit are dropped, the
\* others shift it out, and those with the top bit set become unreachable.  The
\* metrics are folded in place: a slot whose turn was earlier holds its new one.
CloseBlock ==
    /\ pc = "forward" /\ position = BlockStart(block + 1)
    /\ LET slot[r \in {s \in Registers : Height - 1 \notin s}] ==
             LET source == ShiftLeft(r, Bit(block))
             IN  IF Folded(source, r) THEN slot[source] ELSE metric[source]
       IN  metric' = [r \in Registers |-> IF Height - 1 \in r THEN Infinity ELSE slot[r]]
    /\ block' = block + 1
    /\ pc' = IF block' = SegmentEnd THEN "pick" ELSE "forward"
    /\ UNCHANGED <<inputs, position, first, survivors, register, stego, samples,
                   decoded, result>>

\* The end of the path: the first of the cheapest registers.
PickEnd ==
    /\ pc = "pick"
    /\ \E end \in Registers :
        /\ \A other \in Registers \ {end} :
              \/ metric[end] < metric[other]
              \/ metric[end] = metric[other] /\ Precedes(end, other)
        /\ \/ /\ metric[end] = Infinity
              /\ result' = "encoding" /\ pc' = "done" /\ UNCHANGED <<block, register>>
           \/ /\ metric[end] < Infinity
              /\ pc' = "backward" /\ block' = block - 1
              /\ register' = ShiftLeft(end, Bit(block - 1))
              /\ UNCHANGED result
    /\ UNCHANGED <<inputs, position, first, metric, survivors, stego, samples, decoded>>

\* Backward pass, one position: the survivor says whether the path set the bit.
Trace ==
    /\ pc = "backward" /\ position > BlockStart(block)
    /\ position' = position - 1
    /\ IF register \in survivors[position']
       THEN /\ stego' = stego \cup {position'}
            /\ register' = Xor(register, columns[position'])
       ELSE UNCHANGED <<stego, register>>
    /\ UNCHANGED <<inputs, pc, block, first, metric, survivors, samples, decoded, result>>

\* The block is reopened: the shift of its closure is undone.
Reopen ==
    /\ pc = "backward" /\ position = BlockStart(block) /\ block > first
    /\ block' = block - 1
    /\ register' = ShiftLeft(register, Bit(block - 1))
    /\ UNCHANGED <<inputs, pc, position, first, metric, survivors, stego, samples,
                   decoded, result>>

\* Mutant of NextSegment: the registers of the previous segment are still there.
NextSegmentCarries ==
    /\ pc = "backward" /\ position = BlockStart(block) /\ block = first
    /\ first' = SegmentEnd /\ block' = SegmentEnd
    /\ position' = BlockStart(SegmentEnd)
    /\ pc' = IF SegmentEnd = MessageBits THEN "apply" ELSE "forward"
    /\ UNCHANGED <<inputs, metric, survivors, register, stego, samples, decoded, result>>

\* The segment is solved.  The next one starts from the zero register.
NextSegment ==
    /\ pc = "backward" /\ position = BlockStart(block) /\ block = first
    /\ first' = SegmentEnd /\ block' = SegmentEnd
    /\ position' = BlockStart(SegmentEnd)
    /\ metric' = Origin
    /\ pc' = IF SegmentEnd = MessageBits THEN "apply" ELSE "forward"
    /\ UNCHANGED <<inputs, survivors, register, stego, samples, decoded, result>>

\* Mutant of Moves: no arm of its own for the largest sample.
MovesSaturating(sample) ==
    IF sample = 0 THEN {1} ELSE {sample - 1, Least(sample + 1, 255)}

\* One level up or down as the keystream says, inwards at the ends of the range.
Moves(sample) ==
    CASE sample = 0 -> {1}
      [] sample = 255 -> {254}
      [] OTHER -> {sample - 1, sample + 1}

\* apply_changes.
Apply ==
    /\ Goto("apply", "read")
    /\ LET agrees(p) == (p \in stego) <=> (cover[p] % 2 = 1)
       IN  samples' \in {s \in [Positions -> UNION {Moves(cover[p]) \cup {cover[p]} :
                                                       p \in Positions}] :
                            \A p \in Positions :
                                IF p >= UsedPositions \/ agrees(p)
                                THEN s[p] = cover[p] ELSE s[p] \in Moves(cover[p])}
    /\ result' = "ok"
    /\ position' = 0 /\ block' = 0 /\ register' = {}
    /\ UNCHANGED <<inputs, first, metric, survivors, stego, decoded>>

\* stc_decode_safe, one position: the columns of the odd samples are added to
\* the register, which is reset where a segment starts.
ReadSample ==
    /\ pc = "read" /\ position < BlockStart(block + 1)
    /\ LET resets == position = BlockStart(block) /\ block % BlocksPerSegment = 0
           start == IF resets THEN {} ELSE register
       IN  register' = IF samples[position] % 2 = 1
                       THEN Xor(start, columns[position]) ELSE start
    /\ position' = position + 1
    /\ UNCHANGED <<inputs, pc, block, first, metric, survivors, stego, samples,
                   decoded, result>>

\* The block is read: its bit is shifted out of the register.
ReadBit ==
    /\ pc = "read" /\ position = BlockStart(block + 1)
    /\ decoded' = Append(decoded, Emitted(register))
    /\ register' = ShiftRight(register)
    /\ block' = block + 1
    /\ pc' = IF block' = MessageBits THEN "done" ELSE "read"
    /\ UNCHANGED <<inputs, position, first, metric, survivors, stego, samples, result>>

Finished == pc = "done" /\ UNCHANGED vars

Next == \/ Check \/ Extend \/ CloseBlock \/ PickEnd \/ Trace \/ Reopen \/ NextSegment
        \/ Apply \/ ReadSample \/ ReadBit \/ Finished

Spec == Init /\ [][Next]_vars
-----------------------------------------------------------------------------
TypeOK ==
    /\ cover \in Covers /\ rho \in CostMaps /\ message \in Payloads
    /\ columns \in [Positions -> Registers]
    /\ pc \in {"check", "forward", "pick", "backward", "apply", "read", "done"}
    /\ position \in 0 .. Length
    /\ block \in 0 .. Length /\ first \in 0 .. Length
    /\ metric \in [Registers -> 0 .. Infinity]
    /\ survivors \in [Positions -> SUBSET Registers]
    /\ register \in Registers
    /\ stego \subseteq Positions
    /\ samples \in [Positions -> 0 .. 255]
    /\ decoded \in Seq({0, 1})
    /\ result \in {"pending", "ok", "exceeds_capacity", "invalid_costs", "encoding"}

\* The positions whose column meets a bit of the register while block b is open:
\* a column is laid down from the row of its own block, which is one of the
\* blocks since the register was zero, and shifts by a bit with every block.
SegmentStart(b) == b - (b % BlocksPerSegment)
InBlock(p, b) == BlockStart(b) <= p /\ p < BlockStart(b + 1)
Meets(p, from, b, bit) == \E a \in from .. b : InBlock(p, a) /\ b - a + bit \in columns[p]

\* The syndrome of a vector of stego bits: H * y of the module documentation,
\* where row b of H has a one at each position whose column meets bit zero.
Odd(S) == Cardinality(S) % 2 = 1
Row(y, b) == Odd({p \in y : Meets(p, SegmentStart(b), b, 0)})
Syndrome(y) == [n \in 1 .. MessageBits |-> IF Row(y, n - 1) THEN 1 ELSE 0]

Prices(y) == [p \in Positions |-> IF (p \in y) # (cover[p] % 2 = 1) THEN rho[p] ELSE 0]
Distortion(y) == Cumulated(Prices(y))[UsedPositions]

\* Whatever fits and has no negative cost is encoded, as solve_trellis says of
\* its error arm that it cannot happen, and what was hidden is what is read: the
\* decoder, which knows neither the cover nor the costs, resets its register
\* where the encoder did and gets every bit.
MessageSurvives ==
    (pc = "done" /\ result \notin {"exceeds_capacity", "invalid_costs"}) =>
        result = "ok" /\ decoded = message

\* The definition of the code: the forward pass, the fold at the block ends and
\* the backward pass found a vector with the right syndrome, and none with that
\* syndrome has a lower distortion.
CheapestVector ==
    pc = "apply" =>
        /\ Syndrome(stego) = message
        /\ \A y \in SUBSET (0 .. UsedPositions - 1) :
              Syndrome(y) = message => Distortion(stego) <= Distortion(y)

\* Every sample moves by one level or not at all, stays a sample, and spells the
\* stego bit; positions past the used ones, and every position of a rejected
\* input, are as they were.
OneLevel ==
    /\ \A p \in Positions : samples[p] \in cover[p] - 1 .. cover[p] + 1
    /\ result \notin {"ok"} => samples = cover
    /\ (result = "ok" /\ MessageBits > 0) =>
        \A p \in Positions :
            IF p < UsedPositions THEN (samples[p] % 2 = 1) <=> (p \in stego)
                                 ELSE samples[p] = cover[p]
=============================================================================
