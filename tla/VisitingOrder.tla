--------------------------- MODULE VisitingOrder ----------------------------
(***************************************************************************)
(* The secret order in which positions are visited.                        *)
(*                                                                         *)
(* Both ends run generate_pixel_permutation over one keystream, a          *)
(* Fisher-Yates shuffle from the last index down whose draws are rejected  *)
(* until one lies below the largest multiple of the bound.  The sender     *)
(* gathers the samples in that order, lets the coder change some of them,  *)
(* and writes them back; the receiver gathers them from the image it got.  *)
(*                                                                         *)
(* The keystream is any sequence of words, fixed as it is first read.      *)
(***************************************************************************)
EXTENDS Integers, Sequences, FiniteSets

CONSTANTS
    Pixels,     \* n_pixels
    MAX,        \* u64::MAX
    MaxWords,   \* bound: words of keystream
    Samples     \* values of a sample

ASSUME OrderAssumption ==
    /\ Pixels \in Nat \ {0} /\ MAX \in Nat /\ Pixels <= MAX
    /\ MaxWords \in Nat

VARIABLES
    stream,     \* the keystream as far as it has been read by either end
    cursor,     \* words each end has consumed
    index,      \* the next index each end will swap, 0 when it is done
    order,      \* the permutation of each end
    pixels,     \* the samples of the image
    symbols,    \* what each end has gathered, in its order
    stage       \* of each end

orderVars == <<stream, cursor, index, order, pixels, symbols, stage>>

Ends == {"sender", "receiver"}
Indices == 0 .. Pixels - 1
Unknown == [i \in Indices |-> 0]

\* The largest multiple of the bound in the draw space, as the code takes it.
Ceiling(bound) == MAX - (MAX % bound)

OrderInit ==
    /\ stream = <<>>
    /\ cursor = [e \in Ends |-> 0]
    /\ index = [e \in Ends |-> Pixels - 1]
    /\ order = [e \in Ends |-> [i \in Indices |-> i]]
    /\ pixels \in [Indices -> Samples]
    /\ symbols = [e \in Ends |-> Unknown]
    /\ stage = [e \in Ends |-> "shuffle"]

\* next_u64: the word at the cursor of an end, drawn if nobody has read it yet.
NextWord(e, word) ==
    /\ cursor' = [cursor EXCEPT ![e] = @ + 1]
    /\ \/ cursor[e] < Len(stream) /\ word = stream[cursor[e] + 1] /\ UNCHANGED stream
       \/ /\ cursor[e] = Len(stream) /\ cursor[e] < MaxWords
          /\ stream' = Append(stream, word)

Swap(f, i, j) == [f EXCEPT ![i] = f[j], ![j] = f[i]]

\* One draw: the swap it leads to, or its rejection.
Shuffle(e) ==
    /\ stage[e] = "shuffle" /\ index[e] > 0
    /\ LET bound == index[e] + 1
       IN  \E word \in 0 .. MAX :
            /\ NextWord(e, word)
            /\ \/ /\ word < Ceiling(bound)
                  /\ order' = [order EXCEPT ![e] = Swap(@, index[e], word % bound)]
                  /\ index' = [index EXCEPT ![e] = @ - 1]
               \/ word >= Ceiling(bound) /\ UNCHANGED <<order, index>>
    /\ UNCHANGED <<pixels, symbols, stage>>

\* gather_cover_symbols, by the receiver once the image has reached it.
Gather(e) ==
    /\ stage[e] = "shuffle" /\ index[e] = 0
    /\ e = "receiver" => stage["sender"] = "applied"
    /\ symbols' = [symbols EXCEPT ![e] = [i \in Indices |-> pixels[order[e][i]]]]
    /\ stage' = [stage EXCEPT ![e] = "gathered"]
    /\ UNCHANGED <<stream, cursor, index, order, pixels>>

\* Mutant of Apply: the symbols go back in raster order.
ApplyInRasterOrder ==
    /\ stage["sender"] = "gathered"
    /\ \E coded \in [Indices -> Samples] :
        /\ symbols' = [symbols EXCEPT !["sender"] = coded]
        /\ pixels' = coded
    /\ stage' = [stage EXCEPT !["sender"] = "applied"]
    /\ UNCHANGED <<stream, cursor, index, order>>

\* The coder changes any of the symbols, and apply_cover_symbols writes them
\* back one after the other.
Apply ==
    /\ stage["sender"] = "gathered"
    /\ \E coded \in [Indices -> Samples] :
        /\ symbols' = [symbols EXCEPT !["sender"] = coded]
        /\ pixels' = [p \in Indices |->
                        LET writes == {i \in Indices : order["sender"][i] = p}
                        IN  IF writes = {} THEN pixels[p]
                            ELSE coded[CHOOSE i \in writes : \A j \in writes : j <= i]]
    /\ stage' = [stage EXCEPT !["sender"] = "applied"]
    /\ UNCHANGED <<stream, cursor, index, order>>

\* The bound on the keystream is reached, or both ends are done.
OrderDone ==
    /\ \/ \A e \in Ends : stage[e] \in {"gathered", "applied"}
       \/ \E e \in Ends : cursor[e] = MaxWords /\ index[e] > 0
    /\ UNCHANGED orderVars

OrderNext == (\E e \in Ends : Shuffle(e) \/ Gather(e)) \/ Apply \/ OrderDone

OrderSpec == OrderInit /\ [][OrderNext]_orderVars
-----------------------------------------------------------------------------
OrderTypeOK ==
    /\ stream \in Seq(0 .. MAX) /\ Len(stream) <= MaxWords
    /\ cursor \in [Ends -> 0 .. Len(stream)]
    /\ index \in [Ends -> Indices]
    /\ order \in [Ends -> [Indices -> Indices]]
    /\ pixels \in [Indices -> Samples]
    /\ stage \in [Ends -> {"shuffle", "gathered", "applied"}]

\* The order visits every position, and none twice, after any number of draws.
Bijective == \A e \in Ends : \A i, j \in Indices : order[e][i] = order[e][j] => i = j

\* Both ends consume the keystream alike, whichever of them is ahead: they end
\* with the same order, wherever rejected draws fell.
SameOrder ==
    index["sender"] = 0 /\ index["receiver"] = 0 => order["sender"] = order["receiver"]

\* What the receiver gathers is what the coder left, symbol by symbol.
SymbolsArrive ==
    stage["receiver"] = "gathered" => symbols["receiver"] = symbols["sender"]
=============================================================================
