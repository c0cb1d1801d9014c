------------------------------ MODULE PlFrame ------------------------------
(***************************************************************************)
(* The layout of a PL frame, as the framer writes it and as the receiver   *)
(* expects it (python/dvbs2acm/pl_framer_acm_py.py, pl_sync_acm_py.py).    *)
(***************************************************************************)
EXTENDS Integers

CONSTANTS
    Modcods,        \* the MODCODs in use, by their numbers
    BitsPerSymbol,  \* per MODCOD
    Nldpc,          \* bits of a codeword
    Sof,            \* symbols of the start of frame
    Header,         \* symbols of the PL header, the start of frame included
    Slot,           \* data symbols of a slot
    PilotPeriod,    \* slots between two pilot blocks
    PilotLen,       \* symbols of a pilot block
    Pilots          \* whether the framer inserts pilot blocks

ASSUME PlFrameAssumption ==
    /\ Modcods \subseteq 1 .. 28
    /\ BitsPerSymbol \in [Modcods -> Nat \ {0}]
    /\ Nldpc \in Nat \ {0} /\ Slot \in Nat \ {0} /\ PilotPeriod \in Nat \ {0}
    /\ PilotLen \in Nat \ {0} /\ Sof \in Nat \ {0} /\ Header \in Nat /\ Sof < Header
    /\ \A m \in Modcods : Nldpc % (BitsPerSymbol[m] * Slot) = 0
    /\ Pilots \in BOOLEAN

DataSymbols(m) == Nldpc \div BitsPerSymbol[m]

Slots(m) == DataSymbols(m) \div Slot

\* A pilot block follows every PilotPeriod slots, but not the last slot.
BlocksSent(m) == IF Pilots THEN (Slots(m) - 1) \div PilotPeriod ELSE 0

\* The receiver expects one after every PilotPeriod slots, the last slot included.
BlocksExpected(m) == Slots(m) \div PilotPeriod

\* Where block k begins, from the start of the frame.
BlockAt(k) == Header + k * (PilotPeriod * Slot) + (k - 1) * PilotLen

PilotsSent(m) == {BlockAt(k) : k \in 1 .. BlocksSent(m)}

\* Slip: the blocks before this one are forgotten.
PilotsExpected_NoOffset(m) ==
    {Header + k * (PilotPeriod * Slot) : k \in 1 .. BlocksExpected(m)}

PilotsExpected(m) == {BlockAt(k) : k \in 1 .. BlocksExpected(m)}

FrameSize(m) == Header + DataSymbols(m) + BlocksSent(m) * PilotLen

-----------------------------------------------------------------------------
(***************************************************************************)
(* The PLSCODE: a word of eight bits, five of them the MODCOD and one the  *)
(* pilots flag, sent eight times over and decoded bit by bit by the        *)
(* majority of the copies.                                                 *)
(***************************************************************************)
PlsBits == 1 .. 8
Copies == 8

Bit(b) == IF b THEN 1 ELSE 0

\* What the bits of the MODCOD count.
PlsWeight == <<16, 8, 4, 2, 1>>

PlsBit(m, b) ==
    IF b =< 5 THEN (m \div PlsWeight[b]) % 2 ELSE IF b = 6 THEN Bit(Pilots) ELSE 0

\* How many copies of each bit read 1, when wrong[b] copies of bit b are wrong.
Ones(m, wrong) ==
    [b \in PlsBits |-> IF PlsBit(m, b) = 1 THEN Copies - wrong[b] ELSE wrong[b]]

\* Slip: six of the eight copies have to agree.
Majority_Six(ones, b) == Bit(ones[b] >= 6)

Majority(ones, b) == Bit(ones[b] >= 4)

DecodedModcod(ones) ==
    LET id == 16 * Majority(ones, 1) + 8 * Majority(ones, 2) + 4 * Majority(ones, 3)
                  + 2 * Majority(ones, 4) + Majority(ones, 5)
    IN  IF id = 0 THEN 4 ELSE IF id > 28 THEN 28 ELSE id

DecodedPilots(ones) == Majority(ones, 6) = 1

=============================================================================
