--------------------------- MODULE RxChainProofs ---------------------------
(***************************************************************************)
(* The invariants of the receive chain, for every layout of a frame, every *)
(* number and order of frames, every way the scheduler cuts the stream and *)
(* every noise the model knows.                                            *)
(***************************************************************************)
EXTENDS RxChain, WellFoundedInduction, TLAPS

-----------------------------------------------------------------------------
(***************************************************************************)
(* The layout of a frame.                                                  *)
(***************************************************************************)
\* A frame holds a whole number of slots.
LEMMA WholeSlots ==
    ASSUME NEW m \in Modcods
    PROVE  /\ DataSymbols(m) \in Nat /\ Slots(m) \in Nat \ {0}
           /\ DataSymbols(m) = Slots(m) * Slot
<1> DEFINE b == BitsPerSymbol[m]
<1>1. b \in Nat \ {0} /\ Slot \in Nat \ {0} /\ Nldpc \in Nat \ {0}
  BY PlFrameAssumption
<1>2. b * Slot \in Nat \ {0}
  BY <1>1
<1>3. Nldpc % (b * Slot) = 0
  BY PlFrameAssumption
<1> DEFINE q == Nldpc \div (b * Slot)
<1>4. q \in Nat /\ Nldpc = (b * Slot) * q
  BY <1>1, <1>2, <1>3
<1> HIDE DEF q
<1>5. Nldpc = b * (Slot * q) /\ Slot * q \in Nat
  BY <1>1, <1>4
<1>6. Nldpc \div b = Slot * q
  <2> DEFINE d == Slot * q
  <2> HIDE DEF b, d
  <2>1. \A k, n \in Nat : k # 0 => (k * n) \div k = n
    OBVIOUS
  <2> QED BY <2>1, <1>1, <1>5 DEF d
<1>7. (Slot * q) \div Slot = q
  BY <1>1, <1>4
<1>8. q # 0
  BY <1>1, <1>4
<1> QED BY <1>4, <1>5, <1>6, <1>7, <1>8, <1>1 DEF DataSymbols, Slots

LEMMA FrameSizeType ==
    ASSUME NEW m \in Modcods
    PROVE  FrameSize(m) \in Nat /\ FrameSize(m) > 0
<1>1. BlocksSent(m) \in Nat
  <2>1. (Slots(m) - 1) \div PilotPeriod \in Nat
    BY WholeSlots, PlFrameAssumption
  <2> QED BY <2>1 DEF BlocksSent
<1>2. BlocksSent(m) * PilotLen \in Nat /\ DataSymbols(m) \in Nat /\ Header \in Nat /\ Header > 0
  BY <1>1, WholeSlots, PlFrameAssumption
<1> QED BY <1>2 DEF FrameSize

\* A pilot block that the receiver expects in a frame of another MODCOD and that
\* fits a frame of m is a pilot block of m.
LEMMA FittingBlockIsSent ==
    ASSUME Pilots, NEW m \in Modcods, NEW k \in Nat, k >= 1,
           BlockAt(k) + PilotLen =< FrameSize(m)
    PROVE  BlockAt(k) \in PilotsSent(m)
<1> DEFINE S == Slots(m)
           B == BlocksSent(m)
<1>1. S \in Nat \ {0} /\ DataSymbols(m) = S * Slot
  BY WholeSlots
<1>2. /\ PilotPeriod \in Nat \ {0} /\ Slot \in Nat \ {0} /\ PilotLen \in Nat \ {0}
      /\ Header \in Nat
  BY PlFrameAssumption
<1>3. B \in Nat /\ S - 1 < (B + 1) * PilotPeriod
  <2>1. B = (S - 1) \div PilotPeriod
    BY DEF BlocksSent
  <2> HIDE DEF S, B
  <2> QED BY <1>1, <1>2, <2>1
<1>4. SUFFICES ASSUME k >= B + 1 PROVE FALSE
  <2> HIDE DEF B
  <2>1. k \in 1 .. B \/ k >= B + 1
    BY <1>3
  <2> QED BY <1>4, <2>1 DEF PilotsSent, B
<1> HIDE DEF S, B
<1>5. (B + 1) * PilotPeriod =< k * PilotPeriod
  BY <1>2, <1>3, <1>4
<1>6. S =< k * PilotPeriod
  BY <1>1, <1>2, <1>3, <1>5
<1>7. S * Slot =< (k * PilotPeriod) * Slot
  BY <1>1, <1>2, <1>6
<1>8. (B + 1) * PilotLen =< k * PilotLen
  BY <1>2, <1>3, <1>4
<1>9. Header + k * (PilotPeriod * Slot) + (k - 1) * PilotLen + PilotLen
         =< Header + S * Slot + B * PilotLen
  BY <1>1 DEF BlockAt, FrameSize, B
<1>10. (k * PilotPeriod) * Slot + k * PilotLen =< S * Slot + B * PilotLen
  <2>1. k * (PilotPeriod * Slot) = (k * PilotPeriod) * Slot
    BY <1>2
  <2>2. (k - 1) * PilotLen + PilotLen = k * PilotLen
    BY <1>2
  <2> QED BY <1>1, <1>2, <1>3, <1>9, <2>1, <2>2
<1>11. k * PilotLen >= B * PilotLen + PilotLen
  BY <1>2, <1>3, <1>8
<1> QED BY <1>1, <1>2, <1>3, <1>7, <1>10, <1>11

-----------------------------------------------------------------------------
(***************************************************************************)
(* The header.                                                             *)
(***************************************************************************)
\* At most three wrong copies do not change a bit.
LEMMA MajorityIsSent ==
    ASSUME NEW m \in Modcods, NEW wrong \in [PlsBits -> 0 .. Copies], NEW b \in PlsBits,
           wrong[b] =< 3, PlsBit(m, b) \in {0, 1}
    PROVE  Majority(Ones(m, wrong), b) = PlsBit(m, b)
<1>1. wrong[b] \in 0 .. 3
  BY DEF Copies
<1>2. Ones(m, wrong)[b] = IF PlsBit(m, b) = 1 THEN 8 - wrong[b] ELSE wrong[b]
  BY DEF Ones, Copies
<1>3. CASE PlsBit(m, b) = 1
  BY <1>1, <1>2, <1>3 DEF Majority, Bit
<1>4. CASE PlsBit(m, b) = 0
  BY <1>1, <1>2, <1>4 DEF Majority, Bit
<1> QED BY <1>3, <1>4

\* The first five bits of a header are the MODCOD.
LEMMA BitsOfModcod ==
    ASSUME NEW m \in 1 .. 28
    PROVE  /\ \A b \in PlsBits : PlsBit(m, b) \in {0, 1}
           /\ 16 * PlsBit(m, 1) + 8 * PlsBit(m, 2) + 4 * PlsBit(m, 3) + 2 * PlsBit(m, 4)
                 + PlsBit(m, 5) = m
<1>1. /\ PlsBit(m, 1) = (m \div 16) % 2 /\ PlsBit(m, 2) = (m \div 8) % 2
      /\ PlsBit(m, 3) = (m \div 4) % 2 /\ PlsBit(m, 4) = (m \div 2) % 2
      /\ PlsBit(m, 5) = (m \div 1) % 2
      /\ PlsBit(m, 6) \in {0, 1} /\ PlsBit(m, 7) = 0 /\ PlsBit(m, 8) = 0
  BY DEF PlsBit, PlsWeight, Bit
<1>2. /\ (m \div 16) % 2 \in {0, 1} /\ (m \div 8) % 2 \in {0, 1} /\ (m \div 4) % 2 \in {0, 1}
      /\ (m \div 2) % 2 \in {0, 1} /\ (m \div 1) % 2 \in {0, 1}
  OBVIOUS
<1>3. 16 * ((m \div 16) % 2) + 8 * ((m \div 8) % 2) + 4 * ((m \div 4) % 2)
         + 2 * ((m \div 2) % 2) + ((m \div 1) % 2) = m
  OBVIOUS
<1>4. \A b \in PlsBits : b \in {1, 2, 3, 4, 5, 6, 7, 8}
  BY DEF PlsBits
<1> QED BY <1>1, <1>2, <1>3, <1>4

\* A header with at most three wrong copies of each bit is read as it was sent.
LEMMA HeaderIsReadAsSent ==
    ASSUME NEW m \in Modcods, NEW wrong \in [PlsBits -> 0 .. Copies],
           \A b \in PlsBits : wrong[b] =< 3
    PROVE  /\ DecodedModcod(Ones(m, wrong)) = m
           /\ DecodedPilots(Ones(m, wrong)) = Pilots
<1>1. m \in 1 .. 28
  BY PlFrameAssumption
<1>2. \A b \in PlsBits : Majority(Ones(m, wrong), b) = PlsBit(m, b)
  BY <1>1, BitsOfModcod, MajorityIsSent
<1>3. \A b \in 1 .. 8 : b \in PlsBits
  BY DEF PlsBits
<1>4. DecodedModcod(Ones(m, wrong)) = IF m = 0 THEN 4 ELSE IF m > 28 THEN 28 ELSE m
  BY <1>1, <1>2, <1>3, BitsOfModcod DEF DecodedModcod
<1>5. DecodedPilots(Ones(m, wrong)) = (PlsBit(m, 6) = 1)
  BY <1>2, <1>3 DEF DecodedPilots
<1>6. (PlsBit(m, 6) = 1) = Pilots
  BY PlFrameAssumption DEF PlsBit, Bit
<1> QED BY <1>1, <1>4, <1>5, <1>6

-----------------------------------------------------------------------------
(***************************************************************************)
(* The transmission.                                                       *)
(***************************************************************************)
\* A set of naturals has a least element.
LEMMA LeastNatural ==
    ASSUME NEW T, T \subseteq Nat, T # {}
    PROVE  \E x \in T : \A y \in T : x =< y
<1> DEFINE R == {ss \in Nat \X Nat : ss[1] < ss[2]}
<1>1. IsWellFoundedOn(R, Nat)
  BY NatLessThanWellFounded DEF OpToRel
<1>2. \E x \in T : \A y \in T : <<y, x>> \notin R
  <2> HIDE DEF R
  <2> QED BY <1>1, WFMin
<1>3. \A x, y \in Nat : <<y, x>> \notin R => x =< y
  OBVIOUS
<1> QED BY <1>2, <1>3

\* The offsets of the frames exist: there are such offsets for the first n
\* frames, for every n.
LEMMA OffsetsExist ==
    ASSUME NEW ms \in [1 .. MaxFrames -> Modcods]
    PROVE  \E g \in [1 .. MaxFrames -> Nat] :
              g = [j \in 1 .. MaxFrames |->
                     IF j = 1 THEN 0 ELSE g[j - 1] + FrameSize(ms[j - 1])]
<1> DEFINE Next1(g, j) == IF j = 1 THEN 0 ELSE g[j - 1] + FrameSize(ms[j - 1])
           Ok(n) == \E g \in [1 .. n -> Nat] : \A j \in 1 .. n : g[j] = Next1(g, j)
           Bad == {n \in 1 .. MaxFrames : ~Ok(n)}
<1>1. MaxFrames \in Nat \ {0}
  BY RxAssumption
<1>2. Bad = {}
  <2>1. SUFFICES ASSUME Bad # {} PROVE FALSE
    OBVIOUS
  <2>2. PICK n \in Bad : \A k \in Bad : n =< k
    <3>1. Bad \subseteq Nat
      BY <1>1
    <3> HIDE DEF Bad
    <3> QED BY <2>1, <3>1, LeastNatural
  <2>3. n \in 1 .. MaxFrames /\ ~Ok(n)
    OBVIOUS
  <2>4. CASE n = 1
    <3> DEFINE g == [j \in 1 .. 1 |-> 0]
    <3>1. g \in [1 .. 1 -> Nat] /\ \A j \in 1 .. 1 : g[j] = Next1(g, j)
      OBVIOUS
    <3>2. Ok(1)
      BY <3>1
    <3> QED BY <2>3, <2>4, <3>2
  <2>5. CASE n # 1
    <3>1. n - 1 \in 1 .. MaxFrames /\ n - 1 < n
      BY <1>1, <2>3, <2>5
    <3>2. Ok(n - 1)
      <4>1. n - 1 \notin Bad
        <5>1. n \in Int
          BY <1>1, <2>3
        <5> HIDE DEF Bad
        <5> QED BY <2>2, <3>1, <5>1
      <4> QED BY <3>1, <4>1
    <3>3. PICK g \in [1 .. n - 1 -> Nat] : \A j \in 1 .. n - 1 : g[j] = Next1(g, j)
      BY <3>2
    <3> DEFINE s == FrameSize(ms[n - 1])
               h == [j \in 1 .. n |-> IF j = n THEN g[n - 1] + s ELSE g[j]]
    <3>4. s \in Nat
      BY <3>1, FrameSizeType
    <3>5. g[n - 1] \in Nat
      BY <3>1, <3>3
    <3>6. h \in [1 .. n -> Nat]
      <4>1. \A j \in 1 .. n : j # n => j \in 1 .. n - 1
        BY <1>1, <2>3
      <4> HIDE DEF s
      <4> QED BY <3>3, <3>4, <3>5, <4>1
    <3>7. ASSUME NEW j \in 1 .. n PROVE h[j] = Next1(h, j)
      <4>1. CASE j = n
        <5>1. h[j] = g[n - 1] + s
          BY <4>1
        <5>2. n - 1 \in 1 .. n /\ n - 1 # n
          BY <1>1, <2>3, <2>5
        <5>3. h[n - 1] = g[n - 1]
          BY <5>2
        <5>4. Next1(h, n) = h[n - 1] + s
          BY <2>5
        <5> HIDE DEF h, Next1, s
        <5> QED BY <4>1, <5>1, <5>3, <5>4
      <4>2. CASE j # n
        <5>1. j \in 1 .. n - 1
          BY <1>1, <2>3, <4>2
        <5>2. h[j] = g[j] /\ g[j] = Next1(g, j)
          BY <3>3, <4>2, <5>1
        <5>3. j # 1 => j - 1 \in 1 .. n /\ j - 1 # n
          BY <1>1, <2>3, <5>1
        <5>4. j # 1 => h[j - 1] = g[j - 1]
          BY <5>3
        <5>5. Next1(h, j) = Next1(g, j)
          <6> HIDE DEF h
          <6> QED BY <5>4
        <5> HIDE DEF h, Next1
        <5> QED BY <5>2, <5>5
      <4> QED BY <4>1, <4>2
    <3>8. Ok(n)
      <4> HIDE DEF h, Next1
      <4> QED BY <3>6, <3>7
    <3> QED BY <2>3, <3>8
  <2> QED BY <2>4, <2>5
<1>3. Ok(MaxFrames)
  <2>1. MaxFrames \in 1 .. MaxFrames
    BY <1>1
  <2> HIDE DEF Ok
  <2> QED BY <1>2, <2>1
<1>4. PICK g \in [1 .. MaxFrames -> Nat] : \A j \in 1 .. MaxFrames : g[j] = Next1(g, j)
  BY <1>3
<1>5. g = [j \in 1 .. MaxFrames |-> Next1(g, j)]
  <2> HIDE DEF Next1
  <2> QED BY <1>4
<1> QED BY <1>5

\* The frames, one behind the other.
Contiguous(fs) ==
    /\ fs \in [1 .. MaxFrames -> [modcod : Modcods, at : Nat]]
    /\ \A j \in 1 .. MaxFrames :
          j # 1 => fs[j].at = fs[j - 1].at + FrameSize(fs[j - 1].modcod)

LEMMA TransmissionIsContiguous ==
    ASSUME NEW ms \in [1 .. MaxFrames -> Modcods]
    PROVE  Contiguous(Transmission(ms))
<1> DEFINE at == CHOOSE g : g = [j \in 1 .. MaxFrames |->
                     IF j = 1 THEN 0 ELSE g[j - 1] + FrameSize(ms[j - 1])]
<1>1. at = [j \in 1 .. MaxFrames |-> IF j = 1 THEN 0 ELSE at[j - 1] + FrameSize(ms[j - 1])]
  BY OffsetsExist
<1>2. Transmission(ms) = [j \in 1 .. MaxFrames |-> [modcod |-> ms[j], at |-> at[j]]]
  BY DEF Transmission
<1> HIDE DEF at
<1>3. MaxFrames \in Nat \ {0}
  BY RxAssumption
<1>4. ASSUME NEW j \in 1 .. MaxFrames
      PROVE  at[j] = IF j = 1 THEN 0 ELSE at[j - 1] + FrameSize(ms[j - 1])
  BY <1>1
<1> DEFINE Bad == {n \in 1 .. MaxFrames : at[n] \notin Nat}
<1>5. Bad = {}
  <2>1. SUFFICES ASSUME Bad # {} PROVE FALSE
    OBVIOUS
  <2>2. PICK n \in Bad : \A k \in Bad : n =< k
    <3>1. Bad \subseteq Nat
      BY <1>3
    <3> HIDE DEF Bad
    <3> QED BY <2>1, <3>1, LeastNatural
  <2>3. n \in 1 .. MaxFrames /\ at[n] \notin Nat
    OBVIOUS
  <2>4. n # 1
    BY <1>4, <2>3
  <2>5. n - 1 \in 1 .. MaxFrames /\ n - 1 < n
    BY <1>3, <2>3, <2>4
  <2>6. at[n - 1] \in Nat
    <3>1. n - 1 \notin Bad
      <4>1. n \in Int
        BY <1>3, <2>3
      <4> HIDE DEF Bad
      <4> QED BY <2>2, <2>5, <4>1
    <3> QED BY <2>5, <3>1
  <2>7. FrameSize(ms[n - 1]) \in Nat
    BY <2>5, FrameSizeType
  <2> QED BY <1>4, <2>3, <2>4, <2>6, <2>7
<1>6. Transmission(ms) \in [1 .. MaxFrames -> [modcod : Modcods, at : Nat]]
  BY <1>2, <1>5
<1>7. ASSUME NEW j \in 1 .. MaxFrames, j # 1
      PROVE  Transmission(ms)[j].at
                = Transmission(ms)[j - 1].at + FrameSize(Transmission(ms)[j - 1].modcod)
  <2>1. j - 1 \in 1 .. MaxFrames
    BY <1>3, <1>7
  <2>2. /\ Transmission(ms)[j].at = at[j]
        /\ Transmission(ms)[j - 1].at = at[j - 1] /\ Transmission(ms)[j - 1].modcod = ms[j - 1]
    BY <1>2, <2>1
  <2> QED BY <1>4, <1>7, <2>2
<1> QED BY <1>6, <1>7 DEF Contiguous

\* A frame begins where the ones before it have ended.
LEMMA FramesDoNotOverlap ==
    ASSUME NEW fs, Contiguous(fs), NEW i \in 1 .. MaxFrames, NEW j \in 1 .. MaxFrames, i < j
    PROVE  fs[i].at + FrameSize(fs[i].modcod) =< fs[j].at
<1>1. MaxFrames \in Nat \ {0}
  BY RxAssumption
<1>2. \A k \in 1 .. MaxFrames : fs[k].at \in Nat /\ fs[k].modcod \in Modcods
  BY DEF Contiguous
<1> DEFINE size(k) == FrameSize(fs[k].modcod)
           Bad == {n \in 1 .. MaxFrames : i < n /\ ~(fs[i].at + size(i) =< fs[n].at)}
<1>3. \A k \in 1 .. MaxFrames : size(k) \in Nat
  BY <1>2, FrameSizeType
<1>4. \A k \in 1 .. MaxFrames : k # 1 => fs[k].at = fs[k - 1].at + size(k - 1)
  BY DEF Contiguous
<1> HIDE DEF size
<1>5. Bad = {}
  <2>1. SUFFICES ASSUME Bad # {} PROVE FALSE
    OBVIOUS
  <2>2. PICK n \in Bad : \A k \in Bad : n =< k
    <3>1. Bad \subseteq Nat
      BY <1>1
    <3> HIDE DEF Bad
    <3> QED BY <2>1, <3>1, LeastNatural
  <2>3. n \in 1 .. MaxFrames /\ i < n /\ ~(fs[i].at + size(i) =< fs[n].at)
    OBVIOUS
  <2>4. n - 1 \in 1 .. MaxFrames /\ n # 1 /\ (n - 1 = i \/ i < n - 1)
    BY <1>1, <2>3
  <2>5. fs[n].at = fs[n - 1].at + size(n - 1)
    BY <1>4, <2>3, <2>4
  <2>6. CASE n - 1 = i
    BY <1>2, <1>3, <2>3, <2>5, <2>6
  <2>7. CASE i < n - 1
    <3>1. n - 1 \notin Bad
      <4>1. n \in Int /\ ~(n =< n - 1)
        BY <1>1, <2>3
      <4> HIDE DEF Bad
      <4> QED BY <2>2, <4>1
    <3>2. fs[i].at + size(i) =< fs[n - 1].at
      BY <2>4, <2>7, <3>1
    <3>3. fs[i].at \in Nat /\ fs[n - 1].at \in Nat /\ size(i) \in Nat /\ size(n - 1) \in Nat
      BY <1>2, <1>3, <2>4
    <3> QED BY <2>3, <2>5, <3>2, <3>3
  <2> QED BY <2>4, <2>6, <2>7
<1> QED BY <1>5 DEF size

\* Two frames do not share a sample.
LEMMA OneFrameAt ==
    ASSUME NEW fs, Contiguous(fs), NEW i \in 1 .. MaxFrames, NEW j \in 1 .. MaxFrames,
           fs[j].at =< fs[i].at, fs[i].at < fs[j].at + FrameSize(fs[j].modcod)
    PROVE  i = j
<1>1. /\ fs[i].at \in Nat /\ FrameSize(fs[i].modcod) \in Nat /\ FrameSize(fs[i].modcod) > 0
      /\ fs[j].at \in Nat /\ FrameSize(fs[j].modcod) \in Nat /\ FrameSize(fs[j].modcod) > 0
  BY FrameSizeType DEF Contiguous
<1>2. CASE i < j
  BY <1>1, <1>2, FramesDoNotOverlap
<1>3. CASE j < i
  BY <1>1, <1>3, FramesDoNotOverlap
<1> QED BY <1>2, <1>3, RxAssumption

-----------------------------------------------------------------------------
(***************************************************************************)
(* The inductive invariant, by parts.                                      *)
(***************************************************************************)
Tag == [at : Nat, modcod : Modcods]

\* The types, with what the history variables are made of.
Types ==
    /\ forwards \in BOOLEAN
    /\ Contiguous(frames)
    /\ sync \in [locked : BOOLEAN, kept : 0 .. 2 * Header - 1, start : Nat,
                 pilots : BOOLEAN, cached : Modcods \union {0}]
    /\ out \in [written : Nat, read : Nat, tags : SUBSET Tag]
    /\ llrs \in Nat /\ demod \in Modcods
    /\ chunk.at \in Nat /\ chunk.noise \in [PlsBits -> 0 .. Copies]
    /\ batch.at \in Nat /\ batch.seen \in Nat
    /\ named \subseteq 1 .. MaxFrames
    /\ garbled \in BOOLEAN /\ wide \in BOOLEAN

\* What was read, given in chunks and taken in batches is behind what is written.
Order ==
    /\ out.read =< Total /\ chunk.at =< Total /\ batch.at + batch.seen =< Total
    /\ \A j \in named : frames[j].at < Total

\* The end of frame j.
End(j) == frames[j].at + FrameSize(frames[j].modcod)

\* The tags that wait are not behind what is read, they are headers of frames, and the header of a frame whose first
\* sample waits waits with it.
Tags ==
    /\ \A t \in out.tags : out.read =< t.at
    /\ ~garbled => \A t \in out.tags : \E j \in 1 .. MaxFrames :
                      t.at = frames[j].at /\ t.modcod = frames[j].modcod
    /\ \A j \in named : out.read =< frames[j].at => \E t \in out.tags : t.at = frames[j].at

\* The demodulator has gone over to a frame when it has read its first sample and
\* no later frame is there.
Followed ==
    ~garbled => \A j \in named :
                   frames[j].at < out.read /\ Total =< End(j) => demod = frames[j].modcod

-----------------------------------------------------------------------------
(***************************************************************************)
(* Types.                                                                  *)
(***************************************************************************)
LEMMA ConstantTypes ==
    /\ Header \in Nat /\ Sof \in Nat \ {0} /\ Sof < Header
    /\ PilotLen \in Nat \ {0} /\ Pilots \in BOOLEAN
    /\ SearchSpan \in Nat /\ SearchSpan > 2 * Header
    /\ InitialModcod \in Modcods /\ Modcods \subseteq 1 .. 28
    /\ ChunkSizes \subseteq Nat \ {0} /\ Batches \subseteq Nat \ {0} /\ Decoys \subseteq Nat
    /\ Noise \subseteq [PlsBits -> 0 .. Copies]
    /\ NoNoise \in [PlsBits -> 0 .. Copies]
    /\ MaxFrames \in Nat \ {0}
BY PlFrameAssumption, RxAssumption DEF NoNoise, PlsBits, Copies

LEMMA FramesType ==
    ASSUME Types
    PROVE  /\ DOMAIN frames = 1 .. MaxFrames
           /\ \A j \in 1 .. MaxFrames : frames[j].at \in Nat /\ frames[j].modcod \in Modcods
           /\ \A S : Beginning(S) \subseteq 1 .. MaxFrames
           /\ Total \in Nat /\ out.read \in Nat /\ out.tags \subseteq Tag
           /\ \A t \in out.tags : t.at \in Nat /\ t.modcod \in Modcods
BY DEF Types, Contiguous, Beginning, Total, Tag

\* What a chunk adds to the stream.
LEMMA FramerTagsType ==
    ASSUME Types, NEW n \in Nat
    PROVE  /\ FramerTags(n) \subseteq Tag
           /\ \A t \in FramerTags(n) : /\ t.at >= Total
                                       /\ \E j \in 1 .. MaxFrames : /\ t.at = frames[j].at
                                                                    /\ t.modcod = frames[j].modcod
<1>1. \A j \in Beginning(Fresh(n)) : j \in 1 .. MaxFrames /\ frames[j].at >= Total
  BY FramesType DEF Beginning, Fresh
<1> QED BY <1>1, FramesType DEF FramerTags, Tag

\* out' after a chunk of n with some tags.
LEMMA WrittenOutcome ==
    ASSUME Types, NEW n \in Nat, NEW tags \in SUBSET Tag, out' = Written(out, n, tags)
    PROVE  /\ out' \in [written : Nat, read : Nat, tags : SUBSET Tag]
           /\ Total' = Total + n /\ out'.read = out.read
           /\ out'.tags = out.tags \union {t \in tags : t.at >= out.read}
<1> DEFINE new == out.tags \union {t \in tags : t.at >= out.read}
<1>1. /\ out \in [written : Nat, read : Nat, tags : SUBSET Tag] /\ new \in SUBSET Tag
      /\ out.written + n \in Nat
  BY DEF Types
<1>2. out' = [out EXCEPT !.written = out.written + n, !.tags = new]
  BY DEF Written
<1> HIDE DEF new
<1>3. /\ out' \in [written : Nat, read : Nat, tags : SUBSET Tag]
      /\ out'.written = out.written + n /\ out'.read = out.read /\ out'.tags = new
  BY <1>1, <1>2
<1> QED BY <1>3 DEF Total, new

\* out' after a batch of n.
LEMMA ConsumedOutcome ==
    ASSUME Types, NEW n \in 1 .. Available(out), out' = Consumed(out, n)
    PROVE  /\ out' \in [written : Nat, read : Nat, tags : SUBSET Tag]
           /\ Total' = Total /\ out'.read = out.read + n /\ out'.read =< Total
           /\ out'.tags = {t \in out.tags : t.at >= out.read + n}
<1> DEFINE left == {t \in out.tags : t.at >= out.read + n}
<1>1. out \in [written : Nat, read : Nat, tags : SUBSET Tag] /\ left \in SUBSET Tag
  BY DEF Types
<1>2. n \in Nat /\ out.read + n =< out.written /\ out.read + n \in Nat
  BY <1>1 DEF Available
<1>3. out' = [out EXCEPT !.read = out.read + n, !.tags = left]
  BY DEF Consumed
<1> HIDE DEF left
<1>4. /\ out' \in [written : Nat, read : Nat, tags : SUBSET Tag]
      /\ out'.written = out.written /\ out'.read = out.read + n /\ out'.tags = left
  BY <1>1, <1>2, <1>3
<1> QED BY <1>2, <1>4 DEF Total, left

LEMMA ReadHeaderType ==
    ASSUME Types, NEW noise \in Noise
    PROVE  ReadHeader(noise) \subseteq Modcods \X BOOLEAN
<1> DEFINE D(ones) == <<DecodedModcod(ones), DecodedPilots(ones)>>
<1>1. ASSUME NEW j \in Beginning({Total})
      PROVE  D(Ones(frames[j].modcod, noise)) \in Modcods \X BOOLEAN
  <2>1. DecodedModcod(Ones(frames[j].modcod, noise)) \in Modcods
    BY FramesType, DecodingAssumption
  <2>2. DecodedPilots(Ones(frames[j].modcod, noise)) \in BOOLEAN
    BY DEF DecodedPilots
  <2> QED BY <2>1, <2>2
<1>2. \/ ReadHeader(noise) = Modcods \X BOOLEAN
      \/ ReadHeader(noise) =
            {D(ones) : ones \in {Ones(frames[j].modcod, noise) : j \in Beginning({Total})}}
  BY DEF ReadHeader
<1> HIDE DEF D
<1> QED BY <1>1, <1>2

LEMMA NewestType ==
    ASSUME Types
    PROVE  Newest(out, demod) \subseteq Modcods
BY FramesType DEF Types, Newest, LastTags, Window

LEMMA InitTypes == Init => Types /\ Order
<1> SUFFICES ASSUME Init PROVE Types /\ Order
  OBVIOUS
<1>1. Contiguous(frames)
  BY TransmissionIsContiguous DEF Init
<1>2. out = [written |-> 0, read |-> 0, tags |-> {}]
  BY DEF Init, EmptyStream
<1>3. out \in [written : Nat, read : Nat, tags : SUBSET Tag]
  BY <1>2
<1>4. sync \in [locked : BOOLEAN, kept : 0 .. 2 * Header - 1, start : Nat,
                pilots : BOOLEAN, cached : Modcods \union {0}]
  BY ConstantTypes DEF Init, PlSyncInit, DemodulatorInit
<1>5. chunk.at = 0 /\ chunk.noise = NoNoise /\ batch.at = 0 /\ batch.seen = 0 /\ named = {}
  BY DEF Init, PlSyncInit, DemodulatorInit
<1>6. Types
  BY <1>1, <1>3, <1>4, <1>5, ConstantTypes DEF Init, PlSyncInit, DemodulatorInit, Types
<1>7. Order
  BY <1>2, <1>5 DEF Order, Total
<1> QED BY <1>6, <1>7

LEMMA SearchTypes ==
    ASSUME Types, NEW n \in ChunkSizes, SyncSearch(n)
    PROVE  Types'
<1>1. n \in Nat
  BY ConstantTypes
<1>2. out' = Written(out, n, FramerTags(n))
  BY DEF SyncSearch
<1>3. out' \in [written : Nat, read : Nat, tags : SUBSET Tag]
  BY <1>1, <1>2, FramerTagsType, WrittenOutcome
<1>4. Buffered(n) \in Nat /\ Total \in Nat
  BY <1>1, FramesType DEF Buffered, Types
<1>5. sync' \in [locked : BOOLEAN, kept : 0 .. 2 * Header - 1, start : Nat,
                 pilots : BOOLEAN, cached : Modcods \union {0}]
  <2>2. CASE \E o \in Candidates(n) : Lock(o)
    <3>1. PICK o \in Candidates(n) : Lock(o)
      BY <2>2
    <3>2. o \in Nat
      BY <1>4, ConstantTypes DEF Candidates, Searched
    <3>3. Total + o \in Nat /\ 0 \in 0 .. 2 * Header - 1
      BY <1>4, <3>2, ConstantTypes
    <3>4. sync' = [sync EXCEPT !.locked = TRUE, !.start = Total + o, !.kept = 0]
      BY <3>1 DEF Lock
    <3> QED BY <3>3, <3>4 DEF Types
  <2>3. CASE SearchInVain(n)
    <3>1. Retained(n) \in 0 .. 2 * Header - 1
      BY <1>4, ConstantTypes DEF Retained
    <3> QED BY <2>3, <3>1 DEF SearchInVain, Types
  <2>4. CASE Buffered(n) < 2 * Header /\ sync' = [sync EXCEPT !.kept = Buffered(n)]
    <3>1. Buffered(n) \in 0 .. 2 * Header - 1
      BY <1>4, <2>4, ConstantTypes
    <3> QED BY <2>4, <3>1 DEF Types
  <2> QED BY <2>2, <2>3, <2>4, <1>4, ConstantTypes DEF SyncSearch
<1>6. wide' \in BOOLEAN
  BY DEF SyncSearch, Types
<1>7. chunk'.at \in Nat /\ chunk'.noise \in [PlsBits -> 0 .. Copies]
  BY <1>4, ConstantTypes DEF SyncSearch
<1>8. UNCHANGED <<forwards, frames, llrs, demod, batch, named, garbled>>
  BY DEF SyncSearch
<1> QED BY <1>3, <1>5, <1>6, <1>7, <1>8 DEF Types, Contiguous

LEMMA LockedTypes ==
    ASSUME Types, NEW n \in ChunkSizes, NEW sof \in BOOLEAN, NEW noise \in Noise,
           SyncLocked(n, sof, noise)
    PROVE  Types'
<1> DEFINE start == IF sof THEN Total ELSE sync.start
<1>1. n \in Nat /\ Total \in Nat /\ start \in Nat
  BY ConstantTypes, FramesType DEF Types
<1>2. \A h \in ReadHeader(noise) : h[1] \in Modcods /\ h[2] \in BOOLEAN
  BY ReadHeaderType
<1>3. out' \in [written : Nat, read : Nat, tags : SUBSET Tag]
  <2>1. \E tags \in SUBSET Tag : out' = Written(out, n, tags)
    <3>1. CASE out' = Written(out, n, FramerTags(n))
      BY <1>1, <3>1, FramerTagsType
    <3>2. ASSUME NEW h \in ReadHeader(noise),
                 out' = Written(out, n, FramerTags(n) \union {[at |-> Total, modcod |-> h[1]]})
          PROVE  \E tags \in SUBSET Tag : out' = Written(out, n, tags)
      <4>1. [at |-> Total, modcod |-> h[1]] \in Tag
        BY <1>1, <1>2 DEF Tag
      <4> QED BY <1>1, <3>2, <4>1, FramerTagsType
    <3> QED BY <3>1, <3>2 DEF SyncLocked
  <2> QED BY <1>1, <2>1, WrittenOutcome
<1>4. sync' \in [locked : BOOLEAN, kept : 0 .. 2 * Header - 1, start : Nat,
                 pilots : BOOLEAN, cached : Modcods \union {0}]
  <2>1. CASE sync' = [sync EXCEPT !.start = start]
    BY <1>1, <2>1 DEF Types
  <2>2. ASSUME NEW h \in ReadHeader(noise),
               sync' = [sync EXCEPT !.start = start, !.cached = h[1], !.pilots = h[2]]
        PROVE  sync' \in [locked : BOOLEAN, kept : 0 .. 2 * Header - 1, start : Nat,
                          pilots : BOOLEAN, cached : Modcods \union {0}]
    BY <1>1, <1>2, <2>2 DEF Types
  <2> QED BY <2>1, <2>2 DEF SyncLocked
<1>5. chunk'.at \in Nat /\ chunk'.noise \in [PlsBits -> 0 .. Copies]
  BY <1>1, ConstantTypes DEF SyncLocked
<1>6. named' \subseteq 1 .. MaxFrames /\ garbled' \in BOOLEAN
  BY FramesType DEF SyncLocked, Types
<1>7. UNCHANGED <<forwards, frames, llrs, demod, batch, wide>>
  BY DEF SyncLocked
<1> QED BY <1>3, <1>4, <1>5, <1>6, <1>7 DEF Types, Contiguous

LEMMA DemodulateTypes ==
    ASSUME Types, NEW n, Demodulate(n)
    PROVE  Types'
<1>1. n \in 1 .. Available(out) /\ n \in Nat /\ out' = Consumed(out, n)
  BY FramesType DEF Demodulate, Available, Total
<1>2. out' \in [written : Nat, read : Nat, tags : SUBSET Tag]
  BY <1>1, ConsumedOutcome
<1>3. llrs' \in Nat /\ demod' \in Modcods
  <2>1. PICK m \in Newest(out, demod) : demod' = m /\ llrs' = llrs + n * BitsPerSymbol[m]
    BY DEF Demodulate
  <2>2. m \in Modcods /\ BitsPerSymbol[m] \in Nat
    BY NewestType, PlFrameAssumption
  <2>3. n * BitsPerSymbol[m] \in Nat
    BY <1>1, <2>2
  <2> QED BY <2>1, <2>2, <2>3 DEF Types
<1>4. batch'.at \in Nat /\ batch'.seen \in Nat
  BY <1>1, FramesType DEF Demodulate, Available, Total
<1>5. UNCHANGED <<forwards, frames, sync, chunk, named, garbled, wide>>
  BY DEF Demodulate
<1> QED BY <1>2, <1>3, <1>4, <1>5 DEF Types, Contiguous

LEMMA StutterTypes ==
    ASSUME Types, UNCHANGED vars
    PROVE  Types'
BY DEF Types, vars, Contiguous

LEMMA NextTypes == Types /\ [Next]_vars => Types'
BY SearchTypes, LockedTypes, DemodulateTypes, StutterTypes DEF Next

\* Every variable keeps its type, and between two calls the search buffer is
\* shorter than two headers.
THEOREM TypeCorrect == Spec => []TypeOK
<1>1. Init => Types
  BY InitTypes
<1>2. ASSUME Types PROVE TypeOK
  <2> USE <1>2
  <2>1. frames \in Seq([modcod : Modcods, at : Nat])
    <3> DEFINE F == [modcod : Modcods, at : Nat]
    <3>1. frames \in [1 .. MaxFrames -> F] /\ MaxFrames \in Nat
      BY ConstantTypes DEF Types, Contiguous
    <3> HIDE DEF F
    <3>2. frames \in Seq(F)
      BY <3>1
    <3> QED BY <3>2 DEF F
  <2>2. out \in Stream
    BY DEF Types, Stream, Tag
  <2> QED BY <2>1, <2>2 DEF Types, TypeOK
<1> QED BY <1>1, <1>2, NextTypes, PTL DEF Spec

-----------------------------------------------------------------------------
(***************************************************************************)
(* What any step does to the stream and to the frames named.               *)
(***************************************************************************)
Chunk == \/ \E n \in ChunkSizes : SyncSearch(n)
         \/ \E n \in ChunkSizes, sof \in BOOLEAN, noise \in Noise : SyncLocked(n, sof, noise)

\* A chunk is put behind what is written, with headers as its tags unless one is
\* garbled; only a frame that begins with it is named, and its tag is put.
LEMMA ChunkOutcome ==
    ASSUME Types, Chunk
    PROVE  /\ Total < Total' /\ chunk'.at = Total /\ out'.read = out.read
           /\ UNCHANGED <<frames, demod, batch>>
           /\ out.tags \subseteq out'.tags
           /\ \A t \in out'.tags \ out.tags : out.read =< t.at
           /\ garbled => garbled'
           /\ named' \subseteq named \union Beginning({Total})
           /\ ~garbled' => \A t \in out'.tags \ out.tags : \E j \in 1 .. MaxFrames :
                              t.at = frames[j].at /\ t.modcod = frames[j].modcod
           /\ named' # named /\ out.read =< Total => \E t \in out'.tags : t.at = Total
<1> DEFINE P ==
           /\ Total < Total' /\ chunk'.at = Total /\ out'.read = out.read
           /\ UNCHANGED <<frames, demod, batch>>
           /\ out.tags \subseteq out'.tags
           /\ \A t \in out'.tags \ out.tags : out.read =< t.at
           /\ garbled => garbled'
           /\ named' \subseteq named \union Beginning({Total})
           /\ ~garbled' => \A t \in out'.tags \ out.tags : \E j \in 1 .. MaxFrames :
                              t.at = frames[j].at /\ t.modcod = frames[j].modcod
           /\ named' # named /\ out.read =< Total => \E t \in out'.tags : t.at = Total
<1>1. Total \in Nat /\ ChunkSizes \subseteq Nat \ {0}
  BY ConstantTypes, FramesType
<1>2. ASSUME NEW n \in ChunkSizes, SyncSearch(n)
      PROVE  P
  <2>1. n \in Nat /\ out' = Written(out, n, FramerTags(n))
    BY <1>1, <1>2 DEF SyncSearch
  <2>2. /\ Total' = Total + n /\ out'.read = out.read
        /\ out'.tags = out.tags \union {t \in FramerTags(n) : t.at >= out.read}
    BY <2>1, FramerTagsType, WrittenOutcome
  <2>3. chunk'.at = Total /\ UNCHANGED <<frames, demod, batch, named, garbled>>
    BY <1>2 DEF SyncSearch
  <2> QED BY <1>1, <2>1, <2>2, <2>3, FramerTagsType
<1>3. ASSUME NEW n \in ChunkSizes, NEW sof \in BOOLEAN, NEW noise \in Noise,
             SyncLocked(n, sof, noise)
      PROVE  P
  <2>0. /\ n \in Nat /\ Total < Total + n
        /\ chunk'.at = Total /\ UNCHANGED <<frames, demod, batch>>
    <3>1. chunk'.at = Total
      BY <1>3 DEF SyncLocked
    <3>2. UNCHANGED <<frames, demod, batch>>
      BY <1>3 DEF SyncLocked
    <3> QED BY <1>1, <3>1, <3>2
  <2>1. CASE out' = Written(out, n, FramerTags(n)) /\ UNCHANGED <<named, garbled>>
    <3>1. /\ Total' = Total + n /\ out'.read = out.read
          /\ out'.tags = out.tags \union {t \in FramerTags(n) : t.at >= out.read}
      BY <2>0, <2>1, FramerTagsType, WrittenOutcome
    <3> QED BY <1>1, <2>0, <2>1, <3>1, FramerTagsType
  <2>2. ASSUME NEW h \in ReadHeader(noise),
               out' = Written(out, n, FramerTags(n) \union {[at |-> Total, modcod |-> h[1]]}),
               named' = named \union Beginning({Total}),
               garbled' = (garbled \/ \A j \in Beginning({Total}) : frames[j].modcod # h[1])
        PROVE  /\ Total' = Total + n /\ out'.read = out.read
               /\ out.tags \subseteq out'.tags
               /\ \A t \in out'.tags \ out.tags : out.read =< t.at
               /\ ~garbled' => \A t \in out'.tags \ out.tags : \E j \in 1 .. MaxFrames :
                                  t.at = frames[j].at /\ t.modcod = frames[j].modcod
               /\ out.read =< Total => \E t \in out'.tags : t.at = Total
    <3> DEFINE own == [at |-> Total, modcod |-> h[1]]
               put == FramerTags(n) \union {own}
    <3>1. own.at = Total /\ own.modcod = h[1] /\ own \in Tag
      BY <1>1, ReadHeaderType DEF Tag
    <3>2. put \in SUBSET Tag
      BY <2>0, <3>1, FramerTagsType
    <3> HIDE DEF own
    <3>3. /\ Total' = Total + n /\ out'.read = out.read
          /\ out'.tags = out.tags \union {t \in put : t.at >= out.read}
      BY <2>0, <2>2, <3>2, WrittenOutcome DEF own
    <3>4. ASSUME ~garbled'
          PROVE  \E j \in 1 .. MaxFrames : own.at = frames[j].at /\ own.modcod = frames[j].modcod
      <4>1. PICK j \in Beginning({Total}) : frames[j].modcod = h[1]
        BY <2>2, <3>4
      <4>2. j \in 1 .. MaxFrames /\ frames[j].at = Total
        BY FramesType DEF Beginning
      <4> QED BY <3>1, <4>1, <4>2
    <3>5. ~garbled' => \A t \in out'.tags \ out.tags : \E j \in 1 .. MaxFrames :
                          t.at = frames[j].at /\ t.modcod = frames[j].modcod
      BY <2>0, <3>3, <3>4, FramerTagsType
    <3>6. out.read =< Total => own \in out'.tags
      BY <3>1, <3>3
    <3> QED BY <3>1, <3>3, <3>5, <3>6
  <2>3. CASE \E h \in ReadHeader(noise) :
               /\ out' = Written(out, n, FramerTags(n) \union {[at |-> Total, modcod |-> h[1]]})
               /\ named' = named \union Beginning({Total})
               /\ garbled' = (garbled \/ \A j \in Beginning({Total}) : frames[j].modcod # h[1])
    BY <2>0, <2>2, <2>3
  <2> HIDE DEF P
  <2> QED BY <1>3, <2>1, <2>3 DEF SyncLocked
<1>4. P
  <2> HIDE DEF P
  <2> QED BY <1>2, <1>3 DEF Chunk
<1> QED BY <1>4

\* A frame that is named was named before or begins with the chunk.
LEMMA NamedOutcome ==
    ASSUME Types, Order, Chunk, NEW j \in named'
    PROVE  /\ j \in 1 .. MaxFrames /\ frames[j].at =< Total
           /\ j \notin named => named' # named /\ frames[j].at = Total
<1>1. named' \subseteq named \union Beginning({Total})
  BY ChunkOutcome
<1>2. j \in Beginning({Total}) => j \in 1 .. MaxFrames /\ frames[j].at = Total
  BY FramesType DEF Beginning
<1>3. j \in named => j \in 1 .. MaxFrames /\ frames[j].at < Total
  BY DEF Types, Order
<1>4. j \in named \/ j \in Beginning({Total})
  BY <1>1
<1>5. j \notin named => named' # named
  OBVIOUS
<1>6. \A i \in 1 .. MaxFrames : frames[i].at \in Nat /\ Total \in Nat
  BY FramesType
<1> HIDE DEF Total
<1> QED BY <1>2, <1>3, <1>4, <1>5, <1>6

\* A batch is taken from what is there, and shows all of it.
LEMMA BatchOutcome ==
    ASSUME Types, NEW n, Demodulate(n)
    PROVE  /\ Total' = Total /\ out.read < out'.read /\ out'.read =< Total
           /\ out'.tags = {t \in out.tags : t.at >= out'.read}
           /\ batch'.at + batch'.seen = Total
           /\ demod' \in Newest(out, demod)
           /\ UNCHANGED <<frames, sync, chunk, named, garbled, lost, wide>>
<1>1. n \in 1 .. Available(out) /\ out' = Consumed(out, n)
  BY DEF Demodulate
<1>2. /\ Total' = Total /\ out'.read = out.read + n /\ out'.read =< Total
      /\ out'.tags = {t \in out.tags : t.at >= out.read + n}
  BY <1>1, ConsumedOutcome
<1>3. out.read \in Nat /\ Total \in Nat /\ n >= 1 /\ n \in Int
  BY <1>1, FramesType DEF Available, Total
<1>4. batch'.at + batch'.seen = Total
  <2>1. batch'.at = out.read /\ batch'.seen = Available(out)
    BY DEF Demodulate
  <2> QED BY <1>3, <2>1 DEF Available, Total
<1>5. demod' \in Newest(out, demod)
  BY DEF Demodulate
<1>6. UNCHANGED <<frames, sync, chunk, named, garbled, lost, wide>>
  BY DEF Demodulate
<1> QED BY <1>2, <1>3, <1>4, <1>5, <1>6

LEMMA NextOrder == Types /\ Order /\ [Next]_vars => Order'
<1> SUFFICES ASSUME Types, Order, [Next]_vars PROVE Order'
  OBVIOUS
<1>0. Types'
  BY NextTypes
<1>1. /\ Total \in Nat /\ Total' \in Nat
      /\ \A j \in 1 .. MaxFrames : frames[j].at \in Nat
  BY <1>0, FramesType DEF Types, Total
<1>2. CASE Chunk
  <2>1. \A j \in Beginning({Total}) : frames[j].at = Total
    BY DEF Beginning
  <2>2. ASSUME NEW j \in named' PROVE frames'[j].at < Total'
    <3>1. frames' = frames /\ Total < Total' /\ j \in named \union Beginning({Total})
      BY <1>2, ChunkOutcome
    <3>2. j \in 1 .. MaxFrames
      BY <3>1, FramesType DEF Types
    <3>3. frames[j].at =< Total
      BY <1>1, <2>1, <3>1, <3>2 DEF Order
    <3> QED BY <1>1, <3>1, <3>2, <3>3
  <2>3. out'.read =< Total' /\ chunk'.at =< Total'
    BY <1>1, <1>2, ChunkOutcome DEF Order, Types
  <2>4. batch'.at + batch'.seen =< Total'
    BY <1>1, <1>2, ChunkOutcome DEF Order, Types
  <2> QED BY <2>2, <2>3, <2>4 DEF Order
<1>3. ASSUME NEW n, Demodulate(n) PROVE Order'
  <2>1. named' = named /\ frames' = frames /\ chunk' = chunk /\ Total' = Total
    BY <1>3, BatchOutcome
  <2>2. out'.read =< Total /\ batch'.at + batch'.seen =< Total
    BY <1>1, <1>3, BatchOutcome
  <2> QED BY <2>1, <2>2 DEF Order
<1>4. CASE UNCHANGED vars
  BY <1>4 DEF vars, Order, Total
<1> QED BY <1>2, <1>3, <1>4 DEF Next, Chunk

-----------------------------------------------------------------------------
(***************************************************************************)
(* The search.                                                             *)
(***************************************************************************)
LEMMA NextNoSofLost == Types /\ NoSofLost /\ [Next]_vars => NoSofLost'
<1> SUFFICES ASSUME Types, NoSofLost, [Next]_vars PROVE NoSofLost'
  OBVIOUS
<1>1. ASSUME NEW n \in ChunkSizes, SyncSearch(n), Buffered(n) >= 2 * Header, SearchInVain(n)
      PROVE  NoSofLost'
  <2>1. SUFFICES ASSUME ~wide' PROVE lost' = {}
    BY DEF NoSofLost
  <2>2. wide' = (wide \/ Buffered(n) > SearchSpan)
    BY <1>1 DEF SyncSearch
  <2>3. lost = {} /\ ~(Buffered(n) > SearchSpan)
    BY <2>1, <2>2 DEF NoSofLost
  <2>4. /\ n \in Nat /\ Total \in Nat /\ sync.kept \in Nat /\ Buffered(n) \in Nat
        /\ SearchStart \in Int /\ Buffered(n) = sync.kept + n /\ SearchStart = Total - sync.kept
    <3>1. n \in Nat /\ Header \in Nat
      BY ConstantTypes
    <3>2. sync.kept \in Nat
      BY <3>1 DEF Types
    <3>3. Total \in Nat
      BY FramesType
    <3> HIDE DEF Total
    <3> QED BY <3>1, <3>2, <3>3 DEF Buffered, SearchStart
  <2>5. Searched(n) = 0 .. Buffered(n) - Sof - 1
    <3>1. SearchSpan \in Nat /\ (Buffered(n) < SearchSpan \/ Buffered(n) = SearchSpan)
      BY <2>3, <2>4, ConstantTypes
    <3> QED BY <3>1 DEF Searched
  <2>6. Retained(n) = Header
    BY <1>1, <2>4, ConstantTypes DEF Retained
  <2>7. ASSUME NEW s \in Dropped(n) PROVE s - SearchStart \in Searched(n)
    <3>1. Dropped(n) = SearchStart .. Total + n - Header - 1
      BY <2>6 DEF Dropped
    <3>2. s \in Int /\ SearchStart =< s /\ s =< Total + n - Header - 1
      BY <2>4, <3>1, ConstantTypes
    <3>3. s - SearchStart \in Int /\ 0 =< s - SearchStart /\ s - SearchStart =< Buffered(n) - Sof - 1
      BY <2>4, <3>2, ConstantTypes
    <3>4. Buffered(n) - Sof - 1 \in Int
      BY <2>4, ConstantTypes
    <3> HIDE DEF SearchStart
    <3> QED BY <2>5, <3>3, <3>4
  <2>8. lost' = lost \union {s \in Dropped(n) :
                               Beginning({s}) # {} /\ s - SearchStart \notin Searched(n)}
    BY <1>1 DEF SearchInVain
  <2> QED BY <2>3, <2>7, <2>8
<1>2. CASE UNCHANGED lost /\ (wide => wide')
  BY <1>2 DEF NoSofLost
<1>3. ASSUME NEW n \in ChunkSizes, SyncSearch(n)
      PROVE  NoSofLost'
  BY <1>1, <1>2, <1>3 DEF SyncSearch, Types
<1>4. ASSUME NEW n \in ChunkSizes, NEW sof \in BOOLEAN, NEW noise \in Noise,
             SyncLocked(n, sof, noise)
      PROVE  NoSofLost'
  BY <1>2, <1>4 DEF SyncLocked
<1>5. ASSUME NEW n, Demodulate(n) PROVE NoSofLost'
  BY <1>2, <1>5 DEF Demodulate
<1>6. CASE UNCHANGED vars
  BY <1>2, <1>6 DEF vars
<1> QED BY <1>3, <1>4, <1>5, <1>6 DEF Next

\* As long as the search buffer fits the span that is searched, no start of frame
\* is dropped without having been searched: for every span, header and cutting.
THEOREM SearchLosesNothing == Spec => []NoSofLost
<1>1. Init => Types /\ NoSofLost
  BY InitTypes DEF Init, NoSofLost
<1> QED BY <1>1, NextTypes, NextNoSofLost, PTL DEF Spec

-----------------------------------------------------------------------------
(***************************************************************************)
(* The pilot loop.                                                         *)
(***************************************************************************)
LEMMA NextAveragesPilots == Pilots /\ Types /\ AveragesPilots /\ [Next]_vars => AveragesPilots'
<1> SUFFICES ASSUME Pilots, Types, AveragesPilots, [Next]_vars PROVE AveragesPilots'
  OBVIOUS
<1>1. ASSUME NEW n \in ChunkSizes, SyncSearch(n) PROVE AveragesPilots'
  BY <1>1 DEF SyncSearch, AveragesPilots
<1>2. ASSUME NEW n \in ChunkSizes, NEW sof \in BOOLEAN, NEW noise \in Noise,
             SyncLocked(n, sof, noise)
      PROVE  AveragesPilots'
  <2> DEFINE start == IF sof THEN Total ELSE sync.start
  <2>1. chunk' = [at |-> Total, n |-> n, sof |-> sof, noise |-> noise,
                  averaged |-> Averaged(n, start)]
    BY <1>2 DEF SyncLocked
  <2>2. frames' = frames
    BY <1>2 DEF SyncLocked
  <2>3. /\ chunk'.at = Total /\ chunk'.n = n /\ chunk'.sof = sof
        /\ chunk'.averaged = Averaged(n, start)
    BY <2>1
  <2>4. SUFFICES ASSUME sof,
                        NEW j \in Beginning({Total}),
                        n =< FrameSize(frames[j].modcod),
                        NEW s \in Averaged(n, Total)
                 PROVE  s - Total \in PilotsSent(frames[j].modcod)
    BY <2>2, <2>3 DEF AveragesPilots, Opening, Beginning
  <2>5. n \in Nat /\ Total \in Nat /\ j \in 1 .. MaxFrames /\ frames[j].modcod \in Modcods
    BY ConstantTypes, FramesType
  <2>6. PICK p \in PilotsExpected(sync.cached) : s = Total + p /\ s + PilotLen =< Total + n
    BY <2>4 DEF Averaged
  <2>7. PICK k \in 1 .. BlocksExpected(sync.cached) : p = BlockAt(k)
    BY DEF PilotsExpected
  <2>8. k \in Nat /\ k >= 1
    <3>1. sync.cached \in Modcods
      BY <2>4 DEF Types, Averaged
    <3>2. Slots(sync.cached) \in Nat /\ PilotPeriod \in Nat \ {0}
      BY <3>1, WholeSlots, PlFrameAssumption
    <3>3. BlocksExpected(sync.cached) \in Int
      BY <3>2 DEF BlocksExpected
    <3> QED BY <3>3
  <2>9. BlockAt(k) \in Int
    <3>1. PilotPeriod * Slot \in Nat
      BY PlFrameAssumption
    <3>2. k * (PilotPeriod * Slot) \in Nat /\ (k - 1) * PilotLen \in Nat
      BY <2>8, <3>1, ConstantTypes
    <3> QED BY <3>2, ConstantTypes DEF BlockAt
  <2>10. BlockAt(k) + PilotLen =< FrameSize(frames[j].modcod)
    <3>1. FrameSize(frames[j].modcod) \in Nat
      BY <2>5, FrameSizeType
    <3>2. s = Total + BlockAt(k)
      BY <2>6, <2>7
    <3>3. BlockAt(k) + PilotLen =< n
      BY <2>5, <2>6, <2>9, <3>2, ConstantTypes
    <3> QED BY <2>4, <2>5, <2>9, <3>1, <3>3, ConstantTypes
  <2>11. BlockAt(k) \in PilotsSent(frames[j].modcod)
    BY <2>5, <2>8, <2>10, FittingBlockIsSent
  <2> QED BY <2>5, <2>6, <2>7, <2>9, <2>11
<1>3. ASSUME NEW n, Demodulate(n) PROVE AveragesPilots'
  BY <1>3 DEF Demodulate, AveragesPilots, Opening, Beginning
<1>4. CASE UNCHANGED vars
  BY <1>4 DEF vars, AveragesPilots, Opening, Beginning
<1> QED BY <1>1, <1>2, <1>3, <1>4 DEF Next

\* When the framer inserts pilots, what is averaged as pilots in a chunk that is
\* part of a frame are pilots, although the positions are those of another MODCOD:
\* for every table of constellations and every layout of slots and blocks.
THEOREM PilotsAreAveraged ==
    ASSUME Pilots
    PROVE  Spec => []AveragesPilots
<1>1. Init => Types /\ AveragesPilots
  BY InitTypes DEF Init, AveragesPilots
<1>2. Types /\ AveragesPilots /\ [Next]_vars => AveragesPilots'
  BY NextAveragesPilots
<1> QED BY <1>1, <1>2, NextTypes, PTL DEF Spec

-----------------------------------------------------------------------------
(***************************************************************************)
(* The header.                                                             *)
(***************************************************************************)
LEMMA NextHeaderSurvives == Types /\ Order /\ HeaderSurvives /\ [Next]_vars => HeaderSurvives'
<1> SUFFICES ASSUME Types, Order, HeaderSurvives, [Next]_vars PROVE HeaderSurvives'
  OBVIOUS
<1>0. Total \in Nat /\ \A j \in 1 .. MaxFrames : frames[j].at \in Nat
  BY FramesType
\* A chunk whose frame is not named.
<1>1. ASSUME chunk'.at = Total, UNCHANGED <<frames, named>> PROVE HeaderSurvives'
  <2>1. \A j \in Opening' : frames[j].at = Total
    BY <1>1 DEF Opening, Beginning
  <2>2. \A j \in named : frames[j].at # Total
    BY <1>0 DEF Order, Types
  <2> QED BY <1>1, <2>1, <2>2 DEF HeaderSurvives
<1>2. ASSUME NEW n \in ChunkSizes, SyncSearch(n) PROVE HeaderSurvives'
  BY <1>1, <1>2 DEF SyncSearch
<1>3. ASSUME NEW n \in ChunkSizes, NEW sof \in BOOLEAN, NEW noise \in Noise,
             SyncLocked(n, sof, noise)
      PROVE  HeaderSurvives'
  <2>1. chunk'.at = Total /\ chunk'.noise = noise /\ frames' = frames
    BY <1>3 DEF SyncLocked
  <2>2. CASE UNCHANGED named
    BY <1>1, <2>1, <2>2
  <2>3. CASE ~ UNCHANGED named
    <3>1. PICK h \in ReadHeader(noise) : sync'.cached = h[1] /\ sync'.pilots = h[2]
      <4>1. PICK h \in ReadHeader(noise), start \in Nat :
               sync' = [sync EXCEPT !.start = start, !.cached = h[1], !.pilots = h[2]]
        BY <1>0, <1>3, <2>3 DEF SyncLocked, Types
      <4> QED BY <4>1 DEF Types
    <3>2. SUFFICES ASSUME NEW j \in Beginning({Total}), \A b \in PlsBits : noise[b] =< 3
                   PROVE  sync'.cached = frames[j].modcod /\ sync'.pilots = Pilots
      BY <2>1 DEF HeaderSurvives, Opening, Beginning
    <3>3. PICK i \in Beginning({Total}) :
             h = <<DecodedModcod(Ones(frames[i].modcod, noise)),
                   DecodedPilots(Ones(frames[i].modcod, noise))>>
      BY <3>1, <3>2 DEF ReadHeader
    <3>4. /\ i \in 1 .. MaxFrames /\ j \in 1 .. MaxFrames
          /\ frames[i].at = Total /\ frames[j].at = Total /\ frames[j].modcod \in Modcods
      BY FramesType DEF Beginning
    <3>5. i = j
      <4>1. FrameSize(frames[j].modcod) \in Nat /\ FrameSize(frames[j].modcod) > 0
        BY <3>4, FrameSizeType
      <4>2. frames[j].at =< frames[i].at /\ frames[i].at < frames[j].at + FrameSize(frames[j].modcod)
        BY <1>0, <3>4, <4>1
      <4> QED BY <3>4, <4>2, OneFrameAt DEF Types
    <3>6. noise \in [PlsBits -> 0 .. Copies]
      BY ConstantTypes
    <3> QED BY <3>1, <3>2, <3>3, <3>4, <3>5, <3>6, HeaderIsReadAsSent
  <2> QED BY <2>2, <2>3
<1>4. ASSUME NEW n, Demodulate(n) PROVE HeaderSurvives'
  BY <1>4 DEF Demodulate, HeaderSurvives, Opening, Beginning
<1>5. CASE UNCHANGED vars
  BY <1>5 DEF vars, HeaderSurvives, Opening, Beginning
<1> QED BY <1>2, <1>3, <1>4, <1>5 DEF Next

\* A header with no more than three wrong copies of each bit is read as it was
\* sent, for every MODCOD of the standard, with pilots and without.
THEOREM HeaderIsRead == Spec => []HeaderSurvives
<1>1. Init => Types /\ Order /\ HeaderSurvives
  BY InitTypes DEF Init, HeaderSurvives
<1> QED BY <1>1, NextTypes, NextOrder, NextHeaderSurvives, PTL DEF Spec

-----------------------------------------------------------------------------
(***************************************************************************)
(* The demodulator.                                                        *)
(***************************************************************************)
LEMMA NextTags == Types /\ Order /\ Tags /\ [Next]_vars => Tags'
<1> SUFFICES ASSUME Types, Order, Tags, [Next]_vars PROVE Tags'
  OBVIOUS
<1>0. /\ Total \in Nat /\ out.read \in Nat
      /\ \A j \in 1 .. MaxFrames : frames[j].at \in Nat
      /\ \A j \in named : j \in 1 .. MaxFrames
  BY FramesType DEF Types
<1>1. CASE Chunk
  <2>1. /\ out'.read = out.read /\ frames' = frames /\ out.tags \subseteq out'.tags
        /\ garbled => garbled' /\ named' \subseteq named \union Beginning({Total})
    BY <1>1, ChunkOutcome
  <2>2. ~garbled' => \A t \in out'.tags \ out.tags : \E j \in 1 .. MaxFrames :
                        t.at = frames[j].at /\ t.modcod = frames[j].modcod
    BY <1>1, ChunkOutcome
  <2>3. named' # named /\ out.read =< Total => \E t \in out'.tags : t.at = Total
    BY <1>1, ChunkOutcome
  <2>4. /\ \A t \in out'.tags : out'.read =< t.at
        /\ ~garbled' => \A t \in out'.tags : \E j \in 1 .. MaxFrames :
                           t.at = frames'[j].at /\ t.modcod = frames'[j].modcod
    BY <1>1, <2>1, <2>2, ChunkOutcome DEF Tags
  <2>5. ASSUME NEW j \in named', out'.read =< frames'[j].at
        PROVE  \E t \in out'.tags : t.at = frames'[j].at
    <3>1. CASE j \in named
      BY <2>1, <2>5, <3>1 DEF Tags
    <3>2. CASE j \notin named
      <4>1. named' # named /\ frames[j].at = Total
        BY <1>1, <2>5, <3>2, NamedOutcome
      <4> QED BY <2>1, <2>3, <2>5, <4>1
    <3> QED BY <3>1, <3>2
  <2> QED BY <2>4, <2>5 DEF Tags
<1>2. ASSUME NEW n, Demodulate(n) PROVE Tags'
  <2>1. /\ frames' = frames /\ named' = named /\ garbled' = garbled
        /\ out'.tags = {t \in out.tags : t.at >= out'.read}
    BY <1>2, BatchOutcome
  <2>2. out'.read \in Nat /\ out.read =< out'.read
    <3>1. Types' /\ out.read < out'.read
      BY <1>2, DemodulateTypes, BatchOutcome
    <3>2. out'.read \in Nat
      BY <3>1 DEF Types
    <3> QED BY <1>0, <3>1, <3>2
  <2>3. ASSUME NEW j \in named', out'.read =< frames'[j].at
        PROVE  \E t \in out'.tags : t.at = frames'[j].at
    <3>1. out.read =< frames[j].at /\ j \in named
      BY <1>0, <2>1, <2>2, <2>3
    <3>2. PICK t \in out.tags : t.at = frames[j].at
      BY <3>1 DEF Tags
    <3> QED BY <1>0, <2>1, <2>2, <2>3, <3>1, <3>2
  <2> QED BY <2>1, <2>3 DEF Tags
<1>3. CASE UNCHANGED vars
  BY <1>3 DEF vars, Tags
<1> QED BY <1>1, <1>2, <1>3 DEF Next, Chunk

\* A batch that is shown the last samples of a frame that was named goes over to it:
\* its tag is the last one in the window, or was read by an earlier batch that saw
\* no later one.
LEMMA BatchFollows ==
    ASSUME Types, Order, Tags, Followed, ~garbled, NEW n, Demodulate(n),
           NEW j \in named, Total =< End(j)
    PROVE  demod' = frames[j].modcod
<1>1. /\ j \in 1 .. MaxFrames /\ Total \in Nat /\ out.read \in Nat
      /\ frames[j].at \in Nat /\ frames[j].modcod \in Modcods
  BY FramesType DEF Types
<1>2. frames[j].at < Total
  BY DEF Order
<1>3. FrameSize(frames[j].modcod) \in Nat
  BY <1>1, FrameSizeType
\* A tag that waits, on the first sample of j or behind it, is of j.
<1>4. ASSUME NEW t \in Window(out), frames[j].at =< t.at
      PROVE  t.modcod = frames[j].modcod /\ t.at = frames[j].at
  <2>1. t \in out.tags /\ t.at < Total
    BY DEF Window, Total
  <2>2. PICK i \in 1 .. MaxFrames : t.at = frames[i].at /\ t.modcod = frames[i].modcod
    BY <2>1 DEF Tags
  <2>3. frames[i].at \in Nat
    BY FramesType
  <2>4. frames[j].at =< frames[i].at /\ frames[i].at < frames[j].at + FrameSize(frames[j].modcod)
    BY <1>1, <1>3, <1>4, <2>1, <2>2, <2>3 DEF End
  <2>5. i = j
    BY <1>1, <2>4, OneFrameAt DEF Types
  <2> QED BY <2>2, <2>5
<1>5. demod' \in Newest(out, demod)
  BY BatchOutcome
<1>6. CASE out.read =< frames[j].at
  <2>1. PICK t \in out.tags : t.at = frames[j].at
    BY <1>6 DEF Tags
  <2>2. t \in Window(out)
    BY <1>2, <2>1 DEF Window, Total
  <2>3. PICK u \in LastTags(out) : demod' = u.modcod
    BY <1>5, <2>2 DEF Newest
  <2>4. u \in Window(out) /\ t.at =< u.at
    BY <2>2 DEF LastTags
  <2> QED BY <1>4, <2>1, <2>3, <2>4
<1>7. CASE ~(out.read =< frames[j].at)
  <2>1. demod = frames[j].modcod
    BY <1>1, <1>7 DEF Followed
  <2>2. CASE Window(out) = {}
    BY <1>5, <2>1, <2>2 DEF Newest
  <2>3. CASE Window(out) # {}
    <3>1. PICK u \in LastTags(out) : demod' = u.modcod
      BY <1>5, <2>3 DEF Newest
    <3>2. u \in Window(out) /\ u \in out.tags
      BY DEF LastTags, Window
    <3>3. u.at \in Nat /\ out.read =< u.at
      BY <3>2, FramesType DEF Tags
    <3> QED BY <1>1, <1>4, <1>7, <3>1, <3>2, <3>3
  <2> QED BY <2>2, <2>3
<1> QED BY <1>6, <1>7

LEMMA NextFollowed == Types /\ Order /\ Tags /\ Followed /\ [Next]_vars => Followed'
<1> SUFFICES ASSUME Types, Order, Tags, Followed, [Next]_vars, ~garbled',
                    NEW j \in named', frames'[j].at < out'.read, Total' =< End(j)'
             PROVE  demod' = frames'[j].modcod
  BY DEF Followed
<1>1. /\ Total \in Nat /\ out.read \in Nat
      /\ \A i \in 1 .. MaxFrames : End(i) \in Nat /\ frames[i].at \in Nat
  BY FramesType, FrameSizeType DEF End
<1>2. CASE Chunk
  <2>1. /\ out'.read = out.read /\ frames' = frames /\ demod' = demod /\ Total < Total'
        /\ garbled => garbled'
    BY <1>2, ChunkOutcome
  <2>2. j \in 1 .. MaxFrames /\ frames[j].at < out.read /\ out.read =< Total
    BY <1>2, <2>1, NamedOutcome DEF Order
  <2>3. j \in named
    <3>1. frames[j].at # Total
      BY <1>1, <2>2
    <3> QED BY <1>2, <3>1, NamedOutcome
  <2>4. Total =< End(j)
    <3>1. End(j)' = End(j)
      BY <2>1 DEF End
    <3>2. Total' \in Nat
      BY NextTypes DEF Types, Total
    <3> QED BY <1>1, <2>1, <2>2, <3>1, <3>2
  <2> QED BY <2>1, <2>2, <2>3, <2>4 DEF Followed
<1>3. ASSUME NEW n, Demodulate(n) PROVE demod' = frames'[j].modcod
  <2>1. frames' = frames /\ named' = named /\ garbled' = garbled /\ Total' = Total
    BY <1>3, BatchOutcome
  <2>2. End(j)' = End(j)
    BY <2>1 DEF End
  <2> QED BY <1>3, <2>1, <2>2, BatchFollows
<1>4. CASE UNCHANGED vars
  <2>1. UNCHANGED <<frames, out, garbled, named, demod>>
    BY <1>4 DEF vars
  <2> QED BY <2>1 DEF Followed, Total, End
<1> QED BY <1>2, <1>3, <1>4 DEF Next, Chunk

LEMMA NextDemodFollows ==
    Types /\ Order /\ Tags /\ Followed /\ DemodFollowsHeader /\ [Next]_vars => DemodFollowsHeader'
<1> SUFFICES ASSUME Types, Order, Tags, Followed, DemodFollowsHeader, [Next]_vars, ~garbled',
                    NEW j \in named',
                    batch'.at + batch'.seen - 1
                       \in frames'[j].at .. frames'[j].at + FrameSize(frames'[j].modcod) - 1
             PROVE  demod' = frames'[j].modcod
  BY DEF DemodFollowsHeader
<1>1. /\ Total \in Nat
      /\ batch.at \in Nat /\ batch.seen \in Nat /\ batch'.at \in Nat /\ batch'.seen \in Nat
      /\ \A i \in 1 .. MaxFrames : /\ End(i) \in Nat /\ frames[i].at \in Nat
                                   /\ FrameSize(frames[i].modcod) \in Nat
  <2>1. batch.at \in Nat /\ batch.seen \in Nat /\ batch'.at \in Nat /\ batch'.seen \in Nat
    BY NextTypes DEF Types
  <2>2. Total \in Nat /\ \A i \in 1 .. MaxFrames : frames[i].at \in Nat /\ frames[i].modcod \in Modcods
    BY FramesType
  <2>3. \A i \in 1 .. MaxFrames : FrameSize(frames[i].modcod) \in Nat
    BY <2>2, FrameSizeType
  <2> QED BY <2>1, <2>2, <2>3 DEF End
<1>2. CASE Chunk
  <2>1. /\ frames' = frames /\ demod' = demod /\ batch' = batch
        /\ garbled => garbled'
    BY <1>2, ChunkOutcome
  <2>2. j \in 1 .. MaxFrames
    BY <1>2, NamedOutcome
  <2>3. frames[j].at < Total
    <3>1. batch.at + batch.seen =< Total
      BY DEF Order
    <3>2. frames[j].at =< batch.at + batch.seen - 1
      BY <1>1, <2>1, <2>2
    <3> QED BY <1>1, <2>2, <3>1, <3>2
  <2>4. j \in named
    <3>1. frames[j].at # Total
      BY <1>1, <2>2, <2>3
    <3> QED BY <1>2, <3>1, NamedOutcome
  <2> QED BY <2>1, <2>4 DEF DemodFollowsHeader
<1>3. ASSUME NEW n, Demodulate(n) PROVE demod' = frames'[j].modcod
  <2>1. /\ frames' = frames /\ named' = named /\ garbled' = garbled
        /\ batch'.at + batch'.seen = Total
    BY <1>3, BatchOutcome
  <2>2. j \in 1 .. MaxFrames
    BY <2>1 DEF Types
  <2>3. Total =< End(j)
    <3>1. Total - 1 =< frames[j].at + FrameSize(frames[j].modcod) - 1
      BY <1>1, <2>1, <2>2
    <3> QED BY <1>1, <2>2, <3>1 DEF End
  <2> QED BY <1>3, <2>1, <2>3, BatchFollows
<1>4. CASE UNCHANGED vars
  <2>1. UNCHANGED <<frames, batch, garbled, named, demod>>
    BY <1>4 DEF vars
  <2> QED BY <2>1 DEF DemodFollowsHeader
<1> QED BY <1>2, <1>3, <1>4 DEF Next, Chunk

\* However the chunks and the batches cut the stream, and whether the framer's own
\* tags arrive or not, the demodulator has gone over to the MODCOD of the frame
\* that the samples it was shown end in, if that frame's header was read and no
\* tag was wrong.
THEOREM DemodFollows == Spec => []DemodFollowsHeader
<1>1. Init => Types /\ Order /\ Tags /\ Followed /\ DemodFollowsHeader
  <2> SUFFICES ASSUME Init PROVE Tags /\ Followed /\ DemodFollowsHeader
    BY InitTypes
  <2>1. out.tags = {} /\ named = {}
    BY DEF Init, EmptyStream
  <2> QED BY <2>1 DEF Tags, Followed, DemodFollowsHeader
<1> QED BY <1>1, NextTypes, NextOrder, NextTags, NextFollowed, NextDemodFollows, PTL DEF Spec

=============================================================================
