------------------------------ MODULE TxChain ------------------------------
(***************************************************************************)
(* The transmit chain of the Python blocks (python/dvbs2acm):              *)
(*                                                                         *)
(*   bb_framer --toFec--> fec_encoder --toMod--> modulator --toPl-->       *)
(*   pl_framer                                                             *)
(*                                                                         *)
(* A change of MODCOD enters at the bb_framer as a message and travels     *)
(* down the chain as a "modcod" tag on an item of the stream.  Every block *)
(* is a thread of the scheduler: when it is called it sees all the items   *)
(* there are, takes the MODCOD of the last tag on them, moves the items to *)
(* a buffer of its own, and cuts at most one frame off that buffer.  A     *)
(* block that writes frames of up to n items asks the scheduler for room   *)
(* for n (set_output_multiple), and by the default forecast it is then     *)
(* called only when n items wait to be read.                               *)
(*                                                                         *)
(* No block sets a tag propagation policy.  The scheduler's default copies *)
(* the tags a block has read to the same offsets of its output, where they *)
(* meet the tags the block puts there itself.                              *)
(*                                                                         *)
(* Items are counted, not represented: a stream is the number of items     *)
(* written to and read from it with the tags not yet read, and a frame is  *)
(* known by the offset of its first item.  A MODCOD is named by the number *)
(* of the request that made it current, so that stale and new ones differ. *)
(*                                                                         *)
(* Not modelled: what the bits are, the pilots and the scrambling of the   *)
(* PL frame, and the tags nobody reads (frame_start, pilots).              *)
(***************************************************************************)
EXTENDS TagStream, Sequences

CONSTANTS
    Modcods,        \* the MODCODs requested
    InitialModcod,  \* initial_modcod, the same for all blocks
    BbFrame,        \* items of a BB frame, per MODCOD: 10 + _DFL_BYTES
    Kbch,           \* items of a BCH information block, per MODCOD
    Nldpc,          \* items of a codeword, the same for all MODCODs
    BitsPerSymbol,  \* per MODCOD; stands for its constellation as well
    MaxSymbols,     \* _MAX_SYMS_PER_FRAME, the output multiple of the modulator
    MaxPlFrame,     \* _MAX_PL_FRAME_SYMS, that of the pl_framer; the encoder's is
                    \* Nldpc
    MaxRequests,    \* bound on the messages of the controller, the initial
                    \* MODCOD included
    MaxBbFrames     \* bound on the BB frames of a behaviour

ASSUME ChainAssumption ==
    /\ InitialModcod \in Modcods
    /\ BbFrame \in [Modcods -> Nat \ {0}]
    /\ Kbch \in [Modcods -> Nat \ {0}]
    /\ BitsPerSymbol \in [Modcods -> Nat \ {0}]
    /\ Nldpc \in Nat \ {0} /\ MaxSymbols \in Nat \ {0} /\ MaxPlFrame \in Nat \ {0}
    /\ \A m \in Modcods : Nldpc % BitsPerSymbol[m] = 0
    /\ MaxRequests \in Nat \ {0} /\ MaxBbFrames \in Nat

VARIABLES
    requests,   \* MODCODs requested so far; current_modcod of the bb_framer is
                \* the last one
    toFec, toMod, toPl,   \* the streams: [written, read, tags]
    encoder,    \* [req, buf]: current_modcod and the length of _in_buf
    modulator,  \* [req, pending, buf], where pending 0 is None
    framer,     \* [req, buf] of the pl_framer
    framed,     \* history variable: for each BB frame, the request it was framed
                \* for [req] and the offset of its first item [at]
    codewords,  \* history variable: for each codeword, the request it was encoded
                \* for [req] and the offset behind its last information bit [end]
    mapped,     \* history variable: for each output of the modulator, the request
                \* [req], the offset of its first bit [bit] and symbol [at]
    frames      \* history variable: for each PL frame, the request its header
                \* names [req], the offset of its first symbol [at], its [size]

stages == <<toFec, toMod, toPl, encoder, modulator, framer>>
vars == <<requests, stages, framed, codewords, mapped, frames>>

Current == Len(requests)
MODCOD(r) == requests[r]

\* _n_data_syms
DataSymbols(m) == Nldpc \div BitsPerSymbol[m]

\* What the blocks begin with: request 1 is initial_modcod, which the flowgraph
\* hands to each of them.
BbFramerInit == requests = <<InitialModcod>>
FecEncoderInit == encoder = [req |-> 1, buf |-> 0]
ModulatorInit == modulator = [req |-> 1, pending |-> 0, buf |-> 0]
PlFramerInit == framer = [req |-> 1, buf |-> 0]

Init ==
    /\ BbFramerInit /\ FecEncoderInit /\ ModulatorInit /\ PlFramerInit
    /\ toFec = EmptyStream /\ toMod = EmptyStream /\ toPl = EmptyStream
    /\ framed = <<>> /\ codewords = <<>> /\ mapped = <<>> /\ frames = <<>>

-----------------------------------------------------------------------------
(***************************************************************************)
(* What the blocks and the scheduler do with the tags of a window.         *)
(***************************************************************************)
\* Slip: the first tag of the window counts.
Newest_First(s, r) ==
    IF Window(s) = {} THEN {r}
    ELSE {t.req : t \in {u \in Window(s) : \A v \in Window(s) : v.at >= u.at}}

\* The requests the last tag of the window can be of, r if there is no tag.
Newest(s, r) == IF Window(s) = {} THEN {r} ELSE {t.req : t \in LastTags(s)}

\* What the scheduler adds to the tags of an output.
Copied(input) == Window(input)

-----------------------------------------------------------------------------
(***************************************************************************)
(* The blocks.                                                             *)
(***************************************************************************)
\* A message of the controller.  The MODCODs it sends are those of the table,
\* which the clamp to 1 .. 28 leaves alone.
ModcodIn(m) ==
    /\ Len(requests) < MaxRequests
    /\ requests' = Append(requests, m)
    /\ UNCHANGED <<stages, framed, codewords, mapped, frames>>

\* The source repeats for ever, so that a BB frame can always be cut.
BbFramerWork ==
    /\ Len(framed) < MaxBbFrames
    /\ framed' = Append(framed, [req |-> Current, at |-> toFec.written])
    /\ toFec' = [toFec EXCEPT !.written = @ + BbFrame[MODCOD(Current)],
                              !.tags = @ \union {[at |-> toFec.written, req |-> Current]}]
    /\ UNCHANGED <<requests, toMod, toPl, encoder, modulator, framer, codewords, mapped, frames>>

FecEncoderWork ==
    LET buf == encoder.buf + Available(toFec) IN
    /\ Available(toFec) >= Nldpc
    /\ toFec' = Consumed(toFec, Available(toFec))
    /\ \E r \in Newest(toFec, encoder.req) :
          IF buf < Kbch[MODCOD(r)]
          THEN /\ encoder' = [req |-> r, buf |-> buf]
               /\ toMod' = Written(toMod, 0, Copied(toFec))
               /\ UNCHANGED codewords
          ELSE /\ encoder' = [req |-> r, buf |-> buf - Kbch[MODCOD(r)]]
               /\ toMod' = Written(toMod, Nldpc,
                                  {[at |-> toMod.written, req |-> r]} \union Copied(toFec))
               /\ codewords' = Append(codewords, [req |-> r, end |-> toFec.written - buf
                                                                      + Kbch[MODCOD(r)]])
    /\ UNCHANGED <<requests, toPl, framed, modulator, framer, mapped, frames>>

ModulatorWork ==
    LET buf == modulator.buf + Available(toMod) IN
    /\ Available(toMod) >= MaxSymbols
    /\ toMod' = Consumed(toMod, Available(toMod))
    /\ \E p \in Newest(toMod, modulator.pending) :
          IF buf < Nldpc
          THEN /\ modulator' = [modulator EXCEPT !.pending = p, !.buf = buf]
               /\ toPl' = Written(toPl, 0, Copied(toMod))
               /\ UNCHANGED mapped
          ELSE LET switch == p # 0 /\ MODCOD(p) # MODCOD(modulator.req)
                   r      == IF switch THEN p ELSE modulator.req
               IN  /\ modulator' = [req |-> r, pending |-> IF switch THEN 0 ELSE p,
                                    buf |-> buf - Nldpc]
                   /\ toPl' = Written(toPl, DataSymbols(MODCOD(r)),
                                      Copied(toMod) \union
                                      (IF switch THEN {[at |-> toPl.written, req |-> r]} ELSE {}))
                   /\ mapped' = Append(mapped, [req |-> r, bit |-> toMod.written - buf,
                                                at |-> toPl.written])
    /\ UNCHANGED <<requests, toFec, framed, encoder, framer, codewords, frames>>

PlFramerWork ==
    LET buf == framer.buf + Available(toPl) IN
    /\ Available(toPl) >= MaxPlFrame
    /\ toPl' = Consumed(toPl, Available(toPl))
    /\ \E r \in Newest(toPl, framer.req) :
          LET size == DataSymbols(MODCOD(r)) IN
          IF buf < size
          THEN framer' = [req |-> r, buf |-> buf] /\ UNCHANGED frames
          ELSE /\ framer' = [req |-> r, buf |-> buf - size]
               /\ frames' = Append(frames, [req |-> r, at |-> toPl.written - buf, size |-> size])
    /\ UNCHANGED <<requests, toFec, toMod, framed, encoder, modulator, codewords, mapped>>

Next ==
    \/ \E m \in Modcods : ModcodIn(m)
    \/ BbFramerWork \/ FecEncoderWork \/ ModulatorWork \/ PlFramerWork

Spec == Init /\ [][Next]_vars

-----------------------------------------------------------------------------
Streams == [written : Nat, read : Nat, tags : SUBSET [at : Nat, req : 1 .. MaxRequests]]

\* Type invariant; no buffer is ever cut below zero.
TypeOK ==
    /\ requests \in Seq(Modcods) /\ Len(requests) \in 1 .. MaxRequests
    /\ toFec \in Streams /\ toMod \in Streams /\ toPl \in Streams
    /\ Len(framed) =< MaxBbFrames /\ framed \in Seq([req : 1 .. Current, at : Nat])
    /\ encoder \in [req : 1 .. Current, buf : Nat]
    /\ modulator \in [req : 1 .. Current, pending : 0 .. Current, buf : Nat]
    /\ framer \in [req : 1 .. Current, buf : Nat]
    /\ codewords \in Seq([req : 1 .. Current, end : Nat])
    /\ mapped \in Seq([req : 1 .. Current, bit : Nat, at : Nat])
    /\ frames \in Seq([req : 1 .. Current, at : Nat, size : Nat])

\* PL frame j holds the symbols of codeword j, all of them and no others.
HoldsCodeword(j) ==
    /\ j \in DOMAIN mapped /\ j \in DOMAIN codewords
    /\ mapped[j].bit = (j - 1) * Nldpc
    /\ frames[j].at = mapped[j].at
    /\ frames[j].size = DataSymbols(MODCOD(mapped[j].req))

\* As long as the constellation stays the same, a PL frame is a codeword,
\* however many MODCODs are requested and however far the blocks fall behind.
FramesAreCodewords ==
    (\A r \in 1 .. Current : BitsPerSymbol[MODCOD(r)] = BitsPerSymbol[InitialModcod])
        => \A j \in DOMAIN frames : HoldsCodeword(j)

\* No bit is encoded for an earlier request than the one its BB frame was framed
\* for, although a BB frame may lie in the encoder's buffer for several calls and
\* the tags of several requests in one window; and the information blocks follow
\* one another with no bit left out.
NeverEncodedEarlier ==
    \A j \in DOMAIN codewords :
        /\ \A f \in DOMAIN framed :
               framed[f].at < codewords[j].end => framed[f].req =< codewords[j].req
        /\ codewords[j].end - (IF j = 1 THEN 0 ELSE codewords[j - 1].end)
               = Kbch[MODCOD(codewords[j].req)]

\* The comment in the modulator's general_work: a pending switch is applied "at
\* the frame boundary so the new constellation is used only for bits that were
\* encoded with it".
MappedAsEncoded ==
    \A j \in DOMAIN mapped :
        BitsPerSymbol[MODCOD(mapped[j].req)] = BitsPerSymbol[MODCOD(codewords[j].req)]

\* The comment in pl_framer_acm.h: "per-frame PLHEADER updated via stream tag".  At
\* the least a header names the MODCOD of some symbols given to the PL framer from
\* the first one of its frame on, and not one that was left behind before.
HeaderNamesMapping ==
    \A j \in DOMAIN frames :
        \E k \in DOMAIN mapped :
            /\ mapped[k].at + DataSymbols(MODCOD(mapped[k].req)) > frames[j].at
            /\ MODCOD(mapped[k].req) = MODCOD(frames[j].req)

=============================================================================
