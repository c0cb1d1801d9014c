------------------------------ MODULE RxChain ------------------------------
(***************************************************************************)
(* The receive chain of the Python blocks (python/dvbs2acm):               *)
(*                                                                         *)
(*   pl_sync --out--> demodulator --> fec_decoder                          *)
(*                                                                         *)
(* The channel gives the PL frames of the transmitter as one stream of     *)
(* samples, without marking where they begin.  pl_sync is called with      *)
(* chunks of it, of whatever length the scheduler chooses: it searches for *)
(* a start of frame (SOF), and from the first one it finds it descrambles, *)
(* decodes a header and tags the MODCOD at the start of every chunk.  As   *)
(* the descrambler starts anew with every chunk, what is read from a chunk *)
(* that does not begin with a frame may be anything.                       *)
(*                                                                         *)
(* Not modelled: what samples and LLRs are.  The carrier loop is reduced   *)
(* to the samples it takes for pilots, a header to the number of wrong     *)
(* copies of its bits.                                                     *)
(***************************************************************************)
EXTENDS PlFrame, TagStream, Sequences

CONSTANTS
    SearchSpan,     \* samples of the search buffer that are searched
    InitialModcod,  \* initial_modcod, the same for all blocks
    ChunkSizes,     \* lengths of the chunks pl_sync is given
    Batches,        \* lengths of the batches that fit the demodulator's output
    Decoys,         \* offsets at which other samples may be taken for a SOF
    Noise,          \* the wrong copies per bit of a header
    MaxFrames       \* number of PL frames of a behaviour

ASSUME RxAssumption ==
    /\ SearchSpan \in Nat /\ SearchSpan > 2 * Header
    /\ InitialModcod \in Modcods
    /\ ChunkSizes \subseteq Nat \ {0} /\ Batches \subseteq Nat \ {0} /\ Decoys \subseteq Nat
    /\ Noise \subseteq [PlsBits -> 0 .. Copies]
    /\ MaxFrames \in Nat \ {0}

\* A header is read as one of the MODCODs in use, as it is when all 28 are in use.
ASSUME DecodingAssumption ==
    \A m \in Modcods, noise \in Noise : DecodedModcod(Ones(m, noise)) \in Modcods

VARIABLES
    forwards,  \* whether the transmitter is in the same flowgraph, as in the
               \* loopback: then the scheduler copies the framer's own tags from
               \* block to block (the channel has block_tags off) as far as the
               \* demodulator; the receiver of another flowgraph gets samples only
    frames,    \* the PL frames on the channel: the MODCOD of each one and the
               \* offset [at] of its first sample
    sync,      \* of pl_sync: _locked, the length of _search_buf [kept],
               \* _frame_start_sample [start], _pilots_on, and the MODCOD
               \* _pilot_positions is cached for, 0 if there is none [cached]
    out,       \* samples of pl_sync; as many written as read, _total_samples
    llrs,      \* LLRs the demodulator has written
    demod,     \* current_modcod of the demodulator
    chunk,     \* history variable: of the last chunk, its offset [at] and length
               \* [n], whether a SOF was recognised at its start [sof], the header
               \* noise [noise], and the samples averaged as pilots [averaged]
    batch,     \* history variable: of the demodulator's last call, its offset
               \* [at], the samples it took [n] and those it saw [seen]
    named,     \* history variable: frames whose header was decoded
    garbled,   \* history variable: a tag was put that is no frame's header
    lost,      \* history variable: offsets of SOFs dropped without being searched
    wide,      \* history variable: the search buffer outgrew SearchSpan
    foreign    \* history variable: the demodulator took a sample that is no data

vars == <<forwards, frames, sync, out, llrs, demod, chunk, batch, named, garbled,
          lost, wide, foreign>>

Total == out.written
Sent == frames[MaxFrames].at + FrameSize(frames[MaxFrames].modcod)

NoNoise == [b \in PlsBits |-> 0]

\* What the pl_framer puts on the channel: frames of the MODCODs ms, one behind
\* the other.
Transmission(ms) ==
    LET at[j \in 1 .. MaxFrames] == IF j = 1 THEN 0 ELSE at[j - 1] + FrameSize(ms[j - 1])
    IN  [j \in 1 .. MaxFrames |-> [modcod |-> ms[j], at |-> at[j]]]

PlSyncInit == sync = [locked |-> FALSE, kept |-> 0, start |-> 0, pilots |-> TRUE, cached |-> 0]
DemodulatorInit == demod = InitialModcod

Init ==
    /\ forwards \in BOOLEAN
    /\ \E ms \in [1 .. MaxFrames -> Modcods] : frames = Transmission(ms)
    /\ PlSyncInit /\ DemodulatorInit
    /\ out = EmptyStream /\ llrs = 0
    /\ chunk = [at |-> 0, n |-> 0, sof |-> FALSE, noise |-> NoNoise, averaged |-> {}]
    /\ batch = [at |-> 0, n |-> 0, seen |-> 0]
    /\ named = {} /\ garbled = FALSE /\ lost = {} /\ wide = FALSE
    /\ foreign = FALSE

-----------------------------------------------------------------------------
\* The frames that begin with a sample of the set S.
Beginning(S) == {j \in DOMAIN frames : frames[j].at \in S}

\* The samples a chunk of n adds, and the tags the framer put on them.
Fresh(n) == Total .. Total + n - 1

FramerTags(n) ==
    IF forwards
    THEN {[at |-> frames[j].at, modcod |-> frames[j].modcod] : j \in Beginning(Fresh(n))}
    ELSE {}

-----------------------------------------------------------------------------
(***************************************************************************)
(* pl_sync before it is locked.                                            *)
(***************************************************************************)
\* The sample of the search buffer that comes first, and its length with the chunk.
SearchStart == Total - sync.kept
Buffered(n) == sync.kept + n

\* The offsets in the buffer at which the correlator looks.
Searched(n) ==
    0 .. (IF Buffered(n) < SearchSpan THEN Buffered(n) ELSE SearchSpan) - Sof - 1

Candidates(n) ==
    {o \in Searched(n) : SearchStart + o \in {frames[j].at : j \in DOMAIN frames} \/ o \in Decoys}

Lock(o) ==
    sync' = [sync EXCEPT !.locked = TRUE, !.start = Total + o, !.kept = 0]

\* Slip: nothing is kept for the next search.
Retained_Nothing(n) == 0

\* After a search in vain the last samples are kept.
Retained(n) == IF Buffered(n) < Header THEN Buffered(n) ELSE Header

Dropped(n) == SearchStart .. Total + n - Retained(n) - 1

SearchInVain(n) ==
    /\ sync' = [sync EXCEPT !.kept = Retained(n)]
    /\ lost' = lost \union {s \in Dropped(n) :
                               Beginning({s}) # {} /\ s - SearchStart \notin Searched(n)}

SyncSearch(n) ==
    /\ ~sync.locked
    /\ Total + n =< Sent
    /\ IF Buffered(n) >= 2 * Header
       THEN /\ wide' = (wide \/ Buffered(n) > SearchSpan)
            /\ \/ \E o \in Candidates(n) : Lock(o) /\ UNCHANGED lost
               \/ SearchInVain(n)
       ELSE /\ sync' = [sync EXCEPT !.kept = Buffered(n)]
            /\ UNCHANGED <<lost, wide>>
    /\ out' = Written(out, n, FramerTags(n))
    /\ chunk' = [at |-> Total, n |-> n, sof |-> FALSE, noise |-> NoNoise, averaged |-> {}]
    /\ UNCHANGED <<forwards, frames, llrs, demod, batch, named, garbled, foreign>>

-----------------------------------------------------------------------------
(***************************************************************************)
(* pl_sync when it is locked.                                              *)
(***************************************************************************)
\* The samples of a chunk of n that are averaged as pilots when the frame is
\* taken to begin at start: the first sample of each block that fits the chunk.
Averaged(n, start) ==
    IF ~sync.pilots \/ sync.cached = 0 THEN {}
    ELSE {s \in {start + p : p \in PilotsExpected(sync.cached)} :
             s >= Total /\ s + PilotLen =< Total + n}

\* What can be read at the start of a chunk as MODCOD and pilots flag: the header
\* where there is one, anything elsewhere.
ReadHeader(noise) ==
    IF Beginning({Total}) = {} THEN Modcods \X BOOLEAN
    ELSE {<<DecodedModcod(ones), DecodedPilots(ones)>> :
             ones \in {Ones(frames[j].modcod, noise) : j \in Beginning({Total})}}

\* The positions are those cached from the header before this one.
SyncLocked(n, sof, noise) ==
    LET start == IF sof THEN Total ELSE sync.start IN
    /\ sync.locked
    /\ Total + n =< Sent
    /\ sof => n >= Sof
    /\ noise # NoNoise => n >= Header /\ Beginning({Total}) # {}
    /\ chunk' = [at |-> Total, n |-> n, sof |-> sof, noise |-> noise,
                 averaged |-> Averaged(n, start)]
    /\ IF n < Header
       THEN /\ sync' = [sync EXCEPT !.start = start]
            /\ out' = Written(out, n, FramerTags(n))
            /\ UNCHANGED <<named, garbled>>
       ELSE \E h \in ReadHeader(noise) :
               /\ sync' = [sync EXCEPT !.start = start, !.cached = h[1], !.pilots = h[2]]
               /\ out' = Written(out, n, FramerTags(n) \union {[at |-> Total, modcod |-> h[1]]})
               /\ named' = named \union Beginning({Total})
               /\ garbled' = (garbled \/ \A j \in Beginning({Total}) : frames[j].modcod # h[1])
    /\ UNCHANGED <<forwards, frames, llrs, demod, batch, lost, wide, foreign>>

-----------------------------------------------------------------------------
(***************************************************************************)
(* The demodulator.                                                        *)
(***************************************************************************)
\* Slip: the first tag of the window counts.
Newest_First(s, m) ==
    IF Window(s) = {} THEN {m}
    ELSE {t.modcod : t \in {u \in Window(s) : \A v \in Window(s) : v.at >= u.at}}

\* The MODCODs the last tag of the window can be of, m if there is no tag.
Newest(s, m) == IF Window(s) = {} THEN {m} ELSE {t.modcod : t \in LastTags(s)}

\* Sample s carries data.
IsData(s) ==
    \E j \in DOMAIN frames :
        /\ s \in frames[j].at + Header .. frames[j].at + FrameSize(frames[j].modcod) - 1
        /\ \A p \in PilotsSent(frames[j].modcod) :
              s \notin frames[j].at + p .. frames[j].at + p + PilotLen - 1

\* The batch is what fits the output, the window all that is there.
Demodulate(n) ==
    /\ n \in 1 .. Available(out)
    /\ \E m \in Newest(out, demod) :
          /\ demod' = m
          /\ llrs' = llrs + n * BitsPerSymbol[m]
    /\ out' = Consumed(out, n)
    /\ batch' = [at |-> out.read, n |-> n, seen |-> Available(out)]
    /\ foreign' = (foreign \/ \E s \in out.read .. out.read + n - 1 : ~IsData(s))
    /\ UNCHANGED <<forwards, frames, sync, chunk, named, garbled, lost, wide>>

Next ==
    \/ \E n \in ChunkSizes : SyncSearch(n)
    \/ \E n \in ChunkSizes, sof \in BOOLEAN, noise \in Noise : SyncLocked(n, sof, noise)
    \/ \E n \in Batches \union {Available(out)} : Demodulate(n)

Spec == Init /\ [][Next]_vars

-----------------------------------------------------------------------------
Stream == [written : Nat, read : Nat, tags : SUBSET [at : Nat, modcod : Modcods]]

\* Type invariant; between two calls the search buffer is shorter than two headers.
TypeOK ==
    /\ forwards \in BOOLEAN
    /\ frames \in Seq([modcod : Modcods, at : Nat])
    /\ sync \in [locked : BOOLEAN, kept : 0 .. 2 * Header - 1, start : Nat,
                 pilots : BOOLEAN, cached : Modcods \union {0}]
    /\ out \in Stream /\ llrs \in Nat
    /\ demod \in Modcods

\* While the search buffer fits the span that is searched, a start of frame that
\* straddles two chunks, or two searches, is not lost: what is dropped has been
\* searched.
NoSofLost == ~wide => lost = {}

\* The frame that begins with the last chunk.
Opening == Beginning({chunk.at})

\* The pilot loop averages pilots: in a chunk that begins with a frame, is no
\* longer than it and is recognised, although the positions in use are those of
\* the header before, of another MODCOD.
AveragesPilots ==
    chunk.sof =>
        \A j \in Opening :
            chunk.n =< FrameSize(frames[j].modcod) =>
                \A s \in chunk.averaged : s - chunk.at \in PilotsSent(frames[j].modcod)

\* Three wrong copies of every bit of a header leave it readable.
HeaderSurvives ==
    \A j \in Opening :
        (\A b \in PlsBits : chunk.noise[b] =< 3) /\ j \in named /\ sync.locked
            => sync.cached = frames[j].modcod /\ sync.pilots = Pilots

\* The demodulator is never behind: when the samples it was shown end in a frame
\* whose header was read, it has gone over to the MODCOD of that frame, however the
\* chunks and its own batches cut the stream, as long as no tag is wrong.
DemodFollowsHeader ==
    \A j \in named :
        (/\ ~garbled
         /\ batch.at + batch.seen - 1
               \in frames[j].at .. frames[j].at + FrameSize(frames[j].modcod) - 1)
            => demod = frames[j].modcod

\* The class comment of fec_decoder_acm: the input is a "stream (64800 LLRs per
\* frame" ")", the LLRs of codewords and nothing else.
OnlyDataDecoded == llrs >= Nldpc => ~foreign

=============================================================================
