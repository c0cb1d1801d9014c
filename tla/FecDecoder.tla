----------------------------- MODULE FecDecoder -----------------------------
(***************************************************************************)
(* The fec_decoder_acm block (python/dvbs2acm/fec_decoder_acm_py.py): takes *)
(* all the LLRs of a call, cuts at most one codeword off the front of its  *)
(* buffer and reports what it thinks of it.                                *)
(*                                                                         *)
(* LLRs are counted in units of a part of a codeword and are known by the  *)
(* MODCOD they were demodulated with, every change of which is tagged, and *)
(* by whether one of them is smaller than 0.5 in absolute value.  The      *)
(* error counters, of which the LDPC and the BCH counter always agree, are *)
(* known by whether they are zero.                                         *)
(***************************************************************************)
EXTENDS Sequences, SequencesExt, Integers

CONSTANTS
    Modcods,        \* the MODCODs of the link
    Nldpc,          \* length of a codeword
    Kbch,           \* number of leading units of a codeword that hold information
    FirstModcod,    \* initial_modcod
    MaxCall,        \* bound on the units a call finds
    MaxBacklog,     \* bound on the units left in the buffer
    MaxBerBox       \* bound on the reports that wait for acm_feedback

ASSUME DecoderAssumption ==
    /\ Nldpc \in Nat \ {0} /\ Kbch \in [Modcods -> 1 .. Nldpc]
    /\ FirstModcod \in Modcods
    /\ {MaxCall, MaxBerBox} \subseteq Nat \ {0} /\ MaxBacklog \in Nat

VARIABLES
    modcod,   \* current_modcod
    buf,      \* _in_buf
    err,      \* _err_count > 0
    berBox,   \* reports in the queue of acm_feedback
    newest,   \* history variable: MODCOD of the last unit received
    crowded   \* history variable: a call has found more than a codeword

decVars == <<modcod, buf, err, berBox, newest, crowded>>

Unit == [mc : Modcods, weak : BOOLEAN]

DecInit ==
    /\ modcod = FirstModcod /\ buf = <<>> /\ err = FALSE
    /\ berBox = <<>> /\ newest = FirstModcod /\ crowded = FALSE

\* The MODCOD of the last tag among the units of a call, the current one if none of
\* them is tagged.
Followed(units) ==
    IF \E i \in DOMAIN units : units[i].mc # (IF i = 1 THEN newest ELSE units[i - 1].mc)
    THEN Last(units).mc ELSE modcod

\* Slip: a codeword is only cut when more than one is there.
Complete_More(llrs) == Len(llrs) > Nldpc

Complete(llrs) == Len(llrs) >= Nldpc

\* Slip: the tags are looked at when a codeword is cut.
Collect_Untagged(units) ==
    /\ ~Complete(buf \o units)
    /\ buf' = buf \o units
    /\ UNCHANGED <<modcod, err, berBox>>

\* general_work on a call that finds these units, no codeword being complete.
Collect(units) ==
    /\ ~Complete(buf \o units)
    /\ buf' = buf \o units
    /\ modcod' = Followed(units)
    /\ UNCHANGED <<err, berBox>>

\* Whether _ldpc_guided_decode and _bch_decode report the codeword at the front in
\* error: they look at the information part only, for the MODCOD followed by now.
Lost(llrs, mc) == \E i \in 1 .. Kbch[mc] : llrs[i].weak

\* general_work on a call that finds these units and completes a codeword.
CutOne(units) ==
    LET llrs == buf \o units
        mc   == Followed(units)
    IN  /\ Complete(llrs)
        /\ buf' = SubSeq(llrs, Nldpc + 1, Len(llrs))
        /\ modcod' = mc
        /\ err' = (err \/ Lost(llrs, mc))
        /\ berBox' = Append(berBox, [mc |-> mc, fer |-> err'])

Decode ==
    /\ Len(berBox) < MaxBerBox
    /\ \E units \in BoundedSeq(Unit, MaxCall) :
        /\ units # <<>> /\ Len(buf \o units) =< MaxBacklog + Nldpc
        /\ Collect(units) \/ CutOne(units)
        /\ newest' = Last(units).mc
        /\ crowded' = (crowded \/ Len(units) > Nldpc)

=============================================================================
