--------------------------- MODULE TxChainProofs ---------------------------
(***************************************************************************)
(* The transmit chain for every table of frame sizes, any number of        *)
(* requests and any speed of the blocks.                                   *)
(***************************************************************************)
EXTENDS TxChain, SequenceTheorems, TLAPS

-----------------------------------------------------------------------------
(***************************************************************************)
(* Multiples of a frame.                                                   *)
(***************************************************************************)
LEMMA OnTheGrid ==
    ASSUME NEW N \in Nat \ {0}, NEW a \in Nat, NEW b \in Nat, N * a =< N * b
    PROVE  a =< b
  <1> SUFFICES ASSUME a > b PROVE FALSE
    OBVIOUS
  <1>1. PICK d \in Nat : a = b + 1 + d
    OBVIOUS
  <1>2. N * a = N * b + N + N * d /\ N * d >= 0
    BY <1>1
  <1> QED BY <1>2

\* A frame has symbols.
LEMMA SomeSymbols ==
    ASSUME NEW m \in Modcods
    PROVE  DataSymbols(m) \in Nat \ {0}
  <1> DEFINE b == BitsPerSymbol[m]
             q == Nldpc \div b
  <1>1. b \in Nat \ {0} /\ Nldpc \in Nat \ {0} /\ Nldpc % b = 0
    BY ChainAssumption
  <1> HIDE DEF b
  <1>2. q \in Nat /\ Nldpc = b * q + (Nldpc % b)
    BY <1>1
  <1>3. q # 0
    <2> HIDE DEF q
    <2> QED BY <1>1, <1>2
  <1> QED BY <1>2, <1>3 DEF DataSymbols, b

-----------------------------------------------------------------------------
(***************************************************************************)
(* Streams whose tags are of the first R requests.                         *)
(***************************************************************************)
Tags(R) == [at : Nat, req : 1 .. R]

StreamsOf(R) ==
    {s \in [written : Nat, read : Nat, tags : SUBSET Tags(R)] : s.read =< s.written}

LEMMA Consuming ==
    ASSUME NEW R \in Nat, NEW s \in StreamsOf(R)
    PROVE  /\ Available(s) \in Nat
           /\ Consumed(s, Available(s)) \in StreamsOf(R)
           /\ Consumed(s, Available(s)).written = s.written
           /\ Consumed(s, Available(s)).read = s.written
           /\ Consumed(s, Available(s)).tags = {t \in s.tags : t.at >= s.written}
           /\ Window(s) \in SUBSET Tags(R)
  <1> DEFINE c == Consumed(s, Available(s))
  <1>1. /\ s \in [written : Nat, read : Nat, tags : SUBSET Tags(R)] /\ s.read =< s.written
        /\ s.written \in Nat /\ s.read \in Nat /\ s.tags \in SUBSET Tags(R)
    BY DEF StreamsOf
  <1>2. Available(s) \in Nat /\ s.read + Available(s) = s.written
    BY <1>1 DEF Available
  <1>3. c = [s EXCEPT !.read = s.written, !.tags = {t \in s.tags : t.at >= s.written}]
    BY <1>2 DEF Consumed
  <1>4. {t \in s.tags : t.at >= s.written} \in SUBSET Tags(R) /\ Window(s) \in SUBSET Tags(R)
    BY <1>1 DEF Window
  <1> HIDE DEF c
  <1>5. /\ c \in [written : Nat, read : Nat, tags : SUBSET Tags(R)]
        /\ c.written = s.written /\ c.read = s.written
        /\ c.tags = {t \in s.tags : t.at >= s.written}
    BY <1>1, <1>3, <1>4
  <1>6. c \in StreamsOf(R)
    BY <1>1, <1>5 DEF StreamsOf
  <1> QED BY <1>2, <1>4, <1>5, <1>6 DEF c

LEMMA Writing ==
    ASSUME NEW R \in Nat, NEW s \in StreamsOf(R), NEW n \in Nat,
           NEW T \in SUBSET Tags(R)
    PROVE  /\ Written(s, n, T) \in StreamsOf(R)
           /\ Written(s, n, T).written = s.written + n
           /\ Written(s, n, T).read = s.read
           /\ Written(s, n, T).tags = s.tags \union {t \in T : t.at >= s.read}
  <1> DEFINE w == Written(s, n, T)
             u == s.tags \union {t \in T : t.at >= s.read}
  <1>1. /\ s \in [written : Nat, read : Nat, tags : SUBSET Tags(R)] /\ s.read =< s.written
        /\ s.written \in Nat /\ s.read \in Nat /\ s.tags \in SUBSET Tags(R)
    BY DEF StreamsOf
  <1>2. w = [s EXCEPT !.written = s.written + n, !.tags = u]
    BY DEF Written
  <1>3. u \in SUBSET Tags(R) /\ s.written + n \in Nat
    BY <1>1
  <1> HIDE DEF w, u
  <1>4. /\ w \in [written : Nat, read : Nat, tags : SUBSET Tags(R)]
        /\ w.written = s.written + n /\ w.read = s.read /\ w.tags = u
    BY <1>1, <1>2, <1>3
  <1>5. w \in StreamsOf(R)
    BY <1>1, <1>4 DEF StreamsOf
  <1> QED BY <1>4, <1>5 DEF w, u

LEMMA Hearing ==
    ASSUME NEW R \in Nat, NEW s \in StreamsOf(R), NEW r, NEW q \in Newest(s, r)
    PROVE  q \in 1 .. R \/ q = r
  BY DEF StreamsOf, Tags, Newest, LastTags, Window

-----------------------------------------------------------------------------
(***************************************************************************)
(* The inductive invariant.                                                *)
(***************************************************************************)
OneConstellation ==
    \A r \in 1 .. Current : BitsPerSymbol[MODCOD(r)] = BitsPerSymbol[InitialModcod]

Size == DataSymbols(InitialModcod)

\* What a block knows is of a request that was made, what it holds it has read.
Types ==
    /\ requests \in Seq(Modcods) /\ Current \in 1 .. MaxRequests
    /\ toFec \in StreamsOf(Current) /\ toMod \in StreamsOf(Current)
    /\ toPl \in StreamsOf(Current)
    /\ framed \in Seq([req : 1 .. Current, at : Nat]) /\ Len(framed) =< MaxBbFrames
    /\ encoder \in [req : 1 .. Current, buf : Nat]
    /\ modulator \in [req : 1 .. Current, pending : 0 .. Current, buf : Nat]
    /\ framer \in [req : 1 .. Current, buf : Nat] /\ framer.buf =< toPl.read
    /\ codewords \in Seq([req : 1 .. Current, end : Nat])
    /\ mapped \in Seq([req : 1 .. Current, bit : Nat, at : Nat])
    /\ frames \in Seq([req : 1 .. Current, at : Nat, size : Nat])

\* Codewords have one length, so that the modulator cuts where they begin.
Grid ==
    /\ toMod.written = Nldpc * Len(codewords)
    /\ toMod.read = Nldpc * Len(mapped) + modulator.buf
    /\ \A j \in 1 .. Len(mapped) : mapped[j].bit = (j - 1) * Nldpc

\* With one constellation the PL framer cuts where the outputs begin.
Alike ==
    OneConstellation =>
        /\ toPl.written = Size * Len(mapped)
        /\ toPl.read = Size * Len(frames) + framer.buf
        /\ \A j \in 1 .. Len(mapped) : mapped[j].at = (j - 1) * Size
        /\ \A j \in 1 .. Len(frames) : frames[j].at = (j - 1) * Size /\ frames[j].size = Size

\* Where the information bits of the first n codewords end.
End(n) == IF n = 0 THEN 0 ELSE codewords[n].end

\* BB frames follow one another, with requests that do not go back.
InOrder ==
    \A f, g \in 1 .. Len(framed) :
        framed[f].at =< framed[g].at => framed[f].req =< framed[g].req

\* The encoder finds a tag for each BB frame it has not read, and for no other, and
\* has heard of those it has read.
Heard ==
    /\ \A f \in 1 .. Len(framed) :
          /\ framed[f].at < toFec.written
          /\ framed[f].at >= toFec.read => framed[f] \in toFec.tags
          /\ framed[f].at < toFec.read => framed[f].req =< encoder.req
    /\ \A t \in toFec.tags : t.at >= toFec.read /\ \E f \in 1 .. Len(framed) : t = framed[f]

\* It holds what it has read and not encoded.
Taken ==
    /\ toFec.read - encoder.buf = End(Len(codewords))
    /\ \A j \in 1 .. Len(codewords) : codewords[j].end =< toFec.read

IInv == Types /\ Grid /\ Alike /\ InOrder /\ Heard /\ Taken /\ NeverEncodedEarlier

-----------------------------------------------------------------------------
LEMMA Lengths ==
    ASSUME IInv
    PROVE  /\ Len(requests) \in Nat /\ Len(framed) \in Nat /\ Len(codewords) \in Nat
           /\ Len(mapped) \in Nat /\ Len(frames) \in Nat
           /\ Len(mapped) =< Len(codewords)
           /\ DOMAIN mapped = 1 .. Len(mapped) /\ DOMAIN codewords = 1 .. Len(codewords)
           /\ DOMAIN frames = 1 .. Len(frames) /\ DOMAIN framed = 1 .. Len(framed)
           /\ \A f \in 1 .. Len(framed) : framed[f].req \in 1 .. Current /\ framed[f].at \in Nat
           /\ \A j \in 1 .. Len(codewords) :
                 codewords[j].req \in 1 .. Current /\ codewords[j].end \in Nat
           /\ \A j \in 1 .. Len(mapped) :
                 mapped[j].req \in 1 .. Current /\ mapped[j].bit \in Nat /\ mapped[j].at \in Nat
           /\ \A j \in 1 .. Len(frames) :
                 frames[j].req \in 1 .. Current /\ frames[j].at \in Nat /\ frames[j].size \in Nat
  <1>1. /\ Len(requests) \in Nat /\ Len(framed) \in Nat /\ Len(codewords) \in Nat
        /\ Len(mapped) \in Nat /\ Len(frames) \in Nat
        /\ DOMAIN mapped = 1 .. Len(mapped) /\ DOMAIN codewords = 1 .. Len(codewords)
        /\ DOMAIN frames = 1 .. Len(frames) /\ DOMAIN framed = 1 .. Len(framed)
    BY LenProperties DEF IInv, Types
  <1>2. Nldpc * Len(mapped) =< Nldpc * Len(codewords)
    <2>1. /\ toMod.read =< toMod.written /\ modulator.buf \in Nat
          /\ Nldpc \in Nat \ {0}
      BY ChainAssumption DEF IInv, Types, StreamsOf
    <2> DEFINE a == Nldpc * Len(mapped)
               b == Nldpc * Len(codewords)
    <2>2. a \in Int /\ b \in Int
      BY <1>1, <2>1
    <2> HIDE DEF a, b
    <2>3. toMod.written = b /\ toMod.read = a + modulator.buf
      BY DEF IInv, Grid, a, b
    <2>4. a =< b
      BY <2>1, <2>2, <2>3
    <2> QED BY <2>4 DEF a, b
  <1>3. Len(mapped) =< Len(codewords)
    BY <1>1, <1>2, OnTheGrid, ChainAssumption
  <1>4. \A j \in 1 .. Len(codewords) : codewords[j] \in [req : 1 .. Current, end : Nat]
    BY <1>1, ElementOfSeq DEF IInv, Types
  <1>5. \A j \in 1 .. Len(mapped) : mapped[j] \in [req : 1 .. Current, bit : Nat, at : Nat]
    BY <1>1, ElementOfSeq DEF IInv, Types
  <1>6. \A j \in 1 .. Len(frames) : frames[j] \in [req : 1 .. Current, at : Nat, size : Nat]
    BY <1>1, ElementOfSeq DEF IInv, Types
  <1>7. \A f \in 1 .. Len(framed) : framed[f] \in [req : 1 .. Current, at : Nat]
    BY <1>1, ElementOfSeq DEF IInv, Types
  <1> QED BY <1>1, <1>3, <1>4, <1>5, <1>6, <1>7

\* A new request leaves the old ones alone.
LEMMA OldRequests ==
    ASSUME IInv, NEW m \in Modcods, ModcodIn(m)
    PROVE  /\ Current \in Nat /\ Current' = Current + 1
           /\ requests' \in Seq(Modcods)
           /\ \A r \in 1 .. Current : MODCOD(r)' = MODCOD(r)
           /\ OneConstellation' => OneConstellation
  <1>1. /\ requests' = Append(requests, m) /\ requests \in Seq(Modcods)
    BY DEF IInv, Types, ModcodIn
  <1>2. /\ Current \in Nat /\ Current' = Current + 1 /\ requests' \in Seq(Modcods)
        /\ \A r \in 1 .. Current : requests'[r] = requests[r]
    BY <1>1, AppendProperties, LenProperties DEF Current
  <1>3. \A r \in 1 .. Current : MODCOD(r)' = MODCOD(r)
    BY <1>2 DEF MODCOD
  <1>4. OneConstellation' => OneConstellation
    BY <1>2, <1>3 DEF OneConstellation
  <1> QED BY <1>2, <1>3, <1>4

LEMMA MoreRequests ==
    ASSUME NEW R \in Nat
    PROVE  /\ StreamsOf(R) \subseteq StreamsOf(R + 1)
           /\ Seq([req : 1 .. R, at : Nat]) \subseteq Seq([req : 1 .. R + 1, at : Nat])
           /\ Seq([req : 1 .. R, end : Nat]) \subseteq Seq([req : 1 .. R + 1, end : Nat])
           /\ Seq([req : 1 .. R, bit : Nat, at : Nat])
                  \subseteq Seq([req : 1 .. R + 1, bit : Nat, at : Nat])
           /\ Seq([req : 1 .. R, at : Nat, size : Nat])
                  \subseteq Seq([req : 1 .. R + 1, at : Nat, size : Nat])
  <1>1. Tags(R) \subseteq Tags(R + 1)
    BY DEF Tags
  <1>2. StreamsOf(R) \subseteq StreamsOf(R + 1)
    BY <1>1 DEF StreamsOf
  <1>3. /\ [req : 1 .. R, at : Nat] \subseteq [req : 1 .. R + 1, at : Nat]
        /\ [req : 1 .. R, end : Nat] \subseteq [req : 1 .. R + 1, end : Nat]
        /\ [req : 1 .. R, bit : Nat, at : Nat] \subseteq [req : 1 .. R + 1, bit : Nat, at : Nat]
        /\ [req : 1 .. R, at : Nat, size : Nat] \subseteq [req : 1 .. R + 1, at : Nat, size : Nat]
    OBVIOUS
  <1>4. ASSUME NEW S, NEW T, S \subseteq T PROVE Seq(S) \subseteq Seq(T)
    <2> SUFFICES ASSUME NEW s \in Seq(S) PROVE s \in Seq(T)
      OBVIOUS
    <2>1. s \in [1 .. Len(s) -> S] /\ Len(s) \in Nat
      BY LenProperties
    <2>2. s \in [1 .. Len(s) -> T]
      BY <1>4, <2>1
    <2> QED BY <2>1, <2>2, SeqDef
  <1> QED BY <1>2, <1>3, <1>4

LEMMA ModcodInKeeps ==
    ASSUME IInv, NEW m \in Modcods, ModcodIn(m)
    PROVE  IInv'
  <1>1. /\ Current \in Nat /\ Current' = Current + 1 /\ requests' \in Seq(Modcods)
        /\ \A r \in 1 .. Current : MODCOD(r)' = MODCOD(r)
        /\ OneConstellation' => OneConstellation
        /\ Current < MaxRequests /\ MaxRequests \in Nat
        /\ UNCHANGED <<stages, framed, codewords, mapped, frames>>
    BY OldRequests, ChainAssumption DEF ModcodIn, Current
  <1>2. UNCHANGED <<toFec, toMod, toPl, encoder, modulator, framer, framed, codewords, mapped,
                    frames>>
    BY <1>1 DEF stages
  <1>3. Types'
    <2>1. /\ toFec \in StreamsOf(Current + 1) /\ toMod \in StreamsOf(Current + 1)
          /\ toPl \in StreamsOf(Current + 1)
          /\ framed \in Seq([req : 1 .. Current + 1, at : Nat])
          /\ codewords \in Seq([req : 1 .. Current + 1, end : Nat])
          /\ mapped \in Seq([req : 1 .. Current + 1, bit : Nat, at : Nat])
          /\ frames \in Seq([req : 1 .. Current + 1, at : Nat, size : Nat])
      BY <1>1, MoreRequests DEF IInv, Types
    <2>2. /\ encoder \in [req : 1 .. Current + 1, buf : Nat]
          /\ modulator \in [req : 1 .. Current + 1, pending : 0 .. Current + 1, buf : Nat]
          /\ framer \in [req : 1 .. Current + 1, buf : Nat]
      BY <1>1 DEF IInv, Types
    <2>3. Current + 1 \in 1 .. MaxRequests
      BY <1>1
    <2> QED BY <1>1, <1>2, <2>1, <2>2, <2>3 DEF IInv, Types
  <1>4. Grid' /\ Alike'
    BY <1>1, <1>2 DEF IInv, Grid, Alike, Size, DataSymbols
  <1>5. InOrder' /\ Heard' /\ Taken'
    BY <1>2 DEF IInv, InOrder, Heard, Taken, End
  <1>6. NeverEncodedEarlier'
    <2>1. \A j \in 1 .. Len(codewords) : MODCOD(codewords[j].req)' = MODCOD(codewords[j].req)
      BY <1>1, <1>2, Lengths DEF MODCOD
    <2> QED BY <1>2, <2>1, Lengths DEF IInv, NeverEncodedEarlier
  <1> QED BY <1>3, <1>4, <1>5, <1>6 DEF IInv

LEMMA BbFramerKeeps ==
    ASSUME IInv, BbFramerWork
    PROVE  IInv'
  <1> DEFINE n == BbFrame[MODCOD(Current)]
             t == [req |-> Current, at |-> toFec.written]
             u == toFec.tags \union {t}
             l == Len(framed)
  <1>1. /\ UNCHANGED <<requests, toMod, toPl, encoder, modulator, framer, codewords, mapped,
                       frames>>
        /\ Len(framed) < MaxBbFrames /\ framed' = Append(framed, t)
        /\ toFec' = [toFec EXCEPT !.written = toFec.written + n, !.tags = u]
    BY DEF BbFramerWork
  <1>2. /\ toFec \in [written : Nat, read : Nat, tags : SUBSET Tags(Current)]
        /\ toFec.read =< toFec.written /\ Current \in Nat /\ Current \in 1 .. Current
        /\ toFec.read \in Nat /\ toFec.written \in Nat /\ toFec.tags \in SUBSET Tags(Current)
    <2>1. toFec \in StreamsOf(Current) /\ Current \in Nat /\ Current \in 1 .. Current
      BY DEF IInv, Types
    <2> QED BY <2>1 DEF StreamsOf
  <1>3. n \in Nat \ {0}
    <2>1. MODCOD(Current) \in Modcods
      BY <1>2, ElementOfSeq DEF IInv, Types, MODCOD, Current
    <2>2. BbFrame \in [Modcods -> Nat \ {0}]
      BY ChainAssumption
    <2> QED BY <2>1, <2>2
  <1>4. t \in Tags(Current) /\ t \in [req : 1 .. Current, at : Nat] /\ u \in SUBSET Tags(Current)
    BY <1>2 DEF Tags
  <1>5. /\ l \in Nat /\ Len(framed') = l + 1 /\ framed'[l + 1] = t
        /\ \A f \in 1 .. l : framed'[f] = framed[f]
        /\ framed' \in Seq([req : 1 .. Current, at : Nat])
    <2>1. framed \in Seq([req : 1 .. Current, at : Nat]) /\ l \in Nat
      BY Lengths DEF IInv, Types
    <2> HIDE DEF t
    <2> QED BY <1>1, <1>4, <2>1, AppendProperties
  <1>6. t.req = Current /\ t.at = toFec.written
    OBVIOUS
  <1> HIDE DEF n, t, u, l
  <1>7. /\ toFec' \in [written : Nat, read : Nat, tags : SUBSET Tags(Current)]
        /\ toFec'.read = toFec.read /\ toFec'.written = toFec.written + n /\ toFec'.tags = u
    <2>1. toFec' = [written |-> toFec.written + n, read |-> toFec.read, tags |-> u]
      BY <1>1, <1>2
    <2> QED BY <1>2, <1>3, <1>4, <2>1
  <1>8. toFec' \in StreamsOf(Current)
    BY <1>2, <1>3, <1>7 DEF StreamsOf
  <1>9. Types'
    <2>1. Len(framed') =< MaxBbFrames
      BY <1>1, <1>5, ChainAssumption DEF l
    <2> QED BY <1>1, <1>5, <1>8, <2>1 DEF IInv, Types, Current
  <1>10. Grid' /\ Alike'
    BY <1>1 DEF IInv, Grid, Alike, OneConstellation, MODCOD, Current
  <1>11. \A f \in 1 .. l : /\ framed[f].req \in 1 .. Current /\ framed[f].at \in Nat
                           /\ framed[f].at < toFec.written
    BY Lengths DEF IInv, Heard, l
  <1>12. InOrder'
    <2> SUFFICES ASSUME NEW f \in 1 .. l + 1, NEW g \in 1 .. l + 1,
                        framed'[f].at =< framed'[g].at
                 PROVE  framed'[f].req =< framed'[g].req
      BY <1>5 DEF InOrder
    <2>1. CASE f \in 1 .. l /\ g \in 1 .. l
      BY <1>5, <2>1 DEF IInv, InOrder, l
    <2>2. CASE g = l + 1
      <3>1. framed'[g].req = Current /\ framed'[f].req \in 1 .. Current
        BY <1>2, <1>5, <1>6, <1>11, <2>2
      <3> QED BY <1>2, <3>1
    <2>3. CASE f = l + 1 /\ g \in 1 .. l
      BY <1>2, <1>5, <1>6, <1>11, <2>3
    <2> QED BY <1>5, <2>1, <2>2, <2>3
  <1>13. Heard'
    <2>1. ASSUME NEW f \in 1 .. l + 1
          PROVE  /\ framed'[f].at < toFec'.written
                 /\ framed'[f].at >= toFec'.read => framed'[f] \in toFec'.tags
                 /\ framed'[f].at < toFec'.read => framed'[f].req =< encoder'.req
      <3>1. CASE f \in 1 .. l
        <4>1. /\ framed[f].at >= toFec.read => framed[f] \in toFec.tags
              /\ framed[f].at < toFec.read => framed[f].req =< encoder.req
          BY <3>1 DEF IInv, Heard, l
        <4>2. framed'[f] = framed[f] /\ framed[f].at \in Nat /\ framed[f].at < toFec.written
          BY <1>5, <1>11, <3>1
        <4>3. framed[f].at < toFec.written + n
          BY <1>2, <1>3, <4>2
        <4> QED BY <1>1, <1>7, <4>1, <4>2, <4>3 DEF u
      <3>2. CASE f = l + 1
        BY <1>2, <1>3, <1>5, <1>6, <1>7, <3>2 DEF u
      <3> QED BY <1>5, <3>1, <3>2
    <2>2. ASSUME NEW v \in toFec'.tags
          PROVE  v.at >= toFec'.read /\ \E f \in 1 .. l + 1 : v = framed'[f]
      <3>1. CASE v \in toFec.tags
        <4>1. v.at >= toFec.read
          BY <3>1 DEF IInv, Heard
        <4>2. PICK f \in 1 .. l : v = framed[f]
          BY <3>1 DEF IInv, Heard, l
        <4>3. v = framed'[f] /\ f \in 1 .. l + 1
          BY <1>5, <4>2
        <4> QED BY <1>7, <4>1, <4>3
      <3>2. CASE v = t
        <4>1. l + 1 \in 1 .. l + 1
          BY <1>5
        <4> QED BY <1>2, <1>5, <1>6, <1>7, <3>2, <4>1
      <3> QED BY <1>7, <2>2, <3>1, <3>2 DEF u
    <2> QED BY <1>5, <2>1, <2>2 DEF Heard
  <1>14. Taken'
    BY <1>1, <1>7 DEF IInv, Taken, End
  <1>15. NeverEncodedEarlier'
    <2> SUFFICES ASSUME NEW j \in 1 .. Len(codewords), NEW f \in 1 .. l + 1,
                        framed'[f].at < codewords[j].end
                 PROVE  framed'[f].req =< codewords[j].req
      <3>1. DOMAIN codewords = 1 .. Len(codewords) /\ DOMAIN framed' = 1 .. l + 1
        BY <1>5, Lengths
      <3>2. codewords' = codewords /\ requests' = requests
        BY <1>1
      <3> QED BY <3>1, <3>2 DEF IInv, NeverEncodedEarlier, MODCOD
    <2>1. codewords[j].end =< toFec.read /\ codewords[j].end \in Nat
      BY Lengths DEF IInv, Taken
    <2>2. f # l + 1
      BY <1>2, <1>5, <1>6, <2>1
    <2>3. f \in 1 .. l /\ framed'[f] = framed[f]
      BY <1>5, <2>2
    <2> QED BY <2>3, Lengths DEF IInv, NeverEncodedEarlier, l
  <1> QED BY <1>9, <1>10, <1>12, <1>13, <1>14, <1>15 DEF IInv

-----------------------------------------------------------------------------
(***************************************************************************)
(* The encoder.                                                            *)
(***************************************************************************)
Buffered == encoder.buf + Available(toFec)

InfoBits(r) == Kbch[MODCOD(r)]

\* A call waits for more bits, or encodes a block of them for request r.
Collects(r) ==
    /\ encoder' = [req |-> r, buf |-> Buffered]
    /\ toMod'.written = toMod.written /\ codewords' = codewords

Encodes(r) ==
    /\ Buffered >= InfoBits(r)
    /\ encoder' = [req |-> r, buf |-> Buffered - InfoBits(r)]
    /\ toMod'.written = toMod.written + Nldpc
    /\ codewords' = Append(codewords, [req |-> r, end |-> toFec.written - Buffered + InfoBits(r)])

LEMMA EncoderTypes ==
    ASSUME IInv, FecEncoderWork
    PROVE  /\ Types'
           /\ UNCHANGED <<requests, toPl, modulator, framer, framed, mapped, frames>>
           /\ toMod'.read = toMod.read
           /\ toFec'.read = toFec.written /\ toFec'.written = toFec.written
           /\ toFec'.tags = {t \in toFec.tags : t.at >= toFec.written}
           /\ toFec.written \in Nat /\ Buffered \in Nat
           /\ toFec.written - Buffered = End(Len(codewords)) /\ toFec.written - Buffered \in Nat
           /\ \E r \in Newest(toFec, encoder.req) :
                 r \in 1 .. Current /\ InfoBits(r) \in Nat /\ (Collects(r) \/ Encodes(r))
  <1>1. /\ UNCHANGED <<requests, toPl, framed, modulator, framer, mapped, frames>>
        /\ toFec' = Consumed(toFec, Available(toFec))
    BY DEF FecEncoderWork
  <1> DEFINE C == [req : 1 .. Current, end : Nat]
  <1>2. /\ Current \in Nat /\ toFec \in StreamsOf(Current) /\ toMod \in StreamsOf(Current)
        /\ encoder.req \in 1 .. Current /\ encoder.buf \in Nat
        /\ toMod.written \in Nat /\ toMod.read \in Nat /\ toMod.read =< toMod.written
        /\ toFec.written \in Nat /\ toFec.read \in Nat /\ toFec.read =< toFec.written
        /\ codewords \in Seq(C)
    <2>1. /\ Current \in Nat /\ toFec \in StreamsOf(Current) /\ toMod \in StreamsOf(Current)
          /\ encoder.req \in 1 .. Current /\ encoder.buf \in Nat
          /\ codewords \in Seq(C)
      BY DEF IInv, Types
    <2>2. /\ toMod.written \in Nat /\ toMod.read \in Nat /\ toMod.read =< toMod.written
          /\ toFec.written \in Nat /\ toFec.read \in Nat /\ toFec.read =< toFec.written
      BY <2>1 DEF StreamsOf
    <2> QED BY <2>1, <2>2
  <1>3. /\ toFec' \in StreamsOf(Current) /\ Available(toFec) \in Nat
        /\ Copied(toFec) \in SUBSET Tags(Current)
        /\ toFec'.read = toFec.written /\ toFec'.written = toFec.written
        /\ toFec'.tags = {t \in toFec.tags : t.at >= toFec.written}
    BY <1>1, <1>2, Consuming DEF Copied
  <1>4. /\ Buffered \in Nat /\ toFec.written - Buffered = End(Len(codewords))
        /\ toFec.written - Buffered \in Nat
    <2>1. toFec.read - encoder.buf = End(Len(codewords))
      BY DEF IInv, Taken
    <2>2. End(Len(codewords)) \in Nat
      BY Lengths DEF End
    <2>3. Available(toFec) = toFec.written - toFec.read
      BY DEF Available
    <2> QED BY <1>2, <1>3, <2>1, <2>2, <2>3 DEF Buffered
  <1>5. PICK r \in Newest(toFec, encoder.req) :
            \/ /\ encoder' = [req |-> r, buf |-> Buffered]
               /\ toMod' = Written(toMod, 0, Copied(toFec))
               /\ codewords' = codewords
            \/ /\ ~(Buffered < InfoBits(r))
               /\ encoder' = [req |-> r, buf |-> Buffered - InfoBits(r)]
               /\ toMod' = Written(toMod, Nldpc,
                                   {[at |-> toMod.written, req |-> r]} \union Copied(toFec))
               /\ codewords' = Append(codewords,
                                   [req |-> r, end |-> toFec.written - Buffered + InfoBits(r)])
    BY DEF FecEncoderWork, Buffered, InfoBits
  <1>6. r \in 1 .. Current
    BY <1>2, <1>5, Hearing
  <1>7. InfoBits(r) \in Nat /\ Nldpc \in Nat
    <2>1. requests[r] \in Modcods
      BY <1>6, ElementOfSeq DEF IInv, Types, Current
    <2> QED BY <2>1, ChainAssumption DEF MODCOD, InfoBits
  <1> DEFINE T == {[at |-> toMod.written, req |-> r]} \union Copied(toFec)
             c == [req |-> r, end |-> toFec.written - Buffered + InfoBits(r)]
  <1>8. T \in SUBSET Tags(Current) /\ c \in C
    <2>1. toFec.written - Buffered + InfoBits(r) \in Nat
      BY <1>4, <1>7
    <2> QED BY <1>2, <1>3, <1>6, <2>1 DEF Tags
  <1>9. /\ toMod' \in StreamsOf(Current) /\ toMod'.read = toMod.read
        /\ codewords' \in Seq(C)
        /\ encoder' \in [req : 1 .. Current, buf : Nat]
        /\ Collects(r) \/ Encodes(r)
    <2>1. CASE /\ encoder' = [req |-> r, buf |-> Buffered]
               /\ toMod' = Written(toMod, 0, Copied(toFec))
               /\ codewords' = codewords
      <3>1. /\ toMod' \in StreamsOf(Current) /\ toMod'.read = toMod.read
            /\ toMod'.written = toMod.written + 0
        <4>1. /\ Current \in Nat /\ toMod \in StreamsOf(Current) /\ 0 \in Nat
              /\ Copied(toFec) \in SUBSET Tags(Current)
          BY <1>2, <1>3
        <4>2. /\ Written(toMod, 0, Copied(toFec)) \in StreamsOf(Current)
              /\ Written(toMod, 0, Copied(toFec)).read = toMod.read
              /\ Written(toMod, 0, Copied(toFec)).written = toMod.written + 0
          BY ONLY <4>1, Writing
        <4> QED BY <2>1, <4>2
      <3>2. toMod'.written = toMod.written
        BY <1>2, <3>1
      <3>3. encoder' \in [req : 1 .. Current, buf : Nat]
        BY <1>4, <1>6, <2>1
      <3> QED BY <1>2, <2>1, <3>1, <3>2, <3>3 DEF Collects
    <2>2. CASE /\ ~(Buffered < InfoBits(r))
               /\ encoder' = [req |-> r, buf |-> Buffered - InfoBits(r)]
               /\ toMod' = Written(toMod, Nldpc, T)
               /\ codewords' = Append(codewords, c)
      <3>1. /\ toMod' \in StreamsOf(Current) /\ toMod'.read = toMod.read
            /\ toMod'.written = toMod.written + Nldpc
        <4> HIDE DEF T
        <4> QED BY <1>2, <1>7, <1>8, <2>2, Writing
      <3>2. codewords' \in Seq(C)
        <4> HIDE DEF C, c
        <4> QED BY <1>2, <1>8, <2>2, AppendProperties
      <3>3. Buffered >= InfoBits(r) /\ Buffered - InfoBits(r) \in Nat
        BY <1>4, <1>7, <2>2
      <3>4. encoder' \in [req : 1 .. Current, buf : Nat]
        BY <1>6, <2>2, <3>3
      <3>5. Encodes(r)
        BY <2>2, <3>1, <3>3 DEF Encodes
      <3> QED BY <3>1, <3>2, <3>4, <3>5
    <2> QED BY <1>5, <2>1, <2>2
  <1>10. Types'
    BY <1>1, <1>3, <1>9 DEF IInv, Types, Current
  <1> QED BY <1>1, <1>2, <1>3, <1>4, <1>5, <1>6, <1>7, <1>9, <1>10

\* No BB frame the encoder has seen is of a later request than the one it uses.
LEMMA EncoderHears ==
    ASSUME IInv, NEW r \in Newest(toFec, encoder.req), r \in Nat,
           NEW f \in 1 .. Len(framed)
    PROVE  framed[f].req =< r
  <1>1. /\ framed[f].at < toFec.written /\ framed[f].at \in Nat /\ toFec.read \in Nat
        /\ framed[f].at >= toFec.read => framed[f] \in Window(toFec)
    BY Lengths DEF IInv, Types, StreamsOf, Heard, Window
  <1>2. CASE Window(toFec) = {}
    <2>1. r = encoder.req
      BY <1>2 DEF Newest
    <2>2. framed[f].at < toFec.read
      BY <1>1, <1>2
    <2> QED BY <2>1, <2>2 DEF IInv, Heard
  <1>3. CASE Window(toFec) # {}
    <2>1. PICK t \in LastTags(toFec) : r = t.req
      BY <1>3 DEF Newest
    <2>2. /\ t \in toFec.tags /\ t.at >= toFec.read
          /\ \A u \in Window(toFec) : u.at =< t.at
      BY <2>1 DEF LastTags, Window, IInv, Heard
    <2>3. PICK g \in 1 .. Len(framed) : t = framed[g]
      BY <2>2 DEF IInv, Heard
    <2>4. framed[g].at \in Nat
      BY Lengths
    <2>5. framed[f].at =< framed[g].at
      BY <1>1, <2>2, <2>3, <2>4
    <2> QED BY <2>1, <2>3, <2>5 DEF IInv, InOrder
  <1> QED BY <1>2, <1>3

LEMMA EncoderKeeps ==
    ASSUME IInv, FecEncoderWork
    PROVE  IInv'
  <1>1. /\ Types'
        /\ UNCHANGED <<requests, toPl, modulator, framer, framed, mapped, frames>>
        /\ toMod'.read = toMod.read
        /\ toFec'.read = toFec.written /\ toFec'.written = toFec.written
        /\ toFec'.tags = {t \in toFec.tags : t.at >= toFec.written}
        /\ toFec.written \in Nat /\ Buffered \in Nat
        /\ toFec.written - Buffered = End(Len(codewords)) /\ toFec.written - Buffered \in Nat
    BY EncoderTypes
  <1>2. PICK r \in Newest(toFec, encoder.req) :
            r \in 1 .. Current /\ InfoBits(r) \in Nat /\ (Collects(r) \/ Encodes(r))
    BY EncoderTypes
  <1>3. \A f \in 1 .. Len(framed) : framed[f].req =< r
    BY <1>2, EncoderHears
  <1> DEFINE n == Len(codewords)
             c == [req |-> r, end |-> toFec.written - Buffered + InfoBits(r)]
  <1>4. /\ n \in Nat /\ Nldpc \in Nat /\ toMod.written = Nldpc * n
        /\ toFec.read \in Nat /\ toFec.read =< toFec.written
        /\ \A j \in 1 .. n : codewords[j].end \in Nat /\ codewords[j].end =< toFec.read
    BY Lengths, ChainAssumption DEF IInv, Types, StreamsOf, Grid, Taken
  <1>5. Alike' /\ InOrder'
    BY <1>1 DEF IInv, Alike, InOrder, OneConstellation, MODCOD, Current
  <1>6. Heard'
    <2>1. encoder'.req = r
      BY <1>2 DEF Collects, Encodes
    <2>2. \A f \in 1 .. Len(framed) : framed[f].at < toFec.written /\ framed[f].at \in Nat
      BY Lengths DEF IInv, Heard
    <2>3. toFec'.tags = {}
      <3>1. \A t \in toFec.tags : ~(t.at >= toFec.written)
        <4> SUFFICES ASSUME NEW t \in toFec.tags PROVE ~(t.at >= toFec.written)
          OBVIOUS
        <4>1. PICK f \in 1 .. Len(framed) : t = framed[f]
          BY DEF IInv, Heard
        <4> QED BY <1>1, <2>2, <4>1
      <3> QED BY <1>1, <3>1
    <2> QED BY <1>1, <1>3, <2>1, <2>2, <2>3 DEF Heard
  <1>7. CASE Collects(r)
    <2>1. /\ codewords' = codewords /\ toMod'.written = toMod.written
          /\ encoder'.buf = Buffered
      BY <1>7 DEF Collects
    <2>2. Grid'
      BY <1>1, <2>1 DEF IInv, Grid
    <2>3. Taken'
      BY <1>1, <1>4, <2>1 DEF Taken, End
    <2>4. NeverEncodedEarlier'
      BY <1>1, <2>1 DEF IInv, NeverEncodedEarlier, MODCOD
    <2> QED BY <1>1, <1>5, <1>6, <2>2, <2>3, <2>4 DEF IInv
  <1>8. CASE Encodes(r)
    <2>1. /\ codewords' = Append(codewords, c) /\ toMod'.written = toMod.written + Nldpc
          /\ encoder'.buf = Buffered - InfoBits(r) /\ Buffered >= InfoBits(r)
      BY <1>8 DEF Encodes
    <2>2. c.req = r /\ c.end = toFec.written - Buffered + InfoBits(r)
      OBVIOUS
    <2> HIDE DEF c
    <2>3. /\ Len(codewords') = n + 1 /\ codewords'[n + 1] = c
          /\ \A i \in 1 .. n : codewords'[i] = codewords[i]
      BY <2>1, AppendProperties DEF IInv, Types
    <2> HIDE DEF n
    <2>4. Grid'
      <3>1. Nldpc * (n + 1) = Nldpc * n + Nldpc
        BY <1>4
      <3> QED BY <1>1, <1>4, <2>1, <2>3, <3>1 DEF IInv, Grid
    <2>5. c.end \in Nat /\ c.end =< toFec.written
      BY <1>1, <1>2, <2>1, <2>2
    <2>6. Taken'
      <3>1. toFec'.read - encoder'.buf = c.end
        BY <1>1, <1>2, <2>1, <2>2
      <3>2. End(Len(codewords))' = c.end
        BY <1>4, <2>3 DEF End
      <3>3. \A j \in 1 .. n + 1 : codewords'[j].end =< toFec'.read
        <4> SUFFICES ASSUME NEW j \in 1 .. n + 1 PROVE codewords'[j].end =< toFec'.read
          OBVIOUS
        <4>1. CASE j = n + 1
          BY <1>1, <2>3, <2>5, <4>1
        <4>2. CASE j \in 1 .. n
          BY <1>1, <1>4, <2>3, <4>2
        <4> QED BY <1>4, <4>1, <4>2
      <3> QED BY <2>3, <3>1, <3>2, <3>3 DEF Taken
    <2>7. NeverEncodedEarlier'
      <3> SUFFICES ASSUME NEW j \in 1 .. n + 1
                   PROVE  /\ \A f \in 1 .. Len(framed) :
                                framed[f].at < codewords'[j].end
                                    => framed[f].req =< codewords'[j].req
                          /\ codewords'[j].end
                                 - (IF j = 1 THEN 0 ELSE codewords'[j - 1].end)
                                 = InfoBits(codewords'[j].req)
        <4>1. Len(codewords') \in Nat /\ DOMAIN codewords' = 1 .. n + 1
          BY <1>1, <2>3 DEF Types
        <4> QED BY <1>1, <4>1, Lengths DEF NeverEncodedEarlier, InfoBits, MODCOD
      <3>1. CASE j = n + 1
        <4>1. codewords'[j] = c
          BY <2>3, <3>1
        <4>2. (IF j = 1 THEN 0 ELSE codewords'[j - 1].end) = End(n)
          <5>1. CASE n = 0
            BY <3>1, <5>1 DEF End
          <5>2. CASE n # 0
            <6>1. j # 1 /\ j - 1 = n /\ n \in 1 .. n
              BY <1>4, <3>1, <5>2
            <6> QED BY <2>3, <5>2, <6>1 DEF End
          <5> QED BY <5>1, <5>2
        <4>3. c.end - End(n) = InfoBits(r)
          BY <1>1, <1>2, <2>2 DEF n
        <4> QED BY <1>3, <2>2, <4>1, <4>2, <4>3
      <3>2. CASE j \in 1 .. n
        <4>1. codewords'[j] = codewords[j] /\ (j # 1 => codewords'[j - 1] = codewords[j - 1])
          <5>1. j # 1 => j - 1 \in 1 .. n
            BY <1>4, <3>2
          <5> QED BY <2>3, <3>2, <5>1
        <4>2. j \in DOMAIN codewords /\ DOMAIN framed = 1 .. Len(framed)
          BY <3>2, Lengths DEF n
        <4> QED BY <4>1, <4>2 DEF IInv, NeverEncodedEarlier, InfoBits
      <3> QED BY <1>4, <3>1, <3>2
    <2> QED BY <1>1, <1>5, <1>6, <2>4, <2>6, <2>7 DEF IInv
  <1> QED BY <1>2, <1>7, <1>8

-----------------------------------------------------------------------------
(***************************************************************************)
(* The modulator.                                                          *)
(***************************************************************************)
Held == modulator.buf + Available(toMod)

\* What a call does: it waits for more bits, or maps a frame with the constellation
\* of request r.
Waits(p) ==
    /\ Held < Nldpc
    /\ modulator' = [modulator EXCEPT !.pending = p, !.buf = Held]
    /\ toPl'.written = toPl.written /\ mapped' = mapped

Maps(r) ==
    /\ Held >= Nldpc
    /\ mapped' = Append(mapped, [req |-> r, bit |-> toMod.written - Held, at |-> toPl.written])
    /\ toPl'.written = toPl.written + DataSymbols(MODCOD(r))
    /\ modulator'.req = r /\ modulator'.buf = Held - Nldpc

LEMMA ModulatorTypes ==
    ASSUME IInv, ModulatorWork
    PROVE  /\ Types'
           /\ UNCHANGED <<requests, toFec, encoder, framed, codewords, framer, frames>>
           /\ toMod'.written = toMod.written /\ toMod'.read = toMod.written
           /\ toPl'.read = toPl.read
           /\ \E p \in 0 .. Current : Waits(p) \/ \E r \in 1 .. Current : Maps(r)
  <1>1. /\ UNCHANGED <<requests, toFec, framed, encoder, framer, codewords, frames>>
        /\ toMod' = Consumed(toMod, Available(toMod))
    BY DEF ModulatorWork
  <1>2. /\ Current \in Nat /\ toMod \in StreamsOf(Current) /\ toPl \in StreamsOf(Current)
        /\ modulator \in [req : 1 .. Current, pending : 0 .. Current, buf : Nat]
        /\ toPl.written \in Nat /\ toPl.read \in Nat /\ toPl.read =< toPl.written
        /\ toMod.written \in Nat /\ toMod.read \in Nat /\ toMod.read =< toMod.written
        /\ mapped \in Seq([req : 1 .. Current, bit : Nat, at : Nat])
        /\ Nldpc \in Nat
    <2>1. /\ Current \in Nat /\ toMod \in StreamsOf(Current) /\ toPl \in StreamsOf(Current)
          /\ modulator \in [req : 1 .. Current, pending : 0 .. Current, buf : Nat]
          /\ mapped \in Seq([req : 1 .. Current, bit : Nat, at : Nat])
          /\ Nldpc \in Nat
      BY ChainAssumption DEF IInv, Types
    <2>2. /\ toPl.written \in Nat /\ toPl.read \in Nat /\ toPl.read =< toPl.written
          /\ toMod.written \in Nat /\ toMod.read \in Nat /\ toMod.read =< toMod.written
      BY <2>1 DEF StreamsOf
    <2> QED BY <2>1, <2>2
  <1>3. /\ toMod' \in StreamsOf(Current) /\ Available(toMod) \in Nat
        /\ toMod'.written = toMod.written /\ toMod'.read = toMod.written
        /\ Copied(toMod) \in SUBSET Tags(Current)
    BY <1>1, <1>2, Consuming DEF Copied
  <1>4. Available(toMod) = toMod.written - toMod.read /\ Held \in Nat
    BY <1>2, <1>3 DEF Available, Held
  <1>5. toMod.written - Held \in Nat
    <2> DEFINE a == Nldpc * Len(mapped)
    <2>1. a \in Nat
      BY <1>2, Lengths
    <2> HIDE DEF a
    <2>2. toMod.read = a + modulator.buf
      BY DEF IInv, Grid, a
    <2>3. toMod.written - Held = a
      <3>1. /\ Available(toMod) = toMod.written - toMod.read /\ modulator.buf \in Nat
            /\ toMod.written \in Nat /\ toMod.read \in Nat
        BY <1>2, <1>4
      <3> QED BY <2>1, <2>2, <3>1 DEF Held
    <2> QED BY <2>1, <2>3
  <1>6. PICK p \in Newest(toMod, modulator.pending) :
            IF Held < Nldpc
            THEN /\ modulator' = [modulator EXCEPT !.pending = p, !.buf = Held]
                 /\ toPl' = Written(toPl, 0, Copied(toMod))
                 /\ mapped' = mapped
            ELSE LET switch == p # 0 /\ MODCOD(p) # MODCOD(modulator.req)
                     r      == IF switch THEN p ELSE modulator.req
                 IN  /\ modulator' = [req |-> r, pending |-> IF switch THEN 0 ELSE p,
                                      buf |-> Held - Nldpc]
                     /\ toPl' = Written(toPl, DataSymbols(MODCOD(r)),
                                  Copied(toMod) \union
                                  (IF switch THEN {[at |-> toPl.written, req |-> r]} ELSE {}))
                     /\ mapped' = Append(mapped, [req |-> r, bit |-> toMod.written - Held,
                                                  at |-> toPl.written])
    BY DEF ModulatorWork, Held
  <1>7. p \in 0 .. Current
    BY <1>2, <1>6, Hearing
  <1> DEFINE M == [req : 1 .. Current, pending : 0 .. Current, buf : Nat]
             O == [req : 1 .. Current, bit : Nat, at : Nat]
  <1>8. /\ modulator' \in M /\ toPl' \in StreamsOf(Current) /\ mapped' \in Seq(O)
        /\ toPl'.read = toPl.read
        /\ Waits(p) \/ \E r \in 1 .. Current : Maps(r)
    <2>1. CASE Held < Nldpc
      <3>1. /\ modulator' = [modulator EXCEPT !.pending = p, !.buf = Held]
            /\ toPl' = Written(toPl, 0, Copied(toMod))
            /\ mapped' = mapped
        BY <1>6, <2>1
      <3>2. /\ toPl' \in StreamsOf(Current) /\ toPl'.read = toPl.read
            /\ toPl'.written = toPl.written + 0
            /\ toPl'.tags = toPl.tags \union {t \in Copied(toMod) : t.at >= toPl.read}
        <4>1. /\ Current \in Nat /\ toPl \in StreamsOf(Current) /\ 0 \in Nat
              /\ Copied(toMod) \in SUBSET Tags(Current)
          BY <1>2, <1>3
        <4>2. toPl' = Written(toPl, 0, Copied(toMod))
          BY <3>1
        <4>3. /\ Written(toPl, 0, Copied(toMod)) \in StreamsOf(Current)
              /\ Written(toPl, 0, Copied(toMod)).read = toPl.read
              /\ Written(toPl, 0, Copied(toMod)).written = toPl.written + 0
              /\ Written(toPl, 0, Copied(toMod)).tags
                     = toPl.tags \union {t \in Copied(toMod) : t.at >= toPl.read}
          BY ONLY <4>1, Writing
        <4> QED BY <4>2, <4>3
      <3>3. toPl'.written = toPl.written
        BY <1>2, <3>2
      <3>4. modulator' \in M
        BY <1>2, <1>4, <1>7, <3>1
      <3> QED BY <1>2, <2>1, <3>1, <3>2, <3>3, <3>4 DEF Waits
    <2>2. CASE Held >= Nldpc
      <3>1. /\ ~(Held < Nldpc) /\ Held - Nldpc \in Nat
        BY <1>2, <1>4, <2>2
      <3> DEFINE switch == p # 0 /\ MODCOD(p) # MODCOD(modulator.req)
                 r      == IF switch THEN p ELSE modulator.req
                 T      == Copied(toMod) \union
                               (IF switch THEN {[at |-> toPl.written, req |-> r]} ELSE {})
                 o      == [req |-> r, bit |-> toMod.written - Held, at |-> toPl.written]
      <3>2. /\ modulator' = [req |-> r, pending |-> IF switch THEN 0 ELSE p, buf |-> Held - Nldpc]
            /\ toPl' = Written(toPl, DataSymbols(MODCOD(r)), T)
            /\ mapped' = Append(mapped, o)
        BY <1>6, <3>1
      <3>3. r \in 1 .. Current
        BY <1>2, <1>7
      <3>4. MODCOD(r) \in Modcods
        BY <3>3, ElementOfSeq DEF IInv, Types, Current, MODCOD
      <3>5. DataSymbols(MODCOD(r)) \in Nat
        BY <3>4, SomeSymbols
      <3>6. T \in SUBSET Tags(Current) /\ o \in O
        BY <1>2, <1>3, <1>5, <3>3 DEF Tags
      <3> HIDE DEF switch, r, T, o
      <3>9. /\ toPl' \in StreamsOf(Current) /\ toPl'.read = toPl.read
            /\ toPl'.written = toPl.written + DataSymbols(MODCOD(r))
            /\ toPl'.tags = toPl.tags \union {t \in T : t.at >= toPl.read}
        <4>1. Current \in Nat /\ toPl \in StreamsOf(Current)
          BY <1>2
        <4>2. toPl' = Written(toPl, DataSymbols(MODCOD(r)), T) /\ T \in SUBSET Tags(Current)
          BY <3>2, <3>6
        <4> QED BY <3>5, <4>1, <4>2, Writing
      <3>10. modulator' \in M
        <4>1. (IF switch THEN 0 ELSE p) \in 0 .. Current
          BY <1>2, <1>7
        <4> QED BY <3>1, <3>2, <3>3, <4>1
      <3>11. mapped' \in Seq(O)
        BY <1>2, <3>2, <3>6, AppendProperties
      <3>12. Maps(r)
        BY <2>2, <3>2, <3>9 DEF Maps, o
      <3> QED BY <3>3, <3>9, <3>10, <3>11, <3>12
    <2> QED BY <1>2, <1>4, <2>1, <2>2
  <1>9. Types'
    BY <1>1, <1>3, <1>4, <1>8 DEF IInv, Types, Current
  <1> QED BY <1>1, <1>3, <1>4, <1>6, <1>7, <1>8, <1>9

\* What one more output is.
LEMMA OneMore ==
    ASSUME IInv, NEW r \in 1 .. Current, Maps(r)
    PROVE  /\ Len(mapped) \in Nat /\ Len(mapped') = Len(mapped) + 1
           /\ \A j \in 1 .. Len(mapped) : mapped'[j] = mapped[j]
           /\ mapped'[Len(mapped) + 1].req = r
           /\ mapped'[Len(mapped) + 1].bit = toMod.written - Held
           /\ mapped'[Len(mapped) + 1].at = toPl.written
           /\ toPl'.written = toPl.written + DataSymbols(MODCOD(r))
           /\ DataSymbols(MODCOD(r)) \in Nat \ {0}
           /\ modulator'.req = r /\ modulator'.buf = Held - Nldpc
           /\ OneConstellation => DataSymbols(MODCOD(r)) = Size
  <1>1. /\ mapped' = Append(mapped, [req |-> r, bit |-> toMod.written - Held,
                                     at |-> toPl.written])
        /\ toPl'.written = toPl.written + DataSymbols(MODCOD(r))
        /\ modulator'.req = r /\ modulator'.buf = Held - Nldpc
    BY DEF Maps
  <1>2. MODCOD(r) \in Modcods
    BY ElementOfSeq DEF IInv, Types, Current, MODCOD
  <1>3. DataSymbols(MODCOD(r)) \in Nat \ {0}
    BY <1>2, SomeSymbols
  <1>4. OneConstellation => DataSymbols(MODCOD(r)) = Size
    BY DEF OneConstellation, DataSymbols, Size
  <1>5. Len(mapped) \in Nat /\ mapped \in Seq([req : 1 .. Current, bit : Nat, at : Nat])
    BY Lengths DEF IInv, Types
  <1> DEFINE o == [req |-> r, bit |-> toMod.written - Held, at |-> toPl.written]
  <1>6. /\ Len(Append(mapped, o)) = Len(mapped) + 1
        /\ \A j \in 1 .. Len(mapped) : Append(mapped, o)[j] = mapped[j]
        /\ Append(mapped, o)[Len(mapped) + 1] = o
    <2> HIDE DEF o
    <2> QED BY <1>5
  <1> QED BY <1>1, <1>3, <1>4, <1>5, <1>6

LEMMA ModulatorGrid ==
    ASSUME IInv, ModulatorWork
    PROVE  Grid'
  <1>1. /\ codewords' = codewords /\ toMod'.written = toMod.written
        /\ toMod'.read = toMod.written
        /\ \E p \in 0 .. Current : Waits(p) \/ \E r \in 1 .. Current : Maps(r)
    BY ModulatorTypes
  <1> DEFINE n == Len(mapped)
             a == Nldpc * n
  <1>2. /\ n \in Nat /\ a \in Nat /\ Nldpc \in Nat /\ a = n * Nldpc
        /\ Nldpc * (n + 1) = a + Nldpc
    BY Lengths, ChainAssumption
  <1>3. /\ Held = toMod.written - a /\ toMod.written \in Nat
    <2>1. toMod.written \in Nat /\ toMod.read \in Nat /\ modulator.buf \in Nat
      BY DEF IInv, Types, StreamsOf
    <2>2. toMod.read = a + modulator.buf
      BY DEF IInv, Grid
    <2> HIDE DEF a
    <2> QED BY <1>2, <2>1, <2>2 DEF Held, Available
  <1>4. ASSUME NEW p \in 0 .. Current, Waits(p) PROVE Grid'
    <2>1. mapped' = mapped /\ modulator'.buf = Held
      BY <1>4 DEF Waits, IInv, Types
    <2>2. toMod'.read = a + modulator'.buf
      <3> HIDE DEF a
      <3> QED BY <1>1, <1>2, <1>3, <2>1
    <2> QED BY <1>1, <2>1, <2>2 DEF IInv, Grid
  <1>5. ASSUME NEW r \in 1 .. Current, Maps(r) PROVE Grid'
    <2>1. /\ Len(mapped') = n + 1 /\ modulator'.buf = Held - Nldpc
          /\ \A j \in 1 .. n : mapped'[j] = mapped[j]
          /\ mapped'[n + 1].bit = toMod.written - Held
      BY <1>5, OneMore
    <2>2. toMod'.read = Nldpc * Len(mapped') + modulator'.buf
      <3>1. toMod.written = (a + Nldpc) + (Held - Nldpc)
        <4> HIDE DEF a
        <4> QED BY <1>2, <1>3, SMTT(30)
      <3> QED BY <1>1, <1>2, <2>1, <3>1
    <2>3. mapped'[n + 1].bit = ((n + 1) - 1) * Nldpc
      <3>1. toMod.written - Held = a
        <4> HIDE DEF a
        <4> QED BY <1>2, <1>3
      <3>2. (n + 1) - 1 = n
        BY <1>2
      <3> QED BY <1>2, <2>1, <3>1, <3>2
    <2>4. \A j \in 1 .. Len(mapped') : mapped'[j].bit = (j - 1) * Nldpc
      <3> SUFFICES ASSUME NEW j \in 1 .. n + 1 PROVE mapped'[j].bit = (j - 1) * Nldpc
        BY <2>1
      <3>1. CASE j = n + 1
        BY <2>3, <3>1
      <3>2. CASE j \in 1 .. n
        BY <2>1, <3>2 DEF IInv, Grid
      <3> QED BY <1>2, <3>1, <3>2
    <2> QED BY <1>1, <2>2, <2>4 DEF IInv, Grid
  <1> QED BY <1>1, <1>4, <1>5

LEMMA ModulatorAlike ==
    ASSUME IInv, ModulatorWork
    PROVE  Alike'
  <1>1. /\ framer' = framer /\ frames' = frames /\ toPl'.read = toPl.read
        /\ requests' = requests
        /\ \E p \in 0 .. Current : Waits(p) \/ \E r \in 1 .. Current : Maps(r)
    BY ModulatorTypes
  <1>2. OneConstellation' = OneConstellation
    BY <1>1 DEF OneConstellation, MODCOD, Current
  <1>3. ASSUME NEW p \in 0 .. Current, Waits(p) PROVE Alike'
    BY <1>1, <1>2, <1>3 DEF IInv, Alike, Waits
  <1>4. ASSUME NEW r \in 1 .. Current, Maps(r), OneConstellation
        PROVE  /\ toPl'.written = Size * Len(mapped')
               /\ \A j \in 1 .. Len(mapped') : mapped'[j].at = (j - 1) * Size
    <2> DEFINE n == Len(mapped)
    <2>1. /\ n \in Nat /\ Len(mapped') = n + 1
          /\ \A j \in 1 .. n : mapped'[j] = mapped[j]
          /\ mapped'[n + 1].at = toPl.written
          /\ toPl'.written = toPl.written + Size /\ Size \in Nat
      BY <1>4, OneMore
    <2>2. toPl.written = Size * n /\ \A j \in 1 .. n : mapped[j].at = (j - 1) * Size
      BY <1>4 DEF IInv, Alike
    <2>3. Size * (n + 1) = Size * n + Size /\ ((n + 1) - 1) * Size = Size * n
      <3>1. n \in Nat /\ Size \in Nat
        BY <2>1
      <3> HIDE DEF n
      <3> QED BY <3>1
    <2>4. \A j \in 1 .. n + 1 : mapped'[j].at = (j - 1) * Size
      <3> SUFFICES ASSUME NEW j \in 1 .. n + 1 PROVE mapped'[j].at = (j - 1) * Size
        OBVIOUS
      <3>1. CASE j = n + 1
        BY <2>1, <2>2, <2>3, <3>1
      <3>2. CASE j \in 1 .. n
        BY <2>1, <2>2, <3>2
      <3> QED BY <2>1, <3>1, <3>2
    <2> QED BY <2>1, <2>2, <2>3, <2>4
  <1>5. ASSUME NEW r \in 1 .. Current, Maps(r) PROVE Alike'
    <2> SUFFICES ASSUME OneConstellation
                 PROVE  /\ toPl'.written = Size * Len(mapped')
                        /\ toPl'.read = Size * Len(frames') + framer'.buf
                        /\ \A j \in 1 .. Len(mapped') : mapped'[j].at = (j - 1) * Size
                        /\ \A j \in 1 .. Len(frames') :
                              frames'[j].at = (j - 1) * Size /\ frames'[j].size = Size
      BY <1>2 DEF Alike
    <2> QED BY <1>1, <1>4, <1>5 DEF IInv, Alike
  <1> QED BY <1>1, <1>3, <1>5

LEMMA ModulatorKeeps ==
    ASSUME IInv, ModulatorWork
    PROVE  IInv'
  <1>1. /\ Types'
        /\ UNCHANGED <<requests, toFec, encoder, framed, codewords>>
    BY ModulatorTypes
  <1>2. InOrder' /\ Heard' /\ Taken' /\ NeverEncodedEarlier'
    BY <1>1 DEF IInv, InOrder, Heard, Taken, End, NeverEncodedEarlier, MODCOD
  <1> QED BY <1>1, <1>2, ModulatorGrid, ModulatorAlike DEF IInv

-----------------------------------------------------------------------------
(***************************************************************************)
(* The PL framer.                                                          *)
(***************************************************************************)
Gathered == framer.buf + Available(toPl)

\* A call waits for more symbols, or cuts off a frame of the size of request r.
Gathers(r) ==
    /\ framer' = [req |-> r, buf |-> Gathered] /\ frames' = frames

Cuts(r) ==
    /\ Gathered >= DataSymbols(MODCOD(r))
    /\ framer' = [req |-> r, buf |-> Gathered - DataSymbols(MODCOD(r))]
    /\ frames' = Append(frames, [req |-> r, at |-> toPl.written - Gathered,
                                 size |-> DataSymbols(MODCOD(r))])

LEMMA FramerTypes ==
    ASSUME IInv, PlFramerWork
    PROVE  /\ Types'
           /\ UNCHANGED <<requests, toFec, toMod, encoder, modulator, framed, codewords, mapped>>
           /\ toPl'.written = toPl.written /\ toPl'.read = toPl.written
           /\ toPl.read \in Nat /\ toPl.written \in Nat
           /\ Gathered = framer.buf + (toPl.written - toPl.read)
           /\ framer.buf \in Nat
           /\ \E r \in 1 .. Current : Cuts(r) \/ Gathers(r)
  <1>1. /\ UNCHANGED <<requests, toFec, toMod, framed, encoder, modulator, codewords, mapped>>
        /\ toPl' = Consumed(toPl, Available(toPl))
    BY DEF PlFramerWork
  <1>2. /\ Current \in Nat /\ toPl \in StreamsOf(Current)
        /\ toPl.written \in Nat /\ toPl.read \in Nat /\ toPl.read =< toPl.written
        /\ framer.req \in 1 .. Current /\ framer.buf \in Nat /\ framer.buf =< toPl.read
        /\ frames \in Seq([req : 1 .. Current, at : Nat, size : Nat])
    <2>1. /\ Current \in Nat /\ toPl \in StreamsOf(Current)
          /\ framer.req \in 1 .. Current /\ framer.buf \in Nat /\ framer.buf =< toPl.read
          /\ frames \in Seq([req : 1 .. Current, at : Nat, size : Nat])
      BY DEF IInv, Types
    <2>2. toPl.written \in Nat /\ toPl.read \in Nat /\ toPl.read =< toPl.written
      BY <2>1 DEF StreamsOf
    <2> QED BY <2>1, <2>2
  <1>3. /\ toPl' \in StreamsOf(Current)
        /\ toPl'.written = toPl.written /\ toPl'.read = toPl.written
        /\ Available(toPl) \in Nat
    BY <1>1, <1>2, Consuming
  <1>4. /\ Gathered = framer.buf + (toPl.written - toPl.read)
        /\ Gathered \in Nat /\ Gathered =< toPl.written /\ toPl.written - Gathered \in Nat
    BY <1>1, <1>2 DEF Available, Gathered
  <1>5. PICK r \in Newest(toPl, framer.req) :
            LET size == DataSymbols(MODCOD(r)) IN
            IF Gathered < size
            THEN framer' = [req |-> r, buf |-> Gathered] /\ frames' = frames
            ELSE /\ framer' = [req |-> r, buf |-> Gathered - size]
                 /\ frames' = Append(frames, [req |-> r, at |-> toPl.written - Gathered,
                                              size |-> size])
    BY DEF PlFramerWork, Gathered
  <1>6. r \in 1 .. Current
    BY <1>2, <1>5, Hearing
  <1>7. DataSymbols(MODCOD(r)) \in Nat \ {0}
    <2>1. MODCOD(r) \in Modcods
      BY <1>6, ElementOfSeq DEF IInv, Types, Current, MODCOD
    <2> QED BY <2>1, SomeSymbols
  <1>8. /\ Cuts(r) \/ Gathers(r)
        /\ framer' \in [req : 1 .. Current, buf : Nat] /\ framer'.buf =< toPl.written
        /\ frames' \in Seq([req : 1 .. Current, at : Nat, size : Nat])
    <2> DEFINE size == DataSymbols(MODCOD(r))
    <2> HIDE DEF size
    <2>0. size \in Nat \ {0}
      BY <1>7 DEF size
    <2>1. CASE Gathered < size
      <3>1. framer' = [req |-> r, buf |-> Gathered] /\ frames' = frames
        BY <1>5, <2>1 DEF size
      <3> QED BY <1>2, <1>4, <1>6, <2>1, <3>1 DEF Gathers, size
    <2>2. CASE Gathered >= size
      <3> DEFINE f == [req |-> r, at |-> toPl.written - Gathered, size |-> size]
      <3>1. /\ framer' = [req |-> r, buf |-> Gathered - size]
            /\ frames' = Append(frames, f)
        BY <1>4, <1>5, <2>0, <2>2 DEF size
      <3>2. f \in [req : 1 .. Current, at : Nat, size : Nat]
        BY <1>4, <1>6, <2>0
      <3>3. Cuts(r)
        BY <2>2, <3>1 DEF Cuts, size
      <3> HIDE DEF f
      <3>4. frames' \in Seq([req : 1 .. Current, at : Nat, size : Nat])
        BY <1>2, <3>1, <3>2, AppendProperties
      <3>5. Gathered - size \in Nat /\ Gathered - size =< toPl.written
        BY <1>2, <1>4, <2>0, <2>2
      <3> QED BY <1>6, <3>1, <3>3, <3>4, <3>5
    <2> QED BY <1>4, <2>0, <2>1, <2>2
  <1>9. Types'
    BY <1>1, <1>3, <1>8 DEF IInv, Types, Current
  <1> QED BY <1>1, <1>2, <1>3, <1>4, <1>6, <1>8, <1>9

\* What one more frame is.
LEMMA OneFrame ==
    ASSUME IInv, NEW r \in 1 .. Current, Cuts(r)
    PROVE  /\ Len(frames) \in Nat /\ Len(frames') = Len(frames) + 1
           /\ \A j \in 1 .. Len(frames) : frames'[j] = frames[j]
           /\ frames'[Len(frames) + 1].req = r
           /\ frames'[Len(frames) + 1].at = toPl.written - Gathered
           /\ frames'[Len(frames) + 1].size = DataSymbols(MODCOD(r))
  <1>1. Len(frames) \in Nat /\ frames \in Seq([req : 1 .. Current, at : Nat, size : Nat])
    BY Lengths DEF IInv, Types
  <1> DEFINE f == [req |-> r, at |-> toPl.written - Gathered, size |-> DataSymbols(MODCOD(r))]
  <1>2. /\ Len(Append(frames, f)) = Len(frames) + 1
        /\ \A j \in 1 .. Len(frames) : Append(frames, f)[j] = frames[j]
        /\ Append(frames, f)[Len(frames) + 1] = f
    <2> HIDE DEF f
    <2> QED BY <1>1
  <1>3. frames' = Append(frames, f)
    BY DEF Cuts
  <1> QED BY <1>1, <1>2, <1>3

LEMMA FramerAlike ==
    ASSUME IInv, PlFramerWork
    PROVE  Alike'
  <1>1. /\ mapped' = mapped /\ toPl'.written = toPl.written /\ toPl'.read = toPl.written
        /\ requests' = requests /\ toPl.read \in Nat /\ toPl.written \in Nat
        /\ Gathered = framer.buf + (toPl.written - toPl.read) /\ framer.buf \in Nat
    BY FramerTypes
  <1>2. OneConstellation' = OneConstellation
    BY <1>1 DEF OneConstellation, MODCOD, Current
  <1> SUFFICES ASSUME OneConstellation
               PROVE  /\ toPl'.read = Size * Len(frames') + framer'.buf
                      /\ \A j \in 1 .. Len(frames') :
                            frames'[j].at = (j - 1) * Size /\ frames'[j].size = Size
    BY <1>1, <1>2 DEF IInv, Alike
  <1> DEFINE n == Len(frames)
  <1>3. PICK r \in 1 .. Current : Cuts(r) \/ Gathers(r)
    BY FramerTypes
  <1>4. DataSymbols(MODCOD(r)) = Size /\ Size \in Nat
    <2>1. DataSymbols(MODCOD(r)) = Size
      BY DEF OneConstellation, DataSymbols, Size
    <2>2. Size \in Nat
      BY SomeSymbols, ChainAssumption DEF Size
    <2> QED BY <2>1, <2>2
  <1>5. /\ n \in Nat /\ toPl.read = Size * n + framer.buf
        /\ \A j \in 1 .. n : frames[j].at = (j - 1) * Size /\ frames[j].size = Size
    BY Lengths DEF IInv, Alike
  <1>6. Gathered = toPl.written - Size * n
    <2> DEFINE a == Size * n
    <2>1. a \in Nat /\ toPl.read = a + framer.buf
      BY <1>4, <1>5
    <2> HIDE DEF a
    <2>2. Gathered = toPl.written - a
      BY <1>1, <2>1
    <2> QED BY <2>2 DEF a
  <1>7. CASE Gathers(r)
    <2>1. framer'.buf = Gathered /\ frames' = frames
      BY <1>7 DEF Gathers
    <2>2. toPl.written = Size * n + Gathered
      <3> DEFINE a == Size * n
      <3>1. a \in Nat /\ Gathered = toPl.written - a
        BY <1>4, <1>5, <1>6
      <3> HIDE DEF a
      <3>2. toPl.written = a + Gathered
        BY <1>1, <3>1
      <3> QED BY <3>2 DEF a
    <2> QED BY <1>1, <1>5, <2>1, <2>2
  <1>8. CASE Cuts(r)
    <2>1. /\ Len(frames') = n + 1 /\ framer'.buf = Gathered - Size
          /\ \A j \in 1 .. n : frames'[j] = frames[j]
          /\ frames'[n + 1].at = toPl.written - Gathered /\ frames'[n + 1].size = Size
      BY <1>4, <1>8, OneFrame DEF Cuts
    <2>2. Size * (n + 1) = Size * n + Size /\ ((n + 1) - 1) * Size = Size * n /\ Size * n \in Nat
      <3> HIDE DEF n
      <3> QED BY <1>4, <1>5
    <2>3. toPl'.read = Size * Len(frames') + framer'.buf
      <3> DEFINE a == Size * n
      <3>1. a \in Nat /\ Gathered = toPl.written - a
        BY <1>6, <2>2
      <3> HIDE DEF a
      <3>2. toPl.written = (a + Size) + (Gathered - Size)
        BY <1>1, <1>4, <3>1
      <3> QED BY <1>1, <2>1, <2>2, <3>2 DEF a
    <2>4. frames'[n + 1].at = ((n + 1) - 1) * Size
      <3> DEFINE a == Size * n
      <3>1. a \in Nat /\ Gathered = toPl.written - a
        BY <1>6, <2>2
      <3> HIDE DEF a
      <3>2. toPl.written - Gathered = a
        BY <1>1, <3>1
      <3> QED BY <2>1, <2>2, <3>2 DEF a
    <2>5. ASSUME NEW j \in 1 .. n + 1
          PROVE  frames'[j].at = (j - 1) * Size /\ frames'[j].size = Size
      <3>1. CASE j = n + 1
        BY <2>1, <2>4, <3>1
      <3>2. CASE j \in 1 .. n
        BY <1>5, <2>1, <3>2
      <3> QED BY <1>5, <3>1, <3>2
    <2> QED BY <2>1, <2>3, <2>5
  <1> QED BY <1>3, <1>7, <1>8

LEMMA FramerKeeps ==
    ASSUME IInv, PlFramerWork
    PROVE  IInv'
  <1>1. /\ Types'
        /\ UNCHANGED <<requests, toFec, toMod, encoder, modulator, framed, codewords, mapped>>
    BY FramerTypes
  <1>2. Grid' /\ InOrder' /\ Heard' /\ Taken' /\ NeverEncodedEarlier'
    BY <1>1 DEF IInv, Grid, InOrder, Heard, Taken, End, NeverEncodedEarlier, MODCOD
  <1> QED BY <1>1, <1>2, FramerAlike DEF IInv

-----------------------------------------------------------------------------
LEMMA Starts == Init => IInv
  <1> SUFFICES ASSUME Init PROVE IInv
    OBVIOUS
  <1>1. /\ requests = <<InitialModcod>>
        /\ toFec = EmptyStream /\ toMod = EmptyStream /\ toPl = EmptyStream
        /\ encoder = [req |-> 1, buf |-> 0]
        /\ modulator = [req |-> 1, pending |-> 0, buf |-> 0]
        /\ framer = [req |-> 1, buf |-> 0]
        /\ framed = <<>> /\ codewords = <<>> /\ mapped = <<>> /\ frames = <<>>
    BY DEF Init, BbFramerInit, FecEncoderInit, ModulatorInit, PlFramerInit
  <1>2. Len(requests) = 1 /\ Current = 1 /\ requests \in Seq(Modcods)
    BY <1>1, ChainAssumption DEF Current
  <1>3. /\ EmptyStream.written = 0 /\ EmptyStream.read = 0 /\ EmptyStream.tags = {}
        /\ EmptyStream \in StreamsOf(1)
    BY DEF EmptyStream, StreamsOf, Tags
  <1>4. /\ Len(framed) = 0 /\ Len(codewords) = 0 /\ Len(mapped) = 0 /\ Len(frames) = 0
        /\ framed \in Seq([req : 1 .. 1, at : Nat])
        /\ codewords \in Seq([req : 1 .. 1, end : Nat])
        /\ mapped \in Seq([req : 1 .. 1, bit : Nat, at : Nat])
        /\ frames \in Seq([req : 1 .. 1, at : Nat, size : Nat])
    BY <1>1
  <1>5. Types
    <2>1. 1 \in 1 .. MaxRequests /\ 0 =< MaxBbFrames
      BY ChainAssumption
    <2>2. /\ encoder \in [req : 1 .. 1, buf : Nat] /\ framer \in [req : 1 .. 1, buf : Nat]
          /\ modulator \in [req : 1 .. 1, pending : 0 .. 1, buf : Nat]
          /\ framer.buf =< toPl.read
      BY <1>1, <1>3
    <2>3. /\ toFec \in StreamsOf(1) /\ toMod \in StreamsOf(1) /\ toPl \in StreamsOf(1)
      BY <1>1, <1>3
    <2> QED BY <1>2, <1>4, <2>1, <2>2, <2>3 DEF Types
  <1>6. Size \in Nat /\ Nldpc \in Nat /\ Size * 0 = 0 /\ Nldpc * 0 = 0
    <2>1. Size \in Nat /\ Nldpc \in Nat
      BY SomeSymbols, ChainAssumption DEF Size
    <2> QED BY <2>1
  <1>7. Grid
    BY <1>1, <1>3, <1>4, <1>6 DEF Grid
  <1>8. Alike
    BY <1>1, <1>3, <1>4, <1>6 DEF Alike
  <1>9. InOrder /\ Heard /\ Taken
    BY <1>1, <1>3, <1>4 DEF InOrder, Heard, Taken, End
  <1>10. NeverEncodedEarlier
    BY <1>1 DEF NeverEncodedEarlier
  <1> QED BY <1>5, <1>7, <1>8, <1>9, <1>10 DEF IInv

LEMMA Invariance == Spec => []IInv
  <1>1. IInv /\ [Next]_vars => IInv'
    <2> SUFFICES ASSUME IInv, [Next]_vars PROVE IInv'
      OBVIOUS
    <2>1. CASE Next
      BY <2>1, ModcodInKeeps, BbFramerKeeps, EncoderKeeps, ModulatorKeeps, FramerKeeps
         DEF Next
    <2>2. CASE UNCHANGED vars
      <3>1. UNCHANGED <<requests, toFec, toMod, toPl, encoder, modulator, framer, framed,
                        codewords, mapped, frames>>
        BY <2>2 DEF vars, stages
      <3>2. Types' /\ Grid' /\ Alike'
        BY <3>1 DEF IInv, Types, Grid, Alike, OneConstellation, MODCOD, Current
      <3>3. InOrder' /\ Heard' /\ Taken' /\ NeverEncodedEarlier'
        BY <3>1 DEF IInv, InOrder, Heard, Taken, End, NeverEncodedEarlier, MODCOD
      <3> QED BY <3>2, <3>3 DEF IInv
    <2> QED BY <2>1, <2>2
  <1> QED BY <1>1, Starts, PTL DEF Spec

-----------------------------------------------------------------------------
\* Every variable keeps its type, and no buffer is cut below zero.
THEOREM TypeCorrect == Spec => []TypeOK
  <1>1. IInv => TypeOK
    <2> SUFFICES ASSUME IInv PROVE TypeOK
      OBVIOUS
    <2>1. Types
      BY DEF IInv
    <2>2. ASSUME NEW s \in StreamsOf(Current) PROVE s \in Streams
      <3>1. 1 .. Current \subseteq 1 .. MaxRequests
        BY <2>1, ChainAssumption DEF Types
      <3> QED BY <3>1 DEF StreamsOf, Tags, Streams
    <2> QED BY <2>1, <2>2 DEF Types, TypeOK, Current
  <1> QED BY <1>1, Invariance, PTL

\* As long as the constellation stays the same, each PL frame is one codeword, whatever
\* the scheduler does with the tags and however far the blocks fall behind
\* (general_work of modulator and pl_framer).
THEOREM FramesStayWhole == Spec => []FramesAreCodewords
  <1>1. IInv => FramesAreCodewords
    <2> SUFFICES ASSUME IInv, OneConstellation, NEW j \in DOMAIN frames PROVE HoldsCodeword(j)
      BY DEF FramesAreCodewords, OneConstellation
    <2>1. /\ j \in 1 .. Len(frames) /\ Len(frames) \in Nat /\ Len(mapped) \in Nat
          /\ Len(mapped) =< Len(codewords) /\ Len(codewords) \in Nat
          /\ DOMAIN mapped = 1 .. Len(mapped) /\ DOMAIN codewords = 1 .. Len(codewords)
      BY Lengths
    <2>2. Size \in Nat \ {0}
      BY SomeSymbols, ChainAssumption DEF Size
    <2>3. Len(frames) =< Len(mapped)
      <3> DEFINE a == Size * Len(frames)
                 b == Size * Len(mapped)
      <3>1. a \in Nat /\ b \in Nat
        BY <2>1, <2>2
      <3>2. toPl.written = b /\ toPl.read = a + framer.buf
        BY DEF IInv, Alike
      <3>3. framer.buf \in Nat /\ toPl.read =< toPl.written
        BY DEF IInv, Types, StreamsOf
      <3> HIDE DEF a, b
      <3>4. a =< b
        BY <3>1, <3>2, <3>3
      <3> QED BY <2>1, <2>2, <3>4, OnTheGrid DEF a, b
    <2>4. j \in 1 .. Len(mapped) /\ j \in 1 .. Len(codewords)
      BY <2>1, <2>3
    <2>5. mapped[j].bit = (j - 1) * Nldpc
      BY <2>4 DEF IInv, Grid
    <2>6. frames[j].at = mapped[j].at /\ frames[j].size = Size
      BY <2>1, <2>4 DEF IInv, Alike
    <2>7. DataSymbols(MODCOD(mapped[j].req)) = Size
      BY <2>4, Lengths DEF OneConstellation, DataSymbols, Size
    <2> QED BY <2>1, <2>4, <2>5, <2>6, <2>7 DEF HoldsCodeword
  <1> QED BY <1>1, Invariance, PTL

\* No bit is encoded for an earlier request than the one its BB frame was framed for,
\* however many requests meet in a window (general_work of bb_framer and fec_encoder).
THEOREM NeverBehind == Spec => []NeverEncodedEarlier
  <1>1. IInv => NeverEncodedEarlier
    BY DEF IInv
  <1> QED BY <1>1, Invariance, PTL

=============================================================================
