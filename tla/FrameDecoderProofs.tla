------------------------- MODULE FrameDecoderProofs -------------------------
(***************************************************************************)
(* Proofs about FrameDecoder for any pictures, block size and bitmaps: a   *)
(* frame that ends in EOI is never waited for, so that the scanline loop   *)
(* writes one row for each line it is given; every variable stays in its   *)
(* range; and a decoded frame leaves nothing older in the rows it has.     *)
(***************************************************************************)
EXTENDS FrameDecoder, TLAPS, WellFoundedInduction

-----------------------------------------------------------------------------
(* Sequences, naturals and frames                                           *)

IsSeq(s) == s \in Seq({s[i] : i \in DOMAIN s})

LEMMA FreshRows ==
    ASSUME NEW n \in Nat, NEW v
    PROVE  IsSeq([i \in 1..n |-> v]) /\ Len([i \in 1..n |-> v]) = n
<1> DEFINE s == [i \in 1..n |-> v]
<1>1. s \in Seq({v}) /\ Len(s) = n /\ DOMAIN s = 1..n
  OBVIOUS
<1>2. \A i \in 1..n : s[i] = v
  OBVIOUS
<1> HIDE DEF s
<1>3. s \in Seq({s[i] : i \in DOMAIN s})
  BY <1>1, <1>2
<1> QED BY <1>1, <1>3 DEF s, IsSeq

LEMMA SameRows ==
    ASSUME NEW s, NEW t, IsSeq(s), DOMAIN t = DOMAIN s, t = [i \in DOMAIN t |-> t[i]]
    PROVE  IsSeq(t) /\ Len(t) = Len(s) /\ Len(s) \in Nat
<1>1. Len(s) \in Nat /\ DOMAIN s = 1..Len(s)
  BY DEF IsSeq
<1>2. t = [i \in 1..Len(s) |-> t[i]] /\ \A i \in 1..Len(s) : t[i] \in {t[j] : j \in DOMAIN t}
  BY <1>1
<1>3. t \in Seq({t[j] : j \in DOMAIN t}) /\ Len(t) = Len(s)
  BY <1>1, <1>2
<1> QED BY <1>1, <1>3 DEF IsSeq

LEMMA Least ==
    ASSUME NEW T, T \subseteq Nat, T # {}
    PROVE  \E t \in T : \A u \in T : t <= u
<1>1. PICK t \in T : \A u \in T : ~(<<u, t>> \in OpToRel(<, Nat))
  BY NatLessThanWellFounded, WFMin
<1>2. ASSUME NEW u \in T PROVE t <= u
  <2>1. u \in Nat /\ t \in Nat
    OBVIOUS
  <2>2. u < t => <<u, t>> \in OpToRel(<, Nat)
    BY <2>1 DEF OpToRel
  <2>3. ~(<<u, t>> \in OpToRel(<, Nat))
    BY <1>1
  <2>4. ~(u < t)
    BY <2>2, <2>3
  <2> QED BY <2>1, <2>4
<1> QED BY <1>2

(* The parts of a frame. *)
LEMMA FrameParts ==
    ASSUME NEW f \in Frames
    PROVE  \E n \in DOMAIN Pictures :
             /\ f.picture = n /\ Len(Pictures[n]) \in Nat
             /\ f.head \in 0..Len(Pictures[n]) /\ f.tail \in 1..(Len(Pictures[n]) + 1)
             /\ f.junk \in Junk \cup {NoMarker} /\ Gap(f) \in {0, 1}
<1>1. PICK n \in DOMAIN Pictures :
        f \in [picture : {n}, head : 0..Len(Pictures[n]), tail : 1..(Len(Pictures[n]) + 1),
               junk : Junk \cup {NoMarker}]
  BY DEF Frames
<1> QED BY <1>1, PicturesAssumption DEF Gap

(* The tokens of a frame are junk or come from its picture.                 *)
LEMMA TokenOrigin ==
    ASSUME NEW f \in Frames, NEW k \in 1..Size(f)
    PROVE  Token(f, k) \in Tokens
<1>1. PICK n \in DOMAIN Pictures :
        /\ f.picture = n /\ Len(Pictures[n]) \in Nat
        /\ f.head \in 0..Len(Pictures[n]) /\ f.tail \in 1..(Len(Pictures[n]) + 1)
        /\ f.junk \in Junk \cup {NoMarker} /\ Gap(f) \in {0, 1}
  BY FrameParts
<1> DEFINE h == f.head  j == Gap(f)  t == f.tail  m == Len(Pictures[n])  o == Origin(f, k)
<1>2. h \in 0..m /\ j \in {0, 1} /\ t \in 1..(m + 1) /\ m \in Nat
  BY <1>1
<1>3. k \in 1..(h + j + m + 1 - t)
  BY <1>1 DEF Size
<1>4. o = IF k <= h THEN k ELSE IF k <= h + j THEN 0 ELSE t + k - h - j - 1
  BY DEF Origin
<1>5. j = 0 <=> f.junk = NoMarker
  BY DEF Gap
<1> HIDE DEF h, j, t, m, o
<1>6. o \in 0..m /\ (o = 0 => j = 1)
  BY <1>2, <1>3, <1>4
<1>7. CASE o = 0
  <2>1. f.junk \in Junk
    BY <1>1, <1>2, <1>5, <1>6, <1>7
  <2>2. Token(f, k) = f.junk
    BY <1>7 DEF Token, o
  <2> QED BY <2>1, <2>2 DEF Tokens
<1>8. CASE o # 0
  <2>1. o \in 1..m
    BY <1>2, <1>6, <1>8
  <2>2. Token(f, k) = Pictures[n][o]
    BY <1>1, <1>8 DEF Token, o
  <2>3. Token(f, k) \in {Pictures[n][i] : i \in 1..Len(Pictures[n])}
    BY <2>1, <2>2 DEF m
  <2> QED BY <2>3 DEF Tokens
<1> QED BY <1>7, <1>8

(* A frame has as many tokens as the parts it is made of.                   *)
LEMMA FrameFacts ==
    ASSUME NEW f \in Frames
    PROVE  /\ Size(f) \in Nat
           /\ \A k \in 1..Size(f) : Token(f, k).kind = "sof" => Token(f, k).height \in Nat
           /\ Token(f, Size(f)).kind = "eoi" => Size(f) >= 1
<1>1. PICK n \in DOMAIN Pictures :
        /\ f.picture = n /\ Len(Pictures[n]) \in Nat
        /\ f.head \in 0..Len(Pictures[n]) /\ f.tail \in 1..(Len(Pictures[n]) + 1)
        /\ f.junk \in Junk \cup {NoMarker} /\ Gap(f) \in {0, 1}
  BY FrameParts
<1>2. Size(f) \in Nat
  BY <1>1 DEF Size
<1>3. ASSUME NEW k \in 1..Size(f), Token(f, k).kind = "sof" PROVE Token(f, k).height \in Nat
  BY <1>3, TokenOrigin, GeometryAssumption
<1>4. Token(f, Size(f)).kind = "eoi" => Size(f) >= 1
  <2> SUFFICES ASSUME Size(f) = 0 PROVE Token(f, 0).kind # "eoi"
    BY <1>2
  <2>1. Origin(f, 0) = 0
    BY <1>1 DEF Origin
  <2>2. Gap(f) = 0
    BY <1>1 DEF Size
  <2>3. f.junk = NoMarker
    BY <2>2 DEF Gap
  <2> QED BY <2>1, <2>3 DEF Token, NoMarker
<1> QED BY <1>2, <1>3, <1>4

LEMMA IntactIsFrame == Intact(1) \in Frames
<1> DEFINE n == Len(Pictures[1])
<1>1. 1 \in DOMAIN Pictures /\ n \in Nat
  BY PicturesAssumption
<1> HIDE DEF n
<1>2. [picture |-> 1, head |-> n, tail |-> n + 1, junk |-> NoMarker]
        \in [picture : {1}, head : 0..n, tail : 1..(n + 1), junk : Junk \cup {NoMarker}]
  BY <1>1
<1> QED BY <1>1, <1>2 DEF Intact, Frames, n

(* Before the end marker there is always a next marker.                     *)
LEMMA MarkerExists ==
    ASSUME NEW f \in Frames, NEW p \in Nat, p <= Size(f), IsMarker(f, Size(f))
    PROVE  MarkerFrom(f, p) # {}
<1> DEFINE T == {i \in p..Size(f) : IsMarker(f, i)}
<1>1. Size(f) \in Nat
  BY FrameFacts
<1>2. T \subseteq Nat /\ Size(f) \in T
  BY <1>1
<1>3. PICK t \in T : \A u \in T : t <= u
  BY <1>2, Least
<1>4. \A j \in p..(t - 1) : ~IsMarker(f, j)
  <2> SUFFICES ASSUME NEW j \in p..(t - 1), IsMarker(f, j) PROVE FALSE
    OBVIOUS
  <2>1. t \in p..Size(f) /\ j < t /\ j \in p..Size(f)
    BY <1>1, <1>3
  <2>2. t <= j
    BY <1>3, <2>1
  <2> QED BY <1>1, <2>1, <2>2
<1> QED BY <1>3, <1>4 DEF MarkerFrom

-----------------------------------------------------------------------------
(* The inductive invariant                                                  *)

Closed == Token(frame, Size(frame)).kind = "eoi"

Decoding == app \in {"header", "start", "preload", "alloc", "loop", "copy", "finish"}

(* Where the reader stands, and what is left of the last call.              *)
ReaderOK ==
    /\ frame \in Frames
    /\ pos \in Nat \ {0} /\ unread_marker \in 0..Size(frame)
    /\ eoi_reached \in BOOLEAN
    /\ app \in {"idle", "bitmap", "crashed"} =>
         pos = 1 /\ unread_marker = 0 /\ ~eoi_reached /\ inheaders

(* Until EOI has been processed it lies ahead; after that no more data is   *)
(* wanted.                                                                  *)
EoiAhead ==
    /\ Closed /\ Decoding /\ ~eoi_reached =>
         pos <= Size(frame) \/ unread_marker = Size(frame)
    /\ eoi_reached =>
         app \in {"finish", "off"} \/ (app \in {"alloc", "loop", "copy"} /\ has_multiple_scans)
    /\ app = "header" => inheaders
    /\ app = "preload" => has_multiple_scans
    /\ app \in {"preload", "alloc", "loop", "copy", "finish"} \/ global_state = "ready"
         => ~inheaders

(* The rows of the picture are those of its first frame, and as many of     *)
(* them are written as lines were delivered.                                *)
RowsOK ==
    /\ sof.height \in Nat /\ output_scanline \in Nat /\ y \in Nat
    /\ IsSeq(rgb) /\ Len(rgb) \in {0, IMG_HEIGHT}
    /\ app \in {"loop", "copy", "off"} => Len(rgb) = IMG_HEIGHT
    /\ app \notin {"loop", "copy", "finish", "off"} => output_scanline = 0
    /\ Closed /\ app = "loop" => y = output_scanline
    /\ Closed /\ app = "copy" => y + 1 = output_scanline /\ output_scanline <= sof.height

DecoderInv == ReaderOK /\ EoiAhead /\ RowsOK /\ EndMarkerEnds

\* A frame that ends in EOI has a marker left whenever one is looked for.
LEMMA NextMarker ==
    ASSUME ReaderOK, EoiAhead, Closed, Decoding, ~eoi_reached
    PROVE  /\ Size(frame) \in Nat \ {0} /\ IsMarker(frame, Size(frame))
           /\ unread_marker = 0 => pos <= Size(frame) /\ MarkerFrom(frame, pos) # {}
           /\ RestartAt # {}
<1>1. Size(frame) \in Nat \ {0} /\ IsMarker(frame, Size(frame))
  BY FrameFacts DEF ReaderOK, Closed, IsMarker
<1>2. unread_marker = 0 => pos <= Size(frame)
  BY <1>1 DEF EoiAhead
<1>3. unread_marker = 0 => MarkerFrom(frame, pos) # {}
  BY <1>1, <1>2, MarkerExists DEF ReaderOK
<1>4. RestartAt # {}
  <2> DEFINE from == IF unread_marker = 0 THEN pos ELSE unread_marker
             T == {k \in from..Size(frame) : Ends(k)}
  <2>1. from \in Nat /\ from <= Size(frame)
    BY <1>1, <1>2 DEF ReaderOK
  <2>2. Ends(Size(frame))
    BY <1>1 DEF Ends, Action, Closed
  <2> HIDE DEF from
  <2>3. T \subseteq Nat /\ Size(frame) \in T
    BY <1>1, <2>1, <2>2
  <2>4. PICK t \in T : \A u \in T : t <= u
    BY <2>3, Least
  <2>5. \A j \in from..(t - 1) : ~Ends(j)
    <3> SUFFICES ASSUME NEW j \in from..(t - 1), Ends(j) PROVE FALSE
      OBVIOUS
    <3>1. t \in from..Size(frame) /\ j \in from..Size(frame) /\ j < t
      BY <1>1, <2>1, <2>4
    <3>2. t <= j
      BY <2>4, <3>1
    <3> QED BY <1>1, <2>1, <3>1, <3>2
  <2>6. t \in {k \in from..Size(frame) : Ends(k) /\ \A j \in from..(k - 1) : ~Ends(j)}
    BY <2>4, <2>5
  <2> QED BY <2>6 DEF RestartAt, from
<1> QED BY <1>1, <1>2, <1>3, <1>4

\* An error or the end of processimage leaves nothing of the call.
LEMMA ExitKeeps ==
    ASSUME DecoderInv, ErrorExit
    PROVE  DecoderInv'
<1>1. ReaderOK'
  <2>1. Size(frame) \in Nat
    BY FrameFacts DEF DecoderInv, ReaderOK
  <2>2. frame' = frame /\ app' = "bitmap"
    BY DEF ErrorExit
  <2>3. pos' = 1 /\ unread_marker' = 0
    BY DEF ErrorExit, Destroyed
  <2>7. eoi_reached' \in BOOLEAN /\ ~eoi_reached' /\ inheaders'
    BY DEF ErrorExit, Destroyed
  <2>4. 0 \in 0..Size(frame') /\ frame' \in Frames
    BY <2>1, <2>2 DEF DecoderInv, ReaderOK
  <2>5. unread_marker' \in 0..Size(frame)'
    BY <2>3, <2>4
  <2>6. pos' \in Nat \ {0}
    BY <2>3
  <2> QED BY <2>2, <2>3, <2>4, <2>5, <2>6, <2>7 DEF ReaderOK
<1>2. EoiAhead'
  BY DEF EoiAhead, Decoding, ErrorExit, Destroyed
<1>3. RowsOK'
  BY DEF DecoderInv, RowsOK, ErrorExit, Destroyed, NoSof, appVars
<1>4. EndMarkerEnds'
  BY DEF EndMarkerEnds, ErrorExit
<1> QED BY <1>1, <1>2, <1>3, <1>4 DEF DecoderInv

\* A step of the reader that leaves the rest of the call alone
LEMMA ReaderStep ==
    ASSUME DecoderInv,
           UNCHANGED <<app, IMG_HEIGHT, rgb, y, frame, inheaders, eoi_reached,
                       has_multiple_scans, global_state, output_scanline>>,
           sof' = sof \/ (ReadsMarkers /\ sof'.height \in Nat),
           pos' \in Nat \ {0}, unread_marker' \in 0..Size(frame), Decoding,
           Closed /\ ~eoi_reached => pos' <= Size(frame) \/ unread_marker' = Size(frame)
    PROVE  DecoderInv'
<1>1. ReaderOK'
  BY DEF DecoderInv, ReaderOK, Decoding
<1>2. EoiAhead'
  BY DEF DecoderInv, EoiAhead, Decoding, Closed
<1>3. RowsOK' /\ EndMarkerEnds'
  <2>1. CASE sof' = sof
    BY <2>1 DEF DecoderInv, RowsOK, EndMarkerEnds, Closed
  <2>2. CASE ReadsMarkers /\ sof'.height \in Nat
    BY <2>2 DEF DecoderInv, RowsOK, EndMarkerEnds, ReadsMarkers
  <2> QED BY <2>1, <2>2
<1> QED BY <1>1, <1>2, <1>3 DEF DecoderInv

\* A marker that is processed, unless it is EOI, is not the last one.
LEMMA ProcessKeeps ==
    ASSUME DecoderInv, NEW k \in Marker, NEW kinds, Process(k, kinds)
    PROVE  /\ k \in 1..Size(frame) /\ Decoding
           /\ pos' \in Nat \ {0} /\ unread_marker' \in 0..Size(frame)
           /\ "eoi" \notin kinds /\ Closed /\ ~eoi_reached => pos' <= Size(frame)
           /\ app \in {"preload", "finish"} => ~inheaders
           /\ ~eoi_reached
<1>1. Decoding
  BY DEF Process, ReadsMarkers, Decoding
<1>2. Size(frame) \in Nat /\ pos \in Nat \ {0} /\ unread_marker \in 0..Size(frame)
  BY FrameFacts DEF DecoderInv, ReaderOK
<1>3. k \in 1..Size(frame) /\ (unread_marker # 0 => k = unread_marker)
  <2>1. CASE unread_marker # 0
    BY <1>2, <2>1 DEF Marker
  <2>2. CASE unread_marker = 0
    <3>1. MarkerFrom(frame, pos) \subseteq pos..Size(frame)
      BY DEF MarkerFrom
    <3> QED BY <1>2, <2>2, <3>1 DEF Marker
  <2> QED BY <2>1, <2>2
<1> DEFINE next == IF unread_marker = 0 THEN k + 1 ELSE pos
<1>8. next \in Nat \ {0} /\ (pos' = next \/ pos' \in next..Size(frame))
  BY <1>2, <1>3 DEF Process
<1>4. pos' \in Nat \ {0} /\ unread_marker' = 0
  BY <1>2, <1>8 DEF Process
<1>5. ASSUME "eoi" \notin kinds, Closed, ~eoi_reached PROVE pos' <= Size(frame)
  <2>1. k # Size(frame)
    BY <1>5 DEF Process, Closed
  <2>2. pos <= Size(frame) \/ unread_marker = Size(frame)
    BY <1>1, <1>5 DEF DecoderInv, EoiAhead
  <2>3. next <= Size(frame)
    BY <1>2, <1>3, <2>1, <2>2
  <2> QED BY <1>2, <1>8, <2>3
<1>6. app \in {"preload", "finish"} => ~inheaders
  BY DEF DecoderInv, EoiAhead
<1>7. ~eoi_reached
  BY DEF DecoderInv, EoiAhead, Process, ReadsMarkers
<1> QED BY <1>1, <1>2, <1>3, <1>4, <1>5, <1>6, <1>7

LEMMA MarkersKeep ==
    ASSUME DecoderInv, MarkerStep
    PROVE  DecoderInv'
<1> USE DEF appVars, tableVars, readVars, inputVars, outputVars, cinfo
<1>1. CASE MarkersSuspend
  <2>1. CASE app = "finish"
    BY <1>1, <2>1, ExitKeeps DEF MarkersSuspend
  <2>2. CASE app # "finish"
    <3>1. /\ app \in {"header", "preload"} /\ app' = IF app = "header" THEN "start" ELSE "alloc"
          /\ UNCHANGED <<IMG_HEIGHT, rgb, y, frame, pos, unread_marker, sof, inheaders,
                         eoi_reached, has_multiple_scans, global_state, output_scanline>>
      BY <1>1, <2>2 DEF MarkersSuspend, ReadsMarkers
    <3>2. ReaderOK'
      BY <3>1 DEF DecoderInv, ReaderOK
    <3>3. EoiAhead'
      BY <3>1 DEF DecoderInv, EoiAhead, Decoding, Closed
    <3>4. RowsOK' /\ EndMarkerEnds'
      BY <3>1 DEF DecoderInv, RowsOK, EndMarkerEnds
    <3> QED BY <3>2, <3>3, <3>4 DEF DecoderInv
  <2> QED BY <2>1, <2>2
<1>2. ASSUME NEW k \in Marker,
             get_soi(k) \/ get_dqt(k) \/ get_dht(k) \/ get_dri(k) \/ SkipMarker(k) \/ NextScan(k)
      PROVE  DecoderInv'
  <2>1. PICK kinds : Process(k, kinds) /\ "eoi" \notin kinds
    BY <1>2 DEF get_soi, get_dqt, get_dht, get_dri, SkipMarker, NextScan
  <2>2. UNCHANGED <<app, IMG_HEIGHT, rgb, y, frame, sof, inheaders, eoi_reached,
                    has_multiple_scans, global_state, output_scanline>>
    BY <1>2 DEF get_soi, get_dqt, get_dht, get_dri, SkipMarker, NextScan
  <2> QED BY <2>1, <2>2, ProcessKeeps, ReaderStep
<1>3. ASSUME NEW k \in Marker, get_sof(k) PROVE DecoderInv'
  <2>1. Process(k, {"sof"}) /\ ReadsMarkers /\ sof' = Token(frame, k)
    BY <1>3 DEF get_sof, Process
  <2>2. UNCHANGED <<app, IMG_HEIGHT, rgb, y, frame, inheaders, eoi_reached,
                    has_multiple_scans, global_state, output_scanline>>
    BY <1>3 DEF get_sof
  <2>3. k \in 1..Size(frame) /\ Token(frame, k).kind = "sof"
    BY <2>1, ProcessKeeps DEF Process
  <2>4. sof'.height \in Nat
    BY <2>1, <2>3, FrameFacts DEF DecoderInv, ReaderOK
  <2>5. "eoi" \notin {"sof"}
    OBVIOUS
  <2> QED BY <2>1, <2>2, <2>4, <2>5, ProcessKeeps, ReaderStep
<1>4. ASSUME NEW k \in Marker, FirstScan(k) PROVE DecoderInv'
  <2>1. Process(k, {"sos"}) /\ inheaders
    BY <1>4 DEF FirstScan
  <2>2. /\ UNCHANGED <<IMG_HEIGHT, rgb, y, frame, sof, eoi_reached, output_scanline>>
        /\ app' = "start" /\ ~inheaders'
    BY <1>4 DEF FirstScan
  <2>3. "eoi" \notin {"sos"}
    OBVIOUS
  <2>4. /\ pos' \in Nat \ {0} /\ unread_marker' \in 0..Size(frame) /\ ~eoi_reached
        /\ Closed => pos' <= Size(frame)
        /\ app \notin {"preload", "finish"}
    BY <2>1, <2>3, ProcessKeeps
  <2>5. app = "header"
    BY <2>1, <2>4 DEF Process, ReadsMarkers
  <2>6. ReaderOK'
    BY <2>2, <2>4 DEF DecoderInv, ReaderOK
  <2>7. EoiAhead'
    BY <2>2, <2>4 DEF DecoderInv, EoiAhead, Decoding, Closed
  <2>8. RowsOK' /\ EndMarkerEnds'
    BY <2>2, <2>5 DEF DecoderInv, RowsOK, EndMarkerEnds
  <2> QED BY <2>6, <2>7, <2>8 DEF DecoderInv
<1>5. ASSUME NEW k \in Marker, EndOfImage(k) PROVE DecoderInv'
  <2>1. Process(k, {"eoi"})
    BY <1>5 DEF EndOfImage
  <2>2. /\ UNCHANGED <<IMG_HEIGHT, rgb, y, frame, sof, inheaders, has_multiple_scans,
                       output_scanline>>
        /\ eoi_reached' = TRUE
    BY <1>5 DEF EndOfImage
  <2>3. /\ pos' \in Nat \ {0} /\ unread_marker' \in 0..Size(frame)
    BY <2>1, ProcessKeeps
  <2>4. ~inheaders
    BY <2>1 DEF Process, Fatal
  <2>5. \/ app = "preload" /\ app' = "alloc"
        \/ app = "finish" /\ app' = "finish"
    <3>1. app \in {"header", "preload", "finish"}
      BY <2>1 DEF Process, ReadsMarkers
    <3>2. app # "header"
      BY <2>4 DEF DecoderInv, EoiAhead
    <3> QED BY <1>5, <3>1, <3>2 DEF EndOfImage
  <2>6. ReaderOK'
    BY <2>2, <2>3, <2>5 DEF DecoderInv, ReaderOK
  <2>7. EoiAhead'
    BY <2>2, <2>4, <2>5 DEF DecoderInv, EoiAhead
  <2>8. RowsOK' /\ EndMarkerEnds'
    BY <2>2, <2>5 DEF DecoderInv, RowsOK, EndMarkerEnds
  <2> QED BY <2>6, <2>7, <2>8 DEF DecoderInv
<1>6. ASSUME NEW k \in Marker, MarkerError(k) PROVE DecoderInv'
  BY <1>6, ExitKeeps DEF MarkerError
<1> QED BY <1>1, <1>2, <1>3, <1>4, <1>5, <1>6 DEF MarkerStep

LEMMA McusKeep ==
    ASSUME DecoderInv, McuStep
    PROVE  DecoderInv'
<1> USE DEF appVars, tableVars, readVars, inputVars, outputVars
<1>1. NeedsMcu /\ Decoding /\ ~eoi_reached
  <2>1. NeedsMcu
    BY DEF McuStep, LeaveMcu, StuffMcu, DecodeMcu, MisreadMcu, HasData, DataSuspends
  <2>2. app \in {"preload", "loop"} /\ (app = "loop" => ~has_multiple_scans)
    BY <2>1 DEF NeedsMcu, WantsRow
  <2> QED BY <2>1, <2>2 DEF Decoding, DecoderInv, EoiAhead
<1>2. Size(frame) \in Nat /\ pos \in Nat \ {0} /\ unread_marker \in 0..Size(frame)
  BY FrameFacts DEF DecoderInv, ReaderOK
<1>3. Closed => /\ Size(frame) >= 1 /\ IsMarker(frame, Size(frame))
                /\ pos <= Size(frame) \/ unread_marker = Size(frame)
                /\ unread_marker = 0 => pos <= Size(frame) /\ MarkerFrom(frame, pos) # {}
                /\ RestartAt # {}
  <2> SUFFICES ASSUME Closed
               PROVE  /\ Size(frame) >= 1 /\ IsMarker(frame, Size(frame))
                      /\ pos <= Size(frame) \/ unread_marker = Size(frame)
                      /\ unread_marker = 0 => pos <= Size(frame) /\ MarkerFrom(frame, pos) # {}
                      /\ RestartAt # {}
    OBVIOUS
  <2>1. ReaderOK /\ EoiAhead
    BY DEF DecoderInv
  <2>2. pos <= Size(frame) \/ unread_marker = Size(frame)
    BY <1>1, <2>1 DEF EoiAhead
  <2>3. /\ Size(frame) \in Nat \ {0} /\ IsMarker(frame, Size(frame))
        /\ unread_marker = 0 => pos <= Size(frame) /\ MarkerFrom(frame, pos) # {}
        /\ RestartAt # {}
    BY <1>1, <2>1, NextMarker
  <2> QED BY <1>2, <2>2, <2>3
<1>4. ASSUME UNCHANGED <<app, IMG_HEIGHT, rgb, y, frame, sof, inheaders, eoi_reached,
                         has_multiple_scans, global_state, output_scanline>>,
             pos' \in Nat \ {0}, unread_marker' \in 0..Size(frame),
             Closed => pos' <= Size(frame) \/ unread_marker' = Size(frame)
      PROVE  DecoderInv'
  BY <1>1, <1>4, ReaderStep
<1>5. ASSUME McuDone
      PROVE  UNCHANGED <<app, IMG_HEIGHT, rgb, y, frame, sof, inheaders, eoi_reached,
                         has_multiple_scans, global_state, output_scanline>>
  BY <1>5 DEF McuDone
<1>6. ASSUME NEW k \in RestartAt, ProcessRestart(k) PROVE DecoderInv'
  <2>1. k \in 1..Size(frame) /\ Ends(k)
    BY <1>2 DEF RestartAt
  <2>2. Closed /\ k = Size(frame) => unread_marker' = k
    BY <1>6 DEF ProcessRestart, Action, Closed
  <2>3. unread_marker' \in {0, k} /\ pos' \in {pos, k + 1} /\ (pos' = pos \/ k # unread_marker)
    BY <1>6 DEF ProcessRestart
  <2>4. k # Size(frame) /\ k = unread_marker /\ Closed => pos <= Size(frame)
    BY <1>3
  <2>5. k # unread_marker => pos' = k + 1
    BY <1>6 DEF ProcessRestart
  <2>6. k = unread_marker => pos' = pos
    BY <1>6 DEF ProcessRestart
  <2>7. Closed => pos' <= Size(frame) \/ unread_marker' = Size(frame)
    BY <1>2, <2>1, <2>2, <2>4, <2>5, <2>6
  <2>8. pos' \in Nat \ {0} /\ unread_marker' \in 0..Size(frame)
    BY <1>2, <2>1, <2>3
  <2>9. UNCHANGED <<app, IMG_HEIGHT, rgb, y, frame, sof, inheaders, eoi_reached,
                    has_multiple_scans, global_state, output_scanline>>
    BY <1>6 DEF ProcessRestart
  <2> QED BY <1>4, <2>7, <2>8, <2>9
<1>7. CASE LeaveMcu
  BY <1>2, <1>3, <1>4, <1>5, <1>7 DEF LeaveMcu
<1>8. CASE StuffMcu
  <2>1. McuDone
    BY <1>8 DEF StuffMcu
  <2>2. \/ pos' = pos /\ unread_marker' = unread_marker
        \/ pos <= Size(frame) /\ unread_marker' = pos /\ pos' = pos + 1
    BY <1>8 DEF StuffMcu
  <2>3. /\ pos' \in Nat \ {0} /\ unread_marker' \in 0..Size(frame)
        /\ Closed => pos' <= Size(frame) \/ unread_marker' = Size(frame)
    BY <1>2, <1>3, <2>2
  <2> QED BY <1>4, <1>5, <2>1, <2>3
<1>9. CASE DecodeMcu
  <2>1. McuDone /\ pos' = pos + 1 /\ unread_marker' = unread_marker
        /\ unread_marker = 0 /\ pos <= Size(frame) /\ ~IsMarker(frame, pos)
    BY <1>9 DEF DecodeMcu, HasData
  <2>2. Closed => pos # Size(frame)
    BY <1>3, <2>1
  <2>3. /\ pos' \in Nat \ {0} /\ unread_marker' \in 0..Size(frame)
        /\ Closed => pos' <= Size(frame) \/ unread_marker' = Size(frame)
    BY <1>2, <1>3, <2>1, <2>2
  <2> QED BY <1>4, <1>5, <2>1, <2>3
<1>10. CASE MisreadMcu
  <2>1. McuDone /\ pos <= Size(frame)
    BY <1>10 DEF MisreadMcu, HasData
  <2>2. MarkerFrom(frame, pos) \subseteq pos..Size(frame)
    BY DEF MarkerFrom
  <2>3. Closed => DataEnd(frame, pos) \subseteq pos..Size(frame)
    BY <1>3, <1>10, <2>2 DEF DataEnd, MisreadMcu, HasData
  <2>4. DataEnd(frame, pos) \subseteq pos..(Size(frame) + 1)
    BY <1>2, <2>1, <2>2 DEF DataEnd
  <2>5. \/ pos' \in {pos} \cup DataEnd(frame, pos) /\ unread_marker' = unread_marker
        \/ unread_marker' \in MarkerFrom(frame, pos) /\ pos' = unread_marker' + 1
    BY <1>10 DEF MisreadMcu
  <2>6. pos' \in Nat \ {0} /\ unread_marker' \in 0..Size(frame)
    BY <1>2, <2>2, <2>4, <2>5
  <2>7. Closed => pos' <= Size(frame) \/ unread_marker' = Size(frame)
    BY <1>2, <1>3, <2>1, <2>2, <2>3, <2>5
  <2> QED BY <1>4, <1>5, <2>1, <2>6, <2>7
<1>11. CASE DataSuspends
  <2>1. ~Closed
    BY <1>3, <1>11 DEF DataSuspends
  <2>2. /\ app \in {"preload", "loop"} /\ app' = IF app = "preload" THEN "alloc" ELSE "copy"
        /\ UNCHANGED <<IMG_HEIGHT, rgb, y, frame, pos, unread_marker, sof, inheaders,
                       eoi_reached, has_multiple_scans, global_state, output_scanline>>
    BY <1>1, <1>11 DEF DataSuspends, NeedsMcu, WantsRow
  <2>3. ReaderOK'
    BY <2>2 DEF DecoderInv, ReaderOK
  <2>4. EoiAhead'
    BY <1>1, <2>1, <2>2 DEF DecoderInv, EoiAhead, Closed
  <2>5. RowsOK' /\ EndMarkerEnds'
    BY <2>1, <2>2 DEF DecoderInv, RowsOK, EndMarkerEnds, Closed
  <2> QED BY <2>3, <2>4, <2>5 DEF DecoderInv
<1> QED BY <1>6, <1>7, <1>8, <1>9, <1>10, <1>11 DEF McuStep

LEMMA LoopKeeps ==
    ASSUME DecoderInv, LoopStep
    PROVE  DecoderInv'
<1> USE DEF appVars, tableVars, readVars, inputVars, outputVars, cinfo
<1>1. CASE StartFails \/ ScanlinesFail \/ Finished
  <2>1. ErrorExit
    BY <1>1 DEF StartFails, ScanlinesFail, Finished, ErrorExit
  <2> QED BY <2>1, ExitKeeps
<1>2. CASE StartDecompress
  <2>1. /\ app = "start" /\ global_state = "ready"
        /\ \/ app' = "preload" /\ has_multiple_scans
           \/ app' = "alloc"
        /\ UNCHANGED <<IMG_HEIGHT, rgb, y, frame, pos, unread_marker, sof, inheaders,
                       eoi_reached, has_multiple_scans, output_scanline>>
    BY <1>2 DEF StartDecompress
  <2>2. ReaderOK'
    BY <2>1 DEF DecoderInv, ReaderOK
  <2>3. EoiAhead'
    BY <2>1 DEF DecoderInv, EoiAhead, Decoding, Closed
  <2>4. RowsOK' /\ EndMarkerEnds'
    BY <2>1 DEF DecoderInv, RowsOK, EndMarkerEnds
  <2> QED BY <2>2, <2>3, <2>4 DEF DecoderInv
<1>3. CASE Allocate
  <2>1. /\ app = "alloc" /\ app' = "loop" /\ y' = 0
        /\ UNCHANGED <<frame, pos, unread_marker, sof, inheaders, eoi_reached,
                       has_multiple_scans, global_state, output_scanline>>
    BY <1>3 DEF Allocate
  <2>2. IsSeq(rgb') /\ Len(rgb') = IMG_HEIGHT'
    <3>1. CASE rgb # <<>>
      <4>1. IsSeq(rgb) /\ Len(rgb) \in {0, IMG_HEIGHT}
        BY DEF DecoderInv, RowsOK
      <4>2. Len(rgb) # 0
        BY <3>1, <4>1 DEF IsSeq
      <4>3. rgb' = rgb /\ IMG_HEIGHT' = IMG_HEIGHT
        BY <1>3, <3>1 DEF Allocate
      <4> QED BY <4>1, <4>2, <4>3
    <3>2. CASE rgb = <<>>
      <4>1. sof.height \in Nat
        BY DEF DecoderInv, RowsOK
      <4>2. IMG_HEIGHT' = sof.height /\ rgb' = [i \in 1..sof.height |-> {"raw"}]
        BY <1>3, <3>2 DEF Allocate
      <4> QED BY <4>1, <4>2, FreshRows
    <3> QED BY <3>1, <3>2
  <2>3. ReaderOK'
    BY <2>1 DEF DecoderInv, ReaderOK
  <2>4. EoiAhead'
    BY <2>1 DEF DecoderInv, EoiAhead, Decoding, Closed
  <2>5. RowsOK' /\ EndMarkerEnds'
    BY <2>1, <2>2 DEF DecoderInv, RowsOK, EndMarkerEnds, Closed
  <2> QED BY <2>3, <2>4, <2>5 DEF DecoderInv
<1>4. CASE OutputRow
  <2>1. UNCHANGED <<app, IMG_HEIGHT, rgb, y, frame, pos, unread_marker, sof, inheaders,
                    eoi_reached, has_multiple_scans, global_state, output_scanline>>
    BY <1>4 DEF OutputRow
  <2>2. ReaderOK' /\ EoiAhead' /\ RowsOK' /\ EndMarkerEnds'
    BY <2>1 DEF DecoderInv, ReaderOK, EoiAhead, RowsOK, EndMarkerEnds, Decoding, Closed
  <2> QED BY <2>2 DEF DecoderInv
<1>5. CASE ReadScanline
  <2>1. /\ app = "loop" /\ app' = "copy" /\ output_scanline < sof.height
        /\ output_scanline' = output_scanline + 1
        /\ UNCHANGED <<IMG_HEIGHT, rgb, y, frame, pos, unread_marker, sof, inheaders,
                       eoi_reached, has_multiple_scans, global_state>>
    BY <1>5 DEF ReadScanline
  <2>2. ReaderOK'
    BY <2>1 DEF DecoderInv, ReaderOK
  <2>3. EoiAhead'
    BY <2>1 DEF DecoderInv, EoiAhead, Decoding, Closed
  <2>4. RowsOK' /\ EndMarkerEnds'
    BY <2>1 DEF DecoderInv, RowsOK, EndMarkerEnds, Closed
  <2> QED BY <2>2, <2>3, <2>4 DEF DecoderInv
<1>6. CASE CopyLine
  <2>1. /\ app = "copy" /\ app' = "loop" /\ y' = y + 1
        /\ rgb' = [rgb EXCEPT ![y + 1] = jpegbuffer]
        /\ UNCHANGED <<IMG_HEIGHT, frame, pos, unread_marker, sof, inheaders, eoi_reached,
                       has_multiple_scans, global_state, output_scanline>>
    BY <1>6 DEF CopyLine
  <2>2. IsSeq(rgb)
    BY DEF DecoderInv, RowsOK
  <2>3. DOMAIN rgb' = DOMAIN rgb /\ rgb' = [i \in DOMAIN rgb' |-> rgb'[i]]
    BY <2>1
  <2>4. IsSeq(rgb') /\ Len(rgb') = Len(rgb)
    BY <2>2, <2>3, SameRows
  <2>5. ReaderOK'
    BY <2>1 DEF DecoderInv, ReaderOK
  <2>6. EoiAhead'
    BY <2>1 DEF DecoderInv, EoiAhead, Decoding, Closed
  <2>7. RowsOK' /\ EndMarkerEnds'
    BY <2>1, <2>4 DEF DecoderInv, RowsOK, EndMarkerEnds, Closed
  <2> QED BY <2>5, <2>6, <2>7 DEF DecoderInv
<1>7. CASE RunOff
  <2>1. /\ app = "copy" /\ app' = "off" /\ y >= Len(rgb)
        /\ UNCHANGED <<IMG_HEIGHT, rgb, y, frame, pos, unread_marker, sof, inheaders,
                       eoi_reached, has_multiple_scans, global_state, output_scanline>>
    BY <1>7 DEF RunOff
  <2>2. Closed => sof.height > IMG_HEIGHT
    <3>1. /\ y \in Nat /\ sof.height \in Nat /\ Len(rgb) \in Nat /\ Len(rgb) = IMG_HEIGHT
          /\ Closed => y + 1 = output_scanline /\ output_scanline <= sof.height
      BY <2>1 DEF DecoderInv, RowsOK, IsSeq
    <3> QED BY <2>1, <3>1
  <2>3. ReaderOK'
    BY <2>1 DEF DecoderInv, ReaderOK
  <2>4. EoiAhead'
    BY <2>1 DEF DecoderInv, EoiAhead, Decoding
  <2>5. RowsOK'
    BY <2>1 DEF DecoderInv, RowsOK
  <2>6. EndMarkerEnds'
    BY <2>1, <2>2 DEF EndMarkerEnds, Closed
  <2> QED BY <2>3, <2>4, <2>5, <2>6 DEF DecoderInv
<1>8. CASE LoopEnds
  <2>1. /\ app = "loop" /\ app' = "finish" /\ global_state' = "stopping"
        /\ UNCHANGED <<IMG_HEIGHT, rgb, y, frame, pos, unread_marker, sof, inheaders,
                       eoi_reached, has_multiple_scans, output_scanline>>
    BY <1>8 DEF LoopEnds
  <2>2. ReaderOK'
    BY <2>1 DEF DecoderInv, ReaderOK
  <2>3. EoiAhead'
    BY <2>1 DEF DecoderInv, EoiAhead, Decoding, Closed
  <2>4. RowsOK' /\ EndMarkerEnds'
    BY <2>1 DEF DecoderInv, RowsOK, EndMarkerEnds
  <2> QED BY <2>2, <2>3, <2>4 DEF DecoderInv
<1> QED BY <1>1, <1>2, <1>3, <1>4, <1>5, <1>6, <1>7, <1>8 DEF LoopStep

\* Between two calls
LEMMA CallsKeep ==
    ASSUME DecoderInv,
           \/ \E bmp \in Bitmaps : CopyPicture(bmp)
           \/ freeCameraMemory
           \/ app = "idle" /\ \E f \in Frames : Call(f)
    PROVE  DecoderInv'
<1> USE DEF appVars, tableVars, readVars, inputVars, outputVars, cinfo
<1>1. ASSUME NEW bmp \in Bitmaps, CopyPicture(bmp) PROVE DecoderInv'
  <2>1. /\ app = "bitmap" /\ app' \in {"idle", "crashed"} /\ frame' = Intact(1) /\ y' = 0
        /\ rgb' = [i \in DOMAIN rgb |-> IF rgb[i] = {"raw"} THEN {"raw"} ELSE {"old"}]
        /\ UNCHANGED <<IMG_HEIGHT, pos, unread_marker, sof, inheaders, eoi_reached,
                       has_multiple_scans, global_state, output_scanline>>
    BY <1>1 DEF CopyPicture
  <2>2. IsSeq(rgb)
    BY DEF DecoderInv, RowsOK
  <2>3. DOMAIN rgb' = DOMAIN rgb /\ rgb' = [i \in DOMAIN rgb' |-> rgb'[i]]
    BY <2>1
  <2>4. IsSeq(rgb') /\ Len(rgb') = Len(rgb)
    BY <2>2, <2>3, SameRows
  <2>5. Intact(1) \in Frames /\ 0 \in 0..Size(Intact(1))
    BY IntactIsFrame, FrameFacts
  <2>6. ReaderOK'
    BY <2>1, <2>5 DEF DecoderInv, ReaderOK
  <2>7. EoiAhead'
    BY <2>1 DEF DecoderInv, ReaderOK, EoiAhead, Decoding
  <2>8. RowsOK' /\ EndMarkerEnds'
    BY <2>1, <2>4 DEF DecoderInv, RowsOK, EndMarkerEnds
  <2> QED BY <2>6, <2>7, <2>8 DEF DecoderInv
<1>2. CASE freeCameraMemory
  <2>1. /\ app = "idle" /\ rgb' = <<>>
        /\ UNCHANGED <<app, IMG_HEIGHT, y, frame, pos, unread_marker, sof, inheaders,
                       eoi_reached, has_multiple_scans, global_state, output_scanline>>
    BY <1>2 DEF freeCameraMemory
  <2>2. IsSeq(<<>>) /\ Len(<<>>) = 0
    BY DEF IsSeq
  <2>3. ReaderOK' /\ EoiAhead' /\ EndMarkerEnds'
    BY <2>1 DEF DecoderInv, ReaderOK, EoiAhead, EndMarkerEnds, Decoding
  <2>4. RowsOK'
    BY <2>1, <2>2 DEF DecoderInv, RowsOK
  <2> QED BY <2>3, <2>4 DEF DecoderInv
<1>3. ASSUME NEW f \in Frames, app = "idle", Call(f) PROVE DecoderInv'
  <2>1. /\ app' = "header" /\ frame' = f /\ global_state' = "inheader"
        /\ UNCHANGED <<IMG_HEIGHT, rgb, y, pos, unread_marker, sof, inheaders, eoi_reached,
                       has_multiple_scans, output_scanline>>
    BY <1>3 DEF Call
  <2>2. pos = 1 /\ unread_marker = 0 /\ ~eoi_reached /\ inheaders
    BY <1>3 DEF DecoderInv, ReaderOK
  <2>3. Size(f) \in Nat /\ (Token(f, Size(f)).kind = "eoi" => Size(f) >= 1)
    BY FrameFacts
  <2>4. ReaderOK'
    BY <2>1, <2>2, <2>3 DEF DecoderInv, ReaderOK
  <2>5. EoiAhead'
    BY <2>1, <2>2, <2>3 DEF EoiAhead, Closed
  <2>6. RowsOK' /\ EndMarkerEnds'
    BY <1>3, <2>1 DEF DecoderInv, RowsOK, EndMarkerEnds
  <2> QED BY <2>4, <2>5, <2>6 DEF DecoderInv
<1> QED BY <1>1, <1>2, <1>3

LEMMA DecoderStep == DecoderInv /\ [Next]_vars => DecoderInv'
<1> SUFFICES ASSUME DecoderInv, [Next]_vars PROVE DecoderInv'
  OBVIOUS
<1>1. CASE LoopStep
  BY <1>1, LoopKeeps
<1>2. CASE McuStep
  BY <1>2, McusKeep
<1>3. CASE MarkerStep
  BY <1>3, MarkersKeep
<1>4. CASE \/ \E bmp \in Bitmaps : CopyPicture(bmp)
           \/ freeCameraMemory
           \/ app = "idle" /\ \E f \in Frames : Call(f)
  BY <1>4, CallsKeep
<1>5. CASE UNCHANGED vars
  <2>1. UNCHANGED <<app, IMG_HEIGHT, rgb, y, frame, pos, unread_marker, sof, inheaders,
                    eoi_reached, has_multiple_scans, global_state, output_scanline>>
    BY <1>5 DEF vars, appVars, cinfo, readVars, tableVars, inputVars, outputVars
  <2>2. ReaderOK' /\ EoiAhead' /\ RowsOK' /\ EndMarkerEnds'
    BY <2>1 DEF DecoderInv, ReaderOK, EoiAhead, RowsOK, EndMarkerEnds, Decoding, Closed
  <2> QED BY <2>2 DEF DecoderInv
<1> QED BY <1>1, <1>2, <1>3, <1>4, <1>5 DEF Next, CallStep

LEMMA InitInv == Init => DecoderInv
<1> SUFFICES ASSUME Init PROVE DecoderInv
  OBVIOUS
<1> USE DEF Init
<1>1. Intact(1) \in Frames /\ 0 \in 0..Size(Intact(1))
  BY IntactIsFrame, FrameFacts
<1>2. IsSeq(<<>>) /\ Len(<<>>) = 0
  BY DEF IsSeq
<1>3. frame \in Frames /\ pos \in Nat \ {0} /\ unread_marker \in 0..Size(frame)
  BY <1>1
<1>4. eoi_reached \in BOOLEAN /\ ~eoi_reached /\ inheaders
  OBVIOUS
<1>5. pos = 1 /\ unread_marker = 0 /\ rgb = <<>> /\ app = "idle" /\ output_scanline = 0
  OBVIOUS
<1>6. sof.height \in Nat /\ output_scanline \in Nat /\ y \in Nat
  BY DEF NoSof
<1> HIDE DEF Init
<1>7. ReaderOK
  BY <1>3, <1>4, <1>5 DEF ReaderOK
<1>8. EoiAhead /\ EndMarkerEnds
  BY <1>4, <1>5 DEF EoiAhead, EndMarkerEnds, Decoding, Init
<1>9. RowsOK
  BY <1>2, <1>5, <1>6 DEF RowsOK
<1> QED BY <1>7, <1>8, <1>9 DEF DecoderInv

LEMMA InvKept == Spec => []DecoderInv
BY InitInv, DecoderStep, PTL DEF Spec

(* The scanline loop, which ignores what jpeg_read_scanlines returns, leaves *)
(* the picture only for a frame without EOI or one taller than the first,    *)
(* whatever was lost or repeated in between (ImageProc 232-246).             *)
THEOREM EndMarkerSuffices == Spec => []EndMarkerEnds
<1>1. DecoderInv => EndMarkerEnds
  BY DEF DecoderInv
<1> QED BY <1>1, InvKept, PTL

-----------------------------------------------------------------------------
(* What the frame header of a picture says                                  *)

GoodSof(s) == s.height \in 1..MaxLines /\ \E c \in 1..3 : s.v \in [1..c -> 1..4]

(* What the parameters of the markers of a frame can be.                    *)
LEMMA TokenFacts ==
    ASSUME NEW f \in Frames, NEW k \in 1..Size(f)
    PROVE  /\ Token(f, k).kind = "sof" => GoodSof(Token(f, k))
           /\ Token(f, k).kind = "sos" => Token(f, k).comps \in (SUBSET (1..3)) \ {{}}
           /\ Token(f, k).kind = "dri" => Token(f, k).interval \in Nat
BY TokenOrigin, GeometryAssumption DEF GoodSof

-----------------------------------------------------------------------------
(* Geometry                                                                 *)

(* The constants of the geometry                                            *)
LEMMA Bounds == DCTSIZE \in Nat \ {0} /\ MaxLines \in Nat
BY GeometryAssumption

(* What a quotient is worth                                                 *)
LEMMA Quotient ==
    ASSUME NEW a \in Nat, NEW b \in Nat \ {0}
    PROVE  /\ a \div b \in Nat
           /\ b * (a \div b) <= a /\ a < b * (a \div b) + b
OBVIOUS

(* Sampling factors have a greatest one.                                    *)
LEMMA Greatest ==
    ASSUME NEW T, T \subseteq 1..4, T # {}
    PROVE  \E t \in T : \A u \in T : u <= t
<1>1. CASE 4 \in T
  BY <1>1
<1>2. CASE 4 \notin T /\ 3 \in T
  BY <1>2
<1>3. CASE 4 \notin T /\ 3 \notin T /\ 2 \in T
  BY <1>3
<1>4. CASE 4 \notin T /\ 3 \notin T /\ 2 \notin T
  <2>1. \A u \in T : u = 1
    BY <1>4
  <2>2. 1 \in T
    BY <2>1
  <2> QED BY <2>1, <2>2
<1> QED BY <1>1, <1>2, <1>3, <1>4

(* Sizes of a picture whose header was accepted                             *)
LEMMA Sizes ==
    ASSUME GoodSof(sof)
    PROVE  /\ Comps \subseteq Components /\ Comps # {}
           /\ \A c \in Comps : sof.v[c] \in 1..4 /\ sof.v[c] <= RowLines
           /\ RowLines \in Nat \ {0} /\ TotalRows \in Nat \ {0}
<1>1. PICK n \in 1..3 : sof.v \in [1..n -> 1..4]
  BY DEF GoodSof
<1>2. Comps = 1..n /\ Comps \subseteq 1..3 /\ Comps # {}
  <2>1. DOMAIN sof.v = 1..n
    BY <1>1
  <2>2. 1..n \subseteq 1..3 /\ 1 \in 1..n
    BY <1>1
  <2> QED BY <2>1, <2>2 DEF Comps
<1>3. \A c \in Comps : sof.v[c] \in 1..4
  BY <1>1, <1>2
<1> DEFINE T == {sof.v[c] : c \in Comps}
<1>4. T \subseteq 1..4 /\ T # {}
  BY <1>2, <1>3
<1>5. \E t \in T : \A u \in T : u <= t
  BY <1>4, Greatest
<1>6. MaxSamp \in T /\ \A u \in T : u <= MaxSamp
  <2>1. MaxSamp = CHOOSE t \in T : \A c \in Comps : sof.v[c] <= t
    BY DEF MaxSamp
  <2>2. \E t \in T : \A c \in Comps : sof.v[c] <= t
    BY <1>5
  <2> HIDE DEF T
  <2>3. MaxSamp \in T /\ \A c \in Comps : sof.v[c] <= MaxSamp
    BY <2>1, <2>2
  <2> QED BY <2>3 DEF T
<1>7. MaxSamp \in 1..4 /\ \A c \in Comps : sof.v[c] <= MaxSamp
  BY <1>4, <1>6
<1>8. DCTSIZE \in Nat \ {0} /\ sof.height \in Nat \ {0}
  BY Bounds DEF GoodSof
<1> HIDE DEF T
<1>9. RowLines \in Nat \ {0} /\ MaxSamp <= RowLines
  <2>1. MaxSamp * DCTSIZE \in Nat \ {0} /\ MaxSamp <= MaxSamp * DCTSIZE
    BY <1>7, <1>8
  <2> QED BY <2>1 DEF RowLines
<1>10. TotalRows \in Nat \ {0}
  <2> DEFINE a == sof.height + RowLines - 1
  <2>1. a \in Nat /\ a >= RowLines
    BY <1>8, <1>9
  <2>2. TotalRows = a \div RowLines
    BY DEF TotalRows, DivRoundUp
  <2> HIDE DEF a
  <2>3. a \div RowLines \in Nat /\ a < RowLines * (a \div RowLines) + RowLines
    BY <1>9, <2>1, Quotient
  <2>4. a \div RowLines # 0
    BY <1>9, <2>1, <2>3
  <2> QED BY <2>2, <2>3, <2>4
<1> QED BY <1>2, <1>3, <1>7, <1>9, <1>10 DEF Components

(* A row that begins inside the picture is one of its rows.                 *)
LEMMA RowInside ==
    ASSUME GoodSof(sof), NEW row \in Nat, row * RowLines < sof.height
    PROVE  row < TotalRows
<1> DEFINE a == sof.height + RowLines - 1  q == a \div RowLines  R == RowLines  h == sof.height
<1>1. R \in Nat \ {0} /\ h \in Nat
  <2>1. RowLines \in Nat \ {0}
    BY Sizes
  <2>2. sof.height \in Nat
    BY Bounds DEF GoodSof
  <2> QED BY <2>1, <2>2
<1>2. TotalRows = q
  BY DEF TotalRows, DivRoundUp
<1>3. q \in Nat /\ h + R - 1 < R * q + R
  <2>1. a \in Nat
    BY <1>1
  <2> HIDE DEF a
  <2>2. q \in Nat /\ a < R * q + R
    BY <1>1, <2>1, Quotient
  <2> QED BY <2>2 DEF a
<1>4. row * R < h
  OBVIOUS
<1> HIDE DEF a, q, R, h
<1>5. h <= R * q
  <2>1. R * q \in Int
    BY <1>1, <1>3
  <2> QED BY <1>1, <1>3, <2>1
<1>6. ASSUME q <= row PROVE FALSE
  <2>1. R * q <= row * R /\ R * q \in Int /\ row * R \in Int
    BY <1>1, <1>3, <1>6
  <2> QED BY <1>1, <1>4, <1>5, <2>1
<1>7. row < q
  BY <1>3, <1>6
<1> QED BY <1>2, <1>7

(* The samples of a line are in blocks of the picture.                      *)
LEMMA LineInside ==
    ASSUME GoodSof(sof), NEW line \in Nat, line < sof.height, NEW c \in Comps
    PROVE  <<c, (line * sof.v[c]) \div RowLines>> \in Components \X (0..MaxLines)
<1> DEFINE v == sof.v[c]  R == RowLines  q == (line * v) \div R
<1>1. R \in Nat \ {0} /\ v \in Nat /\ v <= R /\ c \in Components
  BY Sizes
<1>2. line <= MaxLines /\ MaxLines \in Nat
  BY Bounds DEF GoodSof
<1> HIDE DEF v, R
<1>3. line * v \in Nat /\ line * v <= line * R
  BY <1>1
<1> DEFINE a == line * v
<1>4. q \in Nat /\ R * q <= a
  <2>1. a \in Nat /\ q = a \div R
    BY <1>3
  <2> HIDE DEF a, q
  <2> QED BY <1>1, <2>1, Quotient
<1>5. R * q <= line * R
  BY <1>1, <1>3, <1>4
<1> HIDE DEF q, a
<1>6. q <= line
  <2> SUFFICES ASSUME q >= line + 1 PROVE FALSE
    BY <1>4
  <2>1. R * q >= R * (line + 1)
    BY <1>1, <1>4
  <2>2. R * (line + 1) = line * R + R
    BY <1>1
  <2> QED BY <1>1, <1>4, <1>5, <2>1, <2>2
<1>7. q \in 0..MaxLines
  BY <1>2, <1>4, <1>6
<1> QED BY <1>1, <1>7 DEF q, v, R

(* Every row of MCUs of a scan has at least one.                            *)
LEMMA RowsPositive ==
    ASSUME GoodSof(sof), scan \subseteq Comps, scan # {}, NEW row \in Nat
    PROVE  RowsPerIMCU(row) \in Nat \ {0}
<1> DEFINE c == CHOOSE x \in scan : TRUE
<1>1. c \in scan
  OBVIOUS
<1> HIDE DEF c
<1>2. sof.v[c] \in 1..4 /\ RowLines \in Nat \ {0} /\ sof.height \in Nat
  <2>1. sof.v[c] \in 1..4 /\ RowLines \in Nat \ {0}
    BY <1>1, Sizes
  <2>2. sof.height \in Nat
    BY Bounds DEF GoodSof
  <2> QED BY <2>1, <2>2
<1>3. LastRowHeight(c) \in Nat \ {0}
  <2>1. BlockRows(c) \in Nat
    <3> DEFINE a == sof.height * sof.v[c] + RowLines - 1
    <3>1. sof.height * sof.v[c] \in Nat
      BY <1>2
    <3>2. a \in Nat
      BY <1>2, <3>1
    <3>3. BlockRows(c) = a \div RowLines
      BY DEF BlockRows, DivRoundUp
    <3> HIDE DEF a
    <3> QED BY <1>2, <3>2, <3>3, Quotient
  <2>2. BlockRows(c) % sof.v[c] \in Nat
    BY <1>2, <2>1
  <2> QED BY <1>2, <2>2 DEF LastRowHeight
<1>4. RowsPerIMCU(row) \in {1, sof.v[c], LastRowHeight(c)}
  BY DEF RowsPerIMCU, c
<1> QED BY <1>2, <1>3, <1>4

(* All of this depends on the frame header and the scan alone.              *)
LEMMA SameSizes ==
    ASSUME sof' = sof
    PROVE  /\ Comps' = Comps /\ RowLines' = RowLines /\ TotalRows' = TotalRows
           /\ (sof # NoSof)' <=> sof # NoSof /\ (GoodSof(sof)' <=> GoodSof(sof))
           /\ scan' = scan => \A row : RowsPerIMCU(row)' = RowsPerIMCU(row)
<1>1. Comps' = Comps
  BY DEF Comps
<1>2. MaxSamp' = MaxSamp
  BY <1>1 DEF MaxSamp
<1>3. RowLines' = RowLines
  BY <1>2 DEF RowLines
<1>4. TotalRows' = TotalRows
  BY <1>3 DEF TotalRows
<1>5. scan' = scan => \A row : RowsPerIMCU(row)' = RowsPerIMCU(row)
  BY <1>3, <1>4 DEF RowsPerIMCU, Single, LastRowHeight, BlockRows
<1> QED BY <1>1, <1>3, <1>4, <1>5 DEF GoodSof
(* So it is in the next state, too.                                         *)
RowsOfMcus ==
    GoodSof(sof) /\ scan \subseteq Comps /\ scan # {}
        => TotalRows \in Nat \ {0} /\ \A row \in Nat : RowsPerIMCU(row) \in Nat \ {0}

LEMMA RowsOfMcusHold == RowsOfMcus
<1> SUFFICES ASSUME GoodSof(sof), scan \subseteq Comps, scan # {}
             PROVE  TotalRows \in Nat \ {0} /\ \A row \in Nat : RowsPerIMCU(row) \in Nat \ {0}
  BY DEF RowsOfMcus
<1>1. TotalRows \in Nat \ {0}
  BY Sizes
<1>2. \A row \in Nat : RowsPerIMCU(row) \in Nat \ {0}
  BY RowsPositive
<1> QED BY <1>1, <1>2

LEMMA RowsOfMcusNext == RowsOfMcus'
BY RowsOfMcusHold, PTL

-----------------------------------------------------------------------------
(* Types: where the call is, the size of the picture, and the counters      *)

(* Where the call is decides where the library is, and what it knows.       *)
Staged ==
    /\ app = "header" => global_state = "inheader"
    /\ app = "start" => global_state \in {"inheader", "ready"}
    /\ app = "preload" => global_state = "preload"
    /\ app \in {"alloc", "loop"} => global_state \in {"preload", "scanning"}
    /\ app \in {"copy", "off"} => global_state = "scanning"
    /\ app = "finish" => global_state = "stopping"
    /\ global_state = "preload" => has_multiple_scans
    /\ has_multiple_scans /\ global_state \in {"scanning", "stopping"} => eoi_reached
    /\ inheaders <=> global_state \in {"none", "inheader"}

(* The frame header, the components of a scan, and the rows of a pass.      *)
Sized ==
    /\ sof # NoSof => GoodSof(sof)
    /\ inheaders => scan = {} /\ input_iMCU_row = 0
    /\ ~inheaders => sof # NoSof /\ scan # {}
    /\ input_iMCU_row \in Nat /\ MCU_vert_offset \in Nat /\ output_iMCU_row \in Nat
    /\ global_state \in {"none", "inheader", "ready"} => ~scanning
    /\ global_state \notin {"scanning", "stopping"} => output_scanline = 0 /\ output_iMCU_row = 0
    /\ scanning => input_iMCU_row < TotalRows
    /\ ~has_multiple_scans /\ global_state = "scanning" =>
         /\ output_iMCU_row = input_iMCU_row
         /\ input_iMCU_row < TotalRows => scanning

(* The counters of the entropy decoder                                      *)
Counted ==
    /\ next_restart_num \in 0..7
    /\ restart_interval \in Nat /\ restarts_to_go \in Nat
    /\ scanning /\ global_state \in {"preload", "scanning"} => restarts_to_go <= restart_interval
    /\ insufficient_data \in BOOLEAN /\ bits \in {"begin", "aligned", "lost", "stalled"}

TypeInv ==
    /\ DecoderInv
    /\ CallTyped /\ Staged
    /\ ScanTyped /\ Sized
    /\ Counted /\ ReaderTyped /\ PictureTyped /\ CoefTyped

MarkerRead(k) ==
    \/ get_soi(k) \/ get_dqt(k) \/ get_dht(k) \/ get_dri(k) \/ SkipMarker(k)
    \/ get_sof(k) \/ FirstScan(k) \/ NextScan(k) \/ EndOfImage(k)

McuTaken == LeaveMcu \/ StuffMcu \/ DecodeMcu \/ MisreadMcu

(* The steps of the decoder                                                 *)
LEMMA StepCases ==
    ASSUME [Next]_vars
    PROVE  \/ ErrorExit
           \/ MarkersSuspend /\ app # "finish"
           \/ \E k \in Marker : MarkerRead(k)
           \/ \E k \in RestartAt : ProcessRestart(k)
           \/ McuTaken \/ DataSuspends
           \/ StartDecompress \/ Allocate \/ OutputRow \/ ReadScanline \/ CopyLine \/ RunOff
           \/ LoopEnds
           \/ \E bmp \in Bitmaps : CopyPicture(bmp)
           \/ freeCameraMemory
           \/ app = "idle" /\ \E f \in Frames : Call(f)
           \/ UNCHANGED vars
<1>1. CASE LoopStep
  BY <1>1 DEF LoopStep, StartFails, ScanlinesFail, Finished, ErrorExit
<1>2. CASE McuStep
  BY <1>2 DEF McuStep, McuTaken
<1>3. CASE MarkerStep
  BY <1>3 DEF MarkerStep, MarkersSuspend, MarkerError, MarkerRead
<1> QED BY <1>1, <1>2, <1>3 DEF Next, CallStep

(* Every marker that is read is processed.                                  *)
LEMMA MarkerProcessed ==
    ASSUME NEW k, MarkerRead(k)
    PROVE  \E kinds : Process(k, kinds)
BY DEF MarkerRead, get_soi, get_dqt, get_dht, get_dri, SkipMarker, get_sof, FirstScan, NextScan,
       EndOfImage

(* The position of the reader, and the marker it holds                      *)
LEMMA ReaderKept ==
    ASSUME TypeInv, [Next]_vars
    PROVE  ReaderTyped'
<1> USE DEF appVars, tableVars, readVars, inputVars, outputVars, cinfo
<1>1. /\ frame \in Frames /\ Size(frame) \in Nat
      /\ pos \in 1..(Size(frame) + 1) /\ unread_marker \in 0..Size(frame) /\ unread_marker < pos
  <2>1. frame \in Frames
    BY DEF TypeInv, DecoderInv, ReaderOK
  <2>2. Size(frame) \in Nat
    BY <2>1, FrameFacts
  <2> QED BY <2>1, <2>2 DEF TypeInv, ReaderTyped
<1>2. ASSUME UNCHANGED frame, pos' \in 1..(Size(frame) + 1), unread_marker' \in 0..Size(frame),
             unread_marker' < pos'
      PROVE  ReaderTyped'
  BY <1>2 DEF ReaderTyped
<1>3. CASE ErrorExit
  <2>1. UNCHANGED frame /\ pos' = 1 /\ unread_marker' = 0
    BY <1>3 DEF ErrorExit, Destroyed
  <2> QED BY <1>1, <1>2, <2>1
<1>4. ASSUME NEW k \in Marker, MarkerRead(k) PROVE ReaderTyped'
  <2>1. PICK kinds : Process(k, kinds)
    BY <1>4, MarkerProcessed
  <2>2. k \in 1..Size(frame)
    BY <2>1, ProcessKeeps DEF TypeInv
  <2>3. pos' \in {pos, k + 1} \cup (pos..Size(frame)) \cup (k + 1)..Size(frame)
        /\ unread_marker' = 0
    BY <2>1 DEF Process
  <2>4. UNCHANGED frame
    BY <1>4 DEF MarkerRead, get_soi, get_dqt, get_dht, get_dri, SkipMarker, get_sof, FirstScan,
                NextScan, EndOfImage
  <2> QED BY <1>1, <1>2, <2>2, <2>3, <2>4
<1>5. ASSUME NEW k \in RestartAt, ProcessRestart(k) PROVE ReaderTyped'
  <2>1. k \in 1..Size(frame) /\ (unread_marker # 0 => k >= unread_marker)
    BY <1>1 DEF RestartAt
  <2>2. unread_marker = 0 => k >= pos
    BY <1>1 DEF RestartAt
  <2>3. /\ UNCHANGED frame /\ unread_marker' \in {0, k}
        /\ pos' = IF k = unread_marker THEN pos ELSE k + 1
    BY <1>5 DEF ProcessRestart
  <2>4. CASE k = unread_marker
    BY <1>1, <1>2, <2>1, <2>3, <2>4
  <2>5. CASE k # unread_marker
    BY <1>1, <1>2, <2>1, <2>3, <2>5
  <2> QED BY <2>4, <2>5
<1>6. CASE McuTaken
  <2>1. UNCHANGED frame
    BY <1>6 DEF McuTaken, LeaveMcu, StuffMcu, DecodeMcu, MisreadMcu, McuDone
  <2>2. CASE UNCHANGED <<pos, unread_marker>>
    BY <1>1, <1>2, <2>1, <2>2
  <2>3. CASE StuffMcu /\ ~UNCHANGED <<pos, unread_marker>>
    <3>1. pos <= Size(frame) /\ unread_marker' = pos /\ pos' = pos + 1
      BY <2>3 DEF StuffMcu
    <3> QED BY <1>1, <1>2, <2>1, <3>1
  <2>4. CASE DecodeMcu
    <3>1. pos <= Size(frame) /\ unread_marker' = unread_marker /\ pos' = pos + 1
      BY <2>4 DEF DecodeMcu, HasData
    <3> QED BY <1>1, <1>2, <2>1, <3>1
  <2>5. CASE MisreadMcu
    <3>1. unread_marker = 0 /\ pos <= Size(frame)
      BY <2>5 DEF MisreadMcu, HasData
    <3>2. MarkerFrom(frame, pos) \subseteq pos..Size(frame)
      BY DEF MarkerFrom
    <3>3. DataEnd(frame, pos) \subseteq pos..(Size(frame) + 1)
      BY <1>1, <3>1, <3>2 DEF DataEnd
    <3>4. \/ pos' \in {pos} \cup DataEnd(frame, pos) /\ unread_marker' = unread_marker
          \/ unread_marker' \in MarkerFrom(frame, pos) /\ pos' = unread_marker' + 1
      BY <2>5 DEF MisreadMcu
    <3> QED BY <1>1, <1>2, <2>1, <3>1, <3>2, <3>3, <3>4
  <2> QED BY <1>6, <2>2, <2>3, <2>4, <2>5 DEF McuTaken, LeaveMcu
<1>7. ASSUME frame' \in Frames, app \in {"idle", "bitmap"}, UNCHANGED <<pos, unread_marker>>
      PROVE  ReaderTyped'
  <2>1. Size(frame') \in Nat
    BY <1>7, FrameFacts
  <2>2. pos = 1 /\ unread_marker = 0
    BY <1>7 DEF TypeInv, DecoderInv, ReaderOK
  <2> QED BY <1>7, <2>1, <2>2 DEF ReaderTyped
<1>8. ASSUME NEW bmp \in Bitmaps, CopyPicture(bmp) PROVE ReaderTyped'
  BY <1>7, <1>8, IntactIsFrame DEF CopyPicture
<1>9. ASSUME NEW f \in Frames, app = "idle", Call(f) PROVE ReaderTyped'
  BY <1>7, <1>9 DEF Call
<1>10. ASSUME UNCHANGED <<frame, pos, unread_marker>> PROVE ReaderTyped'
  BY <1>1, <1>2, <1>10
<1>11. CASE \/ MarkersSuspend /\ app # "finish"
            \/ StartDecompress \/ Allocate \/ OutputRow \/ ReadScanline
  BY <1>10, <1>11 DEF MarkersSuspend, StartDecompress, Allocate, OutputRow, ReadScanline
<1>12. CASE DataSuspends \/ CopyLine \/ RunOff \/ LoopEnds \/ freeCameraMemory \/ UNCHANGED vars
  BY <1>10, <1>12 DEF DataSuspends, CopyLine, RunOff, LoopEnds, freeCameraMemory, vars
<1> QED BY <1>3, <1>4, <1>5, <1>6, <1>8, <1>9, <1>11, <1>12, StepCases

(* A block is filled, or all are grey.                                      *)
LEMMA CoefKept ==
    ASSUME TypeInv, [Next]_vars
    PROVE  CoefTyped'
<1> USE DEF appVars, tableVars, readVars, inputVars, outputVars, coefVars, cinfo
<1>1. DOMAIN coef = Components \X (0..MaxLines) /\ \A b \in DOMAIN coef : coef[b].from \in Values
  BY DEF TypeInv, CoefTyped
<1>2. CASE ErrorExit
  <2>1. coef' = GreyBlocks
    BY <1>2 DEF ErrorExit, Destroyed
  <2> QED BY <2>1 DEF GreyBlocks, Block, CoefTyped, Values
<1>3. ASSUME NEW v, Fill(v), v.from \in Values PROVE CoefTyped'
  BY <1>1, <1>3 DEF Fill, CoefTyped
<1>4. CASE McuTaken
  <2>1. CASE LeaveMcu
    BY <1>1, <2>1 DEF LeaveMcu, CoefTyped
  <2>2. CASE StuffMcu
    BY <1>3, <2>2 DEF StuffMcu, Block, Values
  <2>3. CASE DecodeMcu
    BY <1>3, <2>3 DEF DecodeMcu, Block, Values
  <2>4. CASE MisreadMcu
    BY <1>3, <2>4 DEF MisreadMcu, Block, Values
  <2> QED BY <1>4, <2>1, <2>2, <2>3, <2>4 DEF McuTaken
<1>5. ASSUME UNCHANGED coef PROVE CoefTyped'
  BY <1>1, <1>5 DEF CoefTyped
<1>6. ASSUME NEW k, MarkerRead(k) \/ ProcessRestart(k) PROVE CoefTyped'
  BY <1>5, <1>6 DEF MarkerRead, get_soi, get_dqt, get_dht, get_dri, SkipMarker, get_sof,
                    FirstScan, NextScan, EndOfImage, ProcessRestart
<1>7. CASE \/ MarkersSuspend /\ app # "finish"
           \/ StartDecompress \/ Allocate \/ OutputRow \/ ReadScanline
  BY <1>5, <1>7 DEF MarkersSuspend, StartDecompress, Allocate, OutputRow, ReadScanline
<1>8. CASE DataSuspends \/ CopyLine \/ RunOff \/ LoopEnds \/ freeCameraMemory \/ UNCHANGED vars
  BY <1>5, <1>8 DEF DataSuspends, CopyLine, RunOff, LoopEnds, freeCameraMemory, vars
<1>9. ASSUME NEW x, CopyPicture(x) \/ Call(x) PROVE CoefTyped'
  BY <1>5, <1>9 DEF CopyPicture, Call
<1> QED BY <1>2, <1>4, <1>6, <1>7, <1>8, <1>9, StepCases

(* A marker is only read before and after the data of a scan.               *)
LEMMA MarkersOutside ==
    ASSUME TypeInv, NEW k \in Marker, MarkerRead(k)
    PROVE  /\ k \in 1..Size(frame) /\ frame \in Frames
           /\ app \in {"header", "preload", "finish"}
           /\ ~(scanning /\ global_state \in {"preload", "scanning"})
           /\ app = "header" <=> inheaders
           /\ app = "header" => global_state = "inheader"
           /\ app = "preload" => global_state = "preload" /\ has_multiple_scans
           /\ app = "finish" => global_state = "stopping"
<1>1. PICK kinds : Process(k, kinds)
  BY MarkerProcessed
<1>2. k \in 1..Size(frame) /\ frame \in Frames
  BY <1>1, ProcessKeeps DEF TypeInv, DecoderInv, ReaderOK
<1>3. app \in {"header", "preload", "finish"} /\ (app = "preload" => ~scanning)
  BY <1>1 DEF Process, ReadsMarkers
<1>4. /\ app = "header" => global_state = "inheader" /\ inheaders
      /\ app = "preload" => global_state = "preload" /\ has_multiple_scans /\ ~inheaders
      /\ app = "finish" => global_state = "stopping" /\ ~inheaders
  BY DEF TypeInv, Staged
<1> QED BY <1>2, <1>3, <1>4

(* Data is read only in a scan, before the output or for it.                *)
LEMMA McuWanted ==
    ASSUME TypeInv, McuTaken \/ DataSuspends \/ \E k : ProcessRestart(k)
    PROVE  /\ NeedsMcu /\ scanning
           /\ \/ app = "preload" /\ global_state = "preload" /\ has_multiple_scans
              \/ app = "loop" /\ global_state = "scanning" /\ ~has_multiple_scans
           /\ McuTaken => ~AtRestart /\ McuDone
<1>1. NeedsMcu
  BY DEF McuTaken, LeaveMcu, StuffMcu, DecodeMcu, MisreadMcu, HasData, DataSuspends, ProcessRestart
<1>2. McuTaken => ~AtRestart /\ McuDone
  BY DEF McuTaken, LeaveMcu, StuffMcu, DecodeMcu, MisreadMcu, HasData
<1>3. \/ app = "preload" /\ global_state = "preload" /\ has_multiple_scans
      \/ app = "loop" /\ global_state = "scanning" /\ ~has_multiple_scans
  BY <1>1 DEF NeedsMcu, WantsRow, TypeInv, Staged
<1> QED BY <1>1, <1>2, <1>3 DEF NeedsMcu

(* The counters of the entropy decoder                                      *)
LEMMA CountersKept ==
    ASSUME TypeInv, [Next]_vars
    PROVE  Counted'
<1> USE DEF appVars, tableVars, readVars, inputVars, outputVars, entropyVars, passVars, cinfo
<1>1. /\ next_restart_num \in 0..7 /\ restart_interval \in Nat /\ restarts_to_go \in Nat
      /\ insufficient_data \in BOOLEAN /\ bits \in {"begin", "aligned", "lost", "stalled"}
      /\ scanning /\ global_state \in {"preload", "scanning"} => restarts_to_go <= restart_interval
  BY DEF TypeInv, Counted
<1>2. CASE ErrorExit
  <2>1. /\ next_restart_num' = 0 /\ restart_interval' = 0 /\ restarts_to_go' = 0
        /\ insufficient_data' \in BOOLEAN /\ bits' = "begin"
    BY <1>2 DEF ErrorExit, Destroyed
  <2> QED BY <2>1 DEF Counted
<1>3. ASSUME NEW k \in Marker, MarkerRead(k) PROVE Counted'
  <2>1. /\ k \in 1..Size(frame) /\ frame \in Frames
        /\ app \in {"header", "preload", "finish"}
        /\ ~(scanning /\ global_state \in {"preload", "scanning"})
    BY <1>3, MarkersOutside
  <2>2. CASE get_soi(k)
    BY <1>1, <2>1, <2>2 DEF get_soi, Counted
  <2>3. CASE get_dri(k)
    <3>1. restart_interval' \in Nat
      BY <2>1, <2>3, TokenFacts DEF get_dri, Process
    <3> QED BY <1>1, <2>1, <2>3, <3>1 DEF get_dri, Counted
  <2>4. CASE FirstScan(k)
    BY <1>1, <2>4 DEF FirstScan, Counted
  <2>5. CASE NextScan(k)
    <3>1. /\ next_restart_num' = 0 /\ restart_interval' = restart_interval
          /\ restarts_to_go' = restart_interval /\ insufficient_data' \in BOOLEAN /\ bits' = "begin"
      BY <2>5 DEF NextScan, StartInputPass
    <3> QED BY <1>1, <3>1 DEF Counted
  <2>6. CASE EndOfImage(k)
    <3>1. UNCHANGED <<next_restart_num, restart_interval, restarts_to_go, insufficient_data, bits,
                      scanning>>
      BY <2>6 DEF EndOfImage
    <3>2. scanning => global_state' = global_state
      BY <2>6 DEF EndOfImage, Process, ReadsMarkers
    <3>3. ~(scanning' /\ global_state' \in {"preload", "scanning"})
      BY <2>1, <3>1, <3>2
    <3> QED BY <1>1, <3>1, <3>3 DEF Counted
  <2>7. CASE get_dqt(k) \/ get_dht(k) \/ SkipMarker(k) \/ get_sof(k)
    <3>1. UNCHANGED <<next_restart_num, restart_interval, restarts_to_go, insufficient_data, bits,
                      scanning, global_state>>
      BY <2>7 DEF get_dqt, get_dht, SkipMarker, get_sof
    <3>2. ~(scanning' /\ global_state' \in {"preload", "scanning"})
      BY <2>1, <3>1
    <3> QED BY <1>1, <3>1, <3>2 DEF Counted
  <2> QED BY <1>3, <2>2, <2>3, <2>4, <2>5, <2>6, <2>7 DEF MarkerRead
<1>4. ASSUME NEW k \in RestartAt, ProcessRestart(k) PROVE Counted'
  <2>1. /\ next_restart_num' = (next_restart_num + 1) % 8 /\ restarts_to_go' = restart_interval
        /\ restart_interval' = restart_interval /\ bits' = "begin"
        /\ insufficient_data' \in BOOLEAN
    BY <1>4 DEF ProcessRestart
  <2> QED BY <1>1, <2>1 DEF Counted
<1>5. CASE McuTaken
  <2>1. McuDone /\ ~AtRestart /\ scanning /\ global_state \in {"preload", "scanning"}
    BY <1>5, McuWanted
  <2>2. restarts_to_go' \in Nat /\ restarts_to_go' <= restart_interval
    BY <1>1, <2>1 DEF McuDone, AtRestart
  <2>3. UNCHANGED <<restart_interval, next_restart_num>>
    BY <2>1 DEF McuDone
  <2>4. insufficient_data' \in BOOLEAN /\ bits' \in {"begin", "aligned", "lost", "stalled"}
    BY <1>1, <1>5 DEF McuTaken, LeaveMcu, StuffMcu, DecodeMcu, MisreadMcu
  <2> QED BY <1>1, <2>2, <2>3, <2>4 DEF Counted
<1>6. CASE DataSuspends
  <2>1. /\ UNCHANGED <<next_restart_num, restart_interval, restarts_to_go, insufficient_data,
                       scanning, global_state>>
        /\ bits' \in {bits, "stalled"}
    BY <1>6 DEF DataSuspends
  <2>2. bits' \in {"begin", "aligned", "lost", "stalled"}
    BY <1>1, <2>1
  <2>3. scanning' /\ global_state' \in {"preload", "scanning"} => restarts_to_go' <= restart_interval'
    BY <1>1, <2>1
  <2> QED BY <1>1, <2>1, <2>2, <2>3 DEF Counted
<1>7. CASE StartDecompress
  <2>1. /\ UNCHANGED <<next_restart_num, restart_interval>>
        /\ restarts_to_go' = restart_interval /\ insufficient_data' \in BOOLEAN /\ bits' = "begin"
    BY <1>7 DEF StartDecompress, StartInputPass
  <2> QED BY <1>1, <2>1 DEF Counted
<1>8. ASSUME UNCHANGED <<next_restart_num, restart_interval, restarts_to_go, insufficient_data, bits,
                         scanning>>,
             global_state' = global_state \/ global_state' \in {"inheader", "stopping"}
      PROVE  Counted'
  BY <1>1, <1>8 DEF Counted
<1>9. CASE (MarkersSuspend /\ app # "finish") \/ Allocate \/ OutputRow \/ ReadScanline
  BY <1>8, <1>9 DEF MarkersSuspend, Allocate, OutputRow, ReadScanline
<1>10. CASE CopyLine \/ RunOff \/ LoopEnds \/ freeCameraMemory \/ UNCHANGED vars
  BY <1>8, <1>10 DEF CopyLine, RunOff, LoopEnds, freeCameraMemory, vars
<1>11. ASSUME NEW x, CopyPicture(x) \/ Call(x) PROVE Counted'
  BY <1>8, <1>11 DEF CopyPicture, Call
<1> QED BY <1>2, <1>3, <1>4, <1>5, <1>6, <1>7, <1>9, <1>10, <1>11, StepCases

(* The scanline loop ends only after lines were delivered.                  *)
LEMMA StoppingFromScanning ==
    ASSUME TypeInv, LoopEnds
    PROVE  global_state = "scanning"
<1> SUFFICES ASSUME global_state # "scanning" PROVE FALSE
  OBVIOUS
<1>1. output_scanline = 0 /\ ~inheaders
  BY DEF LoopEnds, TypeInv, Sized, Staged
<1>2. sof.height \in Nat \ {0}
  <2>1. GoodSof(sof)
    BY <1>1 DEF TypeInv, Sized
  <2> QED BY <2>1, Bounds DEF GoodSof
<1> QED BY <1>1, <1>2 DEF LoopEnds

(* Where the program and the library are                                    *)
LEMMA StageKept ==
    ASSUME TypeInv, [Next]_vars
    PROVE  CallTyped' /\ Staged'
<1> USE DEF appVars, tableVars, readVars, inputVars, outputVars, passVars, cinfo
<1>1. CallTyped /\ Staged
  BY DEF TypeInv
<1>2. CASE ErrorExit
  <2>1. /\ app' = "bitmap" /\ global_state' = "none" /\ inheaders' = TRUE /\ eoi_reached' = FALSE
        /\ has_multiple_scans' = FALSE /\ saw_SOI' = FALSE /\ scanning' = FALSE
    BY <1>2 DEF ErrorExit, Destroyed
  <2>2. CallTyped'
    BY <2>1 DEF CallTyped
  <2>3. Staged'
    BY <2>1 DEF Staged
  <2> QED BY <2>2, <2>3
<1>3. ASSUME UNCHANGED <<inheaders, eoi_reached, has_multiple_scans, saw_SOI>>,
             scanning' \in BOOLEAN,
             \/ UNCHANGED <<app, global_state>>
             \/ app = "header" /\ app' = "start" /\ UNCHANGED global_state
             \/ app = "preload" /\ app' = "alloc" /\ UNCHANGED global_state
             \/ app = "alloc" /\ app' = "loop" /\ UNCHANGED global_state
             \/ app = "loop" /\ global_state = "scanning" /\ app' = "copy" /\ UNCHANGED global_state
             \/ app = "copy" /\ app' \in {"loop", "off"} /\ UNCHANGED global_state
             \/ app = "bitmap" /\ app' \in {"idle", "crashed"} /\ UNCHANGED global_state
             \/ app = "idle" /\ app' = "header" /\ global_state' = "inheader"
             \/ app = "loop" /\ global_state = "scanning" /\ app' = "finish"
                  /\ global_state' = "stopping"
      PROVE  CallTyped' /\ Staged'
  <2>1. CallTyped'
    BY <1>1, <1>3 DEF CallTyped, Staged
  <2>2. Staged'
    BY <1>1, <1>3 DEF CallTyped, Staged
  <2> QED BY <2>1, <2>2
<1>4. ASSUME NEW k \in Marker, MarkerRead(k) PROVE CallTyped' /\ Staged'
  <2>1. /\ app \in {"header", "preload", "finish"}
        /\ app = "header" <=> inheaders
        /\ app = "header" => global_state = "inheader"
        /\ app = "preload" => global_state = "preload" /\ has_multiple_scans
        /\ app = "finish" => global_state = "stopping"
    BY <1>4, MarkersOutside
  <2>2. CASE get_soi(k)
    <3>1. /\ UNCHANGED <<app, global_state, inheaders, eoi_reached, has_multiple_scans, scanning>>
          /\ saw_SOI' = TRUE
      BY <2>2 DEF get_soi
    <3> QED BY <1>1, <3>1 DEF CallTyped, Staged
  <2>3. CASE get_dqt(k) \/ get_dht(k) \/ get_dri(k) \/ SkipMarker(k) \/ get_sof(k)
    <3>1. UNCHANGED <<app, global_state, inheaders, eoi_reached, has_multiple_scans, saw_SOI,
                      scanning>>
      BY <2>3 DEF get_dqt, get_dht, get_dri, SkipMarker, get_sof
    <3> QED BY <1>1, <1>3, <3>1 DEF CallTyped
  <2>4. CASE FirstScan(k)
    <3>1. /\ UNCHANGED <<eoi_reached, saw_SOI, scanning>>
          /\ inheaders' = FALSE /\ has_multiple_scans' \in BOOLEAN
          /\ global_state' = "ready" /\ app' = "start"
      BY <2>4 DEF FirstScan
    <3>2. CallTyped'
      BY <1>1, <3>1 DEF CallTyped
    <3>3. Staged'
      BY <3>1 DEF Staged
    <3> QED BY <3>2, <3>3
  <2>5. CASE NextScan(k)
    <3>1. UNCHANGED <<app, global_state, inheaders, eoi_reached, has_multiple_scans, saw_SOI>>
      BY <2>5 DEF NextScan
    <3>2. scanning' = TRUE
      BY <2>5 DEF NextScan, StartInputPass
    <3> QED BY <1>3, <3>1, <3>2
  <2>6. CASE EndOfImage(k)
    <3>1. /\ UNCHANGED <<inheaders, has_multiple_scans, saw_SOI, scanning>>
          /\ eoi_reached' = TRUE
      BY <2>6 DEF EndOfImage
    <3>2. ~inheaders
      BY <2>6 DEF EndOfImage, Process, Fatal
    <3>3. \/ app = "preload" /\ app' = "alloc" /\ global_state' = "scanning"
          \/ app = "finish" /\ UNCHANGED <<app, global_state>>
      BY <2>1, <2>6, <3>2 DEF EndOfImage
    <3>4. CallTyped'
      BY <1>1, <3>1, <3>3 DEF CallTyped, Staged
    <3>5. Staged'
      BY <1>1, <2>1, <3>1, <3>2, <3>3 DEF Staged
    <3> QED BY <3>4, <3>5
  <2> QED BY <1>4, <2>2, <2>3, <2>4, <2>5, <2>6 DEF MarkerRead
<1>5. ASSUME NEW k, ProcessRestart(k) PROVE CallTyped' /\ Staged'
  <2>1. UNCHANGED <<app, global_state, inheaders, eoi_reached, has_multiple_scans, saw_SOI, scanning>>
    BY <1>5 DEF ProcessRestart
  <2> QED BY <1>1, <1>3, <2>1 DEF CallTyped
<1>6. CASE McuTaken
  <2>1. UNCHANGED <<app, global_state, inheaders, eoi_reached, has_multiple_scans, saw_SOI>>
    BY <1>6, McuWanted DEF McuDone
  <2>2. scanning' \in BOOLEAN
    <3>1. scanning' = scanning \/ scanning' = (input_iMCU_row + 1 < TotalRows)
      BY <1>6, McuWanted DEF McuDone
    <3>2. scanning \in BOOLEAN /\ (input_iMCU_row + 1 < TotalRows) \in BOOLEAN
      BY <1>1 DEF CallTyped
    <3> QED BY <3>1, <3>2
  <2> QED BY <1>3, <2>1, <2>2
<1>7. CASE DataSuspends
  <2>1. /\ UNCHANGED <<global_state, inheaders, eoi_reached, has_multiple_scans, saw_SOI, scanning>>
        /\ \/ app = "preload" /\ app' = "alloc"
           \/ app = "loop" /\ global_state = "scanning" /\ app' = "copy"
    BY <1>7, McuWanted DEF DataSuspends
  <2> QED BY <1>1, <1>3, <2>1 DEF CallTyped
<1>8. CASE StartDecompress
  <2>1. /\ UNCHANGED <<inheaders, eoi_reached, has_multiple_scans, saw_SOI>>
        /\ scanning' = TRUE /\ app = "start" /\ global_state = "ready"
        /\ IF has_multiple_scans THEN app' = "preload" /\ global_state' = "preload"
           ELSE app' = "alloc" /\ global_state' = "scanning"
    BY <1>8 DEF StartDecompress, StartInputPass
  <2>2. CallTyped'
    BY <1>1, <2>1 DEF CallTyped
  <2>3. Staged'
    BY <1>1, <2>1 DEF Staged
  <2> QED BY <2>2, <2>3
<1>9. CASE LoopEnds
  <2>1. global_state = "scanning"
    BY <1>9, StoppingFromScanning
  <2>2. /\ UNCHANGED <<inheaders, eoi_reached, has_multiple_scans, saw_SOI, scanning>>
        /\ app = "loop" /\ app' = "finish" /\ global_state' = "stopping"
    BY <1>9 DEF LoopEnds
  <2> QED BY <1>1, <1>3, <2>1, <2>2 DEF CallTyped
<1>10. ASSUME NEW x, CopyPicture(x) PROVE CallTyped' /\ Staged'
  <2>1. /\ UNCHANGED <<global_state, inheaders, eoi_reached, has_multiple_scans, saw_SOI, scanning>>
        /\ app = "bitmap" /\ app' \in {"idle", "crashed"}
    BY <1>10 DEF CopyPicture
  <2> QED BY <1>1, <1>3, <2>1 DEF CallTyped
<1>11. ASSUME NEW x, Call(x) PROVE CallTyped' /\ Staged'
  <2>1. /\ UNCHANGED <<inheaders, eoi_reached, has_multiple_scans, saw_SOI, scanning>>
        /\ app = "idle" /\ app' = "header" /\ global_state' = "inheader"
    BY <1>11 DEF Call
  <2> QED BY <1>1, <1>3, <2>1 DEF CallTyped
<1>12. CASE MarkersSuspend /\ app # "finish"
  <2>1. /\ UNCHANGED <<global_state, inheaders, eoi_reached, has_multiple_scans, saw_SOI, scanning>>
        /\ \/ app = "header" /\ app' = "start"
           \/ app = "preload" /\ app' = "alloc"
    BY <1>12 DEF MarkersSuspend, ReadsMarkers
  <2> QED BY <1>1, <1>3, <2>1 DEF CallTyped
<1>13. CASE Allocate \/ ReadScanline \/ CopyLine \/ RunOff
  <2>1. /\ UNCHANGED <<global_state, inheaders, eoi_reached, has_multiple_scans, saw_SOI, scanning>>
        /\ \/ app = "alloc" /\ app' = "loop"
           \/ app = "loop" /\ global_state = "scanning" /\ app' = "copy"
           \/ app = "copy" /\ app' \in {"loop", "off"}
    BY <1>13 DEF Allocate, ReadScanline, CopyLine, RunOff
  <2> QED BY <1>1, <1>3, <2>1 DEF CallTyped
<1>14. CASE OutputRow \/ freeCameraMemory \/ UNCHANGED vars
  <2>1. UNCHANGED <<app, global_state, inheaders, eoi_reached, has_multiple_scans, saw_SOI, scanning>>
    BY <1>14 DEF OutputRow, freeCameraMemory, vars
  <2> QED BY <1>1, <1>3, <2>1 DEF CallTyped
<1> QED BY <1>2, <1>4, <1>5, <1>6, <1>7, <1>8, <1>9, <1>10, <1>11, <1>12, <1>13, <1>14, StepCases

RowsKnown == GoodSof(sof) => TotalRows \in Nat \ {0}

(* A picture has rows, and has them in the next state.                      *)
LEMMA RowsKnownHold == RowsKnown
BY Sizes DEF RowsKnown

LEMMA RowsKnownNext == RowsKnown'
BY RowsKnownHold, PTL

(* Neither input nor output passes the last row of the picture.             *)
LEMMA SizesKept ==
    ASSUME TypeInv, [Next]_vars
    PROVE  ScanTyped' /\ Sized'
<1> USE DEF appVars, tableVars, readVars, inputVars, outputVars, passVars, coefVars, cinfo
<1>1. ScanTyped /\ Sized /\ Staged
  BY DEF TypeInv
<1>2. ~inheaders => /\ GoodSof(sof) /\ sof # NoSof /\ scan # {} /\ scan \subseteq Comps
                    /\ TotalRows \in Nat \ {0} /\ RowLines \in Nat \ {0}
                    /\ sof.height \in Nat \ {0}
                    /\ \A row \in Nat : RowsPerIMCU(row) \in Nat \ {0}
  <2> SUFFICES ASSUME ~inheaders
               PROVE  /\ GoodSof(sof) /\ sof # NoSof /\ scan # {} /\ scan \subseteq Comps
                      /\ TotalRows \in Nat \ {0} /\ RowLines \in Nat \ {0}
                      /\ sof.height \in Nat \ {0}
                      /\ \A row \in Nat : RowsPerIMCU(row) \in Nat \ {0}
    OBVIOUS
  <2>1. GoodSof(sof) /\ sof # NoSof /\ scan # {} /\ scan \subseteq Comps
    BY <1>1 DEF Sized, ScanTyped
  <2>2. \A row \in Nat : RowsPerIMCU(row) \in Nat \ {0}
    BY <2>1, RowsPositive
  <2>3. sof.height \in Nat \ {0}
    BY <2>1, Bounds DEF GoodSof
  <2> QED BY <2>1, <2>2, <2>3, Sizes
<1>3. CASE ErrorExit
  <2>1. /\ sof' = NoSof /\ scan' = {} /\ inheaders' = TRUE /\ global_state' = "none"
        /\ scanning' = FALSE /\ input_iMCU_row' = 0 /\ MCU_vert_offset' = 0
        /\ output_iMCU_row' = 0 /\ output_scanline' = 0
    BY <1>3 DEF ErrorExit, Destroyed
  <2>2. ScanTyped'
    BY <2>1 DEF ScanTyped
  <2>3. Sized'
    BY <2>1 DEF Sized
  <2> QED BY <2>2, <2>3
<1>4. ASSUME UNCHANGED <<sof, scan, inheaders, input_iMCU_row, MCU_vert_offset, output_iMCU_row,
                         output_scanline, scanning, has_multiple_scans>>,
             \/ UNCHANGED global_state
             \/ global_state = "none" /\ global_state' = "inheader"
             \/ global_state = "scanning" /\ global_state' = "stopping"
             \/ global_state = "preload" /\ global_state' = "scanning" /\ has_multiple_scans
      PROVE  ScanTyped' /\ Sized'
  <2>1. /\ Comps' = Comps /\ TotalRows' = TotalRows /\ (GoodSof(sof)' <=> GoodSof(sof))
        /\ \A row : RowsPerIMCU(row)' = RowsPerIMCU(row)
    BY <1>4, SameSizes
  <2>2. ScanTyped'
    BY <1>1, <1>4, <2>1 DEF ScanTyped
  <2>3. Sized'
    BY <1>1, <1>4, <2>1 DEF Sized
  <2> QED BY <2>2, <2>3
<1>5. ASSUME NEW k \in Marker, MarkerRead(k) PROVE ScanTyped' /\ Sized'
  <2>1. /\ k \in 1..Size(frame) /\ frame \in Frames
        /\ app = "header" <=> inheaders
        /\ app = "header" => global_state = "inheader"
        /\ app = "preload" => global_state = "preload" /\ has_multiple_scans
        /\ app = "finish" => global_state = "stopping"
        /\ app \in {"header", "preload", "finish"}
    BY <1>5, MarkersOutside
  <2>2. CASE get_soi(k) \/ get_dqt(k) \/ get_dht(k) \/ get_dri(k) \/ SkipMarker(k)
    BY <1>4, <2>2 DEF get_soi, get_dqt, get_dht, get_dri, SkipMarker
  <2>3. CASE get_sof(k)
    <3>1. /\ sof' = Token(frame, k) /\ Token(frame, k).kind = "sof" /\ ~Fatal(Token(frame, k))
          /\ UNCHANGED <<scan, inheaders, input_iMCU_row, MCU_vert_offset, output_iMCU_row,
                         output_scanline, scanning, has_multiple_scans, global_state>>
      BY <2>3 DEF get_sof, Process
    <3>2. GoodSof(sof')
      BY <2>1, <3>1, TokenFacts
    <3>3. inheaders /\ global_state = "inheader"
      BY <1>1, <2>1, <3>1 DEF Fatal, Sized
    <3>4. /\ scan = {} /\ input_iMCU_row = 0 /\ output_iMCU_row = 0 /\ output_scanline = 0
          /\ ~scanning
      BY <1>1, <3>3 DEF Sized
    <3>5. TotalRows' \in Nat \ {0} /\ sof'.height \in Nat
      <4>1. TotalRows' \in Nat \ {0}
        BY <3>2, RowsKnownNext DEF RowsKnown
      <4>2. sof'.height \in Nat
        BY <3>2, Bounds DEF GoodSof
      <4> QED BY <4>1, <4>2
    <3>6. ScanTyped'
      BY <3>1, <3>4, <3>5 DEF ScanTyped
    <3>7. Sized'
      BY <1>1, <3>1, <3>2, <3>3, <3>4 DEF Sized
    <3> QED BY <3>6, <3>7
  <2>4. ASSUME FirstScan(k) \/ NextScan(k)
        PROVE  /\ GoodSof(sof') /\ sof' # NoSof /\ UNCHANGED sof
               /\ scan' # {} /\ scan' \subseteq Comps' /\ Comps' = Comps /\ TotalRows' = TotalRows
               /\ TotalRows \in Nat \ {0}
               /\ \A row \in Nat : RowsPerIMCU(row)' \in Nat \ {0}
    <3>1. /\ sof' = sof /\ scan' = Token(frame, k).comps
          /\ Token(frame, k).kind = "sos" /\ ~Fatal(Token(frame, k))
      BY <2>4 DEF FirstScan, NextScan, Process
    <3>2. sof # NoSof /\ Token(frame, k).comps \subseteq Comps
      BY <3>1 DEF Fatal
    <3>3. GoodSof(sof)
      BY <1>1, <3>2 DEF Sized
    <3>4. Token(frame, k).comps # {}
      BY <2>1, <3>1, TokenFacts
    <3>5. Comps' = Comps /\ TotalRows' = TotalRows
      BY <3>1, SameSizes
    <3>6. GoodSof(sof') /\ scan' # {} /\ scan' \subseteq Comps'
      BY <3>1, <3>2, <3>3, <3>4, <3>5
    <3>7. TotalRows' \in Nat \ {0} /\ \A row \in Nat : RowsPerIMCU(row)' \in Nat \ {0}
      BY <3>6, RowsOfMcusNext DEF RowsOfMcus
    <3> QED BY <3>1, <3>2, <3>5, <3>6, <3>7
  <2>5. CASE FirstScan(k)
    <3>1. /\ UNCHANGED <<scanning, input_iMCU_row, MCU_vert_offset, output_iMCU_row,
                         output_scanline>>
          /\ inheaders' = FALSE /\ global_state' = "ready" /\ inheaders
      BY <2>5 DEF FirstScan
    <3>2. ~scanning /\ output_scanline = 0 /\ output_iMCU_row = 0 /\ input_iMCU_row = 0
      BY <1>1, <2>1, <3>1 DEF Sized
    <3>3. sof'.height \in Nat
      BY <2>4, <2>5, Bounds DEF GoodSof
    <3>4. ~scanning'
      BY <3>1, <3>2
    <3>5. ScanTyped'
      BY <2>4, <2>5, <3>1, <3>2, <3>3, <3>4 DEF ScanTyped
    <3>6. MCU_vert_offset \in Nat
      BY <1>1 DEF Sized
    <3>7. Sized'
      BY <2>4, <2>5, <3>1, <3>2, <3>4, <3>6 DEF Sized
    <3> QED BY <3>5, <3>7
  <2>6. CASE NextScan(k)
    <3>1. /\ UNCHANGED <<output_iMCU_row, output_scanline, inheaders, global_state,
                         has_multiple_scans>>
          /\ scanning' = TRUE /\ input_iMCU_row' = 0 /\ MCU_vert_offset' = 0 /\ ~inheaders
      BY <2>6 DEF NextScan, StartInputPass
    <3>2. app # "finish"
      <4>1. app = "finish" => ~eoi_reached
        BY <2>6 DEF NextScan, Process, ReadsMarkers
      <4>2. has_multiple_scans
        BY <2>6, <3>1 DEF NextScan, Process, Fatal
      <4> QED BY <1>1, <2>1, <4>1, <4>2 DEF Staged
    <3>3. global_state = "preload" /\ has_multiple_scans
      BY <2>1, <3>1, <3>2
    <3>4. ScanTyped'
      BY <1>1, <2>4, <2>6, <3>1 DEF ScanTyped
    <3>5. Sized'
      BY <1>1, <2>4, <2>6, <3>1, <3>3 DEF Sized
    <3> QED BY <3>4, <3>5
  <2>7. CASE EndOfImage(k)
    <3>1. UNCHANGED <<sof, scan, inheaders, input_iMCU_row, MCU_vert_offset, output_iMCU_row,
                      output_scanline, scanning, has_multiple_scans>>
      BY <2>7 DEF EndOfImage
    <3>2. \/ UNCHANGED global_state
          \/ global_state = "preload" /\ global_state' = "scanning" /\ has_multiple_scans
      BY <2>1, <2>7 DEF EndOfImage
    <3> QED BY <1>4, <3>1, <3>2
  <2> QED BY <1>5, <2>2, <2>3, <2>5, <2>6, <2>7 DEF MarkerRead
<1>6. CASE McuTaken
  <2>1. /\ scanning /\ ~inheaders /\ McuDone
        /\ \/ global_state = "preload" /\ has_multiple_scans
           \/ global_state = "scanning" /\ ~has_multiple_scans
    BY <1>1, <1>6, McuWanted DEF Staged
  <2>2. /\ UNCHANGED <<sof, scan, inheaders, has_multiple_scans, global_state, output_scanline>>
        /\ \/ /\ MCU_vert_offset + 1 < RowsPerIMCU(input_iMCU_row)
              /\ MCU_vert_offset' = MCU_vert_offset + 1
              /\ UNCHANGED <<input_iMCU_row, output_iMCU_row, scanning>>
           \/ /\ MCU_vert_offset' = 0 /\ input_iMCU_row' = input_iMCU_row + 1
              /\ scanning' = (input_iMCU_row + 1 < TotalRows)
              /\ output_iMCU_row' = output_iMCU_row + (IF has_multiple_scans THEN 0 ELSE 1)
    BY <2>1 DEF McuDone
  <2>3. /\ Comps' = Comps /\ TotalRows' = TotalRows /\ (GoodSof(sof)' <=> GoodSof(sof))
        /\ \A row : RowsPerIMCU(row)' = RowsPerIMCU(row)
    BY <2>2, SameSizes
  <2>4. /\ input_iMCU_row \in Nat /\ input_iMCU_row < TotalRows /\ MCU_vert_offset \in Nat
        /\ output_iMCU_row \in 0..TotalRows /\ output_scanline \in 0..sof.height
        /\ ~has_multiple_scans => output_iMCU_row = input_iMCU_row
        /\ has_multiple_scans => output_scanline = 0 /\ output_iMCU_row = 0
    BY <1>1, <1>2, <2>1 DEF Sized, ScanTyped
  <2>5. CASE UNCHANGED <<input_iMCU_row, output_iMCU_row, scanning>>
             /\ MCU_vert_offset' = MCU_vert_offset + 1
             /\ MCU_vert_offset + 1 < RowsPerIMCU(input_iMCU_row)
    <3>1. ScanTyped'
      BY <1>1, <1>2, <2>1, <2>2, <2>3, <2>4, <2>5 DEF ScanTyped
    <3>2. Sized'
      BY <1>1, <1>2, <2>1, <2>2, <2>3, <2>4, <2>5 DEF Sized
    <3> QED BY <3>1, <3>2
  <2>6. CASE /\ MCU_vert_offset' = 0 /\ input_iMCU_row' = input_iMCU_row + 1
             /\ scanning' = (input_iMCU_row + 1 < TotalRows)
             /\ output_iMCU_row' = output_iMCU_row + (IF has_multiple_scans THEN 0 ELSE 1)
    <3>1. /\ scanning' <=> input_iMCU_row + 1 < TotalRows
          /\ input_iMCU_row + 1 \in 0..TotalRows /\ input_iMCU_row + 1 \in Nat
          /\ output_iMCU_row' \in 0..TotalRows
          /\ ~has_multiple_scans => output_iMCU_row' = input_iMCU_row + 1
          /\ has_multiple_scans => output_iMCU_row' = 0
      <4>1. scanning' <=> input_iMCU_row + 1 < TotalRows
        BY <2>6
      <4>2. TotalRows \in Nat
        BY <1>2, <2>1
      <4>3. output_iMCU_row' = IF has_multiple_scans THEN output_iMCU_row ELSE output_iMCU_row + 1
        BY <2>4, <2>6
      <4> QED BY <2>4, <4>1, <4>2, <4>3
    <3>2. RowsPerIMCU(input_iMCU_row + 1) \in Nat \ {0}
      BY <1>2, <2>1, <3>1
    <3>3. ScanTyped'
      BY <1>1, <1>2, <2>1, <2>2, <2>3, <2>4, <2>6, <3>1, <3>2 DEF ScanTyped
    <3>4. Sized'
      BY <1>1, <1>2, <2>1, <2>2, <2>3, <2>4, <2>6, <3>1 DEF Sized
    <3> QED BY <3>3, <3>4
  <2> QED BY <2>2, <2>5, <2>6
<1>7. CASE StartDecompress
  <2>1. /\ global_state = "ready" /\ ~inheaders
        /\ UNCHANGED <<sof, scan, inheaders, has_multiple_scans, output_iMCU_row, output_scanline>>
        /\ scanning' = TRUE /\ input_iMCU_row' = 0 /\ MCU_vert_offset' = 0
        /\ global_state' = IF has_multiple_scans THEN "preload" ELSE "scanning"
    BY <1>1, <1>7 DEF StartDecompress, StartInputPass, Staged
  <2>2. /\ Comps' = Comps /\ TotalRows' = TotalRows /\ (GoodSof(sof)' <=> GoodSof(sof))
        /\ \A row : RowsPerIMCU(row)' = RowsPerIMCU(row)
    BY <2>1, SameSizes
  <2>3. ScanTyped'
    BY <1>1, <1>2, <2>1, <2>2 DEF ScanTyped
  <2>4. Sized'
    BY <1>1, <1>2, <2>1, <2>2 DEF Sized
  <2> QED BY <2>3, <2>4
<1>8. CASE OutputRow \/ ReadScanline
  <2>1. /\ UNCHANGED <<sof, scan, inheaders, has_multiple_scans, global_state, scanning,
                       input_iMCU_row, MCU_vert_offset>>
        /\ app = "loop" /\ global_state = "scanning" /\ ~inheaders /\ output_scanline < sof.height
    BY <1>1, <1>8 DEF OutputRow, ReadScanline, WantsRow, Staged
  <2>2. /\ Comps' = Comps /\ TotalRows' = TotalRows /\ (GoodSof(sof)' <=> GoodSof(sof))
        /\ \A row : RowsPerIMCU(row)' = RowsPerIMCU(row)
    BY <2>1, SameSizes
  <2>3. /\ output_iMCU_row \in Nat /\ output_iMCU_row <= TotalRows
        /\ output_scanline \in Nat /\ output_scanline <= sof.height
    BY <1>1, <1>2, <2>1 DEF Sized, ScanTyped
  <2>4. /\ output_iMCU_row' \in 0..TotalRows /\ output_scanline' \in 0..sof.height
        /\ ~has_multiple_scans => output_iMCU_row' = output_iMCU_row
    <3>1. CASE OutputRow
      <4>1. output_iMCU_row' = output_iMCU_row + 1 /\ has_multiple_scans
            /\ UNCHANGED output_scanline
        BY <3>1 DEF OutputRow
      <4>2. output_iMCU_row * RowLines \in Nat
        BY <1>2, <2>1, <2>3
      <4>3. ~(output_scanline < output_iMCU_row * RowLines)
        BY <3>1 DEF OutputRow, WantsRow, BufferFull
      <4>4. output_iMCU_row * RowLines < sof.height
        BY <1>2, <2>1, <2>3, <4>2, <4>3
      <4>5. output_iMCU_row < TotalRows
        BY <1>2, <2>1, <2>3, <4>4, RowInside
      <4> QED BY <1>2, <2>1, <2>3, <4>1, <4>5
    <3>2. CASE ReadScanline
      BY <1>2, <2>1, <2>3, <3>2 DEF ReadScanline
    <3> QED BY <1>8, <3>1, <3>2
  <2>5. ScanTyped'
    BY <1>1, <2>1, <2>2, <2>4 DEF ScanTyped
  <2>6. Sized'
    BY <1>1, <1>2, <2>1, <2>2, <2>3, <2>4 DEF Sized
  <2> QED BY <2>5, <2>6
<1>9. ASSUME NEW k, ProcessRestart(k) PROVE ScanTyped' /\ Sized'
  BY <1>4, <1>9 DEF ProcessRestart
<1>10. CASE (MarkersSuspend /\ app # "finish") \/ DataSuspends \/ Allocate
  BY <1>4, <1>10 DEF MarkersSuspend, DataSuspends, Allocate
<1>11. CASE CopyLine \/ RunOff \/ freeCameraMemory \/ UNCHANGED vars
  BY <1>4, <1>11 DEF CopyLine, RunOff, freeCameraMemory, vars
<1>12. CASE LoopEnds
  <2>1. UNCHANGED <<sof, scan, inheaders, input_iMCU_row, MCU_vert_offset, output_iMCU_row,
                    output_scanline, scanning, has_multiple_scans>>
    BY <1>12 DEF LoopEnds
  <2>2. global_state' = "stopping" /\ app = "loop" /\ output_scanline >= sof.height
    BY <1>12 DEF LoopEnds
  <2>3. global_state = "scanning"
    BY <1>12, StoppingFromScanning
  <2> QED BY <1>4, <2>1, <2>2, <2>3
<1>13. ASSUME NEW x, CopyPicture(x) PROVE ScanTyped' /\ Sized'
  BY <1>4, <1>13 DEF CopyPicture
<1>14. ASSUME NEW x, app = "idle", Call(x) PROVE ScanTyped' /\ Sized'
  <2>1. global_state = "none"
    BY <1>14 DEF TypeInv, CallTyped
  <2> QED BY <1>4, <1>14, <2>1 DEF Call
<1> QED BY <1>3, <1>5, <1>6, <1>7, <1>8, <1>9, <1>10, <1>11, <1>12, <1>13, <1>14, StepCases

(* A line that is delivered has the values of blocks.                       *)
LEMMA LineDelivered ==
    ASSUME TypeInv, ReadScanline
    PROVE  LineOf(output_scanline) \subseteq Values
<1>1. output_scanline \in Nat /\ output_scanline < sof.height
  BY DEF TypeInv, DecoderInv, RowsOK, ReadScanline
<1>2. GoodSof(sof)
  BY DEF TypeInv, Staged, Sized, ReadScanline
<1>3. ASSUME NEW c \in Comps
      PROVE  Sample(c, (output_scanline * sof.v[c]) \div RowLines) \in Values
  <2> DEFINE b == <<c, (output_scanline * sof.v[c]) \div RowLines>>
  <2>1. b \in Components \X (0..MaxLines)
    BY <1>1, <1>2, LineInside
  <2>2. coef[b].from \in Values
    BY <2>1 DEF TypeInv, CoefTyped
  <2> QED BY <2>2 DEF Sample, Values
<1> QED BY <1>3 DEF LineOf

(* The picture and the line that is copied into it                          *)
LEMMA PictureKept ==
    ASSUME TypeInv, [Next]_vars
    PROVE  PictureTyped'
<1> USE DEF appVars, cinfo
<1>1. /\ IMG_HEIGHT \in {-1} \cup 1..MaxLines /\ DOMAIN rgb = 1..Len(rgb)
      /\ Len(rgb) \in {0, IMG_HEIGHT} /\ Len(rgb) \in Nat
      /\ \A i \in DOMAIN rgb : rgb[i] \in LineValues
      /\ y \in 0..MaxLines /\ jpegbuffer \in LineValues
  <2>1. PictureTyped /\ IsSeq(rgb)
    BY DEF TypeInv, DecoderInv, RowsOK
  <2>2. Len(rgb) \in Nat
    BY <2>1 DEF IsSeq
  <2> QED BY <2>1, <2>2 DEF PictureTyped
<1>2. /\ DOMAIN rgb' = 1..Len(rgb') /\ Len(rgb') \in {0, IMG_HEIGHT'}
  <2>1. DecoderInv'
    BY DecoderStep DEF TypeInv
  <2> QED BY <2>1 DEF DecoderInv, RowsOK, IsSeq
<1>3. MaxLines \in Nat
  BY Bounds
<1>4. ASSUME UNCHANGED <<IMG_HEIGHT, rgb, y, jpegbuffer>> PROVE PictureTyped'
  BY <1>1, <1>4 DEF PictureTyped
<1>5. CASE Allocate
  <2>1. jpegbuffer' = {"raw"} /\ y' = 0
    BY <1>5 DEF Allocate
  <2>2. jpegbuffer' \in LineValues /\ y' \in 0..MaxLines
    BY <1>3, <2>1 DEF LineValues
  <2>3. CASE UNCHANGED <<IMG_HEIGHT, rgb>>
    BY <1>1, <2>2, <2>3 DEF PictureTyped
  <2>4. CASE IMG_HEIGHT' = sof.height /\ rgb' = [i \in 1..sof.height |-> {"raw"}]
    <3>1. GoodSof(sof)
      BY <1>5 DEF Allocate, TypeInv, Staged, Sized
    <3>2. IMG_HEIGHT' \in {-1} \cup 1..MaxLines
      BY <2>4, <3>1 DEF GoodSof
    <3>3. \A i \in DOMAIN rgb' : rgb'[i] \in LineValues
      BY <2>4 DEF LineValues
    <3> QED BY <1>2, <2>2, <3>2, <3>3 DEF PictureTyped
  <2> QED BY <1>5, <2>3, <2>4 DEF Allocate
<1>6. CASE ReadScanline
  <2>1. UNCHANGED <<IMG_HEIGHT, rgb, y>> /\ jpegbuffer' = LineOf(output_scanline)
    BY <1>6 DEF ReadScanline
  <2>2. jpegbuffer' \in LineValues
    BY <1>6, <2>1, LineDelivered DEF LineValues
  <2> QED BY <1>1, <2>1, <2>2 DEF PictureTyped
<1>7. CASE CopyLine
  <2>1. /\ UNCHANGED <<IMG_HEIGHT, jpegbuffer>> /\ y < Len(rgb) /\ y' = y + 1
        /\ rgb' = [rgb EXCEPT ![y + 1] = jpegbuffer]
    BY <1>7 DEF CopyLine
  <2>2. \A i \in DOMAIN rgb' : rgb'[i] \in LineValues
    BY <1>1, <2>1
  <2>3. y' \in 0..MaxLines
    <3>1. /\ Len(rgb) \in {0, IMG_HEIGHT} /\ IMG_HEIGHT \in {-1} \cup 1..MaxLines
          /\ y \in 0..MaxLines
      BY <1>1
    <3>2. y < Len(rgb) /\ y' = y + 1
      BY <2>1
    <3> QED BY <1>3, <3>1, <3>2
  <2> QED BY <1>1, <1>2, <2>1, <2>2, <2>3 DEF PictureTyped
<1>8. ASSUME NEW bmp, CopyPicture(bmp) PROVE PictureTyped'
  <2>1. /\ UNCHANGED IMG_HEIGHT /\ y' = 0 /\ jpegbuffer' = {}
        /\ rgb' = [i \in DOMAIN rgb |-> IF rgb[i] = {"raw"} THEN {"raw"} ELSE {"old"}]
    BY <1>8 DEF CopyPicture
  <2>2. \A i \in DOMAIN rgb' : rgb'[i] \in LineValues
    BY <2>1 DEF LineValues
  <2>3. jpegbuffer' \in LineValues /\ y' \in 0..MaxLines
    BY <1>3, <2>1 DEF LineValues
  <2> QED BY <1>1, <1>2, <2>1, <2>2, <2>3 DEF PictureTyped
<1>9. CASE freeCameraMemory
  <2>1. UNCHANGED <<IMG_HEIGHT, y, jpegbuffer>> /\ rgb' = <<>>
    BY <1>9 DEF freeCameraMemory
  <2>2. \A i \in DOMAIN rgb' : rgb'[i] \in LineValues
    BY <2>1
  <2> QED BY <1>1, <1>2, <2>1, <2>2 DEF PictureTyped
<1>10. CASE ErrorExit \/ (MarkersSuspend /\ app # "finish") \/ DataSuspends \/ StartDecompress
  <2>1. CASE ErrorExit \/ DataSuspends \/ StartDecompress
    BY <1>4, <2>1 DEF ErrorExit, DataSuspends, StartDecompress
  <2>2. CASE MarkersSuspend /\ app # "finish"
    BY <1>4, <2>2 DEF MarkersSuspend
  <2> QED BY <1>10, <2>1, <2>2
<1>11. CASE McuTaken
  <2>1. McuDone
    BY <1>11, McuWanted
  <2> QED BY <1>4, <2>1 DEF McuDone
<1>12. CASE OutputRow \/ RunOff \/ LoopEnds \/ UNCHANGED vars
  BY <1>4, <1>12 DEF OutputRow, RunOff, LoopEnds, vars
<1>13. ASSUME NEW k, MarkerRead(k) \/ ProcessRestart(k) PROVE PictureTyped'
  BY <1>4, <1>13 DEF MarkerRead, get_soi, get_dqt, get_dht, get_dri, SkipMarker, get_sof, FirstScan,
                     NextScan, EndOfImage, ProcessRestart
<1>14. ASSUME NEW f, Call(f) PROVE PictureTyped'
  BY <1>4, <1>14 DEF Call
<1>15. CASE (\E k \in Marker : MarkerRead(k)) \/ \E k \in RestartAt : ProcessRestart(k)
  BY <1>13, <1>15
<1>16. CASE (\E bmp \in Bitmaps : CopyPicture(bmp)) \/ \E f \in Frames : Call(f)
  BY <1>8, <1>14, <1>16
<1> QED BY <1>5, <1>6, <1>7, <1>9, <1>10, <1>11, <1>12, <1>15, <1>16, StepCases

(* Every step keeps the types.                                              *)
LEMMA TypeStep ==
    ASSUME TypeInv, [Next]_vars
    PROVE  TypeInv'
<1>1. DecoderInv'
  BY DecoderStep DEF TypeInv
<1>2. CallTyped' /\ Staged' /\ ScanTyped' /\ Sized'
  BY StageKept, SizesKept
<1>3. Counted' /\ ReaderTyped' /\ PictureTyped' /\ CoefTyped'
  BY CountersKept, ReaderKept, PictureKept, CoefKept
<1> QED BY <1>1, <1>2, <1>3 DEF TypeInv

(* The types and what they rest on hold in every state.                     *)
LEMMA TypesKept == Spec => []TypeInv
<1>1. Init => TypeInv
  <2> SUFFICES ASSUME Init PROVE TypeInv
    OBVIOUS
  <2>1. DecoderInv
    BY InitInv
  <2>2. Size(frame) \in Nat
    BY <2>1, FrameFacts DEF DecoderInv, ReaderOK
  <2>3. /\ app = "idle" /\ global_state = "none" /\ inheaders = TRUE /\ eoi_reached = FALSE
        /\ has_multiple_scans = FALSE /\ saw_SOI = FALSE /\ scanning = FALSE
    BY DEF Init
  <2>4. CallTyped
    BY <2>3 DEF CallTyped
  <2>5. Staged
    BY <2>3 DEF Staged
  <2>6. /\ sof = NoSof /\ scan = {} /\ input_iMCU_row = 0 /\ MCU_vert_offset = 0
        /\ output_iMCU_row = 0 /\ output_scanline = 0
    BY DEF Init
  <2>7. ScanTyped
    BY <2>6 DEF ScanTyped
  <2>8. Sized
    BY <2>3, <2>6 DEF Sized
  <2>9. /\ next_restart_num = 0 /\ restart_interval = 0 /\ restarts_to_go = 0
        /\ insufficient_data \in BOOLEAN /\ bits = "begin"
    BY DEF Init
  <2>10. Counted
    BY <2>9 DEF Counted
  <2>11. pos = 1 /\ unread_marker = 0
    BY DEF Init
  <2>12. ReaderTyped
    BY <2>2, <2>11 DEF ReaderTyped
  <2>13. IMG_HEIGHT = -1 /\ rgb = <<>> /\ y = 0 /\ jpegbuffer = {}
    BY DEF Init
  <2>14. PictureTyped
    BY <2>13, Bounds DEF PictureTyped, LineValues
  <2>15. CoefTyped
    BY DEF Init, CoefTyped, GreyBlocks, Block, Values
  <2> QED BY <2>1, <2>4, <2>5, <2>7, <2>8, <2>10, <2>12, <2>14, <2>15 DEF TypeInv
<1>2. TypeInv /\ [Next]_vars => TypeInv'
  BY TypeStep
<1> QED BY <1>1, <1>2, PTL DEF Spec

(* Every variable stays in its range: the reader in the frame, input and    *)
(* output within the rows of the picture, the rows of the bitmap's picture  *)
(* within the memory that was allocated, and the restart counter, whenever  *)
(* data is decoded, within its interval (jdinput 400-470, jdcoefct 120-270, *)
(* jdhuff 635-668, ImageProc 219-246).                                      *)
THEOREM TypeCorrect == Spec => []TypeOK
<1>1. TypeInv => TypeOK
  <2> SUFFICES ASSUME TypeInv PROVE TypeOK
    OBVIOUS
  <2>1. NeedsMcu => restarts_to_go <= restart_interval
    <3>1. NeedsMcu => scanning /\ global_state \in {"preload", "scanning"}
      BY DEF NeedsMcu, WantsRow, TypeInv, Staged
    <3> QED BY <3>1 DEF TypeInv, Counted
  <2>2. EntropyTyped
    BY <2>1 DEF TypeInv, Counted, EntropyTyped
  <2> QED BY <2>2 DEF TypeInv, TypeOK
<1> QED BY <1>1, TypesKept, PTL

-----------------------------------------------------------------------------
(* What is left of earlier frames                                           *)

FreshLine(l) == l \cap {"raw", "old"} = {}
FreshTo(n) == \A i \in DOMAIN rgb : i <= n => FreshLine(rgb[i])

(* The data has ended: every call of read_scanlines comes back empty-handed. *)
Stalled ==
    /\ ~has_multiple_scans /\ scanning /\ global_state = "scanning"
    /\ output_scanline < sof.height /\ ~BufferFull
    /\ \/ AtRestart /\ RestartAt = {}
       \/ /\ ~AtRestart /\ ~insufficient_data /\ unread_marker = 0
          /\ MarkerFrom(frame, pos) = {} /\ bits = "stalled"

(* The lines read so far are in the rows above y, unless the data has ended. *)
LinesPlaced ==
    /\ app = "loop" /\ global_state = "scanning" /\ ~Stalled => y = output_scanline /\ FreshTo(y)
    /\ app = "copy" /\ ~Stalled => y + 1 = output_scanline /\ FreshTo(y) /\ FreshLine(jpegbuffer)
    /\ app = "finish" => FreshTo(sof.height)

(* Nothing more is decoded then, and no line is complete.                   *)
LEMMA StalledStays ==
    ASSUME TypeInv, Stalled
    PROVE  /\ ~McuTaken /\ ~ReadScanline /\ ~OutputRow /\ ~LoopEnds
           /\ \A k \in RestartAt : ~ProcessRestart(k)
<1>1. ~ReadScanline /\ ~OutputRow
  BY DEF Stalled, ReadScanline, OutputRow
<1>2. ~LoopEnds
  <2>1. output_scanline \in Nat /\ sof.height \in Nat
    BY DEF TypeInv, DecoderInv, RowsOK
  <2> QED BY <2>1 DEF Stalled, LoopEnds
<1>3. \A k \in RestartAt : ~ProcessRestart(k)
  BY DEF Stalled, ProcessRestart
<1>4. ~McuTaken
  <2> SUFFICES ASSUME McuTaken PROVE FALSE
    OBVIOUS
  <2>1. ~AtRestart
    BY McuWanted
  <2>2. ~insufficient_data /\ unread_marker = 0 /\ MarkerFrom(frame, pos) = {} /\ bits = "stalled"
    BY <2>1 DEF Stalled
  <2>3. ~LeaveMcu /\ ~DecodeMcu /\ ~MisreadMcu
    BY <2>2 DEF LeaveMcu, DecodeMcu, MisreadMcu, HasData
  <2>4. ~StuffMcu
    <3> SUFFICES ASSUME pos <= Size(frame), IsMarker(frame, pos) PROVE FALSE
      BY <2>2 DEF StuffMcu
    <3>1. pos \in Nat /\ Size(frame) \in Nat
      BY FrameFacts DEF TypeInv, DecoderInv, ReaderOK
    <3>2. pos \in MarkerFrom(frame, pos)
      BY <3>1 DEF MarkerFrom
    <3> QED BY <2>2, <3>2
  <2> QED BY <2>3, <2>4 DEF McuTaken
<1> QED BY <1>1, <1>2, <1>3, <1>4

(* A call of read_scanlines that the data suspended will never succeed.     *)
LEMMA SuspendStalls ==
    ASSUME TypeInv, DataSuspends, app = "loop"
    PROVE  Stalled'
<1> USE DEF appVars, tableVars, readVars, inputVars, outputVars, passVars, coefVars
<1>1. /\ UNCHANGED <<frame, pos, unread_marker, sof, restart_interval, next_restart_num,
                     has_multiple_scans, global_state, scanning, restarts_to_go,
                     insufficient_data, output_iMCU_row, output_scanline>>
      /\ \/ AtRestart /\ RestartAt = {}
         \/ /\ ~AtRestart /\ ~insufficient_data /\ unread_marker = 0
            /\ MarkerFrom(frame, pos) = {} /\ bits' = "stalled"
  BY DEF DataSuspends
<1>2. /\ scanning /\ ~has_multiple_scans /\ global_state = "scanning"
      /\ output_scanline < sof.height /\ ~BufferFull
  BY McuWanted DEF NeedsMcu, WantsRow
<1>3. RowLines' = RowLines
  BY <1>1, SameSizes
<1>4. BufferFull' = BufferFull
  BY <1>1, <1>3 DEF BufferFull
<1>5. AtRestart' = AtRestart
  BY <1>1 DEF AtRestart
<1>6. RestartAt' = RestartAt
  BY <1>1 DEF RestartAt, Ends
<1>7. /\ ~has_multiple_scans' /\ scanning' /\ global_state' = "scanning"
      /\ output_scanline' < sof'.height /\ ~BufferFull'
  BY <1>1, <1>2, <1>4
<1>8. \/ AtRestart' /\ RestartAt' = {}
      \/ /\ ~AtRestart' /\ ~insufficient_data' /\ unread_marker' = 0
         /\ MarkerFrom(frame', pos') = {} /\ bits' = "stalled"
  BY <1>1, <1>5, <1>6
<1> QED BY <1>7, <1>8 DEF Stalled

(* All that Stalled depends on                                              *)
LEMMA StalledSame ==
    ASSUME UNCHANGED <<frame, pos, unread_marker, sof, restart_interval, next_restart_num,
                       has_multiple_scans, global_state, scanning, restarts_to_go,
                       insufficient_data, bits, output_iMCU_row, output_scanline>>
    PROVE  Stalled' <=> Stalled
<1>1. RowLines' = RowLines
  BY SameSizes
<1>2. BufferFull' <=> BufferFull
  BY <1>1 DEF BufferFull
<1>3. AtRestart' <=> AtRestart
  BY DEF AtRestart
<1>4. RestartAt' = RestartAt
  BY DEF RestartAt, Ends
<1> QED BY <1>2, <1>3, <1>4 DEF Stalled

(* Every step keeps the lines in their rows.                                *)
LEMMA PlacedKept ==
    ASSUME TypeInv, LinesPlaced, [Next]_vars
    PROVE  LinesPlaced'
<1> USE DEF appVars, tableVars, readVars, inputVars, outputVars, passVars, entropyVars, coefVars,
            cinfo
<1>1. y \in Nat /\ output_scanline \in Nat /\ sof.height \in Nat
  BY DEF TypeInv, DecoderInv, RowsOK
<1>2. ASSUME app' \notin {"loop", "copy", "finish"} PROVE LinesPlaced'
  BY <1>2 DEF LinesPlaced
<1>3. CASE Allocate
  <2>1. app = "alloc" /\ app' = "loop" /\ y' = 0 /\ UNCHANGED output_scanline
    BY <1>3 DEF Allocate
  <2>2. output_scanline = 0
    BY <2>1 DEF TypeInv, DecoderInv, RowsOK
  <2>3. DOMAIN rgb' \subseteq Nat \ {0}
    <3>1. DecoderInv'
      BY DecoderStep DEF TypeInv
    <3>2. DOMAIN rgb' = 1..Len(rgb') /\ Len(rgb') \in Nat
      BY <3>1 DEF DecoderInv, RowsOK, IsSeq
    <3> QED BY <3>2
  <2>4. FreshTo(y)'
    BY <2>1, <2>3 DEF FreshTo
  <2> QED BY <2>1, <2>2, <2>4 DEF LinesPlaced
<1>4. CASE CopyLine
  <2>1. /\ app = "copy" /\ app' = "loop" /\ y' = y + 1 /\ y < Len(rgb)
        /\ rgb' = [rgb EXCEPT ![y + 1] = jpegbuffer]
        /\ UNCHANGED <<frame, cinfo>>
    BY <1>4 DEF CopyLine
  <2>2. Stalled' <=> Stalled
    <3>1. UNCHANGED <<frame, pos, unread_marker, sof, restart_interval, next_restart_num,
                      has_multiple_scans, global_state, scanning, restarts_to_go,
                      insufficient_data, bits, output_iMCU_row, output_scanline>>
      BY <2>1
    <3> QED BY <3>1, StalledSame
  <2>3. ASSUME ~Stalled PROVE y' = output_scanline' /\ FreshTo(y)'
    <3>1. y + 1 = output_scanline /\ FreshTo(y) /\ FreshLine(jpegbuffer)
      BY <2>1, <2>3 DEF LinesPlaced
    <3>2. DOMAIN rgb = 1..Len(rgb) /\ Len(rgb) \in Nat
      BY DEF TypeInv, DecoderInv, RowsOK, IsSeq
    <3>3. ASSUME NEW i \in DOMAIN rgb', i <= y + 1 PROVE FreshLine(rgb'[i])
      <4>1. i \in 1..Len(rgb) /\ rgb'[i] = IF i = y + 1 THEN jpegbuffer ELSE rgb[i]
        BY <2>1, <3>2, <3>3
      <4>2. i # y + 1 => i <= y
        BY <1>1, <3>2, <3>3, <4>1
      <4> QED BY <3>1, <3>2, <4>1, <4>2 DEF FreshTo
    <3>4. FreshTo(y)'
      BY <2>1, <3>3 DEF FreshTo
    <3> QED BY <2>1, <3>1, <3>4
  <2> QED BY <2>1, <2>2, <2>3 DEF LinesPlaced
<1>5. CASE ReadScanline
  <2>1. /\ app = "loop" /\ global_state = "scanning" /\ app' = "copy"
        /\ jpegbuffer' = LineOf(output_scanline) /\ output_scanline' = output_scanline + 1
        /\ UNCHANGED <<rgb, y>>
    BY <1>5 DEF ReadScanline
  <2>2. y = output_scanline /\ FreshTo(y)
    BY <1>5, <2>1, StalledStays DEF LinesPlaced
  <2>3. FreshLine(jpegbuffer')
    BY <1>5, <2>1, LineDelivered DEF FreshLine, Values
  <2>4. FreshTo(y)'
    BY <2>1, <2>2 DEF FreshTo
  <2> QED BY <2>1, <2>2, <2>3, <2>4 DEF LinesPlaced
<1>6. CASE DataSuspends
  <2>1. CASE app = "preload"
    <3>1. app' = "alloc"
      BY <1>6, <2>1 DEF DataSuspends
    <3> QED BY <1>2, <3>1
  <2>2. CASE app = "loop"
    <3>1. app' = "copy" /\ Stalled'
      BY <1>6, <2>2, SuspendStalls DEF DataSuspends
    <3> QED BY <3>1 DEF LinesPlaced
  <2> QED BY <1>6, <2>1, <2>2, McuWanted
<1>7. CASE LoopEnds
  <2>1. /\ app = "loop" /\ app' = "finish" /\ output_scanline >= sof.height
        /\ UNCHANGED <<rgb, sof>>
    BY <1>7 DEF LoopEnds
  <2>2. global_state = "scanning"
    BY <1>7, StoppingFromScanning
  <2>3. y = output_scanline /\ FreshTo(y)
    BY <1>7, <2>1, <2>2, StalledStays DEF LinesPlaced
  <2>4. FreshTo(sof.height)
    <3>1. DOMAIN rgb = 1..Len(rgb) /\ Len(rgb) \in Nat
      BY DEF TypeInv, DecoderInv, RowsOK, IsSeq
    <3>2. \A i \in DOMAIN rgb : i <= sof.height => i <= y
      BY <1>1, <2>1, <2>3, <3>1
    <3> QED BY <2>3, <3>2 DEF FreshTo
  <2>5. FreshTo(sof.height)'
    BY <2>1, <2>4 DEF FreshTo
  <2> QED BY <2>1, <2>5 DEF LinesPlaced
<1>8. ASSUME ~Stalled, app' = "loop", UNCHANGED <<app, global_state, rgb, y, output_scanline>>
      PROVE  LinesPlaced'
  <2>1. global_state' = "scanning" => y' = output_scanline' /\ FreshTo(y)'
    BY <1>8 DEF LinesPlaced, FreshTo
  <2> QED BY <1>8, <2>1 DEF LinesPlaced
<1>9. CASE OutputRow
  <2>1. app = "loop" /\ UNCHANGED <<app, global_state, rgb, y, output_scanline>>
    BY <1>9 DEF OutputRow, WantsRow
  <2> QED BY <1>8, <1>9, <2>1, StalledStays
<1>10. CASE McuTaken
  <2>1. McuDone /\ app \in {"loop", "preload"}
    BY <1>10, McuWanted
  <2>2. UNCHANGED <<app, global_state, rgb, y, output_scanline>>
    BY <2>1 DEF McuDone
  <2> QED BY <1>2, <1>8, <1>10, <2>1, <2>2, StalledStays
<1>11. ASSUME NEW k \in RestartAt, ProcessRestart(k) PROVE LinesPlaced'
  <2>1. app \in {"loop", "preload"}
    BY <1>11, McuWanted
  <2>2. UNCHANGED <<app, global_state, rgb, y, output_scanline>>
    BY <1>11 DEF ProcessRestart
  <2> QED BY <1>2, <1>8, <1>11, <2>1, <2>2, StalledStays
<1>12. ASSUME NEW k \in Marker, MarkerRead(k) PROVE LinesPlaced'
  <2>1. app \in {"header", "preload", "finish"} /\ (app = "header" <=> inheaders)
    BY <1>12, MarkersOutside
  <2>2. UNCHANGED rgb /\ (app # "finish" => app' \notin {"loop", "copy", "finish"})
    BY <1>12, <2>1 DEF MarkerRead, get_soi, get_dqt, get_dht, get_dri, SkipMarker, get_sof,
                       FirstScan, NextScan, EndOfImage
  <2>3. CASE app = "finish"
    <3>1. sof # NoSof
      BY <2>1, <2>3 DEF TypeInv, Sized
    <3>2. ~get_sof(k)
      BY <3>1 DEF get_sof, Process, Fatal
    <3>3. sof' = sof /\ app' = "finish"
      BY <1>12, <2>1, <2>3, <3>2 DEF MarkerRead, get_soi, get_dqt, get_dht, get_dri, SkipMarker,
                                    FirstScan, NextScan, EndOfImage
    <3>4. FreshTo(sof.height)'
      BY <2>2, <2>3, <3>3 DEF LinesPlaced, FreshTo
    <3> QED BY <3>3, <3>4 DEF LinesPlaced
  <2> QED BY <1>2, <2>2, <2>3
<1>13. CASE \/ ErrorExit
            \/ MarkersSuspend /\ app # "finish"
            \/ StartDecompress \/ RunOff
  BY <1>2, <1>13 DEF ErrorExit, MarkersSuspend, StartDecompress, RunOff
<1>14. CASE freeCameraMemory
  BY <1>2, <1>14 DEF freeCameraMemory
<1>15. ASSUME NEW x, CopyPicture(x) \/ Call(x) PROVE LinesPlaced'
  BY <1>2, <1>15 DEF CopyPicture, Call
<1>16. CASE UNCHANGED vars
  <2>1. /\ UNCHANGED <<app, rgb, y, jpegbuffer>>
        /\ UNCHANGED <<frame, pos, unread_marker, sof, restart_interval, next_restart_num,
                       has_multiple_scans, global_state, scanning, restarts_to_go,
                       insufficient_data, bits, output_iMCU_row, output_scanline>>
    BY <1>16 DEF vars
  <2>2. Stalled' <=> Stalled
    BY <2>1, StalledSame
  <2>3. \A n : FreshTo(n)' <=> FreshTo(n)
    BY <2>1 DEF FreshTo
  <2> QED BY <2>1, <2>2, <2>3 DEF LinesPlaced
<1> QED
  BY <1>3, <1>4, <1>5, <1>6, <1>7, <1>9, <1>10, <1>11, <1>12, <1>13, <1>14, <1>15, <1>16, StepCases

(* Each row of the picture that a decoded frame has a line for shows that   *)
(* frame: nothing of an earlier one and nothing of fresh memory, however    *)
(* the frames before it ended (ImageProc 219-246).  The rows below the last *)
(* line of a shorter frame keep what they held.                             *)
THEOREM DecodedRowsFresh == Spec => RowsFresh
<1>1. Init => LinesPlaced
  BY DEF Init, LinesPlaced
<1>2. LinesPlaced /\ TypeInv /\ [Next]_vars => LinesPlaced'
  BY PlacedKept
<1>3. LinesPlaced /\ [Next]_vars
        => [app = "finish" /\ Returns
              => \A i \in DOMAIN rgb : i <= sof.height => rgb[i] \cap {"raw", "old"} = {}]_vars
  BY DEF LinesPlaced, FreshTo, FreshLine
<1> QED BY <1>1, <1>2, <1>3, TypesKept, PTL DEF Spec, RowsFresh
=============================================================================
