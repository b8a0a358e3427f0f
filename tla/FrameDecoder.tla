---------------------------- MODULE FrameDecoder ----------------------------
(***************************************************************************)
(* The native decoder of the camera picture: pixeltobmp, processimage and  *)
(* freeCameraMemory (ImageProc.c), and the part of libjpeg 8d they drive:  *)
(* marker reader, input controller, Huffman decoder, coefficient           *)
(* controller, main controller and output.                                 *)
(*                                                                         *)
(* A frame is a sequence of tokens: a marker with its parameters, or the   *)
(* entropy-coded bits of one MCU.  The whole frame is in memory before     *)
(* decoding begins and the data source never gets more, so whoever runs    *)
(* out of it is suspended for good (memory_fill_input_buffer).             *)
(*                                                                         *)
(* A picture is one MCU wide.  The value of a block of it is where its     *)
(* bits came from: the place they were coded for (own), another place,     *)
(* misread bits (garbled), the zeros put in for missing bits (stuffed), or *)
(* nothing at all (grey).                                                  *)
(***************************************************************************)
EXTENDS Frames

CONSTANTS
    DCTSIZE,        \* lines of a block (8)
    MaxLines,       \* bound: lines of a picture
    Bitmaps         \* heights of the bitmaps the caller has

NullBmp == -2       \* bmp = NULL
BadBmp == -3        \* AndroidBitmap_getInfo fails, or another pixel format

\* What the marker reader lets through (get_sof, get_sos, get_dri, initial_setup)
ASSUME GeometryAssumption ==
    /\ DCTSIZE \in Nat \ {0} /\ MaxLines \in Nat
    /\ \A t \in Tokens :
         /\ t.kind = "sof" => /\ t.height \in 1..MaxLines
                              /\ \E c \in 1..3 : t.v \in [1..c -> 1..4]
         /\ t.kind = "sos" => t.comps \in (SUBSET (1..3)) \ {{}}
         /\ t.kind = "dri" => t.interval \in Nat

ASSUME BitmapsAssumption == \A bmp \in Bitmaps : bmp \in {NullBmp, BadBmp} \cup (Nat \ {0})

VARIABLES
    app,            \* where pixeltobmp and processimage are
    IMG_HEIGHT, rgb,
    y,              \* the row of rgb that is written next
    jpegbuffer,     \* what the one-line buffer holds
    frame,          \* the input
    pos, unread_marker, saw_SOI, sof, restart_interval, next_restart_num,
    quant_tbl, huff_tbl,
    global_state, inheaders, eoi_reached, has_multiple_scans, scanning,
    scan,           \* cur_comp_info: the components of the current scan
    quant_table,    \* for each component, the quantization table saved for it
    derived_tbl,    \* the Huffman tables the scan is decoded with
    restarts_to_go, insufficient_data,
    bits,           \* how the bit reader stands to the MCUs of the segment
    input_iMCU_row, MCU_vert_offset, coef,
    output_iMCU_row, output_scanline

appVars == <<IMG_HEIGHT, rgb, y, jpegbuffer>>
tableVars == <<saw_SOI, sof, restart_interval, quant_tbl, huff_tbl>>
readVars == <<pos, unread_marker>>
inputVars == <<inheaders, eoi_reached, has_multiple_scans>>
passVars == <<scanning, scan, quant_table, derived_tbl>>
entropyVars == <<restarts_to_go, insufficient_data, bits>>
coefVars == <<input_iMCU_row, MCU_vert_offset, coef>>
outputVars == <<output_iMCU_row, output_scanline>>
cinfo == <<readVars, tableVars, next_restart_num, inputVars, global_state, passVars, entropyVars,
           coefVars, outputVars>>
vars == <<app, appVars, frame, cinfo>>

Values == {"own", "other", "garbled", "stuffed", "grey"}
LineValues == SUBSET (Values \cup {"raw", "old"})
Components == 1..3
Block(value, t) == [from |-> value, table |-> t]
GreyBlocks == [b \in Components \X (0..MaxLines) |-> Block("grey", "any")]
NoSof == [kind |-> "sof", height |-> 0, v |-> <<>>, supported |-> FALSE]

-----------------------------------------------------------------------------
(* Geometry of a picture: initial_setup, per_scan_setup *)

DivRoundUp(a, b) == (a + b - 1) \div b

Comps == DOMAIN sof.v
MaxSamp == CHOOSE m \in {sof.v[c] : c \in Comps} : \A c \in Comps : sof.v[c] <= m
RowLines == MaxSamp * DCTSIZE
TotalRows == DivRoundUp(sof.height, RowLines)
BlockRows(c) == DivRoundUp(sof.height * sof.v[c], RowLines)

\* A scan of one component has one block per MCU, any other a whole iMCU row.
Single == Cardinality(scan) = 1
LastRowHeight(c) == IF BlockRows(c) % sof.v[c] = 0 THEN sof.v[c] ELSE BlockRows(c) % sof.v[c]
RowsPerIMCU(row) ==
    LET c == CHOOSE c \in scan : TRUE
    IN  IF ~Single THEN 1 ELSE IF row < TotalRows - 1 THEN sof.v[c] ELSE LastRowHeight(c)

\* The blocks of the next MCU, and the number of that MCU in its scan.
Blocks ==
    IF Single THEN {<<c, input_iMCU_row * sof.v[c] + MCU_vert_offset>> : c \in scan}
    ELSE UNION {{<<c, input_iMCU_row * sof.v[c] + i>> : i \in 0..(sof.v[c] - 1)} : c \in scan}
Place ==
    IF Single THEN input_iMCU_row * sof.v[CHOOSE c \in scan : TRUE] + MCU_vert_offset
    ELSE input_iMCU_row

\* Where the samples of an output line come from, each component dequantized with
\* the table saved for it.
Sample(c, row) ==
    LET b == coef[<<c, row>>]
    IN  IF b.table \in {"any", quant_table[c]} THEN b.from ELSE "garbled"
LineOf(line) == {Sample(c, (line * sof.v[c]) \div RowLines) : c \in Comps}

-----------------------------------------------------------------------------
(* The end of processimage *)

\* jpeg_destroy_decompress: nothing of the decompressor is left.
Destroyed ==
    /\ pos' = 1 /\ unread_marker' = 0
    /\ saw_SOI' = FALSE /\ sof' = NoSof /\ restart_interval' = 0 /\ next_restart_num' = 0
    /\ quant_tbl' = "none" /\ huff_tbl' = "none"
    /\ global_state' = "none" /\ inheaders' = TRUE /\ eoi_reached' = FALSE
    /\ has_multiple_scans' = FALSE /\ scanning' = FALSE /\ scan' = {}
    /\ quant_table' = [c \in Components |-> "none"] /\ derived_tbl' = "none"
    /\ restarts_to_go' = 0 /\ insufficient_data' = FALSE /\ bits' = "begin"
    /\ input_iMCU_row' = 0 /\ MCU_vert_offset' = 0
    /\ coef' = GreyBlocks
    /\ output_iMCU_row' = 0 /\ output_scanline' = 0

\* my_error_exit jumps back to the setjmp of processimage.
ErrorExit == Destroyed /\ app' = "bitmap" /\ UNCHANGED <<appVars, frame>>

Init ==
    /\ app = "idle" /\ IMG_HEIGHT = -1 /\ rgb = <<>> /\ y = 0 /\ jpegbuffer = {}
    /\ frame = Intact(1)
    /\ pos = 1 /\ unread_marker = 0
    /\ saw_SOI = FALSE /\ sof = NoSof /\ restart_interval = 0 /\ next_restart_num = 0
    /\ quant_tbl = "none" /\ huff_tbl = "none"
    /\ global_state = "none" /\ inheaders = TRUE /\ eoi_reached = FALSE
    /\ has_multiple_scans = FALSE /\ scanning = FALSE /\ scan = {}
    /\ quant_table = [c \in Components |-> "none"] /\ derived_tbl = "none"
    /\ restarts_to_go = 0 /\ insufficient_data = FALSE /\ bits = "begin"
    /\ input_iMCU_row = 0 /\ MCU_vert_offset = 0
    /\ coef = GreyBlocks
    /\ output_iMCU_row = 0 /\ output_scanline = 0

\* pixeltobmp and processimage begin.
Call(f) ==
    /\ app = "idle" /\ app' = "header"
    /\ frame' = f
    /\ global_state' = "inheader"
    /\ UNCHANGED <<appVars, readVars, tableVars, next_restart_num, inputVars, passVars,
                   entropyVars, coefVars, outputVars>>

-----------------------------------------------------------------------------
(* Markers: read_markers and consume_markers *)

ReadsMarkers ==
    \/ app = "header"
    \/ app = "preload" /\ ~scanning
    \/ app = "finish" /\ ~eoi_reached

\* Where the marker to be processed is: one already read, the very first token, or
\* the next one after skipping data.  Empty if the frame ends before it.
Marker ==
    IF unread_marker # 0 THEN {unread_marker}
    ELSE IF saw_SOI THEN MarkerFrom(frame, pos)
    ELSE {pos} \cap 1..Size(frame)

\* The components a scan is the first to contain need a quantization table.
TableMissing(s) == quant_tbl = "none" /\ \E c \in s : quant_table[c] = "none"

\* The markers that end in ERREXIT.
Fatal(t) ==
    \/ ~saw_SOI /\ t.kind # "soi"
    \/ t.kind = "soi" /\ saw_SOI
    \/ t.kind = "sof" /\ (~t.supported \/ sof # NoSof)
    \/ t.kind = "sos" /\ sof = NoSof
    \/ t.kind = "sos" /\ ~(t.comps \subseteq Comps)
    \/ t.kind = "sos" /\ ~inheaders /\ (~has_multiple_scans \/ TableMissing(t.comps))
    \/ t.kind = "eoi" /\ inheaders
    \/ t.kind = "illegal"

\* The length and the contents of a segment whose marker is an accident are too.
Accidental(k) == Origin(frame, k) = 0 /\ Token(frame, k).kind \in {"dqt", "dht", "dri", "sos", "app"}

MarkerError(k) ==
    /\ ReadsMarkers
    /\ Fatal(Token(frame, k)) \/ (Accidental(k) /\ Token(frame, k).kind # "app")
    /\ ErrorExit

Process(k, kinds) ==
    /\ ReadsMarkers
    /\ Token(frame, k).kind \in kinds /\ ~Fatal(Token(frame, k))
    /\ LET next == IF unread_marker = 0 THEN k + 1 ELSE pos
       IN  pos' \in {next} \cup (IF Accidental(k) THEN next..Size(frame) ELSE {})
    /\ unread_marker' = 0

\* Mutant: finish_decompress waits for more.
MarkersSuspendWait ==
    /\ ReadsMarkers /\ \A k \in Marker : Accidental(k)
    /\ app' = IF app = "header" THEN "start" ELSE IF app = "preload" THEN "alloc" ELSE app
    /\ UNCHANGED <<appVars, frame, cinfo>>

\* The end of the frame, reached looking for a marker or in a segment that is longer
\* than what is left: read_header, start_decompress or finish_decompress returns, and
\* what it returns is not looked at.
MarkersSuspend ==
    /\ ReadsMarkers /\ \A k \in Marker : Accidental(k)
    /\ IF app = "finish" THEN ErrorExit
       ELSE /\ app' = IF app = "header" THEN "start" ELSE "alloc"
            /\ UNCHANGED <<appVars, frame, cinfo>>

get_soi(k) ==
    /\ Process(k, {"soi"})
    /\ saw_SOI' = TRUE /\ restart_interval' = 0
    /\ UNCHANGED <<app, appVars, frame, sof, quant_tbl, huff_tbl, next_restart_num, inputVars,
                   global_state, passVars, entropyVars, coefVars, outputVars>>

get_sof(k) ==
    /\ Process(k, {"sof"})
    /\ sof' = Token(frame, k)
    /\ UNCHANGED <<app, appVars, frame, saw_SOI, restart_interval, quant_tbl, huff_tbl,
                   next_restart_num, inputVars, global_state, passVars, entropyVars, coefVars,
                   outputVars>>

get_dqt(k) ==
    /\ Process(k, {"dqt"})
    /\ quant_tbl' = Token(frame, k).table
    /\ UNCHANGED <<app, appVars, frame, saw_SOI, sof, restart_interval, huff_tbl, next_restart_num,
                   inputVars, global_state, passVars, entropyVars, coefVars, outputVars>>

get_dht(k) ==
    /\ Process(k, {"dht"})
    /\ huff_tbl' = Token(frame, k).code
    /\ UNCHANGED <<app, appVars, frame, saw_SOI, sof, restart_interval, quant_tbl, next_restart_num,
                   inputVars, global_state, passVars, entropyVars, coefVars, outputVars>>

get_dri(k) ==
    /\ Process(k, {"dri"})
    /\ restart_interval' = Token(frame, k).interval
    /\ UNCHANGED <<app, appVars, frame, saw_SOI, sof, quant_tbl, huff_tbl, next_restart_num,
                   inputVars, global_state, passVars, entropyVars, coefVars, outputVars>>

\* RSTn and TEM outside a scan; segments that are only skipped
SkipMarker(k) ==
    /\ Process(k, {"rst", "tem", "app"})
    /\ UNCHANGED <<app, appVars, frame, tableVars, next_restart_num, inputVars, global_state,
                   passVars, entropyVars, coefVars, outputVars>>

\* Mutant: the tables are saved again for every component.
StartInputPassRelatch(comps, code) ==
    /\ scanning' = TRUE
    /\ quant_table' = [c \in Components |-> quant_tbl]
    /\ derived_tbl' = code
    /\ restarts_to_go' = restart_interval /\ insufficient_data' = FALSE /\ bits' = "begin"
    /\ input_iMCU_row' = 0 /\ MCU_vert_offset' = 0

\* inputctl->start_input_pass, with the Huffman tables given
StartInputPass(comps, code) ==
    /\ scanning' = TRUE
    /\ quant_table' = [c \in Components |->
                        IF c \in comps /\ quant_table[c] = "none" THEN quant_tbl ELSE quant_table[c]]
    /\ derived_tbl' = code
    /\ restarts_to_go' = restart_interval /\ insufficient_data' = FALSE /\ bits' = "begin"
    /\ input_iMCU_row' = 0 /\ MCU_vert_offset' = 0

\* The first SOS: initial_setup, and read_header returns.
FirstScan(k) ==
    /\ inheaders /\ Process(k, {"sos"})
    /\ scan' = Token(frame, k).comps /\ next_restart_num' = 0
    /\ inheaders' = FALSE
    /\ has_multiple_scans' = (scan' # Comps)
    /\ global_state' = "ready" /\ app' = "start"
    /\ UNCHANGED <<appVars, frame, tableVars, eoi_reached, scanning, quant_table, derived_tbl,
                   entropyVars, coefVars, outputVars>>

\* A later SOS, in a picture of several scans
NextScan(k) ==
    /\ ~inheaders /\ Process(k, {"sos"})
    /\ scan' = Token(frame, k).comps /\ next_restart_num' = 0
    /\ StartInputPass(scan', huff_tbl)
    /\ UNCHANGED <<app, appVars, frame, tableVars, inputVars, global_state, coef, outputVars>>

\* EOI: start_decompress goes on to the output; finish_decompress is done.
EndOfImage(k) ==
    /\ Process(k, {"eoi"})
    /\ eoi_reached' = TRUE
    /\ IF app = "preload" THEN app' = "alloc" /\ global_state' = "scanning"
       ELSE UNCHANGED <<app, global_state>>
    /\ UNCHANGED <<appVars, frame, tableVars, next_restart_num, inheaders, has_multiple_scans,
                   passVars, entropyVars, coefVars, outputVars>>

-----------------------------------------------------------------------------
(* jpeg_start_decompress and what processimage does around it *)

\* processimage calls it whatever read_header returned.
StartFails ==
    /\ app = "start"
    /\ \/ global_state # "ready"
       \/ Cardinality(Comps) # 3        \* jpeg_color_space was set to JCS_YCbCr
       \/ TableMissing(scan)
    /\ ErrorExit

\* my_jpeg_load_dht has replaced the tables of the header by the standard ones.
StartDecompress ==
    /\ app = "start" /\ global_state = "ready"
    /\ Cardinality(Comps) = 3 /\ ~TableMissing(scan)
    /\ huff_tbl' = "std"
    /\ StartInputPass(scan, "std")
    /\ IF has_multiple_scans THEN app' = "preload" /\ global_state' = "preload"
       ELSE app' = "alloc" /\ global_state' = "scanning"
    /\ UNCHANGED <<appVars, frame, readVars, saw_SOI, sof, restart_interval, quant_tbl,
                   next_restart_num, inputVars, scan, coef, outputVars>>

\* The picture is allocated once, with the size of the frame at hand.
Allocate ==
    /\ app = "alloc" /\ app' = "loop"
    /\ jpegbuffer' = {"raw"} /\ y' = 0
    /\ IF rgb # <<>> THEN UNCHANGED <<IMG_HEIGHT, rgb>>
       ELSE /\ IMG_HEIGHT' = sof.height
            /\ rgb' = [i \in 1..sof.height |-> {"raw"}]
    /\ UNCHANGED <<frame, cinfo>>

-----------------------------------------------------------------------------
(* Data: decode_mcu, called from consume_data or decompress_onepass *)

\* The main buffer holds lines that were not delivered yet.
BufferFull == output_scanline < output_iMCU_row * RowLines

WantsRow ==
    /\ app = "loop" /\ global_state = "scanning"
    /\ output_scanline < sof.height /\ ~BufferFull

NeedsMcu == (app = "preload" \/ (WantsRow /\ ~has_multiple_scans)) /\ scanning

AtRestart == restart_interval # 0 /\ restarts_to_go = 0

\* Mutant: only the next restart marker is left for later.
ActionNear(t, desired) ==
    IF t.kind \in {"illegal", "tem"} THEN 2
    ELSE IF t.kind # "rst" THEN 3
    ELSE IF t.num = (desired + 1) % 8 THEN 3
    ELSE IF t.num \in {(desired - 1) % 8, (desired - 2) % 8} THEN 2
    ELSE 1

\* Mutant: a marker that is no restart marker is passed over.
ActionOver(t, desired) ==
    IF t.kind # "rst" THEN 2
    ELSE IF t.num \in {(desired + 1) % 8, (desired + 2) % 8} THEN 3
    ELSE IF t.num \in {(desired - 1) % 8, (desired - 2) % 8} THEN 2
    ELSE 1

\* What jpeg_resync_to_restart does about a marker: 1 discards it, 2 scans on to
\* the next one, 3 leaves it for a later restart.
Action(t, desired) ==
    IF t.kind \in {"illegal", "tem"} THEN 2         \* a code below SOF0
    ELSE IF t.kind # "rst" THEN 3
    ELSE IF t.num \in {(desired + 1) % 8, (desired + 2) % 8} THEN 3
    ELSE IF t.num \in {(desired - 1) % 8, (desired - 2) % 8} THEN 2
    ELSE 1

\* The marker where that ends, if the frame does not end first
Ends(k) == IsMarker(frame, k) /\ Action(Token(frame, k), next_restart_num) # 2
RestartAt ==
    LET from == IF unread_marker = 0 THEN pos ELSE unread_marker
    IN  {k \in from..Size(frame) : Ends(k) /\ \A j \in from..(k - 1) : ~Ends(j)}

\* Mutant: the number of the next restart marker does not wrap.
ProcessRestartOn(k) ==
    /\ NeedsMcu /\ AtRestart
    /\ LET left == Action(Token(frame, k), next_restart_num) = 3
       IN  /\ unread_marker' = IF left THEN k ELSE 0
           /\ insufficient_data' = (insufficient_data /\ left)
    /\ pos' = IF k = unread_marker THEN pos ELSE k + 1
    /\ next_restart_num' = next_restart_num + 1
    /\ restarts_to_go' = restart_interval /\ bits' = "begin"
    /\ UNCHANGED <<app, appVars, frame, tableVars, inputVars, global_state, passVars, coefVars,
                   outputVars>>

\* process_restart.  A marker that is left makes the next segment an empty one.
ProcessRestart(k) ==
    /\ NeedsMcu /\ AtRestart
    /\ LET left == Action(Token(frame, k), next_restart_num) = 3
       IN  /\ unread_marker' = IF left THEN k ELSE 0
           /\ insufficient_data' = (insufficient_data /\ left)
    /\ pos' = IF k = unread_marker THEN pos ELSE k + 1
    /\ next_restart_num' = (next_restart_num + 1) % 8
    /\ restarts_to_go' = restart_interval /\ bits' = "begin"
    /\ UNCHANGED <<app, appVars, frame, tableVars, inputVars, global_state, passVars, coefVars,
                   outputVars>>

\* The MCU is complete: the counters of the entropy decoder and of the coefficient
\* controller, and the end of the scan (finish_input_pass).
McuDone ==
    /\ restarts_to_go' = IF restart_interval = 0 THEN 0 ELSE restarts_to_go - 1
    /\ IF MCU_vert_offset + 1 < RowsPerIMCU(input_iMCU_row)
         THEN /\ MCU_vert_offset' = MCU_vert_offset + 1
              /\ UNCHANGED <<input_iMCU_row, output_iMCU_row, scanning>>
         ELSE /\ MCU_vert_offset' = 0 /\ input_iMCU_row' = input_iMCU_row + 1
              /\ scanning' = (input_iMCU_row + 1 < TotalRows)
              /\ output_iMCU_row' = output_iMCU_row + (IF has_multiple_scans THEN 0 ELSE 1)
    /\ UNCHANGED <<app, appVars, frame, tableVars, next_restart_num, inputVars, global_state, scan,
                   quant_table, derived_tbl, output_scanline>>

Fill(v) == coef' = [b \in DOMAIN coef |-> IF b \in Blocks THEN v ELSE coef[b]]

\* Out of data since an earlier MCU: the block is left as it is.
LeaveMcu ==
    /\ NeedsMcu /\ ~AtRestart /\ insufficient_data
    /\ McuDone
    /\ UNCHANGED <<readVars, insufficient_data, bits, coef>>

\* The data ends here: the MCU is decoded from zero bits.
StuffMcu ==
    /\ NeedsMcu /\ ~AtRestart /\ ~insufficient_data
    /\ \/ unread_marker # 0 /\ UNCHANGED readVars
       \/ /\ unread_marker = 0 /\ pos <= Size(frame) /\ IsMarker(frame, pos)
          /\ unread_marker' = pos /\ pos' = pos + 1
    /\ insufficient_data' = TRUE
    /\ Fill(Block("stuffed", "any")) /\ McuDone /\ UNCHANGED bits

HasData ==
    /\ NeedsMcu /\ ~AtRestart /\ ~insufficient_data /\ unread_marker = 0 /\ bits # "stalled"
    /\ pos <= Size(frame) /\ ~IsMarker(frame, pos)

\* The bit reader stands where this MCU begins, with the components and the
\* Huffman tables it was coded with.
Aligned ==
    LET t == Token(frame, pos)
    IN  /\ t.comps = scan /\ t.code = derived_tbl
        /\ \/ bits = "begin" /\ BeginsSegment(frame, pos)
           \/ bits = "aligned" /\ Continues(frame, pos)

DecodeMcu ==
    /\ HasData /\ Aligned
    /\ pos' = pos + 1 /\ bits' = "aligned"
    /\ LET t == Token(frame, pos)
       IN  Fill(Block(IF t.place = Place THEN "own" ELSE "other", t.table))
    /\ McuDone /\ UNCHANGED <<unread_marker, insufficient_data>>

\* Bits read as what they are not: they may last for this MCU and more, be used
\* up by it, or run into the marker that ends them.
MisreadMcu ==
    /\ HasData /\ ~Aligned
    /\ bits' = "lost"
    /\ \/ pos' \in {pos} \cup DataEnd(frame, pos)
          /\ UNCHANGED <<unread_marker, insufficient_data>>
       \/ /\ unread_marker' \in MarkerFrom(frame, pos) /\ pos' = unread_marker' + 1
          /\ insufficient_data' = TRUE
    /\ Fill(Block("garbled", "any")) /\ McuDone

\* No marker follows: the bit reader looks ahead and may find too few bytes, even for
\* an MCU that is whole.  Nothing is saved, so every later call ends the same way:
\* start_decompress returns, read_scanlines delivers no row.
DataSuspends ==
    /\ NeedsMcu
    /\ \/ AtRestart /\ RestartAt = {} /\ UNCHANGED bits
       \/ /\ ~AtRestart /\ ~insufficient_data /\ unread_marker = 0
          /\ MarkerFrom(frame, pos) = {} /\ bits' = "stalled"
    /\ app' = IF app = "preload" THEN "alloc" ELSE "copy"
    /\ UNCHANGED <<appVars, frame, readVars, tableVars, next_restart_num, inputVars, global_state,
                   passVars, restarts_to_go, insufficient_data, coefVars, outputVars>>

-----------------------------------------------------------------------------
(* The scanline loop, and the rest of pixeltobmp *)

\* jpeg_read_scanlines before start_decompress has finished
ScanlinesFail ==
    /\ app = "loop" /\ output_scanline < sof.height /\ global_state # "scanning"
    /\ ErrorExit

\* decompress_data: a row of the coefficient arrays goes to the main buffer.
OutputRow ==
    /\ WantsRow /\ has_multiple_scans
    /\ output_iMCU_row' = output_iMCU_row + 1
    /\ UNCHANGED <<app, appVars, frame, readVars, tableVars, next_restart_num, inputVars,
                   global_state, passVars, entropyVars, coefVars, output_scanline>>

ReadScanline ==
    /\ app = "loop" /\ global_state = "scanning"
    /\ output_scanline < sof.height /\ BufferFull
    /\ jpegbuffer' = LineOf(output_scanline)
    /\ output_scanline' = output_scanline + 1
    /\ app' = "copy"
    /\ UNCHANGED <<IMG_HEIGHT, rgb, y, frame, readVars, tableVars, next_restart_num,
                   inputVars, global_state, passVars, entropyVars, coefVars, output_iMCU_row>>

\* The buffer goes into the next row, whether or not it holds a new line.  Below
\* the last row it is written to memory that is not the picture's.
CopyLine ==
    /\ app = "copy" /\ y < Len(rgb) /\ app' = "loop"
    /\ rgb' = [rgb EXCEPT ![y + 1] = jpegbuffer]
    /\ y' = y + 1
    /\ UNCHANGED <<IMG_HEIGHT, jpegbuffer, frame, cinfo>>

RunOff ==
    /\ app = "copy" /\ y >= Len(rgb) /\ app' = "off"
    /\ UNCHANGED <<appVars, frame, cinfo>>

\* Mutant: the loop ends one line early.
LoopEndsEarly ==
    /\ app = "loop" /\ output_scanline >= sof.height - 1
    /\ app' = "finish" /\ global_state' = "stopping"
    /\ UNCHANGED <<appVars, frame, readVars, tableVars, next_restart_num, inputVars, passVars,
                   entropyVars, coefVars, outputVars>>

LoopEnds ==
    /\ app = "loop" /\ output_scanline >= sof.height
    /\ app' = "finish" /\ global_state' = "stopping"
    /\ UNCHANGED <<appVars, frame, readVars, tableVars, next_restart_num, inputVars, passVars,
                   entropyVars, coefVars, outputVars>>

Finished ==
    /\ app = "finish" /\ eoi_reached
    /\ Destroyed /\ app' = "bitmap" /\ UNCHANGED <<appVars, frame>>

\* The bitmap gets the picture when it can be used and has the size of the first
\* frame.  The call returns; what it leaves in rgb is old from now on.
CopyPicture(bmp) ==
    /\ app = "bitmap"
    /\ app' = IF bmp = IMG_HEIGHT /\ rgb = <<>> THEN "crashed" ELSE "idle"
    /\ rgb' = [i \in DOMAIN rgb |-> IF rgb[i] = {"raw"} THEN {"raw"} ELSE {"old"}]
    /\ frame' = Intact(1) /\ y' = 0 /\ jpegbuffer' = {}
    /\ UNCHANGED <<IMG_HEIGHT, cinfo>>

freeCameraMemory ==
    /\ app = "idle"
    /\ rgb' = <<>>
    /\ UNCHANGED <<app, IMG_HEIGHT, y, jpegbuffer, frame, cinfo>>

-----------------------------------------------------------------------------
MarkerStep ==
    \/ MarkersSuspend
    \/ ReadsMarkers /\ \E k \in Marker :
         \/ get_soi(k) \/ get_sof(k) \/ get_dqt(k) \/ get_dht(k) \/ get_dri(k) \/ SkipMarker(k)
         \/ FirstScan(k) \/ NextScan(k) \/ EndOfImage(k) \/ MarkerError(k)

McuStep ==
    \/ NeedsMcu /\ AtRestart /\ \E k \in RestartAt : ProcessRestart(k)
    \/ LeaveMcu \/ StuffMcu \/ DecodeMcu \/ MisreadMcu \/ DataSuspends

LoopStep ==
    \/ StartFails \/ StartDecompress \/ Allocate
    \/ ScanlinesFail \/ OutputRow \/ ReadScanline \/ CopyLine \/ RunOff \/ LoopEnds \/ Finished

CallStep == LoopStep \/ McuStep \/ MarkerStep \/ \E bmp \in Bitmaps : CopyPicture(bmp)

Next == CallStep \/ freeCameraMemory \/ (app = "idle" /\ \E f \in Frames : Call(f))

Spec == Init /\ [][Next]_vars

\* A call runs until it is done.
FairSpec == Spec /\ WF_vars(CallStep)

-----------------------------------------------------------------------------
(* Properties *)

\* Where the program and the library are
CallTyped ==
    /\ app \in {"idle", "header", "start", "preload", "alloc", "loop", "copy", "finish", "bitmap",
                "off", "crashed"}
    /\ global_state \in {"none", "inheader", "ready", "preload", "scanning", "stopping"}
    /\ global_state = "none" <=> app \in {"idle", "bitmap", "crashed"}
    /\ inheaders \in BOOLEAN /\ eoi_reached \in BOOLEAN /\ has_multiple_scans \in BOOLEAN
    /\ saw_SOI \in BOOLEAN /\ scanning \in BOOLEAN

\* The picture has the size of the frame it was allocated for.
PictureTyped ==
    /\ IMG_HEIGHT \in {-1} \cup 1..MaxLines
    /\ DOMAIN rgb = 1..Len(rgb) /\ Len(rgb) \in {0, IMG_HEIGHT}
    /\ \A i \in DOMAIN rgb : rgb[i] \in LineValues
    /\ y \in 0..MaxLines /\ jpegbuffer \in LineValues

\* The reader stays in the frame, and a marker it holds is behind it.
ReaderTyped == pos \in 1..(Size(frame) + 1) /\ unread_marker \in 0..Size(frame) /\ unread_marker < pos

EntropyTyped ==
    /\ next_restart_num \in 0..7
    /\ restart_interval \in Nat
    /\ restarts_to_go \in Nat /\ (NeedsMcu => restarts_to_go <= restart_interval)
    /\ insufficient_data \in BOOLEAN /\ bits \in {"begin", "aligned", "lost", "stalled"}

\* Neither input nor output passes the last row of the picture.
ScanTyped ==
    /\ scan \subseteq Comps
    /\ sof # NoSof => /\ input_iMCU_row \in 0..TotalRows /\ output_iMCU_row \in 0..TotalRows
                      /\ output_scanline \in 0..sof.height
                      /\ scanning => MCU_vert_offset < RowsPerIMCU(input_iMCU_row)

CoefTyped ==
    DOMAIN coef = Components \X (0..MaxLines) /\ \A b \in DOMAIN coef : coef[b].from \in Values

TypeOK == CallTyped /\ PictureTyped /\ ReaderTyped /\ EntropyTyped /\ ScanTyped /\ CoefTyped

\* The way processimage ends, for frames on which it does not run off.
Returns == app # "bitmap" /\ app' = "bitmap"

\* What the program can show: three components, and the standard Huffman tables in
\* the first scan.
Decodable(n) ==
    LET P == Pictures[n]
        first == CHOOSE k \in DOMAIN P : P[k].kind = "sos" /\ \A j \in 1..(k - 1) : P[j].kind # "sos"
    IN  \A k \in DOMAIN P :
            /\ P[k].kind = "sof" => P[k].supported /\ Len(P[k].v) = 3
            /\ P[k].kind = "mcu" /\ P[k].comps = P[first].comps => P[k].code = "std"

\* An intact frame is shown line by line where it belongs, with one scan or several,
\* whatever tables are replaced between its scans (jdinput 486-510, jdhuff 1398-1501).
IntactShown ==
    [][Returns /\ frame = Intact(frame.picture) /\ Decodable(frame.picture)
         => \A i \in DOMAIN rgb : i <= sof.height => rgb[i] = {"own"}]_vars

\* The restart interval in which a token of a picture lies.
Segment(n, k) == Cardinality({i \in 1..(k - 1) : Pictures[n][i].kind = "rst"})

\* Damage within the only scan that skips or repeats at most two restart markers, and
\* whose ends do not look like a legal marker where they meet.
SmallDamage(f) ==
    LET P == Pictures[f.picture]
        a == Segment(f.picture, f.head + 1)
        b == Segment(f.picture, f.tail)
    IN  /\ Decodable(f.picture)
        /\ f.junk.kind \in {"none", "illegal", "tem"}
        /\ f.tail <= Len(P) /\ \A k \in DOMAIN P : k >= f.tail => P[k].kind # "sos"
        /\ Cardinality({k \in 1..f.head : P[k].kind = "sos"}) = 1
        /\ a - b \in -2..2

\* Such damage stays between the markers around it: every other restart interval is
\* shown in its place (jdmarker 1158-1280, jdhuff 635-668).  Nothing like it holds when
\* the ends look like a legal marker: one that is no RSTn is never read past, and all
\* later intervals stay empty; an RSTn is taken for one and can shift them for good.
DamageConfined ==
    [][Returns /\ SmallDamage(frame)
         => \A i \in DOMAIN rgb :
                LET seg == ((i - 1) \div RowLines) \div restart_interval
                IN  /\ i <= sof.height /\ restart_interval # 0
                    /\ \/ seg < Segment(frame.picture, frame.head + 1)
                       \/ /\ seg > Segment(frame.picture, frame.head + 1)
                          /\ seg > Segment(frame.picture, frame.tail)
                    => rgb[i] = {"own"}]_vars

\* The scanline loop, which ignores what jpeg_read_scanlines returns, leaves the picture
\* only for a frame without EOI or one taller than the first (ImageProc 232-246).
EndMarkerEnds ==
    app = "off" => Token(frame, Size(frame)).kind # "eoi" \/ sof.height > IMG_HEIGHT

\* The rows of a frame that was decoded, as many as its own height, hold nothing of an
\* earlier frame and nothing of fresh memory (ImageProc 219-246).  So a frame as high as
\* the picture renews all of it; a lower one leaves the rows below its own as they were,
\* and a narrower one the columns beside it, and both are copied to the bitmap with the
\* rest (lines 239, 301-303).
RowsFresh ==
    [][app = "finish" /\ Returns
         => \A i \in DOMAIN rgb : i <= sof.height => rgb[i] \cap {"raw", "old"} = {}]_vars

\* Every call returns or runs off the picture.
CallEnds == app = "header" ~> app \in {"idle", "off", "crashed"}
=============================================================================
