--------------------------- MODULE MCFrameDecoder ---------------------------
EXTENDS FrameDecoder

\* Tokens of the pictures
Soi == [kind |-> "soi"]
App == [kind |-> "app"]
Eoi == [kind |-> "eoi"]
Sof(lines, samp) == [kind |-> "sof", height |-> lines, v |-> samp, supported |-> TRUE]
Lossless(lines, samp) == [Sof(lines, samp) EXCEPT !.supported = FALSE]
Dqt(q) == [kind |-> "dqt", table |-> q]
Dht(h) == [kind |-> "dht", code |-> h]
Dri(n) == [kind |-> "dri", interval |-> n]
Rst(n) == [kind |-> "rst", num |-> n % 8]
Sos(s) == [kind |-> "sos", comps |-> s]
Mcu(s, p, h, q) == [kind |-> "mcu", comps |-> s, place |-> p, code |-> h, table |-> q]
All == {1, 2, 3}
Std(p) == Mcu(All, p, "std", "q1")

\* Ten lines, one MCU to a restart interval: the restart numbers wrap.
Striped ==
    <<Soi, Dqt("q1"), Dri(1), Sof(10, <<1, 1, 1>>), Sos(All)>>
    \o [i \in 1..19 |-> IF i % 2 = 1 THEN Std(i \div 2) ELSE Rst(i \div 2 - 1)] \o <<Eoi>>

\* Two MCUs to a restart interval, two lines to an MCU, an odd number of lines
Paired ==
    <<Soi, Dqt("q1"), Dri(2), Sof(7, <<2, 1, 1>>), Sos(All), Std(0), Std(1), Rst(0), Std(2), Std(3), Eoi>>

\* Three scans, each with tables of its own in the same slots
Scans ==
    <<Soi, Dqt("q1"), Sof(3, <<2, 1, 1>>), Sos({1}), Mcu({1}, 0, "std", "q1"),
      Mcu({1}, 1, "std", "q1"), Mcu({1}, 2, "std", "q1"), Dqt("q2"), Dht("own"), Sos({2, 3}),
      Mcu({2, 3}, 0, "own", "q2"), Mcu({2, 3}, 1, "own", "q2"), Eoi>>

\* Huffman tables of its own in the header
Optimised == <<Soi, Dqt("q1"), Dht("own"), Sof(3, <<2, 1, 1>>), Sos(All),
               Mcu(All, 0, "own", "q1"), Mcu(All, 1, "own", "q1"), Eoi>>

Grey == <<Soi, App, Dqt("q1"), Sof(3, <<1>>), Sos({1}), Mcu({1}, 0, "std", "q1"), Eoi>>

Unsupported == <<Soi, Dqt("q1"), Lossless(3, <<2, 1, 1>>), Sos(All), Std(0), Std(1), Eoi>>

MCPictures == <<Striped, Paired, Scans, Optimised, Grey, Unsupported>>
\* Accidental markers; the place of the damage varies against the restart number.
MCJunk == {[kind |-> "illegal"], Rst(3), Eoi, App, Dht("own")}
MCBitmaps == {NullBmp, BadBmp, 3, 7, 10}
=============================================================================
