------------------------------- MODULE Frames -------------------------------
(***************************************************************************)
(* What the camera hands over as one frame.  An intact frame is one of     *)
(* Pictures.  Where data was lost or came twice, the frame is the front of *)
(* a picture followed by the back of the next one of its kind; where the   *)
(* two ends meet in the middle of data they can look like any marker.      *)
(***************************************************************************)
EXTENDS Integers, Sequences, FiniteSets

CONSTANTS
    Pictures,       \* a sequence of pictures, each a sequence of tokens
    Junk            \* what two ends that meet can look like: an illegal marker code, or any other

NoMarker == [kind |-> "none"]

ASSUME PicturesAssumption ==
    /\ 1 \in DOMAIN Pictures
    /\ \A n \in DOMAIN Pictures : Len(Pictures[n]) \in Nat

ASSUME JunkAssumption == \A t \in Junk : t.kind \notin {"none", "mcu"}

Tokens == Junk \cup UNION {{Pictures[n][k] : k \in 1..Len(Pictures[n])} : n \in DOMAIN Pictures}

\* A frame is a picture, how much of its front, where its back begins, and the marker
\* that the bytes in between form, if they do.
Intact(n) ==
    [picture |-> n, head |-> Len(Pictures[n]), tail |-> Len(Pictures[n]) + 1, junk |-> NoMarker]

Gap(f) == IF f.junk = NoMarker THEN 0 ELSE 1

Size(f) == f.head + Gap(f) + Len(Pictures[f.picture]) + 1 - f.tail

\* The position in the picture of the k-th token of a frame; 0 for junk.
Origin(f, k) ==
    IF k <= f.head THEN k
    ELSE IF k <= f.head + Gap(f) THEN 0
    ELSE f.tail + k - f.head - Gap(f) - 1

Token(f, k) == IF Origin(f, k) = 0 THEN f.junk ELSE Pictures[f.picture][Origin(f, k)]

IsMarker(f, k) == Token(f, k).kind # "mcu"

\* The first marker from k on, if there is one
MarkerFrom(f, k) == {i \in k..Size(f) : IsMarker(f, i) /\ \A j \in k..(i - 1) : ~IsMarker(f, j)}

\* Where the data at k ends: the next marker, or the end of the frame
DataEnd(f, k) == IF MarkerFrom(f, k) = {} THEN {Size(f) + 1} ELSE MarkerFrom(f, k)

\* The data at k is the beginning of what follows a marker in the picture, or
\* goes on where the data before it ended.
BeginsSegment(f, k) ==
    Origin(f, k - 1) # 0 /\ Pictures[f.picture][Origin(f, k) - 1].kind # "mcu"
Continues(f, k) == Origin(f, k) = Origin(f, k - 1) + 1

InData(n, k) == k \in DOMAIN Pictures[n] /\ Pictures[n][k].kind = "mcu"

Frames ==
    {f \in UNION {[picture : {n}, head : 0..Len(Pictures[n]), tail : 1..(Len(Pictures[n]) + 1),
                   junk : Junk \cup {NoMarker}] : n \in DOMAIN Pictures} :
        f.junk # NoMarker => InData(f.picture, f.head) /\ InData(f.picture, f.tail)}
=============================================================================
