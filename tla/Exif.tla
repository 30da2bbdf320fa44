-------------------------------- MODULE Exif -------------------------------
(***************************************************************************)
(* internal/service/metadata.go: the EXIF reader behind POST /info, which  *)
(* walks lengths, counts and offsets an uploaded file claims for itself.   *)
(*                                                                         *)
(* The content of the file is not modelled: wherever the code reads a      *)
(* number, the model picks any value of its width (U16, U32).  What is     *)
(* kept is where the code reads: spans holds the slices the last step took *)
(* of a block, and slicing outside the block is a panic.  Offsets are int, *)
(* which is 64 bits wide in every build (.goreleaser.yml: amd64, arm64).   *)
(*                                                                         *)
(* The code reads IFD0 three times, for the camera and time, for the Exif  *)
(* pointer and for the GPS pointer; the bytes are the same each time, so   *)
(* one pass here serves all three.                                         *)
(***************************************************************************)
EXTENDS Integers

CONSTANTS Lengths,   \* lengths an uploaded file can have
          U16, U32   \* values a 16-bit and a 32-bit field can have

ASSUME FieldAssumption == Lengths \subseteq Nat /\ U16 \subseteq Nat /\ U32 \subseteq Nat

VARIABLES pc,      \* where the reader is
          len,     \* len(data) in scanJPEGExif
          i,       \* its position
          tlen,    \* len(data) in parseTIFF
          ifd,     \* the directory being read: "ifd0", "exif" or "gps"
          off,     \* its offset
          n, k,    \* its entries, and how many have been handled
          exifOff, \* the Exif IFD pointer of IFD0, NoPointer before one is met
          gpsOff,  \* the GPS IFD pointer of IFD0, NoPointer before one is met
          taken,   \* TakenAt is set
          have,    \* the coordinates read, of "lat" and "lng"
          spans    \* the slices of the last step

scan == <<len, i>>
dir == <<ifd, off, n, k>>
found == <<exifOff, gpsOff, taken, have>>
vars == <<pc, scan, tlen, dir, found, spans>>

NoPointer == -1

Span(lo, hi, of) == [lo |-> lo, hi |-> hi, of |-> of]

TypeOK == /\ pc \in {"start", "scan", "tiff", "open", "entries", "done"}
          /\ len \in Nat /\ i \in Nat /\ tlen \in Nat
          /\ ifd \in {"ifd0", "exif", "gps"}
          /\ off \in Nat /\ n \in Nat /\ k \in Nat
          /\ exifOff \in Nat \cup {NoPointer} /\ gpsOff \in Nat \cup {NoPointer}
          /\ taken \in BOOLEAN /\ have \subseteq {"lat", "lng"}

Init == /\ pc = "start"
        /\ len \in Lengths
        /\ i = 0 /\ tlen = 0
        /\ ifd = "ifd0" /\ off = 0 /\ n = 0 /\ k = 0
        /\ exifOff = NoPointer /\ gpsOff = NoPointer /\ taken = FALSE /\ have = {}
        /\ spans = {}

-----------------------------------------------------------------------------
(* scanJPEGExif                                                              *)

\* The file has a start-of-image marker, or is no JPEG.
Start == /\ pc = "start"
         /\ \/ len >= 4 /\ pc' = "scan" /\ i' = 2 /\ spans' = {Span(0, 2, len)}
            \/ pc' = "done" /\ UNCHANGED i /\ spans' = {}
         /\ UNCHANGED <<len, tlen, dir, found>>

\* No room for another marker, no marker, or start of scan.
ScanEnds == /\ pc = "scan"
            /\ \/ i + 4 > len /\ spans' = {}
               \/ i + 4 <= len /\ spans' = {Span(i, i + 2, len)}
            /\ pc' = "done"
            /\ UNCHANGED <<scan, tlen, dir, found>>

\* A declared length counts itself and what lies within the file.
SegmentFits(segLen) == segLen >= 2 /\ i + 2 + segLen <= len

SegmentBad(segLen) == /\ pc = "scan"
                      /\ i + 4 <= len
                      /\ ~SegmentFits(segLen)
                      /\ pc' = "done"
                      /\ spans' = {Span(i, i + 4, len)}
                      /\ UNCHANGED <<scan, tlen, dir, found>>

\* The sign of the step is lost.
NextMarkerBackwards(segLen) == i + 2 - segLen
\* The position is set to the segment's length instead of moved by it.
NextMarkerFromStart(segLen) == 2 + segLen
NextMarker(segLen) == i + 2 + segLen

SegmentSkipped(segLen) == /\ pc = "scan"
                          /\ i + 4 <= len
                          /\ SegmentFits(segLen)
                          /\ i' = NextMarker(segLen)
                          /\ spans' = {Span(i, i + 4, len), Span(i + 4, i + 2 + segLen, len)}
                          /\ UNCHANGED <<pc, len, tlen, dir, found>>

\* An APP1 segment that starts with the six bytes "Exif\0\0".
SegmentIsExif(segLen) ==
  LET segment == segLen - 2 IN
  /\ pc = "scan"
  /\ i + 4 <= len
  /\ SegmentFits(segLen)
  /\ segment >= 6
  /\ IF segment < 8
     THEN /\ pc' = "done" /\ UNCHANGED tlen
          /\ spans' = {Span(i, i + 4, len), Span(i + 4, i + 2 + segLen, len)}
     ELSE /\ pc' = "tiff" /\ tlen' = segment - 6
          /\ spans' = {Span(i, i + 4, len), Span(i + 4, i + 2 + segLen, len),
                       Span(6, segment, segment)}
  /\ UNCHANGED <<scan, dir, found>>

-----------------------------------------------------------------------------
(* parseTIFF and readIFD                                                     *)

\* The header is too short, its byte order unknown, or IFD0 lies outside.
TiffEnds == /\ pc = "tiff"
            /\ \/ tlen < 8 /\ spans' = {}
               \/ tlen >= 8 /\ spans' = {Span(0, 2, tlen)}
            /\ pc' = "done"
            /\ UNCHANGED <<scan, tlen, dir, found>>

Tiff(ifd0) == /\ pc = "tiff"
              /\ tlen >= 8
              /\ spans' = {Span(0, 2, tlen), Span(4, 8, tlen)}
              /\ IF ifd0 + 2 > tlen
                 THEN pc' = "done" /\ UNCHANGED off
                 ELSE pc' = "open" /\ off' = ifd0
              /\ UNCHANGED <<scan, tlen, ifd, n, k, found>>

\* The directory's end is checked for one entry, whatever its count says.
OneEntryFits(count) == off + 2 + 12 + 4 <= tlen
EntriesFit(count) == off + 2 + count * 12 + 4 <= tlen

\* readIFD: the count, and no entries when they do not all fit.
Open(count) == /\ pc = "open"
               /\ IF off + 2 > tlen
                  THEN n' = 0 /\ spans' = {}
                  ELSE /\ n' = IF EntriesFit(count) THEN count ELSE 0
                       /\ spans' = {Span(off, off + 2, tlen)}
               /\ k' = 0
               /\ pc' = "entries"
               /\ UNCHANGED <<scan, tlen, ifd, off, found>>

TypeSize == <<1, 1, 2, 4, 8, 1, 1, 2, 4, 8>>

\* readString: unknown types and values outside read nothing, four bytes or
\* fewer are in the entry itself.
StringSpans(typ, count, value) ==
  IF typ \notin DOMAIN TypeSize THEN {}
  ELSE LET total == count * TypeSize[typ] IN
       IF total <= 4 \/ value + total > tlen THEN {} ELSE {Span(value, value + total, tlen)}

\* readRationalArray: three numerators and denominators, or nothing.
IsRationals(typ, count, value) == typ = 5 /\ count = 3 /\ value + 24 <= tlen
RationalSpans(typ, count, value) ==
  IF IsRationals(typ, count, value) THEN {Span(value, value + 24, tlen)} ELSE {}

EntrySpan == Span(off + 2 + k * 12, off + 2 + k * 12 + 12, tlen)

\* A text tag: camera, time or hemisphere.  A time may parse, and the one of
\* the Exif directory is read only when IFD0 gave none.
TextEntry(typ, count, value) ==
  /\ ifd = "exif" => ~taken
  /\ spans' = {EntrySpan} \cup StringSpans(typ, count, value)
  /\ \/ UNCHANGED taken
     \/ ifd # "gps" /\ taken' = TRUE
  /\ UNCHANGED <<exifOff, gpsOff, have>>

CoordinateEntry(typ, count, value) ==
  /\ ifd = "gps"
  /\ spans' = {EntrySpan} \cup RationalSpans(typ, count, value)
  /\ \E c \in {"lat", "lng"} :
       have' = IF IsRationals(typ, count, value) THEN have \cup {c} ELSE have
  /\ UNCHANGED <<exifOff, gpsOff, taken>>

\* The first pointer of each kind counts; any other tag is passed over.
PlainEntry(value) ==
  /\ spans' = {EntrySpan}
  /\ \/ ifd = "ifd0" /\ exifOff = NoPointer /\ exifOff' = value /\ UNCHANGED gpsOff
     \/ ifd = "ifd0" /\ gpsOff = NoPointer /\ gpsOff' = value /\ UNCHANGED exifOff
     \/ UNCHANGED <<exifOff, gpsOff>>
  /\ UNCHANGED <<taken, have>>

Entry(typ, count, value) == /\ pc = "entries"
                            /\ k < n
                            /\ k' = k + 1
                            /\ \/ TextEntry(typ, count, value)
                               \/ CoordinateEntry(typ, count, value)
                               \/ PlainEntry(value)
                            /\ UNCHANGED <<pc, scan, tlen, ifd, off, n>>

\* No more entries: the Exif directory is next, then the GPS directory.
OpenAt(name, at) == pc' = "open" /\ ifd' = name /\ off' = at

\* A GPS pointer is followed out of the GPS directory, too.
GPSAgain == gpsOff > 0
GPSNext == ifd # "gps" /\ gpsOff > 0

DirectoryEnds == /\ pc = "entries"
                 /\ k = n
                 /\ spans' = {}
                 /\ IF ifd = "ifd0" /\ exifOff > 0 /\ exifOff + 2 <= tlen
                    THEN OpenAt("exif", exifOff)
                    ELSE IF GPSNext
                         THEN OpenAt("gps", gpsOff)
                         ELSE pc' = "done" /\ UNCHANGED <<ifd, off>>
                 /\ UNCHANGED <<scan, tlen, n, k, found>>

Scan == \/ Start
        \/ ScanEnds
        \/ \E segLen \in U16 : SegmentBad(segLen) \/ SegmentSkipped(segLen) \/ SegmentIsExif(segLen)

Parse == \/ TiffEnds
         \/ \E ifd0 \in U32 : Tiff(ifd0)
         \/ \E count \in U16 : Open(count)
         \/ \E typ \in U16, count, value \in U32 : Entry(typ, count, value)
         \/ DirectoryEnds

Next == Scan \/ Parse

Spec == Init /\ [][Next]_vars

\* One goroutine runs the reader and nothing blocks it.
FairSpec == Spec /\ WF_vars(Next)

-----------------------------------------------------------------------------
(* Properties                                                                *)

\* Whatever lengths, counts and offsets a file claims, every slice the reader
\* takes is inside the block it is taken of: no read panics.
InBounds == \A s \in spans : 0 <= s.lo /\ s.lo <= s.hi /\ s.hi <= s.of

\* Every file is read to an end: pointers into one another cannot make the
\* reader go round.
ParseTerminates == <>(pc = "done")

\* What is left to do: the stages still to come, each of which has fewer turns
\* than the file has bytes, and the turns of the stage the reader is in.
Stage == CASE pc = "start"   -> 9
           [] pc = "scan"    -> 8
           [] pc = "tiff"    -> 7
           [] pc = "open"    -> [ifd0 |-> 6, exif |-> 4, gps |-> 2][ifd]
           [] pc = "entries" -> [ifd0 |-> 5, exif |-> 3, gps |-> 1][ifd]
           [] pc = "done"    -> 0
Turns == CASE pc = "scan"    -> len - i
           [] pc = "entries" -> n - k
           [] OTHER          -> 0
Budget == Stage * (len + 1) + Turns

\* The turns of the reader's loops are linear in the file, whatever the file
\* says: no loop is longer than the bytes there are, none is entered twice, and
\* so it stops within 9 * (len + 1) turns. The code goes through IFD0 three
\* times where this goes once, and a turn may copy the bytes of a string.
WorkIsLinear == [][Budget' >= 0 /\ Budget' < Budget]_vars
=============================================================================
