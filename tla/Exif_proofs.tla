---------------------------- MODULE Exif_proofs ----------------------------
(***************************************************************************)
(* Proofs about Exif: whatever a file of any length claims about itself,   *)
(* the reader of internal/service/metadata.go slices inside its blocks.    *)
(*                                                                         *)
(* Most slices are checked by the step that takes them.  The entries of a  *)
(* directory are not: readIFD checks once that all of them fit and reads   *)
(* them in a loop, which is what DirectoryFits remembers.                  *)
(***************************************************************************)
EXTENDS Exif, TLAPS

\* The check of readIFD still holds of the entries not handled yet.
DirectoryFits == pc = "entries" => /\ k <= n
                                   /\ n # 0 => off + 2 + n * 12 + 4 <= tlen

IInv == TypeOK /\ InBounds /\ DirectoryFits

\* A string is only sliced when its end lies inside the block and it is longer
\* than the four bytes an entry holds itself.
LEMMA StringInside ==
  ASSUME tlen \in Nat, NEW typ \in U16, NEW count \in U32, NEW value \in U32,
         NEW s \in StringSpans(typ, count, value)
  PROVE  0 <= s.lo /\ s.lo <= s.hi /\ s.hi <= s.of
<1> DEFINE total == count * TypeSize[typ]
<1>1. typ \in DOMAIN TypeSize
  BY DEF StringSpans
<1>2. TypeSize[typ] \in Nat
  BY <1>1 DEF TypeSize
<1>3. count \in Nat /\ value \in Nat
  BY FieldAssumption
<1>4. total \in Int
  BY <1>2, <1>3
<1>5. ~(total <= 4 \/ value + total > tlen) /\ s = Span(value, value + total, tlen)
  BY <1>1 DEF StringSpans
<1> HIDE DEF total
<1> QED
  BY <1>3, <1>4, <1>5 DEF Span

LEMMA RationalsInside ==
  ASSUME tlen \in Nat, NEW typ \in U16, NEW count \in U32, NEW value \in U32,
         NEW s \in RationalSpans(typ, count, value)
  PROVE  0 <= s.lo /\ s.lo <= s.hi /\ s.hi <= s.of
<1>1. value \in Nat
  BY FieldAssumption
<1> QED
  BY <1>1 DEF RationalSpans, IsRationals, Span

\* The entry the loop reads is one of those readIFD checked.
LEMMA EntryInside ==
  ASSUME IInv, pc = "entries", k < n
  PROVE  0 <= EntrySpan.lo /\ EntrySpan.lo <= EntrySpan.hi /\ EntrySpan.hi <= EntrySpan.of
  BY DEF IInv, TypeOK, DirectoryFits, EntrySpan, Span

LEMMA InitInv == Init => IInv
<1> SUFFICES ASSUME Init
             PROVE  IInv
  OBVIOUS
<1>1. taken \in BOOLEAN /\ have \subseteq {"lat", "lng"}
  BY Zenon DEF Init
<1>2. TypeOK
  BY <1>1, FieldAssumption DEF Init, TypeOK
<1>3. InBounds /\ DirectoryFits
  BY DEF Init, InBounds, DirectoryFits
<1> QED
  BY <1>2, <1>3 DEF IInv

\* The scan of the JPEG's segments.
LEMMA ScanInv == IInv /\ Scan => IInv'
<1> SUFFICES ASSUME IInv, Scan
             PROVE  IInv'
  OBVIOUS
<1> USE DEF IInv, TypeOK, DirectoryFits, scan, dir, found
<1>1. CASE Start
  BY <1>1 DEF Start, InBounds, Span
<1>2. CASE ScanEnds
  BY <1>2 DEF ScanEnds, InBounds, Span
<1>3. ASSUME NEW segLen \in U16,
             SegmentBad(segLen) \/ SegmentSkipped(segLen) \/ SegmentIsExif(segLen)
      PROVE  IInv'
  <2>1. segLen \in Nat
    BY <1>3, FieldAssumption
  <2>2. CASE SegmentBad(segLen)
    BY <2>1, <2>2 DEF SegmentBad, InBounds, Span
  <2>3. CASE SegmentSkipped(segLen)
    BY <2>1, <2>3 DEF SegmentSkipped, SegmentFits, NextMarker, InBounds, Span
  <2>4. CASE SegmentIsExif(segLen)
    BY <2>1, <2>4 DEF SegmentIsExif, SegmentFits, InBounds, Span
  <2> QED
    BY <1>3, <2>2, <2>3, <2>4
<1> QED
  BY <1>1, <1>2, <1>3 DEF Scan

\* One entry of a directory.
LEMMA EntryInv ==
  ASSUME IInv, NEW typ \in U16, NEW count \in U32, NEW value \in U32,
         Entry(typ, count, value)
  PROVE  IInv'
<1>1. pc = "entries" /\ k < n /\ k' = k + 1 /\ UNCHANGED <<pc, scan, tlen, ifd, off, n>>
  BY DEF Entry
<1>2. value \in Nat /\ tlen \in Nat
  BY FieldAssumption DEF IInv, TypeOK
<1>3. DirectoryFits'
  BY <1>1 DEF IInv, TypeOK, DirectoryFits
<1>4. CASE TextEntry(typ, count, value)
  <2>1. TypeOK'
    <3>1. taken' \in BOOLEAN
      BY <1>4, Zenon DEF TextEntry, IInv, TypeOK
    <3>2. UNCHANGED <<exifOff, gpsOff, have>>
      BY <1>4 DEF TextEntry
    <3> QED
      BY <1>1, <3>1, <3>2 DEF IInv, TypeOK, scan
  <2>2. InBounds'
    <3>1. spans' = {EntrySpan} \cup StringSpans(typ, count, value)
      BY <1>4 DEF TextEntry
    <3> QED
      BY <1>1, <1>2, <3>1, EntryInside, StringInside DEF InBounds
  <2> QED
    BY <1>3, <2>1, <2>2 DEF IInv
<1>5. CASE CoordinateEntry(typ, count, value)
  <2>1. TypeOK'
    BY <1>1, <1>5 DEF CoordinateEntry, IInv, TypeOK, scan
  <2>2. InBounds'
    <3>1. spans' = {EntrySpan} \cup RationalSpans(typ, count, value)
      BY <1>5 DEF CoordinateEntry
    <3> QED
      BY <1>1, <1>2, <3>1, EntryInside, RationalsInside DEF InBounds
  <2> QED
    BY <1>3, <2>1, <2>2 DEF IInv
<1>6. CASE PlainEntry(value)
  <2>1. TypeOK'
    BY <1>1, <1>2, <1>6 DEF PlainEntry, IInv, TypeOK, scan
  <2>2. InBounds'
    BY <1>1, <1>6, EntryInside DEF PlainEntry, InBounds
  <2> QED
    BY <1>3, <2>1, <2>2 DEF IInv
<1> QED
  BY <1>4, <1>5, <1>6 DEF Entry

\* The TIFF header and the directories.
LEMMA ParseInv == IInv /\ Parse => IInv'
<1> SUFFICES ASSUME IInv, Parse
             PROVE  IInv'
  OBVIOUS
<1>1. CASE TiffEnds
  BY <1>1 DEF TiffEnds, InBounds, Span, IInv, TypeOK, DirectoryFits, scan, dir, found
<1>2. ASSUME NEW ifd0 \in U32, Tiff(ifd0)
      PROVE  IInv'
  <2>1. ifd0 \in Nat
    BY <1>2, FieldAssumption
  <2> QED
    BY <1>2, <2>1 DEF Tiff, InBounds, Span, IInv, TypeOK, DirectoryFits, scan, found
<1>3. ASSUME NEW count \in U16, Open(count)
      PROVE  IInv'
  <2>1. count \in Nat
    BY <1>3, FieldAssumption
  <2>2. n' \in Nat /\ (n' # 0 => off + 2 + n' * 12 + 4 <= tlen)
    BY <1>3, <2>1 DEF Open, EntriesFit
  <2>3. k' = 0 /\ pc' = "entries" /\ UNCHANGED <<scan, tlen, ifd, off, found>>
    BY <1>3 DEF Open
  <2>4. TypeOK'
    BY <2>2, <2>3 DEF IInv, TypeOK, scan, found
  <2>5. DirectoryFits'
    BY <2>2, <2>3 DEF DirectoryFits
  <2>6. InBounds'
    BY <1>3 DEF Open, InBounds, Span, IInv, TypeOK
  <2> QED
    BY <2>4, <2>5, <2>6 DEF IInv
<1>4. ASSUME NEW typ \in U16, NEW count \in U32, NEW value \in U32, Entry(typ, count, value)
      PROVE  IInv'
  BY <1>4, EntryInv
<1>5. CASE DirectoryEnds
  BY <1>5 DEF DirectoryEnds, OpenAt, GPSNext, NoPointer, InBounds, IInv, TypeOK, DirectoryFits,
              scan, found
<1> QED
  BY <1>1, <1>2, <1>3, <1>4, <1>5 DEF Parse

LEMMA Invariance == Spec => []IInv
<1>1. IInv /\ UNCHANGED vars => IInv'
  BY DEF IInv, TypeOK, InBounds, DirectoryFits, vars, scan, dir, found
<1>2. IInv /\ [Next]_vars => IInv'
  BY <1>1, ScanInv, ParseInv DEF Next
<1> QED
  BY <1>2, InitInv, PTL DEF Spec

\* The reader's positions, counts and offsets stay natural numbers.
THEOREM TypeCorrect == Spec => []TypeOK
<1>1. IInv => TypeOK
  BY DEF IInv
<1> QED
  BY <1>1, Invariance, PTL

\* For a file of any length with any content, no slice leaves its block.
THEOREM NoReadOutOfBounds == Spec => []InBounds
<1>1. IInv => InBounds
  BY DEF IInv
<1> QED
  BY <1>1, Invariance, PTL

-----------------------------------------------------------------------------
\* The work is linear.

\* The reader's position stays in the file and the block it parses is a part
\* of it, so no loop has more turns than the file has bytes.
Within == /\ pc = "scan" => i <= len
          /\ tlen <= len

WInv == IInv /\ Within

LEMMA WithinInit == Init => Within
  BY FieldAssumption DEF Init, Within

LEMMA WithinStep == IInv /\ Within /\ [Next]_vars => Within'
<1> SUFFICES ASSUME IInv, Within, [Next]_vars
             PROVE  Within'
  OBVIOUS
<1> USE DEF Within, scan, dir, found
<1>1. CASE Start
  BY <1>1 DEF Start, IInv, TypeOK
<1>2. CASE ScanEnds
  BY <1>2 DEF ScanEnds
<1>3. ASSUME NEW segLen \in U16,
             SegmentBad(segLen) \/ SegmentSkipped(segLen) \/ SegmentIsExif(segLen)
      PROVE  Within'
  <2>1. segLen \in Nat /\ i \in Nat /\ len \in Nat
    BY <1>3, FieldAssumption DEF IInv, TypeOK
  <2>2. CASE SegmentBad(segLen)
    BY <2>2 DEF SegmentBad
  <2>3. CASE SegmentSkipped(segLen)
    BY <2>1, <2>3 DEF SegmentSkipped, SegmentFits, NextMarker
  <2>4. CASE SegmentIsExif(segLen)
    BY <2>1, <2>4 DEF SegmentIsExif, SegmentFits
  <2> QED
    BY <1>3, <2>2, <2>3, <2>4
<1>4. CASE Parse
  BY <1>4 DEF Parse, TiffEnds, Tiff, Open, Entry, DirectoryEnds, OpenAt
<1>5. CASE UNCHANGED vars
  BY <1>5 DEF vars
<1> QED
  BY <1>1, <1>2, <1>3, <1>4, <1>5 DEF Next, Scan

LEMMA WithinInvariance == Spec => []WInv
<1>1. WInv /\ [Next]_vars => Within'
  BY WithinStep DEF WInv
<1>2. WInv /\ [Next]_vars => IInv'
  <2>1. IInv /\ UNCHANGED vars => IInv'
    BY DEF IInv, TypeOK, InBounds, DirectoryFits, vars, scan, dir, found
  <2> QED
    BY <2>1, ScanInv, ParseInv DEF Next, WInv
<1>3. Init => WInv
  BY InitInv, WithinInit DEF WInv
<1> QED
  BY <1>1, <1>2, <1>3, PTL DEF Spec, WInv

\* A lower stage is less work, whatever the turns of either.
LEMMA LowerStage ==
  ASSUME NEW a \in Nat, NEW b \in Nat, b < a, NEW m \in Nat, NEW x \in Nat, NEW y \in 0..m
  PROVE  b * (m + 1) + y >= 0 /\ b * (m + 1) + y < a * (m + 1) + x
<1>1. PICK d \in Nat : a = b + 1 + d
  <2>1. a - b - 1 \in Nat /\ a = b + 1 + (a - b - 1)
    OBVIOUS
  <2> QED
    BY <2>1
<1>2. a * (m + 1) = b * (m + 1) + (m + 1) + d * (m + 1)
  BY <1>1
<1>3. b * (m + 1) \in Nat /\ d * (m + 1) \in Nat
  OBVIOUS
<1> QED
  BY <1>2, <1>3

\* The same stage with fewer turns left is less work.
LEMMA FewerTurns ==
  ASSUME NEW a \in Nat, NEW m \in Nat, NEW x \in Nat, NEW y \in Nat, y < x
  PROVE  a * (m + 1) + y >= 0 /\ a * (m + 1) + y < a * (m + 1) + x
<1>1. a * (m + 1) \in Nat
  OBVIOUS
<1> QED
  BY <1>1

LEMMA StagesAndTurns ==
  ASSUME WInv
  PROVE  Stage \in Nat /\ Turns \in 0..len
<1>1. Stage \in Nat
  BY DEF WInv, IInv, TypeOK, Stage
<1>2. CASE pc = "entries"
  <2>1. k <= n /\ n <= len /\ n \in Nat /\ k \in Nat /\ len \in Nat
    BY <1>2 DEF WInv, Within, IInv, TypeOK, DirectoryFits
  <2> QED
    BY <1>1, <1>2, <2>1 DEF Turns
<1>3. CASE pc = "scan"
  BY <1>1, <1>3 DEF Turns, WInv, Within, IInv, TypeOK
<1>4. CASE pc \notin {"scan", "entries"}
  BY <1>1, <1>4 DEF Turns, WInv, IInv, TypeOK
<1> QED
  BY <1>2, <1>3, <1>4

\* Every step of the reader comes to a later stage, or takes a turn of the
\* loop it is in.
LEMMA StepsOn ==
  ASSUME WInv, Next
  PROVE  /\ UNCHANGED len
         /\ \/ Stage' < Stage
            \/ Stage' = Stage /\ Turns' < Turns
<1> USE DEF WInv, IInv, TypeOK, scan, dir, found
<1>1. CASE Start \/ ScanEnds
  BY <1>1 DEF Start, ScanEnds, Stage
<1>2. ASSUME NEW segLen \in U16, SegmentBad(segLen) \/ SegmentIsExif(segLen)
      PROVE  UNCHANGED len /\ Stage' < Stage
  BY <1>2 DEF SegmentBad, SegmentIsExif, Stage
<1>3. ASSUME NEW segLen \in U16, SegmentSkipped(segLen)
      PROVE  UNCHANGED len /\ Stage' = Stage /\ Turns' < Turns
  <2>1. segLen \in Nat /\ pc = "scan" /\ pc' = "scan" /\ len' = len /\ i' > i
    BY <1>3, FieldAssumption DEF SegmentSkipped, NextMarker
  <2>2. i' \in Nat
    BY <1>3, <2>1 DEF SegmentSkipped, NextMarker
  <2> QED
    BY <2>1, <2>2 DEF Stage, Turns
<1>4. CASE TiffEnds
  BY <1>4 DEF TiffEnds, Stage
<1>5. ASSUME NEW ifd0 \in U32, Tiff(ifd0)
      PROVE  UNCHANGED len /\ Stage' < Stage
  BY <1>5 DEF Tiff, Stage
<1>6. ASSUME NEW count \in U16, Open(count)
      PROVE  UNCHANGED len /\ Stage' < Stage
  BY <1>6 DEF Open, Stage
<1>7. ASSUME NEW typ \in U16, NEW count \in U32, NEW value \in U32, Entry(typ, count, value)
      PROVE  UNCHANGED len /\ Stage' = Stage /\ Turns' < Turns
  <2>1. pc = "entries" /\ pc' = "entries" /\ k' = k + 1 /\ UNCHANGED <<len, ifd, n>>
    BY <1>7 DEF Entry
  <2> QED
    BY <2>1 DEF Stage, Turns
<1>8. CASE DirectoryEnds
  BY <1>8 DEF DirectoryEnds, OpenAt, GPSNext, Stage
<1> QED
  BY <1>1, <1>2, <1>3, <1>4, <1>5, <1>6, <1>7, <1>8 DEF Next, Scan, Parse

\* Reading the metadata of a file of any length, with any content, takes a
\* number of turns linear in that length: with the fairness of a goroutine that
\* runs, it ends.
THEOREM ReadingIsLinear == Spec => WorkIsLinear
<1>1. ASSUME WInv, WInv', Next
      PROVE  Budget' >= 0 /\ Budget' < Budget
  <2>1. Stage \in Nat /\ Turns \in 0..len /\ Stage' \in Nat /\ Turns' \in 0..len'
    <3>1. WInv' => (Stage \in Nat /\ Turns \in 0..len)'
      BY StagesAndTurns, PTL
    <3> QED
      BY <1>1, <3>1, StagesAndTurns
  <2>2. len' = len /\ len \in Nat
    BY <1>1, StepsOn DEF WInv, IInv, TypeOK
  <2>3. CASE Stage' < Stage
    <3>1. Turns \in Nat /\ Turns' \in 0..len
      BY <2>1, <2>2
    <3>2. Stage' * (len + 1) + Turns' >= 0 /\ Stage' * (len + 1) + Turns' < Budget
      BY <2>1, <2>2, <2>3, <3>1, LowerStage, Zenon DEF Budget
    <3> QED
      BY <2>2, <3>2 DEF Budget
  <2>4. CASE Stage' = Stage /\ Turns' < Turns
    <3>1. Turns \in Nat /\ Turns' \in Nat
      BY <2>1, <2>2
    <3>2. Stage * (len + 1) + Turns' >= 0 /\ Stage * (len + 1) + Turns' < Budget
      BY <2>1, <2>2, <2>4, <3>1, FewerTurns, Zenon DEF Budget
    <3> QED
      BY <2>2, <2>4, <3>2 DEF Budget
  <2> QED
    BY <1>1, <2>3, <2>4, StepsOn
<1>2. WInv /\ WInv' /\ [Next]_vars => [Budget' >= 0 /\ Budget' < Budget]_vars
  BY <1>1
<1> QED
  BY <1>2, WithinInvariance, PTL DEF Spec, WorkIsLinear
=============================================================================
