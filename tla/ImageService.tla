---------------------------- MODULE ImageService ---------------------------
(***************************************************************************)
(* internal/handler/{resize,convert,optimize,thumbnail,process}.go over    *)
(* internal/service/{imageprocessor,optimizer,process}.go: from a parsed   *)
(* request to its answer.  An image is its format and its size; pixels and *)
(* the quality of their encoding are not modelled.  External programs may  *)
(* appear, vanish, fail or succeed at any moment, so each look-up and each *)
(* run of one has its own outcome.                                         *)
(* Requests run concurrently and meet in the directory of temporary files. *)
(*                                                                         *)
(* /process starts here with the fetched body; the fetch is another part.  *)
(***************************************************************************)
EXTENDS Integers, Sequences, FiniteSetsExt

CONSTANTS Goroutines,
          Requests,      \* the requests clients send, see Request
          Configured,    \* the tools whose configured path is not empty
          MaxDimCap,     \* 100000 in the code
          CodecLimit,    \* 65535: the largest side image/jpeg and image/gif encode
          TempNames,     \* names os.CreateTemp can pick
          Absent,        \* a form field that is not there
          NotInt         \* a field that strconv.Atoi rejects

Tools == {"pngquant", "cjpeg", "cwebp", "avifenc"}
Formats == {"jpeg", "png", "webp", "gif", "avif"}
\* image.Decode knows no AVIF, and with imaging linked in also BMP and TIFF.
Decodable == {"jpeg", "png", "webp", "gif", "bmp", "tiff"}

Size == [w : Nat, h : Nat]
\* kind is a decodable format, "broken" for bytes that are none, or Absent.
Request == [op : {"resize", "convert", "optimize", "thumbnail", "process"},
            kind : Decodable \cup {"broken", Absent}, size : Size,
            width : Int \cup {NotInt}, height : Int \cup {NotInt},
            mode : {"fit", "fill", "stretch", "other"},
            format : Formats \cup {"", "unknown"},
            quality : {"ok", NotInt},
            rotate : {0, 90, 180, 270}]

ASSUME RequestAssumption == Requests \subseteq Request /\ Absent \notin Requests /\ Absent # ""
ASSUME LimitAssumption == /\ Configured \subseteq Tools
                          /\ MaxDimCap \in Nat \ {0} /\ CodecLimit \in Nat

-----------------------------------------------------------------------------
(* Formats                                                                   *)

\* A blank or missing format means jpeg; an unknown one is an error.
NormalizeFormat(f) == IF f = "" THEN "jpeg" ELSE f
Supported(f) == f \in Formats \cup {""}

ContentType(f) == [jpeg |-> "image/jpeg", png |-> "image/png", webp |-> "image/webp",
                   gif |-> "image/gif", avif |-> "image/avif"][f]

\* The source's own format is forgotten when none is asked for.
FormatForgotten(r) == r.format
\* The format an answer to r is to have: the source's own when none is given.
Asked(r) == CASE r.op \in {"resize", "process"} /\ r.format = "" -> r.kind
              [] r.op = "thumbnail" /\ r.format = ""             -> "webp"
              [] OTHER                                           -> r.format
OutFormat(r) == NormalizeFormat(Asked(r))

-----------------------------------------------------------------------------
(* disintegration/imaging                                                    *)

Empty == [w |-> 0, h |-> 0]
NoArea(s) == s.w = 0 \/ s.h = 0
Least(a, b) == IF a < b THEN a ELSE b
AtLeastOne(n) == IF n < 1 THEN 1 ELSE n

\* floor(a * b / c + 1/2), at least a pixel
Scaled(a, b, c) == AtLeastOne((2 * a * b + c) \div (2 * c))

\* imaging.Resize: a zero side is derived from the other one.
Resize(s, w, h) ==
  IF NoArea(s) \/ (w = 0 /\ h = 0) THEN Empty
  ELSE [w |-> IF w = 0 THEN Scaled(h, s.w, s.h) ELSE w,
        h |-> IF h = 0 THEN Scaled(w, s.h, s.w) ELSE h]

\* imaging.Fit: an image for a box without area is empty, one that fits is left.
Fit(s, w, h) ==
  IF w = 0 \/ h = 0 \/ NoArea(s)   THEN Empty
  ELSE IF s.w <= w /\ s.h <= h     THEN s
  ELSE IF s.w * h > s.h * w        THEN Resize(s, w, (w * s.h) \div s.w)
  ELSE Resize(s, (h * s.w) \div s.h, h)

Fill(s, w, h) == IF w = 0 \/ h = 0 \/ NoArea(s) THEN Empty ELSE [w |-> w, h |-> h]

\* The cases of fit and fill are swapped.
ApplySwapped(mode, s, w, h) == CASE mode = "fit"     -> Fill(s, w, h)
                                 [] mode = "fill"    -> Fit(s, w, h)
                                 [] mode = "stretch" -> Resize(s, w, h)
                                 [] mode = "other"   -> s
Apply(mode, s, w, h) == CASE mode = "fit"     -> Fit(s, w, h)
                          [] mode = "fill"    -> Fill(s, w, h)
                          [] mode = "stretch" -> Resize(s, w, h)
                          [] mode = "other"   -> s

\* The cap on a requested side is forgotten.
Uncapped(n) == n
\* A side of the request, capped; /process reads anything else as 0.
Capped(n) == Least(n, MaxDimCap)
Side(n) == IF n # NotInt /\ n > 0 THEN Capped(n) ELSE 0

Turned(s, rotate) == IF rotate \in {90, 270} THEN [w |-> s.h, h |-> s.w] ELSE s

\* applyTransforms: an unknown mode is ignored; blur, sharpen, flip keep the size.
Transformed(r) == LET w == Side(r.width)
                      h == Side(r.height)
                      s == IF w > 0 \/ h > 0 THEN Apply(r.mode, r.size, w, h) ELSE r.size
                  IN Turned(s, r.rotate)

OutSize(r) == CASE r.op = "resize"    -> Apply(r.mode, r.size, Capped(r.width), Capped(r.height))
                [] r.op = "thumbnail" -> Fill(r.size, r.width, r.height)
                [] r.op = "process"   -> Transformed(r)
                [] OTHER              -> r.size

-----------------------------------------------------------------------------
(* The checks before encoding, in the order of handler and service: the code  *)
(* of the first that fails, or "".                                            *)

Beyond(s, limit) == s.w > limit \/ s.h > limit
Sides(r) == {r.width, r.height} \ {NotInt}
Sized(r) == r.op \in {"resize", "thumbnail"}

HandlerChecks(r) ==
  << <<r.op # "process" /\ r.kind = Absent, "MISSING_IMAGE">>,
     <<Sized(r) /\ NotInt \in {r.width, r.height}, "INVALID_DIMENSIONS">>,
     <<r.op = "convert" /\ r.format = "", "MISSING_FORMAT">>,
     <<r.op # "process" /\ r.quality = NotInt, "INVALID_QUALITY">> >>

ServiceChecks(r) ==
  << <<r.op = "process" /\ r.kind = Absent, "SRC_FETCH_FAILED">>,
     <<r.op \in {"convert", "optimize"} /\ ~Supported(r.format), "INVALID_FORMAT">>,
     <<r.op = "resize" /\ (Sides(r) = {0} \/ \E d \in Sides(r) : d < 0), "INVALID_DIMENSIONS">>,
     <<r.op = "thumbnail" /\ \E d \in Sides(r) : d <= 0 \/ d > MaxDimCap, "INVALID_DIMENSIONS">>,
     <<r.kind = "broken", "INVALID_IMAGE">>,
     <<~Supported(Asked(r)), "INVALID_FORMAT">>,
     <<r.op = "resize" /\ Beyond(r.size, MaxDimCap), "INVALID_DIMENSIONS">>,
     <<r.op = "resize" /\ r.mode = "other", "INVALID_MODE">> >>

Checks(r) == HandlerChecks(r) \o ServiceChecks(r)

Failing(r) == {i \in DOMAIN Checks(r) : Checks(r)[i][1]}
Problem(r) == Checks(r)[Min(Failing(r))][2]

-----------------------------------------------------------------------------
VARIABLES pc,    \* where a request is
          req,   \* its parameters, or Absent
          res,   \* its answer, or Absent
          temp,  \* the temporary files there are
          mine   \* the ones encodeAvif of a request has yet to remove

vars == <<pc, req, res, temp, mine>>

AvifSteps == {"avifPng", "avifOut", "avifRun", "avifRead"}

Places == {"idle", "encode", "pngquant", "cjpeg", "cwebp", "avifIn", "done"} \cup AvifSteps

TypeOK == /\ pc \in [Goroutines -> Places]
          /\ \A g \in Goroutines : (req[g] = Absent) <=> (pc[g] = "idle")
          /\ \A g \in Goroutines : res[g] = Absent \/ res[g].status \in {200, 400, 500}
          /\ temp \subseteq TempNames
          /\ mine \in [Goroutines -> SUBSET TempNames]

Init == /\ pc = [g \in Goroutines |-> "idle"]
        /\ req = [g \in Goroutines |-> Absent]
        /\ res = [g \in Goroutines |-> Absent]
        /\ temp = {}
        /\ mine = [g \in Goroutines |-> {}]

Image(codec, ctype, size) == [status |-> 200, codec |-> codec, ctype |-> ctype, size |-> size]
Error(status, code) == [status |-> status, code |-> code]
\* An error that no status was set for: the header is never written.
InternalUnset == Error(0, "INTERNAL")
Internal == Error(500, "INTERNAL")

\* The goroutine's answer is written; the deferred removals have run.
Answer(g, answer) == /\ pc' = [pc EXCEPT ![g] = "done"]
                     /\ res' = [res EXCEPT ![g] = answer]
                     /\ temp' = temp \ mine[g]
                     /\ mine' = [mine EXCEPT ![g] = {}]
                     /\ UNCHANGED req

Goto(g, step) == pc' = [pc EXCEPT ![g] = step] /\ UNCHANGED <<req, res>>

\* What the environment may do when a program is looked up or run.
Outcomes(tool) == IF tool \in Configured THEN BOOLEAN ELSE {FALSE}

\* Encode's in-process codecs.
GoEncodes(codec, size) == IF codec = "png" THEN ~NoArea(size) ELSE ~Beyond(size, CodecLimit)
GoAnswer(codec, size) == IF GoEncodes(codec, size)
                         THEN Image(codec, ContentType(codec), size) ELSE Internal

\* The fallback labels its bytes with the format that was asked for.
FallbackMislabelled(r) == IF GoEncodes("jpeg", OutSize(r))
                          THEN Image("jpeg", ContentType(OutFormat(r)), OutSize(r)) ELSE Internal
FallbackJPEG(r) == GoAnswer("jpeg", OutSize(r))

\* An encoder returned err: /optimize falls back, the others pass it on.
NoFallback(r, err) == err
OnEncodeError(r, err) == IF r.op = "optimize" THEN FallbackJPEG(r) ELSE err

-----------------------------------------------------------------------------
\* The handler up to the encoder.
Begin(g, r) == /\ pc[g] = "idle"
               /\ req' = [req EXCEPT ![g] = r]
               /\ IF Failing(r) = {}
                  THEN pc' = [pc EXCEPT ![g] = "encode"] /\ UNCHANGED res
                  ELSE /\ pc' = [pc EXCEPT ![g] = "done"]
                       /\ res' = [res EXCEPT ![g] = Error(400, Problem(r))]
               /\ UNCHANGED <<temp, mine>>

Encoding(g, format) == pc[g] = "encode" /\ OutFormat(req[g]) = format

EncodeGif(g) == /\ Encoding(g, "gif")
                /\ Answer(g, GoAnswer("gif", OutSize(req[g])))

\* PNG and JPEG: /optimize tries its program, everything else is done here.
EncodeNative(g, format, tool) ==
  /\ Encoding(g, format)
  /\ \E found \in Outcomes(tool) :
       IF req[g].op = "optimize" /\ found
       THEN Goto(g, tool) /\ UNCHANGED <<temp, mine>>
       ELSE Answer(g, GoAnswer(format, OutSize(req[g])))

\* runPngquant and runCjpeg look the program up again and run it; the bytes
\* the Go encoder made answer for them when they fail. For a PNG those bytes
\* are made first, and a failure there is the answer.
RunOptimizer(g, format, tool) ==
  /\ pc[g] = tool
  /\ \E works \in Outcomes(tool) :
       Answer(g, IF works /\ (format = "png" => GoEncodes("png", OutSize(req[g])))
                 THEN Image(format, ContentType(format), OutSize(req[g]))
                 ELSE GoAnswer(format, OutSize(req[g])))

\* WebP and AVIF exist only as programs. /optimize looks before it tries.
EncodeExternal(g, format, tool, first) ==
  /\ Encoding(g, format)
  /\ IF req[g].op = "optimize"
     THEN \E found \in Outcomes(tool) :
            IF found THEN Goto(g, first) /\ UNCHANGED <<temp, mine>>
                     ELSE Answer(g, FallbackJPEG(req[g]))
     ELSE IF tool \in Configured
          THEN Goto(g, first) /\ UNCHANGED <<temp, mine>>
          ELSE Answer(g, Error(400, IF format = "webp" THEN "WEBP_UNAVAILABLE"
                                                       ELSE "AVIF_UNAVAILABLE"))

\* encodeWebp: a PNG in memory through cwebp.
RunCwebp(g) ==
  /\ pc[g] = "cwebp"
  /\ \E works \in Outcomes("cwebp") :
       Answer(g, IF works /\ GoEncodes("png", OutSize(req[g]))
                 THEN Image("webp", ContentType("webp"), OutSize(req[g]))
                 ELSE OnEncodeError(req[g], Internal))

\* A step of encodeAvif returns err; what was created so far is removed.
AvifFails(g) == Answer(g, OnEncodeError(req[g], Internal))

\* The removal of the first file is not deferred.
CreateUntracked(g, f) == temp' = temp \cup {f} /\ UNCHANGED mine
Create(g, f) == /\ temp' = temp \cup {f}
                /\ mine' = [mine EXCEPT ![g] = @ \cup {f}]

\* os.CreateTemp: an unused name, or an error.
CreateTemp(g, at, next) == /\ pc[g] = at
                           /\ \/ \E f \in TempNames \ temp : Create(g, f) /\ Goto(g, next)
                              \/ AvifFails(g)

AvifIn(g) == CreateTemp(g, "avifIn", "avifPng")

AvifPng(g) == /\ pc[g] = "avifPng"
              /\ \/ /\ GoEncodes("png", OutSize(req[g]))
                    /\ Goto(g, "avifOut") /\ UNCHANGED <<temp, mine>>
                 \/ AvifFails(g)

AvifOut(g) == CreateTemp(g, "avifOut", "avifRun")

AvifRun(g) == /\ pc[g] = "avifRun"
              /\ \/ Goto(g, "avifRead") /\ UNCHANGED <<temp, mine>>
                 \/ AvifFails(g)

AvifRead(g) == /\ pc[g] = "avifRead"
               /\ \/ Answer(g, Image("avif", ContentType("avif"), OutSize(req[g])))
                  \/ AvifFails(g)

\* The answer is sent and the goroutine takes the next request.
Finish(g) == /\ pc[g] = "done"
             /\ pc' = [pc EXCEPT ![g] = "idle"]
             /\ req' = [req EXCEPT ![g] = Absent]
             /\ res' = [res EXCEPT ![g] = Absent]
             /\ UNCHANGED <<temp, mine>>

Step(g) == \/ EncodeGif(g)
           \/ EncodeNative(g, "png", "pngquant") \/ RunOptimizer(g, "png", "pngquant")
           \/ EncodeNative(g, "jpeg", "cjpeg")   \/ RunOptimizer(g, "jpeg", "cjpeg")
           \/ EncodeExternal(g, "webp", "cwebp", "cwebp")   \/ RunCwebp(g)
           \/ EncodeExternal(g, "avif", "avifenc", "avifIn")
           \/ AvifIn(g) \/ AvifPng(g) \/ AvifOut(g) \/ AvifRun(g) \/ AvifRead(g)
           \/ Finish(g)

Next == \E g \in Goroutines : Step(g) \/ \E r \in Requests : Begin(g, r)

Spec == Init /\ [][Next]_vars

-----------------------------------------------------------------------------
Answered(g) == pc[g] = "done" /\ res[g].status = 200

(* The Content-Type of every image is the format its bytes really are,        *)
(* whichever encoder or fallback produced them.                               *)
TypeTellsTruth == \A g \in Goroutines : Answered(g) => res[g].ctype = ContentType(res[g].codec)

(* /optimize degrades and never fails because of a program: a decoded image   *)
(* in a known format gets an answer unless it has no area or is too large for *)
(* the Go codec.                                                              *)
OptimizeSurvivesTools ==
  \A g \in Goroutines :
    pc[g] = "done" /\ req[g].op = "optimize" /\ res[g].status = 500
      => NoArea(req[g].size) \/ Beyond(req[g].size, CodecLimit)

(* Without a format, /resize and /process keep that of the source; one that   *)
(* nobody encodes is a bad request, and never answered in another format or   *)
(* with a server error.                                                       *)
FormatKept ==
  \A g \in Goroutines :
    pc[g] = "done" /\ req[g].op \in {"resize", "process"} /\ req[g].format = ""
      => /\ res[g].status = 200 => res[g].codec = req[g].kind
         /\ req[g].kind \in Decodable \ Formats => res[g].status = 400

(* "fit" scales down into the box, for any aspect ratio and through both      *)
(* roundings: of a source with area the result has area, lies in the box and  *)
(* is no enlargement.                                                         *)
FitStaysInBox ==
  \A g \in Goroutines :
    Answered(g) /\ req[g].op = "resize" /\ req[g].mode = "fit"
      /\ {req[g].width, req[g].height, req[g].size.w, req[g].size.h} \subseteq Nat \ {0}
      => /\ res[g].size.w \in 1..Least(req[g].width, req[g].size.w)
         /\ res[g].size.h \in 1..Least(req[g].height, req[g].size.h)

(* No answer that scales is larger than the cap allows, whatever sides are    *)
(* asked for (convert and optimize keep the source's size, whatever it is): a *)
(* side that is given is capped, and one that "stretch" derives from the      *)
(* source is at most the cap times the source's longer side, which /resize    *)
(* has checked and /process has not.                                          *)
Longer(s) == IF s.w < s.h THEN s.h ELSE s.w
SidesBounded ==
  \A g \in Goroutines : Answered(g) =>
    LET r == req[g]
        side == Longer(res[g].size)
    IN /\ Sized(r) /\ r.mode # "stretch" => side <= MaxDimCap
       /\ Sized(r) => side <= MaxDimCap * MaxDimCap
       /\ r.op = "process" /\ r.mode # "stretch" => side <= MaxDimCap \/ side <= Longer(r.size)
       /\ r.op = "process" => side <= MaxDimCap * AtLeastOne(Longer(r.size))

(* Every temporary file belongs to one encodeAvif that still runs: no error   *)
(* path, and no other request, leaves a file behind or removes a foreign one. *)
TempFilesOwned ==
  /\ temp = UNION {mine[g] : g \in Goroutines}
  /\ \A g \in Goroutines : mine[g] # {} => pc[g] \in AvifSteps
  /\ \A g, h \in Goroutines : g # h => mine[g] \cap mine[h] = {}

(* README.md, /resize: "0 = auto-scale" for either side.                      *)
ZeroSideAutoScales ==
  \A g \in Goroutines :
    pc[g] = "done" /\ req[g].op = "resize" /\ req[g].format = "png"
      /\ Failing(req[g]) = {} /\ 0 \in Sides(req[g])
      => res[g].status = 200 /\ res[g].size # Empty
=============================================================================
