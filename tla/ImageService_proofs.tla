------------------------ MODULE ImageService_proofs ------------------------
(***************************************************************************)
(* Proofs about ImageService, for any number of concurrent requests, any   *)
(* requests and any tools.                                                 *)
(***************************************************************************)
EXTENDS ImageService, TLAPS

(* Inductive: ownership, and no file is owned outside encodeAvif.            *)
TempInv == /\ mine \in [Goroutines -> SUBSET TempNames]
           /\ pc \in [Goroutines -> Places]
           /\ TempFilesOwned

(* The return of a request removes its own files and no others.              *)
LEMMA AnswerKeeps ==
  ASSUME TempInv, NEW g \in Goroutines, NEW answer, Answer(g, answer)
  PROVE  TempInv'
<1>1. /\ pc' = [pc EXCEPT ![g] = "done"] /\ temp' = temp \ mine[g]
      /\ mine' = [mine EXCEPT ![g] = {}]
  BY DEF Answer
<1>2. mine' \in [Goroutines -> SUBSET TempNames] /\ pc' \in [Goroutines -> Places]
  BY <1>1 DEF TempInv, Places
<1>3. mine'[g] = {} /\ \A h \in Goroutines \ {g} : mine'[h] = mine[h] /\ pc'[h] = pc[h]
  BY <1>1 DEF TempInv
<1>4. temp' = UNION {mine'[h] : h \in Goroutines}
  <2>1. \A h \in Goroutines \ {g} : mine[h] \cap mine[g] = {}
    BY DEF TempInv, TempFilesOwned
  <2>2. temp = UNION {mine[h] : h \in Goroutines}
    BY DEF TempInv, TempFilesOwned
  <2>3. QED  BY <1>1, <1>3, <2>1, <2>2
<1>5. QED  BY <1>2, <1>3, <1>4 DEF TempInv, TempFilesOwned

(* A move between steps that create and remove nothing.                      *)
LEMMA MoveKeeps ==
  ASSUME TempInv, NEW g \in Goroutines, NEW p \in Places,
         pc' = [pc EXCEPT ![g] = p], UNCHANGED <<temp, mine>>,
         p \in AvifSteps \/ pc[g] \notin AvifSteps
  PROVE  TempInv'
  BY DEF TempInv, TempFilesOwned

(* CreateTemp gives the request a file nobody has.                           *)
LEMMA CreateKeeps ==
  ASSUME TempInv, NEW g \in Goroutines, NEW p \in AvifSteps, NEW f \in TempNames \ temp,
         Create(g, f), Goto(g, p)
  PROVE  TempInv'
<1>1. /\ pc' = [pc EXCEPT ![g] = p] /\ temp' = temp \cup {f}
      /\ mine' = [mine EXCEPT ![g] = mine[g] \cup {f}]
  BY DEF Create, Goto
<1>2. mine' \in [Goroutines -> SUBSET TempNames] /\ pc' \in [Goroutines -> Places]
  BY <1>1 DEF TempInv, Places, AvifSteps
<1>3. /\ mine'[g] = mine[g] \cup {f} /\ pc'[g] = p
      /\ \A h \in Goroutines \ {g} : mine'[h] = mine[h] /\ pc'[h] = pc[h]
  BY <1>1 DEF TempInv
<1>4. temp = UNION {mine[h] : h \in Goroutines}
  BY DEF TempInv, TempFilesOwned
<1>5. temp' = UNION {mine'[h] : h \in Goroutines}
  BY <1>1, <1>3, <1>4
<1>6. \A h \in Goroutines : f \notin mine[h]
  BY <1>4
<1>7. QED  BY <1>2, <1>3, <1>5, <1>6 DEF TempInv, TempFilesOwned

LEMMA TempInvInit == Init => TempInv
  BY DEF Init, TempInv, TempFilesOwned, Places

LEMMA TempInvStep == TempInv /\ [Next]_vars => TempInv'
<1> SUFFICES ASSUME TempInv, [Next]_vars PROVE TempInv'
  OBVIOUS
<1>1. ASSUME NEW g \in Goroutines, NEW r \in Requests, Begin(g, r) PROVE TempInv'
  <2>1. pc[g] \notin AvifSteps /\ UNCHANGED <<temp, mine>>
    BY <1>1 DEF Begin, AvifSteps
  <2>2. PICK p \in {"encode", "done"} : pc' = [pc EXCEPT ![g] = p]
    BY <1>1 DEF Begin
  <2>3. QED  BY <2>1, <2>2, MoveKeeps DEF Places
<1>2. ASSUME NEW g \in Goroutines, Step(g) PROVE TempInv'
  <2>1. CASE EncodeGif(g) \/ RunOptimizer(g, "png", "pngquant")
             \/ RunOptimizer(g, "jpeg", "cjpeg") \/ RunCwebp(g)
    BY <2>1, AnswerKeeps DEF EncodeGif, RunOptimizer, RunCwebp
  <2>2. CASE EncodeNative(g, "png", "pngquant") \/ EncodeNative(g, "jpeg", "cjpeg")
    BY <2>2, AnswerKeeps, MoveKeeps DEF EncodeNative, Encoding, Goto, Places, AvifSteps
  <2>3. CASE EncodeExternal(g, "webp", "cwebp", "cwebp")
             \/ EncodeExternal(g, "avif", "avifenc", "avifIn")
    BY <2>3, AnswerKeeps, MoveKeeps DEF EncodeExternal, Encoding, Goto, Places, AvifSteps
  <2>4. CASE AvifIn(g) \/ AvifOut(g)
    BY <2>4, AnswerKeeps, CreateKeeps DEF AvifIn, AvifOut, CreateTemp, AvifFails, AvifSteps
  <2>5. CASE AvifPng(g) \/ AvifRun(g) \/ AvifRead(g)
    BY <2>5, AnswerKeeps, MoveKeeps
    DEF AvifPng, AvifRun, AvifRead, AvifFails, Goto, Places, AvifSteps
  <2>6. CASE Finish(g)
    BY <2>6, MoveKeeps DEF Finish, Places, AvifSteps
  <2>7. QED  BY <1>2, <2>1, <2>2, <2>3, <2>4, <2>5, <2>6 DEF Step
<1>3. CASE UNCHANGED vars
  BY <1>3 DEF vars, TempInv, TempFilesOwned
<1>4. QED  BY <1>1, <1>2, <1>3 DEF Next

(* No path of encodeAvif - success, any failure, the /optimize fallback -    *)
(* leaves a temporary file, and no request touches another's.                *)
THEOREM TempFilesCleaned == Spec => []TempFilesOwned
<1>1. TempInv => TempFilesOwned
  BY DEF TempInv
<1>2. QED  BY <1>1, TempInvInit, TempInvStep, PTL DEF Spec

-----------------------------------------------------------------------------
(* What the answers are                                                      *)

Paths == {"encode", "pngquant", "cjpeg", "cwebp", "avifIn"} \cup AvifSteps

(* A program is only run for the format it makes.                            *)
OnPath(p, r) ==
  /\ p = "pngquant" => r.op = "optimize" /\ OutFormat(r) = "png"
  /\ p = "cjpeg" => r.op = "optimize" /\ OutFormat(r) = "jpeg"
  /\ p = "cwebp" => OutFormat(r) = "webp"
  /\ p \in {"avifIn"} \cup AvifSteps => OutFormat(r) = "avif"

(* An answer is a refusal, an image that is labelled with what it is and, but *)
(* for the fallback of /optimize, in the format that was asked for, or 500 -  *)
(* from /optimize only when Go's own codec cannot encode the image.           *)
Unencodable(s) == NoArea(s) \/ Beyond(s, CodecLimit)
Fits(r, a) ==
  \/ \E code : a = Error(400, code)
  \/ a = Internal /\ (r.op = "optimize" => Unencodable(r.size))
  \/ \E f \in Formats : /\ a = Image(f, ContentType(f), OutSize(r))
                        /\ r.op # "optimize" => f = OutFormat(r)

AnswerInv ==
  /\ pc \in [Goroutines -> Places]
  /\ req \in [Goroutines -> Requests \cup {Absent}]
  /\ res = [g \in Goroutines |-> res[g]]
  /\ \A g \in Goroutines : /\ (req[g] = Absent) <=> (pc[g] = "idle")
                           /\ pc[g] # "done" => res[g] = Absent
                           /\ pc[g] = "done" => Fits(req[g], res[g])
                           /\ pc[g] = "done" /\ res[g].status # 400 => Failing(req[g]) = {}
                           /\ pc[g] \in Paths => Failing(req[g]) = {} /\ OnPath(pc[g], req[g])

LEMMA AnswerFits ==
  ASSUME AnswerInv, NEW g \in Goroutines, NEW a, pc[g] \in Paths, Answer(g, a), Fits(req[g], a)
  PROVE  AnswerInv'
<1>1. /\ pc' = [pc EXCEPT ![g] = "done"] /\ res' = [res EXCEPT ![g] = a] /\ req' = req
  BY DEF Answer
<1>2. pc[g] # "idle" /\ "done" \notin Paths /\ "done" \in Places
  BY DEF Paths, AvifSteps, Places
<1>3. QED  BY <1>1, <1>2 DEF AnswerInv

LEMMA GotoFits ==
  ASSUME AnswerInv, NEW g \in Goroutines, NEW p \in Paths, pc[g] \in Paths, Goto(g, p),
         OnPath(p, req[g])
  PROVE  AnswerInv'
<1>1. pc' = [pc EXCEPT ![g] = p] /\ UNCHANGED <<req, res>>
  BY DEF Goto
<1>2. p \in Places /\ p # "idle" /\ p # "done" /\ pc[g] # "idle" /\ pc[g] # "done"
  BY DEF Paths, AvifSteps, Places
<1>3. QED  BY <1>1, <1>2 DEF AnswerInv

(* Go's codecs answer with what they encode, or not at all.                  *)
LEMMA GoFits ==
  ASSUME NEW r, NEW f \in {"jpeg", "png", "gif"}, f = OutFormat(r) \/ r.op = "optimize",
         r.op = "optimize" => OutSize(r) = r.size
  PROVE  Fits(r, GoAnswer(f, OutSize(r)))
<1>1. CASE GoEncodes(f, OutSize(r))
  BY <1>1 DEF GoAnswer, Fits, Formats
<1>2. CASE ~GoEncodes(f, OutSize(r))
  <2>1. Unencodable(OutSize(r))
    BY <1>2 DEF GoEncodes, Unencodable
  <2>2. QED  BY <1>2, <2>1 DEF GoAnswer, Fits
<1>3. QED  BY <1>1, <1>2

LEMMA OptimizeKeepsSize == ASSUME NEW r, r.op = "optimize" PROVE OutSize(r) = r.size
  BY DEF OutSize

(* A program that fails is the end of a request, or a detour of /optimize.   *)
LEMMA ErrorFits == ASSUME NEW r PROVE Fits(r, OnEncodeError(r, Internal))
<1>1. CASE r.op = "optimize"
  BY <1>1, GoFits, OptimizeKeepsSize DEF OnEncodeError, FallbackJPEG
<1>2. CASE r.op # "optimize"
  BY <1>2 DEF OnEncodeError, Fits
<1>3. QED  BY <1>1, <1>2

LEMMA MadeFits ==
  ASSUME NEW r, NEW f \in Formats, f = OutFormat(r)
  PROVE  Fits(r, Image(f, ContentType(f), OutSize(r)))
  BY DEF Fits

LEMMA AnswerInvStep == AnswerInv /\ [Next]_vars => AnswerInv'
<1> SUFFICES ASSUME AnswerInv, [Next]_vars PROVE AnswerInv'
  OBVIOUS
<1>1. ASSUME NEW g \in Goroutines, NEW r \in Requests, Begin(g, r) PROVE AnswerInv'
  <2>1. r # Absent /\ req' = [req EXCEPT ![g] = r] /\ res[g] = Absent
    BY <1>1, RequestAssumption DEF Begin, AnswerInv
  <2>2. CASE Failing(r) = {}
    <3>1. pc' = [pc EXCEPT ![g] = "encode"] /\ UNCHANGED res
      BY <1>1, <2>2 DEF Begin
    <3>2. OnPath("encode", r) /\ "encode" \in Places /\ "encode" \in Paths
      BY DEF OnPath, AvifSteps, Places, Paths
    <3>3. QED  BY <2>1, <2>2, <3>1, <3>2 DEF AnswerInv
  <2>3. CASE Failing(r) # {}
    <3>1. pc' = [pc EXCEPT ![g] = "done"] /\ res' = [res EXCEPT ![g] = Error(400, Problem(r))]
      BY <1>1, <2>3 DEF Begin
    <3>2. /\ Fits(r, Error(400, Problem(r))) /\ Error(400, Problem(r)).status = 400
          /\ "done" \in Places /\ "done" \notin Paths
      BY DEF Fits, Error, Places, Paths, AvifSteps
    <3>3. QED  BY <2>1, <3>1, <3>2 DEF AnswerInv
  <2>4. QED  BY <2>2, <2>3
<1>2. ASSUME NEW g \in Goroutines, Step(g) PROVE AnswerInv'
  <2>p. pc[g] \in Paths => OnPath(pc[g], req[g])
    BY DEF AnswerInv
  <2>1. CASE EncodeGif(g)
    BY <2>1, GoFits, OptimizeKeepsSize, AnswerFits DEF EncodeGif, Encoding, Paths
  <2>2. ASSUME NEW f, NEW t, <<f, t>> \in {<<"png", "pngquant">>, <<"jpeg", "cjpeg">>},
               EncodeNative(g, f, t)
        PROVE  AnswerInv'
    <3>1. OutFormat(req[g]) = f /\ pc[g] \in Paths /\ t \in Paths /\ f \in {"png", "jpeg"}
      BY <2>2 DEF EncodeNative, Encoding, Paths
    <3>2. CASE req[g].op = "optimize" /\ Goto(g, t)
      <4>1. OnPath(t, req[g])
        BY <2>2, <3>1, <3>2 DEF OnPath, AvifSteps
      <4>2. QED  BY <3>1, <3>2, <4>1, GotoFits
    <3>3. CASE Answer(g, GoAnswer(f, OutSize(req[g])))
      BY <3>1, <3>3, GoFits, OptimizeKeepsSize, AnswerFits
    <3>4. QED  BY <2>2, <3>2, <3>3 DEF EncodeNative
  <2>3. ASSUME NEW f, NEW t, <<f, t>> \in {<<"png", "pngquant">>, <<"jpeg", "cjpeg">>},
               RunOptimizer(g, f, t)
        PROVE  AnswerInv'
    <3>1. OutFormat(req[g]) = f /\ pc[g] \in Paths /\ f \in {"png", "jpeg"} /\ f \in Formats
      BY <2>3, <2>p DEF RunOptimizer, Paths, OnPath, Formats
    <3>2. Fits(req[g], Image(f, ContentType(f), OutSize(req[g])))
      BY <3>1, MadeFits
    <3>3. Fits(req[g], GoAnswer(f, OutSize(req[g])))
      BY <3>1, GoFits, OptimizeKeepsSize
    <3>4. QED  BY <2>3, <3>1, <3>2, <3>3, AnswerFits DEF RunOptimizer
  <2>4. ASSUME NEW f, NEW t, NEW p,
               <<f, t, p>> \in {<<"webp", "cwebp", "cwebp">>, <<"avif", "avifenc", "avifIn">>},
               EncodeExternal(g, f, t, p)
        PROVE  AnswerInv'
    <3>1. OutFormat(req[g]) = f /\ pc[g] \in Paths /\ p \in Paths
      BY <2>4 DEF EncodeExternal, Encoding, Paths
    <3>2. CASE Goto(g, p)
      <4>1. OnPath(p, req[g])
        BY <2>4, <3>1 DEF OnPath, AvifSteps
      <4>2. QED  BY <3>1, <3>2, <4>1, GotoFits
    <3>3. CASE req[g].op = "optimize" /\ Answer(g, FallbackJPEG(req[g]))
      <4>1. Fits(req[g], FallbackJPEG(req[g]))
        BY <3>3, GoFits, OptimizeKeepsSize DEF FallbackJPEG
      <4>2. QED  BY <3>1, <3>3, <4>1, AnswerFits
    <3>4. CASE \E code : Answer(g, Error(400, code))
      BY <3>1, <3>4, AnswerFits DEF Fits
    <3>5. QED  BY <2>4, <3>2, <3>3, <3>4 DEF EncodeExternal
  <2>5. CASE RunCwebp(g)
    <3>1. pc[g] \in Paths /\ OutFormat(req[g]) = "webp" /\ "webp" \in Formats
      BY <2>5, <2>p DEF RunCwebp, Paths, OnPath, Formats
    <3>2. /\ Fits(req[g], Image("webp", ContentType("webp"), OutSize(req[g])))
          /\ Fits(req[g], OnEncodeError(req[g], Internal))
      BY <3>1, MadeFits, ErrorFits
    <3>3. QED  BY <2>5, <3>1, <3>2, AnswerFits DEF RunCwebp
  <2>6. CASE pc[g] \in Paths /\ AvifFails(g)
    BY <2>6, ErrorFits, AnswerFits DEF AvifFails
  <2>7. CASE \E p \in AvifSteps : pc[g] \in {"avifIn"} \cup AvifSteps /\ Goto(g, p)
    <3>1. PICK p \in AvifSteps : pc[g] \in {"avifIn"} \cup AvifSteps /\ Goto(g, p)
      BY <2>7
    <3>2. OutFormat(req[g]) = "avif" /\ pc[g] \in Paths /\ p \in Paths
      BY <2>p, <3>1 DEF OnPath, Paths
    <3>3. OnPath(p, req[g])
      BY <3>2 DEF OnPath, AvifSteps
    <3>4. QED  BY <3>1, <3>2, <3>3, GotoFits
  <2>8. CASE AvifIn(g) \/ AvifOut(g)
    BY <2>6, <2>7, <2>8 DEF AvifIn, AvifOut, CreateTemp, AvifSteps, Paths
  <2>9. CASE AvifPng(g) \/ AvifRun(g)
    BY <2>6, <2>7, <2>9 DEF AvifPng, AvifRun, AvifSteps, Paths
  <2>10. CASE AvifRead(g)
    <3>1. pc[g] \in Paths /\ OutFormat(req[g]) = "avif" /\ "avif" \in Formats
      BY <2>10, <2>p DEF AvifRead, AvifSteps, Paths, OnPath, Formats
    <3>2. Fits(req[g], Image("avif", ContentType("avif"), OutSize(req[g])))
      BY <3>1, MadeFits
    <3>3. QED  BY <2>6, <2>10, <3>1, <3>2, AnswerFits DEF AvifRead
  <2>11. CASE Finish(g)
    BY <2>11 DEF Finish, AnswerInv, Places, Paths, AvifSteps
  <2>12. QED
    BY <1>2, <2>1, <2>2, <2>3, <2>4, <2>5, <2>8, <2>9, <2>10, <2>11 DEF Step
<1>3. CASE UNCHANGED vars
  BY <1>3 DEF vars, AnswerInv
<1>4. QED  BY <1>1, <1>2, <1>3 DEF Next

LEMMA AnswersFit == Spec => []AnswerInv
<1>1. Init => AnswerInv
  BY DEF Init, AnswerInv, Places, Paths, AvifSteps
<1>2. QED  BY <1>1, AnswerInvStep, PTL DEF Spec

LEMMA ImageFields ==
  ASSUME NEW f, NEW t, NEW s
  PROVE  /\ Image(f, t, s).status = 200
         /\ Image(f, t, s).codec = f
         /\ Image(f, t, s).ctype = t
  BY DEF Image

LEMMA FittingStatus ==
  ASSUME NEW r, NEW a, Fits(r, a)
  PROVE  /\ a.status \in {200, 400, 500}
         /\ a.status = 200 /\ r.op # "optimize" => a.codec = OutFormat(r)
         /\ a.status = 500 /\ r.op = "optimize" => Unencodable(r.size)
<1>1. CASE \E code : a = Error(400, code)
  BY <1>1 DEF Error
<1>2. CASE a = Internal /\ (r.op = "optimize" => Unencodable(r.size))
  BY <1>2 DEF Internal, Error
<1>3. CASE \E f \in Formats : /\ a = Image(f, ContentType(f), OutSize(r))
                              /\ r.op # "optimize" => f = OutFormat(r)
  <2>1. PICK f \in Formats : /\ a = Image(f, ContentType(f), OutSize(r))
                             /\ r.op # "optimize" => f = OutFormat(r)
    BY <1>3
  <2>2. a.status = 200 /\ a.codec = f
    BY <2>1, ImageFields
  <2>3. (a.status = 200 /\ r.op # "optimize" => a.codec = OutFormat(r))
    BY <2>1, <2>2
  <2>4. a.status \in {200, 400, 500} /\ a.status # 500
    BY <2>2
  <2>5. QED  BY <2>3, <2>4
<1>4. QED  BY <1>1, <1>2, <1>3 DEF Fits

LEMMA FittingFormat ==
  ASSUME NEW r, NEW a, Fits(r, a), a.status = 200, r.op # "optimize"
  PROVE  a.codec = OutFormat(r)
BY FittingStatus

(* The variables keep their types, and every answer has a status.            *)
THEOREM TypeCorrect == Spec => []TypeOK
<1>1. TempInv /\ AnswerInv => TypeOK
  <2>1. \A r, a : Fits(r, a) => a.status \in {200, 400, 500}
    BY FittingStatus
  <2>2. QED  BY <2>1 DEF TempInv, TempFilesOwned, AnswerInv, TypeOK
<1>2. QED  BY <1>1, AnswersFit, TempInvInit, TempInvStep, PTL DEF Spec

(* An answer that fits carries the label of its codec.                       *)
LEMMA LabelsFollow == AnswerInv => TypeTellsTruth
  BY DEF AnswerInv, TypeTellsTruth, Answered, Fits, Error, Internal, Image

(* No encoder, fallback or failure makes a Content-Type that lies.           *)
THEOREM HonestLabels == Spec => []TypeTellsTruth
  BY LabelsFollow, AnswersFit, PTL

(* The answer that fits is 500 only for what Go's codecs cannot encode.      *)
LEMMA AnswerFollows == AnswerInv => OptimizeSurvivesTools
<1> SUFFICES ASSUME AnswerInv, NEW g \in Goroutines, pc[g] = "done",
                    req[g].op = "optimize", res[g].status = 500
             PROVE  Unencodable(req[g].size)
  BY DEF OptimizeSurvivesTools, Unencodable
<1>1. Fits(req[g], res[g])
  BY DEF AnswerInv
<1>2. QED  BY <1>1, FittingStatus

(* With every external program missing or failing, /optimize answers any      *)
(* image that has area and that Go's own codecs can encode.                   *)
THEOREM OptimizeAnswers == Spec => []OptimizeSurvivesTools
  BY AnswerFollows, AnswersFit, PTL

(* The checks of the handler come first and those of the service after them. *)
LEMMA InFront ==
  ASSUME NEW T, NEW s \in Seq(T), NEW t \in Seq(T), NEW i \in 1..Len(s)
  PROVE  (s \o t)[i] = s[i]
  OBVIOUS

LEMMA Behind ==
  ASSUME NEW T, NEW s \in Seq(T), NEW t \in Seq(T), NEW i \in 1..Len(t)
  PROVE  (s \o t)[Len(s) + i] = t[i]
  OBVIOUS

LEMMA Together ==
  ASSUME NEW T, NEW s \in Seq(T), NEW t \in Seq(T)
  PROVE  DOMAIN (s \o t) = 1..(Len(s) + Len(t))
  OBVIOUS

LEMMA FourAndEight ==
  ASSUME NEW a, NEW b, NEW c, NEW d, NEW e, NEW f, NEW g, NEW h, NEW i, NEW j, NEW k, NEW l,
         NEW all, all = <<a, b, c, d>> \o <<e, f, g, h, i, j, k, l>>
  PROVE  /\ DOMAIN all = 1..12
         /\ all[2] = b /\ all[4] = d /\ all[7] = g /\ all[8] = h /\ all[10] = j /\ all[11] = k
         /\ all[12] = l
<1> DEFINE T == {a, b, c, d, e, f, g, h, i, j, k, l}
           s == <<a, b, c, d>>
           t == <<e, f, g, h, i, j, k, l>>
<1>1. s \in Seq(T) /\ Len(s) = 4 /\ s[2] = b /\ s[4] = d
  OBVIOUS
<1>2. /\ t \in Seq(T) /\ Len(t) = 8
      /\ t[3] = g /\ t[4] = h /\ t[6] = j /\ t[7] = k /\ t[8] = l
  OBVIOUS
<1>3. all = s \o t
  OBVIOUS
<1> HIDE DEF T, s, t
<1>4. DOMAIN all = 1..12
  BY <1>1, <1>2, <1>3, Together
<1>5. all[2] = b
  BY <1>1, <1>2, <1>3, InFront
<1>6. all[4] = d
  BY <1>1, <1>2, <1>3, InFront
<1>7. \A n \in 1..Len(t) : all[Len(s) + n] = t[n]
  <2>1. s \in Seq(T) /\ t \in Seq(T)
    BY <1>1, <1>2
  <2>2. \A n \in 1..Len(t) : (s \o t)[Len(s) + n] = t[n]
    BY <2>1, Behind, Zenon
  <2>3. QED  BY <1>3, <2>2
<1>8. all[4 + 3] = g /\ all[4 + 4] = h /\ all[4 + 6] = j /\ all[4 + 7] = k /\ all[4 + 8] = l
  BY <1>1, <1>2, <1>7
<1>9. all[7] = g /\ all[8] = h /\ all[10] = j /\ all[11] = k /\ all[12] = l
  BY <1>8
<1>10. QED  BY <1>4, <1>5, <1>6, <1>9

(* A check that did not fail is a condition that does not hold.              *)
LEMMA NotFailing ==
  ASSUME NEW r, Failing(r) = {}, NEW n \in DOMAIN Checks(r), NEW P \in BOOLEAN, NEW m,
         Checks(r)[n] = <<P, m>>
  PROVE  ~P
<1>1. ~Checks(r)[n][1]
  BY DEF Failing
<1>2. QED  BY <1>1

(* What the checks have established of a request that passed them.           *)
LEMMA Passed ==
  ASSUME NEW r, Failing(r) = {}
  PROVE  /\ r.op # "process" => r.quality # NotInt
         /\ Sized(r) => r.width # NotInt /\ r.height # NotInt
         /\ r.op = "resize" => \A d \in Sides(r) : ~(d < 0)
         /\ r.op = "thumbnail" => \A d \in Sides(r) : ~(d <= 0 \/ d > MaxDimCap)
         /\ r.op = "resize" => ~Beyond(r.size, MaxDimCap) /\ r.mode # "other"
         /\ Supported(Asked(r))
<1> DEFINE A == Sized(r) /\ NotInt \in {r.width, r.height}
           B == r.op # "process" /\ r.quality = NotInt
           C == r.op = "resize" /\ (Sides(r) = {0} \/ \E d \in Sides(r) : d < 0)
           D == r.op = "thumbnail" /\ \E d \in Sides(r) : d <= 0 \/ d > MaxDimCap
           E == r.op = "resize" /\ Beyond(r.size, MaxDimCap)
           F == r.op = "resize" /\ r.mode = "other"
           G == ~Supported(Asked(r))
<1>1. PICK a, c : HandlerChecks(r) = <<a, <<A, "INVALID_DIMENSIONS">>, c, <<B, "INVALID_QUALITY">> >>
  BY Zenon DEF HandlerChecks
<1>2. PICK e, f, i :
        ServiceChecks(r) = <<e, f, <<C, "INVALID_DIMENSIONS">>, <<D, "INVALID_DIMENSIONS">>,
                             i, <<G, "INVALID_FORMAT">>, <<E, "INVALID_DIMENSIONS">>, <<F, "INVALID_MODE">> >>
  BY Zenon DEF ServiceChecks
<1>3. A \in BOOLEAN /\ B \in BOOLEAN /\ C \in BOOLEAN /\ D \in BOOLEAN
      /\ E \in BOOLEAN /\ F \in BOOLEAN /\ G \in BOOLEAN
  BY Zenon
<1>4. ~A /\ ~B /\ ~C /\ ~D /\ ~E /\ ~F /\ ~G
  <2> HIDE DEF A, B, C, D, E, F, G
  <2>1. /\ DOMAIN Checks(r) = 1..12
        /\ Checks(r)[2] = <<A, "INVALID_DIMENSIONS">>
        /\ Checks(r)[4] = <<B, "INVALID_QUALITY">>
        /\ Checks(r)[7] = <<C, "INVALID_DIMENSIONS">>
        /\ Checks(r)[8] = <<D, "INVALID_DIMENSIONS">>
        /\ Checks(r)[10] = <<G, "INVALID_FORMAT">>
        /\ Checks(r)[11] = <<E, "INVALID_DIMENSIONS">>
        /\ Checks(r)[12] = <<F, "INVALID_MODE">>
    BY <1>1, <1>2, FourAndEight DEF Checks
  <2>2. 2 \in DOMAIN Checks(r) /\ 4 \in DOMAIN Checks(r) /\ 7 \in DOMAIN Checks(r)
        /\ 8 \in DOMAIN Checks(r) /\ 10 \in DOMAIN Checks(r) /\ 11 \in DOMAIN Checks(r) /\ 12 \in DOMAIN Checks(r)
    BY <2>1
  <2>3. QED  BY <1>3, <2>1, <2>2, NotFailing, Zenon
<1>5. QED  BY <1>4 DEF Sized

(* Without a format, the answer that fits is in the source's own, and a      *)
(* source whose format nobody encodes does not pass the checks.              *)
LEMMA FormatFollows == AnswerInv => FormatKept
<1> SUFFICES ASSUME AnswerInv, NEW g \in Goroutines, pc[g] = "done",
                    req[g].op \in {"resize", "process"}, req[g].format = ""
             PROVE  /\ res[g].status = 200 => res[g].codec = req[g].kind
                    /\ req[g].kind \in Decodable \ Formats => res[g].status = 400
  BY DEF FormatKept
<1>1. /\ req[g] \in Request /\ Fits(req[g], res[g])
      /\ res[g].status # 400 => Failing(req[g]) = {}
  BY RequestAssumption DEF AnswerInv
<1>2. req[g].kind # "" /\ Asked(req[g]) = req[g].kind
  <2>1. req[g].kind \in Decodable \cup {"broken", Absent}
    BY <1>1, Zenon DEF Request
  <2>2. req[g].kind # ""
    BY <2>1, RequestAssumption DEF Decodable
  <2>3. QED  BY <2>2 DEF Asked
<1>3. OutFormat(req[g]) = req[g].kind
  BY <1>2 DEF OutFormat, NormalizeFormat
<1>4. req[g].op # "optimize"
  OBVIOUS
<1>5. res[g].status = 200 => res[g].codec = OutFormat(req[g])
  BY <1>1, <1>4, FittingFormat
<1>6. res[g].status # 400 => Supported(req[g].kind)
  BY <1>1, <1>2, Passed
<1>7. req[g].kind \in Decodable \ Formats => ~Supported(req[g].kind)
  BY <1>2 DEF Supported
<1>8. QED  BY <1>3, <1>5, <1>6, <1>7

(* Without a format, /resize and /process answer in the source's own or      *)
(* refuse the source as one they cannot encode.                              *)
THEOREM SourceFormatKept == Spec => []FormatKept
  BY FormatFollows, AnswersFit, PTL

-----------------------------------------------------------------------------
(* The box of "fit"                                                          *)

Pos == Nat \ {0}

LEMMA Quotient ==
  ASSUME NEW n \in Nat, NEW d \in Pos
  PROVE  n \div d \in Nat /\ d * (n \div d) <= n /\ n < d * (n \div d) + d
  BY DEF Pos

LEMMA Shrinks ==
  ASSUME NEW a \in Nat, NEW b \in Nat, NEW d \in Pos, d * a <= d * b
  PROVE  a <= b
  BY DEF Pos

LEMMA ShrinksStrictly ==
  ASSUME NEW a \in Nat, NEW b \in Nat, NEW d \in Pos, d * a < d * b
  PROVE  a < b
  BY DEF Pos

LEMMA Grows ==
  ASSUME NEW a \in Nat, NEW b \in Nat, NEW d \in Nat, a <= b
  PROVE  d * a <= d * b
  OBVIOUS

(* The side imaging.Fit derives, rounded down, is no longer than the box and *)
(* the source; if nothing is left of it, Resize makes it one pixel.          *)
LEMMA Shrunk ==
  ASSUME NEW a \in Pos, NEW b \in Pos, NEW c \in Pos, NEW e \in Pos, a * b <= c * e, a <= c
  PROVE  /\ (a * b) \div c \in 0..Least(e, b)
         /\ (a * b) \div c = 0 => Scaled(a, b, c) = 1
<1> DEFINE n == a * b
           q == n \div c
<1>1. n \in Nat /\ c * e \in Nat /\ c * b \in Nat
  BY DEF Pos
<1>2. q \in Nat /\ c * q <= n /\ n < c * q + c
  BY <1>1, Quotient
<1>3. n <= c * b
  <2>1. b * a <= b * c
    BY Grows DEF Pos
  <2>2. QED  BY <2>1 DEF Pos
<1>4. c * q \in Nat
  BY <1>2 DEF Pos
<1>5. q <= e
  <2>1. c * q <= c * e
    BY <1>1, <1>2, <1>4
  <2>2. QED  BY <1>2, <2>1, Shrinks DEF Pos
<1>6. q <= b
  <2>1. c * q <= c * b
    BY <1>1, <1>2, <1>3, <1>4
  <2>2. QED  BY <1>2, <2>1, Shrinks DEF Pos
<1>7. ASSUME q = 0 PROVE Scaled(a, b, c) = 1
  <2>1. n < c
    BY <1>2, <1>7 DEF Pos
  <2>2. 2 * a * b = 2 * n
    BY DEF Pos
  <2> HIDE DEF n
  <2> DEFINE m == 2 * n + c
             p == m \div (2 * c)
  <2>3. m \in Nat /\ 2 * c \in Pos /\ m < 2 * (2 * c)
    BY <1>1, <2>1 DEF Pos
  <2>4. p \in Nat /\ (2 * c) * p <= m
    BY <2>3, Quotient
  <2>5. p < 2
    <3>1. (2 * c) * p < (2 * c) * 2
      BY <2>3, <2>4 DEF Pos
    <3>2. QED  BY <2>3, <2>4, <3>1, ShrinksStrictly
  <2>6. Scaled(a, b, c) = AtLeastOne(p)
    BY <2>2 DEF Scaled
  <2> HIDE DEF p
  <2>7. QED  BY <2>4, <2>5, <2>6 DEF AtLeastOne
<1>8. QED  BY <1>2, <1>5, <1>6, <1>7 DEF Least

(* A source with area, fitted into a box with area.                          *)
LEMMA FitInBox ==
  ASSUME NEW s \in [w : Pos, h : Pos], NEW w \in Pos, NEW h \in Pos
  PROVE  /\ Fit(s, w, h).w \in 1..Least(w, s.w)
         /\ Fit(s, w, h).h \in 1..Least(h, s.h)
<1>1. s.w \in Pos /\ s.h \in Pos /\ ~NoArea(s) /\ w # 0 /\ h # 0
  BY DEF NoArea, Pos
<1>2. CASE s.w <= w /\ s.h <= h
  <2>1. Fit(s, w, h) = s
    BY <1>1, <1>2 DEF Fit
  <2>2. QED  BY <1>1, <1>2, <2>1 DEF Least, Pos
<1>3. CASE (s.w > w \/ s.h > h) /\ s.w * h > s.h * w
  <2> DEFINE q == (w * s.h) \div s.w
  <2>1. Fit(s, w, h) = Resize(s, w, q)
    BY <1>1, <1>3 DEF Fit, Pos
  <2>2. w * s.h <= s.w * h
    BY <1>1, <1>3 DEF Pos
  <2>3. w <= s.w
    <3> SUFFICES ASSUME w > s.w PROVE FALSE
      BY <1>1 DEF Pos
    <3>1. s.w * h <= w * h
      BY <1>1, Grows DEF Pos
    <3>2. w * h <= w * s.h
      BY <1>1, <1>3, Grows DEF Pos
    <3>3. QED  BY <1>1, <1>3, <3>1, <3>2 DEF Pos
  <2>4. q \in 0..Least(h, s.h) /\ (q = 0 => Scaled(w, s.h, s.w) = 1)
    BY <1>1, <2>2, <2>3, Shrunk
  <2> HIDE DEF q
  <2>5. QED  BY <1>1, <2>1, <2>3, <2>4 DEF Resize, Least, Pos
<1>4. CASE (s.w > w \/ s.h > h) /\ ~(s.w * h > s.h * w)
  <2> DEFINE q == (h * s.w) \div s.h
  <2>1. Fit(s, w, h) = Resize(s, q, h)
    BY <1>1, <1>4 DEF Fit, Pos
  <2>2. h * s.w <= s.h * w
    BY <1>1, <1>4 DEF Pos
  <2>3. h <= s.h
    <3> SUFFICES ASSUME h > s.h PROVE FALSE
      BY <1>1 DEF Pos
    <3>1. s.h * w <= h * w
      BY <1>1, Grows DEF Pos
    <3>2. h * s.w <= h * w
      BY <1>1, <2>2, <3>1 DEF Pos
    <3>3. s.w <= w
      BY <1>1, <3>2, Shrinks DEF Pos
    <3>4. QED  BY <1>1, <1>4, <3>3 DEF Pos
  <2>4. q \in 0..Least(w, s.w) /\ (q = 0 => Scaled(h, s.w, s.h) = 1)
    BY <1>1, <2>2, <2>3, Shrunk
  <2> HIDE DEF q
  <2>5. QED  BY <1>1, <2>1, <2>3, <2>4 DEF Resize, Least, Pos
<1>5. QED  BY <1>1, <1>2, <1>3, <1>4 DEF Pos

LEMMA FittingSize ==
  ASSUME NEW r, NEW a, Fits(r, a), a.status = 200
  PROVE  a.size = OutSize(r)
  BY DEF Fits, Error, Internal, Image

(* An image that fits is of the size its request makes of the source.        *)
LEMMA BoxFollows == AnswerInv => FitStaysInBox
<1> SUFFICES ASSUME AnswerInv, NEW g \in Goroutines,
                    Answered(g), req[g].op = "resize", req[g].mode = "fit",
                    {req[g].width, req[g].height, req[g].size.w, req[g].size.h} \subseteq Pos
             PROVE  /\ res[g].size.w \in 1..Least(req[g].width, req[g].size.w)
                    /\ res[g].size.h \in 1..Least(req[g].height, req[g].size.h)
  BY DEF FitStaysInBox, Pos
<1> DEFINE s == req[g].size
           w == Capped(req[g].width)
           h == Capped(req[g].height)
<1>1. req[g] \in Request /\ Fits(req[g], res[g]) /\ res[g].status = 200
  BY RequestAssumption DEF AnswerInv, Answered
<1>2. res[g].size = Fit(s, w, h)
  <2>1. res[g].size = OutSize(req[g])
    BY <1>1, FittingSize
  <2>2. QED  BY <2>1 DEF OutSize, Apply
<1>3. s \in [w : Pos, h : Pos]
  BY <1>1 DEF Request, Size, Pos
<1>4. /\ w \in Pos /\ w <= req[g].width
      /\ h \in Pos /\ h <= req[g].height
  BY LimitAssumption DEF Capped, Least, Pos
<1>5. /\ Fit(s, w, h).w \in 1..Least(w, s.w)
      /\ Fit(s, w, h).h \in 1..Least(h, s.h)
  BY <1>3, <1>4, FitInBox
<1>6. Least(w, s.w) <= Least(req[g].width, s.w) /\ Least(h, s.h) <= Least(req[g].height, s.h)
  BY <1>3, <1>4 DEF Least, Pos
<1>7. Least(req[g].width, s.w) \in Nat /\ Least(req[g].height, s.h) \in Nat
      /\ Least(w, s.w) \in Nat /\ Least(h, s.h) \in Nat
  BY <1>3, <1>4 DEF Least, Pos
<1> HIDE DEF s, w, h
<1>8. QED  BY <1>2, <1>5, <1>6, <1>7 DEF s

(* /resize in the mode fit stays in its box, for sides of any length.        *)
THEOREM BoxRespected == Spec => []FitStaysInBox
  BY BoxFollows, AnswersFit, PTL

-----------------------------------------------------------------------------
(* The cap on the sides                                                      *)

(* A side derived from another one is at most that one times the ratio.      *)
LEMMA ScaledBound ==
  ASSUME NEW a \in Pos, NEW b \in Pos, NEW c \in Pos
  PROVE  Scaled(a, b, c) \in 1..(a * b)
<1> DEFINE n == a * b
           m == 2 * n + c
           p == m \div (2 * c)
<1>1. n \in Pos /\ 2 * a * b = 2 * n
  BY DEF Pos
<1> HIDE DEF n
<1>2. m \in Nat /\ 2 * c \in Pos
  BY <1>1 DEF Pos
<1>3. p \in Nat /\ (2 * c) * p <= m
  BY <1>2, Quotient
<1>4. n <= c * n
  <2>1. n * 1 <= n * c
    BY <1>1, Grows DEF Pos
  <2>2. QED  BY <1>1, <2>1 DEF Pos
<1>5. (2 * c) * p < (2 * c) * (n + 1)
  <2>1. (2 * c) * (n + 1) = 2 * (c * n) + 2 * c
    BY <1>1 DEF Pos
  <2>2. c * n \in Nat /\ (2 * c) * p \in Nat
    BY <1>1, <1>3 DEF Pos
  <2>3. QED  BY <1>1, <1>3, <1>4, <2>1, <2>2 DEF Pos
<1>6. p < n + 1
  BY <1>1, <1>2, <1>3, <1>5, ShrinksStrictly DEF Pos
<1>7. Scaled(a, b, c) = AtLeastOne(p)
  BY <1>1 DEF Scaled
<1> HIDE DEF p
<1>8. QED  BY <1>1, <1>3, <1>6, <1>7 DEF AtLeastOne, Pos, n

LEMMA Longest ==
  ASSUME NEW s \in Size
  PROVE  /\ Longer(s) \in Nat /\ s.w <= Longer(s) /\ s.h <= Longer(s)
         /\ \A n \in Nat : s.w <= n /\ s.h <= n => Longer(s) <= n
         /\ AtLeastOne(Longer(s)) \in Pos /\ Longer(s) <= AtLeastOne(Longer(s))
         /\ Longer(Empty) = 0
  BY DEF Longer, AtLeastOne, Pos, Size, Empty

(* Resize with capped sides, one of which it may have to derive.             *)
LEMMA ResizeSides ==
  ASSUME NEW s \in Size, NEW m \in Pos, NEW w \in 0..m, NEW h \in 0..m
  PROVE  /\ Resize(s, w, h) \in Size
         /\ Longer(Resize(s, w, h)) <= m * AtLeastOne(Longer(s))
<1> DEFINE l == AtLeastOne(Longer(s))
<1>1. l \in Pos /\ m * l \in Nat /\ m <= m * l
  <2>1. l \in Pos
    BY Longest
  <2>2. m * 1 <= m * l
    BY <2>1, Grows DEF Pos
  <2>3. QED  BY <2>1, <2>2 DEF Pos
<1>2. CASE NoArea(s) \/ (w = 0 /\ h = 0)
  BY <1>1, <1>2, Longest DEF Resize, Empty, Size
<1>3. CASE ~NoArea(s) /\ ~(w = 0 /\ h = 0)
  <2>1. s.w \in Pos /\ s.h \in Pos /\ s.w <= l /\ s.h <= l
    BY <1>1, <1>3, Longest DEF NoArea, Size, Pos
  <2>2. ASSUME NEW a \in 1..m, NEW b \in Pos, NEW c \in Pos, b <= l
        PROVE  Scaled(a, b, c) \in Nat /\ Scaled(a, b, c) <= m * l
    <3>1. Scaled(a, b, c) \in 1..(a * b) /\ a * b \in Nat
      BY ScaledBound DEF Pos
    <3>2. a * b <= a * l
      BY <1>1, <2>2, Grows DEF Pos
    <3>3. l * a <= l * m
      BY <1>1, Grows DEF Pos
    <3>4. a * l = l * a /\ m * l = l * m /\ a * l \in Nat
      BY <1>1 DEF Pos
    <3>5. QED  BY <1>1, <3>1, <3>2, <3>3, <3>4
  <2>3. w = 0 => Scaled(h, s.w, s.h) \in Nat /\ Scaled(h, s.w, s.h) <= m * l
    BY <1>3, <2>1, <2>2 DEF Pos
  <2>4. h = 0 => Scaled(w, s.h, s.w) \in Nat /\ Scaled(w, s.h, s.w) <= m * l
    BY <1>3, <2>1, <2>2 DEF Pos
  <2>5. Resize(s, w, h) = [w |-> IF w = 0 THEN Scaled(h, s.w, s.h) ELSE w,
                           h |-> IF h = 0 THEN Scaled(w, s.h, s.w) ELSE h]
    BY <1>3 DEF Resize
  <2> HIDE DEF l
  <2>6. /\ Resize(s, w, h) \in Size
        /\ Resize(s, w, h).w <= m * l /\ Resize(s, w, h).h <= m * l
    BY <1>1, <2>3, <2>4, <2>5 DEF Size, Pos
  <2>7. QED  BY <1>1, <2>6, Longest DEF l
<1>4. QED  BY <1>2, <1>3

(* "fit" and "fill" stay within the sides they are given.                    *)
LEMMA FitFillSides ==
  ASSUME NEW s \in Size, NEW m \in Pos, NEW w \in 0..m, NEW h \in 0..m
  PROVE  /\ Fit(s, w, h) \in Size /\ Longer(Fit(s, w, h)) <= m
         /\ Fill(s, w, h) \in Size /\ Longer(Fill(s, w, h)) <= m
<1>1. CASE w = 0 \/ h = 0 \/ NoArea(s)
  BY <1>1, Longest DEF Fit, Fill, Empty, Size, Pos
<1>2. CASE ~(w = 0 \/ h = 0 \/ NoArea(s))
  <2>1. w \in Pos /\ h \in Pos /\ s \in [w : Pos, h : Pos] /\ m \in Nat
    BY <1>2 DEF NoArea, Size, Pos
  <2>2. /\ Fit(s, w, h).w \in 1..Least(w, s.w)
        /\ Fit(s, w, h).h \in 1..Least(h, s.h)
    BY <2>1, FitInBox
  <2>3. Least(w, s.w) \in Nat /\ Least(w, s.w) <= m /\ Least(h, s.h) \in Nat /\ Least(h, s.h) <= m
    BY <2>1 DEF Least, Pos
  <2>4. Fit(s, w, h) \in Size
    <3>1. Fit(s, w, h) = s \/ \E a, b : Fit(s, w, h) = [w |-> a, h |-> b]
      BY DEF Fit, Resize, Empty
    <3>2. QED  BY <2>2, <2>3, <3>1 DEF Size
  <2>5. Fill(s, w, h) = [w |-> w, h |-> h]
    BY <1>2 DEF Fill
  <2>6. QED  BY <2>1, <2>2, <2>3, <2>4, <2>5, Longest DEF Size
<1>3. QED  BY <1>1, <1>2

(* Every mode, for the sides the service hands to it.                        *)
LEMMA ApplySides ==
  ASSUME NEW s \in Size, NEW m \in Pos, NEW w \in 0..m, NEW h \in 0..m,
         NEW mode \in {"fit", "fill", "stretch", "other"}
  PROVE  LET t == Apply(mode, s, w, h) IN
         /\ t \in Size
         /\ mode \in {"fit", "fill"} => Longer(t) <= m
         /\ mode = "other" => t = s
         /\ mode = "stretch" => Longer(t) <= m * AtLeastOne(Longer(s))
  BY ResizeSides, FitFillSides DEF Apply

LEMMA TurnedSides ==
  ASSUME NEW s \in Size, NEW a
  PROVE  Longer(Turned(s, a)) = Longer(s)
  BY DEF Longer, Turned, Size

(* What the cap allows a request's answer.                                   *)
Allowed(r, side) ==
  /\ Sized(r) /\ r.mode # "stretch" => side <= MaxDimCap
  /\ Sized(r) => side <= MaxDimCap * MaxDimCap
  /\ r.op = "process" /\ r.mode # "stretch" => side <= MaxDimCap \/ side <= Longer(r.size)
  /\ r.op = "process" => side <= MaxDimCap * AtLeastOne(Longer(r.size))

LEMMA CapSquare ==
  /\ MaxDimCap \in Pos /\ MaxDimCap * MaxDimCap \in Nat
  /\ \A l \in 0..MaxDimCap : l * MaxDimCap <= MaxDimCap * MaxDimCap
  /\ \A l \in Pos : MaxDimCap * l \in Nat /\ MaxDimCap <= MaxDimCap * l /\ l <= MaxDimCap * l
<1> DEFINE m == MaxDimCap
<1>1. m \in Pos
  BY LimitAssumption DEF Pos
<1> HIDE DEF m
<1>2. m * m \in Nat
  BY <1>1 DEF Pos
<1>3. ASSUME NEW l \in 0..m PROVE l * m <= m * m
  <2>1. m * l <= m * m
    BY <1>1, Grows DEF Pos
  <2>2. QED  BY <1>1, <2>1 DEF Pos
<1>4. ASSUME NEW l \in Pos PROVE m * l \in Nat /\ m <= m * l /\ l <= m * l
  <2>1. m * 1 <= m * l /\ l * 1 <= l * m
    BY <1>1, Grows DEF Pos
  <2>2. QED  BY <1>1, <2>1 DEF Pos
<1>5. QED  BY <1>1, <1>2, <1>3, <1>4 DEF m

LEMMA ResizeAllowed ==
  ASSUME NEW r \in Request, Failing(r) = {}, r.op = "resize"
  PROVE  Allowed(r, Longer(OutSize(r)))
<1> DEFINE w == Capped(r.width)
           h == Capped(r.height)
           l == AtLeastOne(Longer(r.size))
<1>1. r.width \in Int /\ r.height \in Int /\ ~(r.width < 0) /\ ~(r.height < 0)
  BY Passed DEF Sized, Sides, Request
<1>2. w \in 0..MaxDimCap /\ h \in 0..MaxDimCap
  BY <1>1, LimitAssumption DEF Capped, Least
<1>3. /\ r.size \in Size /\ r.mode \in {"fit", "fill", "stretch"}
      /\ r.size.w <= MaxDimCap /\ r.size.h <= MaxDimCap
  <2>1. r.size \in Size /\ r.mode \in {"fit", "fill", "stretch", "other"}
    BY DEF Request
  <2>2. r.mode # "other" /\ ~Beyond(r.size, MaxDimCap)
    BY Passed
  <2>3. QED  BY <2>1, <2>2, LimitAssumption DEF Beyond, Size
<1>4. l \in Pos /\ l <= MaxDimCap
  BY <1>3, Longest, LimitAssumption DEF AtLeastOne
<1>5. OutSize(r) = Apply(r.mode, r.size, w, h)
  BY DEF OutSize
<1>6. /\ OutSize(r) \in Size
      /\ r.mode # "stretch" => Longer(OutSize(r)) <= MaxDimCap
      /\ r.mode = "stretch" => Longer(OutSize(r)) <= MaxDimCap * l
  BY <1>2, <1>3, <1>5, ApplySides, CapSquare
<1>7. MaxDimCap * l <= MaxDimCap * MaxDimCap /\ MaxDimCap * l \in Nat
  <2>1. l * MaxDimCap <= MaxDimCap * MaxDimCap /\ MaxDimCap * l \in Nat
    BY <1>4, CapSquare DEF Pos
  <2>2. QED  BY <1>4, <2>1, CapSquare DEF Pos
<1>8. Longer(OutSize(r)) \in Nat
  BY <1>6, Longest
<1> HIDE DEF l
<1>9. QED  BY <1>6, <1>7, <1>8, CapSquare DEF Allowed, Pos

LEMMA ThumbnailAllowed ==
  ASSUME NEW r \in Request, Failing(r) = {}, r.op = "thumbnail"
  PROVE  Allowed(r, Longer(OutSize(r)))
<1>1. r.width \in 0..MaxDimCap /\ r.height \in 0..MaxDimCap
  <2>1. r.width # NotInt /\ r.height # NotInt
    BY Passed DEF Sized
  <2>2. r.width \in Sides(r) /\ r.height \in Sides(r) /\ r.width \in Int /\ r.height \in Int
    BY <2>1 DEF Sides, Request
  <2>3. ~(r.width <= 0 \/ r.width > MaxDimCap) /\ ~(r.height <= 0 \/ r.height > MaxDimCap)
    BY <2>2, Passed
  <2>4. QED  BY <2>2, <2>3, LimitAssumption
<1>2. OutSize(r) = Fill(r.size, r.width, r.height) /\ r.size \in Size
  BY DEF OutSize, Request
<1>3. OutSize(r) \in Size /\ Longer(OutSize(r)) <= MaxDimCap
  BY <1>1, <1>2, FitFillSides, CapSquare
<1>4. Longer(OutSize(r)) \in Nat
  BY <1>3, Longest
<1>5. MaxDimCap \in 0..MaxDimCap /\ MaxDimCap <= MaxDimCap * MaxDimCap
  BY CapSquare DEF Pos
<1>6. QED  BY <1>3, <1>4, <1>5, CapSquare DEF Allowed, Pos

LEMMA ProcessAllowed ==
  ASSUME NEW r \in Request, r.op = "process"
  PROVE  Allowed(r, Longer(OutSize(r)))
<1> DEFINE w == Side(r.width)
           h == Side(r.height)
           s == IF w > 0 \/ h > 0 THEN Apply(r.mode, r.size, w, h) ELSE r.size
           l == AtLeastOne(Longer(r.size))
<1>1. w \in 0..MaxDimCap /\ h \in 0..MaxDimCap
  <2>1. \A n \in Int : n > 0 => Capped(n) \in 0..MaxDimCap
    BY LimitAssumption DEF Capped, Least
  <2>2. \A n \in Int \cup {NotInt} : Side(n) \in 0..MaxDimCap
    BY <2>1, LimitAssumption DEF Side
  <2>3. r.width \in Int \cup {NotInt} /\ r.height \in Int \cup {NotInt}
    BY DEF Request
  <2>4. QED  BY <2>2, <2>3
<1>2. r.size \in Size /\ r.mode \in {"fit", "fill", "stretch", "other"}
  BY DEF Request
<1>3. /\ l \in Pos /\ Longer(r.size) \in Nat /\ Longer(r.size) <= l
      /\ MaxDimCap * l \in Nat /\ MaxDimCap <= MaxDimCap * l /\ l <= MaxDimCap * l
  BY <1>2, Longest, CapSquare
<1>4. /\ s \in Size
      /\ \/ Longer(s) <= MaxDimCap
         \/ Longer(s) <= Longer(r.size)
         \/ r.mode = "stretch" /\ Longer(s) <= MaxDimCap * l
  <2>1. CASE w > 0 \/ h > 0
    BY <1>1, <1>2, <1>3, <2>1, ApplySides, CapSquare
  <2>2. CASE ~(w > 0 \/ h > 0)
    BY <1>2, <1>3, <2>2
  <2>3. QED  BY <2>1, <2>2
<1>5. OutSize(r) = Turned(s, r.rotate)
  BY DEF OutSize, Transformed
<1> HIDE DEF s, l
<1>6. Longer(OutSize(r)) = Longer(s) /\ Longer(s) \in Nat
  BY <1>4, <1>5, TurnedSides, Longest
<1>7. Longer(s) <= MaxDimCap * l
  BY <1>3, <1>4, <1>6, CapSquare DEF Pos
<1>8. ~Sized(r)
  BY DEF Sized
<1>9. QED  BY <1>4, <1>6, <1>7, <1>8 DEF Allowed, l

(* An image that fits is as large as its request makes it.                   *)
LEMMA SidesFollow == AnswerInv => SidesBounded
<1> SUFFICES ASSUME AnswerInv, NEW g \in Goroutines, Answered(g)
             PROVE  Allowed(req[g], Longer(res[g].size))
  BY DEF SidesBounded, Allowed
<1>1. /\ req[g] \in Request /\ Fits(req[g], res[g]) /\ res[g].status = 200
      /\ Failing(req[g]) = {}
  <2>1. pc[g] = "done" /\ res[g].status = 200 /\ res[g].status # 400
    BY DEF Answered
  <2>2. Fits(req[g], res[g]) /\ Failing(req[g]) = {} /\ req[g] # Absent
    BY <2>1 DEF AnswerInv
  <2>3. req[g] \in Request
    BY <2>2, RequestAssumption DEF AnswerInv
  <2>4. QED  BY <2>1, <2>2, <2>3
<1>2. res[g].size = OutSize(req[g])
  BY <1>1, FittingSize
<1>3. CASE req[g].op \notin {"resize", "thumbnail", "process"}
  BY <1>3 DEF Allowed, Sized
<1>4. QED
  BY <1>1, <1>2, <1>3, ResizeAllowed, ThumbnailAllowed, ProcessAllowed

(* No combination of sides, mode and source makes an image larger than the   *)
(* cap allows, or "stretch" more than the cap times the source.              *)
THEOREM SidesCapped == Spec => []SidesBounded
  BY SidesFollow, AnswersFit, PTL
=============================================================================
