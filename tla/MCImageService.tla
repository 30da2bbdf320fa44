--------------------------- MODULE MCImageService --------------------------
(* ImageService on small sizes: the dimension cap is 5 and the codecs' limit  *)
(* 4, in the order of the code's 100000 and 65535.                            *)
EXTENDS ImageService, TLC

Ops == {"resize", "convert", "optimize", "thumbnail", "process"}
Modes == {"fit", "fill", "stretch", "other"}

Plain == [op |-> "resize", kind |-> "png", size |-> [w |-> 4, h |-> 2],
          width |-> 2, height |-> 2, mode |-> "fit", format |-> "",
          quality |-> "ok", rotate |-> 0]

\* Every operation on every kind of source, asking for every format.
FormatRequests == {[Plain EXCEPT !.op = o, !.kind = k, !.format = f] :
                     o \in Ops, k \in {"png", "jpeg", "webp", "bmp"},
                     f \in Formats \cup {"", "unknown"}}

\* Boxes of every shape around sources of every shape.
BoxRequests == {[Plain EXCEPT !.size = s, !.width = w, !.height = h, !.format = "png"] :
                  s \in [w : {1, 3, 5}, h : {1, 4, 5}], w \in {0, 1, 3, 4}, h \in {0, 1, 2, 5}}

ModeRequests == {[Plain EXCEPT !.op = o, !.mode = m, !.width = w, !.height = h, !.rotate = 90] :
                   o \in {"resize", "process"}, m \in Modes, w \in {-1, 0, 6}, h \in {0, 3}}

\* Fields that are missing or malformed, and a source beyond every limit.
OddRequests ==
  {[Plain EXCEPT !.op = o, !.kind = k] : o \in Ops, k \in {Absent, "broken"}}
    \cup {[Plain EXCEPT !.op = o, !.width = NotInt] : o \in Ops}
    \cup {[Plain EXCEPT !.op = o, !.quality = NotInt] : o \in Ops}
    \cup {[Plain EXCEPT !.op = o, !.size = [w |-> 6, h |-> 2], !.format = f] :
             o \in Ops, f \in {"", "png", "jpeg", "webp"}}
    \cup {[Plain EXCEPT !.op = o, !.mode = "stretch", !.size = s, !.width = 0, !.height = h] :
             o \in {"resize", "process"}, h \in {5, 6},
             s \in {[w |-> 5, h |-> 1], [w |-> 1, h |-> 5], [w |-> 6, h |-> 1]}}
    \cup {[Plain EXCEPT !.op = o, !.size = [w |-> 3, h |-> 0], !.format = f] :
             o \in Ops, f \in {"png", "gif"}}
    \cup {[Plain EXCEPT !.op = "thumbnail", !.width = w, !.format = "jpeg"] : w \in {0, 5, 6}}

AllRequests == FormatRequests \cup BoxRequests \cup ModeRequests \cup OddRequests

Symmetry == Permutations(Goroutines) \cup Permutations(TempNames)
=============================================================================
