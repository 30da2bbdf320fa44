----------------------------- MODULE MCService -----------------------------
(* Service with requests that make temporary files and one that makes none.   *)
EXTENDS Service, TLC

ToAvif(op) == [op |-> op, kind |-> "png", size |-> [w |-> 2, h |-> 2],
               width |-> 1, height |-> 1, mode |-> "fit", format |-> "avif",
               quality |-> "ok", rotate |-> 0]

MCRequests == {ToAvif("optimize"), [ToAvif("convert") EXCEPT !.format = "png"]}

Symmetry == Permutations(Conns) \cup Permutations(TempNames)
=============================================================================
