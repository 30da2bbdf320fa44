\* One request at a time; pngquant, cwebp and avifenc configured, cjpeg not.
CONSTANTS
    Goroutines = {g1}
    Requests <- BoxRequests
    Configured = {"pngquant", "cwebp", "avifenc"}
    MaxDimCap = 5
    CodecLimit = 4
    TempNames = {t1, t2, t3}
    Absent = Absent
    NotInt = NotInt
SPECIFICATION Spec
INVARIANTS ZeroSideAutoScales
