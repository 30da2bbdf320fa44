\* Two requests at once; pngquant, cwebp and avifenc configured, cjpeg not.
CONSTANTS
    Goroutines = {g1, g2}
    Requests <- AllRequests
    Configured = {"pngquant", "cwebp", "avifenc"}
    MaxDimCap = 5
    CodecLimit = 4
    TempNames = {t1, t2, t3}
    Absent = Absent
    NotInt = NotInt
SPECIFICATION Spec
SYMMETRY Symmetry
INVARIANTS TypeOK TypeTellsTruth OptimizeSurvivesTools FormatKept FitStaysInBox
    SidesBounded TempFilesOwned
