CONSTANTS
    Deflate <- MC_Deflate
    TableBits <- MC_TableBits
    Chunks <- MC_Chunks
    WordSizes = {2, 8}
    Divisor = 13
    ByteMax = 255
    MaxBytesPerChunk = 6
    SumMax = 5439
    CounterMax = 765
    Alignment = 2
    BytesPerIteration = 2
SPECIFICATION Spec
INVARIANTS
    InflateTypeOK
    TablesRight
    InflateExact
    SumsFit
