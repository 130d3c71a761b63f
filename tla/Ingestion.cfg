CONSTANTS
    Files <- MCFiles
    BatchSize = 2
    AmountLimit = 9999
    SelectColumns = {0, 1, 2, 3}
    Batches <- MCBatches
    ParquetFiles <- MCParquetFiles
    IngestRows <- MCIngestRows
    Modulus = 8
    Hashes <- MCHashes
    Keys = {"k1", "k2", " "}
    Foreign <- MCForeign
SPECIFICATION IngestionSpec
INVARIANT EveryReaderIsTrue
INVARIANT AmountsAreExact
INVARIANT FingerprintIsOfTheMultiset
INVARIANT RecordServesReaders
INVARIANT OnlyContractBatchesPass
CHECK_DEADLOCK FALSE
