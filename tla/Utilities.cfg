\* Sizes of blocks are scaled down; none divides MaxLen.
SPECIFICATION FairSpec
CONSTANTS
  RSA_KEYSUB_LEN = 3
  AES_BLOCK_SIZE = 3
  bufferSize = 4
  DEFAULT_CHUNK_SIZE = 5
  KeyLimit = 2
  Word = 16
  Bytes <- SomeBytes
  MaxLen = 10
  MaxText = 5
  MaxParts = 16
INVARIANTS TypeOK Base64Standard Base64RoundTrip KeyInLines CipherDecrypted ContentDecrypted FileHashed ChunksCoverFile
PROPERTIES CallsEnd PassesAdvance
CHECK_DEADLOCK FALSE
