\* Two threads and one session; a chunk holds two small packets or a middle one, and no chunk
\* holds the big one.  BufferSize and BufferCount are those of a RecvBuffer of 15 bytes.
CONSTANTS
  Threads = {t1, t2}
  Sessions = {s1}
  Packets = {p1, p2, p3, p4, p5}
  Small = {p1, p2}
  Middle = {p3, p4}
  Big = {p5}
  Chunks = {c1, c2, c3}
  NoPacket = NoPacket
  NoChunk = NoChunk
  HeaderSize = 2
  ChunkSize = 4
  BufferSize = 5
  BufferCount = 3
  Size <- Sizes
SPECIFICATION Spec

INVARIANTS TypeOK Intact StopsExplained
PROPERTY IsChannel
SYMMETRY Symmetry
CHECK_DEADLOCK FALSE
