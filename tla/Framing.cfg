SPECIFICATION FramingSpec
CONSTANTS
    Receivers = {"daemon", "ssh", "desktop", "lines"}
    WebFrames <- MCWebFrames
    Payloads <- MCPayloads
    Heads <- MCHeads
    MaxFrames = 3
    MaxMessage = 3
    MaxControl = 1
    MaxHead = 11
    MaxChunk = 8
    ByteXor <- MCByteXor
INVARIANTS
    FramesAreReported
    HeldIsBounded
CHECK_DEADLOCK FALSE
