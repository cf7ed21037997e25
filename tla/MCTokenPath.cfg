CONSTANTS
    Half = Half
    OtherHalf = OtherHalf
    Chars <- MCChars
    Pieces <- MCPieces
    Parts <- MCParts
    Broken = "?"
    Decode <- MCDecode
    Stops <- MCStops
    Budget = 3
    Cap = 1
    MaxFaults = 1
SPECIFICATION PathLiveSpec

    
    
PROPERTY
    StreamEnds
