SPECIFICATION Spec
CONSTANTS
    LenMod = 16
    SizeMod = 256
    Requests <- MCRequests
    Flags <- MCFlags
    ForwardingWords <- MCForwardingWords
INVARIANTS SizeIsReserved CopyIsAsBig FootprintFits
