SPECIFICATION Spec
CONSTANTS
    LenMod = 16
    SizeMod = 256
    Requests <- MCRequests
    Flags <- MCFlags
    ForwardingWords <- MCForwardingWords
INVARIANT SizeExcludesPadding
