--------------------------- MODULE MCFileTransfer ----------------------------
\* Small instances of FileTransfer: two files of two frames, one that fits and one that
\* cannot be read back after its second frame; a frame repeated after that begins it anew.
EXTENDS FileTransfer, TLC

CONSTANTS cert, chain
Files == {cert, chain}
SizeOfFile == cert :> 3 @@ chain :> 4
FramesOf == cert :> 2 @@ chain :> 2
==============================================================================
