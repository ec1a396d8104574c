------------------------- MODULE MCFileVerification -------------------------
EXTENDS FileVerification, TLC

CONSTANTS f1, f2, w1, w2

OneByteEach == f1 :> 1 @@ f2 :> 1

=============================================================================
