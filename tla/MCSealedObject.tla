--------------------------- MODULE MCSealedObject ---------------------------
EXTENDS SealedObject
CONSTANTS s1, s2, s3

\* One list of three servers, one in which a server has weight two.
MCKeyServers == {<<s1, s2, s3>>, <<s1, s2, s1>>}
MCKeyByte == {0, 202}

\* In another order and with gaps, one twice, and the index of the secret.
MCIndices == {<<9, 255, 2>>, <<2, 1, 2>>, <<1, 0, 3>>}

MCSymmetry == Permutations(Reader)
=============================================================================
