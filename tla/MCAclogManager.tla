--------------------------- MODULE MCAclogManager ---------------------------
EXTENDS AclogManager
CONSTANTS b1, b2, s1, s2, t1, t2, t3

MCBridge == {b1, b2}
MCSignature == {s1, s2}
MCTask == {t1, t2, t3}
=============================================================================
