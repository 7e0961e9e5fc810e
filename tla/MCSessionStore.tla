--------------------------- MODULE MCSessionStore ---------------------------
EXTENDS SessionStore
CONSTANTS s1, s2
SessTwo == {s1, s2}
=============================================================================
