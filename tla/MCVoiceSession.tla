--------------------------- MODULE MCVoiceSession ---------------------------
EXTENDS VoiceSession, TLC

Symmetry == Permutations(Session) \cup Permutations(Connect)

=============================================================================
