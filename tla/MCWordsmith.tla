---------------------------- MODULE MCWordsmith ----------------------------
EXTENDS Wordsmith

TwoNouns == {"noun1", "noun2"}
=============================================================================
