--------------------------- MODULE MCEtcdRegistry ---------------------------
EXTENDS EtcdRegistry, TLC

CONSTANTS sa, sb
=============================================================================
