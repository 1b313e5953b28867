------------------------------ MODULE MCLocker ------------------------------
EXTENDS Locker

\* As many addresses as goroutines and keys can pin, plus one to allocate.
AddressesSuffice == Cardinality(Objs) > Cardinality(Procs) + Cardinality(Keys)
ASSUME AddressesSuffice
=============================================================================
