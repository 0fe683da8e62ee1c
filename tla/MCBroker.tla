-------------------------------- MODULE MCBroker --------------------------------
EXTENDS Broker, TLC

CONSTANTS entra, sid

\* One that names a session of the upstream entra, and one that names none.
MCTokens == [provider : {entra}, sid : {sid, Absent}, iat : {0}]

Symmetry == Permutations(Callbacks) \cup Permutations(Starts) \cup Permutations(Notices)
================================================================================
