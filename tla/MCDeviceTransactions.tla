------------------------ MODULE MCDeviceTransactions ------------------------
\* Small instances of DeviceTransactions.
EXTENDS DeviceTransactions, TLC

CONSTANTS t1, t2

OneOrTwo == {<<"disk">>, <<"nic", "disk">>}
Symmetry == Permutations(Tasks)
=============================================================================
