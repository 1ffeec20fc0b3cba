--------------------------- MODULE MCSyncDevices ---------------------------
EXTENDS SyncDevices
CONSTANTS a, b, k1, k2, narrow, wide
MCDevice == {a, b}
MCKeySeq == <<k1, k2>>
MCValue == {narrow, wide}
MCWide == {wide}
\* The devices had the same history, or each its own version of one record.
MCSnapshots ==
    {[d \in MCDevice |-> (k1 :> (IF d = a THEN narrow ELSE v) @@ k2 :> Gone)] : v \in MCValue}
Symmetry == Permutations(MCDevice)
=============================================================================
