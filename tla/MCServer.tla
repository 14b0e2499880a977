------------------------------ MODULE MCServer ------------------------------
(* Small instances of Server for TLC. *)
EXTENDS Server

MCLicense == {1, 2}
MCOneLicense == {1}
MCOneKeySet == {{1}}
MCGoodAndBadKeys == {{}, {1}}
MCKeySets == {{1}, {1, 2}}
MCCustomer == [l \in License |-> l]
MCCertSigned == {1}
MCAllSigned == License
=============================================================================
