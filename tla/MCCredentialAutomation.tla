----------------------- MODULE MCCredentialAutomation -----------------------
(* Instance of CredentialAutomation: one auth file that may hold either of *)
(* two credentials.                                                        *)
EXTENDS CredentialAutomation

CONSTANTS f1, k1, k2

MCFile == {f1}
MCCred == {k1, k2}
MCOneCred == {k1}
=============================================================================
