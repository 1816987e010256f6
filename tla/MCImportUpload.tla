--------------------------- MODULE MCImportUpload ---------------------------
(* Two tabs, two exports that differ in both chunks.  The user of the first tab
   has one of them and may cancel; the user of the second has both.  Both tabs are
   in one browser, or each in its own, named after it. *)
EXTENDS ImportUpload

CONSTANTS t1, t2, fileA, fileB, a1, a2, b1, b2

MCClient == {t1, t2}
MCFile == {fileA, fileB}
MCBlock == {a1, a2, b1, b2}
MCContent == [f \in MCFile |-> IF f = fileA THEN <<a1, a2>> ELSE <<b1, b2>>]
MCSelects == [t \in MCClient |-> IF t = t1 THEN {fileA} ELSE MCFile]
MCFirst == {t1}
MCHomes == {[t \in MCClient |-> t1], [t \in MCClient |-> t]}
=============================================================================
