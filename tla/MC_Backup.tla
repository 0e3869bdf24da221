------------------------------ MODULE MC_Backup ------------------------------
(* A folder holding a file of two chunks and an empty folder, then a file *)
(* of one chunk, with the backup size read from the options equal to what *)
(* is packed: the estimate is exact.                                      *)
EXTENDS Backup

MCFile(n) == [isDir |-> FALSE, size |-> n, entries |-> <<>>]
MCDir(es) == [isDir |-> TRUE, size |-> 0, entries |-> es]
MCEntries == << MCDir(<< MCFile(2), MCDir(<<>>) >>), MCFile(1) >>

=============================================================================
