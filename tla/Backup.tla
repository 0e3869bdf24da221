-------------------------------- MODULE Backup --------------------------------
(***************************************************************************)
(* Creating a backup archive: the ZipWork thread                           *)
(* (src/lib/data-transfer/core/gui/getbackup/zipworker.cpp) packs the      *)
(* selected entries into a zip file and reports through                   *)
(* backupFileProcessSingal, forwarded as TransferHelper::zipTransferContent *)
(* to ZipFileProcessWidget::updateProcess                                  *)
(* (src/lib/data-transfer/core/gui/getbackup/zipfileprocesswidget.cpp) on  *)
(* the GUI thread.  The signal crosses threads, so the reports wait in a  *)
(* FIFO queue of the GUI thread's event loop.                              *)
(*                                                                         *)
(* The selected entries are a tree: a file is its size in BUFFER_SIZE     *)
(* chunks, a folder the sequence of its entries in entryInfoList order.  A report is its       *)
(* progress value: -1 for a failure, 100 for "Back up file done", the     *)
(* clamped percentage otherwise; file names and the time estimate are     *)
(* text and not state.  The backup size read from the options is the      *)
(* constant AllFileSize.                                                   *)
(***************************************************************************)
EXTENDS Integers, Sequences

CONSTANTS
    Entries,      \* the kTransferFileList entries, each [isDir, size, entries]
    AllFileSize,  \* allFileSize, in chunks (KBackupFileSize)
    Faults        \* the I/O calls that may fail: "create", "source",
                  \* "dest", "read", "write", "close"

ASSUME /\ AllFileSize \in Nat \ {0}
       /\ Faults \subseteq {"create", "source", "dest", "read", "write", "close"}

VARIABLES
    wpc,          \* where the worker is: "create", "entry", "chunk",
                  \* "close", or finished: "done", "failed", "aborted"
    idx,          \* the file being added
    chunk,        \* chunks of it written
    zipFileSize,  \* zipFileSize, in chunks
    archive,      \* the zip file: "none", "writing", "complete", "partial",
                  \* "removed"
    abort,        \* abort, set on aboutToQuit
    queue,        \* reports not yet delivered to the widget
    page          \* the widget's page: "progress" or "result"

(* addFolderToZip's walk: files are added where they are met, a folder's *)
(* entries recursively in place; an empty folder becomes a directory    *)
(* entry with nothing to copy.  backupFile walks the top-level entries    *)
(* the same way.                                                          *)
RECURSIVE AddFolderToZip(_)
AddFolderToZip(es) ==
    IF es = <<>> THEN <<>>
    ELSE LET e == Head(es) IN
         (IF e.isDir THEN AddFolderToZip(e.entries) ELSE <<e.size>>)
             \o AddFolderToZip(Tail(es))

\* Sizes[i]: chunks of the i-th file added.
Sizes == AddFolderToZip(Entries)

vars == <<wpc, idx, chunk, zipFileSize, archive, abort, queue, page>>

Finished == {"done", "failed", "aborted"}

-----------------------------------------------------------------------------
(* sendBackupFileProcess's progress: (double)zipFileSize / allFileSize *  *)
(* 100, truncated to int and clamped to 0..100.                           *)
Progress(z) ==
    LET p == (z * 100) \div AllFileSize IN IF p > 100 THEN 100 ELSE p

(* sendBackupFileFailMessage: the report -1.  The QuaZip object is local  *)
(* to backupFile, so returning closes what was written: a partial archive *)
(* stays on disk.                                                          *)
Fail ==
    /\ queue' = Append(queue, -1)
    /\ wpc' = "failed"
    /\ archive' = IF archive = "writing" THEN "partial" ELSE archive

(* backupFile: zip.open(mdCreate); failing, it reports and returns.       *)
Create ==
    /\ wpc = "create"
    /\ \/ /\ "create" \in Faults
          /\ Fail
       \/ /\ archive' = "writing"
          /\ wpc' = "entry"
          /\ UNCHANGED queue
    /\ UNCHANGED <<idx, chunk, zipFileSize, abort, page>>

(* The entry loop and addFileToZip's start: after the last entry the      *)
(* archive is closed; otherwise the abort flag is checked (closing and    *)
(* removing the archive, with no report), then the source file and the   *)
(* entry in the archive are opened, either open failing with a report.    *)
Entry ==
    /\ wpc = "entry"
    /\ IF idx > Len(Sizes)
       THEN wpc' = "close" /\ UNCHANGED <<archive, queue>>
       ELSE \/ /\ abort
               /\ archive' = "removed"
               /\ wpc' = "aborted"
               /\ UNCHANGED queue
            \/ /\ ~abort
               /\ \E f \in {"source", "dest"} \cap Faults : Fail
            \/ /\ ~abort
               /\ wpc' = "chunk"
               /\ UNCHANGED <<archive, queue>>
    /\ UNCHANGED <<idx, chunk, zipFileSize, abort, page>>

(* One pass of addFileToZip's copy loop: at the end of the file the next  *)
(* entry; otherwise a chunk is read and written (either may fail, with a *)
(* report) and sendBackupFileProcess reports the progress.               *)
Chunk ==
    /\ wpc = "chunk"
    /\ IF chunk = Sizes[idx]
       THEN /\ idx' = idx + 1 /\ chunk' = 0 /\ wpc' = "entry"
            /\ UNCHANGED <<zipFileSize, archive, queue>>
       ELSE \/ /\ \E f \in {"read", "write"} \cap Faults : Fail
               /\ UNCHANGED <<idx, chunk, zipFileSize>>
            \/ /\ chunk' = chunk + 1
               /\ zipFileSize' = zipFileSize + 1
               /\ queue' = Append(queue, Progress(zipFileSize + 1))
               /\ UNCHANGED <<idx, wpc, archive>>
    /\ UNCHANGED <<abort, page>>

(* zip.close() and the check of getZipError: a failure reports -1, else   *)
(* "Back up file done" with 100.                                          *)
Close ==
    /\ wpc = "close"
    /\ \/ /\ "close" \in Faults
          /\ queue' = Append(queue, -1)
          /\ wpc' = "failed"
          /\ archive' = "partial"
       \/ /\ queue' = Append(queue, 100)
          /\ wpc' = "done"
          /\ archive' = "complete"
    /\ UNCHANGED <<idx, chunk, zipFileSize, abort, page>>

(* abortingBackupFileProcess on aboutToQuit, on the GUI thread; the event *)
(* loop then ends and delivers nothing more.                              *)
AboutToQuit ==
    /\ ~abort
    /\ abort' = TRUE
    /\ UNCHANGED <<wpc, idx, chunk, zipFileSize, archive, queue, page>>

(* updateProcess for the oldest report: 100 or -1 go to the result page   *)
(* (nextPage), anything else updates the labels and the bar.  The         *)
(* network-transmission early return never applies to a backup file.     *)
Deliver ==
    /\ ~abort
    /\ queue # <<>>
    /\ page' = IF Head(queue) \in {100, -1} THEN "result" ELSE page
    /\ queue' = Tail(queue)
    /\ UNCHANGED <<wpc, idx, chunk, zipFileSize, archive, abort>>

Init ==
    /\ wpc = "create" /\ idx = 1 /\ chunk = 0 /\ zipFileSize = 0
    /\ archive = "none" /\ abort = FALSE /\ queue = <<>> /\ page = "progress"

Next == Create \/ Entry \/ Chunk \/ Close \/ AboutToQuit \/ Deliver

Spec == Init /\ [][Next]_vars

-----------------------------------------------------------------------------
(* ZipFileProcessWidget::updateProcess: "Transfer success or failure to   *)
(* go to the next page".  The widget shows the result page only once the *)
(* worker has finished: the archive closed and checked, or the backup     *)
(* failed.                                                                 *)
ResultAfterFinish == page = "result" => wpc \in Finished

=============================================================================
