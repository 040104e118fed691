------------------------------ MODULE FileView ------------------------------
(***************************************************************************)
(* greg_file_map and greg_file_unmap of src/src/greg_mmap.c, the POSIX     *)
(* version: a file is opened and examined; a small one is read into memory *)
(* piece by piece, a large one is mapped.  Another process may cut the     *)
(* file while it is read.  The unit of size is a line.  What is opened can *)
(* also be a pipe, whose open waits for a writer, or something else that   *)
(* is no regular file: the root of the search is opened whatever it is,    *)
(* and so is the target of a link that is not followed.                    *)
(***************************************************************************)
EXTENDS Integers

CONSTANT Threshold   \* from this size on a file is mapped (MMAP_THRESHOLD)

ASSUME ViewAssumption == Threshold \in Nat \ {0}

VARIABLES
  kind,         \* what the path names
  mapping,      \* how far greg_file_map has come
  on_disk,      \* the size of the file now
  fd,           \* is the file open?
  data, size,   \* view->data and view->size
  total_read    \* read so far

view == <<mapping, on_disk, fd, data, size, total_read>>

Kinds == {"regular", "pipe", "other"}

VInit(length) ==
  /\ kind \in Kinds
  /\ mapping = "open"
  /\ on_disk = length
  /\ fd = "closed"
  /\ data = "null"
  /\ size = 0
  /\ total_read = 0

\* Close the file and return 0, or an error.
Succeed == mapping' = "mapped" /\ fd' = "closed"
Fail == mapping' = "failed" /\ fd' = "closed"

\* The open of a pipe returns when somebody opens it to write.
NeedsWriter == mapping = "open" /\ kind = "pipe"

Open ==
  /\ mapping = "open"
  /\ \/ mapping' = "stat" /\ fd' = "open"
     \/ Fail
  /\ UNCHANGED <<on_disk, data, size, total_read>>

\* fstat fails or finds something else than a regular file.
Unusable ==
  /\ mapping = "stat"
  /\ Fail
  /\ UNCHANGED <<on_disk, data, size, total_read>>

ViewEmpty ==
  /\ mapping = "stat" /\ kind = "regular" /\ on_disk = 0
  /\ data' = "dummy"
  /\ Succeed
  /\ UNCHANGED <<on_disk, size, total_read>>

\* malloc for a file to read.
StartRead ==
  /\ mapping = "stat" /\ kind = "regular" /\ on_disk \in 1..Threshold - 1
  /\ size' = on_disk
  /\ \/ mapping' = "read" /\ data' = "heap" /\ UNCHANGED fd
     \/ Fail /\ UNCHANGED data
  /\ UNCHANGED <<on_disk, total_read>>

Map ==
  /\ mapping = "stat" /\ kind = "regular" /\ on_disk >= Threshold
  /\ size' = on_disk
  /\ \/ data' = "mmap" /\ Succeed
     \/ Fail /\ UNCHANGED data
  /\ UNCHANGED <<on_disk, total_read>>

\* read returns part of what is asked for.  After an EINTR it is called again.
Read ==
  /\ mapping = "read"
  /\ \E n \in total_read + 1..size : n <= on_disk /\ total_read' = n
  /\ UNCHANGED <<mapping, on_disk, fd, data, size>>

\* An error: the buffer is freed.
ReadFails ==
  /\ mapping = "read" /\ total_read < size
  /\ data' = "null"
  /\ Fail
  /\ UNCHANGED <<on_disk, size, total_read>>

\* Faulty variant: the size stays what fstat said.
SizeFromStat == size' = size

SizeFromRead == size' = total_read

\* Faulty variant: a read that returns 0 is tried again.
AtFullSize == total_read = size

\* Everything has been read, or read returns 0.
AtEndOfFile == total_read = size \/ total_read >= on_disk

EndRead ==
  /\ mapping = "read" /\ AtEndOfFile
  /\ SizeFromRead
  /\ Succeed
  /\ UNCHANGED <<on_disk, data, total_read>>

greg_file_map ==
  \/ Open \/ Unusable \/ ViewEmpty \/ StartRead \/ Map \/ Read \/ ReadFails \/ EndRead

\* Another process cuts the file while it is read.
Shrink ==
  /\ mapping = "read"
  /\ on_disk' \in 0..on_disk - 1
  /\ UNCHANGED <<mapping, fd, data, size, total_read>>

\* A view of size 0 is left as it is, be it the dummy or a buffer.
greg_file_unmap ==
  /\ data' = IF size = 0 THEN data ELSE "null"
  /\ UNCHANGED <<mapping, on_disk, fd, size, total_read>>

-----------------------------------------------------------------------------
\* What a view always satisfies: the file is open while it is examined and
\* read, no more is read than fits the buffer, and a buffer that is handed out
\* holds exactly size lines, all of the file unless it was cut meanwhile.
ViewInv(length) ==
  /\ on_disk \in 0..length /\ size \in 0..length /\ total_read \in 0..length
  /\ fd = IF mapping \in {"stat", "read"} THEN "open" ELSE "closed"
  /\ mapping \in {"open", "stat", "failed"} => data = "null"
  /\ mapping \in {"open", "stat"} => on_disk = length
  /\ mapping = "read" => /\ data = "heap"
                         /\ size = length
                         /\ total_read <= size
  /\ mapping = "mapped" => /\ data = "heap" => size = total_read
                           /\ data = "dummy" => size = 0
                           /\ on_disk = length => size = length
  /\ data \in {"null", "dummy", "heap", "mmap"}
  /\ mapping \in {"open", "stat", "read", "mapped", "failed"}

=============================================================================
