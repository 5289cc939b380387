----------------------------- MODULE LayerStore -----------------------------
(* DirectoryDomainStorage: one file per object and class, written by a      *)
(* writer that buffers everything and, when it is closed, compares with the *)
(* file that is there, writes a temporary file beside it and renames it.    *)
(* One file operation is one step: a process may stop between any two.  The *)
(* statistics of a session are left out, but for the one thing that is read *)
(* from them: whether a commit failed.                                      *)
EXTENDS Naturals

CONSTANTS IoFaults,  \* the file operations that may fail
          MaxFaults  \* bound: how many of them do

\* A layer is a pair of an object and a class.

VARIABLES
  file,     \* the layer files: a function from the layers that have one
  tmpfile,  \* layers with a ".tmp" beside them
  classdir, \* layers whose class directory exists
  writer,   \* the writer being closed
  hadFailure, \* save_session_had_failure_
  faults      \* commits that have failed, in this process or an earlier one

storeVars == <<file, tmpfile, classdir, writer, hadFailure, faults>>

NoWriter == [at |-> "closed"]

InitStore == /\ file = [l \in {} |-> NoWriter]
             /\ tmpfile = {}
             /\ classdir = {}
             /\ writer = NoWriter
             /\ hadFailure = FALSE
             /\ faults = 0

Idle == writer = NoWriter

\* A new process over what is on the disk.
Reopen == /\ writer' = NoWriter
          /\ hadFailure' = FALSE
          /\ UNCHANGED <<file, tmpfile, classdir, faults>>

BeginSaveSession == /\ hadFailure' = FALSE
                    /\ UNCHANGED <<file, tmpfile, classdir, writer, faults>>

SaveSessionHadFailure == hadFailure

\* Store and the writes: the buffer is complete when the writer is closed.
Store(l, bytes) ==
  /\ Idle
  /\ writer' = [layer |-> l, bytes |-> bytes, at |-> "compare"]
  /\ UNCHANGED <<file, tmpfile, classdir, hadFailure, faults>>

\* Variant: a failure is counted and not remembered.
RecordLayerCommit_Forget(outcome) ==
  /\ faults' = faults + (IF outcome = "failed" THEN 1 ELSE 0)
  /\ UNCHANGED hadFailure

\* RecordLayerCommit: a failure is remembered with and without a session.
RecordLayerCommit(outcome) ==
  /\ hadFailure' = (hadFailure \/ outcome = "failed")
  /\ faults' = faults + (IF outcome = "failed" THEN 1 ELSE 0)

Close(outcome) == RecordLayerCommit(outcome) /\ writer' = NoWriter

MayFail(operation) == operation \in IoFaults /\ faults < MaxFaults

Goto(step) == /\ writer' = [writer EXCEPT !.at = step]
              /\ UNCHANGED <<hadFailure, faults>>

At(step) == writer.at = step

\* Read for comparison: an error fails the commit, equality ends it.
ReadExistingLayerFile ==
  /\ At("compare")
  /\ \/ /\ MayFail("read") /\ writer.layer \in DOMAIN file
        /\ Close("failed")
     \/ /\ writer.layer \in DOMAIN file /\ file[writer.layer] = writer.bytes
        /\ Close("skipped")
     \/ /\ ~(writer.layer \in DOMAIN file /\ file[writer.layer] = writer.bytes)
        /\ Goto("create")
  /\ UNCHANGED <<file, tmpfile, classdir>>

\* Directories, then the temporary file, empty.
CreateTmp ==
  /\ At("create")
  /\ \/ /\ MayFail("create")
        /\ Close("failed")
        /\ UNCHANGED <<tmpfile, classdir>>
     \/ /\ MayFail("open")
        /\ classdir' = classdir \cup {writer.layer}
        /\ Close("failed")
        /\ UNCHANGED tmpfile
     \/ /\ classdir' = classdir \cup {writer.layer}
        /\ tmpfile' = tmpfile \cup {writer.layer}
        /\ Goto("write")
  /\ UNCHANGED file

\* Write and flush; a failure removes the temporary file.
WriteTmp ==
  /\ At("write")
  /\ \/ /\ MayFail("write")
        /\ tmpfile' = tmpfile \ {writer.layer}
        /\ Close("failed")
     \/ Goto("rename") /\ UNCHANGED tmpfile
  /\ UNCHANGED <<file, classdir>>

\* The rename replaces the file; a failure removes the temporary file.
Rename ==
  /\ At("rename")
  /\ tmpfile' = tmpfile \ {writer.layer}
  /\ \/ /\ MayFail("rename")
        /\ Close("failed")
        /\ UNCHANGED file
     \/ /\ file' = [l \in DOMAIN file \cup {writer.layer} |->
                      IF l = writer.layer THEN writer.bytes ELSE file[l]]
        /\ Close("written")
  /\ UNCHANGED classdir

CommitStep == ReadExistingLayerFile \/ CreateTmp \/ WriteTmp \/ Rename

\* What Enumerate sees of an object: its class directories, whether or not
\* a file is in them.
Enumerate(o) == {l[2] : l \in {m \in classdir : m[1] = o}}

\* Load of a layer by a query for its class.
IsLoaded(l) == l \in DOMAIN file
=============================================================================
