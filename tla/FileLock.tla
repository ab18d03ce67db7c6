------------------------------ MODULE FileLock ------------------------------
(***************************************************************************)
(* The lock file of a workspace (internal/store/filelock.go), which is to  *)
(* keep a second process from the workspace.  The lock is an advisory lock *)
(* (gofrs/flock, external) on the file that is open, not on its name:      *)
(* removing the file leaves its holder with a lock nobody else sees.  The  *)
(* operating system gives the lock back when its process ends.             *)
(***************************************************************************)
EXTENDS Naturals

CONSTANTS
  Procs,        \* the processes
  LockMaxRetry  \* store.lock_max_retry

ASSUME FileLockAssumption == LockMaxRetry \in Nat \ {0}

VARIABLES
  lockFile,   \* the file at workspace.lock, 0 if there is none
  files,      \* number of files there have been
  old,        \* the file is older than daemon.stale_lock_ttl
  removed,    \* the files CleanupStaleLocks has removed
  handle,     \* the file each process has open, 0 if none
  held,       \* whether it has locked it
  tries       \* attempts of acquireWithRetry left

lockVars == <<lockFile, files, old, removed, handle, held, tries>>

NoFile == 0

LockInit ==
  /\ lockFile = NoFile
  /\ files = 0
  /\ old = FALSE
  /\ removed = {}
  /\ handle = [p \in Procs |-> NoFile]
  /\ held = [p \in Procs |-> FALSE]
  /\ tries = [p \in Procs |-> 0]

\* Time passes.  Nothing touches the file while its lock is held.
GrowOld ==
  /\ lockFile # NoFile
  /\ old' = TRUE
  /\ UNCHANGED <<lockFile, files, removed, handle, held, tries>>

\* CleanupStaleLocks decides by the age of the file ...
Stale == lockFile # NoFile /\ old

\* ... and then removes what is there, or fails to.
RemoveLockFile ==
  /\ \/ UNCHANGED <<lockFile, removed>>
     \/ /\ lockFile # NoFile
        /\ lockFile' = NoFile
        /\ removed' = removed \cup {lockFile}
  /\ UNCHANGED <<files, old, handle, held, tries>>

\* NewFileLock, up to the first attempt.
NewFileLock(p) ==
  /\ tries' = [tries EXCEPT ![p] = LockMaxRetry]
  /\ UNCHANGED <<lockFile, files, old, removed, handle, held>>

\* TryLock opens the file, creating it if there is none ...
OpenLock(p) ==
  /\ tries[p] > 0 /\ handle[p] = NoFile
  /\ IF lockFile = NoFile
     THEN /\ files' = files + 1
          /\ lockFile' = files + 1
          /\ old' = FALSE
          /\ handle' = [handle EXCEPT ![p] = files + 1]
     ELSE /\ handle' = [handle EXCEPT ![p] = lockFile]
          /\ UNCHANGED <<lockFile, files, old>>
  /\ UNCHANGED <<removed, held, tries>>

Lockable(p) == \A q \in Procs : handle[q] = handle[p] => ~held[q]

\* ... and locks it, unless another process has: then it is closed again, and
\* there is another attempt if any is left.
TryLock(p) ==
  /\ tries[p] > 0 /\ handle[p] # NoFile
  /\ IF Lockable(p)
     THEN /\ held' = [held EXCEPT ![p] = TRUE]
          /\ tries' = [tries EXCEPT ![p] = 0]
          /\ UNCHANGED handle
     ELSE /\ handle' = [handle EXCEPT ![p] = NoFile]
          /\ tries' = [tries EXCEPT ![p] = @ - 1]
          /\ UNCHANGED held
  /\ UNCHANGED <<lockFile, files, old, removed>>

\* lock_timeout passes between two attempts, or the file cannot be opened.
AbandonLock(p) ==
  /\ tries[p] > 0 /\ handle[p] = NoFile
  /\ tries' = [tries EXCEPT ![p] = 0]
  /\ UNCHANGED <<lockFile, files, old, removed, handle, held>>

Acquiring(p) == tries[p] > 0

\* Unlock, and what the operating system does for a process that ends.
Unlock(p) ==
  /\ handle' = [handle EXCEPT ![p] = NoFile]
  /\ held' = [held EXCEPT ![p] = FALSE]
  /\ tries' = [tries EXCEPT ![p] = 0]
  /\ UNCHANGED <<lockFile, files, old, removed>>

=============================================================================
