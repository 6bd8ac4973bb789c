--------------------------- MODULE FileRepository ---------------------------
(***************************************************************************)
(* The files of an HTTPRepository: how they are fetched and kept           *)
(* (pkg/repository/storage.go, http_file_getter.go) and how they are meant *)
(* to be removed with it (controllers/httprepository_reconciler.go).       *)
(*                                                                         *)
(* The model follows one file, so one key of the keyed mutex, and the      *)
(* directory of its repository.  The requests come from copyAgent          *)
(* (pkg/agent/helper.go).  The storage is a volume of the pod: it outlives *)
(* the manager's container.                                                *)
(***************************************************************************)
EXTENDS Naturals, FiniteSets

CONSTANTS
    Workers,        \* the callers of GetFile: the workers of a controller, goroutines of
                    \* storage_test.go
    NoWorker,       \* nobody
    MaxEvents       \* bound on failed downloads, crashes and re-created repositories

VARIABLES
    repo,           \* the HTTPRepository
    disk,           \* its directory, the file and the temporary file
    lock,           \* who holds the mutex of the file, or none
    pc,             \* where each request is
    got,            \* observer: the requests that have got the file's path
    downloads,      \* observer: downloads since the directory was last removed
    events,         \* observer: failures, crashes and re-creations so far
    orphan          \* observer: a crash has left a temporary file

vars == <<repo, disk, lock, pc, got, downloads, events, orphan>>

-----------------------------------------------------------------------------

Repository == [exists : BOOLEAN, deleting : BOOLEAN, finalizer : BOOLEAN]

Contents == {"absent", "partial", "complete"}

\* dir is namespace/name; file and tmp are in it.
Disk == [dir : BOOLEAN, file : Contents, tmp : Contents]

EmptyDisk == [dir |-> FALSE, file |-> "absent", tmp |-> "absent"]

Requesting == {"idle", "waiting", "checking", "opening", "downloading", "renaming",
               "cleaning"}

Step(w, from, to) == pc[w] = from /\ pc' = [pc EXCEPT ![w] = to]

Event == events < MaxEvents /\ events' = events + 1

-----------------------------------------------------------------------------
(* GetFile *)

\* GetHelper and getAgentFilepath have read the repository before it was deleted.
Request(w) ==
    /\ Step(w, "idle", "waiting")
    /\ repo.exists
    /\ got' = got \ {w}
    /\ UNCHANGED <<repo, disk, lock, downloads, events, orphan>>

\* keyedMutex.Lock
Lock_Skipped(w) ==
    /\ Step(w, "waiting", "checking")
    /\ lock' = w
    /\ UNCHANGED <<repo, disk, got, downloads, events, orphan>>
Lock(w) ==
    /\ Step(w, "waiting", "checking")
    /\ lock = NoWorker
    /\ lock' = w
    /\ UNCHANGED <<repo, disk, got, downloads, events, orphan>>

\* The file is there: its path is returned.
Found(w) ==
    /\ Step(w, "checking", "idle")
    /\ disk.file # "absent"
    /\ got' = got \cup {w}
    /\ lock' = NoWorker
    /\ UNCHANGED <<repo, disk, downloads, events, orphan>>

\* A temporary file is an error.
FoundTemporary(w) ==
    /\ Step(w, "checking", "idle")
    /\ disk.file = "absent" /\ disk.tmp # "absent"
    /\ lock' = NoWorker
    /\ UNCHANGED <<repo, disk, got, downloads, events, orphan>>

MkdirAll(w) ==
    /\ Step(w, "checking", "opening")
    /\ disk.file = "absent" /\ disk.tmp = "absent"
    /\ disk' = [disk EXCEPT !.dir = TRUE]
    /\ UNCHANGED <<repo, lock, got, downloads, events, orphan>>

OpenFile(w) ==
    /\ Step(w, "opening", "downloading")
    /\ disk.dir
    /\ disk' = [disk EXCEPT !.tmp = "partial"]
    /\ downloads' = downloads + 1
    /\ UNCHANGED <<repo, lock, got, events, orphan>>

\* remove has taken the directory away.
OpenFileFails(w) ==
    /\ Step(w, "opening", "idle")
    /\ ~disk.dir
    /\ lock' = NoWorker
    /\ UNCHANGED <<repo, disk, got, downloads, events, orphan>>

\* The body is written to the open file, whatever has become of its name.
Download(w) ==
    /\ Step(w, "downloading", "renaming")
    /\ disk' = [disk EXCEPT !.tmp = IF @ = "partial" THEN "complete" ELSE @]
    /\ UNCHANGED <<repo, lock, got, downloads, events, orphan>>

\* The request fails, is cut off or times out.
DownloadFails(w) ==
    /\ Step(w, "downloading", "cleaning")
    /\ Event
    /\ UNCHANGED <<repo, disk, lock, got, downloads, orphan>>

Rename(w) ==
    /\ Step(w, "renaming", "cleaning")
    /\ disk' = IF disk.tmp = "absent" THEN disk
               ELSE [disk EXCEPT !.file = disk.tmp, !.tmp = "absent"]
    /\ got' = IF disk.tmp = "absent" THEN got ELSE got \cup {w}
    /\ UNCHANGED <<repo, lock, downloads, events, orphan>>

\* The deferred calls: the temporary file is removed, then the mutex unlocked.
CleanUp(w) ==
    /\ Step(w, "cleaning", "idle")
    /\ disk' = [disk EXCEPT !.tmp = "absent"]
    /\ lock' = NoWorker
    /\ UNCHANGED <<repo, got, downloads, events, orphan>>

GetFile(w) ==
    \/ Lock(w) \/ Found(w) \/ FoundTemporary(w) \/ MkdirAll(w) \/ OpenFile(w)
    \/ OpenFileFails(w) \/ Download(w) \/ Rename(w) \/ CleanUp(w)

-----------------------------------------------------------------------------
(* HTTPRepositoryReconciler *)

\* RemoveCache does not take the mutex.  Then the finalizer would go: but the patch is
\* made from the object that is changed afterwards, so it is empty and the object stays.
ReconcileDelete ==
    /\ repo.exists /\ repo.deleting /\ repo.finalizer
    /\ disk # EmptyDisk
    /\ disk' = EmptyDisk
    /\ downloads' = 0
    /\ orphan' = FALSE
    /\ UNCHANGED <<repo, lock, pc, got, events>>

\* For the same reason Reconcile adds no finalizer: only one that the object had from
\* the beginning is there.
CreateRepository ==
    /\ ~repo.exists
    /\ Event
    /\ \E f \in BOOLEAN : repo' = [exists |-> TRUE, deleting |-> FALSE, finalizer |-> f]
    /\ UNCHANGED <<disk, lock, pc, got, downloads, orphan>>

DeleteRepository ==
    /\ repo.exists /\ ~repo.deleting
    /\ repo' = [repo EXCEPT !.deleting = TRUE, !.exists = repo.finalizer]
    /\ UNCHANGED <<disk, lock, pc, got, downloads, events, orphan>>

-----------------------------------------------------------------------------

\* The manager stops without running its deferred calls, and is started again.
Crash ==
    /\ Event
    /\ pc' = [w \in Workers |-> "idle"]
    /\ lock' = NoWorker
    /\ got' = {}
    /\ orphan' = (disk.tmp # "absent" /\ disk.file = "absent")
    /\ UNCHANGED <<repo, disk, downloads>>

Init ==
    /\ \E f \in BOOLEAN : repo = [exists |-> TRUE, deleting |-> FALSE, finalizer |-> f]
    /\ disk = EmptyDisk
    /\ lock = NoWorker
    /\ pc = [w \in Workers |-> "idle"]
    /\ got = {}
    /\ downloads = 0
    /\ events = 0
    /\ orphan = FALSE

Next ==
    \/ \E w \in Workers : Request(w)
    \/ \E w \in Workers : GetFile(w)
    \/ \E w \in Workers : DownloadFails(w)
    \/ ReconcileDelete
    \/ CreateRepository
    \/ DeleteRepository
    \/ Crash

\* Agents that are not installed are reconciled again and again.
Controller ==
    \/ \E w \in Workers : GetFile(w) \/ (Request(w) /\ w \notin got)
    \/ ReconcileDelete

Fairness == WF_vars(Controller)

Spec == Init /\ [][Next]_vars /\ Fairness

-----------------------------------------------------------------------------
(* Properties *)

TypeOK ==
    /\ repo \in Repository /\ disk \in Disk
    /\ lock \in Workers \cup {NoWorker}
    /\ pc \in [Workers -> Requesting]
    /\ got \subseteq Workers

\* No request is given a file that is not complete, and workers that ask for it at the
\* same time share one download.
FetchedWhole ==
    /\ disk.file # "partial"
    /\ Cardinality({w \in Workers : pc[w] \in {"opening", "downloading", "renaming"}}) <= 1
    /\ downloads <= 1 + events

\* A request is answered with the file, or the repository is gone, or the temporary file
\* of a crash is still there.
Answered == got # {} \/ ~repo.exists \/ repo.deleting \/ orphan

\* "Reconcile reconciles HTTPRepository and removes caches": nothing is kept of a
\* repository that is gone.
CachesRemoved ==
    ~repo.exists /\ (\A w \in Workers : pc[w] = "idle") => disk.file = "absent"
=============================================================================
