------------------------------ MODULE ShelfFile ------------------------------
(***************************************************************************)
(* The lifecycle of a shelf file: ShelfFile::Create, Destroy, Truncate,   *)
(* Open, Close, Rename and Exist in src/src/shelf_mgmt/shelf_file.cc.      *)
(*                                                                         *)
(* Several ShelfFile objects, in one or several processes, are built on   *)
(* the path Home; Rename moves an object's file to another path and points *)
(* its path_ there.  Each object has its own fd_; the file system maps     *)
(* each path to an inode or to nothing.  Every system call is one atomic   *)
(* step, and each method is split where it makes a second system call     *)
(* after checking the file system (Exist() then creat(), Exist() then      *)
(* open(), Exist() then remove()), since another object may act in        *)
(* between.  An fd keeps naming its inode after the path is removed,       *)
(* recreated or renamed.  The size of an inode is abstracted to full (in   *)
(* sized) or empty.                                                        *)
(***************************************************************************)
EXTENDS Integers

CONSTANTS
    Procs,        \* ShelfFile objects
    Paths,        \* the paths files are created at or renamed to
    Home,         \* the path every object is constructed with
    MaxInode,     \* bound on the inodes ever created
    Failures      \* the system calls that may fail

ASSUME /\ Home \in Paths /\ MaxInode \in Nat \ {0}
       /\ Failures \subseteq {"creat", "truncate", "open", "close", "rename"}

\* fd_ of a closed ShelfFile.
NoFd == -1

\* No inode: the path does not exist.
None == 0

Codes == {"NO_ERROR", "SHELF_FILE_FOUND", "SHELF_FILE_NOT_FOUND",
          "SHELF_FILE_OPENED", "SHELF_FILE_CLOSED", "SHELF_FILE_CREATE_FAILED",
          "SHELF_FILE_TRUNCATE_FAILED", "SHELF_FILE_OPEN_FAILED",
          "SHELF_FILE_CLOSE_FAILED", "SHELF_FILE_RENAME_FAILED"}

VARIABLES
    inode,        \* per path: the inode it names, None if it does not exist
    ninodes,      \* inodes created so far (inodes are 1..ninodes)
    sized,        \* the inodes truncated to the requested size
    path,         \* per object: path_
    fd,           \* per object: fd_, the inode it has open, or NoFd
    pc,           \* per object: "idle" or the step of the method it is in
    ret,          \* per object: the local ret, then what the method returned
    creates       \* history: per inode, the Creates that returned NO_ERROR
                  \* while their path named it (capped at 2)

vars == <<inode, ninodes, sized, path, fd, pc, ret, creates>>

\* Outcomes of system call c: success, and failure if c may fail.
Outcomes(c) == IF c \in Failures THEN BOOLEAN ELSE {TRUE}

Return(p, code) ==
    /\ pc' = [pc EXCEPT ![p] = "idle"]
    /\ ret' = [ret EXCEPT ![p] = code]

Goto(p, step) == pc' = [pc EXCEPT ![p] = step]

IsOpen(p) == fd[p] /= NoFd

\* The inode path_ names, and Exist().
Here(p) == inode[path[p]]
Exist(p) == Here(p) /= None

TypeOK ==
    /\ inode \in [Paths -> 0..ninodes]
    /\ ninodes \in 0..MaxInode
    /\ sized \subseteq 1..ninodes
    /\ path \in [Procs -> Paths]
    /\ fd \in [Procs -> {NoFd} \union 1..ninodes]
    /\ pc \in [Procs -> {"idle", "c_creat", "c_trunc", "o_open", "d_remove"}]
    /\ ret \in [Procs -> Codes]
    /\ creates \in [1..MaxInode -> 0..2]

Init ==
    /\ inode = [q \in Paths |-> None]
    /\ ninodes = 0
    /\ sized = {}
    /\ path = [p \in Procs |-> Home]
    /\ fd = [p \in Procs |-> NoFd]
    /\ pc = [p \in Procs |-> "idle"]
    /\ ret = [p \in Procs |-> "NO_ERROR"]
    /\ creates = [i \in 1..MaxInode |-> 0]

-----------------------------------------------------------------------------
(* ShelfFile::Create(mode, size), size > 0 *)

\* if (Exist()) return SHELF_FILE_FOUND; if (IsOpen()) return
\* SHELF_FILE_OPENED.
CreateCheck(p) ==
    /\ pc[p] = "idle"
    /\ CASE Exist(p)  -> Return(p, "SHELF_FILE_FOUND")
         [] IsOpen(p) -> Return(p, "SHELF_FILE_OPENED")
         [] OTHER     -> Goto(p, "c_creat") /\ UNCHANGED ret
    /\ UNCHANGED <<inode, ninodes, sized, path, fd, creates>>

\* fd_ = creat(path, mode): O_CREAT|O_TRUNC without O_EXCL, so an existing
\* file is opened and emptied; a new one gets a fresh inode.  errno is
\* never EEXIST, so a failure returns SHELF_FILE_CREATE_FAILED.  (No file
\* is created past the bound on inodes.)
CreateCreat(p) ==
    /\ pc[p] = "c_creat"
    /\ \/ /\ Exist(p)
          /\ fd' = [fd EXCEPT ![p] = Here(p)]
          /\ sized' = sized \ {Here(p)}
          /\ Goto(p, "c_trunc")
          /\ UNCHANGED <<inode, ninodes, ret>>
       \/ /\ ~Exist(p)
          /\ ninodes < MaxInode
          /\ ninodes' = ninodes + 1
          /\ inode' = [inode EXCEPT ![path[p]] = ninodes + 1]
          /\ fd' = [fd EXCEPT ![p] = ninodes + 1]
          /\ Goto(p, "c_trunc")
          /\ UNCHANGED <<sized, ret>>
       \/ /\ "creat" \in Failures
          /\ Return(p, "SHELF_FILE_CREATE_FAILED")
          /\ UNCHANGED <<inode, ninodes, sized, fd>>
    /\ UNCHANGED <<path, creates>>

\* ret = Truncate(size), an ftruncate(fd_) since the file is open, then
\* (void)Close(), which leaves fd_ set if close() fails, and return ret.
CreateTruncate(p) ==
    /\ pc[p] = "c_trunc"
    /\ \E ok \in Outcomes("truncate"), closed \in Outcomes("close") :
          /\ sized' = IF ok THEN sized \union {fd[p]} ELSE sized
          /\ Return(p, IF ok THEN "NO_ERROR" ELSE "SHELF_FILE_TRUNCATE_FAILED")
          /\ creates' = IF ok /\ fd[p] = Here(p) /\ creates[fd[p]] < 2
                           THEN [creates EXCEPT ![fd[p]] = @ + 1] ELSE creates
          /\ fd' = IF closed THEN [fd EXCEPT ![p] = NoFd] ELSE fd
    /\ UNCHANGED <<inode, ninodes, path>>

-----------------------------------------------------------------------------
(* ShelfFile::Destroy *)

\* ret = SHELF_FILE_NOT_FOUND if !Exist(), but go on; if (IsOpen())
\* return SHELF_FILE_OPENED.
DestroyCheck(p) ==
    /\ pc[p] = "idle"
    /\ IF IsOpen(p)
         THEN Return(p, "SHELF_FILE_OPENED")
         ELSE /\ Goto(p, "d_remove")
              /\ ret' = [ret EXCEPT ![p] = IF Exist(p) THEN "NO_ERROR" ELSE "SHELF_FILE_NOT_FOUND"]
    /\ UNCHANGED <<inode, ninodes, sized, path, fd, creates>>

\* boost::filesystem::remove(path), a no-op if the path is gone; return ret.
DestroyRemove(p) ==
    /\ pc[p] = "d_remove"
    /\ inode' = [inode EXCEPT ![path[p]] = None]
    /\ Return(p, ret[p])
    /\ UNCHANGED <<ninodes, sized, path, fd, creates>>

-----------------------------------------------------------------------------
(* ShelfFile::Truncate, Open, Close *)

\* Truncate(length): truncate(path) when closed (ENOENT gives
\* SHELF_FILE_NOT_FOUND), ftruncate(fd_) when open.
Truncate(p) ==
    LET target == IF IsOpen(p) THEN fd[p] ELSE Here(p) IN
    /\ pc[p] = "idle"
    /\ \E full \in BOOLEAN, ok \in Outcomes("truncate") :
          CASE target = None -> Return(p, "SHELF_FILE_NOT_FOUND") /\ UNCHANGED sized
            [] ok -> /\ sized' = IF full THEN sized \union {target} ELSE sized \ {target}
                     /\ Return(p, "NO_ERROR")
            [] OTHER -> Return(p, "SHELF_FILE_TRUNCATE_FAILED") /\ UNCHANGED sized
    /\ UNCHANGED <<inode, ninodes, path, fd, creates>>

\* if (IsOpen()) return SHELF_FILE_OPENED; if (!Exist()) return
\* SHELF_FILE_NOT_FOUND.
OpenCheck(p) ==
    /\ pc[p] = "idle"
    /\ CASE IsOpen(p) -> Return(p, "SHELF_FILE_OPENED")
         [] ~Exist(p) -> Return(p, "SHELF_FILE_NOT_FOUND")
         [] OTHER     -> Goto(p, "o_open") /\ UNCHANGED ret
    /\ UNCHANGED <<inode, ninodes, sized, path, fd, creates>>

\* fd_ = open(path, flags); ENOENT gives SHELF_FILE_NOT_FOUND.
OpenOpen(p) ==
    /\ pc[p] = "o_open"
    /\ \E ok \in Outcomes("open") :
          CASE ~Exist(p) -> Return(p, "SHELF_FILE_NOT_FOUND") /\ UNCHANGED fd
            [] ok -> fd' = [fd EXCEPT ![p] = Here(p)] /\ Return(p, "NO_ERROR")
            [] OTHER -> Return(p, "SHELF_FILE_OPEN_FAILED") /\ UNCHANGED fd
    /\ UNCHANGED <<inode, ninodes, sized, path, creates>>

\* if (!IsOpen()) return SHELF_FILE_CLOSED; close(fd_), and fd_ = -1 only
\* if it succeeded.
Close(p) ==
    /\ pc[p] = "idle"
    /\ \E ok \in Outcomes("close") :
          CASE ~IsOpen(p) -> Return(p, "SHELF_FILE_CLOSED") /\ UNCHANGED fd
            [] ok -> fd' = [fd EXCEPT ![p] = NoFd] /\ Return(p, "NO_ERROR")
            [] OTHER -> Return(p, "SHELF_FILE_CLOSE_FAILED") /\ UNCHANGED fd
    /\ UNCHANGED <<inode, ninodes, sized, path, creates>>

\* Rename(new_pathname): rename(path_, new_pathname) moves the file, replacing
\* whatever the new path named (ENOENT when path_ names nothing); on
\* success path_ = new_pathname.  An open fd_ keeps its inode.
Rename(p, q) ==
    /\ pc[p] = "idle"
    /\ \E ok \in Outcomes("rename") :
          IF ok /\ Exist(p)
            THEN /\ inode' = [inode EXCEPT ![path[p]] = IF q = path[p] THEN @ ELSE None,
                                           ![q] = Here(p)]
                 /\ path' = [path EXCEPT ![p] = q]
                 /\ Return(p, "NO_ERROR")
            ELSE Return(p, "SHELF_FILE_RENAME_FAILED") /\ UNCHANGED <<inode, path>>
    /\ UNCHANGED <<ninodes, sized, fd, creates>>

Next ==
    \E p \in Procs :
        \/ \E q \in Paths : Rename(p, q)
        \/ CreateCheck(p) \/ CreateCreat(p) \/ CreateTruncate(p)
        \/ DestroyCheck(p) \/ DestroyRemove(p)
        \/ Truncate(p) \/ OpenCheck(p) \/ OpenOpen(p) \/ Close(p)

Spec == Init /\ [][Next]_vars

-----------------------------------------------------------------------------
(* Properties *)

\* Create is exclusive: of the Creates that return NO_ERROR while their
\* path names a given file, only one made it.  This is what the Exist() check and
\* the EEXIST branch (SHELF_FILE_FOUND) are there for; a second creator
\* would have emptied a file another caller has already formatted.
ExclusiveCreate == \A i \in 1..MaxInode : creates[i] <= 1

\* A Destroy that reports SHELF_FILE_NOT_FOUND removed no file.
DestroyNotFoundRemovesNothing ==
    [][\A p \in Procs :
         pc[p] = "d_remove" /\ ret[p] = "SHELF_FILE_NOT_FOUND" => inode' = inode]_vars

=============================================================================
