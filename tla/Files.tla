------------------------------- MODULE Files -------------------------------
(***************************************************************************)
(* Files: the kernel's table of descriptors (fs/file.c) over mounted FAT16 *)
(* volumes, the file handles each process keeps (task/process.c), the      *)
(* system calls on them (isr80h/file.c) and the loader, which reads a      *)
(* program through a descriptor of its own (loader/formats/elfloader.c).   *)
(*                                                                         *)
(* A call runs to its end with interrupts off, so each is one action.  A   *)
(* path is its drive and its parts; a handle is the descriptor's number,   *)
(* and the vector of a process's handles the set of them: a number that    *)
(* is handed out is in no vector, by DescriptorsAreHeld.                   *)
(*                                                                         *)
(* A failed fopen of a mounted volume closes the error code it was given   *)
(* as if it were a pointer: the access at the end of the address space is  *)
(* an exception and idt_handle_exception panics.                           *)
(***************************************************************************)
EXTENDS Fat16

CONSTANTS
    Processes,       \* the processes that call
    MaxDescriptors,  \* PEACHOS_MAX_FILE_DESCRIPTORS
    Volumes,         \* drive number -> volume, or NoFilesystem
    Primary,         \* the drive that '@' stands for, or NoDrive
    NoFilesystem, NoDrive,
    Requests,        \* the paths and modes that are opened: drive, parts, mode
    Sizes, Counts,   \* size and nmemb of the reads
    MaxPos           \* bound of the model: no position beyond it

ASSUME DescriptorsAssumption == MaxDescriptors \in Nat \ {0}
ASSUME DrivesAssumption == NoDrive \notin DOMAIN Volumes

VARIABLES
    file_descriptors,  \* number -> Free, or drive, item and pos
    file_handles,      \* process -> the numbers it holds
    kernel,            \* "up", or "panicked"
    answer             \* what the last call did (for the properties)

vars == <<file_descriptors, file_handles, kernel, answer>>

Numbers == 1 .. MaxDescriptors
Free == [drive |-> NoDrive, item |-> MISSING, pos |-> 0]
AT_SIGN == 64   \* the character '@', for the primary file system
NO_ANSWER == [call |-> "none"]

Init ==
    /\ file_descriptors = [fd \in Numbers |-> Free]
    /\ file_handles = [p \in Processes |-> {}]
    /\ kernel = "up"
    /\ answer = NO_ANSWER

-----------------------------------------------------------------------------
(* fs/file.c *)

\* file_get_descriptor: the last number is refused.
Reachable(fd) == fd \in Numbers /\ fd < MaxDescriptors /\ file_descriptors[fd] # Free

FreeNumbers == {fd \in Numbers : file_descriptors[fd] = Free}

\* file_new_descriptor: the lowest free number; there is one.
file_new_descriptor ==
    CHOOSE fd \in FreeNumbers : \A other \in FreeNumbers : fd <= other

\* pathparser_parse: drive and parts, NoDrive when the format is wrong, when
\* '@' stands for no drive, or when there is no part.
DriveOf(request) ==
    CASE request.parts = <<>> -> NoDrive
      [] request.parts # <<>> /\ request.drive = AT_SIGN -> Primary
      [] OTHER -> request.drive

\* fopen ends before it calls the file system.
Refused(request) ==
    \/ DriveOf(request) \notin DOMAIN Volumes
    \/ Volumes[DriveOf(request)] = NoFilesystem
    \/ request.mode \notin {"r", "w", "a"}

\* The item that fat16_open finds, with no fault on the way.
Lookup ==
    [request \in {r \in Requests : ~Refused(r)} |->
        IF request.mode # "r" THEN MISSING
        ELSE fat16_get_directory_entry(Volumes[DriveOf(request)], request.parts)]

Opened(request, item) == [drive |-> DriveOf(request), item |-> item, pos |-> 0]

\* The volume and first cluster that fat16_read uses.  A directory was opened
\* as well: its fat_directory, read as an item, has zeroes for the cluster.
VolumeOf(desc) == Volumes[desc.drive]
FirstCluster(item) == IF item.dir THEN 0 ELSE item.first

\* fat16_read: nmemb members that follow each other; the position moves when
\* all of them were read.
fat16_read(desc, size, nmemb) ==
    LET read == fat16_read_internal(VolumeOf(desc), FirstCluster(desc.item),
                                    desc.pos, size * nmemb, ClusterBytes)
    IN  IF read.res < 0 THEN [res |-> read.res, got |-> <<>>, pos |-> desc.pos]
        ELSE [res |-> nmemb, got |-> read.got, pos |-> desc.pos + size * nmemb]

Failed(desc) == [res |-> EIO, got |-> <<>>, pos |-> desc.pos]

\* fat16_seek: the result, and the new position.
fat16_seek(desc, offset, whence) ==
    CASE desc.item.dir -> [res |-> EINVARG, pos |-> desc.pos]
      [] ~desc.item.dir /\ offset >= desc.item.size -> [res |-> EIO, pos |-> desc.pos]
      [] ~desc.item.dir /\ offset < desc.item.size /\ whence = "SET" ->
            [res |-> ALL_OK, pos |-> offset]
      [] ~desc.item.dir /\ offset < desc.item.size /\ whence = "CUR" ->
            [res |-> ALL_OK, pos |-> desc.pos + offset]
      [] OTHER -> [res |-> EUNIMP, pos |-> desc.pos]

\* The descriptors after an fclose of each of fds.
Closed(fds) == [fd \in Numbers |-> IF fd \in fds /\ Reachable(fd) THEN Free
                                   ELSE file_descriptors[fd]]

-----------------------------------------------------------------------------
(* task/process.c and isr80h/file.c *)

Panic ==
    /\ kernel' = "panicked"
    /\ UNCHANGED <<file_descriptors, file_handles>>

\* The call changes no state.
Returns(result) ==
    /\ answer' = result
    /\ UNCHANGED <<file_descriptors, file_handles, kernel>>

Asked(request, item, fault) ==
    [call |-> "open", request |-> request, item |-> item, fault |-> fault]

Answered(desc, size, nmemb, fault, read) ==
    [call |-> "read", from |-> desc, size |-> size, nmemb |-> nmemb,
     fault |-> fault, res |-> read.res, got |-> read.got, pos |-> read.pos]

\* fopen returns 0 without harm: process_fopen closes descriptor 0.
OpenRefused(request) ==
    /\ ~Refused(request) => Lookup[request] # MISSING /\ FreeNumbers = {}
    /\ Returns(NO_ANSWER)

\* The lookup fails: the item is missing, the mode is not to read, or (a
\* fault) there is no memory or the disk cannot be read.
OpenPanics(request, fault) ==
    /\ ~Refused(request)
    /\ fault \/ Lookup[request] = MISSING
    /\ Panic
    /\ answer' = Asked(request, MISSING, fault)

\* process_fopen: the descriptor is recorded with the process.
process_fopen(p, request) ==
    /\ ~Refused(request)
    /\ Lookup[request] # MISSING /\ FreeNumbers # {}
    /\ file_descriptors' = [file_descriptors EXCEPT
            ![file_new_descriptor] = Opened(request, Lookup[request])]
    /\ file_handles' = [file_handles EXCEPT ![p] = @ \cup {file_new_descriptor}]
    /\ answer' = Asked(request, Lookup[request], FALSE)
    /\ UNCHANGED kernel

\* process_fopen has no memory for the handle and closes the file again: the
\* last descriptor stays open.
OpenWithoutHandle(p, request) ==
    /\ ~Refused(request)
    /\ Lookup[request] # MISSING /\ FreeNumbers # {}
    /\ file_descriptors' = IF file_new_descriptor < MaxDescriptors THEN file_descriptors
                           ELSE [file_descriptors EXCEPT
                                    ![MaxDescriptors] = Opened(request, Lookup[request])]
    /\ answer' = Asked(request, Lookup[request], FALSE)
    /\ UNCHANGED <<file_handles, kernel>>

\* process_terminate, as far as files go: process_close_file_handles.
process_terminate(p) ==
    /\ file_descriptors' = Closed(file_handles[p])
    /\ file_handles' = [file_handles EXCEPT ![p] = {}]
    /\ answer' = NO_ANSWER
    /\ UNCHANGED kernel

\* process_fread and fread.  A process that gives memory it does not have is
\* ended; a fault is a read of the disk that fails.
process_fread(p, fd, size, nmemb, owned, fault) ==
    IF fd \notin file_handles[p] THEN Returns(NO_ANSWER)
    ELSE IF ~owned THEN process_terminate(p)
    ELSE IF size = 0 \/ nmemb = 0 \/ ~Reachable(fd) THEN Returns(NO_ANSWER)
    ELSE LET desc == file_descriptors[fd]
             read == IF fault THEN Failed(desc)
                     ELSE fat16_read(desc, size, nmemb)
         IN  /\ answer' = Answered(desc, size, nmemb, fault, read)
             /\ file_descriptors' = [file_descriptors EXCEPT ![fd].pos = read.pos]
             /\ UNCHANGED <<file_handles, kernel>>

process_fseek(p, fd, offset, whence) ==
    IF fd \notin file_handles[p] \/ ~Reachable(fd) THEN Returns(NO_ANSWER)
    ELSE /\ file_descriptors' = [file_descriptors EXCEPT
                ![fd].pos = fat16_seek(file_descriptors[fd], offset, whence).pos]
         /\ answer' = NO_ANSWER
         /\ UNCHANGED <<file_handles, kernel>>

\* fstat: fat16_stat refuses a directory.
fstat(fd) ==
    CASE ~Reachable(fd) -> [res |-> EIO, filesize |-> 0]
      [] Reachable(fd) /\ file_descriptors[fd].item.dir -> [res |-> EINVARG, filesize |-> 0]
      [] OTHER -> [res |-> ALL_OK, filesize |-> file_descriptors[fd].item.size]

\* process_fstat: any descriptor, whoever opened it.
process_fstat(p, fd, owned) ==
    IF ~owned THEN process_terminate(p)
    ELSE Returns([call |-> "stat", fd |-> fd, stat |-> fstat(fd)])

\* Mutant of process_fclose: the handle stays in the vector.
process_fclose_KeepsHandle(p, fd) ==
    IF fd \notin file_handles[p] THEN Returns(NO_ANSWER)
    ELSE /\ file_descriptors' = Closed({fd})
         /\ answer' = NO_ANSWER
         /\ UNCHANGED <<file_handles, kernel>>

\* process_fclose: the handle goes even when fclose refuses the number.
process_fclose(p, fd) ==
    IF fd \notin file_handles[p] THEN Returns(NO_ANSWER)
    ELSE /\ file_descriptors' = Closed({fd})
         /\ file_handles' = [file_handles EXCEPT ![p] = @ \ {fd}]
         /\ answer' = NO_ANSWER
         /\ UNCHANGED kernel

-----------------------------------------------------------------------------
(* loader/formats/elfloader.c *)

\* elf_load opens the file, asks for its size, reads it in one member and
\* closes it.  The last descriptor can be neither read nor closed.
elf_load(request, fault) ==
    /\ ~Refused(request)
    /\ Lookup[request] # MISSING /\ FreeNumbers # {}
    /\ LET desc == Opened(request, Lookup[request])
           size == desc.item.size
           read == IF fault THEN Failed(desc) ELSE fat16_read(desc, size, 1)
       IN  IF file_new_descriptor = MaxDescriptors
           THEN /\ file_descriptors' = [file_descriptors EXCEPT ![MaxDescriptors] = desc]
                /\ answer' = NO_ANSWER
           ELSE /\ answer' = IF desc.item.dir \/ size = 0 THEN NO_ANSWER
                             ELSE Answered(desc, size, 1, fault, read)
                /\ UNCHANGED file_descriptors
    /\ UNCHANGED <<file_handles, kernel>>

-----------------------------------------------------------------------------
Next ==
    /\ kernel = "up"
    /\ \/ \E request \in Requests : OpenRefused(request)
       \/ \E p \in Processes, request \in Requests :
            \/ process_fopen(p, request)
            \/ OpenWithoutHandle(p, request)
       \/ \E request \in Requests, fault \in BOOLEAN :
            \/ OpenPanics(request, fault)
            \/ elf_load(request, fault)
       \/ \E p \in Processes, fd \in Numbers :
            \/ \E size \in Sizes, nmemb \in Counts, owned, fault \in BOOLEAN :
                    process_fread(p, fd, size, nmemb, owned, fault)
            \/ \E offset \in 0 .. MaxPos, whence \in {"SET", "CUR", "END"} :
                    process_fseek(p, fd, offset, whence)
            \/ \E owned \in BOOLEAN : process_fstat(p, fd, owned)
            \/ process_fclose(p, fd)
       \/ \E p \in Processes : process_terminate(p)
    /\ \A fd \in Numbers : file_descriptors'[fd].pos <= MaxPos

Spec == Init /\ [][Next]_vars

-----------------------------------------------------------------------------
(* Properties *)

\* What the volumes hold: the bytes of a chain, and the items of a path.
Content == [drive \in {d \in DOMAIN Volumes : Volumes[d] # NoFilesystem} |->
                [first \in DOMAIN Volumes[drive].fat |-> Bytes(Volumes[drive], first)]]
Named == [request \in {r \in Requests : ~Refused(r)} |->
                ItemsAt(Volumes[DriveOf(request)], request.parts)]

FilesTypeOK ==
    /\ \A fd \in Numbers :
        LET desc == file_descriptors[fd]
        IN  desc # Free => desc.drive \in DOMAIN Volumes /\ desc.pos \in Nat
    /\ file_handles \in [Processes -> SUBSET Numbers]
    /\ kernel \in {"up", "panicked"}

\* Every handle is of an open descriptor, no two processes hold the same one,
\* and an open descriptor is held.  The exception is the last number: it is
\* handed out, but fclose refuses it, so it stays open once its holder is gone.
DescriptorsAreHeld ==
    /\ \A p \in Processes : \A fd \in file_handles[p] : file_descriptors[fd] # Free
    /\ \A p, q \in Processes : p # q => file_handles[p] \cap file_handles[q] = {}
    /\ \A fd \in Numbers \ {MaxDescriptors} :
        file_descriptors[fd] # Free => \E p \in Processes : fd \in file_handles[p]

\* (ReadIsTheFile) A read that succeeds has copied the bytes that follow the position in the
\* file's chain, all that were asked for, and moved on by as many; one that fails
\* leaves the position; and a read within the chain succeeds when the disk does.
\* The exception is a chain that leads to cluster 0xFF7,
\* which fat16_get_cluster_for_offset takes for the mark of a bad one.
ReadAnswered ==
    answer.call = "read" /\ ~answer.from.item.dir =>
        LET first  == answer.from.item.first
            bytes  == Content[answer.from.drive][first]
            end    == answer.from.pos + answer.size * answer.nmemb
        IN  /\ answer.res >= 0 =>
                /\ end <= Len(bytes)
                /\ answer.got = SubSeq(bytes, answer.from.pos + 1, end)
                /\ answer.pos = end
            /\ answer.res < 0 => answer.pos = answer.from.pos
            /\ /\ end <= Len(bytes) /\ ~answer.fault
               /\ \A k \in DOMAIN bytes : bytes[k][1] # BAD_SECTOR
               => answer.res = answer.nmemb

ReadIsTheFile == [][ReadAnswered']_vars

\* (OpensThePath) An open takes the item that its path names, and a path that names one is
\* opened.  The exception: where a directory of the volume holds a deleted
\* item, or goes on in a cluster that is not the next, its last items are
\* beyond the count and are not found.
OpenAnswered ==
    answer.call = "open" =>
        LET request == answer.request
            volume  == Volumes[DriveOf(request)]
            named   == Named[request]
        IN  /\ answer.item # MISSING => answer.item \in named
            /\ /\ request.mode = "r" /\ ~answer.fault
               /\ NothingDeleted(volume) /\ InOneRun(volume)
               => answer.item # MISSING \/ named = {}

OpensThePath == [][OpenAnswered']_vars

\* For the configurations: what the last call did is not part of the state.
WithoutAnswer == <<file_descriptors, file_handles, kernel>>
=============================================================================
