----------------------------- MODULE FilePools ------------------------------
(***************************************************************************)
(* What fd_server and authfs serve: the pool of file descriptors that      *)
(* fd_server makes of its options (authfs/fd_server/src/main.rs), the pool *)
(* of files that authfs makes of its own (authfs/src/main.rs), and the     *)
(* FUSE requests that go through both (authfs/src/fusefs.rs).              *)
(*                                                                         *)
(* The two sets of options are written independently of each other: an     *)
(* inode may be backed by any descriptor, one descriptor may be behind     *)
(* several inodes, and an option may be repeated.  Either process may be   *)
(* killed and started again, with other options, also while the other goes *)
(* through its own: each file of authfs keeps the service that it was      *)
(* configured with.                                                        *)
(*                                                                         *)
(* A file is its length, counted in chunks; what happens inside of a file  *)
(* is in VerifiedFileEditor, VerifiedFileReader and AuthFs.                *)
(***************************************************************************)
EXTENDS Integers, Sequences, FiniteSets, Functions

CONSTANTS Fds,          \* descriptors that fd_server inherits
          Verity,       \* those of them whose file has fs-verity enabled
          InitLens,     \* the lengths the files may have at first
          ServerArgs,   \* command lines of fd_server
          LocalLen,     \* the local files of authfs, with their lengths
          LocalVerity,  \* those with a Merkle tree dump and a signature
          FsArgs,       \* command lines of authfs
          MaxLen,       \* bounds the files
          MaxStarts,    \* bounds the starts of either process
          MaxHandles    \* bounds what the kernel has open at a time

ASSUME PoolsAssumption ==
    /\ Verity \subseteq Fds
    /\ InitLens \subseteq [Fds -> 0 .. MaxLen]
    /\ LocalVerity \subseteq DOMAIN LocalLen
    /\ \A args \in ServerArgs : args.ro_fds \in Seq(Seq(Int)) /\ args.rw_fds \in Seq(Int)
    /\ MaxLen \in Nat /\ MaxStarts \in Nat /\ MaxHandles \in Nat

VARIABLES
    len,         \* of the file behind each descriptor
    server,      \* "down", "parsing" or "serving"
    to_parse,    \* the options that parse_args has not come to
    fd_pool,     \* FdService.fd_pool
    closed,      \* descriptors that fd_server closed itself
    authfs,      \* "down", "configuring" or "mounted"
    to_configure,  \* the options that prepare_file_pool has not come to
    file_pool,   \* AuthFs.file_pool, with the size of the editor or of the option
    connected,   \* inodes whose service, an fd_server, is still there
    handles,     \* what the kernel has open: pairs of inode and access mode
    reply,       \* to the last request
    served,      \* history: an earlier authfs has used this fd_server
    lost,        \* history: inodes with a failed remote change and no resize since
    starts       \* how often a process was started

host == <<len, server, to_parse, fd_pool, closed>>
mount == <<authfs, to_configure, file_pool, connected>>
vars == <<len, server, to_parse, fd_pool, closed, authfs, to_configure, file_pool, connected,
          handles, reply, served, lost, starts>>

NoPool == [i \in {} |-> 0]
NoReply == "none"

\* BTreeMap::insert.
insert(pool, key, value) ==
    [k \in DOMAIN pool \cup {key} |-> IF k = key THEN value ELSE pool[k]]

Init ==
    /\ len \in InitLens
    /\ server = "down" /\ to_parse = <<>>
    /\ fd_pool = NoPool
    /\ closed = {}
    /\ authfs = "down" /\ to_configure = <<>>
    /\ file_pool = NoPool
    /\ connected = {}
    /\ handles = {}
    /\ reply = NoReply
    /\ served = FALSE
    /\ lost = {}
    /\ starts = 0

-----------------------------------------------------------------------------
(* fd_server: parse_args goes through --ro-fds and then through --rw-fds.  *)

\* fds: a file, and for a read-only one its alternative tree and signature.
FdConfig(mode, fds) == [mode |-> mode, fds |-> fds]

parse_args(args) ==
    [k \in 1 .. Len(args.ro_fds) |-> FdConfig("Readonly", args.ro_fds[k])]
    \o [k \in 1 .. Len(args.rw_fds) |-> FdConfig("ReadWrite", <<args.rw_fds[k]>>)]

is_fd_valid(fd) == fd \in Fds \ closed

parse_arg_ro_fds(fds) ==
    Len(fds) <= 3 /\ is_fd_valid(fds[1]) /\ \A k \in 2 .. Len(fds) : is_fd_valid(fds[k])

\* Mutant: takes a file that has something in it already.
parse_arg_rw_fds_any(fds) == is_fd_valid(fds[1])

parse_arg_rw_fds(fds) == is_fd_valid(fds[1]) /\ len[fds[1]] = 0

ServerStarts(args) ==
    /\ server = "down" /\ starts < MaxStarts
    /\ server' = "parsing" /\ to_parse' = parse_args(args)
    /\ served' = FALSE
    /\ starts' = starts + 1
    /\ reply' = NoReply
    /\ UNCHANGED <<len, fd_pool, closed, mount, handles, lost>>

\* The process is gone, and with it the service of all files configured so far.
ServerEnds ==
    /\ server' = "down" /\ to_parse' = <<>>
    /\ fd_pool' = NoPool
    /\ closed' = {}
    /\ connected' = {}
    /\ reply' = NoReply
    /\ UNCHANGED <<len, authfs, to_configure, file_pool, handles, served, lost, starts>>

\* A config that is replaced is dropped, which closes its descriptors; the new
\* one has the same number.
ServerParses ==
    LET config == Head(to_parse)
        fd == config.fds[1]
    IN  /\ server = "parsing" /\ to_parse # <<>>
        /\ IF \/ config.mode = "Readonly" /\ parse_arg_ro_fds(config.fds)
              \/ config.mode = "ReadWrite" /\ parse_arg_rw_fds(config.fds)
           THEN /\ fd_pool' = insert(fd_pool, fd, config)
                /\ closed' = closed \cup IF fd \in DOMAIN fd_pool THEN Range(fd_pool[fd].fds) ELSE {}
                /\ to_parse' = Tail(to_parse)
                /\ reply' = NoReply
                /\ UNCHANGED <<len, server, mount, handles, served, lost, starts>>
           ELSE ServerEnds

ServerRegisters ==
    /\ server = "parsing" /\ to_parse = <<>>
    /\ server' = "serving"
    /\ reply' = NoReply
    /\ UNCHANGED <<len, to_parse, fd_pool, closed, mount, handles, served, lost, starts>>

ServerDies == server # "down" /\ ServerEnds

-----------------------------------------------------------------------------
(* fd_server: what a call may do.  The number of a closed descriptor is    *)
(* free or belongs to the binder driver: no data and no change.            *)

Served(id) == id \in DOMAIN fd_pool /\ id \notin closed

\* readFile: how much of the file there is.
readFile(id) == IF Served(id) THEN len[id] ELSE 0

Readonly(id) == id \in DOMAIN fd_pool /\ fd_pool[id].mode = "Readonly"

\* The alternative file, or else what the kernel has.
readFsverityMerkleTree(id) ==
    /\ Readonly(id)
    /\ IF Len(fd_pool[id].fds) > 1
       THEN fd_pool[id].fds[2] \notin closed /\ len[fd_pool[id].fds[2]] > 0
       ELSE id \in Verity \ closed

readFsveritySignature(id) ==
    /\ Readonly(id)
    /\ IF Len(fd_pool[id].fds) > 2
       THEN fd_pool[id].fds[3] \notin closed
       ELSE id \in Verity \ closed

\* Mutant: does not look at how the file is served.
WritableAny(id) == Served(id)

\* writeFile and resize.
Writable(id) == Served(id) /\ fd_pool[id].mode = "ReadWrite"

-----------------------------------------------------------------------------
(* authfs: prepare_file_pool goes through the options kind by kind.        *)

OptionKinds == {"remote_ro_file", "remote_ro_file_unverified", "remote_new_rw_file",
                "local_ro_file", "local_ro_file_unverified"}

InOrder(options) ==
    LET Of(kind) == SelectSeq(options, LAMBDA o : o.kind = kind)
    IN  Of("remote_ro_file") \o Of("remote_ro_file_unverified") \o Of("remote_new_rw_file")
        \o Of("local_ro_file") \o Of("local_ro_file_unverified")

IsRemote(o) ==
    o.kind \in {"remote_ro_file", "remote_ro_file_unverified", "remote_new_rw_file"}

\* new_config_...: the service is looked up by its name, and the signature and
\* the root page of a verified file are read.
CanConfigure(o) ==
    \/ /\ o.kind = "remote_ro_file"
       /\ server = "serving" /\ readFsveritySignature(o.id) /\ readFsverityMerkleTree(o.id)
    \/ o.kind \in {"remote_ro_file_unverified", "remote_new_rw_file"} /\ server = "serving"
    \/ o.kind = "local_ro_file" /\ o.id \in LocalVerity
    \/ o.kind = "local_ro_file_unverified" /\ o.id \in DOMAIN LocalLen

\* Files that are given by path have the size that they have now.
FileConfig(o) ==
    [kind |-> o.kind, id |-> o.id,
     size |-> CASE o.kind = "remote_new_rw_file" -> 0
                [] o.kind \in {"local_ro_file", "local_ro_file_unverified"} -> LocalLen[o.id]
                [] OTHER -> o.file_size]

AuthfsStarts(options) ==
    /\ authfs = "down" /\ starts < MaxStarts
    /\ authfs' = "configuring" /\ to_configure' = InOrder(options)
    /\ starts' = starts + 1
    /\ reply' = NoReply
    /\ UNCHANGED <<host, file_pool, connected, handles, served, lost>>

\* The mount goes with the process.
AuthfsEnds ==
    /\ authfs' = "down" /\ to_configure' = <<>>
    /\ file_pool' = NoPool
    /\ connected' = {}
    /\ handles' = {}
    /\ reply' = NoReply
    /\ lost' = {}
    /\ served' = (served \/ connected # {})
    /\ UNCHANGED <<host, starts>>

\* One turn of prepare_file_pool: an option that cannot be served ends authfs
\* before it mounts.
AuthfsConfigures ==
    LET o == Head(to_configure)
    IN  /\ authfs = "configuring" /\ to_configure # <<>>
        /\ IF CanConfigure(o)
           THEN /\ file_pool' = insert(file_pool, o.ino, FileConfig(o))
                /\ connected' = IF IsRemote(o) THEN connected \cup {o.ino} ELSE connected \ {o.ino}
                /\ to_configure' = Tail(to_configure)
                /\ reply' = NoReply
                /\ UNCHANGED <<host, authfs, handles, served, lost, starts>>
           ELSE AuthfsEnds

AuthfsMounts ==
    /\ authfs = "configuring" /\ to_configure = <<>>
    /\ authfs' = "mounted"
    /\ reply' = NoReply
    /\ UNCHANGED <<host, to_configure, file_pool, connected, handles, served, lost, starts>>

AuthfsDies == authfs # "down" /\ AuthfsEnds

-----------------------------------------------------------------------------
(* authfs: the FUSE requests.                                              *)

Writes(i) == i \in DOMAIN file_pool /\ file_pool[i].kind = "remote_new_rw_file"

Replies(result) ==
    /\ authfs = "mounted"
    /\ reply' = result
    /\ UNCHANGED <<server, to_parse, fd_pool, closed, authfs, to_configure, connected, served, starts>>

\* get_file_config, for an inode that no option named: all requests begin so.
NoEntry(i) == i \notin DOMAIN file_pool /\ Replies("ENOENT")
              /\ UNCHANGED <<len, file_pool, handles, lost>>

\* lookup and getattr: the size of the option or of the editor.
Stat(i) ==
    /\ i \in DOMAIN file_pool
    /\ Replies("ok")
    /\ UNCHANGED <<len, file_pool, handles, lost>>

check_access_mode(i, flags) == Writes(i) \/ flags = "O_RDONLY"

\* Mutant: does not look the inode up.
OpenUnknown(i, flags) ==
    /\ Cardinality(handles) < MaxHandles
    /\ i \in DOMAIN file_pool => check_access_mode(i, flags)
    /\ Replies("ok") /\ handles' = handles \cup {<<i, flags>>}
    /\ UNCHANGED <<len, file_pool, lost>>

Open(i, flags) ==
    /\ i \in DOMAIN file_pool /\ Cardinality(handles) < MaxHandles
    /\ IF check_access_mode(i, flags)
       THEN Replies("ok") /\ handles' = handles \cup {<<i, flags>>}
       ELSE Replies("EACCES") /\ UNCHANGED handles
    /\ UNCHANGED <<len, file_pool, lost>>

\* The kernel's own: authfs does not implement release.
Close(h) ==
    /\ h \in handles
    /\ handles' = handles \ {h}
    /\ reply' = NoReply
    /\ UNCHANGED <<host, mount, served, lost, starts>>

\* How much of a file the readers get: LocalFileReader knows its size.
Available(i) ==
    IF file_pool[i].kind \in {"local_ro_file", "local_ro_file_unverified"} THEN file_pool[i].size
    ELSE IF i \in connected THEN readFile(file_pool[i].id) ELSE 0

\* read of one chunk, on any handle: the kernel fills its cache.  Nothing is
\* asked for past the size, and less than planned is ENODATA; a chunk that does
\* not verify, or a call that fails, is an error as well.
Read(h, index) ==
    LET i == h[1]
    IN  /\ h \in handles
        /\ \/ Replies(IF index < file_pool[i].size /\ Available(i) <= index
                      THEN "ENODATA" ELSE "ok")
           \/ index < file_pool[i].size /\ Replies("EIO")
        /\ UNCHANGED <<len, file_pool, handles, lost>>

\* A remote change of the file behind i: acknowledged, or reported as failed
\* with or without effect; a backend that is gone or does not write refuses it.
\* An acknowledged change leaves still_lost of what was lost.
RemoteChange(i, new_len, new_size, result, still_lost) ==
    LET id == file_pool[i].id
    IN  \/ /\ i \in connected /\ Writable(id)
           /\ len' = [len EXCEPT ![id] = new_len]
           /\ file_pool' = [file_pool EXCEPT ![i].size = new_size]
           /\ lost' = still_lost
           /\ Replies(result)
        \/ /\ \/ UNCHANGED len
              \/ i \in connected /\ Writable(id) /\ len' = [len EXCEPT ![id] = new_len]
           /\ lost' = lost \cup {i}
           /\ Replies("EIO")
           /\ UNCHANGED file_pool

AtLeast(m, n) == IF m < n THEN n ELSE m

\* write of chunk index, on a handle that was opened for writing.
Write(h, index) ==
    LET i == h[1]
    IN  /\ h \in handles /\ h[2] # "O_RDONLY"
        /\ IF Writes(i)
           THEN RemoteChange(i, AtLeast(readFile(file_pool[i].id), index + 1),
                             AtLeast(file_pool[i].size, index + 1), "ok", lost)
           ELSE Replies("EBADF") /\ UNCHANGED <<len, file_pool, lost>>
        /\ UNCHANGED handles

\* Any set of attributes may come in one request.  UNSUPPORTED stands for one or
\* more of MODE, UID and GID, which are refused alike; times are accepted and
\* ignored, so that the empty set stands for them.
SetattrValid == SUBSET {"SIZE", "UNSUPPORTED"}

\* setattr: the resize comes first, and stays when a change that comes with it is
\* then refused as not supported.
Setattr(i, valid, size) ==
    LET result == IF "UNSUPPORTED" \in valid THEN "ENOSYS" ELSE "ok"
    IN  /\ i \in DOMAIN file_pool
        /\ IF ~Writes(i) THEN Replies("EBADF") /\ UNCHANGED <<len, file_pool, lost>>
           ELSE IF "SIZE" \in valid THEN RemoteChange(i, size, size, result, lost \ {i})
           ELSE Replies(result) /\ UNCHANGED <<len, file_pool, lost>>
        /\ UNCHANGED handles

-----------------------------------------------------------------------------
Inodes == UNION {{options[k].ino : k \in DOMAIN options} : options \in FsArgs}
Flags == {"O_RDONLY", "O_WRONLY", "O_RDWR"}

\* A size that is not to be set is zero.
SetattrSizes(valid) == IF "SIZE" \in valid THEN 0 .. MaxLen ELSE {0}

Next ==
    \/ \E args \in ServerArgs : ServerStarts(args)
    \/ ServerParses
    \/ ServerRegisters
    \/ ServerDies
    \/ \E options \in FsArgs : AuthfsStarts(options)
    \/ AuthfsConfigures
    \/ AuthfsMounts
    \/ AuthfsDies
    \/ \E i \in Inodes : NoEntry(i) \/ Stat(i)
    \/ \E i \in Inodes, flags \in Flags : Open(i, flags)
    \/ \E h \in handles : Close(h)
    \/ \E h \in handles, index \in 0 .. MaxLen - 1 : Read(h, index) \/ Write(h, index)
    \/ \E i \in Inodes, valid \in SetattrValid : \E size \in SetattrSizes(valid) :
          Setattr(i, valid, size)

Spec == Init /\ [][Next]_vars

-----------------------------------------------------------------------------
(* Properties *)

\* The pools hold what their options can put there, fd_server closes descriptors
\* of its own only, and the kernel has handles of existing inodes only.
TypeOK ==
    /\ len \in [Fds -> 0 .. MaxLen]
    /\ server \in {"down", "parsing", "serving"}
    /\ authfs \in {"down", "configuring", "mounted"}
    /\ DOMAIN fd_pool \subseteq Fds /\ closed \subseteq Fds
    /\ \A i \in DOMAIN file_pool : file_pool[i].kind \in OptionKinds
    /\ connected \subseteq DOMAIN file_pool /\ served \in BOOLEAN
    /\ \A h \in handles : h[1] \in DOMAIN file_pool /\ h[2] \in Flags
    /\ reply \in {NoReply, "ok", "ENOENT", "EACCES", "EBADF", "ENODATA", "EIO", "ENOSYS"}
    /\ lost \subseteq DOMAIN file_pool
    /\ starts \in 0 .. MaxStarts

\* The file behind a verified inode is never changed through authfs, whatever
\* other inodes and descriptors the options of the two processes made of it: it
\* was Readonly when authfs asked for its signature, and so it stays
\* (new_config_remote_verified_file, main.rs:208-224, with the Readonly arms of
\* readFsveritySignature, writeFile and resize of fd_server).
VerifiedFilesUntouched ==
    [][\A i \in DOMAIN file_pool :
          file_pool[i].kind = "remote_ro_file" /\ i \in connected =>
              len'[file_pool[i].id] = len[file_pool[i].id]]_vars

\* The editors of the inode's file.
Editors(id) == {i \in DOMAIN file_pool : Writes(i) /\ file_pool[i].id = id}

\* A new file is what its editor takes it for, "initially empty" (fusefs.rs:66)
\* and as long as the editor says, while it is the only editor of the file and
\* its authfs is the first on this fd_server, which has checked that the file is
\* empty but once (parse_arg_rw_fds, fd_server main.rs:270-272).  So it is while
\* all of its remote changes are acknowledged, again after a resize that is, and
\* also when setattr resizes first and then answers ENOSYS (fusefs.rs:343-362).
EditorsKnowTheirFiles ==
    \A i \in DOMAIN file_pool :
        LET id == file_pool[i].id
        IN  /\ Writes(i) /\ i \notin lost /\ Editors(id) = {i}
            /\ i \in connected /\ ~served /\ Served(id) /\ ~Readonly(id)
            => len[id] = file_pool[i].size
=============================================================================
