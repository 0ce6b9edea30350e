-------------------------- MODULE FilePoolsProofs ---------------------------
(***************************************************************************)
(* What fd_server and authfs keep to, whatever options they are started    *)
(* with, in whatever order they are started, killed and started again, and *)
(* however many files and handles there are.                               *)
(***************************************************************************)
EXTENDS FilePools, TLAPS

\* The pools are maps, and the entries of authfs are records.
PoolType ==
    /\ len = [fd \in Fds |-> len[fd]]
    /\ file_pool = [i \in DOMAIN file_pool |-> file_pool[i]]
    /\ \A i \in DOMAIN file_pool :
          file_pool[i] = [kind |-> file_pool[i].kind, id |-> file_pool[i].id,
                          size |-> file_pool[i].size]
    /\ \A id \in DOMAIN fd_pool : id \in Fds /\ fd_pool[id].mode \in {"Readonly", "ReadWrite"}

\* What a process has goes with it.
ProcessInv ==
    /\ server = "down" => DOMAIN fd_pool = {}
    /\ connected # {} => server = "serving"
    /\ connected \subseteq DOMAIN file_pool
    /\ authfs = "down" => DOMAIN file_pool = {}
    /\ authfs # "mounted" => handles = {}

\* A verified file was Readonly when its signature was read, and is now.
VerifiedReadonly ==
    \A i \in connected : file_pool[i].kind = "remote_ro_file" => Readonly(file_pool[i].id)

EditedBy(i, id) == i \in connected /\ Writes(i) /\ file_pool[i].id = id

\* A file that can be written is empty until an editor of a mounted authfs has it.
FreshFiles ==
    \A id \in DOMAIN fd_pool :
        /\ ~served /\ Writable(id)
        /\ authfs # "mounted" \/ \A i \in connected : ~EditedBy(i, id)
        => len[id] = 0

\* So are the trees of the editors.
FreshEditors ==
    authfs # "mounted" => \A i \in DOMAIN file_pool : Writes(i) => file_pool[i].size = 0

IInv ==
    /\ PoolType /\ ProcessInv /\ VerifiedReadonly
    /\ FreshFiles /\ FreshEditors /\ EditorsKnowTheirFiles

-----------------------------------------------------------------------------
\* Nothing has been started.
LEMMA InitInv == Init => IInv
<1> SUFFICES ASSUME Init PROVE IInv
  OBVIOUS
<1>1. /\ DOMAIN file_pool = {} /\ DOMAIN fd_pool = {} /\ connected = {} /\ handles = {}
      /\ file_pool = [i \in {} |-> 0]
  BY DEF Init, NoPool
<1>2. len = [fd \in Fds |-> len[fd]]
  BY PoolsAssumption DEF Init
<1>3. PoolType
  BY <1>1, <1>2 DEF PoolType
<1>4. QED
  BY <1>1, <1>3 DEF Init, IInv, ProcessInv, VerifiedReadonly, FreshFiles, FreshEditors,
                    EditorsKnowTheirFiles

-----------------------------------------------------------------------------
(* fd_server *)

\* An fd_server that ends takes its pool and the connections along.
LEMMA ServerEndsInv == IInv /\ ServerEnds => IInv'
<1> SUFFICES ASSUME IInv, ServerEnds PROVE IInv'
  OBVIOUS
<1> USE DEF ServerEnds
<1>1. DOMAIN fd_pool' = {} /\ connected' = {}
  BY DEF NoPool
<1>2. PoolType'
  BY <1>1 DEF IInv, PoolType
<1>3. ProcessInv' /\ VerifiedReadonly'
  BY <1>1 DEF IInv, ProcessInv, VerifiedReadonly
<1>4. FreshFiles' /\ EditorsKnowTheirFiles'
  BY <1>1 DEF FreshFiles, EditorsKnowTheirFiles
<1>5. FreshEditors'
  BY DEF IInv, FreshEditors, Writes
<1>6. QED
  BY <1>2, <1>3, <1>4, <1>5 DEF IInv

\* An fd_server starts with an empty pool.
LEMMA ServerStartsInv ==
    ASSUME IInv, NEW args \in ServerArgs, ServerStarts(args)
    PROVE  IInv'
<1> USE DEF ServerStarts, mount
<1>1. DOMAIN fd_pool = {} /\ connected = {}
  BY DEF IInv, ProcessInv
<1>2. PoolType'
  BY DEF IInv, PoolType
<1>3. ProcessInv' /\ VerifiedReadonly'
  BY <1>1 DEF IInv, ProcessInv, VerifiedReadonly
<1>4. FreshFiles' /\ EditorsKnowTheirFiles'
  BY <1>1 DEF FreshFiles, EditorsKnowTheirFiles
<1>5. FreshEditors'
  BY DEF IInv, FreshEditors, Writes
<1>6. QED
  BY <1>2, <1>3, <1>4, <1>5 DEF IInv

\* An option adds a file to the pool that is not served yet.
LEMMA ServerParsesInv == IInv /\ ServerParses => IInv'
<1> SUFFICES ASSUME IInv, ServerParses PROVE IInv'
  OBVIOUS
<1> DEFINE config == Head(to_parse)
           fd == config.fds[1]
<1>1. CASE ServerEnds
  BY <1>1, ServerEndsInv
<1>2. CASE ~ServerEnds
  <2>1. /\ server = "parsing"
        /\ fd \in Fds /\ config.mode \in {"Readonly", "ReadWrite"}
        /\ config.mode = "ReadWrite" => len[fd] = 0
        /\ fd_pool' = insert(fd_pool, fd, config)
        /\ closed \subseteq closed'
        /\ UNCHANGED <<len, server, mount, handles, served, lost, starts>>
    BY <1>2 DEF ServerParses, parse_arg_ro_fds, parse_arg_rw_fds, is_fd_valid
  <2> HIDE DEF config, fd
  <2>2. connected = {}
    BY <2>1 DEF IInv, ProcessInv
  <2>3. /\ DOMAIN fd_pool' = DOMAIN fd_pool \cup {fd}
        /\ \A id \in DOMAIN fd_pool' : fd_pool'[id] = IF id = fd THEN config ELSE fd_pool[id]
    BY <2>1 DEF insert
  <2>4. PoolType'
    BY <2>1, <2>3 DEF IInv, PoolType, mount
  <2>5. ProcessInv' /\ VerifiedReadonly' /\ EditorsKnowTheirFiles'
    BY <2>1, <2>2 DEF IInv, ProcessInv, VerifiedReadonly, EditorsKnowTheirFiles, mount
  <2>6. FreshFiles'
    BY <2>1, <2>2, <2>3 DEF IInv, FreshFiles, Writable, Served, mount
  <2>7. FreshEditors'
    BY <2>1 DEF IInv, FreshEditors, Writes, mount
  <2>8. QED
    BY <2>4, <2>5, <2>6, <2>7 DEF IInv
<1>3. QED
  BY <1>1, <1>2

\* An fd_server that registers serves the pool that it has.
LEMMA ServerRegistersInv == IInv /\ ServerRegisters => IInv'
<1> SUFFICES ASSUME IInv, ServerRegisters PROVE IInv'
  OBVIOUS
<1> USE DEF ServerRegisters, mount
<1>1. PoolType' /\ ProcessInv' /\ VerifiedReadonly'
  BY DEF IInv, PoolType, ProcessInv, VerifiedReadonly, Readonly
<1>2. FreshFiles' /\ FreshEditors'
  BY DEF IInv, FreshFiles, FreshEditors, Writable, Served, EditedBy, Writes
<1>3. EditorsKnowTheirFiles'
  BY DEF IInv, EditorsKnowTheirFiles, Editors, Writes, Served, Readonly
<1>4. QED
  BY <1>1, <1>2, <1>3 DEF IInv

-----------------------------------------------------------------------------
(* authfs *)

\* An authfs starts with an empty pool.
LEMMA AuthfsStartsInv ==
    ASSUME IInv, NEW options \in FsArgs, AuthfsStarts(options)
    PROVE  IInv'
<1> USE DEF AuthfsStarts, host
<1>1. PoolType' /\ ProcessInv' /\ VerifiedReadonly'
  BY DEF IInv, PoolType, ProcessInv, VerifiedReadonly, Readonly
<1>2. FreshFiles' /\ FreshEditors'
  BY DEF IInv, FreshFiles, FreshEditors, Writable, Served, EditedBy, Writes
<1>3. EditorsKnowTheirFiles'
  BY DEF IInv, EditorsKnowTheirFiles, Editors, Writes, Served, Readonly
<1>4. QED
  BY <1>1, <1>2, <1>3 DEF IInv

\* An authfs that ends leaves no handles.
LEMMA AuthfsEndsInv == IInv /\ AuthfsEnds => IInv'
<1> SUFFICES ASSUME IInv, AuthfsEnds PROVE IInv'
  OBVIOUS
<1> USE DEF AuthfsEnds, host
<1>1. /\ DOMAIN file_pool' = {} /\ connected' = {} /\ handles' = {}
      /\ file_pool' = [i \in DOMAIN file_pool' |-> file_pool'[i]]
  BY DEF NoPool
<1>2. PoolType' /\ ProcessInv' /\ VerifiedReadonly'
  BY <1>1 DEF IInv, PoolType, ProcessInv, VerifiedReadonly
<1>3. FreshEditors' /\ EditorsKnowTheirFiles'
  BY <1>1 DEF FreshEditors, EditorsKnowTheirFiles
<1>4. FreshFiles'
  <2>1. ~served' => ~served /\ connected = {}
    BY Zenon
  <2>2. QED
    BY <2>1 DEF IInv, FreshFiles, Writable, Served
<1>5. QED
  BY <1>2, <1>3, <1>4 DEF IInv

\* What an option needs.
LEMMA ConfigureFacts ==
    ASSUME NEW o, CanConfigure(o)
    PROVE  /\ IsRemote(o) => server = "serving"
           /\ o.kind = "remote_ro_file" => Readonly(o.id)
BY Zenon DEF CanConfigure, IsRemote, readFsveritySignature

\* What an option of authfs turns into, by its kind.
LEMMA FileConfigFacts ==
    ASSUME NEW o
    PROVE  /\ FileConfig(o).kind = o.kind /\ FileConfig(o).id = o.id
           /\ o.kind = "remote_new_rw_file" => FileConfig(o).size = 0
           /\ FileConfig(o) = [kind |-> FileConfig(o).kind, id |-> FileConfig(o).id,
                               size |-> FileConfig(o).size]
BY DEF FileConfig

\* An option of authfs is connected to the fd_server that answered it.
LEMMA AuthfsConfiguresInv == IInv /\ AuthfsConfigures => IInv'
<1> SUFFICES ASSUME IInv, AuthfsConfigures PROVE IInv'
  OBVIOUS
<1> DEFINE o == Head(to_configure)
<1>1. CASE AuthfsEnds
  BY <1>1, AuthfsEndsInv
<1>2. CASE ~AuthfsEnds
  <2>1. /\ authfs = "configuring" /\ CanConfigure(o)
        /\ file_pool' = insert(file_pool, o.ino, FileConfig(o))
        /\ connected' = IF IsRemote(o) THEN connected \cup {o.ino} ELSE connected \ {o.ino}
        /\ UNCHANGED <<host, authfs, handles, served, lost, starts>>
    BY <1>2 DEF AuthfsConfigures
  <2> HIDE DEF o
  <2>2. /\ DOMAIN file_pool' = DOMAIN file_pool \cup {o.ino}
        /\ file_pool' = [i \in DOMAIN file_pool' |-> file_pool'[i]]
        /\ \A i \in DOMAIN file_pool' :
              file_pool'[i] = IF i = o.ino THEN FileConfig(o) ELSE file_pool[i]
    BY <2>1 DEF insert
  <2>3. PoolType'
    BY <2>1, <2>2, FileConfigFacts DEF IInv, PoolType, host
  <2>4. ProcessInv'
    BY <2>1, <2>2, ConfigureFacts DEF IInv, ProcessInv, host
  <2>5. VerifiedReadonly'
    <3> SUFFICES ASSUME NEW i \in connected', file_pool'[i].kind = "remote_ro_file"
                 PROVE  Readonly(file_pool[i].id)'
      BY DEF VerifiedReadonly
    <3>1. CASE i = o.ino
      BY <2>1, <2>2, <3>1, ConfigureFacts, FileConfigFacts DEF Readonly, host
    <3>2. CASE i # o.ino
      BY <2>1, <2>2, <3>2 DEF IInv, ProcessInv, VerifiedReadonly, Readonly, host
    <3>3. QED
      BY <3>1, <3>2
  <2>6. FreshFiles'
    BY <2>1 DEF IInv, FreshFiles, Writable, Served, host
  <2>7. FreshEditors'
    BY <2>1, <2>2, FileConfigFacts DEF IInv, FreshEditors, Writes
  <2>8. EditorsKnowTheirFiles'
    <3> SUFFICES ASSUME NEW i \in DOMAIN file_pool', Writes(i)', ~served',
                        Served(file_pool[i].id)', ~Readonly(file_pool[i].id)'
                 PROVE  (len[file_pool[i].id] = file_pool[i].size)'
      BY DEF EditorsKnowTheirFiles
    <3>1. (file_pool[i].size)' = 0
      BY <2>1, <2>7 DEF FreshEditors
    <3>2. QED
      BY <2>1, <2>3, <2>6, <3>1 DEF PoolType, FreshFiles, Writable, Served, Readonly
  <2>9. QED
    BY <2>3, <2>4, <2>5, <2>6, <2>7, <2>8 DEF IInv
<1>3. QED
  BY <1>1, <1>2

\* The pool of authfs stays as it is once it is mounted.
LEMMA AuthfsMountsInv == IInv /\ AuthfsMounts => IInv'
<1> SUFFICES ASSUME IInv, AuthfsMounts PROVE IInv'
  OBVIOUS
<1> USE DEF AuthfsMounts, host
<1>1. PoolType' /\ ProcessInv' /\ VerifiedReadonly'
  BY DEF IInv, PoolType, ProcessInv, VerifiedReadonly, Readonly
<1>2. FreshFiles' /\ FreshEditors'
  BY DEF IInv, FreshFiles, FreshEditors, Writable, Served, EditedBy, Writes
<1>3. EditorsKnowTheirFiles'
  BY DEF IInv, EditorsKnowTheirFiles, Editors, Writes, Served, Readonly
<1>4. QED
  BY <1>1, <1>2, <1>3 DEF IInv

-----------------------------------------------------------------------------
(* The FUSE requests *)

\* Those that change no file.
LEMMA QuietRequestInv ==
    ASSUME IInv, NEW result, Replies(result), UNCHANGED <<len, file_pool, lost>>
    PROVE  IInv'
<1> USE DEF Replies
<1>1. PoolType' /\ ProcessInv' /\ VerifiedReadonly'
  BY DEF IInv, PoolType, ProcessInv, VerifiedReadonly, Readonly
<1>2. FreshFiles' /\ FreshEditors'
  BY DEF IInv, FreshFiles, FreshEditors, Writable, Served, EditedBy, Writes
<1>3. EditorsKnowTheirFiles'
  BY DEF IInv, EditorsKnowTheirFiles, Editors, Writes, Served, Readonly
<1>4. QED
  BY <1>1, <1>2, <1>3 DEF IInv

\* The kinds and the files of the inodes are not changed by a request, so that a
\* file has the editors that it had.
LEMMA RemoteChangeInv ==
    ASSUME IInv, NEW i \in DOMAIN file_pool, Writes(i), NEW new_len, NEW new_size, NEW result,
           NEW still_lost \in {lost, lost \ {i}},
           RemoteChange(i, new_len, new_size, result, still_lost), UNCHANGED handles,
           \/ new_len = new_size
           \/ /\ still_lost = lost
              /\ Served(file_pool[i].id) /\ len[file_pool[i].id] = file_pool[i].size
                    => new_len = new_size
    PROVE  IInv'
<1> DEFINE id == file_pool[i].id
<1>1. /\ authfs = "mounted" /\ lost \ {i} \subseteq lost'
      /\ lost \subseteq lost' \/ new_len = new_size
      /\ UNCHANGED <<server, fd_pool, closed, authfs, connected, handles, served>>
      /\ \/ len' = len
         \/ i \in connected /\ Writable(id) /\ len' = [len EXCEPT ![id] = new_len]
      /\ \/ file_pool' = file_pool /\ i \in lost'
         \/ /\ i \in connected /\ Writable(id) /\ len' = [len EXCEPT ![id] = new_len]
            /\ file_pool' = [file_pool EXCEPT ![i].size = new_size]
  BY DEF RemoteChange, Replies
<1> HIDE DEF id
<1>2. /\ DOMAIN file_pool' = DOMAIN file_pool
      /\ file_pool' = [j \in DOMAIN file_pool |-> file_pool'[j]]
      /\ \A j \in DOMAIN file_pool :
            /\ file_pool'[j].kind = file_pool[j].kind /\ file_pool'[j].id = file_pool[j].id
            /\ file_pool'[j] = [kind |-> file_pool'[j].kind, id |-> file_pool'[j].id,
                                size |-> file_pool'[j].size]
            /\ j # i => file_pool'[j].size = file_pool[j].size
  BY <1>1 DEF IInv, PoolType
<1>3. /\ len' = [fd \in Fds |-> len'[fd]]
      /\ \A fd \in Fds \ {id} : len'[fd] = len[fd]
      /\ id \notin Fds \/ i \notin connected \/ ~Writable(id) => len' = len
  BY <1>1 DEF IInv, PoolType, Writable, Served
<1>4. PoolType'
  BY <1>1, <1>2, <1>3 DEF IInv, PoolType
<1>5. ProcessInv' /\ VerifiedReadonly'
  BY <1>1, <1>2 DEF IInv, ProcessInv, VerifiedReadonly, Readonly
<1>6. FreshEditors'
  BY <1>1, <1>2 DEF IInv, FreshEditors, Writes
<1>7. FreshFiles'
  <2> SUFFICES ASSUME NEW d \in DOMAIN fd_pool, ~served, Writable(d),
                      \A j \in connected : ~EditedBy(j, d)'
               PROVE  len'[d] = 0
    BY <1>1 DEF FreshFiles, Writable, Served
  <2>1. \A j \in connected : ~EditedBy(j, d)
    BY <1>1, <1>2 DEF EditedBy, Writes, IInv, ProcessInv
  <2>2. len[d] = 0 /\ d \in Fds
    BY <2>1 DEF IInv, FreshFiles, PoolType, Writable
  <2>3. i \notin connected \/ d # id
    BY <2>1 DEF EditedBy, id
  <2>4. QED
    BY <1>3, <2>2, <2>3
<1>8. EditorsKnowTheirFiles'
  <2> SUFFICES ASSUME NEW j \in DOMAIN file_pool, Writes(j), j \notin lost',
                      (Editors(file_pool[j].id) = {j})', j \in connected, ~served,
                      Served(file_pool[j].id), ~Readonly(file_pool[j].id)
               PROVE  len'[file_pool[j].id] = file_pool'[j].size
    BY <1>1, <1>2 DEF EditorsKnowTheirFiles, Writes, Served, Readonly
  <2>1. Editors(file_pool[j].id) = {j}
    BY <1>2 DEF Editors, Writes
  <2>2. len[file_pool[j].id] = file_pool[j].size \/ j \in lost
    BY <2>1 DEF IInv, EditorsKnowTheirFiles
  <2>3. file_pool[j].id \in Fds
    BY DEF IInv, PoolType, Served, Readonly
  <2>4. CASE j = i
    <3>1. new_len = new_size
      BY <1>1, <2>2, <2>4
    <3>2. /\ len' = [len EXCEPT ![id] = new_len]
          /\ file_pool' = [file_pool EXCEPT ![i].size = new_size]
      BY <1>1, <2>4
    <3>3. len'[id] = new_len
      BY <2>3, <2>4, <3>2 DEF IInv, PoolType, id
    <3>4. file_pool'[i].size = new_size
      BY <3>2 DEF IInv, PoolType
    <3>5. QED
      BY <2>4, <3>1, <3>3, <3>4 DEF id
  <2>5. CASE j # i
    <3>1. file_pool[j].id # id
      BY <2>1, <2>5 DEF Editors, id
    <3>2. QED
      BY <1>1, <1>2, <1>3, <2>2, <2>3, <2>5, <3>1
  <2>6. QED
    BY <2>4, <2>5
<1>9. QED
  BY <1>4, <1>5, <1>6, <1>7, <1>8 DEF IInv

\* A write changes a file only through its editor.
LEMMA WriteInv ==
    ASSUME IInv, NEW h \in handles, NEW index, Write(h, index)
    PROVE  IInv'
<1> DEFINE i == h[1]
<1>1. CASE Writes(i)
  <2>1. /\ RemoteChange(i, AtLeast(readFile(file_pool[i].id), index + 1),
                        AtLeast(file_pool[i].size, index + 1), "ok", lost)
        /\ UNCHANGED handles
    BY <1>1 DEF Write
  <2>2. Served(file_pool[i].id) => readFile(file_pool[i].id) = len[file_pool[i].id]
    BY DEF readFile
  <2>3. i \in DOMAIN file_pool
    BY <1>1 DEF Writes
  <2> HIDE DEF i
  <2>4. QED
    BY <1>1, <2>1, <2>2, <2>3, RemoteChangeInv
<1>2. CASE ~Writes(i)
  <2>1. Replies("EBADF") /\ UNCHANGED <<len, file_pool, lost, handles>>
    BY <1>2 DEF Write
  <2>2. QED
    BY <2>1, QuietRequestInv
<1>3. QED
  BY <1>1, <1>2

\* A resize changes a file only through its editor.
LEMMA SetattrInv ==
    ASSUME IInv, NEW i, NEW valid, NEW size, Setattr(i, valid, size)
    PROVE  IInv'
<1> DEFINE result == IF "UNSUPPORTED" \in valid THEN "ENOSYS" ELSE "ok"
<1>1. CASE Writes(i) /\ "SIZE" \in valid
  <2>1. /\ RemoteChange(i, size, size, result, lost \ {i}) /\ UNCHANGED handles
        /\ i \in DOMAIN file_pool
    BY <1>1 DEF Setattr
  <2> HIDE DEF result
  <2>2. QED
    BY <1>1, <2>1, RemoteChangeInv
<1>2. CASE ~(Writes(i) /\ "SIZE" \in valid)
  <2>1. (Replies("EBADF") \/ Replies(result)) /\ UNCHANGED <<len, file_pool, lost, handles>>
    BY <1>2 DEF Setattr
  <2> HIDE DEF result
  <2>2. QED
    BY <2>1, QuietRequestInv
<1>3. QED
  BY <1>1, <1>2

\* Every step keeps the invariant.
LEMMA NextInv == IInv /\ [Next]_vars => IInv'
<1> SUFFICES ASSUME IInv, [Next]_vars PROVE IInv'
  OBVIOUS
<1>1. CASE UNCHANGED vars
  <2> USE <1>1 DEF vars
  <2>1. PoolType' /\ ProcessInv' /\ VerifiedReadonly'
    BY DEF IInv, PoolType, ProcessInv, VerifiedReadonly, Readonly
  <2>2. FreshFiles' /\ FreshEditors'
    BY DEF IInv, FreshFiles, FreshEditors, Writable, Served, EditedBy, Writes
  <2>3. EditorsKnowTheirFiles'
    BY DEF IInv, EditorsKnowTheirFiles, Editors, Writes, Served, Readonly
  <2>4. QED
    BY <2>1, <2>2, <2>3 DEF IInv
<1>2. CASE \E args \in ServerArgs : ServerStarts(args)
  BY <1>2, ServerStartsInv
<1>3. CASE ServerParses \/ ServerRegisters \/ ServerDies
  BY <1>3, ServerParsesInv, ServerRegistersInv, ServerEndsInv DEF ServerDies
<1>4. CASE \E options \in FsArgs : AuthfsStarts(options)
  BY <1>4, AuthfsStartsInv
<1>5. CASE AuthfsConfigures \/ AuthfsMounts \/ AuthfsDies
  BY <1>5, AuthfsConfiguresInv, AuthfsMountsInv, AuthfsEndsInv DEF AuthfsDies
<1>6. CASE \E i \in Inodes : NoEntry(i) \/ Stat(i)
  BY <1>6, QuietRequestInv DEF NoEntry, Stat
<1>7. ASSUME NEW i \in Inodes, NEW flags \in Flags, Open(i, flags) PROVE IInv'
  <2>1. CASE check_access_mode(i, flags)
    <3>1. Replies("ok") /\ UNCHANGED <<len, file_pool, lost>>
      BY <1>7, <2>1 DEF Open
    <3>2. QED
      BY <3>1, QuietRequestInv
  <2>2. CASE ~check_access_mode(i, flags)
    <3>1. Replies("EACCES") /\ UNCHANGED <<len, file_pool, lost, handles>>
      BY <1>7, <2>2 DEF Open
    <3>2. QED
      BY <3>1, QuietRequestInv
  <2>3. QED
    BY <2>1, <2>2
<1>8. ASSUME NEW h \in handles, Close(h) PROVE IInv'
  <2> USE <1>8 DEF Close, host, mount
  <2>1. PoolType' /\ ProcessInv' /\ VerifiedReadonly'
    BY DEF IInv, PoolType, ProcessInv, VerifiedReadonly, Readonly
  <2>2. FreshFiles' /\ FreshEditors'
    BY DEF IInv, FreshFiles, FreshEditors, Writable, Served, EditedBy, Writes
  <2>3. EditorsKnowTheirFiles'
    BY DEF IInv, EditorsKnowTheirFiles, Editors, Writes, Served, Readonly
  <2>4. QED
    BY <2>1, <2>2, <2>3 DEF IInv
<1>9. ASSUME NEW h \in handles, NEW index, Read(h, index) PROVE IInv'
  <2>1. /\ \E result : Replies(result)
        /\ UNCHANGED <<len, file_pool, handles, lost>>
    BY <1>9 DEF Read
  <2>2. QED
    BY <2>1, QuietRequestInv
<1>10. QED
  BY <1>1, <1>2, <1>3, <1>4, <1>5, <1>6, <1>7, <1>8, <1>9, WriteInv, SetattrInv DEF Next

-----------------------------------------------------------------------------
\* The inductive invariant holds in every state of the two processes.
THEOREM Invariance == Spec => []IInv
BY InitInv, NextInv, PTL DEF Spec

\* For all options and any order of starts, kills and requests, the editor of a
\* new file that met no failure, or none since a resize that was acknowledged,
\* knows the size of the file, if it is the only one and of the first authfs on
\* its fd_server; a setattr that resizes and is then refused is no exception
\* (parse_arg_rw_fds of fd_server, prepare_file_pool and setattr of authfs).
THEOREM NewFilesKnown == Spec => []EditorsKnowTheirFiles
<1>1. IInv => EditorsKnowTheirFiles
  BY DEF IInv
<1>2. QED
  BY <1>1, Invariance, PTL

\* For all options and any order of starts, kills and requests, no request on
\* any inode changes the file behind a verified one (readFsveritySignature,
\* writeFile and resize of fd_server).
THEOREM VerifiedFilesSafe == Spec => VerifiedFilesUntouched
<1> DEFINE Untouched ==
        \A i \in DOMAIN file_pool :
            file_pool[i].kind = "remote_ro_file" /\ i \in connected =>
                len'[file_pool[i].id] = len[file_pool[i].id]
<1>1. ASSUME IInv, NEW i \in DOMAIN file_pool, NEW new_len, NEW new_size, NEW result,
             NEW still_lost, RemoteChange(i, new_len, new_size, result, still_lost)
      PROVE  Untouched
  <2>1. len' = len \/ (Writable(file_pool[i].id) /\ len' = [len EXCEPT ![file_pool[i].id] = new_len])
    BY <1>1 DEF RemoteChange
  <2>2. QED
    BY <1>1, <2>1 DEF IInv, PoolType, VerifiedReadonly, Readonly, Writable
<1>2. ASSUME IInv, [Next]_vars PROVE len' = len \/ Untouched
  <2>1. ASSUME NEW h \in handles, NEW index, Write(h, index) PROVE len' = len \/ Untouched
    <3>1. CASE Writes(h[1])
      BY <1>1, <1>2, <2>1, <3>1, Zenon DEF Write, Writes
    <3>2. CASE ~Writes(h[1])
      BY <2>1, <3>2 DEF Write
    <3>3. QED
      BY <3>1, <3>2
  <2>2. ASSUME NEW i, NEW valid, NEW size, Setattr(i, valid, size) PROVE len' = len \/ Untouched
    BY <1>1, <1>2, <2>2 DEF Setattr, Writes
  <2> HIDE DEF Untouched
  <2>3. QED
    BY <1>2, <2>1, <2>2, Zenon
       DEF Next, vars, ServerStarts, ServerParses, ServerRegisters, ServerDies, ServerEnds,
           AuthfsStarts, AuthfsConfigures, AuthfsMounts, AuthfsDies, AuthfsEnds, NoEntry, Stat,
           Open, Close, Read, host
<1>3. IInv /\ [Next]_vars => [Untouched]_vars
  BY <1>2
<1>4. QED
  BY <1>3, Invariance, PTL DEF Spec, VerifiedFilesUntouched
-----------------------------------------------------------------------------
(* Types *)

\* What parse_args has to go through: a file to write comes alone.
FdConfigs == [mode : {"Readonly"}, fds : Seq(Int)] \cup [mode : {"ReadWrite"}, fds : Seq(Int)]

Alone(c) == c.mode = "ReadWrite" => DOMAIN c.fds = {1}

\* The descriptors behind a file that is served are descriptors of fd_server.
ServerType ==
    /\ to_parse \in Seq({c \in FdConfigs : Alone(c)})
    /\ \A id \in DOMAIN fd_pool : Range(fd_pool[id].fds) \subseteq Fds

\* What parse_args makes of the command line.
LEMMA ParseArgs ==
    ASSUME NEW args \in ServerArgs
    PROVE  parse_args(args) \in Seq({c \in FdConfigs : Alone(c)})
<1> DEFINE C == {c \in FdConfigs : Alone(c)}
           ro == [k \in 1 .. Len(args.ro_fds) |-> FdConfig("Readonly", args.ro_fds[k])]
           rw == [k \in 1 .. Len(args.rw_fds) |-> FdConfig("ReadWrite", <<args.rw_fds[k]>>)]
<1>1. args.ro_fds \in Seq(Seq(Int)) /\ args.rw_fds \in Seq(Int)
  BY PoolsAssumption
<1>2. ASSUME NEW s \in Seq(Int) PROVE FdConfig("Readonly", s) \in C
  BY DEF FdConfig, FdConfigs, Alone
<1>3. ASSUME NEW fd \in Int PROVE FdConfig("ReadWrite", <<fd>>) \in C
  BY DEF FdConfig, FdConfigs, Alone
<1>4. /\ Len(args.ro_fds) \in Nat /\ \A k \in 1 .. Len(args.ro_fds) : args.ro_fds[k] \in Seq(Int)
      /\ Len(args.rw_fds) \in Nat /\ \A k \in 1 .. Len(args.rw_fds) : args.rw_fds[k] \in Int
  BY <1>1
<1> HIDE DEF C
<1>5. ro \in Seq(C)
  BY <1>2, <1>4
<1>6. rw \in Seq(C)
  BY <1>3, <1>4
<1>7. parse_args(args) = ro \o rw
  BY DEF parse_args
<1> HIDE DEF ro, rw
<1>8. parse_args(args) \in Seq(C)
  BY <1>5, <1>6, <1>7
<1>9. QED
  BY <1>8 DEF C

\* An option that is accepted names descriptors of fd_server only.
LEMMA AcceptedFds ==
    ASSUME NEW c \in FdConfigs, Alone(c),
           \/ c.mode = "Readonly" /\ parse_arg_ro_fds(c.fds)
           \/ c.mode = "ReadWrite" /\ parse_arg_rw_fds(c.fds)
    PROVE  c.fds[1] \in Fds /\ Range(c.fds) \subseteq Fds
<1>1. c.fds \in Seq(Int) /\ DOMAIN c.fds = 1 .. Len(c.fds) /\ Len(c.fds) \in Nat
  BY DEF FdConfigs
<1>2. Range(c.fds) = {c.fds[k] : k \in 1 .. Len(c.fds)}
  BY <1>1 DEF Range
<1>3. CASE c.mode = "Readonly"
  BY <1>1, <1>2, <1>3 DEF parse_arg_ro_fds, is_fd_valid
<1>4. CASE c.mode = "ReadWrite"
  BY <1>1, <1>2, <1>4 DEF parse_arg_rw_fds, is_fd_valid, Alone
<1>5. QED
  BY <1>3, <1>4

TypeInv == TypeOK /\ ServerType

\* The first state is well typed.
LEMMA InitTypes == Init => TypeInv
<1> SUFFICES ASSUME Init PROVE TypeInv
  OBVIOUS
<1>1. DOMAIN file_pool = {} /\ DOMAIN fd_pool = {}
  BY DEF Init, NoPool
<1>2. len \in [Fds -> 0 .. MaxLen] /\ 0 \in 0 .. MaxStarts
  BY PoolsAssumption DEF Init
<1>3. served \in BOOLEAN /\ starts \in 0 .. MaxStarts
  BY <1>2, Zenon DEF Init
<1>4. TypeOK
  BY <1>1, <1>2, <1>3 DEF Init, TypeOK
<1>5. ServerType
  BY <1>1 DEF Init, ServerType
<1>6. QED
  BY <1>4, <1>5 DEF TypeInv

\* An end of fd_server leaves nothing but the files.
LEMMA ServerEndsTypes == TypeInv /\ ServerEnds => TypeInv'
<1> SUFFICES ASSUME TypeInv, ServerEnds PROVE TypeInv'
  OBVIOUS
<1>1. DOMAIN fd_pool' = {}
  BY DEF ServerEnds, NoPool
<1>2. QED
  BY <1>1 DEF ServerEnds, TypeInv, TypeOK, ServerType

\* The start of an fd_server keeps the types.
LEMMA ServerStartsTypes ==
    ASSUME TypeInv, NEW args \in ServerArgs, ServerStarts(args)
    PROVE  TypeInv'
<1>1. to_parse' \in Seq({c \in FdConfigs : Alone(c)})
  BY ParseArgs DEF ServerStarts
<1>2. starts' \in 0 .. MaxStarts
  BY PoolsAssumption DEF TypeInv, TypeOK, ServerStarts
<1>3. QED
  BY <1>1, <1>2, Zenon DEF ServerStarts, TypeInv, TypeOK, ServerType, mount

\* So does an option of fd_server,
LEMMA ServerParsesTypes == TypeInv /\ ServerParses => TypeInv'
<1> SUFFICES ASSUME TypeInv, ServerParses PROVE TypeInv'
  OBVIOUS
<1> DEFINE config == Head(to_parse)
           fd == config.fds[1]
<1>1. CASE ServerEnds
  BY <1>1, ServerEndsTypes
<1>2. CASE ~ServerEnds
  <2>1. /\ to_parse # <<>>
        /\ \/ config.mode = "Readonly" /\ parse_arg_ro_fds(config.fds)
           \/ config.mode = "ReadWrite" /\ parse_arg_rw_fds(config.fds)
        /\ fd_pool' = insert(fd_pool, fd, config)
        /\ closed' = closed \cup IF fd \in DOMAIN fd_pool THEN Range(fd_pool[fd].fds) ELSE {}
        /\ to_parse' = Tail(to_parse)
        /\ reply' = NoReply
        /\ UNCHANGED <<len, server, mount, handles, served, lost, starts>>
    BY <1>2, Zenon DEF ServerParses
  <2>2. config \in {c \in FdConfigs : Alone(c)} /\ ServerType
    BY <2>1 DEF TypeInv, ServerType
  <2>3. to_parse' \in Seq({c \in FdConfigs : Alone(c)})
    BY <2>1 DEF TypeInv, ServerType
  <2> HIDE DEF config
  <2>4. fd \in Fds /\ Range(config.fds) \subseteq Fds
    BY <2>1, <2>2, AcceptedFds
  <2> HIDE DEF fd
  <2>5. /\ DOMAIN fd_pool' = DOMAIN fd_pool \cup {fd}
        /\ \A id \in DOMAIN fd_pool' : fd_pool'[id] = IF id = fd THEN config ELSE fd_pool[id]
    BY <2>1 DEF insert
  <2>6. ServerType'
    BY <2>2, <2>3, <2>4, <2>5 DEF ServerType
  <2>7. closed' \subseteq Fds
    BY <2>1, <2>2 DEF TypeInv, TypeOK, ServerType
  <2>8. TypeOK'
    BY <2>1, <2>4, <2>5, <2>7 DEF TypeInv, TypeOK, mount
  <2>9. QED
    BY <2>6, <2>8 DEF TypeInv
<1>3. QED
  BY <1>1, <1>2

\* the end of an authfs,
LEMMA AuthfsEndsTypes == TypeInv /\ AuthfsEnds => TypeInv'
<1> SUFFICES ASSUME TypeInv, AuthfsEnds PROVE TypeInv'
  OBVIOUS
<1>1. DOMAIN file_pool' = {}
  BY DEF AuthfsEnds, NoPool
<1>2. served' \in BOOLEAN
  BY Zenon DEF AuthfsEnds
<1>3. QED
  BY <1>1, <1>2 DEF AuthfsEnds, TypeInv, TypeOK, ServerType, host

\* an option of authfs,
LEMMA AuthfsConfiguresTypes == TypeInv /\ AuthfsConfigures => TypeInv'
<1> SUFFICES ASSUME TypeInv, AuthfsConfigures PROVE TypeInv'
  OBVIOUS
<1> DEFINE o == Head(to_configure)
<1>1. CASE AuthfsEnds
  BY <1>1, AuthfsEndsTypes
<1>2. CASE ~AuthfsEnds
  <2>1. /\ CanConfigure(o)
        /\ file_pool' = insert(file_pool, o.ino, FileConfig(o))
        /\ connected' = IF IsRemote(o) THEN connected \cup {o.ino} ELSE connected \ {o.ino}
        /\ reply' = NoReply
        /\ UNCHANGED <<host, authfs, handles, served, lost, starts>>
    BY <1>2 DEF AuthfsConfigures
  <2> HIDE DEF o
  <2>2. /\ DOMAIN file_pool' = DOMAIN file_pool \cup {o.ino}
        /\ \A i \in DOMAIN file_pool' :
              file_pool'[i] = IF i = o.ino THEN FileConfig(o) ELSE file_pool[i]
    BY <2>1 DEF insert
  <2>3. FileConfig(o).kind \in OptionKinds
    BY <2>1, FileConfigFacts, Zenon DEF CanConfigure, OptionKinds
  <2>4. ServerType'
    BY <2>1 DEF TypeInv, ServerType, host
  <2>5. TypeOK'
    BY <2>1, <2>2, <2>3 DEF TypeInv, TypeOK, host
  <2>6. QED
    BY <2>4, <2>5 DEF TypeInv
<1>3. QED
  BY <1>1, <1>2

\* Requests that change no file.
LEMMA QuietRequestTypes ==
    ASSUME TypeInv, NEW result, Replies(result), UNCHANGED <<len, file_pool, lost>>,
           result \in {"ok", "ENOENT", "EACCES", "EBADF", "ENODATA", "EIO", "ENOSYS"},
           \A h \in handles' \ handles : h[1] \in DOMAIN file_pool /\ h[2] \in Flags
    PROVE  TypeInv'
BY DEF Replies, TypeInv, TypeOK, ServerType

\* Requests that change a file.
LEMMA RemoteChangeTypes ==
    ASSUME TypeInv, IInv, NEW i \in DOMAIN file_pool, NEW new_len \in 0 .. MaxLen, NEW new_size,
           NEW result \in {"ok", "ENOSYS"},
           NEW still_lost \in SUBSET lost,
           RemoteChange(i, new_len, new_size, result, still_lost), UNCHANGED handles
    PROVE  TypeInv'
<1> DEFINE id == file_pool[i].id
<1>1. /\ lost' \subseteq lost \cup {i} /\ reply' \in {"ok", "ENOSYS", "EIO"}
      /\ UNCHANGED <<server, to_parse, fd_pool, closed, authfs, connected, handles, served, starts>>
      /\ len' = len \/ len' = [len EXCEPT ![id] = new_len]
      /\ file_pool' = file_pool \/ file_pool' = [file_pool EXCEPT ![i].size = new_size]
  BY DEF RemoteChange, Replies
<1>2. file_pool[i] = [kind |-> file_pool[i].kind, id |-> file_pool[i].id,
                      size |-> file_pool[i].size]
  BY DEF IInv, PoolType
<1>3. [file_pool[i] EXCEPT !.size = new_size].kind = file_pool[i].kind
  BY <1>2
<1>4. /\ DOMAIN file_pool' = DOMAIN file_pool
      /\ \A j \in DOMAIN file_pool : file_pool'[j].kind = file_pool[j].kind
  BY <1>1, <1>3, Zenon
<1> HIDE DEF id
<1>5. len' \in [Fds -> 0 .. MaxLen]
  BY <1>1 DEF TypeInv, TypeOK
<1>6. QED
  BY <1>1, <1>4, <1>5 DEF TypeInv, TypeOK, ServerType

\* a write,
LEMMA WriteTypes ==
    ASSUME TypeInv, IInv, NEW h \in handles, NEW index \in 0 .. MaxLen - 1, Write(h, index)
    PROVE  TypeInv'
<1> DEFINE i == h[1]
           new_len == AtLeast(readFile(file_pool[i].id), index + 1)
           new_size == AtLeast(file_pool[i].size, index + 1)
<1>1. CASE Writes(i)
  <2>1. RemoteChange(i, new_len, new_size, "ok", lost) /\ UNCHANGED handles
    BY <1>1 DEF Write
  <2>2. readFile(file_pool[i].id) \in 0 .. MaxLen
    BY PoolsAssumption DEF TypeInv, TypeOK, readFile, Served
  <2>3. new_len \in 0 .. MaxLen
    BY <2>2, PoolsAssumption DEF AtLeast
  <2>4. i \in DOMAIN file_pool
    BY <1>1 DEF Writes
  <2> HIDE DEF new_len, new_size, i
  <2>5. QED
    BY <2>1, <2>3, <2>4, RemoteChangeTypes
<1>2. CASE ~Writes(i)
  <2>1. Replies("EBADF") /\ UNCHANGED <<len, file_pool, lost, handles>>
    BY <1>2 DEF Write
  <2>2. QED
    BY <2>1, QuietRequestTypes
<1>3. QED
  BY <1>1, <1>2

\* a change of attributes,
LEMMA SetattrTypes ==
    ASSUME TypeInv, IInv, NEW i, NEW valid, NEW size \in 0 .. MaxLen, Setattr(i, valid, size)
    PROVE  TypeInv'
<1> DEFINE result == IF "UNSUPPORTED" \in valid THEN "ENOSYS" ELSE "ok"
<1>1. result \in {"ok", "ENOSYS"}
  OBVIOUS
<1>2. CASE Writes(i) /\ "SIZE" \in valid
  <2>1. /\ RemoteChange(i, size, size, result, lost \ {i}) /\ UNCHANGED handles
        /\ i \in DOMAIN file_pool
    BY <1>2 DEF Setattr
  <2> HIDE DEF result
  <2>2. QED
    BY <1>1, <2>1, RemoteChangeTypes
<1>3. CASE ~(Writes(i) /\ "SIZE" \in valid)
  <2>1. (Replies("EBADF") \/ Replies(result)) /\ UNCHANGED <<len, file_pool, lost, handles>>
    BY <1>3 DEF Setattr
  <2> HIDE DEF result
  <2>2. QED
    BY <1>1, <2>1, QuietRequestTypes
<1>4. QED
  BY <1>2, <1>3

\* and thus every step.
LEMMA NextTypes == IInv /\ TypeInv /\ [Next]_vars => TypeInv'
<1> SUFFICES ASSUME IInv, TypeInv, [Next]_vars PROVE TypeInv'
  OBVIOUS
<1>1. CASE UNCHANGED vars
  BY <1>1 DEF vars, TypeInv, TypeOK, ServerType
<1>2. CASE \E args \in ServerArgs : ServerStarts(args)
  BY <1>2, ServerStartsTypes
<1>3. CASE ServerRegisters
  BY <1>3 DEF ServerRegisters, TypeInv, TypeOK, ServerType, mount
<1>4. ASSUME NEW options, AuthfsStarts(options) PROVE TypeInv'
  <2>1. starts' \in 0 .. MaxStarts
    BY <1>4, PoolsAssumption DEF TypeInv, TypeOK, AuthfsStarts
  <2>2. QED
    BY <1>4, <2>1 DEF AuthfsStarts, TypeInv, TypeOK, ServerType, host
<1>5. CASE AuthfsMounts
  BY <1>5 DEF AuthfsMounts, TypeInv, TypeOK, ServerType, host
<1>6. CASE \E i \in Inodes : NoEntry(i) \/ Stat(i)
  BY <1>6, QuietRequestTypes DEF NoEntry, Stat
<1>7. ASSUME NEW i \in Inodes, NEW flags \in Flags, Open(i, flags) PROVE TypeInv'
  <2>1. CASE check_access_mode(i, flags)
    <3>1. /\ Replies("ok") /\ UNCHANGED <<len, file_pool, lost>>
          /\ i \in DOMAIN file_pool /\ handles' = handles \cup {<<i, flags>>}
      BY <1>7, <2>1 DEF Open
    <3>2. \A h \in handles' \ handles : h[1] \in DOMAIN file_pool /\ h[2] \in Flags
      BY <3>1
    <3>3. QED
      BY <3>1, <3>2, QuietRequestTypes
  <2>2. CASE ~check_access_mode(i, flags)
    <3>1. Replies("EACCES") /\ UNCHANGED <<len, file_pool, lost, handles>>
      BY <1>7, <2>2 DEF Open
    <3>2. QED
      BY <3>1, QuietRequestTypes
  <2>3. QED
    BY <2>1, <2>2
<1>8. ASSUME NEW h \in handles, Close(h) PROVE TypeInv'
  BY <1>8 DEF Close, host, mount, TypeInv, TypeOK, ServerType
<1>9. ASSUME NEW h \in handles, NEW index, Read(h, index) PROVE TypeInv'
  <2>1. /\ Replies("ENODATA") \/ Replies("ok") \/ Replies("EIO")
        /\ UNCHANGED <<len, file_pool, handles, lost>>
    BY <1>9 DEF Read
  <2>2. QED
    BY <2>1, QuietRequestTypes
<1>10. ASSUME NEW i, NEW valid, NEW size \in SetattrSizes(valid), Setattr(i, valid, size)
       PROVE  TypeInv'
  <2>1. size \in 0 .. MaxLen
    BY PoolsAssumption DEF SetattrSizes
  <2>2. QED
    BY <1>10, <2>1, SetattrTypes
<1>11. CASE ServerParses \/ ServerDies \/ AuthfsConfigures \/ AuthfsDies
  BY <1>11, ServerParsesTypes, ServerEndsTypes, AuthfsConfiguresTypes, AuthfsEndsTypes
     DEF ServerDies, AuthfsDies
<1>12. QED
  BY <1>1, <1>2, <1>3, <1>4, <1>5, <1>6, <1>7, <1>8, <1>9, <1>10, <1>11, WriteTypes DEF Next

\* Whatever the options are, the files stay as long as they may be, fd_server
\* closes descriptors that it has, and the kernel's handles are of inodes that
\* authfs has (parse_args of fd_server, prepare_file_pool and the FUSE requests
\* of authfs).
THEOREM TypeCorrect == Spec => []TypeOK
<1>1. Init => IInv /\ TypeInv
  BY InitInv, InitTypes
<1>2. IInv /\ TypeInv /\ [Next]_vars => (IInv /\ TypeInv)'
  BY NextInv, NextTypes
<1>3. TypeInv => TypeOK
  BY DEF TypeInv
<1>4. QED
  BY <1>1, <1>2, <1>3, PTL DEF Spec
=============================================================================
