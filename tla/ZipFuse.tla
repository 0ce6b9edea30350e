------------------------------ MODULE ZipFuse ------------------------------
(***************************************************************************)
(* The zipfuse file system (zipfuse/src/main.rs): the archive is mounted,  *)
(* and then serves open, read, release, opendir, readdir and releasedir.   *)
(* The handlers hold the mutex of open_files or open_dirs from start to    *)
(* end.  Both maps are keyed by the inode, which is also the handle that   *)
(* all openers share; they are one map here, as no inode is both a file    *)
(* and a directory.  lookup and getattr only read the table.               *)
(*                                                                         *)
(* A handle stands for an open file description of the kernel that is read *)
(* from the start to the end.  Bytes are numbered, names stand for the     *)
(* entries of a directory.                                                 *)
(***************************************************************************)
EXTENDS InodeTable

CONSTANTS Archives,       \* the archives that may be mounted
          Browsed,        \* those whose files are then opened: a bound
          Handles,
          ReadSizes,      \* how much a read or a readdir asks for
          MaxOpenCount    \* bound on open_count, a u32 in the code

ASSUME ZipAssumption ==
    /\ Archives \subseteq Seq([path : Seq(STRING), is_file : BOOLEAN, size : Nat,
                              mode : {NO_MODE} \cup Nat])
    /\ ReadSizes \subseteq Nat \ {0}
    /\ MaxOpenCount \in Nat \ {0}

VARIABLES archive,
          mounted,        \* the result of from_zip, or NotMounted
          open_bufs,      \* open_files and open_dirs: inode -> open_count
          handle          \* per handle: the inode, 0 if closed, and what was read

vars == <<archive, mounted, open_bufs, handle>>

NotMounted == [table |-> <<>>, parent |-> ROOT, status |-> "loading"]
Closed == [inode |-> 0, got |-> <<>>, eof |-> FALSE]
table == mounted.table

\* The order of the hash map's iterator, which is the same every time.
Listing(names) == CHOOSE s \in [1 .. Cardinality(names) -> names] : Range(s) = names

\* What a buffer holds: the bytes of the zip entry, or the names.
Contents(inode) ==
    IF is_dir(table[inode]) THEN Listing(Names(table[inode]))
    ELSE [p \in 1 .. table[inode].size |-> <<table[inode].zip_index, p>>]

Opened(inode) == {h \in Handles : handle[h].inode = inode}

Init == /\ archive \in Archives
        /\ mounted = NotMounted
        /\ open_bufs = <<>>
        /\ handle = [h \in Handles |-> Closed]

\* ZipFuse::new
New == /\ mounted.status = "loading"
       /\ mounted' = from_zip(archive)
       /\ UNCHANGED <<archive, open_bufs, handle>>

\* open and opendir: the first open fills the buffer.
Open(h, inode) ==
    /\ mounted.status = "ok" /\ archive \in Browsed /\ handle[h] = Closed
    /\ \/ /\ inode \in DOMAIN open_bufs
          /\ open_bufs[inode] \in 1 .. MaxOpenCount - 1
          /\ open_bufs' = [open_bufs EXCEPT ![inode] = @ + 1]
       \/ /\ inode \notin DOMAIN open_bufs
          /\ open_bufs' = [n \in DOMAIN open_bufs \cup {inode} |->
                              IF n = inode THEN 1 ELSE open_bufs[n]]
    /\ handle' = [handle EXCEPT ![h] = [Closed EXCEPT !.inode = inode]]
    /\ UNCHANGED <<archive, mounted>>

Without(bufs, inode) == [n \in DOMAIN bufs \ {inode} |-> bufs[n]]

\* Mutant: stores the open count and forgets to remove the buffer.
release_keeping(bufs, inode) == [bufs EXCEPT ![inode] = @ - 1]

\* Mutant: the buffer goes away with the first handle.
release_first(bufs, inode) == Without(bufs, inode)

\* release and releasedir: the buffer is removed when open_count is 1, and a
\* larger open_count is left as it is.
release(bufs, inode) == IF bufs[inode] - 1 = 0 THEN Without(bufs, inode) ELSE bufs

Release(h) ==
    /\ handle[h] # Closed
    /\ handle[h].inode \in DOMAIN open_bufs /\ open_bufs[handle[h].inode] > 0
    /\ open_bufs' = release(open_bufs, handle[h].inode)
    /\ handle' = [handle EXCEPT ![h] = Closed]
    /\ UNCHANGED <<archive, mounted>>

\* Where the slice that read and readdir return ends.
slice_end(start, size, len) == IF start + size < len THEN start + size ELSE len

\* read: the kernel asks within the size that stat_from told it.
Read(h, size) ==
    /\ handle[h] # Closed
    /\ LET inode == handle[h].inode
           start == Len(handle[h].got)
           end == slice_end(start, size, Len(Contents(inode)))
       IN  /\ inode \in DOMAIN open_bufs /\ open_bufs[inode] > 0
           /\ ~is_dir(table[inode]) /\ start < table[inode].size
           /\ handle' = [handle EXCEPT ![h].got = @ \o SubSeq(Contents(inode), start + 1, end),
                                       ![h].eof = (end = table[inode].size)]
    /\ UNCHANGED <<archive, mounted, open_bufs>>

\* Mutant: numbers the entries of each reply from zero.
NextOffsetOfReply(offset, cur) == cur

\* DirIter::next: the offset at which to go on after entry cur of a reply.
NextOffset(offset, cur) == offset + cur

\* readdir at the offset of the last entry that was taken.  Not all entries of
\* the reply need fit into the kernel's buffer, the first one always does.  A
\* reply without entries is the end.
ReadDir(h, size) ==
    /\ handle[h] # Closed
    /\ LET inode == handle[h].inode
           offset == IF handle[h].got = <<>> THEN 0 ELSE handle[h].got[Len(handle[h].got)][2]
           end == slice_end(offset, size, Len(Contents(inode)))
           reply == [cur \in 1 .. end - offset |->
                        <<Contents(inode)[offset + cur], NextOffset(offset, cur)>>]
       IN  /\ inode \in DOMAIN open_bufs /\ open_bufs[inode] > 0
           /\ is_dir(table[inode])
           /\ \/ /\ reply = <<>>
                 /\ handle' = [handle EXCEPT ![h].eof = TRUE]
              \/ \E n \in DOMAIN reply :
                    handle' = [handle EXCEPT ![h].got = @ \o SubSeq(reply, 1, n)]
    /\ UNCHANGED <<archive, mounted, open_bufs>>

Next == \/ New
        \/ \E h \in Handles :
             \/ \E inode \in DOMAIN table : Open(h, inode)
             \/ Release(h)
             \/ \E size \in ReadSizes : Read(h, size) \/ ReadDir(h, size)

Spec == Init /\ [][Next]_vars

-----------------------------------------------------------------------------
\* Handles refer to inodes, and the open counts of open_files and open_dirs are
\* positive: no reply EBADF comes from a count of zero.
TypeOK ==
    /\ mounted.status \in {"loading", "ok", "error", "panic"}
    /\ DOMAIN open_bufs \subseteq DOMAIN table
    /\ \A n \in DOMAIN open_bufs : open_bufs[n] \in 1 .. MaxOpenCount
    /\ \A h \in Handles : handle[h].inode \in DOMAIN table \cup {0}

\* from_zip gives every entry and every directory above one an inode of the
\* right kind, that of a file with the zip index of the first entry so named,
\* whatever the order of the entries.
PathsResolve ==
    mounted.status = "ok" =>
        \A path \in PathsOf(archive) :
            LET inode == Walk(table, path)
                first == FirstOf(Under(archive, path))
            IN  /\ inode # 0
                /\ is_dir(table[inode]) <=> ~(archive[first].is_file /\ archive[first].path = path)
                /\ ~is_dir(table[inode]) => table[inode].zip_index = first

\* The table is a tree: each inode but the root is one entry of one directory,
\* and the directories name nothing but paths of the archive.
InodesFormTree ==
    mounted.status = "ok" =>
        LET links == LinksOf(table)
        IN  /\ {l[3] : l \in links} = DOMAIN table \ {ROOT}
            /\ \A l, m \in links : l[3] = m[3] => l = m
            /\ \A inode \in DOMAIN table \ {ROOT} :
                 \E path \in PathsOf(archive) : Walk(table, path) = inode

\* A directory has the mode of the last entry that names it and has a mode,
\* even when a file below it came first, unless a later one has none.
DirectoryModes ==
    mounted.status = "ok" =>
        \A path \in PathsOf(archive) :
            LET inode == Walk(table, path)
                naming == {i \in Naming(archive, path) : ~archive[i].is_file}
            IN  inode # 0 /\ is_dir(table[inode]) =>
                    IF naming = {} THEN table[inode].mode = DEFAULT_DIR_MODE
                    ELSE archive[LastOf(naming)].mode # NO_MODE =>
                            table[inode].mode = archive[LastOf(naming)].mode

\* As long as one handle to an inode is open, its buffer is there to serve it,
\* however opens and releases of other handles interleave.
OpenHandlesServed ==
    \A h \in Handles : handle[h] # Closed => handle[h].inode \in DOMAIN open_bufs

\* Reading a file or a directory in pieces, each where the last one ended,
\* gives what is in it, in order, once, and ends only when all was given.
PiecesMakeTheWhole ==
    \A h \in Handles : handle[h] # Closed =>
        LET all == Contents(handle[h].inode)
            got == handle[h].got
            items == IF is_dir(table[handle[h].inode]) THEN [k \in DOMAIN got |-> got[k][1]] ELSE got
        IN  /\ Begins(all, items)
            /\ handle[h].eof => items = all

-----------------------------------------------------------------------------
\* What a comment of the repository says and the code does not keep.

\* "Releases the buffer for the `handle` when it is opened for nobody": once
\* two opens overlapped, the open_count never goes down again.
ClosedBuffersReleased ==
    \A inode \in DOMAIN open_bufs : Opened(inode) # {}
=============================================================================
