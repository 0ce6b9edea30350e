# A TLA+ verification of the Virtualization module

The modules in this directory model the programs of this repository that keep
state, run concurrently or talk to each other: the authenticated file system
`authfs`, the service `virtmanager` with its client `vm`, the compilation
service CompOS, the archive file system `zipfuse`, and `mk_payload`, which makes
the payload disk of a microdroid. TLC checks them on small instances. TLAPS
proves every safety property that the passing runs check, and one refinement,
for every instance.

`PROJECT.json` lists the components, the runs, the map from definitions to
source lines, the findings, the hazards and the theorems.

## The system

| Part | State | Operations | Talks to |
|---|---|---|---|
| `authfs` writable files (`fsverity/editor.rs`, `builder.rs`) | leaf hashes and size under a lock | `write_at`, `resize`, digest | `fd_server`, through Binder |
| `authfs` read-only files (`fsverity/verifier.rs`, `fusefs.rs`) | the root hash | open, read by chunk with verification | `fd_server` |
| `authfs` FUSE layer and startup (`fusefs.rs`, `main.rs`) | the file pool, fixed after the start | lookup, getattr, open, read, write, setattr | kernel, both kinds of file |
| `fd_server` | a pool of open files | readFile, readFsverityMerkleTree, writeFile, resize | backing files |
| `virtmanager` (`aidl.rs`, `crosvm.rs`) | CID counter, weak list of VMs, held references; per VM a child, a monitor thread, callbacks | startVm, debug methods, registerCallback, drop, monitor | crosvm, clients |
| `vm` (`run.rs`, `sync.rs`) | a flag and a condition variable | run, run --daemonize, stop, list | virtmanager |
| CompOS (`pvm_exec.rs`, `compsvc.rs`, `compsvc_worker.rs`) | processes and the guards that end them | spawn, execute, wait for the mount, wait for the task | fd_server, authfs, the task |
| `zipfuse` (`inode.rs`, `main.rs`) | inode table; open buffers with counts | from_zip, open, read, release and the same for directories | kernel |
| microdroid tools (`mk_payload.cc`, `signature.cc`) | the signature, the fillers and the disk that a run leaves | collect sizes, write the signature, write fillers, make the disk | files that others replace |

What makes these parts hard to test:

- `write_at` takes the lock for each chunk, not for the whole buffer. Writes and
  resizes of several threads interleave in between, and every remote call may
  fail after it took effect.
- One read of a verified file is many remote calls. Nothing makes their replies
  come from one version of the file.
- A VM is kept alive by Binder references, by its monitor thread, or by both,
  and may end before, while or after a client registers its callback.
- A run of CompOS consists of six processes that start on their own time, share
  one service name, and are ended by scope guards.
- `zipfuse` shares one buffer among all handles of an inode.
- The pools of `authfs` and `fd_server` come from two command lines that nobody
  compares. Either process may be killed and started again, also while the other
  one starts: each file of `authfs` looks up the service for itself.
- A read of a writable file takes the size once and its chunks later, under no
  lock.
- `mk_payload` looks at a file twice, and a failed run leaves new parts under an
  old disk.

## The modules

| Module | Models | State and actions |
|---|---|---|
| `MerkleLeaves` | `struct MerkleLeaves` of `builder.rs` | operators on the vector of leaves: `update_hash`, `resize`, `is_consistent` |
| `VerifiedFileEditor` | `editor.rs` over `RemoteFileEditor` and `fd_server` | `leaves`, `file_size`, `lock`; the backing file; per thread a program counter and the write in progress |
| `IntegrityFile` | what the editor promises | a plain file that changes by the calls of its clients only: the pieces of a buffer in order, and resizes |
| `AuthFs` | FUSE `read`, `write` and `setattr` on a writable file, over `VerifiedFileEditor` | the editor's state and per reader the read in progress; one action per chunk of a read |
| `FilePools` | `parse_args` and the calls of `fd_server`, `prepare_file_pool` and all FUSE requests of `authfs` | both pools, the lengths of the files, the handles of the kernel; one action per option that a process goes through, per request, start and kill |
| `FsverityTree` | `calculate_root_hash`, `merkle_tree_height`, `fsverity_walk`, digests | pure operators, and the stored tree as the reference |
| `VerifiedFileReader` | `read_chunks` over `VerifiedFileReader` | the size and the root hash, the request, the chunk in hand, how far its walk has come; one action per remote reply |
| `VirtManager` | `virtmanager/src` and `vm/src` | the service's `State`, the instances, the clients; one action per Binder call, thread step, crosvm exit |
| `CompOS` | `compos/src`, and the start of `fd_server` and `authfs` | one status per process and run; one action per step of a process |
| `InodeTable` | `inode.rs` | `from_zip` as folds over entries and path components |
| `ZipFuse` | `main.rs` of zipfuse | the mounted table, open counts, handles |
| `MkPayload` | `mk_payload.cc`, `signature.cc` | sizes of the files, the run in progress, what is on the disk; one action per file that a run looks at |
| `MC...` | | values of the constants for TLC |
| `VerifiedFileEditorProofs` | theorems about the editor, whatever calls fail | |
| `AuthFsProofs` | theorems about the editor and its readers over a backend that answers | |
| `FsverityTreeProofs` | lemmas about `FsverityTree`: division, height, levels, the stored tree, the walk | |
| `FsverityProofs` | theorems about `VerifiedFileReader` | |
| `FilePoolsProofs`, `CompOSProofs`, `ZipFuseProofs` | theorems about the module of that name | |
| `VirtManagerProofs` | theorems about `VirtManager`, and in a part of its own about `MkPayload` | |

Each definition keeps the name of what it models where it can. A definition
whose comment starts with "Mutant:" is a plausible mistake in the definition
after it; putting it in that definition's place must break the property that
`PROJECT.json` names with it.

### What is abstract

- SHA-256 has no collisions. A digest is the hashed chunk in a record.
- Chunks have two bytes and nodes of the tree two hashes. The code has 4096 and
  128. The theorems hold for every chunk size, and for every power of two of
  hashes to a node.
- The backing file of the editor is what a reader of it sees: zero bytes past
  the end, as in a sparse file and in the zeroed buffers of the code.
- `resize` is one action. It holds the lock throughout, so that no other thread
  can see its steps; a failure in between is `ResizeFails`.
- In `AuthFs`, a read starts at a multiple of the chunk size: `open` answers
  `KEEP_CACHE`, so that the kernel reads through its page cache.
- In `FilePools`, a file is its length in chunks; what the bytes are is the
  subject of `VerifiedFileEditor`, `AuthFs` and `VerifiedFileReader`. `setattr`
  gets any set of attributes; those that it refuses alike (mode, owner, group) are
  one, and those that it ignores (times) are none. Option strings are their
  fields. `starts` and `handles` are bounded by `MaxStarts` and
  `MaxHandles`.
- In `VerifiedFileReader`, a reply is a prefix of a chunk, or of a page, of any
  of the versions that the remote file had, of whatever size. The first page is
  that of a version of the size that the reader was told, since the digest that is
  authenticated covers the size. `FakeAuthenticator` is the constant
  `should_allow`.
- In `VirtManager`, the methods of the service that hold the mutex of its
  `State` from start to end are one action each. A slot of `Clients` stands for
  `vm` processes, one after the other.
- In `CompOS`, arguments and file contents are left out. It keeps who reaches
  whose `fd_server`, and in what state each process is. The kernel's write-back
  cache is left out: a write of the task reaches `fd_server` or fails.
- In `ZipFuse`, bytes are numbered and names stand for directory entries. The
  kernel reads files within the size that it was told, and goes on in
  directories at offsets that it was given.
- In `MkPayload`, a path is already resolved, and the path stands for the name of
  an APEX as well. The signature is the sequence of its fields, after one element
  for the length. `WORD` and `SIZEOF` stand for the range and the bytes of a
  `uint32_t`, `ALIGN` for the block of cuttlefish's `AlignToPartitionSize`.

## The runs

| Run | Instance | What it shows |
|---|---|---|
| `editor_faults` | 2 threads, 2 chunks of 2 bytes, any remote call may fail | Chunks whose changes were acknowledged verify against the tree; no leaf lies past the size or covers a non-zero byte past it. |
| `authfs` | 2 writers, 1 reader, 2 chunks, no faults | A quiet file has the size and leaf count of the tree; a read that nothing overlaps succeeds and returns what the tree has; the tree changes as `IntegrityFile` says, by the bytes that clients wrote and at their places. |
| `editor_truncation` | 1 thread, writes may fail | Violation, finding 1. |
| `reader` | files of 8 sizes up to 9 chunks in 4 levels, 10 versions, short or failing replies | What a read delivers is of the version pinned at the start; faithful replies make it succeed, for each chunk; the digest of the file is the one that `MerkleLeaves` calculates. |
| `virtmanager` | 2 clients, 2 VMs, 2 CIDs to give, 1 restart of the service, fair | CIDs of one service are unique, wanted VMs are not killed, referenced ones stay listed; VMs without references end and are released; clients that registered in time, or lost the service, return. |
| `virtmanager_wait` | 1 client, fair | Violation, finding 2. |
| `virtmanager_list` | 1 client | Violation, finding 3. |
| `zipfuse` | all archives of up to 3 entries over 5 paths, and one of 4 entries that is browsed with 2 handles and open counts up to 3 | The inode table is the tree of the archive's paths, with the right kinds and modes; open handles are served; reading in pieces gives the whole. |
| `zipfuse_release` | the archive that is browsed | Violation, finding 4. |
| `compos` | 2 runs, 1 crash of any process, 1 sleep before the timeout, fair | Files outlive the task, nothing is left behind, success is the task's, runs that do not overlap keep to their own files, runs return. |
| `file_pools` | 3 descriptors, 7 command lines of `fd_server` and 8 of `authfs`, 4 starts, lengths up to 2 | Files behind verified inodes are never changed; editors know the size of their files, also when `setattr` resizes and then refuses. |
| `mk_payload` | 2 runs over 3 paths and 5 configs, sizes before, at and past a boundary and past the word | The disk of a run that succeeded has aligned partitions that end with the sizes of their files, and a signature that lists them in order. |

### Why these bounds are enough

- Two threads and two chunks let one write of two pieces be interrupted by a
  write or a truncation of either chunk. Buffers cover a part of a chunk, a
  whole chunk, and a part of a second one; offsets leave holes, which an update
  of a later leaf fills in.
- A reader that asks for one or two chunks is overtaken by a write or a resize
  before its first chunk, between the two, and not at all.
- Nine chunks give trees of one to four levels. The sizes are those on either
  side of one, two, four and eight chunks, where the tree gets another level, so
  that its nodes are complete and incomplete; the requests reach every chunk.
  Two sizes have a second version that shares chunks with the first, and replies
  come from versions of all sizes.
- Two VMs let `swap_remove` move the reference of the VM that is not dropped;
  with two CIDs to give, failed starts run the counter out. One restart lets
  clients hold references to VMs of the service before it.
- Two runs let one `fd_server` replace, precede or outlive another. `MaxPolls`
  lets the mount come before the first look, between two looks, between the last
  look and the timeout, and never.
- Three entries let an archive name a directory before, after and without its
  contents, repeat a path, and put an entry below a file.
- The command lines of `file_pools` put one descriptor behind a verified and a
  writable inode, behind two writable ones and behind none, repeat a descriptor,
  name one that is not open, and use one as tree and signature. Four starts let
  either process, or both, be started twice, and `fd_server` be replaced between
  two options of `authfs`.
- The sizes of `mk_payload` leave room for exactly the word in the last block of
  the partition, leave too little, and exceed the word. Two runs let the second
  one fail at any place over the output of the first.
- `MaxOpenCount` stands for the range of a `u32`. At that count the model stops
  opening, which is why the run does not check for deadlock.

Runs without a deadlock check are those in which the system may come to rest:
the CIDs are used up, the reader failed to start, the archive is mounted and not
used, all runs of `pvm_exec` or of `mk_payload` are over, or the starts of
`file_pools` are used up.

### Fairness

`VirtManager!FairSpec` has weak fairness for steps that the scheduler, the
kernel and the Binder driver guarantee: a process that can go on does, calls and
death notices are delivered, a killed crosvm ends, threads of a living service
run. It has none for a guest that ends by itself, for what a user does, or for
the death and the restart of the service.

`CompOS!FairSpec` has weak fairness for the steps of `pvm_exec`, `fd_server`,
`authfs` and the worker. A user need not start a run. A task need not write or
end, so `RunsReturn` promises a return up to the time when the task runs and
from the time when it ended.

## Findings

1. **A truncation does not verify what it reads back** (`editor.rs:238`). The
   comment at `editor.rs:225` says "we need to read the data back first, verify
   it, then override". After a failed write the tail chunk may differ from its
   leaf, and `resize` makes a hash of it that vouches for the bytes left there.
2. **`vm run` may wait without end** (`run.rs:68`). A VM can end, and its
   monitor call the callbacks, before `registerCallback` arrives.
   `registerCallback` adds the callback all the same, and nobody calls it.
3. **VMs without Binder references are listed** (`aidl.rs:227`). The comment at
   `aidl.rs:224` says "Get a list of VMs which still have Binder references to
   them", and the one at `aidl.rs:213` that the weak reference becomes invalid
   with the last of them. The monitor thread holds a reference of its own until
   the child has ended, and the VM is listed until then. The other direction
   holds: `ReferencedVmsListed`.
4. **A `zipfuse` buffer is never released once two opens overlapped**
   (`zipfuse/src/main.rs:235`). `release` computes `open_count - 1` and does not
   store it.

Seen while modelling, and not the subject of a run:

- The lock that `editor.rs:175` says is held "for the whole write" is released
  between the pieces. `QuietSizesAgree` and `ImplementsIntegrityFile` show that
  the tree is right all the same when remote calls succeed.
- `builder.rs:113` asserts `(file_size - 1) / CHUNK_SIZE == n`, which is off by
  one for a file of `n` chunks. It is a `debug_assert`.
- `file_size` may also be ahead of the leaves: each piece of a write announces the
  size of the whole write (`editor.rs:214`). When a later piece fails, it stays
  ahead, and `calculate_fsverity_digest` answers with the digest of no file, a size
  over too few leaves. That leaves and size agree is therefore stated for a file
  that nobody is writing and whose calls succeed (`QuietSizesAgree`), and
  `DigestsAgree` for leaves that are as many as the chunks of the file.
- `setattr` resizes first. When the same request asks for a change that is not
  supported, it answers `ENOSYS` and the file keeps the new size.
- For a file of one chunk, `calculate_root_hash` takes the only leaf for the
  root, while `VerifiedFileReader::new` hashes the stored root page.
  `DigestsAgree` is about files of several chunks.
- `ICompService.aidl` documents that `execute` returns the exit code of the
  program. It returns 0 or an error status.
- `from_zip` reaches a panic in `find` for an entry below the name of a file.
- A write announces its whole size with its first piece. A truncation into a
  later piece, before that is written, reads back fewer bytes than it keeps,
  against the `debug_assert` of `editor.rs:239`. In a release build it hashes
  zeros, and the resize fills in the same zeros.
- An `authfs` that is started again over a running `fd_server` takes a file that
  has content for a new one, which `fusefs.rs:66` describes as "initially empty".
  `EditorsKnowTheirFiles` is about the first mount on an `fd_server`.
- A read of a `RemoteVerifiedNewFile` goes to `fd_server` directly and is not
  compared with the tree. `QuietReadsReturnTree` is about faithful backends.
- A descriptor that `--ro-fds` or `--rw-fds` repeats is closed by its own
  replacement in the map, and the calls on it fail.
- `mk_payload` keeps sizes in a `uint32_t`, takes the size of a symbolic link
  itself (`lstat`) for the filler, and does not notice a failed write of the
  signature. `SizesRecoverable` and `SignatureDescribesDisk` name these cases.

## The theorems

TLAPS proves the following for every value of the constants. Each theorem states
a property that a run checks.

| Module | Theorem | Statement |
|---|---|---|
| `VerifiedFileEditorProofs` | `TypeCorrect` | `Spec => []TypeOK` |
| | `ChunksVerify` | `Spec => []AcknowledgedChunksVerify` |
| | `TreeEndsAtSize` | `Spec => []TreeWithinSize` |
| `AuthFsProofs` | `EditorImplementsFile` | without faults, `Spec` implements `IntegrityFile` |
| | `SizesAgreeWhenQuiet` | without faults, `Spec => []QuietSizesAgree` |
| | `QuietReadsSeeTheTree` | without faults, `FsSpec => []QuietReadsReturnTree` |
| `FsverityProofs` | `ReaderTypeCorrect` | `Spec => []TypeOK` |
| | `ReadsDeliverPinnedVersion` | `Spec => []DeliversPinnedVersion` |
| | `FaithfulReadsSucceed` | `Spec => []FaithfulRepliesSucceed` |
| | `DigestsAlwaysAgree` | `Spec => []DigestsAgree` |
| `FilePoolsProofs` | `TypeCorrect` | `Spec => []TypeOK` |
| | `VerifiedFilesSafe` | `Spec => VerifiedFilesUntouched` |
| | `NewFilesKnown` | `Spec => []EditorsKnowTheirFiles` |
| `VirtManagerProofs` | `TypeCorrect` | `Spec => []TypeOK` |
| | `CidsStayUnique` | `Spec => []CidsUnique` |
| | `NoWantedVmKilled` | `Spec => []KilledOnlyWhenUnwanted` |
| | `ReferencedVmsStayListed` | `Spec => []ReferencedVmsListed` |
| | `PayloadTypeCorrect` | `PayloadSpec => []PayloadTypeOK` |
| | `SizesAtPartitionEnds` | `PayloadSpec => []SizesRecoverable` |
| | `SignatureMatchesDisk` | `MessagesFit /\ PayloadSpec => []SignatureDescribesDisk` |
| `CompOSProofs` | `TypeCorrect` | `Spec => []TypeOK` |
| | `GuardsOutliveTask` | `Spec => []FilesOutliveTask` |
| | `RunsCleanUp` | `Spec => []NothingLeftBehind` |
| | `SuccessIsReal` | `Spec => []SuccessIsTheTasks` |
| | `SequentialRunsApart` | `Spec => []TasksUseOwnFiles` |
| `ZipFuseProofs` | `HandlesAlwaysServed` | `Spec => []OpenHandlesServed` |
| | `PathsAlwaysResolve` | `Spec => []PathsResolve` |
| | `TreeAlways` | `Spec => []InodesFormTree` |
| | `ModesOfLastEntries` | `Spec => []DirectoryModes` |
| | `TypeCorrect` | `Spec => []TypeOK` |
| | `PiecesAlwaysMakeTheWhole` | `Spec => []PiecesMakeTheWhole` |

### Assumptions

The assumptions on the constants are named in the modules that declare them, and
TLC evaluates them in the runs:

- `ChunkSizeAssumption`, `ByteAssumption`, `EditorAssumption` (the editor) and
  `ReadersAssumption` (its readers): chunks are not empty, and chunks, offsets
  and sizes are numbers; the chunks of the model are the first ones of a file;
- `HashSizeAssumption`: a node of the tree is filled by a power of two of hashes,
  and more than one, as 4096 and 32 do. `log128_ceil` counts the bits of the
  number of nodes, and is the height of the tree for no other node;
- `ReaderAssumption`: the versions of a verified file are byte strings, and
  requests are pairs of numbers;
- `ZipAssumption`: an archive is a sequence of entries with a path, a size and
  perhaps a mode, and a read asks for something;
- `PoolsAssumption`: files have lengths within the bound at first;
- the bounds of `VirtManager` and `CompOS` are numbers, and the first CID is not
  past the last;
- `PayloadAssumption` and `ConfigAssumption`: the word and the alignment are not
  zero, and configs are lists of paths or of values that are not strings.

Two hypotheses are part of a theorem's statement:

- `NoFaults`: every remote call of the editor succeeds. After a
  failed call the file may differ from the tree, as in finding 1.
- `MessagesFit`: the length of a signature's message fits in a `uint32_t`.

### Arguments

**The editor** (`VerifiedFileEditorProofs`) has one inductive invariant, `IInv`,
the conjunction of

- `TypeOK`;
- `LockInv`: a thread is in its critical section iff it holds the lock;
- `OpInv`: where each write in progress stands in its buffer, which gives the
  geometry of its piece: inside one chunk, and inside the model's file;
- `IoInv`: during the remote writes of a piece, the chunk is what was hashed but
  for the bytes not yet sent. This is what the two properties lack to be
  inductive: they say nothing of a chunk that is being written;
- `AcknowledgedChunksVerify` and `TreeWithinSize`.

`InitInv` and `NextInv` show that it holds at the start and that each action
keeps it, with one lemma per action. Lemmas about the operators
(`ResizeLeaves`, `UpdateHash`, `PatchedTwice`, `CutFacts`, `ResizedFileFacts`)
and about division (`DivMod`, `RoundUp`, `ResizeGeometry`) carry the arithmetic.

**The refinement** (`AuthFsProofs`) adds `RInv`. It says that no chunk is
suspect and that the hash in hand is that of the tree's own chunk with the piece
put in (`HashFromTree`). The abstract file has the calls of the editor's threads,
with `pos` as what is done of each. `CommitApplies` shows that recording the hash
is the abstract step that puts the next piece of the buffer at its place,
`BeginWrites` and `ReturnReturns` that a write begins and ends with the abstract
call, `ResizeSetsSize` the same for `resize`, and `InnerSteps` that all other
steps leave the abstract file alone. **The sizes** add `SizeInv`: the backing file and the leaves reach the
size of the tree, unless a write that announced so much has pieces to go.

**Reads** rest on both, and on `ReadInv`: a read that nothing
has overlapped so far lies inside the file and has bytes of the tree.

**Induction over data.** The induction theorems of the library take an operator,
which the provers cannot instantiate. The proofs use sets instead: the lemma
`Induction` says that a set with 0 and all successors contains every number. It
follows from the well-foundedness of `<`. `Recursion` derives from it that a
recursive function satisfies its equation, and `PathInduction` goes over the
components of a path. In `ZipFuseProofs` the lemmas assume `SetFacts`, which says
the same and that a finite set can be listed; `SetFactsHold` proves it at the
end, and the theorems do not assume it.

**The Merkle tree** (`FsverityTreeProofs`). Division that rounds up has an adjoint:
it is at most `k` iff the number is at most `k` times the divisor. From this,
rounding up twice is rounding up once (`RoundupTwice`), a level has
`nodes_at_level` pages (`LevelNodes`), and the height that `log128_ceil` counts in
bits is that of the first level with one page (`HeightAdjoint`,
`RootLevelIsHeight`). The running offsets of `fsverity_walk` are where the levels
of the stored tree begin (`LevelOffset`, `StoredPages`), so that each step of a
walk reads the page with the hash of the one before (`WalkStep`, `WayUp`). The
fold of `calculate_root_hash` ends at the hash of the root page (`RootHash`).
`DigestsAlwaysAgree` follows, since the reader's root hash is that of the root page
of the pinned version.

**Verified reads.** `ReaderInv` has `WalkInv` for a walk in progress: the hash in
hand is the one that the pinned tree has there only if the chunk in hand is the
pinned one, and is so if all replies were faithful. A page whose slot does not
hold the hash ends the read. A page that does, and is not the page of the pinned
tree, has a hash that the pinned tree does not have one level up, and the root
hash decides in the end. `DeliveredBytes` cuts the part that was asked for out of
a chunk.

**The pools** (`FilePoolsProofs`): a verified file that is connected is `Readonly`
in the pool of `fd_server` (`VerifiedReadonly`), since its signature was read
from this `fd_server`, whose pool does not change. `FreshFiles` and
`FreshEditors` say that writable files, and the trees of their editors, are
empty until an `authfs` has mounted with an editor for them. They are what
`EditorsKnowTheirFiles` needs while the options of a process are gone through.

**VirtManager**'s `IInv` adds to the properties that the CID counter is past
every CID of the service (`CidsBelowNext`), that a VM that was handed over is
held until a stop names it (`DaemonsHeld`), that a VM with a Binder object is in the
list (`HandlesListed`), and that nothing of a service outlives it
(`ServiceInv`).

**CompOS**'s `IInv` gives, for a run that met no crash, the phases that
`pvm_exec`, its `fd_server`, the worker, its `authfs` and the task go through
together (`RunPhase`). For every run it follows success from the task to
`pvm_exec` (`SuccessPassedOn`).

**The inode table of zipfuse** (`ZipFuseProofs`). `Built(a, t, i, k)` describes the
table `t` when `from_zip` has seen `k` components of entry `i` of the archive `a`:
the table is a `Tree`, the paths that lead somewhere are the ones `Reached` so far,
each inode is reached, and has the kind and the mode that the entries seen so far
give it (`PathOK`). `FoundStep` and `AddStep` are the two cases of a component,
`ComponentStep` and `EntryStep` the rounds of the two loops, and `FromZip` their
end. Walks in a tree are injective (`WalkInjective`), and an added inode leaves
those that exist where they are (`WalkKept`).

**Handles of zipfuse**: `release` drops a buffer at count one and never stores a lower
count, so the proof needs that a buffer whose count is one has no second handle
(`LastCountIsLast`). `PiecesInv` says for every open handle how many items it was
given, and that they are the first ones; the next piece begins there, by the
length of what was read or by the offset that `DirIter` put with the last entry.

**mk_payload**: `IInv` says that the fillers that a run is past are those of the
files as they are (`Filled`), while no file was replaced. `SInv` does the same
for the sizes that `MakeSignature` collects, and has the signature be the
encoding of them. Lemmas on the encoding show that what the guest reads is what
was written.

### Only model-checked

- Liveness, which is out of the prover's reach: `UnreferencedVmsEnd`,
  `RegisteredWaitersReturn`, `RunsReturn`.
- The four properties that the code does not have (see the findings), which TLC
  refutes.

All other properties of the runs have a theorem.

## Not modelled

- `fsverity/sys.rs` and `fsverity.rs`: constants and re-exports.
- The build rules, init scripts and file contexts of the microdroid image, the
  APEX packaging and the documents: there is no program to check.
- The programs of the vsock tests.
- The syntax of command lines, options and JSON: the models start from the
  fields.
- Liveness of `write_at`. `write_all_at` goes on while the remote writes zero
  bytes, and `std::sync::RwLock` promises no order among waiting threads, so the
  code does not justify the fairness that such a property would need.
- Reads of `zipfuse` past the end of a buffer: the kernel does not make them.
- A `pvm_exec` that is killed between two runs: nothing in the code looks for
  the `fd_server` that it leaves, and `TasksUseOwnFiles` is about runs without
  crashes.

## Plan

- Let the versions of a verified file change between the requests of
  `FilePools`, which composes the two models of a read.
