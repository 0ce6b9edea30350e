----------------------------- MODULE InodeTable -----------------------------
(***************************************************************************)
(* The inode table zipfuse builds from a zip archive: zipfuse/src/inode.rs *)
(* as operators.  Inode n is table[n]: the unused entry INVALID = 0 of the *)
(* code's vector is left out, so that ROOT is the first element.           *)
(*                                                                         *)
(* An archive is the sequence of its entries, each with the components of  *)
(* its name, its kind, its size and its unix mode (NO_MODE if absent).     *)
(* Entry i of the sequence has zip index i.                                *)
(***************************************************************************)
EXTENDS Integers, Sequences, FiniteSets, Functions

CONSTANTS DEFAULT_DIR_MODE, NO_MODE

ROOT == 1
DOTDOT == ".."

\* Option::unwrap_or on the mode of an entry.
unwrap_or(mode, default) == IF mode = NO_MODE THEN default ELSE mode

new_dir(mode) == [kind |-> "Directory", mode |-> mode, size |-> 0, entries |-> <<>>]
new_file(i, file) == [kind |-> "File", mode |-> unwrap_or(file.mode, 0), size |-> file.size,
                      zip_index |-> i]

is_dir(inode) == inode.kind = "Directory"

\* Directory entries: a function from names to inodes, empty at first.
Names(directory) == DOMAIN directory.entries
Link(directory, name, inode) ==
    [directory EXCEPT !.entries =
        [n \in Names(directory) \cup {name} |->
            IF n = name THEN inode ELSE directory.entries[n]]]

\* Mutant: links the new inode to the root.
add_to_root(table, parent, name, data) ==
    Append([table EXCEPT ![ROOT] = Link(@, name, Len(table) + 1)], data)

\* Mutant: links the new inode to its parent and to the root.
add_twice(table, parent, name, data) ==
    Append([table EXCEPT ![parent] = Link(@, name, Len(table) + 1),
                         ![ROOT] = Link(@, name, Len(table) + 1)], data)

\* InodeTable::add: the new inode goes to the end, and into its parent.
add(table, parent, name, data) ==
    Append([table EXCEPT ![parent] = Link(@, name, Len(table) + 1)], data)

-----------------------------------------------------------------------------
\* from_zip.  The accumulator has the table, the inode reached so far, and
\* whether the construction goes on ("ok"), returned an error or panicked.

\* Whether component k of an entry's name stands for a regular file.
is_file(file, k) == file.is_file /\ k = Len(file.path)

\* The inode for a component with none yet.
NewInode(i, file, k) ==
    IF is_file(file, k) THEN new_file(i, file)
    ELSE new_dir(IF k = Len(file.path) THEN unwrap_or(file.mode, DEFAULT_DIR_MODE)
                 ELSE DEFAULT_DIR_MODE)

\* Mutant: an existing directory keeps its mode.
UpdateModeNever(table, inode, file, k) == table

\* A leaf that is a directory sets the mode of the inode that it found.
UpdateMode(table, inode, file, k) ==
    IF k = Len(file.path) /\ ~is_file(file, k)
    THEN [table EXCEPT ![inode].mode = unwrap_or(file.mode, 0)] ELSE table

\* One round of the inner loop, over the components of a name.
AddComponent(acc, i, file, k) ==
    LET name == file.path[k]
        parent == acc.table[acc.parent]
    IN  CASE acc.status # "ok" -> acc
          [] acc.status = "ok" /\ name = DOTDOT -> [acc EXCEPT !.status = "error"]
          \* find unwraps the directory of the parent
          [] acc.status = "ok" /\ name # DOTDOT /\ ~is_dir(parent) ->
               [acc EXCEPT !.status = "panic"]
          [] acc.status = "ok" /\ name # DOTDOT /\ is_dir(parent) ->
               IF name \in Names(parent)
               THEN LET found == parent.entries[name]
                    IN  [acc EXCEPT !.table = UpdateMode(@, found, file, k), !.parent = found]
               ELSE [acc EXCEPT !.table = add(@, acc.parent, name, NewInode(i, file, k)),
                                !.parent = Len(acc.table) + 1]

\* One round of the outer loop, over the entries of the archive.
AddEntry(acc, i, file) ==
    LET after[k \in 0 .. Len(file.path)] ==
            IF k = 0 THEN [acc EXCEPT !.parent = ROOT]
            ELSE AddComponent(after[k - 1], i, file, k)
    IN  after[Len(file.path)]

from_zip(archive) ==
    LET after[i \in 0 .. Len(archive)] ==
            IF i = 0 THEN [table |-> <<new_dir(0)>>, parent |-> ROOT, status |-> "ok"]
            ELSE AddEntry(after[i - 1], i, archive[i])
    IN  after[Len(archive)]

-----------------------------------------------------------------------------
\* What a table should be, said of the archive alone.

\* The paths an archive names: its entries and the directories above them.
PathsOf(archive) == UNION {{SubSeq(archive[i].path, 1, k) : k \in 1 .. Len(archive[i].path)}
                              : i \in DOMAIN archive}

\* The entry of inode n with that name; 0 when there is none.
Entry(table, n, name) ==
    IF n # 0 /\ is_dir(table[n]) /\ name \in Names(table[n]) THEN table[n].entries[name] ELSE 0

\* The inode at the end of a path; 0 when there is none.
Walk(table, path) ==
    LET at[k \in 0 .. Len(path)] == IF k = 0 THEN ROOT ELSE Entry(table, at[k - 1], path[k])
    IN  at[Len(path)]

\* All directory entries: the directory, the name and the inode.
LinksOf(table) == UNION {{<<d, n, table[d].entries[n]>> : n \in Names(table[d])}
                            : d \in {e \in DOMAIN table : is_dir(table[e])}}

Begins(path, prefix) == Len(prefix) <= Len(path) /\ SubSeq(path, 1, Len(prefix)) = prefix

\* The entries of an archive whose name begins with path, or is path.
Under(archive, path) == {i \in DOMAIN archive : Begins(archive[i].path, path)}
Naming(archive, path) == {i \in DOMAIN archive : archive[i].path = path}
FirstOf(S) == CHOOSE i \in S : \A j \in S : i <= j
LastOf(S) == CHOOSE i \in S : \A j \in S : j <= i
=============================================================================
