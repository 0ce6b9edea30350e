---------------------------- MODULE MCFilePools -----------------------------
(* A small instance of FilePools: three descriptors, of which the third is the
   alternative tree and signature of others, and one that nobody opened. *)
EXTENDS FilePools

MCFds == {3, 4, 5}
MCInitLens == {[fd \in MCFds |-> IF fd = 5 THEN 1 ELSE IF fd \in empty THEN 0 ELSE 1] :
                  empty \in {{4}, {3, 4}}}

Args(ro, rw) == [ro_fds |-> ro, rw_fds |-> rw]
MCServerArgs ==
    {Args(<<<<3, 5, 5>>>>, <<4>>), Args(<<<<3>>>>, <<4>>), Args(<<>>, <<3, 4>>),
     Args(<<<<3, 5, 5>>>>, <<3, 4>>), Args(<<<<3, 5>>, <<3>>>>, <<4>>),
     Args(<<<<3, 4, 5, 5>>>>, <<>>), Args(<<<<9>>>>, <<>>)}

MCLocalLen == [path \in {"a", "b"} |-> 1]

Remote(kind, ino, id, size) == [kind |-> kind, ino |-> ino, id |-> id, file_size |-> size]
Ro(ino, id) == Remote("remote_ro_file", ino, id, 1)
Unverified(ino, id) == Remote("remote_ro_file_unverified", ino, id, 1)
New(ino, id) == Remote("remote_new_rw_file", ino, id, 0)
Local(kind, ino, id) == [kind |-> kind, ino |-> ino, id |-> id]

MCFsArgs ==
    {<<Ro(11, 3), New(12, 3)>>, <<New(12, 4), Ro(11, 3)>>, <<New(11, 4), New(12, 4)>>,
     <<New(11, 3), Unverified(12, 4)>>, <<New(12, 4), Unverified(12, 3)>>,
     <<Local("local_ro_file", 11, "a"), New(12, 9)>>, <<New(11, 4), Local("local_ro_file", 12, "b")>>,
     <<Local("local_ro_file_unverified", 12, "b")>>}
=============================================================================
