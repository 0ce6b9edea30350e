----------------------------- MODULE MCZipFuse -----------------------------
EXTENDS ZipFuse

\* Archives of up to three entries over two names and "..".
MCPaths == {<<"a">>, <<"a", "b">>, <<"a", "b", "a">>, <<"b">>, <<"b", DOTDOT>>}
MCEntries ==
    {[path |-> p, is_file |-> f, size |-> 1, mode |-> m] :
        p \in MCPaths, f \in BOOLEAN, m \in {7, NO_MODE}}
MCSmallArchives == UNION {[1 .. n -> MCEntries] : n \in 0 .. 3}

\* One archive with nested directories and files of several sizes.
MCEntry(path, f, size) == [path |-> path, is_file |-> f, size |-> size, mode |-> 7]
MCOneArchive == {<<MCEntry(<<"a", "b">>, TRUE, 3), MCEntry(<<"a">>, FALSE, 0),
                   MCEntry(<<"a", "c">>, TRUE, 1), MCEntry(<<"d">>, TRUE, 0)>>}

MCArchives == MCSmallArchives \cup MCOneArchive
=============================================================================
