--------------------------- MODULE MCBuildArtifact ---------------------------
(* Two versions of jonchki; a Linux with a full version, one without and   *)
(* one nothing is known of, two kinds of Windows, and a system that is     *)
(* neither.                                                                *)
EXTENDS BuildArtifact

Linux(longBit, machine, release) ==
    [system |-> "Linux", longBit |-> longBit, machine |-> machine,
     distribution |-> "ubuntu", release |-> release, lua |-> TRUE]

Windows(arch, w6432, lua) ==
    [system |-> "Windows", arch |-> arch, w6432 |-> w6432, lua |-> lua]

MCHosts ==
    {Linux(64, "x86_64", "18.04"), Linux(0, "i686", Nothing), Linux(0, Nothing, "18.04"),
     Windows("x86", "amd64", TRUE), Windows("arm64", Nothing, FALSE), [system |-> "Darwin"]}

MCReleased == {<<"ubuntu", "x86_64">>, <<"windows", "x86_64">>}
MCArgvs == {<<>>, <<"windows", "x86">>, <<"ubuntu", "x86">>}
MCLayouts == {<<"tool", "lib">>, <<"lib", "tool">>, <<"tool", "outside">>}

Tree(walk, dirty, readable) == [walk |-> walk, dirty |-> dirty, readable |-> readable]
MCTrees == {Tree(<<Nothing, "v1.2">>, TRUE, TRUE), Tree(<<"v1.2", Nothing>>, FALSE, TRUE),
            Tree(<<Nothing, "beta">>, TRUE, TRUE), Tree(<<>>, TRUE, FALSE)}
=============================================================================
