-------------------------- MODULE MCImagePipeline --------------------------
(* Two release images; the second commit comes after the release commit     *)
(* and carries the same version in its manifest.  In a Caddy build list "a" *)
(* may be overridden, and may ask for "b", and "b" for "c".                  *)
EXTENDS ImagePipeline

MCReleaseImages == <<"api", "bff">>

NoLists == [p \in Modules |-> 0]

ReleaseTrees ==
    {[pipeline |-> "release", inputs |-> i, ours |-> NoLists, upstream |-> NoLists,
      overrides |-> NoLists, edges |-> {}] : i \in {"ok", "pins"}}

Lists(A, B, C) == {[p \in Modules |-> CASE p = "a" -> v[1] [] p = "b" -> v[2] [] OTHER -> v[3]] : v \in A \X B \X C}

Edges == {<<<<"a", 2>>, <<"b", 2>>>>, <<<<"b", 2>>, <<"c", 1>>>>, <<<<"b", 1>>, <<"c", 1>>>>}

CaddyTrees ==
    {[pipeline |-> "caddy", inputs |-> "ok", ours |-> o, upstream |-> u, overrides |-> v, edges |-> e] :
        o \in Lists({2}, {1, 2}, {0, 1}), u \in Lists({0, 2}, {1}, {0}),
        v \in Lists({0, 1, 2}, {0}, {0}), e \in SUBSET Edges}
    \cup
    {[pipeline |-> "caddy", inputs |-> i, ours |-> NoLists, upstream |-> NoLists,
      overrides |-> NoLists, edges |-> {}] : i \in {"pins", "dockerfile", "gomod", "main.go", "directory",
                                                  "go above builder", "go below Caddy"}}

MCTrees == ReleaseTrees \cup CaddyTrees
=============================================================================
