------------------------ MODULE MC_ContainerListing --------------------------
(* Basenames "a", "b" and "b-" as byte strings, and a container whose     *)
(* nodes reach depth three, so that a directory inside a directory is     *)
(* listed next to a sibling whose name extends it ("a/b" and "a/b-").     *)
EXTENDS ContainerListing

A == <<97>>
B == <<98>>
BDash == <<98, 45>>

MCNodes == {<<A>>, <<B>>, <<BDash>>, <<A, A>>, <<A, B>>, <<A, BDash>>,
            <<A, B, A>>, <<B, A>>}

\* "", "a/b" and "a/b/a"; "" and "a/" as prefixes.
MCMarkers == {<<>>, A \o <<Slash>> \o B, A \o <<Slash>> \o B \o <<Slash>> \o A}
MCPrefixes == {<<>>, A \o <<Slash>>}

=============================================================================
