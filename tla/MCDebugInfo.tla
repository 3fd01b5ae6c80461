------------------------------ MODULE MCDebugInfo ------------------------------
(***************************************************************************)
(* Blobs of five instructions: up to three exports in any order, at any of *)
(* three addresses, with each of several line programs.                    *)
(***************************************************************************)
EXTENDS DebugInfo

MCSymbols == {"call", "deploy", "main", "helper"}

Exports ==
    {s \in UNION {[1..n -> [name : MCSymbols, pc : {0, 2, 3}]] : n \in 0..3} :
        \A j, k \in DOMAIN s : s[j].name = s[k].name => j = k}

Rust == Frame("run", "a.rs", 3, 1)
Inlined == Frame("add", "b.rs", 9, 0)
Sol == Frame("mint", "c.sol", 5, 8)
Nameless == Frame(NoName, "a.rs", 4, 0)
Fileless == Frame("run", NoPath, 4, 2)
Lineless == Frame("run", "a.rs", 0, 0)

LinePrograms ==
    {<<>>,
     <<LineProgram(0, 5, <<Region(0, 5, <<Rust, Inlined>>)>>)>>,
     <<LineProgram(0, 5, <<Region(0, 2, <<Rust>>), Region(2, 5, <<Rust, Sol>>)>>)>>,
     <<LineProgram(0, 2, <<Region(0, 2, <<Sol>>)>>),
       LineProgram(2, 5, <<Region(2, 3, <<>>), Region(3, 4, <<Nameless>>)>>)>>,
     <<LineProgram(1, 4, <<Region(1, 3, <<Sol, Fileless>>), Region(2, 4, <<Lineless>>)>>)>>}

MCBlobs ==
    [exports : Exports, offsets : {{0, 1, 2, 3, 4}}, programs : LinePrograms]

MCSolPaths == {"c.sol"}
=============================================================================
