------------------------------ MODULE MCCrate ------------------------------
(***************************************************************************)
(* Small alphabets for Crate: see the cfg files.                           *)
(***************************************************************************)
EXTENDS Crate

MCPaths == {"in", "out", "main.cwl", "key.pem", "tmp", "store", "/abs"}
MCBaseName == [p \in MCPaths |-> p]
MCDefinedSteps == [p \in {"main.cwl"} |-> {"s"}]

MCPolicy == [inputs |-> FALSE, outputs |-> TRUE, source |-> TRUE, copies |-> TRUE]

Declaring(kind, path, role, copy) == [kind |-> kind, path |-> path, role |-> role, copy |-> copy]
Calling(tool, inputs, outputs) == [tool |-> tool, inputs |-> inputs, outputs |-> outputs]
Editing(path, op) == [path |-> path, op |-> op]

Source == Declaring("input", "main.cwl", "data", "reference")
Secret == Declaring("output", "key.pem", "data", "copy")
Data == Declaring("input", "in", "data", "copy")
Result == Declaring("output", "out", "data", "reference")
MCPrologues == {<<Source, Result, Secret>>, <<Data, Secret>>}
MCUndeclared == {<<>>}
MCDeclarations == {Source, Result}
MCCommandLines == {Calling("make", {"in", "/abs"}, {"out"}), Calling("rm", {"out"}, {})}
MCRunsDefinition == {Calling("cwltool", {"main.cwl"}, {"out"})}
MCEdits == {Editing("out", "deleted"), Editing("tmp", "created"), Editing("store", "created")}
MCNames == [phases |-> {"ph"}, steps |-> {"s"}, tools |-> {"ls"}, tasks |-> {"t"},
            results |-> {FALSE}, abort |-> TRUE]

MCTools == {"rm"}
=============================================================================
