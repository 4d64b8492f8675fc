------------------------ MODULE MCDirectoryPipeline ------------------------
(* A small instance of DirectoryPipeline for TLC. *)
EXTENDS DirectoryPipeline

\* A Unity player between its payload and its runtime, a pack before
\* a program to run, two programs, and a file that is neither.
MCDirectories ==
    {<<"unity", "managed", "mono">>, <<"data">>, <<"unity", "unity">>, <<"pck", "elf">>}

MCOptions ==
    {[extract |-> FALSE, run |-> FALSE, run_all |-> FALSE],
     [extract |-> FALSE, run |-> TRUE, run_all |-> FALSE],
     [extract |-> TRUE, run |-> TRUE, run_all |-> TRUE]}

MCSizeOf == [self |-> 1, code |-> 2, lib |-> 1]
=============================================================================
