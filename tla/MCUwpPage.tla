----------------------------- MODULE MCUwpPage -----------------------------
(***************************************************************************)
(* UwpPage with two packages; PowerShell prints more than a pipe takes, in   *)
(* UTF-8, a program of the other pages more errors or UTF-16.               *)
(***************************************************************************)
EXTENDS UwpPage
MCThreads == {Ui, Worker}
MCPrints == [t \in MCThreads |->
              IF t = Worker THEN {[out |-> 2, err |-> 0, zeros |-> FALSE]}
              ELSE {[out |-> 0, err |-> 2, zeros |-> FALSE],
                    [out |-> 1, err |-> 0, zeros |-> TRUE]}]
=============================================================================
