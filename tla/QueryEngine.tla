---------------------------- MODULE QueryEngine -----------------------------
(***************************************************************************)
(* The programs around the query engine, one per behaviour: a session that *)
(* asks for one of the queries of OrdersQueries, the kernel of Kernels     *)
(* (which a query may call) and the comparisons of Layouts, or the         *)
(* supervision of the distributed engine, BallistaApp.  The programs share *)
(* no state.                                                               *)
(***************************************************************************)
EXTENDS OrdersQueries, Kernels, Layouts, BallistaApp

engineVars == <<vars, kernelVars, bench, appVars>>

EngineInit ==
    \/ Init /\ KernelIdle /\ LayoutIdle /\ AppIdle
    \/ SessionIdle /\ KernelInit /\ LayoutIdle /\ AppIdle
    \/ SessionIdle /\ KernelIdle /\ LayoutInit /\ AppIdle
    \/ SessionIdle /\ KernelIdle /\ LayoutIdle /\ AppInit

EngineNext ==
    \/ Next /\ UNCHANGED <<kernelVars, bench, appVars>>
    \/ KernelNext /\ UNCHANGED <<vars, bench, appVars>>
    \/ LayoutNext /\ UNCHANGED <<vars, kernelVars, appVars>>
    \/ AppNext /\ UNCHANGED <<vars, kernelVars, bench>>

EngineSpec == EngineInit /\ [][EngineNext]_engineVars /\ AppFairness

(* The same values give the same result whichever instructions, encoding,  *)
(* file, layout or order of reading they went through; a kernel refuses    *)
(* exactly what is out of its scope, and no comparison ever fails.         *)
EveryPathAgrees == KernelsAgree /\ LayoutsAgree
=============================================================================
