------------------------------- MODULE MCArgs -------------------------------
(***************************************************************************)
(* ArgChecks for the arguments and configurations CMock can meet.          *)
(***************************************************************************)
EXTENDS ArgChecks

AllSetups ==
    {s \in [kind : {"typed", "scalar", "unknown", "void", "string", "fixed"},
            order : {"none", "before", "after"}, arrays : BOOLEAN,
            handling : {"compare_ptr", "compare_data", "smart"}, zero : BOOLEAN] :
        /\ s.arrays => s.handling # "compare_ptr"
        /\ ~s.arrays => s.order = "none" /\ ~s.zero}
=============================================================================
