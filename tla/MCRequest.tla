----------------------------- MODULE MCRequest -----------------------------
(* Small instances of Request for TLC. *)
EXTENDS Request

MCRoutes ==
    {<<"recovery", "handler">>, <<"handler", "recovery", "handler">>, <<"custom", "handler", "handler">>,
     <<"handler", "static">>}
MCErrors == {<<>>, <<"recovery", "nil", "handler">>}
MCNoRoute == <<"handler">>
MCChains == MCRoutes \cup MCErrors \cup {<<>>}

Final == {204, 401}
=============================================================================
