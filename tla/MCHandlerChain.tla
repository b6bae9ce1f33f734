--------------------------- MODULE MCHandlerChain ---------------------------
(* Small instances of HandlerChain for TLC. *)
EXTENDS HandlerChain

SeqsUpTo(S, n) == UNION {[1..k -> S] : k \in 0..n}

(* All chains of at most n handlers with the file handler last. *)
ChainsUpTo(n) ==
    {c \in SeqsUpTo(Kinds, n) : \A i \in 1..Len(c) : c[i] = "static" => i = Len(c)}

MCChains3 == ChainsUpTo(3)
MCChains1 ==
    {<<"handler", "handler">>, <<"recovery", "handler">>, <<"custom", "handler">>,
     <<"custom", "handler", "handler">>, <<"custom", "nil", "handler">>}
MCNoRoute == <<"handler">>

=============================================================================
