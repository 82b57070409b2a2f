--------------------------- MODULE MCStdinCompile ---------------------------
(***************************************************************************)
(* Three processes: the payload of one is the beginning of another's, and  *)
(* does not compile by itself.                                             *)
(***************************************************************************)
EXTENDS StdinCompile

CONSTANTS a, b, c, old

MCPart == {"head", "tail", "single"}

MCPayload == [p \in Process |-> CASE p = a -> <<"head", "tail">>
                                 [] p = b -> <<"single">>
                                 [] p = c -> <<"head">>]

MCValid == {<<"head", "tail">>, <<"single">>}
=============================================================================
