------------------------------ MODULE MCDriver ------------------------------
(***************************************************************************)
(* Command lines of up to MaxArguments arguments, and longer ones: up to   *)
(* MaxMore arguments after the beginnings below.                           *)
(***************************************************************************)
EXTENDS Driver

CONSTANTS MaxArguments, MaxMore

MCWord     == {Empty, "x", "/y", "ipl"}
MCStandard == {"ipl"}
MCAbsolute == {"/y"}
MCSample   == {"sample1", "sample2"}

UpTo(S, n) == UNION {[1 .. k -> S] : k \in 0 .. n}

Beginnings ==
  {<<"compile">>, <<"compile", "x">>, <<"compile", "x", "/y", "--grammar">>,
   <<"x">>, <<"x", "/y", "ipl">>,
   <<"compile", "x", "--target", "ipl", "--output">>, <<"--grammar", "x">>,
   <<"run", "--standard", "ipl">>, <<"--demo", "--grammar", "x">>,
   <<"--stdin", "--translation">>}

MCArguments ==
  UpTo(Argument, MaxArguments)
    \cup {start \o more : start \in Beginnings, more \in UpTo(Argument, MaxMore)}

MCManifests ==
  UpTo({<<"source", "x">>, <<"source", "/y">>, <<"source", Empty>>,
        <<"grammar", "x">>, <<"translation", "/y">>}, 2)
=============================================================================
