----------------------------- MODULE MCPipeline -----------------------------
(* Instances of Pipeline for TLC: the lines a user may type. *)
EXTENDS Pipeline

One   == <<"source">>
Two   == <<"source", "filter">>
First == <<"source", "head">>
\* Lines whose first command reads the terminal.
Cat   == <<"filter">>
Cats  == <<"filter", "filter">>
Three == <<"source", "filter", "filter">>

AnyLine  == {<<>>, One, Two, First, Cat, Cats, Three}
=============================================================================
