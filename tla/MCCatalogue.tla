----------------------------- MODULE MCCatalogue -----------------------------
(* Three lists of the upstream: a model that is renamed and one that is     *)
(* disabled, two models of one name, and three of which one has no display  *)
(* name and one no letter in it.                                            *)
EXTENDS Catalogue

Model(key, display, enable) == [key |-> key, display |-> display, enable |-> enable]

K1 == <<"k", "1">>
K2 == <<"k", "2">>

MCLists ==
  {<<Model(K1, <<"A", " ", "b">>, TRUE), Model(K2, <<"b">>, FALSE)>>,
   <<Model(K1, <<" ", "A", "_", "-", "B", " ">>, TRUE), Model(K2, <<"a", "-", "b">>, TRUE)>>,
   <<Model(K2, <<>>, TRUE), Model(K1, <<" ", "-">>, TRUE),
     Model(<<>>, <<"A">>, TRUE)>>}

MCStatic == <<"a">> :> K1 @@ <<"k", "2">> :> K2
==============================================================================
