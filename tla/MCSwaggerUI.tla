----------------------------- MODULE MCSwaggerUI -----------------------------
(***************************************************************************)
(* SwaggerUI on a small instance: two places with a copy of the docs, the  *)
(* others empty.                                                           *)
(***************************************************************************)
EXTENDS SwaggerUI

At(i, filesI, j, filesJ) ==
  [k \in Roots |-> CASE k = i -> filesI [] k = j -> filesJ [] OTHER -> {}]

MCDeployments ==
     [env : {"unset", "1"}, holds : {At(2, Files, 1, {})}]             \* the image
  \cup [env : {"false"}, holds : {At(Default, Files, 3, Files)}]       \* started in static
  \cup [env : {"true"},
        holds : {At(2, Files, 5, Files \ {"openapi.yaml"}),        \* a later copy has a gap
                 At(2, Files \ {"swagger-ui-bundle.js"}, 5, Files), \* the first one has
                 At(1, {}, 2, {})}]                                 \* no copy at all
=============================================================================
