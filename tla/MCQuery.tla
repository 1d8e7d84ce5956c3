------------------------------- MODULE MCQuery -------------------------------
(* The instances of Query that TLC checks.                                 *)
EXTENDS Query

CONSTANTS run, stop

TwoTags == {run, stop}
\* Nothing, or an array of two.
SomePaths == {{Missing}, {1, 2}}
\* Two activities of the same time, and two sessions.
Times == <<1, 2, 1, 2, 2, 3>>
Homes == (4 :> 1) @@ (5 :> 2) @@ (6 :> 1)

Asked(from, limits) ==
  [from : {from}, order : {"asc", "desc"}, after : {None}, limit : limits,
   tag : {<<>>, [eq |-> run]}, path : {<<>>, [exists |-> TRUE]}]

SomeQueries == Asked("sessions", {1, 2}) \cup Asked("activities", {2, Infinity})
=============================================================================
