-------------------------------- MODULE MCTabs --------------------------------
(* Five goods of two kinds, two of which sell equally well; a list of them   *)
(* all, one that is too short for the home tab, and none.                    *)
EXTENDS Tabs

CONSTANTS a, b, c, d, e, food, toys

MCSales == [g \in {a, b, c, d, e} |-> CASE g = a -> 1 [] g = b -> 3 [] g = c -> 3 [] g = d -> 2 [] g = e -> 1]
MCMainKind == [g \in {a, b, c, d, e} |-> IF g \in {b, d} THEN toys ELSE food]
MCKinds == <<food, toys>>
MCCatalogue == {<<a, b, c, d, e>>, <<c, d>>, <<>>}
MCBarren == {2}
==============================================================================
