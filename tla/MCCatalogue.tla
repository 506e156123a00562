---------------------------- MODULE MCCatalogue ----------------------------
EXTENDS Catalogue

Piece(cat, position) ==
    [cat |-> cat, active |-> TRUE, stock |-> 1, removed |-> FALSE, bundle |-> 0,
     position |-> position, image |-> None]

MCProducts == (1 :> Piece("top", 0)) @@ (2 :> Piece("bottom", 1))

\* A change of category, of the switch of the shop and of the address typed by hand.
MCPatches == {[cat |-> "bottom"], [cat |-> "other"], [active |-> FALSE], [active |-> TRUE],
              [stock |-> 0], [image |-> Typed]}

MCPageSize == [hero |-> 1, tops |-> 2]

UuidSymmetry == Permutations(Uuids) \cup Permutations(Workers)
=============================================================================
