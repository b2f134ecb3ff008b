------------------------------ MODULE MCScopes ------------------------------
(***************************************************************************)
(* Instances of Scopes for TLC.                                            *)
(***************************************************************************)
EXTENDS Scopes

CONSTANTS w,        \* the world
          x, y, z   \* a scope in the world, one in x, and one in y

ThreeIds == {x, y, z}

XY  == {<<w, x>>, <<x, y>>}
\* x is opened here or elsewhere, y in x elsewhere, z in y here.
XZ  == {<<w, x>>, <<y, z>>}

=============================================================================
