------------------------------- MODULE MCReel -------------------------------
EXTENDS Reel

CONSTANTS a, b, c

ThreeClips == {a, b, c}
Firsts == (a :> 1) @@ (b :> 11) @@ (c :> 4)
Lasts == (a :> 2) @@ (b :> 13) @@ (c :> 4)
TwoFiles == <<a, b>>
=============================================================================
