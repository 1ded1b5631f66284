---------------------------- MODULE MCImageContext ----------------------------
(* A small instance of ImageContext: a wide image and one of a single pixel. *)
EXTENDS ImageContext, TLC

CONSTANTS wide, pixel, c1, c2
MCCtxs == {c1, c2}
MCEditors == {c1}
MCFiles == {wide, pixel}
MCSizeOf == (wide :> <<4, 2>>) @@ (pixel :> <<1, 1>>)
MCAspects == {<<1, 1>>, <<4, 1>>}
MCLengths == {0, 2}
MCPercents == {50}

Symmetry == Permutations(Imgs)
================================================================================
