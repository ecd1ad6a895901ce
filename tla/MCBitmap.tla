------------------------------ MODULE MCBitmap ------------------------------
(* Bitmap on small instances.                                              *)
EXTENDS BitmapStrings

(* No operation tells two handles apart.                                   *)
HandleSymmetry == Permutations(Handle)
=============================================================================
