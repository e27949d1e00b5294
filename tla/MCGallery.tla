----------------------------- MODULE MCGallery ------------------------------
(* An instance of Gallery for TLC: a batch of three photos and three       *)
(* single uploads, on pages of two.                                        *)
EXTENDS Gallery

CONSTANTS a, b, c, d, e, f

SixPhotos == {a, b, c, d, e, f}
FourUploads == {{a, b, c}, {d}, {e}, {f}}
=============================================================================
