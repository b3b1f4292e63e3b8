------------------------------ MODULE MCGallery ------------------------------
(* An instance of Gallery: images are interchangeable, so the traversal    *)
(* may begin with i1 as the newest of three and i3 as the oldest.          *)
EXTENDS Gallery

CONSTANTS i1, i2, i3
MCEarly == <<i1, i2, i3>>
=============================================================================
