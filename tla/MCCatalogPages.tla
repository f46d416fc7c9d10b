--------------------------- MODULE MCCatalogPages ---------------------------
(* Two products, one of them in the built-in list.                         *)
EXTENDS CatalogPages

CONSTANTS p1, p2

MCProducts == {p1, p2}
MCStatic == {p1}
=============================================================================
