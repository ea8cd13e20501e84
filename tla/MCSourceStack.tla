--------------------------- MODULE MCSourceStack ---------------------------
(***************************************************************************)
(* Files of up to five bytes under a stack of windows, with integers of a  *)
(* few bits so that the ends of their ranges are in reach.                 *)
(***************************************************************************)
EXTENDS SourceStack

SmallSteps == {-8, -1, 1, 7}
=============================================================================
