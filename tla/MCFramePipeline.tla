--------------------------- MODULE MCFramePipeline ---------------------------
(* Instances of FramePipeline for TLC.                                     *)
EXTENDS FramePipeline, TLC

(* The application only pumps and redraws, resizes the window, reloads its *)
(* fonts and composes text: everything it shows arrives by itself.         *)
PushOps == {"font", "resize", "preedit"}

(* The operations that reach into the caches between two redraws.          *)
CacheOps == {"command", "refresh", "switch"}

(* Values of a row are interchangeable.                                    *)
ValueSymmetry == Permutations(Values)
=============================================================================
