--------------------------- MODULE MCBandRecorder ---------------------------
(* Values a configuration file cannot write, and a bound.                  *)
EXTENDS BandRecorder

(* radiod's slides, both ways.                                             *)
MCSlides == {-1, 1}

(* Bound: what follows a reset that met the ingest thread is explored      *)
(* without a second event.                                                 *)
MCTornAlone == torn => events = 1
=============================================================================
