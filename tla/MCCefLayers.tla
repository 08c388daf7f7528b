---------------------------- MODULE MCCefLayers ----------------------------
(* Two about boxes: one may be closing when shutdown begins while another  *)
(* is opened.                                                              *)
EXTENDS CefLayers
CONSTANTS about1, about2
MCAbouts == {about1, about2}
=============================================================================
