---------------------------- MODULE MCQrScanner ----------------------------
(***************************************************************************)
(* The camera of the scan page by itself, with the fairness of a browser   *)
(* that commits renders, delivers frames and answers detections.           *)
(***************************************************************************)
EXTENDS QrScanner
=============================================================================
