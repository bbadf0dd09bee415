---------------------------- MODULE MCViewerIngest ----------------------------
(* Instances of ViewerIngest for TLC. *)
EXTENDS ViewerIngest

\* A frame that is not APRS, a report with all there is, and a bare message.
ThreeKinds == {{"path"}, Histories \cup {"aprs", "path"}, {"aprs", "message"}}
=============================================================================
