---------------------------- MODULE MCViewerFeeds ----------------------------
(* Instances of ViewerFeeds for TLC. *)
EXTENDS ViewerFeeds

\* Reports with nothing but a station: five statements each, between which they
\* can be cut.
PlainKinds == {{"aprs"}}

\* Both feeds, or the TNC alone.
TwoConfigs == {[f \in Feeds |-> TRUE], [f \in Feeds |-> f # "aprsis"]}
=============================================================================
