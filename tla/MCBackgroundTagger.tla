------------------------- MODULE MCBackgroundTagger -------------------------
\* Two models, the second stored from the back and shown only later; three views.
EXTENDS BackgroundTagger

MCModels == 1 .. 2
MCBackFacing == {2}
MCUnshown == {2}
MCSideViews == {"front", "back"}
MCRetagViews == {"back"}
=============================================================================
