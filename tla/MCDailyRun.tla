----------------------------- MODULE MCDailyRun -----------------------------
(* An instance of DailyRun for TLC. *)
EXTENDS DailyRun

CONSTANT OtherStory

MCStories == RunStories \cup {OtherStory}
=============================================================================
