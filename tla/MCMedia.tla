------------------------------ MODULE MCMedia ------------------------------
(* One conversation; the agent publishes its ambience and its speech. *)
EXTENDS MediaSession

CONSTANTS ambience, speech1, speech2

MCTracks == {ambience, speech1, speech2}
MCMicTracks == {speech1, speech2}
=============================================================================
