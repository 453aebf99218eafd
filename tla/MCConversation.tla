--------------------------- MODULE MCConversation ---------------------------
(***************************************************************************)
(* One conversation, its control (MediaSession) and its sound (AudioPath). *)
(* The two share no variable, and AudioPath may have the bridge and the    *)
(* room closed at any time MediaSession may; so it is enough to let either *)
(* of them run while the other stands still; and, apart, to look at every  *)
(* sample the codec may meet (MuLaw).                                      *)
(***************************************************************************)
EXTENDS MCMedia, AudioPath, MuLaw

MCToAgent == Ratio(3, 1)
MCFromAgent == {Ratio(1, 3), Ratio(2, 3)}

\* The hypothesis under which the opening is proved to be kept.
ASSUME FlushFitsQueue == OpeningFits

VARIABLE subject   \* which of them is looked at

Init ==
    /\ MediaInit /\ AudioInit
    /\ \/ subject \in {"control", "sound"} /\ sample = 0
       \/ subject = "codec" /\ CodecInit

Next ==
    /\ UNCHANGED <<subject, sample>>
    /\ \/ subject = "control" /\ MediaNext /\ UNCHANGED audioVars
       \/ subject = "sound" /\ AudioNext /\ UNCHANGED mediaVars

Spec == Init /\ [][Next]_<<mediaVars, audioVars, sample, subject>> /\ MediaFairness
=============================================================================
