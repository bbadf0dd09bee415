----------------------------- MODULE MCTncReceive -----------------------------
(* Instances of TncReceive for TLC. *)
EXTENDS TncReceive

\* Both escapes, and a frame of the greatest length (three data bytes here) whose
\* data all need one: its encoding just fits the temporary buffer, as in the code
\* (2 + 1 + 2 * 330 <= 700).
ReceivedFrames == { <<DataCommand, 1>>, <<DataCommand, FEND>>, <<DataCommand, 2, FESC>>,
                    <<DataCommand, FESC, FEND, FESC>> }
EncodedFrames == [f \in ReceivedFrames |-> encode_frame(f)]
=============================================================================
