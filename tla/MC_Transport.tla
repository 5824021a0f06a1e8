---------------------------- MODULE MC_Transport ----------------------------
EXTENDS Transport

\* One unit and two: a frame that fits a read and one that does not.
MCPayload == << <<5>>, <<6, 7>> >>

=============================================================================
