--------------------------- MODULE MCSerialFrame ---------------------------
EXTENDS SerialFrame

\* A poll, both commands to the hill, one to the station and a servo.
SomePayloads == {<<0>>, <<5, 255, 1>>, <<5, 0>>, <<4, 128, 1>>, <<2, 140>>}
=============================================================================
