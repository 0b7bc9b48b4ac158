------------------------------- MODULE MCObex -------------------------------
EXTENDS Obex

\* Response bytes within the sequence numbers that a run reaches.
MCRspByte == [CONTINUE |-> 4, SUCCESS |-> 3, FORBIDDEN |-> 5]

\* A command without data, and a file of two packets either way.
MCObjects == {<<0, "cmd">>, <<9, "file">>}
=============================================================================
