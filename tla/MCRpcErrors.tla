---------------------------- MODULE MCRpcErrors ----------------------------
(* Two texts, so that a message exchanged for another shows.                *)
EXTENDS RpcErrors

TwoTexts == {"a text", "another text"}
InternalText == "an internal text"
============================================================================
