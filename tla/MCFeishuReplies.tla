--------------------------- MODULE MCFeishuReplies ---------------------------
(***************************************************************************)
(* Instances of FeishuReplies for TLC.                                     *)
(***************************************************************************)
EXTENDS FeishuReplies

CONSTANTS o1, o2

\* A text with a file: the order within a reply and all operations.
TextAndFile == {<<"text", "file">>}
=============================================================================
