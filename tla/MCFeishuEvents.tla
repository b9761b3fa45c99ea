--------------------------- MODULE MCFeishuEvents ---------------------------
(***************************************************************************)
(* Instances of FeishuEvents for TLC.                                      *)
(***************************************************************************)
EXTENDS FeishuEvents

CONSTANTS a1, a2, u1, bad

Msg1(user, kind, arg, media, group, mention) ==
    [user |-> user, kind |-> kind, arg |-> arg, media |-> media,
     group |-> group, mention |-> mention]

\* A message with a file, and the command that switches the active agent.
SwitchShapes ==
    {Msg1(u1, "chat", NoAgent, TRUE, FALSE, FALSE), Msg1(u1, "use", a2, FALSE, FALSE, FALSE)}

\* These, a command without effect, a message with a file of a refused sender,
\* and two in a group, with and without a mention of the bot.
AllShapes ==
    SwitchShapes \cup
    {Msg1(u1, "info", NoAgent, FALSE, FALSE, FALSE),
     Msg1(bad, "chat", NoAgent, TRUE, FALSE, FALSE),
     Msg1(u1, "chat", NoAgent, FALSE, TRUE, TRUE),
     Msg1(u1, "chat", NoAgent, FALSE, TRUE, FALSE)}
=============================================================================
