-------------------------- MODULE MCWechatGateway --------------------------
(***************************************************************************)
(* Instances of WechatGateway for TLC.                                     *)
(***************************************************************************)
EXTENDS WechatGateway, TLC

CONSTANTS a1, a2, u1, u2, bad, g, closed

Msg(user, group, kind, arg, media, token) ==
    [user |-> user, group |-> group, kind |-> kind, arg |-> arg, media |-> media,
     token |-> token]
Direct(user, kind, arg, media, token) == Msg(user, NoGroup, kind, arg, media, token)

\* What the long poll and the router are run with: a message with a file, a
\* command that switches the active agent.
InboundShapes ==
    {Direct(u1, "chat", NoAgent, TRUE, TRUE), Direct(u2, "use", a2, FALSE, FALSE)}

\* What replies and quotes are run with: a text of an admitted user, a message
\* of the bot, a text of a refused user in an admitted group, and a text of the
\* admitted user in a refused group.
ReplyShapes ==
    {Direct(u1, "chat", NoAgent, FALSE, TRUE), Direct(u1, "bot", NoAgent, FALSE, FALSE),
     Msg(bad, g, "chat", NoAgent, FALSE, TRUE), Msg(u1, closed, "chat", NoAgent, FALSE, TRUE)}

\* No shape of ReplyShapes names an agent, so the agents are interchangeable.
AgentSymmetry == Permutations(Agents)

\* A text of an admitted user, and a message with a file of a refused one.
RefusedShapes ==
    {Direct(u1, "chat", NoAgent, FALSE, TRUE), Direct(bad, "chat", NoAgent, TRUE, TRUE)}
=============================================================================
