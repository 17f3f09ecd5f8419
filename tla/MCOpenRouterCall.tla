---------------------------- MODULE MCOpenRouterCall ----------------------------
EXTENDS OpenRouterCall

CONSTANTS g1, g2, c1, c2

\* Prices that are whole nanodollars, and prices that are not; a cache dearer
\* than the prompt, a fee, and a free model are refused.
SomeRows ==
    {[prompt |-> p, completion |-> c, cache |-> k, fee |-> f] :
        p \in {0, 2000, 2001}, c \in {6005}, k \in {5, 3000}, f \in {0, 7}}
    \cup {[prompt |-> 1, completion |-> 3, cache |-> 0, fee |-> 0]}

SomeTokens == {0, 1, 3}

Asked == <<Said>>
Continued == <<Said, Called(<<c1>>), Answered(c1)>>
Unanswered == <<Said, Called(<<c1>>), Said>>
Repeated == <<Called(<<c1>>), Answered(c1), Called(<<c1>>), Answered(c1)>>
Silent == <<Said, Called(<<>>)>>
SomeConversations == {Asked, Continued, Unanswered, Repeated, Silent}

Nothing == [type |-> "chunk", id |-> g1, text |-> None, call |-> None, finish |-> None,
            usage |-> None]
Text(piece) == [Nothing EXCEPT !.text = piece]
Calling(index, id, piece) == [Nothing EXCEPT !.call = [index |-> index, id |-> id, piece |-> piece]]
Finish(reason, tokens) == [Nothing EXCEPT !.finish = reason, !.usage = tokens]
Ending(piece) == [Text(piece) EXCEPT !.finish = "stop", !.usage = 1]
Other(type) == [Nothing EXCEPT !.type = type, !.id = None]

SomeEvents ==
    {Text("whole"), Text("open"), Text("close"), Ending("close"), Ending("whole"),
     [Text("unfit") EXCEPT !.id = g2],
     Calling(0, c1, "whole"), Calling(1, c2, "whole"), Calling(1, c1, "whole"),
     Calling(0, c2, "open"), Calling(0, None, "close"),
     Finish("stop", None), Finish("stop", 1), Finish("tool_calls", 1), Finish("tool_calls", 5),
     Finish("length", None), Finish(None, 1),
     Other("done"), Other("error")}
=============================================================================
