------------------------------ MODULE HttpHeadMC ------------------------------
\* Instances of HttpHead: names of which one is the beginning of another and
\* one is longer than its buffer, values that fill theirs, and lists of ids.
EXTENDS HttpHead

MCAccnt == <<1, 1>>
MCPerm == <<1, 2>>
MCNames == {MCAccnt, MCPerm, <<1>>, <<1, 1, 1>>, <<1, 2, 1, 1>>}
MCValues == {<<>>, <<3>>, <<3, 4>>}
MCUrls == {<<1>>, <<1, 2>>, <<2, Comma, 1, 2>>}
===============================================================================
