--------------------------- MODULE MCProxyStartup ---------------------------
(* ProxyStartup on small instances. *)
EXTENDS ProxyStartup

CONSTANT MaxUnits    \* bound: arbitrary units in one options value

Alphabet == {Space, Backslash, Single, Double, C, TokenEq, "x"}

Free == UNION {[1 .. k -> Alphabet] : k \in 0 .. MaxUnits}

User == <<<<"user">>, <<"x">>>>
TokenParam == <<TOKEN_PARAM, <<"x">>>>
Opts(value) == <<OPTIONS, value>>

(* Settings of the token, plain, glued, quoted and escaped.                *)
Given == {<<C, Space, TokenEq>>, <<C, TokenEq, Space>>,
          <<C, Space, Single, TokenEq, Space, "x", Single>>,
          <<Double, C, Double, Space, Backslash, TokenEq>>}

(* Any short options value alone, before and after a setting of the token, *)
(* and beside the token's own parameter; no token, and a body cut short.   *)
MCBodies ==
    {BuildStartup(<<User, Opts(o), User>>) :
        o \in Free \cup {g \o o : g \in Given, o \in Free}
                  \cup {o \o g : g \in Given, o \in Free}}
    \cup {BuildStartup(<<TokenParam, Opts(o)>>) : o \in Free}
    \cup {BuildStartup(<<Opts(o), Opts(<<C, TokenEq>>)>>) : o \in Free}
    \cup {BuildStartup(<<User>>), <<"user", NUL, "x">>}
=============================================================================
