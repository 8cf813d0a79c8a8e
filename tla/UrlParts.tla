-------------------------------- MODULE UrlParts --------------------------------
(******************************************************************************)
(* URLParts::Parse (url_parts.h) and what AyameSignaling::Connect and the     *)
(* websocket handshake make of its result.  A url is a sequence of tokens:    *)
(* the delimiters, "wss", and whatever else a caller writes.                  *)
(******************************************************************************)
EXTENDS Naturals, Sequences, FiniteSetsExt

npos == 0

\* std::string::find: the first place of pattern in s from n on.
Find(s, pattern, n) ==
    LET hits == {i \in n..(Len(s) - Len(pattern) + 1) :
                    SubSeq(s, i, i + Len(pattern) - 1) = pattern}
    IN  IF hits = {} THEN npos ELSE Min(hits)

\* std::string::substr: what is before place m, and what is from place m on.
Before(s, m) == SubSeq(s, 1, m - 1)
From(s, m) == SubSeq(s, m, Len(s))

SchemeEnd == <<":", "/", "/">>

\* Mutant: the '@' is kept in front of the host.
MutAtKept(authority) ==
    LET m == Find(authority, <<"@">>, 1)
    IN  IF m = npos THEN <<<<>>, authority>> ELSE <<Before(authority, m), From(authority, m)>>

\* user_pass and host_port.
SplitUserPass(authority) ==
    LET m == Find(authority, <<"@">>, 1)
    IN  IF m = npos THEN <<<<>>, authority>>
        ELSE <<Before(authority, m), From(authority, m + 1)>>

\* host and port.
SplitPort(host_port) ==
    LET m == Find(host_port, <<":">>, 1)
    IN  IF m = npos THEN <<host_port, <<>>>>
        ELSE <<Before(host_port, m), From(host_port, m + 1)>>

\* user_pass_host_port and path_query_fragment.
SplitPath(rest) ==
    LET m == Find(rest, <<"/">>, 1)
    IN  IF m = npos THEN <<rest, <<>>>> ELSE <<Before(rest, m), From(rest, m)>>

Parses(url) == Find(url, SchemeEnd, 1) # npos

Parse(url) ==
    LET n == Find(url, SchemeEnd, 1)
        path == SplitPath(From(url, n + 3))
        user == SplitUserPass(path[1])
        port == SplitPort(user[2])
    IN  [scheme |-> Before(url, n), user_pass |-> user[1], host |-> port[1],
         port |-> port[2], path_query_fragment |-> path[2]]

\* Mutant: no default port.
MutNoDefault(port) == port

PortOf(port) == IF port = <<>> THEN <<"443">> ELSE port

\* Connect returns false, or goes on to resolve a host and a port and then to ask for
\* the target in the websocket handshake.
Connects(url) == Parses(url) /\ Parse(url).scheme = <<"wss">>
Connect(url) ==
    [host |-> Parse(url).host, port |-> PortOf(Parse(url).port),
     target |-> Parse(url).path_query_fragment]

--------------------------------------------------------------------------------
(******************************************************************************)
(* The grammar in the comment of Parse:                                       *)
(*    scheme://[user_pass@]host[:port][/path_query_fragment]                  *)
(******************************************************************************)
Free(s, tokens) == \A i \in DOMAIN s : s[i] \notin tokens

\* Parts that can be told apart: no part holds a delimiter that ends it.
Grammatical(p) ==
    /\ Find(p.scheme, SchemeEnd, 1) = npos
    /\ Free(p.user_pass, {"/", "@"}) /\ Free(p.host, {"/", "@", ":"})
    /\ Free(p.port, {"/", "@"})
    /\ p.path_query_fragment # <<>> => p.path_query_fragment[1] = "/"

Optional(part, text) == IF part = <<>> THEN {<<>>, text} ELSE {text}

\* The urls that have these parts.
Compositions(p) ==
    {p.scheme \o SchemeEnd \o u \o p.host \o c \o p.path_query_fragment :
        u \in Optional(p.user_pass, p.user_pass \o <<"@">>),
        c \in Optional(p.port, <<":">> \o p.port)}
================================================================================
