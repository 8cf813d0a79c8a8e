----------------------------- MODULE MCConversions -----------------------------
(******************************************************************************)
(* The conversions of UrlParts and Metadata over bounded inputs: a url is     *)
(* typed token by token, the parts of one are written token by token, or a    *)
(* metadata batch goes its way.                                               *)
(******************************************************************************)
EXTENDS UrlParts, Metadata, Functions

CONSTANTS
    Tokens,    \* the tokens of a url
    MaxTokens  \* the length of a url, and of the parts of one together

VARIABLES url, parts

vars == <<url, parts, metadataVars>>

NoParts == [f \in {"scheme", "user_pass", "host", "port", "path_query_fragment"} |-> <<>>]

Init == url = <<>> /\ parts = NoParts /\ MetadataInit

TypeUrl ==
    /\ parts = NoParts /\ MetadataInit /\ Len(url) < MaxTokens
    /\ \E token \in Tokens : url' = Append(url, token)
    /\ UNCHANGED <<parts, metadataVars>>

WriteParts ==
    /\ url = <<>> /\ MetadataInit
    /\ FoldFunction(LAMBDA part, n : n + Len(part), 0, parts) < MaxTokens
    /\ \E f \in DOMAIN parts, token \in Tokens :
          parts' = [parts EXCEPT ![f] = Append(@, token)]
    /\ Grammatical(parts')
    /\ UNCHANGED <<url, metadataVars>>

Transfer ==
    /\ url = <<>> /\ parts = NoParts /\ MetadataNext
    /\ UNCHANGED <<url, parts>>

Next == TypeUrl \/ WriteParts \/ Transfer

Spec == Init /\ [][Next]_vars

--------------------------------------------------------------------------------
(******************************************************************************)
(* Properties.                                                                *)
(******************************************************************************)

\* Of every url of the grammar in the comment of URLParts::Parse, with each optional
\* part there, empty or missing, Connect resolves the host and the port that were
\* written, 443 for none, and shakes hands for the path, which may be empty; and it
\* refuses every scheme but wss.
ConnectsAsWritten ==
    \A text \in Compositions(parts) :
        /\ Connects(text) <=> parts.scheme = <<"wss">>
        /\ Connects(text) =>
             Connect(text) = [host |-> parts.host,
                              port |-> IF parts.port = <<>> THEN <<"443">> ELSE parts.port,
                              target |-> parts.path_query_fragment]

\* URLParts::Parse loses nothing of any text it accepts, grammatical or not: the text
\* is one of those that have the parts it returns.
NothingLost == Parses(url) => url \in Compositions(Parse(url))
================================================================================
