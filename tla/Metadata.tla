-------------------------------- MODULE Metadata --------------------------------
(******************************************************************************)
(* What becomes of a metadata batch on its way: the loop of PerformOp         *)
(* (ayame_transport.h) makes a JSON object of it, which is sent as text, and  *)
(* the loop of the peer's receive lambda makes a batch of that, an iteration  *)
(* a step.  The same code serves initial and trailing metadata.  A batch is a *)
(* sequence of pairs of a key and a value; keys are compared as               *)
(* nlohmann::json's std::map does, and of a value only its content matters:   *)
(* "nul" stands for one with a NUL byte and a rest behind it, "cut" for what  *)
(* is in front of that, "bin" for one that is not UTF-8, "ok" for any other.  *)
(******************************************************************************)
EXTENDS Naturals, Sequences, FiniteSetsExt

CONSTANTS
    Keys,      \* the keys of a metadata batch
    MaxEntries \* its length

\* Numbers stand for keys, in their order.
ASSUME KeysAssumption == Keys \subseteq Nat

VARIABLES
    md,       \* the md_batch of the send
    stage,    \* where the batch is
    pos,      \* the place of the loop over md_batch
    jmeta,    \* the JSON object, a function from keys to values
    items,    \* the keys of js.items() that the receive lambda has not visited
    received  \* the md_batch of the receive

metadataVars == <<md, stage, pos, jmeta, items, received>>

Values == {"ok", "cut", "nul", "bin"}

\* Without an entry jmeta is null, which has no items.
MetadataInit ==
    /\ md = <<>> /\ stage = "fill" /\ pos = 1
    /\ jmeta = <<>> /\ items = {} /\ received = <<>>

\* Core fills the batch, and issues it.
AddEntry ==
    /\ stage = "fill" /\ Len(md) < MaxEntries
    /\ \E key \in Keys, value \in Values : md' = Append(md, <<key, value>>)
    /\ UNCHANGED <<stage, pos, jmeta, items, received>>

IssueSend ==
    /\ stage = "fill"
    /\ stage' = "send"
    /\ UNCHANGED <<md, pos, jmeta, items, received>>

\* Mutant: the whole slice is taken.
MutWholeSlice(value) == value

\* grpc_slice_to_c_string, and a std::string made of its result.
CString(value) == IF value = "nul" THEN "cut" ELSE value

\* Mutant: a key that is there already is kept.
MutFirstWins(key, value) ==
    [k \in DOMAIN jmeta \cup {key} |-> IF k \in DOMAIN jmeta THEN jmeta[k] ELSE value]

\* jmeta[key] = value.
Assigned(key, value) ==
    [k \in DOMAIN jmeta \cup {key} |-> IF k = key THEN value ELSE jmeta[k]]

SendEntry ==
    /\ stage = "send" /\ pos <= Len(md)
    /\ jmeta' = Assigned(md[pos][1], CString(md[pos][2]))
    /\ pos' = pos + 1
    /\ UNCHANGED <<md, stage, items, received>>

\* dump() throws on a value that is not UTF-8, and nothing catches that.  The text it
\* makes is parsed by the peer.
Dump ==
    /\ stage = "send" /\ pos > Len(md)
    /\ stage' = IF \E key \in DOMAIN jmeta : jmeta[key] = "bin" THEN "terminated" ELSE "recv"
    /\ items' = DOMAIN jmeta
    /\ UNCHANGED <<md, pos, jmeta, received>>

\* js.items() come in the order of their keys; each goes to the tail of md_batch.  As no
\* key comes twice, grpc_metadata_batch_add_tail has none to refuse.
AddTail ==
    /\ stage = "recv" /\ items # {}
    /\ LET key == Min(items)
       IN  /\ received' = Append(received, <<key, jmeta[key]>>)
           /\ items' = items \ {key}
    /\ UNCHANGED <<md, stage, pos, jmeta>>

\* The closure of the receive is scheduled.
RecvReady ==
    /\ stage = "recv" /\ items = {}
    /\ stage' = "ready"
    /\ UNCHANGED <<md, pos, jmeta, items, received>>

MetadataNext == AddEntry \/ IssueSend \/ SendEntry \/ Dump \/ AddTail \/ RecvReady

--------------------------------------------------------------------------------
(******************************************************************************)
(* Properties.                                                                *)
(******************************************************************************)
Ascending(batch) == \A i, j \in 1..Len(batch) : i < j => batch[i][1] < batch[j][1]

\* A metadata batch arrives as it was sent if, and only if, its keys are in strictly
\* increasing order and no value holds a NUL byte or is not UTF-8.  A key that occurs
\* twice, which gRPC allows, does not survive.
MetadataArrives ==
    stage \in {"ready", "terminated"} =>
        ((stage = "ready" /\ received = md) <=>
            Ascending(md) /\ \A i \in 1..Len(md) : md[i][2] \in {"ok", "cut"})

\* No entry behind the i-th has its key.
IsLast(i) == \A j \in 1..Len(md) : j > i => md[j][1] # md[i][1]

\* Of the values sent for a key the last one arrives, once, in the order of the keys and
\* cut at its NUL byte, unless dump() throws over such a value that is not UTF-8.
LastValueArrives ==
    LET last == {i \in 1..Len(md) : IsLast(i)}
        what(i) == IF md[i][2] = "nul" THEN "cut" ELSE md[i][2]
    IN  /\ stage = "terminated" => \E i \in last : md[i][2] = "bin"
        /\ stage = "ready" =>
             /\ \A i \in last : md[i][2] # "bin"
             /\ Ascending(received)
             /\ {received[j] : j \in 1..Len(received)} = {<<md[i][1], what(i)>> : i \in last}
================================================================================
