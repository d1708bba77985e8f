-------------------------------- MODULE Codec --------------------------------
(***************************************************************************)
(* CodecService (src/crypto/codec.ts) on the values Baileys stores: what a *)
(* value is written as, and what it is when it is read again.  A value is  *)
(* a leaf, an array or a plain object; the fields of an object have an     *)
(* order.  Baileys' BufferJSON and JSON itself do what they promise.       *)
(***************************************************************************)
EXTENDS Naturals, Sequences, SequencesExt

\* The names of fields, in the order sort() gives them.
FieldNames == 1..2

\* Buffers, other Uint8Arrays, Dates, scalars, and plain objects that look like
\* the JSON of a Buffer.
LeafKinds == {"buffer", "bytes", "date", "scalar", "lookalike"}
Leaves == [kind : LeafKinds, of : {<<>>}]

Node(kind, of) == [kind |-> kind, of |-> of]

\* A field is its name and what is stored under it.
FieldLists(values) ==
  {<<>>} \cup {<<[name |-> n, val |-> v]>> : n \in FieldNames, v \in values}
    \cup {<<[name |-> n, val |-> v], [name |-> 3 - n, val |-> w]>> :
            n \in FieldNames, v \in values, w \in values}

Containers(values) ==
  {Node("array", <<v>>) : v \in values} \cup {Node("object", f) : f \in FieldLists(values)}

Flat == Leaves \cup Containers(Leaves)
Trees == Flat \cup {Node("array", <<v, w>>) : v \in Flat, w \in Leaves}
              \cup {Node("object", <<[name |-> n, val |-> v]>>) : n \in FieldNames, v \in Flat}

-----------------------------------------------------------------------------
\* stableReplacer: a Buffer has become its JSON, and a Date its ISO string, before
\* it is asked.  The fields of an object are sorted, those it gives a Uint8Array
\* are not.
SortedFields(fields) == SortSeq(fields, LAMBDA f, g : f.name < g.name)

Written[v \in Trees] ==
  CASE v.kind \in {"buffer", "lookalike"} -> Node("tagged", <<"data", "type">>)
    [] v.kind = "bytes" -> Node("tagged", <<"type", "data">>)
    [] v.kind \in {"date", "scalar"} -> Node("scalar", <<>>)
    [] v.kind = "array" -> Node("array", [i \in DOMAIN v.of |-> Written[v.of[i]]])
    [] v.kind = "object" ->
         Node("object", SortedFields([i \in DOMAIN v.of |->
                          [v.of[i] EXCEPT !.val = Written[v.of[i].val]]]))

Texts == {Written[v] : v \in Trees}

\* stableParse and deepBufferRevive: whatever is tagged as a Buffer becomes one,
\* at any depth.
Revived[t \in Texts] ==
  CASE t.kind = "tagged" -> Node("buffer", <<>>)
    [] t.kind = "scalar" -> t
    [] t.kind = "array" -> Node("array", [i \in DOMAIN t.of |-> Revived[t.of[i]]])
    [] t.kind = "object" ->
         Node("object", [i \in DOMAIN t.of |-> [t.of[i] EXCEPT !.val = Revived[t.of[i].val]]])

RoundTrip(v) == Revived[Written[v]]

-----------------------------------------------------------------------------
\* A set decodes the stored keys, merges and encodes them all again: what was
\* read once is read the same for ever, however often it is rewritten, and the
\* order in which an object was put together does not show.
RewritingKeeps ==
  \A v \in Trees :
    /\ RoundTrip(RoundTrip(v)) = RoundTrip(v)
    /\ v.kind = "object" => Written[Node("object", Reverse(v.of))] = Written[v]
=============================================================================
