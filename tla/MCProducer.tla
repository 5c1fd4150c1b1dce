----------------------------- MODULE MCProducer -----------------------------
(***************************************************************************)
(* Messages 1 and 2 differ in one of two attributes, 3 has explicit IDs    *)
(* and no attributes, so generators fail for it if they are asked.         *)
(***************************************************************************)
EXTENDS Producer, TLC

Explicit(t) == [alg |-> "explicit", text |-> <<t>>]

MCTokens == {"a", "b", "c", Sep}
MCAttributes == <<1 :> <<"a">> @@ 2 :> <<"b">>, 1 :> <<"a">> @@ 2 :> <<"c">>, << >> >>
MCGroupID == <<NoID, NoID, Explicit("g")>>
MCDedupID == <<NoID, NoID, Explicit("d")>>
MCSuffixRange == 1 .. 2
MCCallers == 1 .. 2

Gen(k, f) == [kind |-> k, fields |-> f]

\* A value that is not empty may still fail to encode.
Conf(f, g, d, e) ==
  [fifo |-> f, groupIDGen |-> g, dedupIDGen |-> d, empty |-> e, opaque |-> IF e = {} THEN {} ELSE {3}]

\* FIFO topics with every kind of deduplication ID, and a standard topic.
MCConfigs ==
  {Conf(TRUE, Gen("keyBased", <<1>>), Gen(k, << >>), {}) :
     k \in {"none", "keyBased", "composite", "suffix"}}
  \cup {Conf(TRUE, Gen("composite", <<1>>), Gen("keyBased", <<2, 1>>), {1}),
        Conf(TRUE, Gen("none", << >>), Gen("keyBased", <<2>>), {}),
        Conf(TRUE, Gen("random", << >>), Gen("composite", <<3>>), {}),
        Conf(TRUE, Gen("random", << >>), Gen("random", << >>), {}),
        Conf(FALSE, Gen("random", << >>), Gen("keyBased", << >>), {2})}

=============================================================================
