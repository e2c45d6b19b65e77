------------------------------ MODULE MCFlows -------------------------------
(* Values for the clients of the two examples. *)
EXTENDS Details, TLC

Uri == "https://rs.example"
URIs == {Uri}

Value(carrier, type, f) ==
  Detail(carrier, type, [n \in Baseline |-> IF n \in DOMAIN f THEN f[n] ELSE NoBaseline[n]],
         Empty, Nil)

\* buildDetail()
Demo == Value("common", "common", "locations" :> <<Uri>> @@ "actions" :> <<"read", "write">>)
Sparse == Value("common", "common", "actions" :> <<>> @@ "identifier" :> "x")
Bad    == Value("common", "common", "actions" :> <<Empty>>)
Typeless == Value("common", Empty, "actions" :> <<"read">>)
Other  == Value("common", "pay", "actions" :> <<"read">>)
Unknown == Detail("unknown", "pay", NoBaseline, Empty, Nil)
Nameless == [Unknown EXCEPT !.type = Empty]
Ext    == Value("extension", "pay", "datatypes" :> <<Empty>>)
\* What an earlier decode left in an *UnknownType.
Carried ==
  [Unknown EXCEPT !.raw =
     Wire("type" :> JStr("pay") @@ "actions" :> JNumber, {"order", "html"})]

SomeDetails ==
  {<<Demo>>, <<Sparse, Demo>>, <<Demo, Bad>>, <<Typeless>>, <<Other>>, <<Unknown>>,
   <<Nameless>>, <<Demo, Carried>>, <<Ext>>, <<>>, Nil}
=============================================================================
