------------------------------ MODULE MCFosite ------------------------------
(* FositeHandler on a handful of HTTP requests and forms. *)
EXTENDS FositeHandler, TLC

Uri == "https://rs.example"
URIs == {Uri}

Good == Wire("type" :> JStr("common") @@ "locations" :> JArr(<<Uri>>), {"space"})
Bad  == Wire("type" :> JStr("common") @@ "actions" :> JArr(<<Empty>>), {})
\* Unknown to this server: never judged, passed on with all its members.
Foreign == Wire("type" :> JStr("pay") @@ Extra :> JStr("x") @@ "actions" :> JNumber,
                  {"order", "html"})

SomeForms ==
  {Array(<<Good, Foreign>>), Array(<<Foreign>>), Array(<<Foreign, Bad>>),
   Array(<<>>), [kind |-> "null", elems |-> <<>>], [kind |-> "other", elems |-> <<>>]}

AnyRequest == Permutations(Requests)
=============================================================================
