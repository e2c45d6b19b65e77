------------------------------ MODULE MCCodec -------------------------------
(* Codec on arrays of up to two elements, one of each kind that matters. *)
EXTENDS Codec, TLC

Uri == "https://rs.example"
Word == "read"
URIs == {Uri}
TypeNames == {"common", "pay"}

Common == JStr("common")
Pay    == JStr("pay")

\* A well-formed "common" element, written as the package would.
FullCommon == Wire("type" :> Common @@ "locations" :> JArr(<<Uri>>)
                     @@ "actions" :> JArr(<<Word, Word>>) @@ "identifier" :> JStr(Word), {})
\* Empty and null arrays, a member outside §2, another order.
SparseCommon == Wire("type" :> Common @@ "datatypes" :> JArr(<<>>) @@ "actions" :> JNull
                       @@ Extra :> JStr(Word), {"order", "space"})
\* A relative location and a null entry.
BadCommon == Wire("type" :> Common @@ "locations" :> JArr(<<Word>>)
                    @@ "privileges" :> JArr(<<NullEntry>>), {})
\* The consumer's type, with an empty array and an empty identifier.
FullPay == Wire("type" :> Pay @@ Extra :> JStr(Word) @@ "locations" :> JArr(<<>>)
                  @@ "privileges" :> JArr(<<Word>>) @@ "identifier" :> JStr(Empty),
                  {"order", "space", "html"})
\* Parses, fails validation; no creditorName.
BadPay == Wire("type" :> Pay @@ "privileges" :> JArr(<<Word, Empty>>), {})
\* A §2 name used for something else: only *UnknownType takes it.
ForeignPay == Wire("type" :> Pay @@ "actions" :> JNumber @@ Extra :> JNumber, {"html"})
Typeless  == Wire("actions" :> JArr(<<Word>>), {})
WrongType == Wire("type" :> JNumber, {})
NullElement   == [kind |-> "null", members |-> NoMembers, style |-> {}]
ScalarElement == [kind |-> "scalar", members |-> NoMembers, style |-> {}]

Array(q) == [kind |-> "array", elems |-> q]

Good == {FullCommon, SparseCommon, BadCommon, FullPay, BadPay, ForeignPay}
Odd  == {Typeless, WrongType, NullElement, ScalarElement}

OneElement == {Array(<<w>>) : w \in Good \union Odd}
NotAnArray == {[kind |-> k, elems |-> <<>>] : k \in {"null", "other"}}

AllForms ==
  NotAnArray \union {Array(<<>>)} \union OneElement
  \union {Array(<<v, w>>) : v \in Good, w \in Good}
  \union {Array(<<v, w>>) : v \in {FullPay}, w \in Odd}

FewForms == NotAnArray \union OneElement

\* An edit that empties a member, and one that makes an element ill-formed.
SomeEdits == {[member |-> "privileges", value |-> <<>>],
              [member |-> "actions", value |-> <<Word, Empty>>]}

\* Values only an application can make.
Fields(f) == [n \in Baseline |-> IF n \in DOMAIN f THEN f[n] ELSE NoBaseline[n]]
BuiltDetails ==
  {Nil,
   <<Detail("common", Empty, Fields("actions" :> <<>>), Empty, Nil)>>,
   <<Detail("unknown", "pay", NoBaseline, Empty, Nil)>>,
   <<Detail("unknown", Empty, NoBaseline, Empty, Nil)>>,
   <<Detail("common", "common", NoBaseline, Empty, Nil),
     Detail("extension", "pay", Fields("datatypes" :> <<Empty>>), Empty, Nil)>>,
   <<Detail("payment", "pay", Fields("locations" :> <<Uri>>), Word, Nil),
     Detail("payment", "pay", Fields("actions" :> <<>>), Empty, Nil)>>}
=============================================================================
