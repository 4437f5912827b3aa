------------------------- MODULE MCOpenAPIContract -------------------------
(***************************************************************************)
(* OpenAPIContract on small schemas: every type, enums, null, objects of   *)
(* two properties, arrays, references that nest, recur, loop and miss,     *)
(* compositions and numbers in every spelling; on bodies of depth three;   *)
(* on sets of templates that overlap; and on documents that do not load.   *)
(***************************************************************************)
EXTENDS OpenAPIContract, TLC

Text == Scalar("string", "x")
Other == Scalar("string", "y")
One == Scalar("integer", "1")
OnePointZero == Scalar("whole", "1.0")
Half == Scalar("fraction", "0.5")
Huge == Scalar("huge", "1e400")
True == Scalar("boolean", "true")

MCLocalRefs == {"#/Leaf", "#/Odd", "#/Node", "#/Loop", "#/Missing"}

MCSameNumber == {<<One, OnePointZero>>, <<OnePointZero, One>>}

MCNameOrder == <<"a", "b">>

Field(name, value) == [n \in {name} |-> value]

Type(type) == [AnySchema EXCEPT !.type = type]

Leaves ==
  {Type(t) : t \in {"string", "integer", "number", "boolean", "file", "absent"}}
  \cup {[Type("string") EXCEPT !.enum = {Text}],
        [Type("string") EXCEPT !.nullable = TRUE],
        [Type("string") EXCEPT !.enum = {Text}, !.nullable = TRUE],
        [Type("number") EXCEPT !.enum = {One}],
        [AnySchema EXCEPT !.composition = "oneOf", !.nullable = TRUE],
        [AnySchema EXCEPT !.composition = "not"]}
  \cup {Ref(r) : r \in MCLocalRefs \cup {"other.json"}}

\* A leaf, a composition, a tree through itself, and a reference to itself.
MCComponents ==
  [r \in MCLocalRefs \ {"#/Missing"} |->
     CASE r = "#/Leaf" -> Type("string")
       [] r = "#/Odd" -> [AnySchema EXCEPT !.composition = "allOf"]
       [] r = "#/Node" -> [Type("object") EXCEPT
            !.properties = Field("a", Ref("#/Node")) @@ Field("b", Ref("#/Leaf")),
            !.required = {"b"}]
       [] r = "#/Loop" -> Ref("#/Loop")]

Composites ==
  {[Type(t) EXCEPT !.properties = Field("a", leaf), !.required = required,
                   !.additionalProperties = more] :
     t \in {"object", "absent"}, leaf \in Leaves, required \in SUBSET {"a", "b"},
     more \in {"absent", "true", "false", "schema"}}
  \cup {[Type("array") EXCEPT !.items = <<leaf>>] : leaf \in Leaves}
  \cup {Type("array"), Type("object"),
        [Type("object") EXCEPT !.enum = {Object(Field("a", Text))}]}

MCBodySchemas == Leaves \cup Composites

MCSchemas ==
  MCBodySchemas \cup {MCComponents[r] : r \in DOMAIN MCComponents}
  \cup {[AnySchema EXCEPT !.enum = {Text}]}

Scalars == {Null, Text, Other, One, OnePointZero, Half, Huge, True}

MCBodies ==
  Scalars
  \cup {Object(<<>>), Array(<<>>), Array(<<Text, One>>), Malformed}
  \cup {Object(Field("a", v)) : v \in Scalars \cup {Object(Field("b", Text))}}
  \cup {Object(Field("b", Text))}
  \cup {Object(Field("a", v) @@ Field("b", Text)) :
          v \in {Text, One, Null, Object(Field("b", Text)), Object(Field("b", One))}}
  \cup {Array(<<v>>) : v \in Scalars}

MCValues ==
  (MCBodies \ {Malformed}) \cup UNION {Parts(v) : v \in MCBodies}

Below(tree) == IF "kind" \in DOMAIN tree THEN Parts(tree) ELSE Nested(tree)

MCDepth[tree \in MCSchemas \cup MCValues] ==
  IF Below(tree) = {} THEN 0 ELSE 1 + Max({MCDepth[b] : b \in Below(tree)})

Path(segments) == [segments |-> segments, slash |-> TRUE]

Orders == Path(<<"orders">>)
Order == Path(<<"orders", "{id}", "items">>)
Special == Path(<<"orders", "special", "items">>)
AnySpecial == Path(<<"{id}", "special", "items">>)

Operation(method, path, responses) ==
  [method |-> method, path |-> path, responses |-> responses]

JSON == Field("200", "json")

Rule(method, path, status, contentType, body) ==
  [method |-> method, path |-> path, status |-> status,
   contentType |-> contentType, body |-> body]

Document(operations, schema) ==
  [file |-> "json", misfits |-> {}, openapi |-> "3.0.3",
   paths |-> {Orders} \cup {o.path : o \in operations}, hugeNumber |-> FALSE,
   operations |-> operations, schema |-> schema]

GetOrders(table) == {Operation("get", Orders, table)}

GetOrdersRule(body) == Rule("GET", Orders, "200", "application/json", body)

MCSchemaInputs ==
  [document : {Document(GetOrders(JSON), s) : s \in MCBodySchemas},
   rule : {GetOrdersRule(b) : b \in MCBodies}]

\* Tables of responses and overlapping routes, one schema.
MCTables ==
  {JSON, Field("default", "json"), Field("200", "nothing"),
   Field("200", "other"), Field("200", "json") @@ Field("default", "nothing")}

MCOperations ==
  {Operation(method, path, table) : method \in {"get", "post"},
     path \in {Order, Special, AnySpecial}, table \in MCTables}

MCOperationSets ==
  {ops \in {{}} \cup {{o, p} : o, p \in MCOperations} :
     \A o, p \in ops : o # p => <<o.method, o.path>> # <<p.method, p.path>>}

MCRouteInputs ==
  [document : {Document(ops, Type("string")) : ops \in MCOperationSets},
   rule : {Rule(method, path, status, type, body) :
      method \in {"GET", "DELETE"},
      path \in {Special, [Special EXCEPT !.slash = FALSE],
                Path(<<"orders", "1", "items">>), Path(<<"orders", "", "items">>)},
      status \in {"200", "404"},
      type \in {"application/json", "application/json; charset=utf-8", "text/plain"},
      body \in {Text, Malformed}}]

\* Documents whose load ends in each of its errors, the first of several.
MCDocumentInputs ==
  [document : {[Document(GetOrders(JSON), Type("string")) EXCEPT
                  !.file = file, !.misfits = misfits,
                  !.openapi = version, !.paths = paths] :
                  file \in {"missing", "broken", "json"}, misfits \in {{}, {"parameters"}},
                  version \in {"3.0.0", "3.1.0", ""}, paths \in {{}, {Orders}}}
     \cup {[Document(GetOrders(JSON), Leaf) EXCEPT !.hugeNumber = TRUE] :
             Leaf \in Leaves},
   rule : {GetOrdersRule(Text)}]

MCInputs == MCSchemaInputs \cup MCRouteInputs \cup MCDocumentInputs

\* An enum without a type; a response by reference.
MCUntypedEnum ==
  [document : {Document(GetOrders(JSON), [AnySchema EXCEPT !.enum = {Text}])},
   rule : {GetOrdersRule(b) : b \in {Text, Other}}]

MCReferencedResponse ==
  [document : {Document(GetOrders(Field("200", "reference")), Type("string"))},
   rule : {GetOrdersRule(b) : b \in {Text, One}}]

=============================================================================
