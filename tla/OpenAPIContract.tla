-------------------------- MODULE OpenAPIContract --------------------------
(***************************************************************************)
(* An OpenAPI document (internal/contract/openapi.go): LoadOpenAPIFile     *)
(* decodes it and scans it for features it does not support;               *)
(* ValidateResponseRule finds the operation and the response of a rule and *)
(* checks the body against the response's schema.  ContractManager knows   *)
(* only the set of rules this accepts; here is how it comes about, next to *)
(* what OpenAPI means by the keywords that are supported.                  *)
(*                                                                         *)
(* Each behavior of Spec loads one document of Inputs and validates one    *)
(* rule against it.                                                        *)
(***************************************************************************)
EXTENDS Integers, FiniteSets, Sequences, SequencesExt

CONSTANTS
  Inputs,      \* a set of [document, rule]
  Schemas,     \* the schemas of the documents and all they hold
  Values,      \* the JSON values of the bodies and all they hold
  Depth,       \* how deep the tree of a schema or a value is
  LocalRefs,   \* the references that begin with "#/"
  Components,  \* the schemas that local references resolve to
  NameOrder,   \* the property names in the order they sort
  SameNumber   \* pairs of values that differ in how a number is written

VARIABLES
  input,      \* the document and the rule
  outcome,    \* of loading: "loaded" or an error code
  announced,  \* the features the load reports as unsupported
  verdict     \* on the rule

openAPIVars == <<input, outcome, announced, verdict>>

(***************************************************************************)
(* JSON values are trees of [kind, lit, fields, items]; lit is the text of *)
(* a scalar.  A number is an "integer" if strconv.ParseInt takes its text, *)
(* a "whole" number if it is written otherwise or beyond int64 (1.0, 1e3), *)
(* "huge" if it is beyond float64, or a "fraction".                        *)
(*                                                                         *)
(* A schema has items <<>> or <<schema>>, a set of enum values, and        *)
(* composition names the first of oneOf, anyOf, allOf, not it has.         *)
(* "absent" stands for the zero value of what the decoder does not find.   *)
(***************************************************************************)
Scalar(kind, lit) == [kind |-> kind, lit |-> lit]
Null == Scalar("null", "")
Object(fields) == [kind |-> "object", fields |-> fields]
Array(items) == [kind |-> "array", items |-> items]

AnySchema ==
  [ref |-> "absent", type |-> "absent", required |-> {}, properties |-> <<>>,
   items |-> <<>>, enum |-> {}, nullable |-> FALSE,
   additionalProperties |-> "absent", composition |-> "absent"]

Ref(ref) == [AnySchema EXCEPT !.ref = ref]

Names(map) == IF map = <<>> THEN {} ELSE DOMAIN map

\* Mutant of Nested: the scan does not look into lists of schemas.
NestedInProperties(schema) ==
  {schema.properties[name] : name \in Names(schema.properties)}

Nested(schema) ==
  {schema.properties[name] : name \in Names(schema.properties)}
  \cup {schema.items[i] : i \in DOMAIN schema.items}

Parts(value) ==
  CASE value.kind = "object" -> {value.fields[name] : name \in Names(value.fields)}
    [] value.kind = "array" -> {value.items[i] : i \in DOMAIN value.items}
    [] OTHER -> {}

SchemasWithin[schema \in Schemas] ==
  {schema} \cup UNION {SchemasWithin[n] : n \in Nested(schema)}

ValuesWithin[value \in Values] ==
  {value} \cup UNION {ValuesWithin[part] : part \in Parts(value)}

(***************************************************************************)
(* What a document decodes to, and a body, is a finite tree; references    *)
(* are finitely many; the properties of a schema have an order.            *)
(***************************************************************************)
ASSUME TreesAssumption ==
  /\ Depth \in [Schemas \cup Values -> Nat]
  /\ \A schema \in Schemas : \A n \in Nested(schema) :
       n \in Schemas /\ Depth[n] < Depth[schema]
  /\ \A value \in Values : \A part \in Parts(value) :
       part \in Values /\ Depth[part] < Depth[value]

Compositions == {"absent", "oneOf", "anyOf", "allOf", "not"}

ASSUME SchemasAssumption ==
  /\ NameOrder \in Seq(Range(NameOrder))
  /\ \A schema \in Schemas :
       /\ Names(schema.properties) \subseteq Range(NameOrder)
       /\ schema.items = <<>> \/ DOMAIN schema.items = {1}
       /\ schema.composition \in Compositions
  /\ \A value \in Values : value.kind = "array" => value.items \in Seq(Values)

ASSUME ReferencesAssumption ==
  /\ IsFiniteSet(LocalRefs)
  /\ DOMAIN Components \subseteq LocalRefs
  /\ Components \in [DOMAIN Components -> Schemas]

-----------------------------------------------------------------------------
(***************************************************************************)
(* validateSchema.  A rejection is a violation of the contract, or names   *)
(* what the validator cannot decide: an unsupported feature, a cyclic or   *)
(* an unresolved reference.  The references that are being resolved are    *)
(* those on the way from the root to this schema.                          *)
(***************************************************************************)
Checks == [schema : Schemas, value : Values, resolving : SUBSET LocalRefs]

Verdict(holds) == IF holds THEN "ok" ELSE "violation"

\* The first of two errors, and of a sequence of them.
Then(first, second) == IF first = "ok" THEN second ELSE first

FirstError(verdicts) ==
  LET errors == {i \in DOMAIN verdicts : verdicts[i] # "ok"}
  IN  IF errors = {} THEN "ok" ELSE verdicts[Min(errors)]

SchemaType(schema) ==
  IF /\ schema.type = "absent"
     /\ Names(schema.properties) # {} \/ schema.required # {}
    THEN "object" ELSE schema.type

ScalarKinds ==
  [string |-> {"string"}, integer |-> {"integer"},
   number |-> {"integer", "whole", "fraction"}, boolean |-> {"boolean"}]

ValidateEnum(schema, value) ==
  Verdict(schema.enum = {} \/ value \in schema.enum)

\* Mutant of ValidateAdditionalProperties: what is false is not enforced.
AllowAdditionalProperties(schema, value) == "ok"

\* Mutant of ValidateAdditionalProperties: absent is taken for false.
ForbidAdditionalProperties(schema, value) ==
  LET extra == Names(value.fields) \ Names(schema.properties)
  IN  Verdict(schema.additionalProperties = "true" \/ extra = {})

ValidateAdditionalProperties(schema, value) ==
  LET extra == Names(value.fields) \ Names(schema.properties)
  IN  CASE schema.additionalProperties = "schema" /\ extra # {} ->
             "additional_properties_schema"
        [] schema.additionalProperties = "false" -> Verdict(extra = {})
        [] OTHER -> "ok"

\* validate is validateSchema, for what is inside and for what is referenced.
Inside(check, schema, value) ==
  [schema |-> schema, value |-> value, resolving |-> check.resolving]

ValidateProperty(validate, check, name) ==
  IF name \in Names(check.schema.properties) \cap Names(check.value.fields)
    THEN validate[Inside(check, check.schema.properties[name],
                                check.value.fields[name])]
    ELSE "ok"

ValidateObject(validate, check) ==
  IF ~ (check.schema.required \subseteq Names(check.value.fields))
    THEN "violation"
    ELSE Then(FirstError([i \in DOMAIN NameOrder |->
                            ValidateProperty(validate, check, NameOrder[i])]),
              ValidateAdditionalProperties(check.schema, check.value))

ValidateArray(validate, check) ==
  IF check.schema.items = <<>> THEN "ok"
  ELSE FirstError([i \in DOMAIN check.value.items |->
         validate[Inside(check, check.schema.items[1], check.value.items[i])]])

Referenced(check) ==
  [schema |-> Components[check.schema.ref], value |-> check.value,
   resolving |-> check.resolving \cup {check.schema.ref}]

ValidateReferencedSchema(validate, check) ==
  CASE check.schema.ref \notin LocalRefs -> "non_local_refs"
    [] check.schema.ref \in check.resolving -> "cyclic"
    [] check.schema.ref \in LocalRefs \ (check.resolving \cup DOMAIN Components) ->
         "unresolved"
    [] OTHER -> validate[Referenced(check)]

ValidateType(validate, check) ==
  LET type == SchemaType(check.schema)
      kind == check.value.kind
  IN  CASE type \in {"object", "array"} /\ kind # type -> "violation"
        [] type = "object" /\ kind = "object" -> ValidateObject(validate, check)
        [] type = "array" /\ kind = "array" -> ValidateArray(validate, check)
        [] type \in DOMAIN ScalarKinds -> Verdict(kind \in ScalarKinds[type])
        [] OTHER -> "violation"

\* A schema without a type accepts every value, whatever its enum says.
ValidateSchema[check \in Checks] ==
  LET schema == check.schema
  IN  CASE schema.ref # "absent" -> ValidateReferencedSchema(ValidateSchema, check)
        [] schema.ref = "absent" /\ check.value = Null /\ schema.nullable -> "ok"
        [] OTHER ->
             IF schema.composition # "absent" THEN schema.composition
             ELSE IF SchemaType(schema) = "absent" THEN "ok"
             ELSE Then(ValidateType(ValidateSchema, check),
                       ValidateEnum(schema, check.value))

-----------------------------------------------------------------------------
(***************************************************************************)
(* findOperation.  A path is its segments and the slashes around them,     *)
(* which splitPath drops; "{id}" stands for a segment in braces.            *)
(***************************************************************************)
Lower(method) == IF method \in {"GET", "Get"} THEN "get" ELSE method

PathMatches(template, path) ==
  /\ Len(template.segments) = Len(path.segments)
  /\ \A i \in 1 .. Len(path.segments) :
       IF template.segments[i] = "{id}"
         THEN path.segments[i] # ""
         ELSE template.segments[i] = path.segments[i]

\* Mutant of Candidates: a template counts even when the path is there as such.
CandidatesWithExact(operations, method, path) ==
  {o \in operations : o.method = Lower(method) /\ PathMatches(o.path, path)}

\* The operations left in the race: the exact path's if it has one.
Candidates(operations, method, path) ==
  LET exact == {o \in operations : o.method = Lower(method) /\ o.path = path}
  IN  IF exact # {} THEN exact
      ELSE {o \in operations :
              o.method = Lower(method) /\ PathMatches(o.path, path)}

(***************************************************************************)
(* ValidateResponseRule.  An operation's responses map a status or         *)
(* "default" to what they may contain: nothing, JSON, or something else;   *)
(* or they are a "reference" to a response with the document's schema,     *)
(* which decodes to a response without content.                            *)
(* A body that is not one JSON value is Malformed.                         *)
(***************************************************************************)
Malformed == Scalar("malformed", "")

\* The check of a body begins with no reference being resolved.
Check(schema, value) ==
  [schema |-> schema, value |-> value, resolving |-> {}]

ResponseFor(operation, status) ==
  IF status \in DOMAIN operation.responses THEN operation.responses[status]
  ELSE IF "default" \in DOMAIN operation.responses
    THEN operation.responses["default"]
  ELSE "undefined"

\* A media type counts in any case, and without its parameters.
NormalizeContentType(contentType) ==
  IF contentType \in {"application/json; charset=utf-8", "Application/JSON"}
    THEN "application/json" ELSE contentType

ValidateContent(content, schema, rule) ==
  CASE content = "undefined" -> "violation"
    [] content \in {"nothing", "reference"} -> "ok"
    [] content = "other" -> "violation"
    [] content = "json" ->
         IF \/ NormalizeContentType(rule.contentType) # "application/json"
            \/ rule.body = Malformed
           THEN "violation"
           ELSE ValidateSchema[Check(schema, rule.body)]

ValidateResponseRule(document, rule) ==
  LET found == Candidates(document.operations, rule.method, rule.path)
      operation == CHOOSE o \in found : TRUE
  IN  IF found = {} THEN "violation"
      ELSE IF \E o, p \in found : o # p THEN "ambiguous"
      ELSE ValidateContent(ResponseFor(operation, rule.status), document.schema, rule)

-----------------------------------------------------------------------------
(***************************************************************************)
(* LoadOpenAPIFile.  A document is what its file holds ("missing",         *)
(* "broken" if it is not JSON, "json"), the version it declares, its       *)
(* paths, the operations under them, and one schema that its contents      *)
(* share.  misfits are the legal parts that the Go types of the decoder do *)
(* not take, which is an error like a syntax error: a path item's          *)
(* parameters, summary, servers or $ref, a schema's list of types.         *)
(* hugeNumber says whether some number in it is beyond float64.            *)
(***************************************************************************)
SupportedVersions == {"3.0.0", "3.0.3"}

LoadOpenAPIFile(document) ==
  CASE document.file = "missing" -> "unreadable_file"
    [] document.file = "broken" -> "invalid_json"
    [] document.file = "json" ->
         IF document.misfits # {} THEN "invalid_json"
         ELSE IF document.openapi \notin SupportedVersions
           THEN "unsupported_openapi_version"
         ELSE IF document.paths = {} THEN "missing_paths"
         ELSE "loaded"

(***************************************************************************)
(* scanUnsupportedFeatures walks the whole document and takes the keywords *)
(* where it finds them; unsupportedFeatureWarnings words one warning for   *)
(* each.  Their counts are abstracted to their presence.  A number beyond  *)
(* float64 anywhere in the document ends the walk before it begins.        *)
(***************************************************************************)
FeaturesOf(schema) ==
  ({schema.composition} \cap {"allOf", "oneOf", "anyOf"})
  \cup (IF schema.ref \in LocalRefs \cup {"absent"} THEN {} ELSE {"non_local_refs"})
  \cup (IF schema.additionalProperties = "schema"
          THEN {"additional_properties_schema"} ELSE {})

\* The schemas at and below one, and those that references reach.
SchemasFrom(root) ==
  SchemasWithin[root]
  \cup UNION {SchemasWithin[Components[ref]] : ref \in DOMAIN Components}

ScanUnsupportedFeatures(document) ==
  IF document.hugeNumber THEN {}
  ELSE UNION {FeaturesOf(schema) : schema \in SchemasFrom(document.schema)}

Contents == {"nothing", "reference", "other", "json"}

\* Paths, methods and statuses are the keys of maps.
ASSUME InputsAssumption ==
  \A i \in Inputs :
    /\ i.document.schema \in Schemas
    /\ i.rule.body \in Values \cup {Malformed}
    /\ \A o, p \in i.document.operations :
         (o.method = p.method /\ o.path = p.path) => o = p
    /\ \A o \in i.document.operations :
         \A status \in DOMAIN o.responses : o.responses[status] \in Contents

-----------------------------------------------------------------------------
Init ==
  /\ input \in Inputs
  /\ outcome = "pending"
  /\ announced = {}
  /\ verdict = "pending"

Load ==
  /\ outcome = "pending"
  /\ outcome' = LoadOpenAPIFile(input.document)
  /\ announced' = IF outcome' = "loaded"
                    THEN ScanUnsupportedFeatures(input.document) ELSE {}
  /\ UNCHANGED <<input, verdict>>

Validate ==
  /\ outcome = "loaded"
  /\ verdict = "pending"
  /\ verdict' = ValidateResponseRule(input.document, input.rule)
  /\ UNCHANGED <<input, outcome, announced>>

Next == Load \/ Validate

Spec == Init /\ [][Next]_openAPIVars

-----------------------------------------------------------------------------
(***************************************************************************)
(* What the keywords mean: every keyword constrains a value of the kind it *)
(* is about and no other, all of them together, and null is a value of a   *)
(* nullable schema.  Numbers are numbers however they are written.  A      *)
(* cycle of references that no value feeds, an unknown reference and a     *)
(* composition admit nothing here.                                         *)
(***************************************************************************)
KindAdmitted(type, kind) ==
  \/ type = "absent"
  \/ type \in {"string", "boolean", "object", "array"} /\ kind = type
  \/ type = "integer" /\ kind \in {"integer", "whole", "huge"}
  \/ type = "number" /\ kind \in {"integer", "whole", "fraction", "huge"}

SameValue(v, w) == v = w \/ <<v, w>> \in SameNumber

AdmitsFields(admits, schema, value) ==
  /\ schema.required \subseteq Names(value.fields)
  /\ \A name \in Names(schema.properties) \cap Names(value.fields) :
       admits[Check(schema.properties[name], value.fields[name])]
  /\ schema.additionalProperties = "false" =>
       Names(value.fields) \subseteq Names(schema.properties)

Admits[check \in Checks] ==
  LET schema == check.schema
      value == check.value
  IN  IF schema.ref # "absent"
        THEN /\ schema.ref \in DOMAIN Components \ check.resolving
             /\ Admits[Referenced(check)]
      ELSE \/ schema.nullable /\ value = Null
           \/ /\ schema.composition = "absent"
              /\ KindAdmitted(schema.type, value.kind)
              /\ schema.enum = {} \/ \E v \in schema.enum : SameValue(v, value)
              /\ value.kind = "object" => AdmitsFields(Admits, schema, value)
              /\ (value.kind = "array" /\ schema.items # <<>>) =>
                   \A i \in DOMAIN value.items :
                     Admits[Check(schema.items[1], value.items[i])]

Accepted == verdict = "ok"

(***************************************************************************)
(* The rule reaches the check of its body.                                 *)
(***************************************************************************)
BodyDecides ==
  LET found ==
        Candidates(input.document.operations, input.rule.method, input.rule.path)
  IN  /\ outcome = "loaded"
      /\ NormalizeContentType(input.rule.contentType) = "application/json"
      /\ input.rule.body # Malformed
      /\ \E o \in found : found = {o} /\ ResponseFor(o, input.rule.status) = "json"

(***************************************************************************)
(* No body gets past a schema that does not admit it, references, arrays   *)
(* and nesting included.  Without a type the validator looks at no other   *)
(* keyword (see EnumIsEnforced): a document with such a schema is left out *)
(* here.                                                                   *)
(***************************************************************************)
IgnoresKeywords(schema) ==
  /\ SchemaType(schema) = "absent"
  /\ \/ schema.enum # {}
     \/ schema.items # <<>>
     \/ schema.additionalProperties = "false"

AcceptsOnlyAdmitted ==
  (/\ Accepted /\ BodyDecides
   /\ \A schema \in SchemasFrom(input.document.schema) : ~ IgnoresKeywords(schema)) =>
    Admits[Check(input.document.schema, input.rule.body)]

(***************************************************************************)
(* A body the schema admits is never called a violation: it is refused     *)
(* only when the validator says that it cannot decide.  (A schema with     *)
(* properties but no type is taken for an object's, whole numbers in a     *)
(* spelling or a size that strconv does not take for no integers, and an   *)
(* enum lists the spellings of its numbers.)                               *)
(***************************************************************************)
ImplicitObject(schema) ==
  schema.type = "absent" /\ SchemaType(schema) = "object"

\* The value has numbers only as the validator and the enum expect them.
PlainFor(schema, value) ==
  /\ value.kind \notin {"whole", "huge"}
  /\ \A v \in schema.enum : SameValue(v, value) => v = value

AdmittedIsNoViolation ==
  (/\ BodyDecides
   /\ Admits[Check(input.document.schema, input.rule.body)]
   /\ \A schema \in SchemasFrom(input.document.schema) :
        /\ ~ ImplicitObject(schema)
        /\ \A value \in ValuesWithin[input.rule.body] : PlainFor(schema, value)) =>
    verdict # "violation"

(***************************************************************************)
(* Templates never overrule a path that is in the contract, and two of     *)
(* them never both answer: a rule is ambiguous only when no operation has  *)
(* its very path, and then at least two templates match it.                *)
(***************************************************************************)
RoutesAreUnambiguous ==
  LET matching == {o \in input.document.operations :
        o.method = Lower(input.rule.method)
          /\ PathMatches(o.path, input.rule.path)}
      exact == {o \in matching : o.path = input.rule.path}
  IN  /\ verdict = "ambiguous" => exact = {} /\ \E o, p \in matching : o # p
      /\ (Accepted /\ exact = {}) => \E o \in matching : matching = {o}

(***************************************************************************)
(* What makes a rule fail as unsupported was announced when the contract   *)
(* was loaded, so that an agent can tell from the reply to                 *)
(* load_openapi_contract: the scan of the raw document and the validator,  *)
(* which reads the decoded one, know the same features.  (The scan does    *)
(* not know "not", and knows nothing of a document with a huge number.)    *)
(***************************************************************************)
UnsupportedFeatures ==
  {"non_local_refs", "allOf", "oneOf", "anyOf", "additional_properties_schema"}

RefusedFeatureIsAnnounced ==
  verdict \in UnsupportedFeatures /\ ~ input.document.hugeNumber =>
    verdict \in announced

(***************************************************************************)
(* docs/reference/mcp-tools.md:120, among what is validated, "required     *)
(* properties, enum, nullable": a value that an enum does not list is not  *)
(* accepted.                                                               *)
(***************************************************************************)
EnumIsEnforced ==
  (Accepted /\ BodyDecides /\ input.document.schema.ref = "absent"
     /\ input.document.schema.enum # {} /\ input.rule.body # Null) =>
    input.rule.body \in input.document.schema.enum

(***************************************************************************)
(* docs/reference/mcp-tools.md:124, "Unsupported features are diagnosed as *)
(* unsupported": a response that the document takes from its components by *)
(* reference is not accepted unless its schema was looked at.              *)
(***************************************************************************)
ReferencedResponseIsChecked ==
  (Accepted
     /\ \E o \in input.document.operations :
          Candidates(input.document.operations, input.rule.method, input.rule.path) = {o}
            /\ ResponseFor(o, input.rule.status) = "reference") =>
    Admits[Check(input.document.schema, input.rule.body)]

=============================================================================
